------------------------- MODULE AgentOutputProofs -------------------------
(***************************************************************************)
(* Theorems about AgentOutput, for any terminals, any bounds and any       *)
(* number of connections.                                                  *)
(***************************************************************************)
EXTENDS AgentOutput, FiniteSetTheorems, TLAPS

Entry == [items : Seq(Items), counted : BOOLEAN, away : BOOLEAN]
Backlog == [rank : Nat, items : Seq(Items), len : Nat]

(* The types of everything output passes through, and the connections.     *)
PathOK ==
  /\ said \in [Terminal -> 0 .. MaxSaid] /\ over \subseteq Terminal
  /\ pipe \in Seq(Items) /\ buf \in [Terminal -> Seq(Items)]
  /\ batched \in Seq(Seq(Items))
  /\ opened \in 0 .. MaxConn /\ current \in {0, opened} /\ broken \subseteq 1 .. opened
  /\ out \in [Conn -> Seq(Entry)]
  /\ away \in [channels : [Terminal -> Seq(Backlog)], next : Nat]
  /\ heard \in [Terminal -> SUBSET (Conn \X (1 .. MaxSaid))]

(* A frame: things one terminal said one after the other.                  *)
IsFrame(f) ==
  /\ f # <<>>
  /\ \A i \in DOMAIN f : f[i].t = f[1].t /\ f[i].n = f[1].n + i - 1

Term(f) == f[1].t
Lo(f) == f[1].n
Hi(f) == f[1].n + Len(f) - 1

(* Of one terminal, f was said before g.                                   *)
Precedes(f, g) == Term(f) = Term(g) => Hi(f) < Lo(g)

FramesOK ==
  /\ \A i \in DOMAIN batched : IsFrame(batched[i])
  /\ \A t \in Terminal : buf[t] # <<>> => IsFrame(buf[t]) /\ Term(buf[t]) = t
  /\ \A c \in Conn : \A i \in DOMAIN out[c] : IsFrame(out[c][i].items)
  /\ \A t \in Terminal : \A i \in DOMAIN away.channels[t] :
       IsFrame(away.channels[t][i].items) /\ Term(away.channels[t][i].items) = t

(* Every queue is in order.                                                *)
QueuesInOrder ==
  /\ \A i, j \in DOMAIN batched : i < j => Precedes(batched[i], batched[j])
  /\ \A c \in Conn : \A i, j \in DOMAIN out[c] :
       i < j => Precedes(out[c][i].items, out[c][j].items)
  /\ \A t \in Terminal : \A i, j \in DOMAIN away.channels[t] :
       i < j => /\ Precedes(away.channels[t][i].items, away.channels[t][j].items)
                /\ away.channels[t][i].rank < away.channels[t][j].rank
  /\ \A t \in Terminal : \A i \in DOMAIN away.channels[t] :
       away.channels[t][i].rank < away.next

(* A connection is sent what is newer than all that earlier ones were sent.*)
ConnsInOrder ==
  /\ \A c, d \in Conn : c < d => \A i \in DOMAIN out[c], j \in DOMAIN out[d] :
       Precedes(out[c][i].items, out[d][j].items)
  /\ \A c \in Conn : \A i \in DOMAIN out[c] : \A p \in heard[Term(out[c][i].items)] :
       IF p[1] <= c THEN p[2] < Lo(out[c][i].items) ELSE Hi(out[c][i].items) < p[2]
  /\ \A c \in Conn : c > opened => out[c] = <<>> /\ \A t \in Terminal : \A p \in heard[t] : p[1] # c

(* Nothing is kept while the hub's connection takes frames.                *)
AwayWhenDown ==
  current # 0 /\ current \notin broken => \A t \in Terminal : away.channels[t] = <<>>

(* How far what a terminal said has come, at least: to a connection, to    *)
(* the away queue, out of the batch loop and into it.                      *)
Marks == [Terminal -> [sent : Nat, kept : Nat, flushed : Nat, accepted : Nat]]

MarksRise(m) ==
  \A t \in Terminal :
    /\ m[t].sent <= m[t].kept /\ m[t].kept <= m[t].flushed
    /\ m[t].flushed <= m[t].accepted /\ m[t].accepted <= said[t]

(* The stages of a terminal's output, between the marks.                   *)
SentTo(m) ==
  /\ \A t \in Terminal : \A p \in heard[t] : p[2] <= m[t].sent
  /\ \A c \in Conn : \A i \in DOMAIN out[c] :
       Hi(out[c][i].items) <= m[Term(out[c][i].items)].sent
KeptTo(m) ==
  \A t \in Terminal : \A i \in DOMAIN away.channels[t] :
    /\ m[t].sent < Lo(away.channels[t][i].items)
    /\ Hi(away.channels[t][i].items) <= m[t].kept
FlushedTo(m) ==
  \A i \in DOMAIN batched :
    /\ m[Term(batched[i])].kept < Lo(batched[i])
    /\ Hi(batched[i]) <= m[Term(batched[i])].flushed
AcceptedTo(m) ==
  \A t \in Terminal : buf[t] # <<>> =>
    m[t].flushed < Lo(buf[t]) /\ Hi(buf[t]) = m[t].accepted

(* What the readers said and the batch loop has not taken, without a gap.  *)
SaidAfter(m) ==
  /\ \A i \in DOMAIN pipe :
       /\ m[pipe[i].t].accepted < pipe[i].n /\ pipe[i].n <= said[pipe[i].t]
       /\ \/ pipe[i].n = m[pipe[i].t].accepted + 1
          \/ \E j \in DOMAIN pipe :
               j < i /\ pipe[j].t = pipe[i].t /\ pipe[j].n + 1 = pipe[i].n
  /\ \A i, j \in DOMAIN pipe : i < j /\ pipe[i].t = pipe[j].t => pipe[i].n < pipe[j].n
  /\ \A t \in Terminal :
       \/ said[t] = m[t].accepted
       \/ \E i \in DOMAIN pipe : pipe[i].t = t /\ pipe[i].n = said[t]

Staged(m) ==
  /\ MarksRise(m) /\ SentTo(m) /\ KeptTo(m)
  /\ FlushedTo(m) /\ AcceptedTo(m) /\ SaidAfter(m)

(* The state is in order, for these marks.                                 *)
Ordered(m) ==
  /\ PathOK /\ FramesOK /\ QueuesInOrder /\ ConnsInOrder /\ AwayWhenDown
  /\ m \in Marks /\ Staged(m)

OrderInv == \E m : Ordered(m)
-----------------------------------------------------------------------------
(* Sums.                                                                   *)

Cells(f) == UNION {{i} \X (1 .. f[i]) : i \in DOMAIN f}

LEMMA CellsAre ==
  ASSUME NEW f
  PROVE  /\ Total(f) = Cardinality(Cells(f))
         /\ \A p : p \in Cells(f) <=> \E i \in DOMAIN f : \E k \in 1 .. f[i] : p = <<i, k>>
<1>1. Total(f) = Cardinality(Cells(f))
  BY DEF Total, Cells
<1>2. ASSUME NEW p
      PROVE  p \in Cells(f) <=> \E i \in DOMAIN f : \E k \in 1 .. f[i] : p = <<i, k>>
  <2>1. p \in Cells(f) <=> \E i \in DOMAIN f : p \in {i} \X (1 .. f[i])
    BY DEF Cells
  <2>2. \A i \in DOMAIN f : p \in {i} \X (1 .. f[i]) <=> \E k \in 1 .. f[i] : p = <<i, k>>
    OBVIOUS
  <2>. QED
    BY <2>1, <2>2
<1>. QED
  BY <1>1, <1>2

LEMMA CellsAreFinite ==
  ASSUME NEW S, IsFiniteSet(S), NEW f \in [S -> Nat]
  PROVE  IsFiniteSet(Cells(f)) /\ Total(f) \in Nat
<1>. DEFINE g == [i \in S |-> {i} \X (1 .. f[i])]
            T == {{i} \X (1 .. f[i]) : i \in S}
<1>1. g \in Surjection(S, T)
  BY DEF Surjection
<1>2. IsFiniteSet(T)
  BY <1>1, FS_Surjection
<1>3. ASSUME NEW i \in S
      PROVE  IsFiniteSet({i} \X (1 .. f[i]))
  <2>1. IsFiniteSet({i}) /\ f[i] \in Int
    BY FS_Singleton
  <2>2. IsFiniteSet(1 .. f[i])
    BY <2>1, FS_Interval
  <2>. QED
    BY <2>1, <2>2, FS_Product
<1>4. \A s \in T : IsFiniteSet(s)
  BY <1>3
<1>5. Cells(f) = UNION T
  BY DEF Cells
<1>6. IsFiniteSet(Cells(f))
  BY <1>2, <1>4, <1>5, FS_UNION
<1>. QED
  BY <1>6, CellsAre, FS_CardinalityType
-----------------------------------------------------------------------------
(* Sequences and frames.                                                   *)

LEMMA Bounds ==
  /\ MaxSaid \in Nat /\ MaxConn \in Nat /\ High \in Nat /\ Low \in Nat /\ Low < High
  /\ BatchMax \in Nat /\ EventSize \in Nat /\ Header \in Nat
  /\ PerTerminal \in Nat /\ PerHub \in Nat /\ IsFiniteSet(Terminal)
BY FlowMarks

LEMMA ItemFacts ==
  \A x \in Items : x.t \in Terminal /\ x.n \in Nat /\ x.n \in 1 .. MaxSaid
BY Bounds DEF Items

LEMMA ElementOf ==
  ASSUME NEW S, NEW s \in Seq(S), NEW i \in DOMAIN s
  PROVE  s[i] \in S /\ i \in Nat /\ 1 <= i /\ i <= Len(s) /\ Len(s) \in Nat
OBVIOUS

LEMMA TailFacts ==
  ASSUME NEW S, NEW s \in Seq(S), s # <<>>
  PROVE  /\ Head(s) = s[1] /\ 1 \in DOMAIN s /\ Head(s) \in S
         /\ Tail(s) \in Seq(S)
         /\ \A i \in DOMAIN Tail(s) :
              i + 1 \in DOMAIN s /\ Tail(s)[i] = s[i + 1] /\ i \in Int /\ i > 0
         /\ \A i \in DOMAIN s : i > 1 => i - 1 \in DOMAIN Tail(s) /\ Tail(s)[i - 1] = s[i]
OBVIOUS

LEMMA AppendFacts ==
  ASSUME NEW S, NEW s \in Seq(S), NEW e \in S
  PROVE  /\ Append(s, e) \in Seq(S)
         /\ Len(Append(s, e)) = Len(s) + 1
         /\ \A i \in DOMAIN Append(s, e) :
              /\ i \in Int /\ i <= Len(s) + 1
              /\ \/ i \in DOMAIN s /\ i <= Len(s) /\ Append(s, e)[i] = s[i]
                 \/ i = Len(s) + 1 /\ Append(s, e)[i] = e
         /\ \A i \in DOMAIN s : i \in DOMAIN Append(s, e) /\ Append(s, e)[i] = s[i]
         /\ Len(s) + 1 \in DOMAIN Append(s, e) /\ Append(s, e)[Len(s) + 1] = e
OBVIOUS

LEMMA ConcatFacts ==
  ASSUME NEW S, NEW s \in Seq(S), NEW t \in Seq(S)
  PROVE  /\ s \o t \in Seq(S)
         /\ \A i \in DOMAIN (s \o t) :
              /\ i \in Int
              /\ \/ i \in DOMAIN s /\ i <= Len(s) /\ (s \o t)[i] = s[i]
                 \/ i - Len(s) \in DOMAIN t /\ i > Len(s) /\ (s \o t)[i] = t[i - Len(s)]
OBVIOUS

LEMMA FrameFacts ==
  ASSUME NEW f \in Seq(Items), IsFrame(f)
  PROVE  /\ f[1] \in Items /\ Term(f) \in Terminal /\ Lo(f) \in Nat /\ Hi(f) \in Nat
         /\ 1 <= Lo(f) /\ Lo(f) <= Hi(f) /\ Hi(f) <= MaxSaid
         /\ f[Len(f)].n = Hi(f) /\ Len(f) \in Nat /\ Len(f) > 0
<1>1. Len(f) \in Nat /\ Len(f) > 0 /\ 1 \in DOMAIN f /\ Len(f) \in DOMAIN f
  BY DEF IsFrame
<1>2. f[1] \in Items /\ f[Len(f)] \in Items
  BY <1>1
<1>3. f[Len(f)].n = f[1].n + Len(f) - 1
  BY <1>1 DEF IsFrame
<1>. QED
  BY <1>1, <1>2, <1>3, Bounds DEF Items, Term, Lo, Hi

(* One thing is a frame.                                                   *)
LEMMA FrameOfOne ==
  ASSUME NEW x \in Items
  PROVE  /\ <<x>> \in Seq(Items) /\ IsFrame(<<x>>)
         /\ Term(<<x>>) = x.t /\ Lo(<<x>>) = x.n /\ Hi(<<x>>) = x.n
<1>1. x.n \in Int
  BY Bounds DEF Items
<1>. QED
  BY <1>1 DEF IsFrame, Term, Lo, Hi

(* A frame grows by what its terminal said next.                           *)
LEMMA FrameGrows ==
  ASSUME NEW f \in Seq(Items), NEW x \in Items,
         f = <<>> \/ (IsFrame(f) /\ Term(f) = x.t /\ x.n = Hi(f) + 1)
  PROVE  /\ Append(f, x) \in Seq(Items) /\ IsFrame(Append(f, x))
         /\ Term(Append(f, x)) = x.t /\ Hi(Append(f, x)) = x.n
         /\ Lo(Append(f, x)) = IF f = <<>> THEN x.n ELSE Lo(f)
<1>1. CASE f = <<>>
  <2>1. Append(f, x) = <<x>>
    BY <1>1
  <2>. QED
    BY <1>1, <2>1, FrameOfOne
<1>2. CASE f # <<>>
  <2>1. IsFrame(f) /\ f[1].t = x.t /\ x.n = f[1].n + Len(f) /\ Lo(f) \in Nat /\ Len(f) \in Nat
    BY <1>2, FrameFacts DEF Term, Hi, Lo
  <2>2. 1 \in DOMAIN f /\ Append(f, x)[1] = f[1] /\ Append(f, x) # <<>>
    BY <1>2
  <2>3. \A i \in DOMAIN Append(f, x) :
          Append(f, x)[i].t = f[1].t /\ Append(f, x)[i].n = f[1].n + i - 1
    <3>1. TAKE i \in DOMAIN Append(f, x)
    <3>2. CASE i \in DOMAIN f /\ Append(f, x)[i] = f[i]
      BY <2>1, <3>2 DEF IsFrame
    <3>3. CASE i = Len(f) + 1 /\ Append(f, x)[i] = x
      BY <2>1, <3>3 DEF Lo
    <3>. QED
      BY <3>2, <3>3, AppendFacts
  <2>. QED
    BY <1>2, <2>1, <2>2, <2>3, AppendFacts DEF IsFrame, Term, Lo, Hi
<1>. QED
  BY <1>1, <1>2

-----------------------------------------------------------------------------
(* The readers.                                                            *)

(* Nothing of a terminal's output moves.                                   *)
LEMMA NothingMoves ==
  ASSUME NEW m, Ordered(m),
         UNCHANGED <<said, over, pipe, buf, batched, routes, out, away, heard>>
  PROVE  Ordered(m)'
<1>. USE DEF routes
<1>1. PathOK' /\ FramesOK' /\ QueuesInOrder' /\ ConnsInOrder' /\ AwayWhenDown'
  BY DEF Ordered, PathOK, FramesOK, QueuesInOrder, ConnsInOrder, AwayWhenDown
<1>2. Staged(m)'
  BY DEF Ordered, Staged, MarksRise, SentTo, KeptTo, FlushedTo, AcceptedTo, SaidAfter
<1>. QED
  BY <1>1, <1>2 DEF Ordered

LEMMA MarkFacts ==
  ASSUME NEW m \in Marks, NEW t \in Terminal
  PROVE  /\ m[t].sent \in Nat /\ m[t].kept \in Nat
         /\ m[t].flushed \in Nat /\ m[t].accepted \in Nat
BY DEF Marks

LEMMA SaidKeeps ==
  ASSUME NEW m, Ordered(m), NEW t \in Terminal, NEW kind \in {"output", "event", "exit"},
         Said(t, kind), over' \subseteq Terminal
  PROVE  Ordered(m)'
<1>. DEFINE x == Item(t, said[t] + 1, kind)
<1>1. said[t] \in Nat /\ said[t] < MaxSaid /\ said' = [said EXCEPT ![t] = said[t] + 1]
  BY Bounds DEF Said, Ordered, PathOK
<1>2. x \in Items /\ x.t = t /\ x.n = said[t] + 1
  BY <1>1, Bounds DEF Item, Items
<1>3. pipe' = Append(pipe, x) /\ pipe \in Seq(Items)
  BY DEF Said, Ordered, PathOK
<1>4. UNCHANGED <<buf, batched, current, opened, broken, out, away, heard>>
  BY DEF Said, routes
<1>. HIDE DEF x
<1>5. said' \in [Terminal -> 0 .. MaxSaid]
  BY <1>1, Bounds DEF Ordered, PathOK
<1>6. PathOK'
  BY <1>2, <1>3, <1>4, <1>5, AppendFacts DEF Ordered, PathOK
<1>7. FramesOK' /\ QueuesInOrder' /\ ConnsInOrder' /\ AwayWhenDown'
  BY <1>4 DEF Ordered, FramesOK, QueuesInOrder, ConnsInOrder, AwayWhenDown
<1>8. SentTo(m)' /\ KeptTo(m)' /\ FlushedTo(m)' /\ AcceptedTo(m)'
  BY <1>4 DEF Ordered, Staged, SentTo, KeptTo, FlushedTo, AcceptedTo
<1>9. \A u \in Terminal : said'[u] = (IF u = t THEN said[t] + 1 ELSE said[u]) /\ said[u] <= said'[u]
                          /\ said[u] \in Nat /\ said'[u] \in Nat /\ m[u].accepted \in Nat
                          /\ m[u].accepted <= said[u]
  BY <1>1, MarkFacts, Bounds DEF Ordered, PathOK, Staged, MarksRise
<1>10. MarksRise(m)'
  BY <1>9, MarkFacts DEF Ordered, Staged, MarksRise
<1>11. SaidAfter(m)'
  <2>1. \A i \in DOMAIN pipe' : (i \in DOMAIN pipe /\ pipe'[i] = pipe[i])
                                 \/ (i = Len(pipe) + 1 /\ pipe'[i] = x)
    BY <1>2, <1>3, AppendFacts
  <2>2. \A i \in DOMAIN pipe : i \in DOMAIN pipe' /\ pipe'[i] = pipe[i] /\ i <= Len(pipe) /\ i \in Nat
    BY <1>2, <1>3, AppendFacts
  <2>3. \A i \in DOMAIN pipe : pipe[i] \in Items /\ pipe[i].t \in Terminal /\ pipe[i].n \in Nat
    BY <1>3, ElementOf, ItemFacts
  <2>4. Len(pipe) + 1 \in DOMAIN pipe' /\ pipe'[Len(pipe) + 1] = x /\ Len(pipe) \in Nat
    BY <1>2, <1>3, AppendFacts
  <2>5. ASSUME NEW i \in DOMAIN pipe'
        PROVE  /\ m[pipe'[i].t].accepted < pipe'[i].n /\ pipe'[i].n <= said'[pipe'[i].t]
               /\ \/ pipe'[i].n = m[pipe'[i].t].accepted + 1
                  \/ \E j \in DOMAIN pipe' :
                       j < i /\ pipe'[j].t = pipe'[i].t /\ pipe'[j].n + 1 = pipe'[i].n
    <3>1. CASE i \in DOMAIN pipe /\ pipe'[i] = pipe[i]
      <4>1. /\ m[pipe[i].t].accepted < pipe[i].n /\ pipe[i].n <= said[pipe[i].t]
            /\ \/ pipe[i].n = m[pipe[i].t].accepted + 1
               \/ \E j \in DOMAIN pipe :
                    j < i /\ pipe[j].t = pipe[i].t /\ pipe[j].n + 1 = pipe[i].n
        BY <3>1 DEF Ordered, Staged, SaidAfter
      <4>2. pipe[i].n <= said'[pipe[i].t]
        BY <1>9, <2>3, <3>1, <4>1
      <4>. QED
        BY <2>2, <3>1, <4>1, <4>2
    <3>2. CASE i = Len(pipe) + 1 /\ pipe'[i] = x
      <4>1. said[t] = m[t].accepted \/ \E j \in DOMAIN pipe : pipe[j].t = t /\ pipe[j].n = said[t]
        BY DEF Ordered, Staged, SaidAfter
      <4>2. \A j \in DOMAIN pipe : j < i
        BY <2>2, <2>4, <3>2
      <4>3. m[t].accepted < x.n /\ x.n <= said'[t]
        BY <1>2, <1>9
      <4>. QED
        BY <1>2, <1>9, <2>2, <3>2, <4>1, <4>2, <4>3
    <3>. QED
      BY <2>1, <3>1, <3>2
  <2>6. ASSUME NEW i \in DOMAIN pipe', NEW j \in DOMAIN pipe', i < j, pipe'[i].t = pipe'[j].t
        PROVE  pipe'[i].n < pipe'[j].n
    <3>1. i \in DOMAIN pipe /\ pipe'[i] = pipe[i]
      BY <2>1, <2>2, <2>4, <2>6
    <3>2. CASE j \in DOMAIN pipe /\ pipe'[j] = pipe[j]
      BY <2>6, <3>1, <3>2 DEF Ordered, Staged, SaidAfter
    <3>3. CASE pipe'[j] = x
      <4>1. pipe[i].n <= said[pipe[i].t]
        BY <3>1 DEF Ordered, Staged, SaidAfter
      <4>. QED
        BY <1>1, <1>2, <2>3, <2>6, <3>1, <3>3, <4>1
    <3>. QED
      BY <2>1, <3>2, <3>3
  <2>7. ASSUME NEW u \in Terminal
        PROVE  said'[u] = m[u].accepted \/ \E i \in DOMAIN pipe' : pipe'[i].t = u /\ pipe'[i].n = said'[u]
    <3>1. CASE u = t
      BY <1>2, <1>9, <2>4, <3>1
    <3>2. CASE u # t
      BY <1>9, <2>2, <3>2 DEF Ordered, Staged, SaidAfter
    <3>. QED
      BY <3>1, <3>2
  <2>. QED
    BY <2>5, <2>6, <2>7 DEF SaidAfter
<1>. QED
  BY <1>6, <1>7, <1>8, <1>10, <1>11 DEF Ordered, Staged

-----------------------------------------------------------------------------
(* The batch loop.                                                         *)

(* Frames newer than what was flushed go to the router.                    *)
LEMMA BatchedGrows ==
  ASSUME NEW m, Ordered(m), NEW m2 \in Marks, NEW new \in Seq(Seq(Items)),
         batched' = batched \o new,
         \A t \in Terminal : m2[t].kept = m[t].kept /\ m[t].flushed <= m2[t].flushed,
         \A i \in DOMAIN new :
           /\ IsFrame(new[i]) /\ m[Term(new[i])].flushed < Lo(new[i])
           /\ Hi(new[i]) <= m2[Term(new[i])].flushed,
         \A i, j \in DOMAIN new : i < j => Precedes(new[i], new[j])
  PROVE  /\ batched' \in Seq(Seq(Items))
         /\ \A i \in DOMAIN batched' : IsFrame(batched'[i])
         /\ \A i, j \in DOMAIN batched' : i < j => Precedes(batched'[i], batched'[j])
         /\ FlushedTo(m2)'
<1>1. batched \in Seq(Seq(Items)) /\ m \in Marks
  BY DEF Ordered, PathOK
<1>2. batched' \in Seq(Seq(Items))
  BY <1>1
<1>3. \A i \in DOMAIN batched' :
        /\ i \in Int
        /\ \/ i \in DOMAIN batched /\ i <= Len(batched) /\ batched'[i] = batched[i]
           \/ /\ i - Len(batched) \in DOMAIN new /\ i > Len(batched)
              /\ batched'[i] = new[i - Len(batched)]
  BY <1>1, ConcatFacts
<1>4. \A i \in DOMAIN batched :
        /\ batched[i] \in Seq(Items) /\ IsFrame(batched[i])
        /\ m[Term(batched[i])].kept < Lo(batched[i])
        /\ Hi(batched[i]) <= m[Term(batched[i])].flushed
  BY <1>1, ElementOf DEF Ordered, FramesOK, Staged, FlushedTo
<1>5. \A i \in DOMAIN new : new[i] \in Seq(Items) /\ IsFrame(new[i])
  BY ElementOf
<1>6. \A f \in Seq(Items) : IsFrame(f) => Term(f) \in Terminal /\ Lo(f) \in Nat /\ Hi(f) \in Nat
  BY FrameFacts
<1>7. \A t \in Terminal : /\ m[t].kept \in Nat /\ m[t].flushed \in Nat /\ m2[t].flushed \in Nat
                          /\ m[t].kept <= m[t].flushed
  BY <1>1, MarkFacts DEF Ordered, Staged, MarksRise
<1>8. \A i \in DOMAIN batched' : IsFrame(batched'[i])
  BY <1>3, <1>4, <1>5
<1>9. ASSUME NEW i \in DOMAIN batched', NEW j \in DOMAIN batched', i < j
      PROVE  Precedes(batched'[i], batched'[j])
  <2>1. CASE i \in DOMAIN batched /\ batched'[i] = batched[i]
    <3>1. CASE j \in DOMAIN batched /\ batched'[j] = batched[j]
      BY <1>9, <2>1, <3>1 DEF Ordered, QueuesInOrder
    <3>2. CASE j - Len(batched) \in DOMAIN new /\ batched'[j] = new[j - Len(batched)]
      <4>. DEFINE g == new[j - Len(batched)]
      <4>1. g \in Seq(Items) /\ IsFrame(g) /\ m[Term(g)].flushed < Lo(g)
        BY <1>5, <3>2
      <4>2. batched'[j] = g
        BY <3>2
      <4>. HIDE DEF g
      <4>. QED
        BY <1>4, <1>6, <1>7, <2>1, <4>1, <4>2 DEF Precedes
    <3>. QED
      BY <1>3, <3>1, <3>2
  <2>2. CASE i - Len(batched) \in DOMAIN new /\ i > Len(batched) /\ batched'[i] = new[i - Len(batched)]
    <3>1. j \notin DOMAIN batched \/ ~(j <= Len(batched))
      BY <1>1, <1>3, <1>9, <2>2
    <3>2. j - Len(batched) \in DOMAIN new /\ batched'[j] = new[j - Len(batched)]
      BY <1>3, <3>1
    <3>3. i - Len(batched) < j - Len(batched)
      BY <1>1, <1>3, <1>9
    <3>. QED
      BY <2>2, <3>2, <3>3
  <2>. QED
    BY <1>3, <2>1, <2>2
<1>10. ASSUME NEW i \in DOMAIN batched'
       PROVE  /\ m2[Term(batched'[i])].kept < Lo(batched'[i])
              /\ Hi(batched'[i]) <= m2[Term(batched'[i])].flushed
  <2>1. \A t \in Terminal : /\ m2[t].kept = m[t].kept /\ m[t].flushed <= m2[t].flushed
                            /\ m2[t].kept \in Nat
    BY MarkFacts
  <2>2. \A f \in Seq(Items) :
          /\ IsFrame(f)
          /\ \/ m[Term(f)].kept < Lo(f) /\ Hi(f) <= m[Term(f)].flushed
             \/ m[Term(f)].flushed < Lo(f) /\ Hi(f) <= m2[Term(f)].flushed
          => m2[Term(f)].kept < Lo(f) /\ Hi(f) <= m2[Term(f)].flushed
    <3>1. TAKE f \in Seq(Items)
    <3>2. HAVE /\ IsFrame(f)
               /\ \/ m[Term(f)].kept < Lo(f) /\ Hi(f) <= m[Term(f)].flushed
                  \/ m[Term(f)].flushed < Lo(f) /\ Hi(f) <= m2[Term(f)].flushed
    <3>. DEFINE t == Term(f)
    <3>3. t \in Terminal /\ Lo(f) \in Nat /\ Hi(f) \in Nat
      BY <1>6, <3>2
    <3>4. \/ m[t].kept < Lo(f) /\ Hi(f) <= m[t].flushed
          \/ m[t].flushed < Lo(f) /\ Hi(f) <= m2[t].flushed
      BY <3>2
    <3>. HIDE DEF t
    <3>5. m2[t].kept < Lo(f) /\ Hi(f) <= m2[t].flushed
      BY <1>7, <2>1, <3>3, <3>4
    <3>. QED
      BY <3>5 DEF t
  <2>3. CASE i \in DOMAIN batched /\ batched'[i] = batched[i]
    BY <1>4, <2>2, <2>3
  <2>4. CASE i - Len(batched) \in DOMAIN new /\ batched'[i] = new[i - Len(batched)]
    <3>. DEFINE g == new[i - Len(batched)]
    <3>1. g \in Seq(Items) /\ IsFrame(g) /\ m[Term(g)].flushed < Lo(g)
          /\ Hi(g) <= m2[Term(g)].flushed
      BY <1>5, <2>4
    <3>2. batched'[i] = g
      BY <2>4
    <3>. HIDE DEF g
    <3>. QED
      BY <2>2, <3>1, <3>2
  <2>. QED
    BY <1>3, <2>3, <2>4
<1>. QED
  BY <1>2, <1>8, <1>9, <1>10 DEF FlushedTo

(* The next thing of a terminal is the one after what was accepted.        *)
LEMMA PipeHead ==
  ASSUME NEW m, Ordered(m), pipe # <<>>
  PROVE  /\ Head(pipe) \in Items /\ Head(pipe).t \in Terminal
         /\ Head(pipe).n = m[Head(pipe).t].accepted + 1
         /\ Head(pipe).n <= said[Head(pipe).t]
<1>1. pipe \in Seq(Items)
  BY DEF Ordered, PathOK
<1>2. Head(pipe) = pipe[1] /\ 1 \in DOMAIN pipe /\ pipe[1] \in Items
  BY <1>1, TailFacts
<1>3. \A j \in DOMAIN pipe : ~(j < 1)
  BY <1>1
<1>. QED
  BY <1>2, <1>3, ItemFacts DEF Ordered, Staged, SaidAfter

LEMMA PipeShorter ==
  ASSUME NEW m, Ordered(m), pipe # <<>>, pipe' = Tail(pipe), UNCHANGED said,
         NEW m2 \in Marks, m2[Head(pipe).t].accepted = Head(pipe).n,
         \A u \in Terminal : u # Head(pipe).t => m2[u].accepted = m[u].accepted
  PROVE  pipe' \in Seq(Items) /\ SaidAfter(m2)'
<1>1. pipe \in Seq(Items) /\ m \in Marks
  BY DEF Ordered, PathOK
<1>2. Head(pipe) = pipe[1] /\ 1 \in DOMAIN pipe /\ Tail(pipe) \in Seq(Items)
  BY <1>1, TailFacts
<1>3. \A i \in DOMAIN pipe' : i + 1 \in DOMAIN pipe /\ pipe'[i] = pipe[i + 1] /\ i \in Int /\ i > 0
  BY <1>1, TailFacts
<1>4. \A i \in DOMAIN pipe : i > 1 => i - 1 \in DOMAIN pipe' /\ pipe'[i - 1] = pipe[i]
  BY <1>1, TailFacts
<1>5. \A i \in DOMAIN pipe : pipe[i].t \in Terminal /\ pipe[i].n \in Nat /\ i \in Nat /\ 1 <= i
  BY <1>1, ElementOf, ItemFacts
<1>6. /\ pipe[1].t \in Terminal /\ pipe[1].n = m[pipe[1].t].accepted + 1
      /\ m2[pipe[1].t].accepted = pipe[1].n
  BY <1>2, PipeHead
<1>7. \A u \in Terminal : /\ m[u].accepted \in Nat /\ m2[u].accepted \in Nat
                          /\ u # pipe[1].t => m2[u].accepted = m[u].accepted
  BY <1>1, <1>2, MarkFacts
<1>8. \A i, j \in DOMAIN pipe : i < j /\ pipe[i].t = pipe[j].t => pipe[i].n < pipe[j].n
  BY DEF Ordered, Staged, SaidAfter
<1>9. ASSUME NEW i \in DOMAIN pipe'
      PROVE  /\ m2[pipe'[i].t].accepted < pipe'[i].n /\ pipe'[i].n <= said'[pipe'[i].t]
             /\ \/ pipe'[i].n = m2[pipe'[i].t].accepted + 1
                \/ \E j \in DOMAIN pipe' :
                     j < i /\ pipe'[j].t = pipe'[i].t /\ pipe'[j].n + 1 = pipe'[i].n
  <2>. DEFINE k == i + 1
  <2>1. k \in DOMAIN pipe /\ pipe'[i] = pipe[k] /\ k > 1 /\ i = k - 1
    BY <1>3
  <2>2. /\ m[pipe[k].t].accepted < pipe[k].n /\ pipe[k].n <= said[pipe[k].t]
        /\ \/ pipe[k].n = m[pipe[k].t].accepted + 1
           \/ \E j \in DOMAIN pipe :
                j < k /\ pipe[j].t = pipe[k].t /\ pipe[j].n + 1 = pipe[k].n
    BY <2>1 DEF Ordered, Staged, SaidAfter
  <2>. HIDE DEF k
  <2>3. m2[pipe[k].t].accepted < pipe[k].n
    BY <1>2, <1>5, <1>6, <1>7, <1>8, <2>1, <2>2
  <2>4. CASE pipe[k].n = m[pipe[k].t].accepted + 1
    <3>1. pipe[k].t # pipe[1].t
      BY SMTT(30), <1>2, <1>5, <1>6, <1>7, <1>8, <2>1, <2>4
    <3>. QED
      BY <1>5, <1>7, <2>1, <2>2, <2>3, <2>4, <3>1
  <2>5. CASE \E j \in DOMAIN pipe : j < k /\ pipe[j].t = pipe[k].t /\ pipe[j].n + 1 = pipe[k].n
    <3>1. PICK j \in DOMAIN pipe : j < k /\ pipe[j].t = pipe[k].t /\ pipe[j].n + 1 = pipe[k].n
      BY <2>5
    <3>2. CASE j = 1
      BY <1>6, <2>1, <2>2, <2>3, <3>1, <3>2
    <3>3. CASE j # 1
      <4>1. j > 1 /\ j - 1 < i
        BY <1>5, <2>1, <3>1, <3>3
      <4>2. j - 1 \in DOMAIN pipe' /\ pipe'[j - 1] = pipe[j]
        BY <1>4, <4>1
      <4>. QED
        BY <2>1, <2>2, <2>3, <3>1, <4>1, <4>2
    <3>. QED
      BY <3>2, <3>3
  <2>. QED
    BY <2>2, <2>4, <2>5
<1>10. ASSUME NEW i \in DOMAIN pipe', NEW j \in DOMAIN pipe', i < j, pipe'[i].t = pipe'[j].t
       PROVE  pipe'[i].n < pipe'[j].n
  <2>1. i + 1 < j + 1
    BY <1>3, <1>10
  <2>. QED
    BY <1>3, <1>8, <1>10, <2>1
<1>11. ASSUME NEW u \in Terminal
       PROVE  \/ said'[u] = m2[u].accepted
              \/ \E i \in DOMAIN pipe' : pipe'[i].t = u /\ pipe'[i].n = said'[u]
  <2>1. CASE said[u] = m[u].accepted
    <3>1. u # pipe[1].t
      <4>1. m[pipe[1].t].accepted < pipe[1].n /\ pipe[1].n <= said[pipe[1].t]
        BY <1>2 DEF Ordered, Staged, SaidAfter
      <4>2. said[u] \in Nat
        BY DEF Ordered, PathOK
      <4>. QED
        BY <1>5, <1>2, <1>7, <2>1, <4>1, <4>2
    <3>. QED
      BY <1>7, <2>1, <3>1
  <2>2. CASE \E i \in DOMAIN pipe : pipe[i].t = u /\ pipe[i].n = said[u]
    <3>1. PICK i \in DOMAIN pipe : pipe[i].t = u /\ pipe[i].n = said[u]
      BY <2>2
    <3>2. CASE i = 1
      BY <1>6, <3>1, <3>2
    <3>3. CASE i # 1
      <4>1. i > 1
        BY <1>5, <3>3
      <4>. QED
        BY <1>4, <3>1, <4>1
    <3>. QED
      BY <3>2, <3>3
  <2>. QED
    BY <2>1, <2>2 DEF Ordered, Staged, SaidAfter
<1>. QED
  BY <1>2, <1>9, <1>10, <1>11 DEF SaidAfter

MarkOf(s, k, f, a) == [sent |-> s, kept |-> k, flushed |-> f, accepted |-> a]

(* A terminal gets other marks.                                            *)
Marked(m, t, mark) == [u \in Terminal |-> IF u = t THEN mark ELSE m[u]]

IsMarked(m2, m, t, s, k, f, a) ==
  /\ m2 \in Marks
  /\ m2[t].sent = s /\ m2[t].kept = k /\ m2[t].flushed = f /\ m2[t].accepted = a
  /\ \A u \in Terminal : u # t => m2[u] = m[u]

LEMMA MarkedFacts ==
  ASSUME NEW m \in Marks, NEW t \in Terminal,
         NEW s \in Nat, NEW k \in Nat, NEW f \in Nat, NEW a \in Nat
  PROVE  IsMarked(Marked(m, t, MarkOf(s, k, f, a)), m, t, s, k, f, a)
<1>. DEFINE m2 == Marked(m, t, MarkOf(s, k, f, a))
<1>1. m2 \in Marks
  BY DEF Marks, Marked, MarkOf
<1>2. m2[t] = [sent |-> s, kept |-> k, flushed |-> f, accepted |-> a]
  BY DEF Marked, MarkOf
<1>3. \A u \in Terminal : u # t => m2[u] = m[u]
  BY DEF Marked
<1>. HIDE DEF m2
<1>4. IsMarked(m2, m, t, s, k, f, a)
  BY <1>1, <1>2, <1>3 DEF IsMarked
<1>. QED
  BY <1>4 DEF m2

(* Frames under way are frames of terminals.                               *)
IsTyped(f) ==
  /\ f \in Seq(Items) /\ IsFrame(f) /\ Term(f) \in Terminal
  /\ Lo(f) \in Nat /\ Hi(f) \in Nat /\ Lo(f) <= Hi(f)

LEMMA FramesTyped ==
  ASSUME PathOK, FramesOK
  PROVE  /\ \A i \in DOMAIN batched : IsTyped(batched[i]) /\ Term(batched[i]) \in Terminal
         /\ \A c \in Conn : \A i \in DOMAIN out[c] :
              IsTyped(out[c][i].items) /\ Term(out[c][i].items) \in Terminal
         /\ \A t \in Terminal : \A i \in DOMAIN away.channels[t] :
              IsTyped(away.channels[t][i].items)
<1>1. \A f \in Seq(Items) : IsFrame(f) => IsTyped(f) /\ Term(f) \in Terminal
  BY FrameFacts DEF IsTyped
<1>2. \A i \in DOMAIN batched : batched[i] \in Seq(Items) /\ IsFrame(batched[i])
  BY ElementOf DEF PathOK, FramesOK
<1>3. ASSUME NEW c \in Conn, NEW i \in DOMAIN out[c]
      PROVE  out[c][i].items \in Seq(Items) /\ IsFrame(out[c][i].items)
  <2>1. out[c] \in Seq(Entry)
    BY DEF PathOK
  <2>2. out[c][i] \in Entry
    BY <2>1, ElementOf
  <2>. QED
    BY <2>2 DEF FramesOK, Entry
<1>4. ASSUME NEW t \in Terminal, NEW i \in DOMAIN away.channels[t]
      PROVE  away.channels[t][i].items \in Seq(Items) /\ IsFrame(away.channels[t][i].items)
  <2>1. away.channels[t] \in Seq(Backlog)
    BY DEF PathOK
  <2>2. away.channels[t][i] \in Backlog
    BY <2>1, ElementOf
  <2>. QED
    BY <2>2 DEF FramesOK, Backlog
<1>. QED
  BY <1>1, <1>2, <1>3, <1>4

LEMMA AcceptKeeps ==
  ASSUME NEW m, Ordered(m), Accept
  PROVE  \E m2 : Ordered(m2)'
<1>. DEFINE x == Head(pipe)
            t == x.t
            held == buf[t]
            grown == Append(held, x)
<1>1. /\ pipe # <<>> /\ pipe' = Tail(pipe)
      /\ UNCHANGED <<said, over, current, opened, broken, out, away, heard>>
  BY DEF Accept, readers, routes
<1>2. x \in Items /\ t \in Terminal /\ x.n = m[t].accepted + 1 /\ x.n <= said[t] /\ x.n \in Nat
  BY <1>1, PipeHead, ItemFacts
<1>3. held \in Seq(Items) /\ m \in Marks /\ buf \in [Terminal -> Seq(Items)]
  BY <1>2 DEF Ordered, PathOK
<1>4. held # <<>> => IsFrame(held) /\ Term(held) = t /\ m[t].flushed < Lo(held) /\ Hi(held) = m[t].accepted
  BY <1>2 DEF Ordered, FramesOK, Staged, AcceptedTo
<1>5. /\ m[t].sent \in Nat /\ m[t].kept \in Nat /\ m[t].flushed \in Nat /\ m[t].accepted \in Nat
      /\ m[t].sent <= m[t].kept /\ m[t].kept <= m[t].flushed /\ m[t].flushed <= m[t].accepted
  BY <1>2, <1>3, MarkFacts DEF Ordered, Staged, MarksRise
<1>6. held = <<>> \/ (IsFrame(held) /\ Term(held) = x.t /\ x.n = Hi(held) + 1)
  BY <1>2, <1>4
<1>7. \/ /\ buf' = [buf EXCEPT ![t] = grown] /\ batched' = batched
      \/ /\ buf' = [buf EXCEPT ![t] = <<>>]
         /\ batched' = batched \o (IF x.kind = "output" THEN <<grown>> ELSE FlushThen(held, x))
  BY DEF Accept
<1>. HIDE DEF x, t, held
<1>8. /\ grown \in Seq(Items) /\ IsFrame(grown) /\ Term(grown) = t /\ Hi(grown) = x.n
      /\ m[t].flushed < Lo(grown)
  <2>1. /\ grown \in Seq(Items) /\ IsFrame(grown) /\ Term(grown) = x.t /\ Hi(grown) = x.n
        /\ Lo(grown) = IF held = <<>> THEN x.n ELSE Lo(held)
    BY <1>2, <1>3, <1>6, FrameGrows
  <2>2. x.t = t
    BY DEF t
  <2>. QED
    BY <1>2, <1>4, <1>5, <2>1, <2>2
<1>. HIDE DEF grown
<1>9. x = Head(pipe) /\ t = Head(pipe).t /\ held = buf[t]
  BY DEF x, t, held
<1>10. ConnsInOrder' /\ AwayWhenDown'
  BY <1>1 DEF Ordered, ConnsInOrder, AwayWhenDown
<1>11. \A u \in Terminal : /\ m[u].sent <= m[u].kept /\ m[u].kept <= m[u].flushed
                           /\ m[u].flushed <= m[u].accepted /\ m[u].accepted <= said[u]
  BY DEF Ordered, Staged, MarksRise
<1>12. CASE buf' = [buf EXCEPT ![t] = grown] /\ batched' = batched
  <2>1. PICK m2 : IsMarked(m2, m, t, m[t].sent, m[t].kept, m[t].flushed, x.n)
    BY <1>2, <1>3, <1>5, MarkedFacts
  <2>0. /\ m2 \in Marks
        /\ m2[t].sent = m[t].sent /\ m2[t].kept = m[t].kept
        /\ m2[t].flushed = m[t].flushed /\ m2[t].accepted = x.n
        /\ \A u \in Terminal : u # t => m2[u] = m[u]
    BY <2>1 DEF IsMarked
  <2>2. pipe' \in Seq(Items) /\ SaidAfter(m2)'
    BY <1>1, <1>9, <2>0, PipeShorter
  <2>3. \A u \in Terminal : buf'[u] = IF u = t THEN grown ELSE buf[u]
    BY <1>2, <1>3, <1>12
  <2>4. buf' \in [Terminal -> Seq(Items)]
    BY <1>3, <1>8, <1>12
  <2>5. PathOK'
    BY <1>1, <1>12, <2>2, <2>4 DEF Ordered, PathOK
  <2>6. FramesOK'
    BY <1>1, <1>8, <1>12, <2>3 DEF Ordered, FramesOK
  <2>7. QueuesInOrder'
    BY <1>1, <1>12 DEF Ordered, QueuesInOrder
  <2>8. MarksRise(m2)'
    BY <1>1, <1>2, <1>5, <1>11, <2>0 DEF MarksRise
  <2>9. \A u \in Terminal : m2[u].sent = m[u].sent /\ m2[u].kept = m[u].kept /\ m2[u].flushed = m[u].flushed
    BY <2>0
  <2>10. SentTo(m2)'
    BY <1>1, <2>9, FramesTyped DEF Ordered, Staged, SentTo
  <2>11. KeptTo(m2)'
    BY <1>1, <2>9 DEF Ordered, Staged, KeptTo
  <2>12. FlushedTo(m2)'
    BY <1>12, <2>9, FramesTyped DEF Ordered, Staged, FlushedTo
  <2>13. AcceptedTo(m2)'
    BY <1>8, <2>0, <2>3 DEF Ordered, Staged, AcceptedTo
  <2>14. Staged(m2)'
    BY <2>2, <2>8, <2>10, <2>11, <2>12, <2>13 DEF Staged
  <2>15. Ordered(m2)'
    BY <1>10, <2>0, <2>5, <2>6, <2>7, <2>14 DEF Ordered
  <2>. QED
    BY <2>15
<1>13. CASE /\ buf' = [buf EXCEPT ![t] = <<>>]
            /\ batched' = batched \o (IF x.kind = "output" THEN <<grown>> ELSE FlushThen(held, x))
  <2>. DEFINE new == IF x.kind = "output" THEN <<grown>> ELSE FlushThen(held, x)
  <2>1. PICK m2 : IsMarked(m2, m, t, m[t].sent, m[t].kept, x.n, x.n)
    BY <1>2, <1>3, <1>5, MarkedFacts
  <2>0. /\ m2 \in Marks
        /\ m2[t].sent = m[t].sent /\ m2[t].kept = m[t].kept
        /\ m2[t].flushed = x.n /\ m2[t].accepted = x.n
        /\ \A u \in Terminal : u # t => m2[u] = m[u]
    BY <2>1 DEF IsMarked
  <2>2. pipe' \in Seq(Items) /\ SaidAfter(m2)'
    BY <1>1, <1>9, <2>0, PipeShorter
  <2>3. /\ new \in Seq(Seq(Items))
        /\ \A i \in DOMAIN new :
             /\ IsFrame(new[i]) /\ Term(new[i]) = t /\ m[t].flushed < Lo(new[i])
             /\ Hi(new[i]) <= x.n
        /\ \A i, j \in DOMAIN new : i < j => Hi(new[i]) < Lo(new[j])
    <3>1. /\ <<x>> \in Seq(Items) /\ IsFrame(<<x>>) /\ Term(<<x>>) = t
          /\ Lo(<<x>>) = x.n /\ Hi(<<x>>) = x.n /\ m[t].flushed < Lo(<<x>>)
      BY <1>2, <1>5, FrameOfOne DEF t
    <3>2. CASE new = <<grown>>
      <4>. HIDE DEF new
      <4>. QED
        BY <1>2, <1>8, <3>2
    <3>3. CASE new = <<<<x>>>>
      <4>. DEFINE e == <<x>>
      <4>1. /\ e \in Seq(Items) /\ IsFrame(e) /\ Term(e) = t
            /\ Lo(e) = x.n /\ Hi(e) = x.n /\ m[t].flushed < Lo(e) /\ new = <<e>>
        BY <3>1, <3>3
      <4>. HIDE DEF e, new
      <4>. QED
        BY <1>2, <4>1
    <3>4. CASE held # <<>> /\ new = <<held, <<x>>>>
      <4>. DEFINE e == <<x>>
      <4>1. /\ e \in Seq(Items) /\ IsFrame(e) /\ Term(e) = t
            /\ Lo(e) = x.n /\ Hi(e) = x.n /\ m[t].flushed < Lo(e) /\ new = <<held, e>>
        BY <3>1, <3>4
      <4>2. IsFrame(held) /\ Term(held) = t /\ m[t].flushed < Lo(held) /\ Hi(held) < x.n /\ Hi(held) \in Nat
        BY <1>2, <1>4, <1>5, <3>4
      <4>. HIDE DEF e, new
      <4>. QED
        BY <1>2, <1>3, <4>1, <4>2
    <3>. QED
      BY <3>2, <3>3, <3>4 DEF FlushThen
  <2>4. batched' = batched \o new
    BY <1>13
  <2>. HIDE DEF new
  <2>5. /\ batched' \in Seq(Seq(Items))
        /\ \A i \in DOMAIN batched' : IsFrame(batched'[i])
        /\ \A i, j \in DOMAIN batched' : i < j => Precedes(batched'[i], batched'[j])
        /\ FlushedTo(m2)'
    <3>1. \A u \in Terminal : m2[u].kept = m[u].kept /\ m[u].flushed <= m2[u].flushed
      BY SMTT(30), <1>2, <1>3, <1>5, <2>0, MarkFacts
    <3>2. \A i \in DOMAIN new :
            /\ IsFrame(new[i]) /\ m[Term(new[i])].flushed < Lo(new[i])
            /\ Hi(new[i]) <= m2[Term(new[i])].flushed
      BY <2>0, <2>3
    <3>3. \A i, j \in DOMAIN new : i < j => Precedes(new[i], new[j])
      BY <2>3 DEF Precedes
    <3>. QED
      BY <2>0, <2>3, <2>4, <3>1, <3>2, <3>3, BatchedGrows
  <2>6. \A u \in Terminal : buf'[u] = IF u = t THEN <<>> ELSE buf[u]
    BY <1>2, <1>3, <1>13
  <2>7. buf' \in [Terminal -> Seq(Items)]
    <3>1. <<>> \in Seq(Items) /\ buf' = [buf EXCEPT ![t] = <<>>]
      BY <1>13
    <3>. QED
      BY <1>2, <1>3, <3>1
  <2>8. PathOK'
    BY <1>1, <2>2, <2>5, <2>7 DEF Ordered, PathOK
  <2>9. FramesOK'
    BY <1>1, <2>5, <2>6 DEF Ordered, FramesOK
  <2>10. QueuesInOrder'
    BY <1>1, <2>5 DEF Ordered, QueuesInOrder
  <2>11. MarksRise(m2)'
    BY <1>1, <1>2, <1>5, <1>11, <2>0 DEF MarksRise
  <2>12. \A u \in Terminal : m2[u].sent = m[u].sent /\ m2[u].kept = m[u].kept
    BY <2>0
  <2>13. SentTo(m2)'
    BY <1>1, <2>12, FramesTyped DEF Ordered, Staged, SentTo
  <2>14. KeptTo(m2)'
    BY <1>1, <2>12 DEF Ordered, Staged, KeptTo
  <2>15. AcceptedTo(m2)'
    BY <2>0, <2>6 DEF Ordered, Staged, AcceptedTo
  <2>16. Staged(m2)'
    BY <2>2, <2>5, <2>11, <2>13, <2>14, <2>15 DEF Staged
  <2>17. Ordered(m2)'
    BY <1>10, <2>0, <2>8, <2>9, <2>10, <2>16 DEF Ordered
  <2>. QED
    BY <2>17
<1>. QED
  BY <1>7, <1>12, <1>13


LEMMA SetToSeqsFacts ==
  ASSUME NEW S, IsFiniteSet(S), NEW order \in SetToSeqs(S)
  PROVE  /\ order \in Seq(S) /\ Len(order) \in Nat
         /\ \A i, j \in DOMAIN order : i # j => order[i] # order[j]
<1>1. Cardinality(S) \in Nat
  BY FS_CardinalityType
<1>. QED
  BY <1>1 DEF SetToSeqs

LEMMA FlushAllKeeps ==
  ASSUME NEW m, Ordered(m), FlushAll
  PROVE  \E m2 : Ordered(m2)'
<1>. DEFINE S == {t \in Terminal : buf[t] # <<>>}
<1>1. PICK order \in SetToSeqs(S) : batched' = batched \o [i \in 1 .. Len(order) |-> buf[order[i]]]
  BY DEF FlushAll
<1>2. /\ buf' = [t \in Terminal |-> <<>>]
      /\ UNCHANGED <<said, over, pipe, current, opened, broken, out, away, heard>>
  BY DEF FlushAll, readers, routes
<1>3. IsFiniteSet(S)
  BY Bounds, FS_Subset
<1>4. /\ order \in Seq(S) /\ Len(order) \in Nat
      /\ \A i, j \in DOMAIN order : i # j => order[i] # order[j]
  BY <1>1, <1>3, SetToSeqsFacts
<1>5. buf \in [Terminal -> Seq(Items)] /\ m \in Marks
  BY DEF Ordered, PathOK
<1>6. \A u \in Terminal :
        /\ m[u].sent \in Nat /\ m[u].kept \in Nat /\ m[u].flushed \in Nat /\ m[u].accepted \in Nat
        /\ m[u].sent <= m[u].kept /\ m[u].kept <= m[u].flushed
        /\ m[u].flushed <= m[u].accepted /\ m[u].accepted <= said[u]
  BY <1>5, MarkFacts DEF Ordered, Staged, MarksRise
<1>7. \A u \in S : /\ buf[u] \in Seq(Items) /\ IsFrame(buf[u]) /\ Term(buf[u]) = u
                   /\ m[u].flushed < Lo(buf[u]) /\ Hi(buf[u]) = m[u].accepted
  BY <1>5 DEF Ordered, FramesOK, Staged, AcceptedTo
<1>8. \A i \in DOMAIN order : order[i] \in S /\ order[i] \in Terminal
  BY <1>4, ElementOf
<1>. DEFINE new == [i \in 1 .. Len(order) |-> buf[order[i]]]
<1>9. /\ new \in Seq(Seq(Items)) /\ DOMAIN new = DOMAIN order
      /\ \A i \in DOMAIN new : new[i] = buf[order[i]]
  BY <1>4, <1>7, <1>8
<1>. HIDE DEF S, new
<1>10. PICK m2 : m2 = [u \in Terminal |-> MarkOf(m[u].sent, m[u].kept, m[u].accepted, m[u].accepted)]
  OBVIOUS
<1>11. m2 \in Marks
  BY <1>6, <1>10 DEF Marks, MarkOf
<1>12. \A u \in Terminal : /\ m2[u].sent = m[u].sent /\ m2[u].kept = m[u].kept
                           /\ m2[u].flushed = m[u].accepted /\ m2[u].accepted = m[u].accepted
  BY <1>10 DEF MarkOf
<1>13. /\ batched' \in Seq(Seq(Items))
       /\ \A i \in DOMAIN batched' : IsFrame(batched'[i])
       /\ \A i, j \in DOMAIN batched' : i < j => Precedes(batched'[i], batched'[j])
       /\ FlushedTo(m2)'
  <2>1. batched' = batched \o new
    BY <1>1 DEF new
  <2>2. \A u \in Terminal : m2[u].kept = m[u].kept /\ m[u].flushed <= m2[u].flushed
    BY <1>6, <1>12
  <2>3. \A i \in DOMAIN new : /\ IsFrame(new[i]) /\ Term(new[i]) = order[i]
                              /\ m[order[i]].flushed < Lo(new[i])
                              /\ Hi(new[i]) = m2[order[i]].flushed /\ Hi(new[i]) \in Nat
    <3>1. TAKE i \in DOMAIN new
    <3>2. PICK u \in S : u = order[i] /\ u \in Terminal /\ new[i] = buf[u]
      BY <1>8, <1>9
    <3>3. /\ IsFrame(buf[u]) /\ Term(buf[u]) = u
          /\ m[u].flushed < Lo(buf[u]) /\ Hi(buf[u]) = m[u].accepted
      BY <1>7
    <3>4. m2[u].flushed = m[u].accepted /\ m[u].accepted \in Nat
      BY <1>6, <1>12, <3>2
    <3>. QED
      BY <3>2, <3>3, <3>4
  <2>4. \A i \in DOMAIN new :
          /\ IsFrame(new[i]) /\ m[Term(new[i])].flushed < Lo(new[i])
          /\ Hi(new[i]) <= m2[Term(new[i])].flushed
    BY <2>3
  <2>5. \A i, j \in DOMAIN new : i < j => Precedes(new[i], new[j])
    BY <1>4, <1>9, <2>3 DEF Precedes
  <2>. QED
    BY <1>9, <1>11, <2>1, <2>2, <2>4, <2>5, BatchedGrows
<1>14. \A u \in Terminal : buf'[u] = <<>>
  BY <1>2
<1>15. PathOK'
  <2>1. buf' \in [Terminal -> Seq(Items)]
    BY <1>2
  <2>. QED
    BY <1>2, <1>13, <2>1 DEF Ordered, PathOK
<1>16. FramesOK' /\ QueuesInOrder' /\ ConnsInOrder' /\ AwayWhenDown'
  <2>1. FramesOK'
    BY <1>2, <1>13, <1>14 DEF Ordered, FramesOK
  <2>2. QueuesInOrder' /\ ConnsInOrder' /\ AwayWhenDown'
    BY <1>2, <1>13 DEF Ordered, QueuesInOrder, ConnsInOrder, AwayWhenDown
  <2>. QED
    BY <2>1, <2>2
<1>17. MarksRise(m2)'
  BY <1>2, <1>6, <1>12 DEF MarksRise
<1>18. SentTo(m2)'
  BY <1>2, <1>12, FramesTyped DEF Ordered, Staged, SentTo
<1>19. KeptTo(m2)' /\ AcceptedTo(m2)'
  BY <1>2, <1>12, <1>14 DEF Ordered, Staged, KeptTo, AcceptedTo
<1>20. SaidAfter(m2)'
  <2>1. \A i \in DOMAIN pipe : pipe[i].t \in Terminal
    BY ElementOf, ItemFacts DEF Ordered, PathOK
  <2>. QED
    BY <1>2, <1>12, <2>1 DEF Ordered, Staged, SaidAfter
<1>21. Staged(m2)'
  BY <1>13, <1>17, <1>18, <1>19, <1>20 DEF Staged
<1>22. Ordered(m2)'
  BY <1>11, <1>15, <1>16, <1>21 DEF Ordered
<1>. QED
  BY <1>22

-----------------------------------------------------------------------------
(* The away queue.                                                         *)

LEMMA FrameLenIsNat ==
  ASSUME NEW f \in Seq(Items)
  PROVE  FrameLen(f) \in Nat
<1>. DEFINE g == [i \in DOMAIN f |-> SizeOf(f[i])]
<1>1. DOMAIN f = 1 .. Len(f) /\ Len(f) \in Nat
  OBVIOUS
<1>2. g \in [1 .. Len(f) -> Nat]
  BY <1>1, Bounds DEF SizeOf
<1>3. IsFiniteSet(1 .. Len(f))
  BY <1>1, FS_Interval
<1>4. Total(g) \in Nat
  BY <1>2, <1>3, CellsAreFinite
<1>. QED
  BY <1>4, Bounds DEF FrameLen, TotalOf

(* The end of a queue, and never nothing of something.                     *)
EndOf(q2, q) ==
  /\ Len(q2) \in Nat /\ Len(q2) <= Len(q) /\ (q # <<>> => q2 # <<>>)
  /\ \A i \in DOMAIN q2 : /\ i + (Len(q) - Len(q2)) \in DOMAIN q
                          /\ q2[i] = q[i + (Len(q) - Len(q2))]

LEMMA DropOldestKeepsEnd ==
  ASSUME NEW S, NEW q \in Seq(S), NEW k \in Nat
  PROVE  DropOldest(q, k) \in Seq(S) /\ EndOf(DropOldest(q, k), q)
<1>. DEFINE a == IF Len(q) \in 1 .. k THEN Len(q) ELSE k + 1
<1>1. Len(q) \in Nat /\ DOMAIN q = 1 .. Len(q)
  OBVIOUS
<1>2. a \in Nat /\ a >= 1 /\ (Len(q) > 0 => a <= Len(q)) /\ DropOldest(q, k) = SubSeq(q, a, Len(q))
  BY <1>1 DEF DropOldest
<1>. HIDE DEF a
<1>3. CASE Len(q) > 0
  <2>. DEFINE d == SubSeq(q, a, Len(q))
  <2>1. d \in Seq(S) /\ Len(d) = Len(q) - a + 1 /\ DOMAIN d = 1 .. Len(q) - a + 1
    BY <1>1, <1>2, <1>3
  <2>2. \A i \in DOMAIN d : d[i] = q[i + a - 1]
    BY <1>1, <1>2, <1>3
  <2>. HIDE DEF d
  <2>3. EndOf(d, q)
    BY <1>1, <1>2, <1>3, <2>1, <2>2 DEF EndOf
  <2>. QED
    BY <1>2, <2>1, <2>3 DEF d
<1>4. CASE Len(q) = 0
  <2>1. q = <<>>
    BY <1>4
  <2>2. DropOldest(q, k) = <<>>
    BY <1>1, <1>2, <1>4
  <2>3. <<>> \in Seq(S) /\ EndOf(<<>>, <<>>)
    BY DEF EndOf
  <2>. QED
    BY <2>1, <2>2, <2>3
<1>. QED
  BY <1>1, <1>3, <1>4

LEMMA EndOfItself ==
  ASSUME NEW S, NEW q \in Seq(S)
  PROVE  EndOf(q, q)
BY DEF EndOf

LEMMA EndOfEnd ==
  ASSUME NEW S, NEW q \in Seq(S), NEW q2 \in Seq(S), NEW q3 \in Seq(S),
         EndOf(q2, q), EndOf(q3, q2)
  PROVE  EndOf(q3, q)
<1>1. Len(q) \in Nat /\ Len(q2) \in Nat /\ Len(q3) \in Nat
  OBVIOUS
<1>2. ASSUME NEW i \in DOMAIN q3
      PROVE  /\ i + (Len(q) - Len(q3)) \in DOMAIN q
             /\ q3[i] = q[i + (Len(q) - Len(q3))]
  <2>. DEFINE j == i + (Len(q2) - Len(q3))
  <2>1. j \in DOMAIN q2 /\ q3[i] = q2[j]
    BY DEF EndOf
  <2>2. j + (Len(q) - Len(q2)) \in DOMAIN q /\ q2[j] = q[j + (Len(q) - Len(q2))]
    BY <2>1 DEF EndOf
  <2>3. i \in Int /\ j + (Len(q) - Len(q2)) = i + (Len(q) - Len(q3))
    BY <1>1
  <2>. QED
    BY <2>1, <2>2, <2>3
<1>. QED
  BY <1>1, <1>2 DEF EndOf

LEMMA WithinTerminalKeepsEnd ==
  ASSUME NEW S, NEW q \in Seq(S), NEW q2 \in WithinTerminal(q)
  PROVE  q2 \in Seq(S) /\ EndOf(q2, q)
<1>1. CASE q2 = q
  BY <1>1, EndOfItself
<1>2. CASE \E k \in 0 .. Len(q) - 1 : q2 = DropOldest(q, k)
  BY <1>2, DropOldestKeepsEnd
<1>. QED
  BY <1>1, <1>2 DEF WithinTerminal

LEMMA WithinHubKeepsEnds ==
  ASSUME NEW S, NEW queues \in [Terminal -> Seq(S)], NEW left \in WithinHub(queues)
  PROVE  left \in [Terminal -> Seq(S)] /\ \A t \in Terminal : EndOf(left[t], queues[t])
<1>1. CASE left = queues
  BY <1>1, EndOfItself
<1>2. CASE left # queues
  <2>. DEFINE n == Total([t \in Terminal |-> Len(queues[t])])
  <2>1. n \in Nat
    <3>1. [t \in Terminal |-> Len(queues[t])] \in [Terminal -> Nat]
      OBVIOUS
    <3>. QED
      BY <3>1, Bounds, CellsAreFinite
  <2>. HIDE DEF n
  <2>2. PICK turns \in BoundedSeq(Terminal, n) : left = Left(queues, turns)
    BY <1>2 DEF WithinHub, n
  <2>3. PICK k \in 0 .. n : turns \in [1 .. k -> Terminal]
    BY <2>2 DEF BoundedSeq, SeqOf
  <2>4. ASSUME NEW t \in Terminal
        PROVE  Cardinality({i \in DOMAIN turns : turns[i] = t}) \in Nat
    <3>1. IsFiniteSet(1 .. k) /\ DOMAIN turns = 1 .. k
      BY <2>1, <2>3, FS_Interval
    <3>2. {i \in DOMAIN turns : turns[i] = t} \in SUBSET (1 .. k)
      BY <3>1
    <3>3. IsFiniteSet({i \in DOMAIN turns : turns[i] = t})
      BY <3>1, <3>2, FS_Subset
    <3>. QED
      BY <3>3, FS_CardinalityType
  <2>5. ASSUME NEW t \in Terminal
        PROVE  left[t] \in Seq(S) /\ EndOf(left[t], queues[t])
    <3>. DEFINE c == Cardinality({i \in DOMAIN turns : turns[i] = t})
    <3>1. left[t] = DropOldest(queues[t], c) /\ queues[t] \in Seq(S)
      BY <2>2 DEF Left
    <3>2. c \in Nat
      BY <2>4
    <3>. HIDE DEF c
    <3>. QED
      BY <3>1, <3>2, DropOldestKeepsEnd
  <2>6. left = [t \in Terminal |-> left[t]]
    BY <2>2 DEF Left
  <2>. QED
    BY <2>5, <2>6
<1>. QED
  BY <1>1, <1>2

(* A terminal's queue is in order, with what was sent before it.           *)
ChannelOK(q, t, next, sent, last) ==
  /\ \A i \in DOMAIN q : /\ q[i].items \in Seq(Items) /\ IsFrame(q[i].items) /\ Term(q[i].items) = t
                         /\ q[i].rank < next
                         /\ sent < Lo(q[i].items) /\ Hi(q[i].items) <= last
  /\ \A i, j \in DOMAIN q : i < j => /\ Precedes(q[i].items, q[j].items)
                                     /\ q[i].rank < q[j].rank

LEMMA EndIsOK ==
  ASSUME NEW q \in Seq(Backlog), NEW q2 \in Seq(Backlog), EndOf(q2, q),
         NEW t, NEW next, NEW sent, NEW last, ChannelOK(q, t, next, sent, last)
  PROVE  ChannelOK(q2, t, next, sent, last)
<1>. DEFINE d == Len(q) - Len(q2)
<1>1. d \in Int /\ \A i \in DOMAIN q2 : i \in Int /\ i + d \in DOMAIN q /\ q2[i] = q[i + d]
  BY DEF EndOf
<1>. HIDE DEF d
<1>2. \A i, j \in DOMAIN q2 : i < j => i + d < j + d
  BY <1>1
<1>. QED
  BY <1>1, <1>2 DEF ChannelOK

LEMMA GrownIsOK ==
  ASSUME NEW q \in Seq(Backlog), NEW e \in Backlog, IsFrame(e.items),
         NEW t, NEW next \in Nat, NEW sent \in Nat, NEW last \in Nat,
         ChannelOK(q, t, next, sent, last), e.rank = next, Term(e.items) = t,
         last < Lo(e.items), sent <= last
  PROVE  ChannelOK(Append(q, e), t, next + 1, sent, Hi(e.items))
<1>. DEFINE g == Append(q, e)
<1>1. \A i \in DOMAIN g : \/ i \in DOMAIN q /\ i <= Len(q) /\ g[i] = q[i]
                          \/ i = Len(q) + 1 /\ g[i] = e
  BY AppendFacts
<1>2. Len(q) \in Nat /\ \A i \in DOMAIN q : i \in Nat /\ i <= Len(q) /\ q[i] \in Backlog
  BY ElementOf
<1>3. e.items \in Seq(Items)
  BY DEF Backlog
<1>4. Lo(e.items) \in Nat /\ Hi(e.items) \in Nat /\ Lo(e.items) <= Hi(e.items)
  BY <1>3, FrameFacts
<1>5. \A i \in DOMAIN q : /\ q[i].items \in Seq(Items) /\ IsFrame(q[i].items) /\ q[i].rank \in Nat
                          /\ Hi(q[i].items) \in Nat /\ Hi(q[i].items) <= last
    BY <1>2, FrameFacts DEF ChannelOK, Backlog
<1>. HIDE DEF g
<1>6. ASSUME NEW i \in DOMAIN g
      PROVE  /\ g[i].items \in Seq(Items) /\ IsFrame(g[i].items) /\ Term(g[i].items) = t
             /\ g[i].rank < next + 1
             /\ sent < Lo(g[i].items) /\ Hi(g[i].items) <= Hi(e.items)
  <2>1. CASE i \in DOMAIN q /\ g[i] = q[i]
    <3>1. /\ Term(q[i].items) = t /\ q[i].rank < next /\ sent < Lo(q[i].items)
      BY <2>1 DEF ChannelOK
    <3>2. q[i].rank < next + 1
      BY <1>5, <2>1, <3>1
    <3>3. Hi(q[i].items) <= Hi(e.items)
      BY <1>4, <1>5, <2>1
    <3>. QED
      BY <1>5, <2>1, <3>1, <3>2, <3>3
  <2>2. CASE g[i] = e
    <3>1. sent < Lo(e.items)
      BY <1>4
    <3>. QED
      BY <1>3, <1>4, <2>2, <3>1
  <2>. QED
    BY <1>1, <2>1, <2>2
<1>7. ASSUME NEW i \in DOMAIN g, NEW j \in DOMAIN g, i < j
      PROVE  Precedes(g[i].items, g[j].items) /\ g[i].rank < g[j].rank
  <2>1. i \in DOMAIN q /\ g[i] = q[i]
    BY <1>1, <1>2, <1>7
  <2>2. CASE j \in DOMAIN q /\ g[j] = q[j]
    BY <1>7, <2>1, <2>2 DEF ChannelOK
  <2>3. CASE g[j] = e
    <3>1. q[i].rank < next
      BY <2>1 DEF ChannelOK
    <3>2. Hi(q[i].items) < Lo(e.items)
      BY <1>4, <1>5, <2>1
    <3>. QED
      BY <2>1, <2>3, <3>1, <3>2 DEF Precedes
  <2>. QED
    BY <1>1, <2>2, <2>3
<1>. QED
  BY <1>6, <1>7 DEF ChannelOK, g

(* What a terminal's queue is once a frame of t was put away.              *)
Base(t, frame) ==
  [u \in Terminal |->
    IF u = t THEN Append(away.channels[t], [rank |-> away.next, items |-> frame, len |-> FrameLen(frame)])
    ELSE away.channels[u]]

LEMMA PushKeepsEnds ==
  ASSUME PathOK, NEW frame \in Seq(Items), IsFrame(frame), Push(frame)
  PROVE  /\ away' \in [channels : [Terminal -> Seq(Backlog)], next : Nat]
         /\ away'.next = away.next + 1
         /\ Base(Term(frame), frame) \in [Terminal -> Seq(Backlog)]
         /\ \A u \in Terminal : EndOf(away'.channels[u], Base(Term(frame), frame)[u])
<1>. DEFINE t == frame[1].t
            e == [rank |-> away.next, items |-> frame, len |-> FrameLen(frame)]
            grown == Append(away.channels[t], e)
<1>1. away.channels \in [Terminal -> Seq(Backlog)] /\ away.next \in Nat
  BY DEF PathOK
<1>2. t \in Terminal
  BY FrameFacts DEF Term
<1>3. e \in Backlog
  BY <1>1, FrameLenIsNat DEF Backlog
<1>4. away.channels[t] \in Seq(Backlog)
  BY <1>1, <1>2
<1>5. grown \in Seq(Backlog)
  BY <1>3, <1>4, AppendFacts
<1>6. PICK q \in WithinTerminal(grown) : \E queues \in WithinHub([away.channels EXCEPT ![t] = q]) :
           away' = [channels |-> queues, next |-> away.next + 1]
  BY DEF Push
<1>7. PICK queues \in WithinHub([away.channels EXCEPT ![t] = q]) :
           away' = [channels |-> queues, next |-> away.next + 1]
  BY <1>6
<1>. HIDE DEF grown
<1>8. q \in Seq(Backlog) /\ EndOf(q, grown)
  BY <1>5, <1>6, WithinTerminalKeepsEnd
<1>9. [away.channels EXCEPT ![t] = q] \in [Terminal -> Seq(Backlog)]
  BY <1>1, <1>8
<1>10. /\ queues \in [Terminal -> Seq(Backlog)]
       /\ \A u \in Terminal : EndOf(queues[u], [away.channels EXCEPT ![t] = q][u])
  BY <1>7, <1>9, WithinHubKeepsEnds
<1>11. /\ Base(t, frame) \in [Terminal -> Seq(Backlog)] /\ Base(t, frame)[t] = grown
       /\ \A u \in Terminal : u # t => Base(t, frame)[u] = away.channels[u]
  <2>1. Base(t, frame) = [u \in Terminal |-> IF u = t THEN grown ELSE away.channels[u]]
    BY DEF Base, grown
  <2>. QED
    BY <1>1, <1>2, <1>5, <2>1
<1>12. ASSUME NEW u \in Terminal
       PROVE  EndOf(queues[u], Base(t, frame)[u])
  <2>1. CASE u = t
    <3>1. EndOf(queues[u], q) /\ queues[u] \in Seq(Backlog)
      BY <1>1, <1>10, <2>1
    <3>2. EndOf(queues[u], grown)
      BY <1>5, <1>8, <3>1, EndOfEnd
    <3>. QED
      BY <1>11, <2>1, <3>2
  <2>2. CASE u # t
    BY <1>1, <1>10, <1>11, <2>2
  <2>. QED
    BY <2>1, <2>2
<1>13. Term(frame) = t
  BY DEF Term
<1>. QED
  BY <1>1, <1>7, <1>10, <1>11, <1>12, <1>13

-----------------------------------------------------------------------------
(* The router.                                                             *)

(* Of a state in order, terminal by terminal.                              *)
LEMMA ChannelsOK ==
  ASSUME NEW m, Ordered(m), NEW t \in Terminal
  PROVE  ChannelOK(away.channels[t], t, away.next, m[t].sent, m[t].kept)
<1>1. \A i \in DOMAIN away.channels[t] : IsTyped(away.channels[t][i].items)
  BY FramesTyped DEF Ordered
<1>. QED
  BY <1>1 DEF Ordered, FramesOK, QueuesInOrder, Staged, KeptTo, ChannelOK, IsTyped

(* The router takes the frame at the head.                                 *)
LEMMA RouterTakes ==
  ASSUME NEW m, Ordered(m), batched # <<>>, batched' = Tail(batched),
         NEW m2 \in Marks, m2[Term(Head(batched))].kept = Hi(Head(batched)),
         \A u \in Terminal : u # Term(Head(batched)) => m2[u].kept = m[u].kept,
         \A u \in Terminal : m2[u].flushed = m[u].flushed
  PROVE  /\ batched' \in Seq(Seq(Items))
         /\ \A i \in DOMAIN batched' : IsFrame(batched'[i])
         /\ \A i, j \in DOMAIN batched' : i < j => Precedes(batched'[i], batched'[j])
         /\ FlushedTo(m2)'
<1>1. batched \in Seq(Seq(Items))
  BY DEF Ordered, PathOK
<1>2. Head(batched) = batched[1] /\ 1 \in DOMAIN batched /\ batched' \in Seq(Seq(Items))
  BY <1>1, TailFacts
<1>3. \A i \in DOMAIN batched' :
        i + 1 \in DOMAIN batched /\ batched'[i] = batched[i + 1] /\ i \in Int /\ i > 0
  BY <1>1, TailFacts
<1>4. \A i \in DOMAIN batched : IsTyped(batched[i])
  BY FramesTyped DEF Ordered
<1>5. \A i \in DOMAIN batched' : IsFrame(batched'[i])
  BY <1>3, <1>4 DEF IsTyped
<1>6. \A i, j \in DOMAIN batched : i < j => Precedes(batched[i], batched[j])
  BY DEF Ordered, QueuesInOrder
<1>7. ASSUME NEW i \in DOMAIN batched', NEW j \in DOMAIN batched', i < j
      PROVE  Precedes(batched'[i], batched'[j])
  <2>1. i + 1 < j + 1
    BY <1>3, <1>7
  <2>. QED
    BY <1>3, <1>6, <2>1
<1>8. ASSUME NEW i \in DOMAIN batched'
      PROVE  /\ m2[Term(batched'[i])].kept < Lo(batched'[i])
             /\ Hi(batched'[i]) <= m2[Term(batched'[i])].flushed
  <2>. DEFINE k == i + 1
  <2>1. k \in DOMAIN batched /\ 1 < k /\ batched'[i] = batched[k]
    BY <1>3
  <2>. HIDE DEF k
  <2>2. /\ m[Term(batched[k])].kept < Lo(batched[k])
        /\ Hi(batched[k]) <= m[Term(batched[k])].flushed
    BY <2>1 DEF Ordered, Staged, FlushedTo
  <2>3. Term(batched[k]) \in Terminal
    BY <1>4, <2>1 DEF IsTyped
  <2>4. CASE Term(batched[k]) = Term(batched[1])
    <3>1. Hi(batched[1]) < Lo(batched[k])
      BY <1>2, <1>6, <2>1, <2>4 DEF Precedes
    <3>. QED
      BY <1>2, <2>1, <2>2, <2>3, <2>4, <3>1
  <2>5. CASE Term(batched[k]) # Term(batched[1])
    BY <1>2, <2>1, <2>2, <2>3, <2>5
  <2>. QED
    BY <2>4, <2>5
<1>. QED
  BY <1>2, <1>5, <1>7, <1>8 DEF FlushedTo

LEMMA RouteAwayKeeps ==
  ASSUME NEW m, Ordered(m), Route, ~(current # 0 /\ current \notin broken)
  PROVE  \E m2 : Ordered(m2)'
<1>. DEFINE frame == Head(batched)
            t == Term(frame)
<1>1. /\ batched # <<>> /\ batched' = Tail(batched) /\ Push(frame)
      /\ UNCHANGED <<said, over, pipe, buf, current, opened, broken, out, heard>>
  BY DEF Route, readers, routes
<1>2. batched \in Seq(Seq(Items)) /\ m \in Marks
  BY DEF Ordered, PathOK
<1>3. /\ IsTyped(frame) /\ m[t].kept < Lo(frame) /\ Hi(frame) <= m[t].flushed
  <2>1. frame = batched[1] /\ 1 \in DOMAIN batched
    BY <1>1, <1>2, TailFacts
  <2>2. IsTyped(batched[1])
    BY <2>1, FramesTyped DEF Ordered
  <2>. QED
    BY <2>1, <2>2 DEF Ordered, Staged, FlushedTo
<1>4. /\ t \in Terminal /\ frame \in Seq(Items) /\ IsFrame(frame)
      /\ Lo(frame) \in Nat /\ Hi(frame) \in Nat /\ Lo(frame) <= Hi(frame)
  BY <1>3 DEF IsTyped
<1>5. \A u \in Terminal :
        /\ m[u].sent \in Nat /\ m[u].kept \in Nat /\ m[u].flushed \in Nat /\ m[u].accepted \in Nat
        /\ m[u].sent <= m[u].kept /\ m[u].kept <= m[u].flushed
        /\ m[u].flushed <= m[u].accepted /\ m[u].accepted <= said[u]
  BY <1>2, MarkFacts DEF Ordered, Staged, MarksRise
<1>6. /\ away' \in [channels : [Terminal -> Seq(Backlog)], next : Nat]
      /\ away'.next = away.next + 1
      /\ Base(t, frame) \in [Terminal -> Seq(Backlog)]
      /\ \A u \in Terminal : EndOf(away'.channels[u], Base(t, frame)[u])
  BY <1>1, <1>4, PushKeepsEnds DEF Ordered
<1>. HIDE DEF frame, t
<1>7. PICK m2 : IsMarked(m2, m, t, m[t].sent, Hi(frame), m[t].flushed, m[t].accepted)
  BY <1>2, <1>4, <1>5, MarkedFacts
<1>8. /\ m2 \in Marks
      /\ m2[t].sent = m[t].sent /\ m2[t].kept = Hi(frame)
      /\ m2[t].flushed = m[t].flushed /\ m2[t].accepted = m[t].accepted
      /\ \A u \in Terminal : u # t => m2[u] = m[u]
  BY <1>7 DEF IsMarked
<1>9. \A u \in Terminal : /\ m2[u].sent = m[u].sent /\ m2[u].flushed = m[u].flushed
                          /\ m2[u].accepted = m[u].accepted
                          /\ u # t => m2[u].kept = m[u].kept
  BY <1>8
<1>10. /\ batched' \in Seq(Seq(Items))
       /\ \A i \in DOMAIN batched' : IsFrame(batched'[i])
       /\ \A i, j \in DOMAIN batched' : i < j => Precedes(batched'[i], batched'[j])
       /\ FlushedTo(m2)'
  <2>1. t = Term(Head(batched)) /\ frame = Head(batched)
    BY DEF t, frame
  <2>. QED
    BY <1>1, <1>8, <1>9, <2>1, RouterTakes
<1>11. ASSUME NEW u \in Terminal
       PROVE  ChannelOK(away'.channels[u], u, away'.next, m2[u].sent, m2[u].kept)
  <2>1. away \in [channels : [Terminal -> Seq(Backlog)], next : Nat]
    BY DEF Ordered, PathOK
  <2>2. ChannelOK(away.channels[u], u, away.next, m[u].sent, m[u].kept)
    BY ChannelsOK
  <2>3. ChannelOK(Base(t, frame)[u], u, away.next + 1, m2[u].sent, m2[u].kept)
    <3>. DEFINE e == [rank |-> away.next, items |-> frame, len |-> FrameLen(frame)]
    <3>1. e \in Backlog /\ e.items = frame /\ e.rank = away.next
      BY <1>4, <2>1, FrameLenIsNat DEF Backlog
    <3>2. away.channels[u] \in Seq(Backlog) /\ away.next \in Nat
      BY <2>1
    <3>3. CASE u = t
      <4>1. Base(t, frame)[u] = Append(away.channels[u], e)
        BY <3>3 DEF Base
      <4>. HIDE DEF e
      <4>2. Term(e.items) = u
        BY <3>1, <3>3 DEF t
      <4>3. /\ m[u].sent \in Nat /\ m[u].kept \in Nat /\ m[u].sent <= m[u].kept
            /\ m[u].kept < Lo(e.items) /\ IsFrame(e.items)
        BY <1>3, <1>4, <1>5, <3>1, <3>3
      <4>4. ChannelOK(Append(away.channels[u], e), u, away.next + 1, m[u].sent, Hi(e.items))
        BY <2>2, <3>1, <3>2, <4>2, <4>3, GrownIsOK
      <4>. QED
        BY <1>8, <3>1, <3>3, <4>1, <4>4
    <3>4. CASE u # t
      <4>1. Base(t, frame)[u] = away.channels[u] /\ m2[u] = m[u]
        BY <1>8, <3>4 DEF Base
      <4>2. \A i \in DOMAIN away.channels[u] : away.channels[u][i].rank \in Nat
        <5>1. \A i \in DOMAIN away.channels[u] : away.channels[u][i] \in Backlog
          BY <3>2, ElementOf
        <5>. QED
          BY <5>1 DEF Backlog
      <4>3. ChannelOK(away.channels[u], u, away.next + 1, m[u].sent, m[u].kept)
        BY <2>2, <3>2, <4>2 DEF ChannelOK
      <4>. QED
        BY <4>1, <4>3
    <3>. QED
      BY <3>3, <3>4
  <2>4. /\ away'.channels[u] \in Seq(Backlog) /\ Base(t, frame)[u] \in Seq(Backlog)
        /\ EndOf(away'.channels[u], Base(t, frame)[u])
    BY <1>6
  <2>5. ChannelOK(away'.channels[u], u, away.next + 1, m2[u].sent, m2[u].kept)
    BY <2>3, <2>4, EndIsOK
  <2>. QED
    BY <1>6, <2>5
<1>12. /\ \A u \in Terminal : \A i \in DOMAIN away'.channels[u] :
             IsFrame(away'.channels[u][i].items) /\ Term(away'.channels[u][i].items) = u
       /\ \A u \in Terminal : \A i, j \in DOMAIN away'.channels[u] :
            i < j => /\ Precedes(away'.channels[u][i].items, away'.channels[u][j].items)
                     /\ away'.channels[u][i].rank < away'.channels[u][j].rank
       /\ \A u \in Terminal : \A i \in DOMAIN away'.channels[u] :
            away'.channels[u][i].rank < away'.next
       /\ KeptTo(m2)'
  BY <1>11 DEF ChannelOK, KeptTo
<1>13. PathOK'
  BY <1>1, <1>6, <1>10 DEF Ordered, PathOK
<1>14. FramesOK'
  BY <1>1, <1>10, <1>12 DEF Ordered, FramesOK
<1>15. QueuesInOrder'
  BY <1>1, <1>10, <1>12 DEF Ordered, QueuesInOrder
<1>16. ConnsInOrder' /\ AwayWhenDown'
  BY <1>1 DEF Ordered, ConnsInOrder, AwayWhenDown
<1>17. MarksRise(m2)'
  <2>1. m[t].sent <= Hi(frame) /\ Hi(frame) <= m[t].flushed
    BY <1>3, <1>4, <1>5
  <2>. QED
    BY <1>1, <1>5, <1>8, <2>1 DEF MarksRise
<1>18. SentTo(m2)'
  BY <1>1, <1>9, FramesTyped DEF Ordered, Staged, SentTo
<1>19. AcceptedTo(m2)'
  BY <1>1, <1>9 DEF Ordered, Staged, AcceptedTo
<1>20. SaidAfter(m2)'
  <2>1. \A i \in DOMAIN pipe : pipe[i].t \in Terminal
    BY ElementOf, ItemFacts DEF Ordered, PathOK
  <2>. QED
    BY <1>1, <1>9, <2>1 DEF Ordered, Staged, SaidAfter
<1>21. Staged(m2)'
  BY <1>10, <1>12, <1>17, <1>18, <1>19, <1>20 DEF Staged
<1>22. Ordered(m2)'
  BY <1>8, <1>13, <1>14, <1>15, <1>16, <1>21 DEF Ordered
<1>. QED
  BY <1>22

LEMMA RouteOutKeeps ==
  ASSUME NEW m, Ordered(m), Route, current # 0 /\ current \notin broken
  PROVE  \E m2 : Ordered(m2)'
<1>. DEFINE frame == Head(batched)
            t == Term(frame)
            entry == [items |-> frame, counted |-> flow.conn = current, away |-> FALSE]
<1>1. /\ batched # <<>> /\ batched' = Tail(batched)
      /\ out' = [out EXCEPT ![current] = Append(@, entry)]
      /\ UNCHANGED <<said, over, pipe, buf, current, opened, broken, away, heard>>
  BY DEF Route, readers, routes
<1>2. batched \in Seq(Seq(Items)) /\ m \in Marks /\ out \in [Conn -> Seq(Entry)]
  BY DEF Ordered, PathOK
<1>3. /\ IsTyped(frame) /\ m[t].kept < Lo(frame) /\ Hi(frame) <= m[t].flushed
  <2>1. frame = batched[1] /\ 1 \in DOMAIN batched
    BY <1>1, <1>2, TailFacts
  <2>2. IsTyped(batched[1])
    BY <2>1, FramesTyped DEF Ordered
  <2>. QED
    BY <2>1, <2>2 DEF Ordered, Staged, FlushedTo
<1>4. /\ t \in Terminal /\ frame \in Seq(Items) /\ IsFrame(frame)
      /\ Lo(frame) \in Nat /\ Hi(frame) \in Nat /\ Lo(frame) <= Hi(frame)
  BY <1>3 DEF IsTyped
<1>5. \A u \in Terminal :
        /\ m[u].sent \in Nat /\ m[u].kept \in Nat /\ m[u].flushed \in Nat /\ m[u].accepted \in Nat
        /\ m[u].sent <= m[u].kept /\ m[u].kept <= m[u].flushed
        /\ m[u].flushed <= m[u].accepted /\ m[u].accepted <= said[u]
  BY <1>2, MarkFacts DEF Ordered, Staged, MarksRise
<1>6. current \in Conn /\ current = opened
  BY Bounds DEF Ordered, PathOK, Conn
<1>7. entry \in Entry /\ entry.items = frame
  BY <1>4 DEF Entry
<1>. HIDE DEF frame, t, entry
<1>8. PICK m2 : IsMarked(m2, m, t, Hi(frame), Hi(frame), m[t].flushed, m[t].accepted)
  BY <1>2, <1>4, <1>5, MarkedFacts
<1>9. /\ m2 \in Marks
      /\ m2[t].sent = Hi(frame) /\ m2[t].kept = Hi(frame)
      /\ m2[t].flushed = m[t].flushed /\ m2[t].accepted = m[t].accepted
      /\ \A u \in Terminal : u # t => m2[u] = m[u]
  BY <1>8 DEF IsMarked
<1>10. \A u \in Terminal : /\ m2[u].flushed = m[u].flushed /\ m2[u].accepted = m[u].accepted
                           /\ m[u].sent <= m2[u].sent /\ m2[u].sent \in Nat
                           /\ u # t => m2[u].kept = m[u].kept
  <2>1. m[t].sent <= Hi(frame)
    BY <1>3, <1>4, <1>5
  <2>. QED
    BY <1>4, <1>5, <1>9, <2>1
<1>11. /\ batched' \in Seq(Seq(Items))
       /\ \A i \in DOMAIN batched' : IsFrame(batched'[i])
       /\ \A i, j \in DOMAIN batched' : i < j => Precedes(batched'[i], batched'[j])
       /\ FlushedTo(m2)'
  <2>1. t = Term(Head(batched)) /\ frame = Head(batched)
    BY DEF t, frame
  <2>. QED
    BY <1>1, <1>9, <1>10, <2>1, RouterTakes
<1>12. out[current] \in Seq(Entry) /\ Len(out[current]) \in Nat
  BY <1>2, <1>6
<1>13. \A c \in Conn : out'[c] = IF c = current THEN Append(out[current], entry) ELSE out[c]
  BY <1>1, <1>2, <1>6
<1>14. \A c \in Conn : \A i \in DOMAIN out'[c] :
         \/ i \in DOMAIN out[c] /\ out'[c][i] = out[c][i]
         \/ c = current /\ i = Len(out[c]) + 1 /\ out'[c][i].items = frame
  <2>. DEFINE longer == Append(out[current], entry)
  <2>1. \A i \in DOMAIN longer : \/ i \in DOMAIN out[current] /\ longer[i] = out[current][i]
                                 \/ i = Len(out[current]) + 1 /\ longer[i] = entry
    BY <1>7, <1>12, AppendFacts
  <2>. HIDE DEF longer
  <2>2. \A c \in Conn : out'[c] = IF c = current THEN longer ELSE out[c]
    BY <1>13 DEF longer
  <2>. QED
    BY <1>7, <2>1, <2>2
<1>15. \A c \in Conn : \A i \in DOMAIN out[c] : i \in Nat /\ i <= Len(out[c])
  BY <1>2, ElementOf
<1>16. out' \in [Conn -> Seq(Entry)]
  <2>1. Append(out[current], entry) \in Seq(Entry)
    BY <1>7, <1>12, AppendFacts
  <2>. QED
    BY <1>1, <1>2, <1>6, <2>1
<1>17. \A c \in Conn : \A i \in DOMAIN out[c] :
         /\ IsTyped(out[c][i].items) /\ Term(out[c][i].items) \in Terminal
         /\ Hi(out[c][i].items) \in Nat
         /\ Hi(out[c][i].items) <= m[Term(out[c][i].items)].sent
  BY FramesTyped DEF Ordered, Staged, SentTo, IsTyped
<1>18. \A c \in Conn : \A i \in DOMAIN out[c] : Precedes(out[c][i].items, frame)
  <2>1. m[t].sent < Lo(frame) /\ m[t].sent \in Nat
    BY <1>3, <1>4, <1>5
  <2>. QED
    BY <1>4, <1>17, <2>1 DEF Precedes, t
<1>19. \A p \in heard[t] : p[1] <= current /\ p[2] < Lo(frame)
  <2>1. TAKE p \in heard[t]
  <2>2. p[1] \in Conn /\ p[2] \in Nat /\ p[2] <= m[t].sent
    BY <1>4, Bounds DEF Ordered, PathOK, Staged, SentTo
  <2>3. p[1] <= opened
    <3>1. ~(p[1] > opened)
      BY <1>4, <2>2 DEF Ordered, ConnsInOrder
    <3>. QED
      BY <1>6, <2>2, <3>1, Bounds DEF Conn
  <2>. QED
    BY <1>3, <1>4, <1>5, <1>6, <2>2, <2>3
<1>20. PathOK'
  BY <1>1, <1>11, <1>16 DEF Ordered, PathOK
<1>21. FramesOK'
  BY <1>1, <1>4, <1>11, <1>14 DEF Ordered, FramesOK
<1>22. QueuesInOrder'
  <2>1. ASSUME NEW c \in Conn, NEW i \in DOMAIN out'[c], NEW j \in DOMAIN out'[c], i < j
        PROVE  Precedes(out'[c][i].items, out'[c][j].items)
    <3>1. i \in DOMAIN out[c] /\ out'[c][i] = out[c][i]
      <4>1. ~(i = Len(out[c]) + 1) \/ c # current
        <5>1. CASE c = current /\ i = Len(out[c]) + 1
          BY <1>12, <1>14, <1>15, <2>1, <5>1
        <5>. QED
          BY <5>1
      <4>. QED
        BY <1>14, <4>1
    <3>2. CASE j \in DOMAIN out[c] /\ out'[c][j] = out[c][j]
      BY <2>1, <3>1, <3>2 DEF Ordered, QueuesInOrder
    <3>3. CASE out'[c][j].items = frame
      BY <1>18, <3>1, <3>3
    <3>. QED
      BY <1>14, <3>2, <3>3
  <2>. QED
    BY <1>1, <1>11, <2>1 DEF Ordered, QueuesInOrder
<1>23. ConnsInOrder'
  <2>1. ASSUME NEW c \in Conn, NEW d \in Conn, c < d, NEW i \in DOMAIN out'[c], NEW j \in DOMAIN out'[d]
        PROVE  Precedes(out'[c][i].items, out'[d][j].items)
    <3>1. c # current
      <4>1. CASE c = current
        <5>1. d > opened /\ d # current
          BY <1>6, <2>1, <4>1 DEF Conn
        <5>2. out[d] = <<>>
          BY <5>1 DEF Ordered, ConnsInOrder
        <5>. QED
          BY <1>13, <2>1, <5>1, <5>2
      <4>. QED
        BY <4>1
    <3>2. i \in DOMAIN out[c] /\ out'[c][i] = out[c][i]
      BY <1>14, <3>1
    <3>3. CASE j \in DOMAIN out[d] /\ out'[d][j] = out[d][j]
      BY <2>1, <3>2, <3>3 DEF Ordered, ConnsInOrder
    <3>4. CASE out'[d][j].items = frame
      BY <1>18, <3>2, <3>4
    <3>. QED
      BY <1>14, <3>3, <3>4
  <2>2. ASSUME NEW c \in Conn, NEW i \in DOMAIN out'[c], NEW p \in heard[Term(out'[c][i].items)]
        PROVE  IF p[1] <= c THEN p[2] < Lo(out'[c][i].items) ELSE Hi(out'[c][i].items) < p[2]
    <3>1. CASE i \in DOMAIN out[c] /\ out'[c][i] = out[c][i]
      BY <2>2, <3>1 DEF Ordered, ConnsInOrder
    <3>2. CASE c = current /\ out'[c][i].items = frame
      BY <1>19, <2>2, <3>2 DEF t
    <3>. QED
      BY <1>14, <3>1, <3>2
  <2>3. ASSUME NEW c \in Conn, c > opened
        PROVE  out'[c] = <<>> /\ \A u \in Terminal : \A p \in heard[u] : p[1] # c
    <3>1. c # current
      BY <1>6, <2>3 DEF Conn
    <3>. QED
      BY <1>13, <2>3, <3>1 DEF Ordered, ConnsInOrder
  <2>. QED
    BY <1>1, <2>1, <2>2, <2>3 DEF ConnsInOrder
<1>24. AwayWhenDown'
  BY <1>1 DEF Ordered, AwayWhenDown
<1>25. MarksRise(m2)'
  BY SMTT(30), <1>1, <1>3, <1>4, <1>5, <1>9 DEF MarksRise
<1>26. SentTo(m2)'
  <2>1. \A u \in Terminal : \A p \in heard[u] : p[2] <= m2[u].sent
    <3>1. TAKE u \in Terminal
    <3>2. TAKE p \in heard[u]
    <3>3. p[2] \in Nat /\ p[2] <= m[u].sent
      BY Bounds DEF Ordered, PathOK, Staged, SentTo
    <3>. QED
      BY <1>5, <1>10, <3>3
  <2>2. ASSUME NEW c \in Conn, NEW i \in DOMAIN out'[c]
        PROVE  Hi(out'[c][i].items) <= m2[Term(out'[c][i].items)].sent
    <3>1. CASE i \in DOMAIN out[c] /\ out'[c][i] = out[c][i]
      <4>. DEFINE u == Term(out[c][i].items)
                  h == Hi(out[c][i].items)
      <4>1. u \in Terminal /\ h \in Nat /\ h <= m[u].sent
        BY <1>17, <3>1
      <4>2. out'[c][i].items = out[c][i].items
        BY <3>1
      <4>. HIDE DEF u, h
      <4>3. h <= m2[u].sent
        BY <1>5, <1>10, <4>1
      <4>. QED
        BY <4>2, <4>3 DEF u, h
    <3>2. CASE out'[c][i].items = frame
      BY <1>4, <1>9, <3>2 DEF t
    <3>. QED
      BY <1>14, <3>1, <3>2
  <2>. QED
    BY <1>1, <2>1, <2>2 DEF SentTo
<1>27. KeptTo(m2)'
  BY <1>1 DEF Ordered, AwayWhenDown, KeptTo
<1>28. AcceptedTo(m2)'
  BY <1>1, <1>10 DEF Ordered, Staged, AcceptedTo
<1>29. SaidAfter(m2)'
  <2>1. \A i \in DOMAIN pipe : pipe[i].t \in Terminal
    BY ElementOf, ItemFacts DEF Ordered, PathOK
  <2>. QED
    BY <1>1, <1>10, <2>1 DEF Ordered, Staged, SaidAfter
<1>30. Staged(m2)'
  BY <1>11, <1>25, <1>26, <1>27, <1>28, <1>29 DEF Staged
<1>31. Ordered(m2)'
  BY <1>9, <1>20, <1>21, <1>22, <1>23, <1>24, <1>30 DEF Ordered
<1>. QED
  BY <1>31

-----------------------------------------------------------------------------
(* The connections.                                                        *)

LEMMA OutTyped ==
  ASSUME NEW m, Ordered(m)
  PROVE  \A c \in Conn : \A i \in DOMAIN out[c] :
           /\ out[c][i].items \in Seq(Items) /\ IsFrame(out[c][i].items)
           /\ Term(out[c][i].items) \in Terminal
           /\ Lo(out[c][i].items) \in Nat /\ Hi(out[c][i].items) \in Nat
BY FramesTyped DEF Ordered, IsTyped

(* What a frame holds, by number.                                          *)
LEMMA FrameNumbers ==
  ASSUME NEW f \in Seq(Items), IsFrame(f)
  PROVE  {f[i].n : i \in DOMAIN f} = Lo(f) .. Hi(f)
<1>1. f[1].n \in Nat /\ Len(f) \in Nat /\ Len(f) > 0
  BY FrameFacts, ItemFacts
<1>2. \A i \in DOMAIN f : f[i].n = f[1].n + i - 1 /\ i \in 1 .. Len(f)
  BY DEF IsFrame
<1>3. \A n \in Lo(f) .. Hi(f) : n - f[1].n + 1 \in DOMAIN f
  BY <1>1 DEF Lo, Hi
<1>4. ASSUME NEW n \in Lo(f) .. Hi(f)
      PROVE  \E i \in DOMAIN f : f[i].n = n
  <2>1. n \in Int
    BY <1>1 DEF Lo, Hi
  <2>2. f[n - f[1].n + 1].n = n
    BY <1>1, <1>2, <1>3, <2>1
  <2>. QED
    BY <1>3, <2>2
<1>5. ASSUME NEW i \in DOMAIN f
      PROVE  f[i].n \in Lo(f) .. Hi(f)
  <2>1. i \in Nat /\ 1 <= i /\ i <= Len(f) /\ f[i].n = f[1].n + i - 1
    BY <1>1, <1>2
  <2>. QED
    BY <1>1, <2>1 DEF Lo, Hi
<1>. QED
  BY <1>4, <1>5

(* Only the first d frames leave the queue of a connection.                *)
TakenFrom(c, d, q) ==
  /\ q \in Seq(Entry) /\ d \in Nat
  /\ \A i \in DOMAIN q : i \in Nat /\ i + d \in DOMAIN out[c] /\ q[i] = out[c][i + d]
  /\ c > opened => q = <<>>
  /\ out' = [out EXCEPT ![c] = q]
  /\ UNCHANGED <<pipe, buf, batched, opened, away>>

StillInOrder(c, d) ==
  /\ out' \in [Conn -> Seq(Entry)]
  /\ FramesOK' /\ QueuesInOrder'
  /\ \A a, b \in Conn : a < b => \A i \in DOMAIN out'[a], j \in DOMAIN out'[b] :
       Precedes(out'[a][i].items, out'[b][j].items)
  /\ \A a \in Conn : a > opened' => out'[a] = <<>>
  /\ \A a \in Conn : \A i \in DOMAIN out'[a] :
       \E j \in DOMAIN out[a] : out'[a][i] = out[a][j] /\ (a = c => j = i + d)

LEMMA OutShrinks ==
  ASSUME NEW m, Ordered(m), NEW c \in Conn, NEW d, NEW q, TakenFrom(c, d, q)
  PROVE  StillInOrder(c, d)
<1>0. /\ q \in Seq(Entry) /\ d \in Nat
      /\ \A i \in DOMAIN q : i \in Nat /\ i + d \in DOMAIN out[c] /\ q[i] = out[c][i + d]
      /\ c > opened => q = <<>>
      /\ out' = [out EXCEPT ![c] = q]
      /\ UNCHANGED <<pipe, buf, batched, opened, away>>
  BY DEF TakenFrom
<1>1. out \in [Conn -> Seq(Entry)]
  BY DEF Ordered, PathOK
<1>2. \A a \in Conn : out'[a] = IF a = c THEN q ELSE out[a]
  BY <1>0, <1>1
<1>3. \A a \in Conn : \A i \in DOMAIN out'[a] :
        \E j \in DOMAIN out[a] : out'[a][i] = out[a][j] /\ (a = c => j = i + d)
  BY <1>0, <1>2
<1>4. out' \in [Conn -> Seq(Entry)]
  BY <1>0, <1>1
<1>5. FramesOK'
  BY <1>0, <1>3 DEF Ordered, FramesOK
<1>6. ASSUME NEW a \in Conn, NEW i \in DOMAIN out'[a], NEW j \in DOMAIN out'[a], i < j
      PROVE  Precedes(out'[a][i].items, out'[a][j].items)
  <2>1. CASE a = c
    <3>1. i + d < j + d /\ i + d \in DOMAIN out[c] /\ j + d \in DOMAIN out[c]
      BY <1>0, <1>2, <1>6, <2>1
    <3>2. out'[a][i] = out[c][i + d] /\ out'[a][j] = out[c][j + d]
      BY <1>0, <1>2, <2>1
    <3>. QED
      BY <3>1, <3>2 DEF Ordered, QueuesInOrder
  <2>2. CASE a # c
    BY <1>2, <1>6, <2>2 DEF Ordered, QueuesInOrder
  <2>. QED
    BY <2>1, <2>2
<1>7. QueuesInOrder'
  BY <1>0, <1>6 DEF Ordered, QueuesInOrder
<1>8. ASSUME NEW a \in Conn, NEW b \in Conn, a < b, NEW i \in DOMAIN out'[a], NEW j \in DOMAIN out'[b]
      PROVE  Precedes(out'[a][i].items, out'[b][j].items)
  BY <1>3, <1>8 DEF Ordered, ConnsInOrder
<1>9. \A a \in Conn : a > opened' => out'[a] = <<>>
  BY <1>0, <1>2 DEF Ordered, ConnsInOrder
<1>. QED
  BY <1>3, <1>4, <1>5, <1>7, <1>8, <1>9 DEF StillInOrder

LEMMA WriteFacts ==
  ASSUME NEW m, Ordered(m), NEW c \in Conn, Write(c),
         NEW f, f = Head(out[c]).items
  PROVE  /\ f \in Seq(Items) /\ IsFrame(f) /\ Term(f) \in Terminal
         /\ heard' = [heard EXCEPT ![Term(f)] = @ \cup ({c} \X (Lo(f) .. Hi(f)))]
         /\ Lo(f) \in 1 .. said[Term(f)] /\ Hi(f) \in 1 .. said[Term(f)] /\ Lo(f) <= Hi(f)
         /\ Hi(f) <= m[Term(f)].sent
         /\ \A p \in heard[Term(f)] : IF p[1] <= c THEN p[2] < Lo(f) ELSE Hi(f) < p[2]
         /\ 1 \in DOMAIN out[c] /\ f = out[c][1].items
<1>1. out[c] \in Seq(Entry) /\ out[c] # <<>> /\ m \in Marks
  BY DEF Ordered, PathOK, Write
<1>2. 1 \in DOMAIN out[c] /\ f = out[c][1].items
  BY <1>1, TailFacts
<1>3. /\ f \in Seq(Items) /\ IsFrame(f) /\ Term(f) \in Terminal /\ Lo(f) \in Nat /\ Hi(f) \in Nat
  BY <1>2, OutTyped
<1>4. heard' = [heard EXCEPT ![Term(f)] = @ \cup {<<c, f[i].n>> : i \in DOMAIN f}]
  BY DEF Write, Term
<1>5. {<<c, f[i].n>> : i \in DOMAIN f} = {c} \X (Lo(f) .. Hi(f))
  <2>1. {f[i].n : i \in DOMAIN f} = Lo(f) .. Hi(f)
    BY <1>3, FrameNumbers
  <2>2. {<<c, f[i].n>> : i \in DOMAIN f} = {c} \X {f[i].n : i \in DOMAIN f}
    OBVIOUS
  <2>. QED
    BY <2>1, <2>2
<1>6. Hi(f) <= m[Term(f)].sent
  BY <1>2 DEF Ordered, Staged, SentTo
<1>7. /\ m[Term(f)].sent \in Nat /\ m[Term(f)].kept \in Nat /\ m[Term(f)].flushed \in Nat
      /\ m[Term(f)].accepted \in Nat /\ m[Term(f)].sent <= m[Term(f)].kept
      /\ m[Term(f)].kept <= m[Term(f)].flushed /\ m[Term(f)].flushed <= m[Term(f)].accepted
      /\ m[Term(f)].accepted <= said[Term(f)] /\ said[Term(f)] \in Nat
  BY <1>1, <1>3, MarkFacts, Bounds DEF Ordered, Staged, MarksRise, PathOK
<1>8. 1 <= Lo(f) /\ Lo(f) <= Hi(f)
  BY <1>3, FrameFacts
<1>9. \A p \in heard[Term(f)] : IF p[1] <= c THEN p[2] < Lo(f) ELSE Hi(f) < p[2]
  BY <1>2 DEF Ordered, ConnsInOrder
<1>10. heard' = [heard EXCEPT ![Term(f)] = @ \cup ({c} \X (Lo(f) .. Hi(f)))]
  BY <1>4, <1>5
<1>11. Lo(f) \in 1 .. said[Term(f)] /\ Hi(f) \in 1 .. said[Term(f)]
  BY <1>3, <1>6, <1>7, <1>8
<1>. QED
  BY <1>2, <1>3, <1>6, <1>8, <1>9, <1>10, <1>11

LEMMA WriteKeeps ==
  ASSUME NEW m, Ordered(m), NEW c \in Conn, Write(c)
  PROVE  Ordered(m)'
<1>. DEFINE f == Head(out[c]).items
            t == Term(f)
<1>1. /\ f \in Seq(Items) /\ IsFrame(f) /\ t \in Terminal
      /\ heard' = [heard EXCEPT ![t] = @ \cup ({c} \X (Lo(f) .. Hi(f)))]
      /\ Lo(f) \in 1 .. said[t] /\ Hi(f) \in 1 .. said[t] /\ Lo(f) <= Hi(f)
      /\ Hi(f) <= m[t].sent
      /\ \A p \in heard[t] : IF p[1] <= c THEN p[2] < Lo(f) ELSE Hi(f) < p[2]
      /\ 1 \in DOMAIN out[c] /\ f = out[c][1].items
  BY WriteFacts
<1>2. /\ out' = [out EXCEPT ![c] = Tail(out[c])] /\ out[c] # <<>>
      /\ UNCHANGED <<said, over, pipe, buf, batched, current, opened, broken, away>>
  BY DEF Write, readers, routes, Ordered, PathOK
<1>3. out \in [Conn -> Seq(Entry)] /\ out[c] \in Seq(Entry) /\ m \in Marks
  BY DEF Ordered, PathOK
<1>4. Tail(out[c]) \in Seq(Entry)
      /\ \A i \in DOMAIN Tail(out[c]) : i \in Nat /\ i > 0 /\ i + 1 \in DOMAIN out[c] /\ Tail(out[c])[i] = out[c][i + 1]
  BY <1>2, <1>3, TailFacts
<1>5. ~(c > opened)
  BY <1>2 DEF Ordered, ConnsInOrder
<1>6. said[t] \in Nat /\ Lo(f) \in Nat /\ Hi(f) \in Nat /\ said[t] <= MaxSaid /\ 1 <= Lo(f)
  <2>1. said[t] \in 0 .. MaxSaid
    BY <1>1 DEF Ordered, PathOK
  <2>2. f[1] \in Items /\ Lo(f) \in Nat /\ Hi(f) \in Nat /\ 1 <= Lo(f)
    BY <1>1, FrameFacts
  <2>. QED
    BY <2>1, <2>2, Bounds
<1>. HIDE DEF f, t
<1>7. /\ out' \in [Conn -> Seq(Entry)]
      /\ FramesOK' /\ QueuesInOrder'
      /\ \A a, b \in Conn : a < b => \A i \in DOMAIN out'[a], j \in DOMAIN out'[b] :
           Precedes(out'[a][i].items, out'[b][j].items)
      /\ \A a \in Conn : a > opened' => out'[a] = <<>>
      /\ \A a \in Conn : \A i \in DOMAIN out'[a] :
           \E j \in DOMAIN out[a] : out'[a][i] = out[a][j] /\ (a = c => j = i + 1)
  <2>1. PICK q : q = Tail(out[c])
    OBVIOUS
  <2>2. TakenFrom(c, 1, q)
    BY <1>2, <1>4, <1>5, <2>1 DEF TakenFrom
  <2>3. StillInOrder(c, 1)
    BY <2>2, OutShrinks
  <2>. QED
    BY <2>3 DEF StillInOrder
<1>8. \A u \in Terminal : \A p \in heard'[u] :
        \/ p \in heard[u]
        \/ u = t /\ p[1] = c /\ p[2] \in Nat /\ Lo(f) <= p[2] /\ p[2] <= Hi(f)
  <2>1. \A u \in Terminal : heard'[u] = IF u = t THEN heard[t] \cup ({c} \X (Lo(f) .. Hi(f))) ELSE heard[u]
    BY <1>1 DEF Ordered, PathOK
  <2>. QED
    BY <1>6, <2>1
<1>9. heard' \in [Terminal -> SUBSET (Conn \X (1 .. MaxSaid))]
  <2>1. {c} \X (Lo(f) .. Hi(f)) \subseteq Conn \X (1 .. MaxSaid)
    BY <1>1, <1>6, Bounds
  <2>2. heard \in [Terminal -> SUBSET (Conn \X (1 .. MaxSaid))]
    BY DEF Ordered, PathOK
  <2>. DEFINE X == {c} \X (Lo(f) .. Hi(f))
              Y == Conn \X (1 .. MaxSaid)
  <2>3. X \subseteq Y /\ heard \in [Terminal -> SUBSET Y] /\ heard' = [heard EXCEPT ![t] = @ \cup X]
    BY <1>1, <2>1, <2>2
  <2>. HIDE DEF X, Y
  <2>4. heard' \in [Terminal -> SUBSET Y]
    BY <1>1, <2>3
  <2>. QED
    BY <2>4 DEF Y
<1>10. PathOK'
  BY <1>2, <1>7, <1>9 DEF Ordered, PathOK
<1>11. ConnsInOrder'
  <2>1. ASSUME NEW a \in Conn, NEW i \in DOMAIN out'[a], NEW p \in heard'[Term(out'[a][i].items)]
        PROVE  IF p[1] <= a THEN p[2] < Lo(out'[a][i].items) ELSE Hi(out'[a][i].items) < p[2]
    <3>1. PICK j \in DOMAIN out[a] : out'[a][i] = out[a][j] /\ (a = c => j = i + 1)
      BY <1>7
    <3>. DEFINE g == out[a][j].items
    <3>2. Term(g) \in Terminal /\ Lo(g) \in Nat /\ Hi(g) \in Nat /\ out'[a][i].items = g
      BY <3>1, OutTyped
    <3>3. CASE p \in heard[Term(g)]
      BY <3>1, <3>2, <3>3 DEF Ordered, ConnsInOrder
    <3>4. CASE Term(g) = t /\ p[1] = c /\ p[2] \in Nat /\ Lo(f) <= p[2] /\ p[2] <= Hi(f)
      <4>1. CASE a = c
        <5>1. j > 1
          BY <1>3, <1>7, <3>1, <4>1, ElementOf
        <5>2. Precedes(f, g)
          BY <1>1, <3>1, <4>1, <5>1 DEF Ordered, QueuesInOrder
        <5>. QED
          BY <1>6, <3>2, <3>4, <4>1, <5>2 DEF Precedes, t, Conn
      <4>2. CASE a < c
        <5>1. Precedes(g, f)
          BY <1>1, <3>1, <4>2 DEF Ordered, ConnsInOrder
        <5>. QED
          BY <1>6, <3>2, <3>4, <4>2, <5>1 DEF Precedes, t, Conn
      <4>3. CASE c < a
        <5>1. Precedes(f, g)
          BY <1>1, <3>1, <4>3 DEF Ordered, ConnsInOrder
        <5>. QED
          BY <1>6, <3>2, <3>4, <4>3, <5>1 DEF Precedes, t, Conn
      <4>. QED
        BY <4>1, <4>2, <4>3 DEF Conn
    <3>. QED
      BY <1>8, <3>2, <3>3, <3>4
  <2>2. ASSUME NEW a \in Conn, a > opened
        PROVE  \A u \in Terminal : \A p \in heard'[u] : p[1] # a
    BY <1>5, <1>8, <2>2 DEF Ordered, ConnsInOrder
  <2>. QED
    BY <1>2, <1>7, <2>1, <2>2 DEF ConnsInOrder
<1>12. AwayWhenDown' /\ MarksRise(m)' /\ KeptTo(m)' /\ FlushedTo(m)' /\ AcceptedTo(m)' /\ SaidAfter(m)'
  BY <1>2 DEF Ordered, AwayWhenDown, Staged, MarksRise, KeptTo, FlushedTo, AcceptedTo, SaidAfter
<1>13. SentTo(m)'
  <2>1. ASSUME NEW u \in Terminal, NEW p \in heard'[u]
        PROVE  p[2] <= m[u].sent
    <3>1. CASE p \in heard[u]
      BY <3>1 DEF Ordered, Staged, SentTo
    <3>2. CASE u = t /\ p[2] \in Nat /\ p[2] <= Hi(f)
      <4>1. m[t].sent \in Nat
        BY <1>1, <1>3, MarkFacts
      <4>. QED
        BY <1>1, <1>6, <3>2, <4>1
    <3>. QED
      BY <1>8, <3>1, <3>2
  <2>2. \A a \in Conn : \A i \in DOMAIN out'[a] :
          Hi(out'[a][i].items) <= m[Term(out'[a][i].items)].sent
    BY <1>7 DEF Ordered, Staged, SentTo
  <2>. QED
    BY <2>1, <2>2 DEF SentTo
<1>. QED
  BY <1>3, <1>7, <1>10, <1>11, <1>12, <1>13 DEF Ordered, Staged

LEMMA WriteFailsKeeps ==
  ASSUME NEW m, Ordered(m), NEW c \in Conn, WriteFails(c)
  PROVE  Ordered(m)'
<1>1. /\ out' = [out EXCEPT ![c] = <<>>] /\ broken' = broken \cup {c} /\ c <= opened
      /\ UNCHANGED <<said, over, pipe, buf, batched, current, opened, away, heard>>
  BY DEF WriteFails, readers
<1>2. /\ out' \in [Conn -> Seq(Entry)]
      /\ FramesOK' /\ QueuesInOrder'
      /\ \A a, b \in Conn : a < b => \A i \in DOMAIN out'[a], j \in DOMAIN out'[b] :
           Precedes(out'[a][i].items, out'[b][j].items)
      /\ \A a \in Conn : a > opened' => out'[a] = <<>>
      /\ \A a \in Conn : \A i \in DOMAIN out'[a] :
           \E j \in DOMAIN out[a] : out'[a][i] = out[a][j] /\ (a = c => j = i + 0)
  <2>1. PICK q : q = <<>>
    OBVIOUS
  <2>2. TakenFrom(c, 0, q)
    BY <1>1, <2>1 DEF TakenFrom
  <2>3. StillInOrder(c, 0)
    BY <2>2, OutShrinks
  <2>. QED
    BY <2>3 DEF StillInOrder
<1>3. PathOK'
  <2>1. broken' \subseteq 1 .. opened
    BY <1>1 DEF Ordered, PathOK, Conn
  <2>. QED
    BY <1>1, <1>2, <2>1 DEF Ordered, PathOK
<1>4. ConnsInOrder'
  BY <1>1, <1>2 DEF Ordered, ConnsInOrder
<1>5. AwayWhenDown' /\ MarksRise(m)' /\ KeptTo(m)' /\ FlushedTo(m)' /\ AcceptedTo(m)' /\ SaidAfter(m)'
  BY <1>1 DEF Ordered, AwayWhenDown, Staged, MarksRise, KeptTo, FlushedTo, AcceptedTo, SaidAfter
<1>6. SentTo(m)'
  BY <1>1, <1>2 DEF Ordered, Staged, SentTo
<1>. QED
  BY <1>2, <1>3, <1>4, <1>5, <1>6 DEF Ordered, Staged

LEMMA DisconnectKeeps ==
  ASSUME NEW m, Ordered(m), Disconnect
  PROVE  Ordered(m)'
<1>1. /\ current' = 0
      /\ UNCHANGED <<said, over, pipe, buf, batched, opened, broken, out, away, heard>>
  BY DEF Disconnect, readers
<1>2. PathOK' /\ FramesOK' /\ QueuesInOrder' /\ ConnsInOrder' /\ AwayWhenDown'
  BY <1>1 DEF Ordered, PathOK, FramesOK, QueuesInOrder, ConnsInOrder, AwayWhenDown
<1>3. Staged(m)'
  BY <1>1 DEF Ordered, Staged, MarksRise, SentTo, KeptTo, FlushedTo, AcceptedTo, SaidAfter
<1>. QED
  BY <1>2, <1>3 DEF Ordered

(* What was kept, with its terminals.                                      *)
AllKept == UNION {Range(away.channels[t]) : t \in Terminal}

LEMMA AllKeptFacts ==
  ASSUME PathOK
  PROVE  /\ IsFiniteSet(AllKept) /\ Cardinality(AllKept) \in Nat
         /\ \A e \in AllKept : \E t \in Terminal : \E i \in DOMAIN away.channels[t] : e = away.channels[t][i]
         /\ AllKept \subseteq Backlog
<1>. DEFINE g == [t \in Terminal |-> Range(away.channels[t])]
            T == {Range(away.channels[t]) : t \in Terminal}
<1>1. away.channels \in [Terminal -> Seq(Backlog)]
  BY DEF PathOK
<1>2. g \in Surjection(Terminal, T)
  BY DEF Surjection
<1>3. IsFiniteSet(T)
  BY <1>2, Bounds, FS_Surjection
<1>4. ASSUME NEW t \in Terminal
      PROVE  IsFiniteSet(Range(away.channels[t]))
  <2>. DEFINE q == away.channels[t]
  <2>1. q \in Seq(Backlog)
    BY <1>1
  <2>. HIDE DEF q
  <2>2. q \in Surjection(1 .. Len(q), Range(q)) /\ Len(q) \in Nat
    BY <2>1 DEF Surjection, Range
  <2>3. IsFiniteSet(1 .. Len(q))
    BY <2>2, FS_Interval
  <2>4. IsFiniteSet(Range(q))
    BY <2>2, <2>3, FS_Surjection
  <2>. QED
    BY <2>4 DEF q
<1>5. IsFiniteSet(AllKept)
  <2>1. \A s \in T : IsFiniteSet(s)
    BY <1>4
  <2>2. AllKept = UNION T
    BY DEF AllKept
  <2>. QED
    BY <1>3, <2>1, <2>2, FS_UNION
<1>6. \A e \in AllKept : \E t \in Terminal : \E i \in DOMAIN away.channels[t] : e = away.channels[t][i]
  BY DEF AllKept, Range
<1>7. AllKept \subseteq Backlog
  BY <1>1, <1>6, ElementOf
<1>. QED
  BY <1>5, <1>6, <1>7, FS_CardinalityType

(* The backlog, as it was sent.                                            *)
Sendable(drained) ==
  [i \in DOMAIN drained |-> [items |-> drained[i].items, counted |-> TRUE, away |-> TRUE]]

LEMMA DrainedInOrder ==
  ASSUME NEW m, Ordered(m), NEW drained \in Drained, NEW q, q = Sendable(drained)
  PROVE  /\ q \in Seq(Entry)
         /\ \A i \in DOMAIN q : /\ IsTyped(q[i].items) /\ m[Term(q[i].items)].sent < Lo(q[i].items)
                                /\ Hi(q[i].items) <= m[Term(q[i].items)].kept
         /\ \A i, j \in DOMAIN q : i < j => Precedes(q[i].items, q[j].items)
<1>1. /\ IsFiniteSet(AllKept) /\ Cardinality(AllKept) \in Nat /\ AllKept \subseteq Backlog
      /\ \A e \in AllKept : \E t \in Terminal : \E i \in DOMAIN away.channels[t] : e = away.channels[t][i]
  BY AllKeptFacts DEF Ordered
<1>2. /\ drained \in [1 .. Cardinality(AllKept) -> AllKept]
      /\ \A i, j \in DOMAIN drained : i < j => drained[i].rank < drained[j].rank
  BY DEF Drained, AllKept
<1>3. PICK n \in Nat : n = Cardinality(AllKept)
  BY <1>1
<1>4. DOMAIN drained = 1 .. n /\ \A i \in 1 .. n : drained[i] \in AllKept
  BY <1>2, <1>3
<1>5. DOMAIN q = 1 .. n /\ \A i \in 1 .. n : q[i] = [items |-> drained[i].items, counted |-> TRUE, away |-> TRUE]
  BY <1>4 DEF Sendable
<1>6. ASSUME NEW i \in 1 .. n
      PROVE  q[i].items = drained[i].items /\ drained[i].items \in Seq(Items) /\ q[i] \in Entry
  <2>1. drained[i] \in Backlog
    BY <1>1, <1>4
  <2>2. drained[i].items \in Seq(Items)
    BY <2>1 DEF Backlog
  <2>3. q[i] = [items |-> drained[i].items, counted |-> TRUE, away |-> TRUE]
    BY <1>5
  <2>4. q[i] \in Entry
    BY <2>2, <2>3 DEF Entry
  <2>. QED
    BY <2>2, <2>3, <2>4
<1>7. q \in Seq(Entry)
  <2>1. q = [i \in 1 .. n |-> q[i]]
    BY <1>5 DEF Sendable
  <2>. QED
    BY <1>6, <2>1
<1>8. \A t \in Terminal : ChannelOK(away.channels[t], t, away.next, m[t].sent, m[t].kept)
  BY ChannelsOK
<1>9. ASSUME NEW i \in 1 .. n
      PROVE  /\ IsTyped(q[i].items) /\ m[Term(q[i].items)].sent < Lo(q[i].items)
             /\ Hi(q[i].items) <= m[Term(q[i].items)].kept
  <2>1. PICK t \in Terminal : \E a \in DOMAIN away.channels[t] : drained[i] = away.channels[t][a]
    BY <1>1, <1>4
  <2>2. PICK a \in DOMAIN away.channels[t] : drained[i] = away.channels[t][a]
    BY <2>1
  <2>3. IsTyped(away.channels[t][a].items)
    BY FramesTyped DEF Ordered
  <2>4. /\ Term(away.channels[t][a].items) = t /\ m[t].sent < Lo(away.channels[t][a].items)
        /\ Hi(away.channels[t][a].items) <= m[t].kept
    BY <1>8 DEF ChannelOK
  <2>. QED
    BY <1>6, <2>2, <2>3, <2>4
<1>10. ASSUME NEW i \in 1 .. n, NEW j \in 1 .. n, i < j
       PROVE  Precedes(q[i].items, q[j].items)
  <2>1. SUFFICES ASSUME Term(q[i].items) = Term(q[j].items)
                 PROVE  Hi(q[i].items) < Lo(q[j].items)
    BY DEF Precedes
  <2>2. PICK t \in Terminal : \E a \in DOMAIN away.channels[t] : drained[i] = away.channels[t][a]
    BY <1>1, <1>4
  <2>3. PICK a \in DOMAIN away.channels[t] : drained[i] = away.channels[t][a]
    BY <2>2
  <2>4. PICK u \in Terminal : \E b \in DOMAIN away.channels[u] : drained[j] = away.channels[u][b]
    BY <1>1, <1>4
  <2>5. PICK b \in DOMAIN away.channels[u] : drained[j] = away.channels[u][b]
    BY <2>4
  <2>6. Term(drained[i].items) = t /\ Term(drained[j].items) = u
    BY <1>8, <2>3, <2>5 DEF ChannelOK
  <2>7. u = t
    BY <1>6, <2>1, <2>6
  <2>8. drained[i].rank < drained[j].rank /\ drained[i].rank \in Nat /\ drained[j].rank \in Nat
    BY <1>1, <1>2, <1>4, <1>10 DEF Backlog
  <2>9. a \in Nat /\ b \in Nat
    BY ElementOf DEF Ordered, PathOK
  <2>10. a < b
    <3>1. ~(a = b)
      BY <2>3, <2>5, <2>7, <2>8
    <3>2. ~(b < a)
      <4>1. b < a => drained[j].rank < drained[i].rank
        BY <1>8, <2>3, <2>5, <2>7 DEF ChannelOK
      <4>. QED
        BY <2>8, <4>1
    <3>. QED
      BY <2>9, <3>1, <3>2
  <2>11. Precedes(drained[i].items, drained[j].items)
    BY <1>8, <2>3, <2>5, <2>7, <2>10 DEF ChannelOK
  <2>. QED
    BY <1>6, <2>6, <2>7, <2>11 DEF Precedes
<1>. QED
  BY <1>5, <1>7, <1>9, <1>10

LEMMA ConnectKeeps ==
  ASSUME NEW m, Ordered(m), Connect
  PROVE  \E m2 : Ordered(m2)'
<1>1. PICK c : c = opened + 1
  OBVIOUS
<1>2. PICK drained \in Drained : out' = [out EXCEPT ![c] = Sendable(drained)]
  BY <1>1 DEF Connect, Sendable
<1>3. /\ opened < MaxConn /\ opened' = c /\ current' = c /\ away' = NothingAway
      /\ UNCHANGED <<said, over, pipe, buf, batched, broken, heard>>
  BY <1>1 DEF Connect, readers
<1>4. PICK q : q = Sendable(drained)
  OBVIOUS
<1>5. /\ q \in Seq(Entry)
      /\ \A i \in DOMAIN q : /\ IsTyped(q[i].items) /\ m[Term(q[i].items)].sent < Lo(q[i].items)
                             /\ Hi(q[i].items) <= m[Term(q[i].items)].kept
      /\ \A i, j \in DOMAIN q : i < j => Precedes(q[i].items, q[j].items)
  BY <1>4, DrainedInOrder
<1>6. out' = [out EXCEPT ![c] = q] /\ out \in [Conn -> Seq(Entry)] /\ m \in Marks
  BY <1>2, <1>4 DEF Ordered, PathOK
<1>7. opened \in Nat /\ c \in Conn /\ c = opened + 1 /\ c \in Nat /\ c \notin broken
  BY <1>1, <1>3, Bounds DEF Ordered, PathOK, Conn
<1>8. \A a \in Conn : out'[a] = IF a = c THEN q ELSE out[a]
  BY <1>6, <1>7
<1>9. /\ away'.channels = [t \in Terminal |-> <<>>] /\ away'.next = 0
      /\ \A t \in Terminal : away'.channels[t] = <<>>
  BY <1>3 DEF NothingAway
<1>10. \A u \in Terminal :
        /\ m[u].sent \in Nat /\ m[u].kept \in Nat /\ m[u].flushed \in Nat /\ m[u].accepted \in Nat
        /\ m[u].sent <= m[u].kept /\ m[u].kept <= m[u].flushed
        /\ m[u].flushed <= m[u].accepted /\ m[u].accepted <= said[u]
  BY <1>6, MarkFacts DEF Ordered, Staged, MarksRise
<1>11. PICK m2 : m2 = [u \in Terminal |-> MarkOf(m[u].kept, m[u].kept, m[u].flushed, m[u].accepted)]
  OBVIOUS
<1>12. m2 \in Marks
  BY <1>10, <1>11 DEF Marks, MarkOf
<1>13. \A u \in Terminal : /\ m2[u].sent = m[u].kept /\ m2[u].kept = m[u].kept
                           /\ m2[u].flushed = m[u].flushed /\ m2[u].accepted = m[u].accepted
  BY <1>11 DEF MarkOf
<1>14. \A i \in DOMAIN q : /\ IsFrame(q[i].items) /\ Term(q[i].items) \in Terminal
                           /\ Lo(q[i].items) \in Nat /\ Hi(q[i].items) \in Nat
  BY <1>5 DEF IsTyped
<1>15. \A a \in Conn : \A i \in DOMAIN out[a] :
         /\ Term(out[a][i].items) \in Terminal /\ Hi(out[a][i].items) \in Nat
         /\ Hi(out[a][i].items) <= m[Term(out[a][i].items)].sent
  BY OutTyped DEF Ordered, Staged, SentTo
<1>16. \A t \in Terminal : \A p \in heard[t] : p[1] \in Conn /\ p[1] <= opened /\ p[2] \in Nat /\ p[2] <= m[t].sent
  <2>1. TAKE t \in Terminal
  <2>2. TAKE p \in heard[t]
  <2>3. p[1] \in Conn /\ p[2] \in Nat /\ p[2] <= m[t].sent
    BY Bounds DEF Ordered, PathOK, Staged, SentTo
  <2>4. ~(p[1] > opened)
    BY <2>3 DEF Ordered, ConnsInOrder
  <2>. QED
    BY <1>7, <2>3, <2>4, Bounds DEF Conn
<1>17. PathOK'
  <2>1. out' \in [Conn -> Seq(Entry)]
    BY <1>5, <1>6
  <2>2. away' \in [channels : [Terminal -> Seq(Backlog)], next : Nat]
    BY <1>3 DEF NothingAway
  <2>3. opened' \in 0 .. MaxConn /\ current' \in {0, opened'} /\ broken' \subseteq 1 .. opened'
    <3>1. broken \subseteq 1 .. opened
      BY DEF Ordered, PathOK
    <3>. QED
      BY <1>3, <1>7, <3>1, Bounds DEF Conn
  <2>. QED
    BY <1>3, <2>1, <2>2, <2>3 DEF Ordered, PathOK
<1>18. FramesOK'
  BY <1>3, <1>8, <1>9, <1>14 DEF Ordered, FramesOK
<1>19. QueuesInOrder'
  BY <1>3, <1>5, <1>8, <1>9 DEF Ordered, QueuesInOrder
<1>20. ConnsInOrder'
  <2>1. ASSUME NEW a \in Conn, NEW b \in Conn, a < b, NEW i \in DOMAIN out'[a], NEW j \in DOMAIN out'[b]
        PROVE  Precedes(out'[a][i].items, out'[b][j].items)
    <3>1. a # c
      <4>1. CASE a = c
        <5>1. b > opened /\ b # c
          BY <1>7, <2>1, <4>1 DEF Conn
        <5>2. out[b] = <<>>
          BY <5>1 DEF Ordered, ConnsInOrder
        <5>. QED
          BY <1>8, <2>1, <5>1, <5>2
      <4>. QED
        BY <4>1
    <3>2. out'[a] = out[a]
      BY <1>8, <3>1
    <3>3. CASE b = c
      <4>. DEFINE f == out[a][i].items
                  g == q[j].items
      <4>1. /\ Term(f) \in Terminal /\ Hi(f) \in Nat /\ Hi(f) <= m[Term(f)].sent
            /\ m[Term(g)].sent < Lo(g) /\ Lo(g) \in Nat
        BY <1>5, <1>8, <1>14, <1>15, <3>2, <3>3
      <4>. HIDE DEF f, g
      <4>2. Precedes(f, g)
        BY <1>10, <4>1 DEF Precedes
      <4>. QED
        BY <1>8, <3>2, <3>3, <4>2 DEF f, g
    <3>4. CASE b # c
      BY <1>8, <2>1, <3>2, <3>4 DEF Ordered, ConnsInOrder
    <3>. QED
      BY <3>3, <3>4
  <2>2. ASSUME NEW a \in Conn, NEW i \in DOMAIN out'[a], NEW p \in heard[Term(out'[a][i].items)]
        PROVE  IF p[1] <= a THEN p[2] < Lo(out'[a][i].items) ELSE Hi(out'[a][i].items) < p[2]
    <3>1. CASE a = c
      <4>. DEFINE g == q[i].items
      <4>1. /\ Term(g) \in Terminal /\ m[Term(g)].sent < Lo(g) /\ Lo(g) \in Nat /\ out'[a][i].items = g
        BY <1>5, <1>8, <1>14, <3>1
      <4>. HIDE DEF g
      <4>2. p \in heard[Term(g)]
        BY <2>2, <4>1
      <4>. QED
        BY <1>7, <1>10, <1>16, <3>1, <4>1, <4>2 DEF Conn
    <3>2. CASE a # c
      BY <1>8, <2>2, <3>2 DEF Ordered, ConnsInOrder
    <3>. QED
      BY <3>1, <3>2
  <2>3. ASSUME NEW a \in Conn, a > opened'
        PROVE  out'[a] = <<>> /\ \A u \in Terminal : \A p \in heard[u] : p[1] # a
    <3>1. a # c /\ a > opened
      BY <1>3, <1>7, <2>3 DEF Conn
    <3>. QED
      BY <1>8, <3>1 DEF Ordered, ConnsInOrder
  <2>. QED
    BY <1>3, <2>1, <2>2, <2>3 DEF ConnsInOrder
<1>21. AwayWhenDown' /\ KeptTo(m2)'
  BY <1>9 DEF AwayWhenDown, KeptTo
<1>22. MarksRise(m2)'
  BY <1>3, <1>10, <1>13 DEF MarksRise
<1>23. SentTo(m2)'
  <2>1. \A u \in Terminal : \A p \in heard[u] : p[2] <= m2[u].sent
    BY <1>10, <1>13, <1>16
  <2>2. ASSUME NEW a \in Conn, NEW i \in DOMAIN out'[a]
        PROVE  Hi(out'[a][i].items) <= m2[Term(out'[a][i].items)].sent
    <3>1. CASE a = c
      BY <1>5, <1>8, <1>13, <1>14, <3>1
    <3>2. CASE a # c
      <4>. DEFINE u == Term(out[a][i].items)
                  h == Hi(out[a][i].items)
      <4>1. out'[a] = out[a]
        BY <1>8, <3>2
      <4>2. u \in Terminal /\ h \in Nat /\ h <= m[u].sent
        BY <1>15, <4>1
      <4>. HIDE DEF u, h
      <4>3. h <= m2[u].sent
        BY <1>10, <1>13, <4>2
      <4>. QED
        BY <4>1, <4>3 DEF u, h
    <3>. QED
      BY <3>1, <3>2
  <2>. QED
    BY <1>3, <2>1, <2>2 DEF SentTo
<1>24. AcceptedTo(m2)'
  BY <1>3, <1>13 DEF Ordered, Staged, AcceptedTo
<1>25. FlushedTo(m2)'
  BY <1>3, <1>13, FramesTyped DEF Ordered, Staged, FlushedTo
<1>26. SaidAfter(m2)'
  <2>1. \A i \in DOMAIN pipe : pipe[i].t \in Terminal
    BY ElementOf, ItemFacts DEF Ordered, PathOK
  <2>. QED
    BY <1>3, <1>13, <2>1 DEF Ordered, Staged, SaidAfter
<1>27. Staged(m2)'
  BY <1>21, <1>22, <1>23, <1>24, <1>25, <1>26 DEF Staged
<1>28. Ordered(m2)'
  BY <1>12, <1>17, <1>18, <1>19, <1>20, <1>21, <1>27 DEF Ordered
<1>. QED
  BY <1>28

-----------------------------------------------------------------------------
(* The pipeline is a stream.                                               *)

LEMMA OrderInit ==
  ASSUME Init
  PROVE  OrderInv
<1>1. PICK m : m = [t \in Terminal |-> MarkOf(0, 0, 0, 0)]
  OBVIOUS
<1>2. m \in Marks /\ \A t \in Terminal : /\ m[t].sent = 0 /\ m[t].kept = 0
                                          /\ m[t].flushed = 0 /\ m[t].accepted = 0
  BY <1>1 DEF Marks, MarkOf
<1>3. PathOK
  BY Bounds DEF Init, PathOK, NothingAway
<1>4. /\ \A t \in Terminal : buf[t] = <<>> /\ away.channels[t] = <<>> /\ heard[t] = {} /\ said[t] = 0
      /\ \A c \in Conn : out[c] = <<>>
      /\ pipe = <<>> /\ batched = <<>>
  BY DEF Init, NothingAway
<1>5. FramesOK
  BY <1>4 DEF FramesOK
<1>6. QueuesInOrder
  BY <1>4 DEF QueuesInOrder
<1>7. ConnsInOrder
  <2>1. \A c \in Conn : \A i \in DOMAIN out[c] : FALSE
    BY <1>4
  <2>2. \A t \in Terminal : \A p \in heard[t] : FALSE
    BY <1>4
  <2>. QED
    BY <1>4, <2>1, <2>2 DEF ConnsInOrder
<1>8. AwayWhenDown
  BY <1>4 DEF AwayWhenDown
<1>9. MarksRise(m)
  BY <1>2, <1>4 DEF MarksRise
<1>10. SentTo(m) /\ KeptTo(m) /\ FlushedTo(m) /\ AcceptedTo(m) /\ SaidAfter(m)
  BY <1>2, <1>4 DEF SentTo, KeptTo, FlushedTo, AcceptedTo, SaidAfter
<1>11. Ordered(m)
  BY <1>2, <1>3, <1>5, <1>6, <1>7, <1>8, <1>9, <1>10 DEF Ordered, Staged
<1>. QED
  BY <1>11 DEF OrderInv

LEMMA OrderStep ==
  ASSUME OrderInv, [Next]_vars
  PROVE  OrderInv'
<1>1. PICK m : Ordered(m)
  BY DEF OrderInv
<1>2. ASSUME NEW t \in Terminal, Read(t)
      PROVE  Ordered(m)'
  <2>1. over' \subseteq Terminal
    BY <1>1, <1>2 DEF Read, Ordered, PathOK
  <2>. QED
    BY <1>1, <1>2, <2>1, SaidKeeps DEF Read
<1>3. ASSUME NEW t \in Terminal, SendEvent(t)
      PROVE  Ordered(m)'
  <2>1. over' \subseteq Terminal
    BY <1>1, <1>3 DEF SendEvent, Ordered, PathOK
  <2>. QED
    BY <1>1, <1>3, <2>1, SaidKeeps DEF SendEvent
<1>4. ASSUME NEW t \in Terminal, Ends(t)
      PROVE  Ordered(m)'
  <2>1. over' \subseteq Terminal
    BY <1>1, <1>4 DEF Ends, Ordered, PathOK
  <2>. QED
    BY <1>1, <1>4, <2>1, SaidKeeps DEF Ends
<1>5. ASSUME NEW t \in Terminal, Resume(t)
      PROVE  Ordered(m)'
  BY <1>1, <1>5, NothingMoves DEF Resume
<1>6. ASSUME UNCHANGED vars
      PROVE  Ordered(m)'
  BY <1>1, <1>6, NothingMoves DEF vars, readers
<1>7. CASE Accept
  BY <1>1, <1>7, AcceptKeeps DEF OrderInv
<1>8. CASE FlushAll
  BY <1>1, <1>8, FlushAllKeeps DEF OrderInv
<1>9. CASE Route
  BY <1>1, <1>9, RouteAwayKeeps, RouteOutKeeps DEF OrderInv
<1>10. CASE Disconnect
  BY <1>1, <1>10, DisconnectKeeps DEF OrderInv
<1>11. CASE Connect
  BY <1>1, <1>11, ConnectKeeps DEF OrderInv
<1>12. ASSUME NEW c \in Conn, Write(c)
       PROVE  Ordered(m)'
  BY <1>1, <1>12, WriteKeeps
<1>13. ASSUME NEW c \in Conn, WriteFails(c)
       PROVE  Ordered(m)'
  BY <1>1, <1>13, WriteFailsKeeps
<1>. QED
  BY <1>2, <1>3, <1>4, <1>5, <1>6, <1>7, <1>8, <1>9, <1>10, <1>11, <1>12, <1>13 DEF Next, OrderInv

(* Every step of the pipeline is one of the stream's, or none.             *)
LEMMA StreamStep ==
  ASSUME OrderInv, [Next]_vars
  PROVE  [TheStream!Next]_<<said, over, heard>>
<1>1. PICK m : Ordered(m)
  BY DEF OrderInv
<1>2. ASSUME NEW t \in Terminal, Read(t) \/ SendEvent(t) \/ Ends(t)
      PROVE  TheStream!Next
  <2>1. TheStream!Say(t)
    BY <1>2 DEF Read, SendEvent, Ends, Said, TheStream!Say
  <2>. QED
    BY <2>1 DEF TheStream!Next
<1>3. ASSUME NEW c \in Conn, Write(c)
      PROVE  TheStream!Next
  <2>1. PICK f : f = Head(out[c]).items
    OBVIOUS
  <2>2. PICK t, first, last : t = Term(f) /\ first = Lo(f) /\ last = Hi(f)
    OBVIOUS
  <2>3. /\ t \in Terminal /\ first \in 1 .. said[t] /\ last \in 1 .. said[t] /\ first <= last
        /\ heard' = [heard EXCEPT ![t] = @ \cup ({c} \X (first .. last))]
        /\ \A p \in heard[t] : IF p[1] <= c THEN p[2] < first ELSE last < p[2]
    BY <1>1, <1>3, <2>1, <2>2, WriteFacts
  <2>4. UNCHANGED <<said, over>> /\ said[t] \in Nat
    BY <1>1, <1>3, <2>3, Bounds DEF Write, readers, Ordered, PathOK
  <2>5. TheStream!Hear(c, t, first, last)
    BY <2>3, <2>4 DEF TheStream!Hear
  <2>. QED
    BY <2>3, <2>5 DEF TheStream!Next, Conn
<1>4. ASSUME \/ UNCHANGED vars \/ Accept \/ FlushAll \/ Route \/ Disconnect \/ Connect
             \/ \E t \in Terminal : Resume(t)
             \/ \E c \in Conn : WriteFails(c)
      PROVE  UNCHANGED <<said, over, heard>>
  BY <1>4 DEF vars, readers, Accept, FlushAll, Route, Disconnect, Connect, Resume, WriteFails
<1>. QED
  BY <1>2, <1>3, <1>4 DEF Next

(* The pipeline implements Stream: through the batch loop, the away queue  *)
(* and one connection after another, whatever fails in between, what a     *)
(* terminal said is heard in its order and at most once.                   *)
THEOREM PipelineIsAStream == Spec => InOrderAtMostOnce
<1>1. Init => TheStream!Init
  BY DEF Init, TheStream!Init
<1>2. Init => OrderInv
  BY OrderInit
<1>3. OrderInv /\ [Next]_vars => OrderInv'
  BY OrderStep
<1>4. OrderInv /\ [Next]_vars => [TheStream!Next]_<<said, over, heard>>
  BY StreamStep
<1>. QED
  BY <1>1, <1>2, <1>3, <1>4, PTL DEF Spec, InOrderAtMostOnce, TheStream!Spec

-----------------------------------------------------------------------------
(* Last words.                                                             *)

LastOf(f) == f[Len(f)].n
LastWord(q) == LastOf(q[Len(q)].items)

WordKept ==
  /\ kept \in [Terminal -> [bytes : Nat, last : Nat]]
  /\ \A t \in Terminal : kept[t] # NothingKept =>
       away.channels[t] # <<>> /\ LastWord(away.channels[t]) = kept[t].last

LEMMA EndKeepsLast ==
  ASSUME NEW S, NEW q \in Seq(S), NEW q2 \in Seq(S), EndOf(q2, q), q # <<>>
  PROVE  q2 # <<>> /\ LastWord(q2) = LastWord(q)
<1>1. q2 # <<>> /\ Len(q2) \in Nat /\ Len(q) \in Nat /\ Len(q2) \in DOMAIN q2
  BY DEF EndOf
<1>2. q2[Len(q2)] = q[Len(q2) + (Len(q) - Len(q2))]
  BY <1>1 DEF EndOf
<1>3. q2[Len(q2)] = q[Len(q)]
  BY <1>1, <1>2
<1>. QED
  BY <1>1, <1>3 DEF LastWord

LEMMA PushKeepsWord ==
  ASSUME PathOK, WordKept, NEW frame \in Seq(Items), IsFrame(frame), Push(frame)
  PROVE  WordKept'
<1>. DEFINE t == Term(frame)
            e == [rank |-> away.next, items |-> frame, len |-> FrameLen(frame)]
<1>1. /\ away' \in [channels : [Terminal -> Seq(Backlog)], next : Nat]
      /\ Base(t, frame) \in [Terminal -> Seq(Backlog)]
      /\ \A u \in Terminal : EndOf(away'.channels[u], Base(t, frame)[u])
  BY PushKeepsEnds
<1>2. /\ t \in Terminal /\ Hi(frame) \in Nat /\ LastOf(frame) = Hi(frame) /\ FrameLen(frame) \in Nat
      /\ kept \in [Terminal -> [bytes : Nat, last : Nat]]
  BY FrameFacts, FrameLenIsNat DEF LastOf, WordKept
<1>3. kept' = [kept EXCEPT ![t] = [bytes |-> @.bytes + FrameLen(frame), last |-> LastOf(frame)]]
  BY DEF Push, Term, LastOf
<1>4. away.channels[t] \in Seq(Backlog) /\ e \in Backlog /\ e.items = frame
  BY <1>2, FrameLenIsNat DEF PathOK, Backlog
<1>5. Base(t, frame)[t] = Append(away.channels[t], e) /\ \A u \in Terminal : u # t => Base(t, frame)[u] = away.channels[u]
  BY <1>2 DEF Base
<1>. HIDE DEF t, e
<1>6. kept' \in [Terminal -> [bytes : Nat, last : Nat]]
  BY <1>2, <1>3
<1>7. ASSUME NEW u \in Terminal, kept'[u] # NothingKept
      PROVE  away'.channels[u] # <<>> /\ LastWord(away'.channels[u]) = kept'[u].last
  <2>1. away'.channels[u] \in Seq(Backlog) /\ Base(t, frame)[u] \in Seq(Backlog)
    BY <1>1
  <2>2. CASE u = t
    <3>. DEFINE g == Append(away.channels[t], e)
    <3>1. g # <<>> /\ g[Len(g)] = e
      BY <1>4, AppendFacts
    <3>. HIDE DEF g
    <3>2. Base(t, frame)[u] # <<>> /\ LastWord(Base(t, frame)[u]) = LastOf(frame)
      BY <1>4, <1>5, <2>2, <3>1 DEF LastWord, g
    <3>3. kept'[u].last = LastOf(frame)
      BY <1>2, <1>3, <2>2
    <3>. QED
      BY <1>1, <2>1, <3>2, <3>3, EndKeepsLast
  <2>3. CASE u # t
    <3>1. kept'[u] = kept[u] /\ Base(t, frame)[u] = away.channels[u]
      BY <1>2, <1>3, <1>5, <2>3
    <3>2. Base(t, frame)[u] # <<>> /\ LastWord(Base(t, frame)[u]) = kept[u].last
      BY <1>7, <3>1 DEF WordKept
    <3>. QED
      BY <1>1, <2>1, <3>1, <3>2, EndKeepsLast
  <2>. QED
    BY <2>2, <2>3
<1>. QED
  BY <1>6, <1>7 DEF WordKept

LEMMA WordStep ==
  ASSUME OrderInv, WordKept, [Next]_vars
  PROVE  WordKept'
<1>1. PICK m : Ordered(m)
  BY DEF OrderInv
<1>2. CASE UNCHANGED <<away, kept>>
  BY <1>2 DEF WordKept
<1>3. CASE Connect
  <2>1. kept' = [t \in Terminal |-> NothingKept]
    BY <1>3 DEF Connect
  <2>. QED
    BY <2>1 DEF WordKept, NothingKept
<1>4. CASE Route /\ ~(current # 0 /\ current \notin broken)
  <2>1. PICK frame : frame = Head(batched)
    OBVIOUS
  <2>2. Push(frame) /\ batched # <<>>
    BY <1>4, <2>1 DEF Route
  <2>3. frame \in Seq(Items) /\ IsFrame(frame)
    <3>1. frame = batched[1] /\ 1 \in DOMAIN batched
      BY <1>1, <2>1, <2>2, TailFacts DEF Ordered, PathOK
    <3>. QED
      BY <1>1, <3>1, FramesTyped DEF Ordered, IsTyped
  <2>. QED
    BY <1>1, <2>2, <2>3, PushKeepsWord DEF Ordered
<1>5. CASE Route /\ current # 0 /\ current \notin broken
  BY <1>2, <1>5 DEF Route
<1>6. ASSUME \/ UNCHANGED vars \/ Accept \/ FlushAll \/ Disconnect
             \/ \E t \in Terminal : Read(t) \/ SendEvent(t) \/ Ends(t) \/ Resume(t)
             \/ \E c \in Conn : Write(c) \/ WriteFails(c)
      PROVE  UNCHANGED <<away, kept>>
  BY <1>6 DEF vars, Accept, FlushAll, Disconnect, Read, SendEvent, Ends, Said, Resume, Write, WriteFails
<1>. QED
  BY <1>2, <1>3, <1>4, <1>5, <1>6 DEF Next

(* However much the bounds of the away queue drop, the last thing each     *)
(* terminal said is there for the hub's next connection.                   *)
THEOREM LastWordsStay == Spec => []LastWordIsKept
<1>1. Init => OrderInv /\ WordKept
  BY OrderInit DEF Init, WordKept, NothingKept
<1>2. OrderInv /\ WordKept /\ [Next]_vars => OrderInv' /\ WordKept'
  BY OrderStep, WordStep
<1>3. OrderInv /\ WordKept => LastWordIsKept
  <2>1. SUFFICES ASSUME OrderInv, WordKept, NEW t \in Terminal, kept[t] # NothingKept
                 PROVE  \E i \in DOMAIN away.channels[t] : LastOf(away.channels[t][i].items) = kept[t].last
    BY DEF LastWordIsKept, LastOf
  <2>2. away.channels[t] \in Seq(Backlog)
    BY <2>1 DEF OrderInv, Ordered, PathOK
  <2>3. away.channels[t] # <<>> /\ LastWord(away.channels[t]) = kept[t].last
    BY <2>1 DEF WordKept
  <2>4. Len(away.channels[t]) \in DOMAIN away.channels[t]
    BY <2>2, <2>3
  <2>. QED
    BY <2>3, <2>4 DEF LastWord
<1>. QED
  BY <1>1, <1>2, <1>3, PTL DEF Spec

-----------------------------------------------------------------------------
(* What the counts add up.                                                 *)

LEMMA TotalOfNone ==
  ASSUME NEW f, DOMAIN f = {}
  PROVE  Total(f) = 0
<1>1. Cells(f) = {}
  BY DEF Cells
<1>. QED
  BY <1>1, CellsAre, FS_EmptySet

LEMMA TotalOfOne ==
  ASSUME NEW x, NEW f \in [{x} -> Nat]
  PROVE  Total(f) = f[x]
<1>1. DOMAIN f = {x} /\ f[x] \in Nat
  OBVIOUS
<1>2. Cells(f) = {x} \X (1 .. f[x])
  BY <1>1 DEF Cells
<1>3. IsFiniteSet({x}) /\ Cardinality({x}) = 1
  BY FS_Singleton
<1>4. IsFiniteSet(1 .. f[x]) /\ Cardinality(1 .. f[x]) = f[x]
  BY <1>1, FS_Interval
<1>5. Cardinality({x} \X (1 .. f[x])) = Cardinality({x}) * Cardinality(1 .. f[x])
  BY <1>3, <1>4, FS_Product
<1>6. Total(f) = Cardinality({x} \X (1 .. f[x]))
  BY <1>2, CellsAre
<1>. QED
  BY <1>1, <1>3, <1>4, <1>5, <1>6

SplitInto(f, S, g, A, h, B) ==
  /\ IsFiniteSet(A) /\ IsFiniteSet(B) /\ A \cap B = {} /\ S = A \cup B
  /\ f \in [S -> Nat] /\ g \in [A -> Nat] /\ h \in [B -> Nat]
  /\ \A i \in A : g[i] = f[i]
  /\ \A i \in B : h[i] = f[i]

LEMMA TotalSplit ==
  ASSUME NEW f, NEW S, NEW g, NEW A, NEW h, NEW B, SplitInto(f, S, g, A, h, B)
  PROVE  Total(f) = Total(g) + Total(h)
<1>. USE DEF SplitInto
<1>1. IsFiniteSet(Cells(g)) /\ IsFiniteSet(Cells(h)) /\ Total(g) \in Nat /\ Total(h) \in Nat
  BY CellsAreFinite
<1>2. DOMAIN f = A \cup B /\ DOMAIN g = A /\ DOMAIN h = B
  OBVIOUS
<1>3. ASSUME NEW p
      PROVE  p \in Cells(f) <=> p \in Cells(g) \/ p \in Cells(h)
  <2>1. p \in Cells(f) <=> \E i \in A \cup B : \E k \in 1 .. f[i] : p = <<i, k>>
    BY <1>2, CellsAre
  <2>2. p \in Cells(g) <=> \E i \in A : \E k \in 1 .. f[i] : p = <<i, k>>
    BY <1>2, CellsAre
  <2>3. p \in Cells(h) <=> \E i \in B : \E k \in 1 .. f[i] : p = <<i, k>>
    BY <1>2, CellsAre
  <2>. QED
    BY <2>1, <2>2, <2>3
<1>4. Cells(f) = Cells(g) \cup Cells(h)
  BY <1>3
<1>5. Cells(g) \cap Cells(h) = {}
  <2>1. \A p \in Cells(g) : p[1] \in A
    BY <1>2, CellsAre
  <2>2. \A p \in Cells(h) : p[1] \in B
    BY <1>2, CellsAre
  <2>. QED
    BY <2>1, <2>2
<1>6. Cardinality(Cells(g) \cup Cells(h))
        = Cardinality(Cells(g)) + Cardinality(Cells(h)) - Cardinality(Cells(g) \cap Cells(h))
  BY <1>1, FS_Union
<1>7. Cardinality(Cells(g) \cap Cells(h)) = 0
  BY <1>5, FS_EmptySet
<1>8. /\ Total(f) = Cardinality(Cells(f)) /\ Total(g) = Cardinality(Cells(g))
      /\ Total(h) = Cardinality(Cells(h))
  BY CellsAre
<1>. QED
  BY <1>1, <1>4, <1>6, <1>7, <1>8

(* The same values, under other indices.                                   *)
SameValues(f, A, g, B, b) ==
  /\ IsFiniteSet(A) /\ f \in [A -> Nat] /\ g \in [B -> Nat] /\ b \in [A -> B]
  /\ \A i, j \in A : i # j => b[i] # b[j]
  /\ \A k \in B : \E i \in A : b[i] = k
  /\ \A i \in A : g[b[i]] = f[i]

LEMMA TotalOfSame ==
  ASSUME NEW f, NEW A, NEW g, NEW B, NEW b, SameValues(f, A, g, B, b)
  PROVE  Total(f) = Total(g)
<1>. USE DEF SameValues
<1>. DEFINE c == [p \in Cells(f) |-> <<b[p[1]], p[2]>>]
<1>1. DOMAIN f = A /\ DOMAIN g = B
  OBVIOUS
<1>2. \A p : p \in Cells(f) <=> \E i \in A : \E k \in 1 .. f[i] : p = <<i, k>>
  BY <1>1, CellsAre
<1>3. \A p : p \in Cells(g) <=> \E i \in B : \E k \in 1 .. g[i] : p = <<i, k>>
  BY <1>1, CellsAre
<1>4. ASSUME NEW p \in Cells(f)
      PROVE  c[p] \in Cells(g)
  <2>1. PICK i \in A : \E k \in 1 .. f[i] : p = <<i, k>>
    BY <1>2
  <2>2. PICK k \in 1 .. f[i] : p = <<i, k>>
    BY <2>1
  <2>3. c[p] = <<b[i], k>> /\ b[i] \in B /\ k \in 1 .. g[b[i]]
    BY <2>2
  <2>. QED
    BY <1>3, <2>3
<1>5. ASSUME NEW q \in Cells(g)
      PROVE  \E p \in Cells(f) : c[p] = q
  <2>1. PICK j \in B : \E k \in 1 .. g[j] : q = <<j, k>>
    BY <1>3
  <2>2. PICK k \in 1 .. g[j] : q = <<j, k>>
    BY <2>1
  <2>3. PICK i \in A : b[i] = j
    OBVIOUS
  <2>4. k \in 1 .. f[i]
    BY <2>2, <2>3
  <2>5. <<i, k>> \in Cells(f)
    BY <1>2, <2>4
  <2>6. c[<<i, k>>] = q
    BY <2>2, <2>3, <2>5
  <2>. QED
    BY <2>5, <2>6
<1>6. ASSUME NEW p \in Cells(f), NEW q \in Cells(f), c[p] = c[q]
      PROVE  p = q
  <2>1. PICK i \in A, k \in Nat : p = <<i, k>>
    BY <1>2
  <2>2. PICK j \in A, l \in Nat : q = <<j, l>>
    BY <1>2
  <2>3. b[i] = b[j] /\ k = l
    BY <1>6, <2>1, <2>2
  <2>. QED
    BY <2>1, <2>2, <2>3
<1>. HIDE DEF c
<1>7. c \in [Cells(f) -> Cells(g)]
  BY <1>4 DEF c
<1>8. c \in Bijection(Cells(f), Cells(g))
  <2>1. c \in Injection(Cells(f), Cells(g))
    BY <1>6, <1>7 DEF Injection, IsInjective
  <2>2. c \in Surjection(Cells(f), Cells(g))
    BY <1>5, <1>7 DEF Surjection
  <2>. QED
    BY <2>1, <2>2 DEF Bijection
<1>9. IsFiniteSet(Cells(f))
  BY CellsAreFinite
<1>10. Cardinality(Cells(g)) = Cardinality(Cells(f))
  BY <1>8, <1>9, FS_Bijection DEF ExistsBijection
<1>. QED
  BY <1>10, CellsAre

LEMMA TotalRises ==
  ASSUME NEW S, IsFiniteSet(S), NEW f \in [S -> Nat], NEW g \in [S -> Nat],
         \A i \in S : f[i] <= g[i]
  PROVE  Total(f) <= Total(g)
<1>1. DOMAIN f = S /\ DOMAIN g = S
  OBVIOUS
<1>2. ASSUME NEW p \in Cells(f)
      PROVE  p \in Cells(g)
  <2>1. PICK i \in S : \E k \in 1 .. f[i] : p = <<i, k>>
    BY <1>1, CellsAre
  <2>2. PICK k \in 1 .. f[i] : p = <<i, k>>
    BY <2>1
  <2>3. k \in 1 .. g[i]
    BY <2>2
  <2>. QED
    BY <1>1, <2>2, <2>3, CellsAre
<1>3. IsFiniteSet(Cells(g))
  BY CellsAreFinite
<1>4. Cardinality(Cells(f)) <= Cardinality(Cells(g))
  BY <1>2, <1>3, FS_Subset
<1>. QED
  BY <1>4, CellsAre

LEMMA TotalUpdated ==
  ASSUME NEW S, IsFiniteSet(S), NEW f \in [S -> Nat], NEW t \in S, NEW x \in Nat
  PROVE  /\ Total([f EXCEPT ![t] = x]) = Total(f) - f[t] + x
         /\ Total(f) \in Nat /\ f[t] <= Total(f)
<1>. DEFINE A == S \ {t}
            g == [i \in A |-> f[i]]
            h == [i \in {t} |-> f[i]]
            k == [i \in {t} |-> x]
            e == [f EXCEPT ![t] = x]
<1>1. IsFiniteSet(A) /\ IsFiniteSet({t}) /\ A \cap {t} = {} /\ S = A \cup {t}
  <2>1. IsFiniteSet(A)
    BY FS_RemoveElement
  <2>2. IsFiniteSet({t})
    BY FS_Singleton
  <2>. QED
    BY <2>1, <2>2
<1>2. /\ g \in [A -> Nat] /\ h \in [{t} -> Nat] /\ k \in [{t} -> Nat] /\ e \in [S -> Nat]
      /\ \A i \in A : g[i] = f[i] /\ g[i] = e[i]
      /\ h[t] = f[t] /\ k[t] = x /\ e[t] = x
  OBVIOUS
<1>. HIDE DEF A, g, h, k, e
<1>3. Total(f) = Total(g) + Total(h)
  <2>1. SplitInto(f, S, g, A, h, {t})
    BY <1>1, <1>2 DEF SplitInto
  <2>. QED
    BY <2>1, TotalSplit
<1>4. Total(e) = Total(g) + Total(k)
  <2>1. SplitInto(e, S, g, A, k, {t})
    BY <1>1, <1>2 DEF SplitInto
  <2>. QED
    BY <2>1, TotalSplit
<1>5. Total(h) = f[t] /\ Total(k) = x
  BY <1>2, TotalOfOne
<1>6. Total(g) \in Nat /\ f[t] \in Nat
  BY <1>1, <1>2, CellsAreFinite
<1>. QED
  BY <1>3, <1>4, <1>5, <1>6 DEF e

(* The sizes of a sequence's items, summed.                                *)
SumOver(s, size) == Total([i \in DOMAIN s |-> size[s[i]]])

LEMMA SumIsNat ==
  ASSUME NEW S, NEW s \in Seq(S), NEW size \in [S -> Nat]
  PROVE  /\ SumOver(s, size) \in Nat
         /\ [i \in DOMAIN s |-> size[s[i]]] \in [1 .. Len(s) -> Nat]
         /\ IsFiniteSet(1 .. Len(s)) /\ Len(s) \in Nat
<1>1. [i \in DOMAIN s |-> size[s[i]]] \in [1 .. Len(s) -> Nat] /\ Len(s) \in Nat
  OBVIOUS
<1>2. IsFiniteSet(1 .. Len(s))
  BY <1>1, FS_Interval
<1>. QED
  BY <1>1, <1>2, CellsAreFinite DEF SumOver

LEMMA SumOfNone ==
  ASSUME NEW size
  PROVE  SumOver(<<>>, size) = 0
<1>1. DOMAIN [i \in DOMAIN <<>> |-> size[<<>>[i]]] = {}
  OBVIOUS
<1>. QED
  BY <1>1, TotalOfNone DEF SumOver

LEMMA SumConcat ==
  ASSUME NEW S, NEW s \in Seq(S), NEW t \in Seq(S), NEW size \in [S -> Nat]
  PROVE  SumOver(s \o t, size) = SumOver(s, size) + SumOver(t, size)
<1>. DEFINE n == Len(s)
            k == Len(t)
            f == [i \in DOMAIN (s \o t) |-> size[(s \o t)[i]]]
            g == [i \in DOMAIN s |-> size[s[i]]]
            h == [i \in DOMAIN t |-> size[t[i]]]
            B == n + 1 .. n + k
            h2 == [i \in B |-> size[t[i - n]]]
            b == [i \in 1 .. k |-> i + n]
<1>1. n \in Nat /\ k \in Nat /\ s \o t \in Seq(S) /\ Len(s \o t) = n + k
  OBVIOUS
<1>2. /\ f \in [1 .. n + k -> Nat] /\ g \in [1 .. n -> Nat] /\ h \in [1 .. k -> Nat]
  BY <1>1, SumIsNat
<1>3. h2 \in [B -> Nat]
  <2>1. \A i \in B : i - n \in DOMAIN t
    BY <1>1
  <2>. QED
    BY <2>1
<1>4. IsFiniteSet(1 .. n) /\ IsFiniteSet(B) /\ IsFiniteSet(1 .. k)
  BY <1>1, FS_Interval
<1>5. (1 .. n) \cap B = {} /\ 1 .. n + k = (1 .. n) \cup B
  BY <1>1
<1>6. \A i \in 1 .. n : g[i] = f[i]
  BY <1>1
<1>7. \A i \in B : h2[i] = f[i]
  BY <1>1
<1>8. /\ b \in [1 .. k -> B] /\ \A i, j \in 1 .. k : i # j => b[i] # b[j]
      /\ \A j \in B : \E i \in 1 .. k : b[i] = j
      /\ \A i \in 1 .. k : h2[b[i]] = h[i]
  <2>1. b \in [1 .. k -> B] /\ \A i, j \in 1 .. k : i # j => b[i] # b[j]
    BY <1>1
  <2>2. ASSUME NEW j \in B
        PROVE  \E i \in 1 .. k : b[i] = j
    <3>1. j - n \in 1 .. k /\ b[j - n] = j
      BY <1>1
    <3>. QED
      BY <3>1
  <2>3. ASSUME NEW i \in 1 .. k
        PROVE  h2[b[i]] = h[i]
    <3>1. b[i] \in B /\ b[i] - n = i /\ i \in DOMAIN t
      BY <1>1
    <3>. QED
      BY <3>1
  <2>. QED
    BY <2>1, <2>2, <2>3
<1>. HIDE DEF f, g, h, h2, B, b, n, k
<1>9. Total(f) = Total(g) + Total(h2)
  <2>1. SplitInto(f, 1 .. n + k, g, 1 .. n, h2, B)
    BY <1>2, <1>3, <1>4, <1>5, <1>6, <1>7 DEF SplitInto
  <2>. QED
    BY <2>1, TotalSplit
<1>10. Total(h) = Total(h2)
  <2>1. SameValues(h, 1 .. k, h2, B, b)
    BY <1>2, <1>3, <1>4, <1>8 DEF SameValues
  <2>. QED
    BY <2>1, TotalOfSame
<1>. QED
  BY <1>9, <1>10 DEF SumOver, f, g, h

LEMMA SumOfOne ==
  ASSUME NEW S, NEW e \in S, NEW size \in [S -> Nat]
  PROVE  SumOver(<<e>>, size) = size[e]
<1>. DEFINE f == [i \in DOMAIN <<e>> |-> size[<<e>>[i]]]
<1>1. DOMAIN <<e>> = {1} /\ f[1] = size[e]
  OBVIOUS
<1>2. f \in [{1} -> Nat]
  BY <1>1
<1>. HIDE DEF f
<1>3. Total(f) = f[1]
  BY <1>2, TotalOfOne
<1>. QED
  BY <1>1, <1>3 DEF SumOver, f

LEMMA SumAppend ==
  ASSUME NEW S, NEW s \in Seq(S), NEW e \in S, NEW size \in [S -> Nat]
  PROVE  SumOver(Append(s, e), size) = SumOver(s, size) + size[e]
<1>1. <<e>> \in Seq(S) /\ Append(s, e) = s \o <<e>>
  OBVIOUS
<1>2. SumOver(s \o <<e>>, size) = SumOver(s, size) + SumOver(<<e>>, size)
  BY <1>1, SumConcat
<1>3. SumOver(<<e>>, size) = size[e]
  BY SumOfOne
<1>. QED
  BY <1>1, <1>2, <1>3

LEMMA SumTail ==
  ASSUME NEW S, NEW s \in Seq(S), s # <<>>, NEW size \in [S -> Nat]
  PROVE  /\ SumOver(s, size) = size[Head(s)] + SumOver(Tail(s), size)
         /\ Head(s) \in S /\ Tail(s) \in Seq(S) /\ size[Head(s)] \in Nat
<1>1. /\ Head(s) \in S /\ <<Head(s)>> \in Seq(S) /\ Tail(s) \in Seq(S)
      /\ s = <<Head(s)>> \o Tail(s)
  <2>1. Head(s) \in S /\ Tail(s) \in Seq(S) /\ Len(s) \in Nat /\ Len(s) > 0
    OBVIOUS
  <2>2. \A i \in 1 .. Len(s) : s[i] = (<<Head(s)>> \o Tail(s))[i]
    BY <2>1
  <2>3. Len(<<Head(s)>> \o Tail(s)) = Len(s) /\ <<Head(s)>> \o Tail(s) \in Seq(S)
    BY <2>1
  <2>4. s = <<Head(s)>> \o Tail(s)
    BY <2>1, <2>2, <2>3
  <2>. QED
    BY <2>1, <2>4
<1>2. SumOver(<<Head(s)>> \o Tail(s), size) = SumOver(<<Head(s)>>, size) + SumOver(Tail(s), size)
  BY <1>1, SumConcat
<1>3. SumOver(<<Head(s)>>, size) = size[Head(s)] /\ size[Head(s)] \in Nat
  BY <1>1, SumOfOne
<1>. QED
  BY <1>1, <1>2, <1>3

LEMMA SumRises ==
  ASSUME NEW S, NEW s \in Seq(S), NEW size \in [S -> Nat], NEW more \in [S -> Nat],
         \A i \in DOMAIN s : size[s[i]] <= more[s[i]]
  PROVE  SumOver(s, size) <= SumOver(s, more)
<1>. DEFINE f == [i \in DOMAIN s |-> size[s[i]]]
            g == [i \in DOMAIN s |-> more[s[i]]]
<1>1. /\ f \in [1 .. Len(s) -> Nat] /\ g \in [1 .. Len(s) -> Nat]
      /\ IsFiniteSet(1 .. Len(s))
  BY SumIsNat
<1>2. \A i \in 1 .. Len(s) : f[i] <= g[i]
  OBVIOUS
<1>. HIDE DEF f, g
<1>3. Total(f) <= Total(g)
  BY <1>1, <1>2, TotalRises
<1>. QED
  BY <1>3 DEF SumOver, f, g

(* The same sizes, the same sum.                                           *)
LEMMA SumOfSame ==
  ASSUME NEW s, NEW size, NEW other, \A i \in DOMAIN s : size[s[i]] = other[s[i]]
  PROVE  SumOver(s, size) = SumOver(s, other)
<1>1. [i \in DOMAIN s |-> size[s[i]]] = [i \in DOMAIN s |-> other[s[i]]]
  OBVIOUS
<1>. QED
  BY <1>1 DEF SumOver

LEMMA SumOfOnes ==
  ASSUME NEW S, NEW s \in Seq(S), NEW size, \A i \in DOMAIN s : size[s[i]] = 1
  PROVE  SumOver(s, size) = Len(s)
<1>. DEFINE n == Len(s)
            f == [i \in DOMAIN s |-> size[s[i]]]
<1>1. n \in Nat /\ DOMAIN s = 1 .. n
  OBVIOUS
<1>2. DOMAIN f = 1 .. n /\ \A i \in 1 .. n : f[i] = 1
  BY <1>1
<1>. HIDE DEF f, n
<1>3. Cells(f) = (1 .. n) \X {1}
  <2>1. ASSUME NEW p
        PROVE  p \in Cells(f) <=> p \in (1 .. n) \X {1}
    <3>1. p \in Cells(f) <=> \E i \in DOMAIN f : \E k \in 1 .. f[i] : p = <<i, k>>
      BY CellsAre
    <3>. QED
      BY <1>2, <3>1
  <2>. QED
    BY <2>1
<1>4. IsFiniteSet(1 .. n) /\ Cardinality(1 .. n) = n
  BY <1>1, FS_Interval
<1>0. IsFiniteSet({1}) /\ Cardinality({1}) = 1
  BY FS_Singleton
<1>5. Cardinality((1 .. n) \X {1}) = Cardinality(1 .. n) * Cardinality({1})
  BY <1>0, <1>4, FS_Product
<1>6. Total(f) = Cardinality((1 .. n) \X {1})
  BY <1>3, CellsAre
<1>. QED
  BY <1>0, <1>1, <1>4, <1>5, <1>6 DEF SumOver, f, n

(* What the items weigh: output one each.                                  *)
Weighs(w) == w \in [Items -> Nat] /\ \A x \in Items : x.kind = "output" => w[x] = 1
FrameSum(w) == [f \in Seq(Items) |-> SumOver(f, w)]
Buffered == Total([t \in Terminal |-> Len(buf[t])])

(* What the router has not taken, by weight.                               *)
Waiting(w) == SumOver(pipe, w) + SumOver(batched, FrameSum(w)) + Buffered

LEMMA WeighFacts ==
  ASSUME NEW w, Weighs(w)
  PROVE  /\ w \in [Items -> Nat] /\ FrameSum(w) \in [Seq(Items) -> Nat]
         /\ \A x \in Items : w[x] \in Nat /\ (x.kind = "output" => w[x] = 1)
         /\ \A f \in Seq(Items) : FrameSum(w)[f] = SumOver(f, w) /\ SumOver(f, w) \in Nat
         /\ \A fs \in Seq(Seq(Items)) : SumOver(fs, FrameSum(w)) \in Nat
<1>1. w \in [Items -> Nat] /\ \A x \in Items : w[x] \in Nat /\ (x.kind = "output" => w[x] = 1)
  BY DEF Weighs
<1>2. \A f \in Seq(Items) : SumOver(f, w) \in Nat
  BY <1>1, SumIsNat
<1>3. FrameSum(w) \in [Seq(Items) -> Nat] /\ \A f \in Seq(Items) : FrameSum(w)[f] = SumOver(f, w)
  BY <1>2 DEF FrameSum
<1>4. \A fs \in Seq(Seq(Items)) : SumOver(fs, FrameSum(w)) \in Nat
  BY <1>3, SumIsNat
<1>. QED
  BY <1>1, <1>2, <1>3, <1>4

LEMMA BufferedFacts ==
  ASSUME PathOK
  PROVE  [t \in Terminal |-> Len(buf[t])] \in [Terminal -> Nat] /\ Buffered \in Nat
<1>1. [t \in Terminal |-> Len(buf[t])] \in [Terminal -> Nat]
  BY DEF PathOK
<1>. QED
  BY <1>1, Bounds, CellsAreFinite DEF Buffered

LEMMA WaitingIsNat ==
  ASSUME PathOK, NEW w, Weighs(w)
  PROVE  /\ Waiting(w) \in Nat /\ SumOver(pipe, w) \in Nat
         /\ SumOver(batched, FrameSum(w)) \in Nat /\ Buffered \in Nat
BY WeighFacts, BufferedFacts DEF PathOK, Waiting

LEMMA SaidCounts ==
  ASSUME PathOK, NEW w, Weighs(w),
         NEW t \in Terminal, NEW kind \in {"output", "event", "exit"}, Said(t, kind)
  PROVE  /\ Item(t, said[t] + 1, kind) \in Items
         /\ Waiting(w)' = Waiting(w) + w[Item(t, said[t] + 1, kind)]
         /\ w[Item(t, said[t] + 1, kind)] \in Nat
<1>1. PICK x : x = Item(t, said[t] + 1, kind)
  OBVIOUS
<1>2. x \in Items /\ w[x] \in Nat
  <2>1. x \in Items
    BY SMTT(30), <1>1, Bounds DEF Item, Items, Said, PathOK
  <2>. QED
    BY <2>1, WeighFacts
<1>3. pipe \in Seq(Items) /\ pipe' = Append(pipe, x) /\ UNCHANGED <<batched, buf>>
  BY <1>1 DEF Said, PathOK
<1>4. SumOver(Append(pipe, x), w) = SumOver(pipe, w) + w[x]
  BY <1>2, <1>3, WeighFacts, SumAppend
<1>5. SumOver(pipe', w) = SumOver(pipe, w) + w[x]
  BY <1>3, <1>4
<1>6. SumOver(batched', FrameSum(w)) = SumOver(batched, FrameSum(w)) /\ Buffered' = Buffered
  BY <1>3 DEF Buffered
<1>7. Waiting(w)' = SumOver(pipe', w) + SumOver(batched', FrameSum(w)) + Buffered'
  BY DEF Waiting
<1>8. Waiting(w)' = Waiting(w) + w[x]
  BY <1>2, <1>5, <1>6, <1>7, WaitingIsNat DEF Waiting
<1>. QED
  BY <1>1, <1>2, <1>8

(* Only output is buffered.                                                *)
OnlyOutput == \A t \in Terminal : \A i \in DOMAIN buf[t] : buf[t][i].kind = "output"

LEMMA OutputCharge ==
  ASSUME NEW w, Weighs(w), NEW s \in Seq(Items), \A i \in DOMAIN s : s[i].kind = "output"
  PROVE  SumOver(s, w) = Len(s) /\ Len(s) \in Nat
<1>1. \A i \in DOMAIN s : w[s[i]] = 1
  BY ElementOf, WeighFacts
<1>2. SumOver(s, w) = Len(s)
  BY <1>1, SumOfOnes
<1>. QED
  BY <1>2

LEMMA BufferedUpdated ==
  ASSUME PathOK, NEW t \in Terminal, NEW held, NEW x \in Seq(Items), held = buf[t],
         buf' = [buf EXCEPT ![t] = x]
  PROVE  Buffered' = Buffered - Len(held) + Len(x) /\ Buffered \in Nat /\ Len(held) <= Buffered
<1>. DEFINE f == [u \in Terminal |-> Len(buf[u])]
<1>1. f \in [Terminal -> Nat] /\ Len(x) \in Nat /\ f[t] = Len(held)
  BY BufferedFacts
<1>2. [u \in Terminal |-> Len(buf'[u])] = [f EXCEPT ![t] = Len(x)]
  BY DEF PathOK
<1>3. Buffered = Total(f) /\ Buffered' = Total([f EXCEPT ![t] = Len(x)])
  BY <1>2 DEF Buffered
<1>. HIDE DEF f
<1>4. /\ Total([f EXCEPT ![t] = Len(x)]) = Total(f) - f[t] + Len(x)
      /\ Total(f) \in Nat /\ f[t] <= Total(f)
  BY <1>1, Bounds, TotalUpdated
<1>. QED
  BY <1>1, <1>3, <1>4

LEMMA AcceptCounts ==
  ASSUME PathOK, OnlyOutput, NEW w, Weighs(w), Accept
  PROVE  Waiting(w)' = Waiting(w) /\ OnlyOutput'
<1>1. PICK x, t, held, grown : x = Head(pipe) /\ t = x.t /\ held = buf[t] /\ grown = Append(held, x)
  OBVIOUS
<1>2. pipe # <<>> /\ pipe' = Tail(pipe) /\ pipe \in Seq(Items)
  BY DEF Accept, PathOK
<1>3. x \in Items /\ t \in Terminal /\ Tail(pipe) \in Seq(Items)
  BY <1>1, <1>2, TailFacts, ItemFacts
<1>4. held \in Seq(Items) /\ (\A i \in DOMAIN held : held[i].kind = "output") /\ buf \in [Terminal -> Seq(Items)]
  BY <1>1, <1>3 DEF PathOK, OnlyOutput
<1>5. SumOver(held, w) = Len(held) /\ Len(held) \in Nat
  BY <1>4, OutputCharge
<1>6. SumOver(pipe, w) = w[x] + SumOver(pipe', w) /\ w[x] \in Nat /\ SumOver(pipe', w) \in Nat
  <2>1. SumOver(pipe, w) = w[Head(pipe)] + SumOver(Tail(pipe), w)
    BY <1>2, WeighFacts, SumTail
  <2>2. SumOver(Tail(pipe), w) \in Nat
    BY <1>3, WeighFacts
  <2>3. w[Head(pipe)] = w[x] /\ w[Head(pipe)] \in Nat
    BY <1>1, <1>3, WeighFacts
  <2>. QED
    BY <1>2, <2>1, <2>2, <2>3
<1>7. /\ grown \in Seq(Items) /\ SumOver(grown, w) = Len(held) + w[x] /\ Len(grown) = Len(held) + 1
      /\ \A i \in DOMAIN grown : (i \in DOMAIN held /\ grown[i] = held[i]) \/ grown[i] = x
  <2>1. /\ Append(held, x) \in Seq(Items) /\ Len(Append(held, x)) = Len(held) + 1
        /\ \A i \in DOMAIN Append(held, x) :
             (i \in DOMAIN held /\ Append(held, x)[i] = held[i]) \/ Append(held, x)[i] = x
    BY <1>3, <1>4, AppendFacts
  <2>2. SumOver(Append(held, x), w) = SumOver(held, w) + w[x]
    BY <1>3, <1>4, WeighFacts, SumAppend
  <2>. QED
    BY <1>1, <1>5, <2>1, <2>2
<1>8. SumOver(batched, FrameSum(w)) \in Nat /\ Buffered \in Nat
  BY WaitingIsNat
<1>9. Waiting(w)' = SumOver(pipe', w) + SumOver(batched', FrameSum(w)) + Buffered'
  BY DEF Waiting
<1>10. CASE x.kind = "output" /\ buf' = [buf EXCEPT ![t] = grown] /\ batched' = batched
  <2>1. Buffered' = Buffered - Len(held) + Len(grown) /\ Len(held) <= Buffered
    BY <1>1, <1>3, <1>7, <1>10, BufferedUpdated
  <2>2. w[x] = 1
    BY <1>3, <1>10, WeighFacts
  <2>3. Waiting(w)' = Waiting(w)
    BY <1>5, <1>6, <1>7, <1>8, <1>9, <1>10, <2>1, <2>2 DEF Waiting
  <2>4. \A u \in Terminal : buf'[u] = IF u = t THEN grown ELSE buf[u]
    BY <1>3, <1>4, <1>10
  <2>5. OnlyOutput'
    BY <1>4, <1>7, <1>10, <2>4 DEF OnlyOutput
  <2>. QED
    BY <2>3, <2>5
<1>11. CASE /\ buf' = [buf EXCEPT ![t] = <<>>]
            /\ batched' = batched \o (IF x.kind = "output" THEN <<grown>> ELSE FlushThen(held, x))
  <2>1. PICK new : new = IF x.kind = "output" THEN <<grown>> ELSE FlushThen(held, x)
    OBVIOUS
  <2>2. new \in Seq(Seq(Items)) /\ SumOver(new, FrameSum(w)) = Len(held) + w[x]
    <3>1. PICK e : e = <<x>>
      OBVIOUS
    <3>2. e \in Seq(Items) /\ SumOver(e, w) = w[x]
      <4>1. SumOver(<<x>>, w) = w[x]
        BY <1>3, WeighFacts, SumOfOne
      <4>2. <<x>> \in Seq(Items)
        BY <1>3
      <4>. QED
        BY <3>1, <4>1, <4>2
    <3>3. \A f \in Seq(Items) : <<f>> \in Seq(Seq(Items)) /\ SumOver(<<f>>, FrameSum(w)) = SumOver(f, w)
      <4>1. TAKE f \in Seq(Items)
      <4>2. <<f>> \in Seq(Seq(Items))
        OBVIOUS
      <4>3. SumOver(<<f>>, FrameSum(w)) = FrameSum(w)[f]
        BY WeighFacts, SumOfOne
      <4>. QED
        BY <4>2, <4>3, WeighFacts
    <3>4. CASE new = <<grown>>
      BY <1>7, <3>3, <3>4
    <3>5. CASE held = <<>> /\ new = <<e>>
      <4>1. Len(held) = 0
        BY <3>5
      <4>. QED
        BY <1>6, <3>2, <3>3, <3>5, <4>1
    <3>6. CASE new = <<held, e>>
      <4>1. <<held>> \in Seq(Seq(Items)) /\ new = Append(<<held>>, e) /\ new \in Seq(Seq(Items))
        BY <1>4, <3>2, <3>6
      <4>2. SumOver(Append(<<held>>, e), FrameSum(w)) = SumOver(<<held>>, FrameSum(w)) + FrameSum(w)[e]
        <5>1. PICK s : s = <<held>>
          OBVIOUS
        <5>2. s \in Seq(Seq(Items)) /\ FrameSum(w) \in [Seq(Items) -> Nat]
          BY <4>1, <5>1, WeighFacts
        <5>3. SumOver(Append(s, e), FrameSum(w)) = SumOver(s, FrameSum(w)) + FrameSum(w)[e]
          BY <3>2, <5>2, SumAppend
        <5>. QED
          BY <5>1, <5>3
      <4>3. SumOver(<<held>>, FrameSum(w)) = FrameSum(w)[held]
        BY <1>4, WeighFacts, SumOfOne
      <4>4. FrameSum(w)[held] = Len(held) /\ FrameSum(w)[e] = w[x]
        BY <1>4, <1>5, <3>2, WeighFacts
      <4>. QED
        BY <4>1, <4>2, <4>3, <4>4
    <3>. QED
      BY <2>1, <3>1, <3>4, <3>5, <3>6 DEF FlushThen
  <2>3. SumOver(batched', FrameSum(w)) = SumOver(batched, FrameSum(w)) + SumOver(new, FrameSum(w))
    <3>1. batched \in Seq(Seq(Items)) /\ batched' = batched \o new
      BY <1>11, <2>1 DEF PathOK
    <3>2. SumOver(batched \o new, FrameSum(w)) = SumOver(batched, FrameSum(w)) + SumOver(new, FrameSum(w))
      BY <2>2, <3>1, WeighFacts, SumConcat
    <3>. QED
      BY <3>1, <3>2
  <2>4. Buffered' = Buffered - Len(held) + 0 /\ Len(held) <= Buffered
    <3>1. PICK none : none = <<>>
      OBVIOUS
    <3>2. buf' = [buf EXCEPT ![t] = none] /\ Len(none) = 0 /\ none \in Seq(Items)
      BY <1>11, <3>1
    <3>. QED
      BY <1>1, <1>3, <3>2, BufferedUpdated
  <2>5. Waiting(w)' = Waiting(w)
    <3>1. PICK p, b, h, k, d \in Nat :
                 /\ p = SumOver(pipe', w) /\ b = SumOver(batched, FrameSum(w))
                 /\ h = Len(held) /\ k = w[x] /\ d = Buffered
      BY <1>5, <1>6, <1>8
    <3>2. SumOver(batched', FrameSum(w)) = b + (h + k) /\ Buffered' = d - h + 0 /\ SumOver(pipe, w) = k + p
      BY <1>6, <2>2, <2>3, <2>4, <3>1
    <3>3. Waiting(w)' = p + (b + (h + k)) + (d - h + 0)
      BY <1>9, <3>1, <3>2
    <3>4. Waiting(w) = (k + p) + b + d
      BY <3>1, <3>2 DEF Waiting
    <3>5. p + (b + (h + k)) + (d - h + 0) = (k + p) + b + d
      OBVIOUS
    <3>. QED
      BY <3>3, <3>4, <3>5
  <2>6. \A u \in Terminal : buf'[u] = IF u = t THEN <<>> ELSE buf[u]
    BY <1>3, <1>4, <1>11
  <2>7. OnlyOutput'
    BY <2>6 DEF OnlyOutput
  <2>. QED
    BY <2>5, <2>7
<1>. QED
  BY <1>1, <1>10, <1>11 DEF Accept

LEMMA TotalOfZeros ==
  ASSUME NEW S, IsFiniteSet(S), NEW f \in [S -> Nat], \A i \in S : f[i] = 0
  PROVE  Total(f) = 0
<1>1. \A p : p \in Cells(f) <=> \E i \in DOMAIN f : \E k \in 1 .. f[i] : p = <<i, k>>
  BY CellsAre
<1>2. \A i \in DOMAIN f : \A k \in 1 .. f[i] : FALSE
  OBVIOUS
<1>3. Cells(f) = {}
  BY <1>1, <1>2
<1>. QED
  BY <1>3, CellsAre, FS_EmptySet

LEMMA FlushAllCounts ==
  ASSUME PathOK, OnlyOutput, NEW w, Weighs(w), FlushAll
  PROVE  Waiting(w)' = Waiting(w) /\ OnlyOutput'
<1>. DEFINE S == {t \in Terminal : buf[t] # <<>>}
            len == [t \in Terminal |-> Len(buf[t])]
<1>1. PICK order \in SetToSeqs(S) : batched' = batched \o [i \in 1 .. Len(order) |-> buf[order[i]]]
  BY DEF FlushAll
<1>2. buf' = [t \in Terminal |-> <<>>] /\ UNCHANGED pipe
  BY DEF FlushAll
<1>3. IsFiniteSet(S) /\ S \subseteq Terminal
  BY Bounds, FS_Subset
<1>4. buf \in [Terminal -> Seq(Items)] /\ len \in [Terminal -> Nat] /\ batched \in Seq(Seq(Items))
  BY DEF PathOK
<1>5. /\ \A t \in Terminal : len[t] = Len(buf[t]) /\ SumOver(buf[t], w) = Len(buf[t]) /\ buf[t] \in Seq(Items)
      /\ \A t \in Terminal : t \notin S => len[t] = 0
  <2>1. \A t \in Terminal : buf[t] \in Seq(Items) /\ \A i \in DOMAIN buf[t] : buf[t][i].kind = "output"
    BY <1>4 DEF OnlyOutput
  <2>2. \A t \in Terminal : SumOver(buf[t], w) = Len(buf[t])
    BY <2>1, OutputCharge
  <2>. QED
    BY <2>1, <2>2
<1>. HIDE DEF S, len
<1>6. PICK n \in Nat : /\ n = Cardinality(S) /\ order \in [1 .. n -> S] /\ Len(order) = n
                       /\ \A i, j \in 1 .. n : i # j => order[i] # order[j]
  <2>1. Cardinality(S) \in Nat
    BY <1>3, FS_CardinalityType
  <2>. QED
    BY SMTT(30), <1>1, <2>1 DEF SetToSeqs
<1>7. \A t \in S : \E i \in 1 .. n : order[i] = t
  <2>1. order \in Injection(1 .. n, S)
    BY <1>6 DEF Injection, IsInjective
  <2>2. Cardinality(1 .. n) = n
    BY FS_Interval
  <2>3. order \in Surjection(1 .. n, S)
    BY <1>3, <1>6, <2>1, <2>2, FS_Injection
  <2>. QED
    BY <2>3 DEF Surjection
<1>8. PICK new : new = [i \in 1 .. n |-> buf[order[i]]]
  OBVIOUS
<1>9. /\ new \in Seq(Seq(Items)) /\ batched' = batched \o new /\ DOMAIN new = 1 .. n
      /\ \A i \in 1 .. n : new[i] = buf[order[i]] /\ order[i] \in S /\ order[i] \in Terminal
  <2>1. \A i \in 1 .. n : order[i] \in S /\ order[i] \in Terminal
    BY <1>3, <1>6
  <2>2. new \in Seq(Seq(Items))
    BY <1>4, <1>8, <2>1
  <2>. QED
    BY <1>1, <1>6, <1>8, <2>1, <2>2
<1>10. SumOver(new, FrameSum(w)) = Buffered
  <2>. DEFINE f == [i \in DOMAIN new |-> FrameSum(w)[new[i]]]
              g == [t \in S |-> len[t]]
              h == [t \in Terminal \ S |-> len[t]]
  <2>1. f \in [1 .. n -> Nat] /\ \A i \in 1 .. n : f[i] = len[order[i]]
    <3>1. ASSUME NEW i \in 1 .. n
          PROVE  f[i] = len[order[i]] /\ len[order[i]] \in Nat
      <4>1. new[i] = buf[order[i]] /\ order[i] \in Terminal
        BY <1>9
      <4>2. FrameSum(w)[buf[order[i]]] = len[order[i]]
        BY <1>5, <4>1, WeighFacts
      <4>. QED
        BY <1>4, <1>9, <4>1, <4>2
    <3>. QED
      BY <1>9, <3>1
  <2>2. g \in [S -> Nat] /\ h \in [Terminal \ S -> Nat] /\ (\A t \in S : g[t] = len[t])
        /\ (\A t \in Terminal \ S : h[t] = len[t] /\ h[t] = 0)
    BY <1>3, <1>4, <1>5
  <2>3. IsFiniteSet(1 .. n) /\ IsFiniteSet(Terminal \ S)
    <3>1. IsFiniteSet(1 .. n)
      BY FS_Interval
    <3>2. IsFiniteSet(Terminal \ S)
      BY Bounds, FS_Difference
    <3>. QED
      BY <3>1, <3>2
  <2>. HIDE DEF f, g, h
  <2>4. Total(f) = Total(g)
    <3>1. SameValues(f, 1 .. n, g, S, order)
      BY <1>6, <1>7, <1>9, <2>1, <2>2, <2>3 DEF SameValues
    <3>. QED
      BY <3>1, TotalOfSame
  <2>5. Total(len) = Total(g) + Total(h)
    <3>1. SplitInto(len, Terminal, g, S, h, Terminal \ S)
      BY <1>3, <1>4, <2>2, <2>3 DEF SplitInto
    <3>. QED
      BY <3>1, TotalSplit
  <2>6. Total(h) = 0
    BY <2>2, <2>3, TotalOfZeros
  <2>7. Total(g) \in Nat
    BY <1>3, <2>2, CellsAreFinite
  <2>8. SumOver(new, FrameSum(w)) = Total(f)
    BY <1>9, WeighFacts DEF SumOver, f
  <2>9. Buffered = Total(len)
    BY DEF Buffered, len
  <2>. QED
    BY <2>4, <2>5, <2>6, <2>7, <2>8, <2>9
<1>11. SumOver(batched', FrameSum(w)) = SumOver(batched, FrameSum(w)) + SumOver(new, FrameSum(w))
  <2>1. SumOver(batched \o new, FrameSum(w)) = SumOver(batched, FrameSum(w)) + SumOver(new, FrameSum(w))
    BY <1>4, <1>9, WeighFacts, SumConcat
  <2>. QED
    BY <1>9, <2>1
<1>12. Buffered' = 0
  <2>. DEFINE f == [t \in Terminal |-> Len(buf'[t])]
  <2>1. f \in [Terminal -> Nat] /\ \A t \in Terminal : f[t] = 0
    BY <1>2
  <2>2. Buffered' = Total(f)
    BY DEF Buffered
  <2>. HIDE DEF f
  <2>. QED
    BY <2>1, <2>2, Bounds, TotalOfZeros
<1>13. Waiting(w)' = SumOver(pipe', w) + SumOver(batched', FrameSum(w)) + Buffered'
  BY DEF Waiting
<1>14. Waiting(w)' = Waiting(w)
  BY <1>2, <1>10, <1>11, <1>12, <1>13, WaitingIsNat DEF Waiting
<1>15. OnlyOutput'
  BY <1>2 DEF OnlyOutput
<1>. QED
  BY <1>14, <1>15

LEMMA RouteCounts ==
  ASSUME PathOK, NEW w, Weighs(w),
         batched # <<>>, batched' = Tail(batched), UNCHANGED <<pipe, buf>>
  PROVE  /\ Head(batched) \in Seq(Items) /\ SumOver(Head(batched), w) \in Nat
         /\ Waiting(w) = Waiting(w)' + SumOver(Head(batched), w) /\ Waiting(w)' \in Nat
<1>1. batched \in Seq(Seq(Items))
  BY DEF PathOK
<1>2. /\ SumOver(batched, FrameSum(w)) = FrameSum(w)[Head(batched)] + SumOver(Tail(batched), FrameSum(w))
      /\ Head(batched) \in Seq(Items) /\ Tail(batched) \in Seq(Seq(Items))
  BY <1>1, WeighFacts, SumTail
<1>3. PICK p, h, b, d \in Nat : /\ p = SumOver(pipe, w) /\ h = SumOver(Head(batched), w)
                                /\ b = SumOver(Tail(batched), FrameSum(w)) /\ d = Buffered
  BY <1>2, WeighFacts, WaitingIsNat
<1>4. FrameSum(w)[Head(batched)] = h
  BY <1>2, <1>3, WeighFacts
<1>5. Waiting(w)' = p + b + d
  BY <1>3 DEF Waiting, Buffered
<1>6. Waiting(w) = p + (h + b) + d
  BY <1>2, <1>3, <1>4 DEF Waiting
<1>7. p + (h + b) + d = (p + b + d) + h /\ p + b + d \in Nat
  OBVIOUS
<1>8. Waiting(w) = Waiting(w)' + h /\ Waiting(w)' \in Nat
  BY <1>5, <1>6, <1>7
<1>. QED
  BY <1>2, <1>3, <1>8

(* The charges are such weights.                                           *)
ItemCharge == [x \in Items |-> Charge(x)]
FrameCharge == [f \in Seq(Items) |-> ChargeOf(f)]
EntryLen == [e \in Entry |-> FrameLen(e.items)]
InTransit == Waiting(ItemCharge)

LEMMA ItemChargeFacts ==
  /\ ItemCharge \in [Items -> Nat]
  /\ \A x \in Items : ItemCharge[x] = Charge(x) /\ (x.kind = "output" => Charge(x) = 1)
<1>1. \A x \in Items : Charge(x) \in Nat
  <2>1. \A x \in Items : <<x>> \in Seq(Items)
    OBVIOUS
  <2>. QED
    BY <2>1, FrameLenIsNat DEF Charge
<1>. QED
  BY <1>1 DEF ItemCharge, Charge

LEMMA ChargeOfFacts ==
  ASSUME NEW s \in Seq(Items)
  PROVE  ChargeOf(s) = SumOver(s, ItemCharge) /\ ChargeOf(s) \in Nat
<1>1. \A i \in DOMAIN s : s[i] \in Items
  BY ElementOf
<1>2. [i \in DOMAIN s |-> Charge(s[i])] = [i \in DOMAIN s |-> ItemCharge[s[i]]]
  BY <1>1, ItemChargeFacts
<1>3. ChargeOf(s) = SumOver(s, ItemCharge)
  BY <1>2 DEF ChargeOf, TotalOf, SumOver
<1>4. SumOver(s, ItemCharge) \in Nat
  BY ItemChargeFacts, SumIsNat
<1>. QED
  BY <1>3, <1>4

LEMMA FramesChargeFacts ==
  /\ FrameCharge \in [Seq(Items) -> Nat]
  /\ \A f \in Seq(Items) : FrameCharge[f] = ChargeOf(f)
  /\ \A fs \in Seq(Seq(Items)) : FramesCharge(fs) = SumOver(fs, FrameCharge) /\ FramesCharge(fs) \in Nat
<1>1. FrameCharge \in [Seq(Items) -> Nat] /\ \A f \in Seq(Items) : FrameCharge[f] = ChargeOf(f)
  BY ChargeOfFacts DEF FrameCharge
<1>2. ASSUME NEW fs \in Seq(Seq(Items))
      PROVE  FramesCharge(fs) = SumOver(fs, FrameCharge) /\ FramesCharge(fs) \in Nat
  <2>1. \A i \in DOMAIN fs : fs[i] \in Seq(Items)
    BY ElementOf
  <2>2. [i \in DOMAIN fs |-> ChargeOf(fs[i])] = [i \in DOMAIN fs |-> FrameCharge[fs[i]]]
    BY <1>1, <2>1
  <2>3. FramesCharge(fs) = SumOver(fs, FrameCharge)
    BY <2>2 DEF FramesCharge, TotalOf, SumOver
  <2>4. SumOver(fs, FrameCharge) \in Nat
    BY <1>1, SumIsNat
  <2>. QED
    BY <2>3, <2>4
<1>. QED
  BY <1>1, <1>2

LEMMA EntryLenFacts ==
  /\ EntryLen \in [Entry -> Nat]
  /\ \A e \in Entry : EntryLen[e] = FrameLen(e.items)
  /\ \A s \in Seq(Entry) : TotalOf(s, LAMBDA e : FrameLen(e.items)) = SumOver(s, EntryLen)
<1>1. \A e \in Entry : e.items \in Seq(Items)
  BY DEF Entry
<1>2. EntryLen \in [Entry -> Nat] /\ \A e \in Entry : EntryLen[e] = FrameLen(e.items)
  BY <1>1, FrameLenIsNat DEF EntryLen
<1>3. ASSUME NEW s \in Seq(Entry)
      PROVE  TotalOf(s, LAMBDA e : FrameLen(e.items)) = SumOver(s, EntryLen)
  <2>1. \A i \in DOMAIN s : s[i] \in Entry
    BY ElementOf
  <2>2. [i \in DOMAIN s |-> FrameLen(s[i].items)] = [i \in DOMAIN s |-> EntryLen[s[i]]]
    BY <1>2, <2>1
  <2>. QED
    BY <2>2 DEF TotalOf, SumOver
<1>. QED
  BY <1>2, <1>3

LEMMA TransitIs ==
  ASSUME PathOK
  PROVE  /\ Weighs(ItemCharge) /\ InTransit \in Nat
         /\ InTransit = ChargeOf(pipe) + FramesCharge(batched) + Buffered
<1>1. Weighs(ItemCharge)
  BY ItemChargeFacts DEF Weighs
<1>2. ChargeOf(pipe) = SumOver(pipe, ItemCharge)
  BY ChargeOfFacts DEF PathOK
<1>3. FramesCharge(batched) = SumOver(batched, FrameSum(ItemCharge))
  <2>1. \A f \in Seq(Items) : FrameSum(ItemCharge)[f] = FrameCharge[f]
    BY FramesChargeFacts, ChargeOfFacts DEF FrameSum
  <2>2. \A i \in DOMAIN batched : FrameSum(ItemCharge)[batched[i]] = FrameCharge[batched[i]]
    BY <2>1, ElementOf DEF PathOK
  <2>3. SumOver(batched, FrameSum(ItemCharge)) = SumOver(batched, FrameCharge)
    BY <2>2, SumOfSame
  <2>. QED
    BY <2>3, FramesChargeFacts DEF PathOK
<1>. QED
  BY <1>1, <1>2, <1>3, WaitingIsNat DEF InTransit, Waiting

AllCounted == \A c \in Conn : \A i \in DOMAIN out[c] : out[c][i].counted = TRUE
LensTrue ==
  \A t \in Terminal : \A i \in DOMAIN away.channels[t] :
    away.channels[t][i].len = FrameLen(away.channels[t][i].items)
QueuedIn(c) == SumOver(out[c], EntryLen)

(* The counts, and what they rest on.                                      *)
CountInv ==
  /\ flow \in [transit : Nat, conn : Nat, queued : Nat]
  /\ flow.conn = current /\ flow.transit = InTransit
  /\ flow.queued = IF current = 0 THEN 0 ELSE QueuedIn(current)
  /\ OnlyOutput /\ AllCounted /\ LensTrue

(* What a connection releases: the length of what it held.                 *)
LEMMA ReleasedFacts ==
  ASSUME NEW s \in Seq(Entry), \A i \in DOMAIN s : s[i].counted = TRUE, NEW f, NEW c
  PROVE  Released(f, c, s) = IF f.conn = c THEN [f EXCEPT !.queued = @ - SumOver(s, EntryLen)] ELSE f
<1>1. \A i \in DOMAIN s : s[i] \in Entry /\ EntryLen[s[i]] = FrameLen(s[i].items)
  BY ElementOf, EntryLenFacts
<1>2. [i \in DOMAIN s |-> IF s[i].counted THEN FrameLen(s[i].items) ELSE 0]
        = [i \in DOMAIN s |-> EntryLen[s[i]]]
  BY <1>1
<1>3. TotalOf(s, LAMBDA e : IF e.counted THEN FrameLen(e.items) ELSE 0) = SumOver(s, EntryLen)
  BY <1>2 DEF TotalOf, SumOver
<1>. QED
  BY <1>3 DEF Released

LEMMA QueuedIsNat ==
  ASSUME PathOK, NEW c \in Conn
  PROVE  QueuedIn(c) \in Nat /\ out[c] \in Seq(Entry)
<1>1. out[c] \in Seq(Entry)
  BY DEF PathOK
<1>. QED
  BY <1>1, EntryLenFacts, SumIsNat DEF QueuedIn

LEMMA SaidKeepsCounts ==
  ASSUME PathOK, CountInv, NEW t \in Terminal, NEW kind \in {"output", "event", "exit"}, Said(t, kind)
  PROVE  CountInv'
<1>1. PICK k : k = Charge(Item(t, said[t] + 1, kind))
  OBVIOUS
<1>2. InTransit' = InTransit + k /\ k \in Nat
  <2>1. Weighs(ItemCharge)
    BY TransitIs
  <2>2. /\ Item(t, said[t] + 1, kind) \in Items
        /\ Waiting(ItemCharge)' = Waiting(ItemCharge) + ItemCharge[Item(t, said[t] + 1, kind)]
        /\ ItemCharge[Item(t, said[t] + 1, kind)] \in Nat
    BY <2>1, SaidCounts
  <2>3. ItemCharge[Item(t, said[t] + 1, kind)] = k
    BY <1>1, <2>2, ItemChargeFacts
  <2>. QED
    BY <2>2, <2>3 DEF InTransit
<1>3. flow' = [flow EXCEPT !.transit = flow.transit + k]
  BY <1>1 DEF Said, CountInv
<1>4. UNCHANGED <<buf, batched, current, opened, broken, out, away>>
  BY DEF Said, routes
<1>5. OnlyOutput' /\ AllCounted' /\ LensTrue'
  BY <1>4 DEF CountInv, OnlyOutput, AllCounted, LensTrue
<1>6. QueuedIn(current)' = QueuedIn(current)
  BY <1>4 DEF QueuedIn
<1>7. /\ flow' \in [transit : Nat, conn : Nat, queued : Nat]
      /\ flow'.conn = flow.conn /\ flow'.queued = flow.queued /\ flow'.transit = flow.transit + k
  BY <1>2, <1>3 DEF CountInv
<1>. QED
  BY <1>2, <1>4, <1>5, <1>6, <1>7 DEF CountInv

LEMMA BatchKeepsCounts ==
  ASSUME PathOK, CountInv, Accept \/ FlushAll
  PROVE  CountInv'
<1>1. InTransit' = InTransit /\ OnlyOutput'
  BY AcceptCounts, FlushAllCounts, TransitIs DEF CountInv, InTransit
<1>2. UNCHANGED <<flow, current, opened, broken, out, away>>
  BY DEF Accept, FlushAll, routes
<1>3. AllCounted' /\ LensTrue' /\ QueuedIn(current)' = QueuedIn(current)
  BY <1>2 DEF CountInv, AllCounted, LensTrue, QueuedIn
<1>. QED
  BY <1>1, <1>2, <1>3 DEF CountInv

LEMMA RouteKeepsCounts ==
  ASSUME NEW m, Ordered(m), CountInv, Route
  PROVE  CountInv'
<1>1. PICK frame : frame = Head(batched)
  OBVIOUS
<1>2. batched # <<>> /\ batched' = Tail(batched) /\ UNCHANGED <<pipe, buf, current, opened, broken>>
  BY DEF Route, routes
<1>3. PathOK
  BY DEF Ordered
<1>4. /\ frame \in Seq(Items) /\ ChargeOf(frame) \in Nat
      /\ InTransit = InTransit' + ChargeOf(frame) /\ InTransit' \in Nat
  <2>1. Weighs(ItemCharge)
    BY <1>3, TransitIs
  <2>2. /\ frame \in Seq(Items) /\ SumOver(frame, ItemCharge) \in Nat
        /\ Waiting(ItemCharge) = Waiting(ItemCharge)' + SumOver(frame, ItemCharge)
        /\ Waiting(ItemCharge)' \in Nat
    BY <1>1, <1>2, <1>3, <2>1, RouteCounts
  <2>3. ChargeOf(frame) = SumOver(frame, ItemCharge)
    BY <2>2, ChargeOfFacts
  <2>. QED
    BY <2>2, <2>3 DEF InTransit
<1>5. OnlyOutput'
  BY <1>2 DEF CountInv, OnlyOutput
<1>6. flow \in [transit : Nat, conn : Nat, queued : Nat] /\ flow.conn = current /\ flow.transit = InTransit
  BY DEF CountInv
<1>7. flow.transit - ChargeOf(frame) = InTransit'
  BY <1>4, <1>6
<1>8. CASE current # 0 /\ current \notin broken
  <2>1. PICK entry : entry = [items |-> frame, counted |-> TRUE, away |-> FALSE]
    OBVIOUS
  <2>2. (flow.conn = current) = TRUE
    BY <1>6
  <2>3. /\ out' = [out EXCEPT ![current] = Append(@, entry)]
        /\ flow' = [[flow EXCEPT !.transit = @ - ChargeOf(frame)] EXCEPT !.queued = @ + FrameLen(frame)]
        /\ UNCHANGED away
    BY <1>1, <1>8, <2>1, <2>2 DEF Route
  <2>4. entry \in Entry /\ entry.items = frame /\ entry.counted = TRUE
    BY <1>4, <2>1 DEF Entry
  <2>5. current \in Conn /\ out \in [Conn -> Seq(Entry)] /\ out[current] \in Seq(Entry)
    BY <1>3, <1>8, Bounds DEF PathOK, Conn
  <2>6. \A c \in Conn : out'[c] = IF c = current THEN Append(out[current], entry) ELSE out[c]
    BY <2>3, <2>5
  <2>7. QueuedIn(current)' = QueuedIn(current) + FrameLen(frame) /\ FrameLen(frame) \in Nat
    <3>1. SumOver(Append(out[current], entry), EntryLen) = SumOver(out[current], EntryLen) + EntryLen[entry]
      BY <2>4, <2>5, EntryLenFacts, SumAppend
    <3>2. EntryLen[entry] = FrameLen(frame) /\ FrameLen(frame) \in Nat
      BY <1>4, <2>4, EntryLenFacts, FrameLenIsNat
    <3>3. out'[current'] = Append(out[current], entry)
      BY <1>2, <2>5, <2>6
    <3>. QED
      BY <3>1, <3>2, <3>3 DEF QueuedIn
  <2>8. AllCounted'
    <3>. DEFINE longer == Append(out[current], entry)
    <3>1. \A i \in DOMAIN longer : (i \in DOMAIN out[current] /\ longer[i] = out[current][i]) \/ longer[i] = entry
      BY <2>4, <2>5, AppendFacts
    <3>. HIDE DEF longer
    <3>2. \A c \in Conn : out'[c] = IF c = current THEN longer ELSE out[c]
      BY <2>6 DEF longer
    <3>. QED
      BY <2>4, <2>5, <3>1, <3>2 DEF CountInv, AllCounted
  <2>9. LensTrue'
    BY <2>3 DEF CountInv, LensTrue
  <2>10. /\ flow'.transit = flow.transit - ChargeOf(frame) /\ flow'.conn = flow.conn
         /\ flow'.queued = flow.queued + FrameLen(frame)
         /\ flow' \in [transit : Nat, conn : Nat, queued : Nat]
    <3>1. PICK a, b : a = flow.transit - ChargeOf(frame) /\ b = flow.queued + FrameLen(frame)
      OBVIOUS
    <3>2. a \in Nat /\ b \in Nat
      BY <1>4, <1>6, <1>7, <2>7, <3>1
    <3>3. flow' = [[flow EXCEPT !.transit = a] EXCEPT !.queued = b]
      BY <1>6, <2>3, <3>1
    <3>4. /\ flow'.transit = a /\ flow'.conn = flow.conn /\ flow'.queued = b
          /\ flow' \in [transit : Nat, conn : Nat, queued : Nat]
      BY <1>6, <3>2, <3>3
    <3>. QED
      BY <3>1, <3>4
  <2>11. flow.queued = QueuedIn(current)
    BY <1>8 DEF CountInv
  <2>12. flow'.queued = IF current' = 0 THEN 0 ELSE QueuedIn(current)'
    BY <1>2, <1>8, <2>7, <2>10, <2>11
  <2>. QED
    BY <1>2, <1>5, <1>6, <1>7, <2>8, <2>9, <2>10, <2>12 DEF CountInv
<1>9. CASE ~(current # 0 /\ current \notin broken)
  <2>1. Push(frame) /\ flow' = [flow EXCEPT !.transit = @ - ChargeOf(frame)] /\ UNCHANGED out
    BY <1>1, <1>9 DEF Route
  <2>2. /\ flow'.transit = flow.transit - ChargeOf(frame) /\ flow'.conn = flow.conn
        /\ flow'.queued = flow.queued
        /\ flow' \in [transit : Nat, conn : Nat, queued : Nat]
    BY <1>4, <1>6, <1>7, <2>1
  <2>3. AllCounted' /\ QueuedIn(current)' = QueuedIn(current)
    BY <1>2, <2>1 DEF CountInv, AllCounted, QueuedIn
  <2>4. IsFrame(frame)
    <3>1. frame = batched[1] /\ 1 \in DOMAIN batched
      BY <1>1, <1>2, <1>3, TailFacts DEF PathOK
    <3>. QED
      BY <3>1, FramesTyped DEF Ordered, IsTyped
  <2>5. LensTrue'
    <3>. DEFINE t == Term(frame)
                e == [rank |-> away.next, items |-> frame, len |-> FrameLen(frame)]
    <3>1. /\ Base(t, frame) \in [Terminal -> Seq(Backlog)]
          /\ \A u \in Terminal : EndOf(away'.channels[u], Base(t, frame)[u])
      BY <1>3, <1>4, <2>1, <2>4, PushKeepsEnds
    <3>2. t \in Terminal /\ e \in Backlog /\ e.len = FrameLen(e.items) /\ away.channels[t] \in Seq(Backlog)
      BY <1>3, <1>4, <2>4, FrameFacts, FrameLenIsNat DEF Backlog, PathOK
    <3>3. ASSUME NEW u \in Terminal, NEW i \in DOMAIN Base(t, frame)[u]
          PROVE  Base(t, frame)[u][i].len = FrameLen(Base(t, frame)[u][i].items)
      <4>1. CASE u = t
        <5>1. Base(t, frame)[u] = Append(away.channels[t], e)
          BY <3>2, <4>1 DEF Base
        <5>. HIDE DEF e, t
        <5>2. (i \in DOMAIN away.channels[t] /\ Append(away.channels[t], e)[i] = away.channels[t][i])
              \/ Append(away.channels[t], e)[i] = e
          BY <3>2, <3>3, <5>1, AppendFacts
        <5>. QED
          BY <3>2, <5>1, <5>2 DEF CountInv, LensTrue
      <4>2. CASE u # t
        <5>1. Base(t, frame)[u] = away.channels[u]
          BY <4>2 DEF Base
        <5>. QED
          BY <3>3, <5>1 DEF CountInv, LensTrue
      <4>. QED
        BY <4>1, <4>2
    <3>4. ASSUME NEW u \in Terminal, NEW i \in DOMAIN away'.channels[u]
          PROVE  away'.channels[u][i].len = FrameLen(away'.channels[u][i].items)
      <4>1. \E j \in DOMAIN Base(t, frame)[u] : away'.channels[u][i] = Base(t, frame)[u][j]
        BY <3>1 DEF EndOf
      <4>. QED
        BY <3>3, <4>1
    <3>. QED
      BY <3>4 DEF LensTrue
  <2>. QED
    BY <1>2, <1>5, <1>6, <1>7, <2>2, <2>3, <2>5 DEF CountInv
<1>. QED
  BY <1>8, <1>9

LEMMA WriteKeepsCounts ==
  ASSUME PathOK, CountInv, NEW c \in Conn, Write(c)
  PROVE  CountInv'
<1>1. /\ out[c] # <<>> /\ UNCHANGED <<pipe, buf, batched, current, opened, broken, away>>
      /\ flow' = Released(flow, c, <<Head(out[c])>>)
      /\ out' = [out EXCEPT ![c] = Tail(@)]
  BY DEF Write, routes
<1>2. out[c] \in Seq(Entry) /\ out \in [Conn -> Seq(Entry)]
  BY DEF PathOK
<1>3. PICK e : e = Head(out[c])
  OBVIOUS
<1>4. /\ e \in Entry /\ e = out[c][1] /\ 1 \in DOMAIN out[c] /\ Tail(out[c]) \in Seq(Entry)
      /\ \A i \in DOMAIN Tail(out[c]) : i + 1 \in DOMAIN out[c] /\ Tail(out[c])[i] = out[c][i + 1]
  BY <1>1, <1>2, <1>3, TailFacts
<1>5. e.counted = TRUE
  BY <1>4 DEF CountInv, AllCounted
<1>6. flow \in [transit : Nat, conn : Nat, queued : Nat] /\ flow.conn = current
  BY DEF CountInv
<1>7. /\ QueuedIn(c) = EntryLen[e] + SumOver(Tail(out[c]), EntryLen) /\ EntryLen[e] \in Nat
      /\ SumOver(Tail(out[c]), EntryLen) \in Nat
  <2>1. SumOver(out[c], EntryLen) = EntryLen[Head(out[c])] + SumOver(Tail(out[c]), EntryLen)
    BY <1>1, <1>2, EntryLenFacts, SumTail
  <2>2. SumOver(Tail(out[c]), EntryLen) \in Nat
    BY <1>4, EntryLenFacts, SumIsNat
  <2>3. EntryLen[e] \in Nat
    BY <1>4, EntryLenFacts
  <2>. QED
    BY <1>3, <2>1, <2>2, <2>3 DEF QueuedIn
<1>8. flow' = IF flow.conn = c THEN [flow EXCEPT !.queued = @ - EntryLen[e]] ELSE flow
  <2>1. PICK s : s = <<e>>
    OBVIOUS
  <2>2. s \in Seq(Entry) /\ \A i \in DOMAIN s : s[i].counted = TRUE
    BY <1>4, <1>5, <2>1
  <2>3. SumOver(s, EntryLen) = EntryLen[e]
    BY <1>4, <2>1, EntryLenFacts, SumOfOne
  <2>4. Released(flow, c, s) = IF flow.conn = c THEN [flow EXCEPT !.queued = @ - SumOver(s, EntryLen)] ELSE flow
    BY <2>2, ReleasedFacts
  <2>. QED
    BY <1>1, <1>3, <2>1, <2>3, <2>4
<1>9. \A a \in Conn : out'[a] = IF a = c THEN Tail(out[c]) ELSE out[a]
  BY <1>1, <1>2
<1>10. InTransit' = InTransit /\ OnlyOutput' /\ LensTrue'
  BY <1>1 DEF CountInv, InTransit, Waiting, Buffered, OnlyOutput, LensTrue
<1>11. AllCounted'
  <2>1. PICK q : q = Tail(out[c])
    OBVIOUS
  <2>2. \A i \in DOMAIN q : q[i].counted = TRUE
    BY <1>4, <2>1 DEF CountInv, AllCounted
  <2>3. \A a \in Conn : out'[a] = IF a = c THEN q ELSE out[a]
    BY <1>9, <2>1
  <2>. QED
    BY <2>2, <2>3 DEF CountInv, AllCounted
<1>12. CASE current = c
  <2>1. flow.queued = QueuedIn(c) /\ current # 0
    BY <1>12 DEF CountInv, Conn
  <2>2. flow.queued - EntryLen[e] = SumOver(Tail(out[c]), EntryLen)
    BY <1>7, <2>1
  <2>3. flow' = [flow EXCEPT !.queued = SumOver(Tail(out[c]), EntryLen)]
    BY <1>6, <1>8, <1>12, <2>2
  <2>4. QueuedIn(current)' = SumOver(Tail(out[c]), EntryLen)
    BY <1>1, <1>9, <1>12 DEF QueuedIn
  <2>5. /\ flow' \in [transit : Nat, conn : Nat, queued : Nat] /\ flow'.conn = flow.conn
        /\ flow'.transit = flow.transit /\ flow'.queued = SumOver(Tail(out[c]), EntryLen)
    BY <1>6, <1>7, <2>3
  <2>. QED
    BY <1>1, <1>10, <1>11, <2>1, <2>4, <2>5 DEF CountInv
<1>13. CASE current # c
  <2>1. UNCHANGED flow
    BY <1>6, <1>8, <1>13
  <2>2. current # 0 => QueuedIn(current)' = QueuedIn(current)
    <3>1. current # 0 => current \in Conn
      BY Bounds DEF PathOK, Conn
    <3>. QED
      BY <1>1, <1>9, <1>13, <3>1 DEF QueuedIn
  <2>. QED
    BY <1>1, <1>10, <1>11, <2>1, <2>2 DEF CountInv
<1>. QED
  BY <1>12, <1>13

LEMMA WriteFailsKeepsCounts ==
  ASSUME PathOK, CountInv, NEW c \in Conn, WriteFails(c)
  PROVE  CountInv'
<1>1. /\ UNCHANGED <<pipe, buf, batched, current, opened, away>>
      /\ flow' = Released(flow, c, out[c])
      /\ out' = [out EXCEPT ![c] = <<>>]
  BY DEF WriteFails
<1>2. out[c] \in Seq(Entry) /\ out \in [Conn -> Seq(Entry)] /\ QueuedIn(c) \in Nat
  BY QueuedIsNat DEF PathOK
<1>3. flow' = IF flow.conn = c THEN [flow EXCEPT !.queued = @ - QueuedIn(c)] ELSE flow
  <2>1. \A i \in DOMAIN out[c] : out[c][i].counted = TRUE
    BY DEF CountInv, AllCounted
  <2>2. Released(flow, c, out[c]) = IF flow.conn = c THEN [flow EXCEPT !.queued = @ - SumOver(out[c], EntryLen)] ELSE flow
    BY <1>2, <2>1, ReleasedFacts
  <2>. QED
    BY <1>1, <2>2 DEF QueuedIn
<1>4. flow \in [transit : Nat, conn : Nat, queued : Nat] /\ flow.conn = current
  BY DEF CountInv
<1>5. \A a \in Conn : out'[a] = IF a = c THEN <<>> ELSE out[a]
  BY <1>1, <1>2
<1>6. InTransit' = InTransit /\ OnlyOutput' /\ LensTrue'
  BY <1>1 DEF CountInv, InTransit, Waiting, Buffered, OnlyOutput, LensTrue
<1>7. AllCounted'
  BY <1>5 DEF CountInv, AllCounted
<1>8. CASE current = c
  <2>1. flow.queued = QueuedIn(c) /\ current # 0
    BY <1>8 DEF CountInv, Conn
  <2>2. flow.queued - QueuedIn(c) = 0
    BY <1>2, <2>1
  <2>3. flow' = [flow EXCEPT !.queued = 0]
    BY <1>3, <1>4, <1>8, <2>2
  <2>4. QueuedIn(current)' = 0
    BY <1>1, <1>5, <1>8, SumOfNone DEF QueuedIn
  <2>5. /\ flow' \in [transit : Nat, conn : Nat, queued : Nat] /\ flow'.conn = flow.conn
        /\ flow'.transit = flow.transit /\ flow'.queued = 0
    BY <1>4, <2>3
  <2>. QED
    BY <1>1, <1>6, <1>7, <2>1, <2>4, <2>5 DEF CountInv
<1>9. CASE current # c
  <2>1. UNCHANGED flow
    BY <1>3, <1>4, <1>9
  <2>2. current # 0 => QueuedIn(current)' = QueuedIn(current)
    <3>1. current # 0 => current \in Conn
      BY Bounds DEF PathOK, Conn
    <3>. QED
      BY <1>1, <1>5, <1>9, <3>1 DEF QueuedIn
  <2>. QED
    BY <1>1, <1>6, <1>7, <2>1, <2>2 DEF CountInv
<1>. QED
  BY <1>8, <1>9

LEMMA DisconnectKeepsCounts ==
  ASSUME PathOK, CountInv, Disconnect
  PROVE  CountInv'
<1>1. current' = 0 /\ flow' = detach(flow, current) /\ UNCHANGED <<pipe, buf, batched, opened, out, away>>
  BY DEF Disconnect
<1>2. flow \in [transit : Nat, conn : Nat, queued : Nat] /\ flow.conn = current
  BY DEF CountInv
<1>3. /\ flow' \in [transit : Nat, conn : Nat, queued : Nat]
      /\ flow'.transit = flow.transit /\ flow'.conn = 0 /\ flow'.queued = 0
  BY <1>1, <1>2 DEF detach
<1>4. InTransit' = InTransit /\ OnlyOutput' /\ LensTrue' /\ AllCounted'
  BY <1>1 DEF CountInv, InTransit, Waiting, Buffered, OnlyOutput, LensTrue, AllCounted
<1>. QED
  BY <1>1, <1>3, <1>4 DEF CountInv

LEMMA ConnectKeepsCounts ==
  ASSUME NEW m, Ordered(m), CountInv, Connect
  PROVE  CountInv'
<1>1. PICK c : c = opened + 1
  OBVIOUS
<1>2. PICK drained \in Drained : /\ out' = [out EXCEPT ![c] = Sendable(drained)]
                                 /\ flow' = [attach(flow, c) EXCEPT !.queued = @ + BytesOf(drained)]
  BY <1>1 DEF Connect, Sendable
<1>3. /\ opened < MaxConn /\ opened' = c /\ current' = c /\ away' = NothingAway
      /\ UNCHANGED <<pipe, buf, batched, broken>>
  BY <1>1 DEF Connect
<1>4. PICK q : q = Sendable(drained)
  OBVIOUS
<1>5. q \in Seq(Entry)
  BY <1>4, DrainedInOrder
<1>6. c \in Conn /\ c \in Nat /\ c # 0 /\ out \in [Conn -> Seq(Entry)]
  BY <1>1, <1>3, Bounds DEF Ordered, PathOK, Conn
<1>7. \A a \in Conn : out'[a] = IF a = c THEN q ELSE out[a]
  BY <1>2, <1>4, <1>6
<1>8. \A i \in DOMAIN q : /\ i \in DOMAIN drained /\ q[i].items = drained[i].items /\ q[i].counted = TRUE
                          /\ drained[i] \in AllKept
  <2>1. drained \in [1 .. Cardinality(AllKept) -> AllKept]
    BY DEF Drained, AllKept
  <2>. QED
    BY <1>4, <2>1 DEF Sendable
<1>9. DOMAIN q = DOMAIN drained
  BY <1>4 DEF Sendable
<1>10. SumOver(q, EntryLen) = BytesOf(drained) /\ SumOver(q, EntryLen) \in Nat
  <2>1. \A e \in AllKept : e.len = FrameLen(e.items)
    <3>1. \A e \in AllKept : \E t \in Terminal : \E i \in DOMAIN away.channels[t] : e = away.channels[t][i]
      BY AllKeptFacts DEF Ordered
    <3>. QED
      BY <3>1 DEF CountInv, LensTrue
  <2>2. \A i \in DOMAIN q : EntryLen[q[i]] = drained[i].len
    <3>1. TAKE i \in DOMAIN q
    <3>2. q[i] \in Entry
      BY <1>5, ElementOf
    <3>3. EntryLen[q[i]] = FrameLen(q[i].items)
      BY <3>2, EntryLenFacts
    <3>. QED
      BY <1>8, <2>1, <3>3
  <2>3. [i \in DOMAIN q |-> EntryLen[q[i]]] = [i \in DOMAIN drained |-> drained[i].len]
    BY <1>9, <2>2
  <2>4. SumOver(q, EntryLen) = BytesOf(drained)
    BY <2>3 DEF SumOver, BytesOf, TotalOf
  <2>5. SumOver(q, EntryLen) \in Nat
    BY <1>5, EntryLenFacts, SumIsNat
  <2>. QED
    BY <2>4, <2>5
<1>11. flow \in [transit : Nat, conn : Nat, queued : Nat]
  BY DEF CountInv
<1>12. /\ flow' \in [transit : Nat, conn : Nat, queued : Nat]
       /\ flow'.transit = flow.transit /\ flow'.conn = c /\ flow'.queued = SumOver(q, EntryLen)
  <2>1. PICK b \in Nat : b = BytesOf(drained)
    BY <1>10
  <2>2. flow' = [[flow EXCEPT !.conn = c, !.queued = 0] EXCEPT !.queued = @ + b]
    BY <1>2, <2>1 DEF attach
  <2>3. PICK f : f = [flow EXCEPT !.conn = c, !.queued = 0]
    OBVIOUS
  <2>4. /\ f \in [transit : Nat, conn : Nat, queued : Nat]
        /\ f.transit = flow.transit /\ f.conn = c /\ f.queued = 0
    BY <1>6, <1>11, <2>3
  <2>5. flow' = [f EXCEPT !.queued = b]
    <3>1. flow' = [f EXCEPT !.queued = f.queued + b] /\ 0 + b = b
      BY <2>1, <2>2, <2>3, <2>4
    <3>. QED
      BY <2>4, <3>1
  <2>6. /\ flow' \in [transit : Nat, conn : Nat, queued : Nat]
        /\ flow'.transit = f.transit /\ flow'.conn = f.conn /\ flow'.queued = b
    BY <2>1, <2>4, <2>5
  <2>. QED
    BY <1>10, <2>1, <2>4, <2>6
<1>13. QueuedIn(current)' = SumOver(q, EntryLen)
  BY <1>3, <1>6, <1>7 DEF QueuedIn
<1>14. InTransit' = InTransit /\ OnlyOutput'
  BY <1>3 DEF CountInv, InTransit, Waiting, Buffered, OnlyOutput
<1>15. AllCounted'
  BY <1>7, <1>8 DEF CountInv, AllCounted
<1>16. LensTrue'
  BY <1>3 DEF LensTrue, NothingAway
<1>. QED
  BY <1>3, <1>6, <1>12, <1>13, <1>14, <1>15, <1>16 DEF CountInv

LEMMA CountInit ==
  ASSUME Init
  PROVE  CountInv
<1>1. /\ flow = [transit |-> 0, conn |-> 0, queued |-> 0] /\ current = 0
      /\ pipe = <<>> /\ batched = <<>> /\ buf = [t \in Terminal |-> <<>>]
      /\ out = [c \in Conn |-> <<>>] /\ away = NothingAway
  BY DEF Init
<1>2. InTransit = 0
  <2>1. SumOver(pipe, ItemCharge) = 0 /\ SumOver(batched, FrameSum(ItemCharge)) = 0
    BY <1>1, SumOfNone
  <2>2. Buffered = 0
    <3>. DEFINE f == [t \in Terminal |-> Len(buf[t])]
    <3>1. f \in [Terminal -> Nat] /\ \A t \in Terminal : f[t] = 0
      BY <1>1
    <3>2. Buffered = Total(f)
      BY DEF Buffered
    <3>. HIDE DEF f
    <3>. QED
      BY <3>1, <3>2, Bounds, TotalOfZeros
  <2>. QED
    BY <2>1, <2>2 DEF InTransit, Waiting
<1>3. OnlyOutput /\ AllCounted /\ LensTrue
  BY <1>1 DEF OnlyOutput, AllCounted, LensTrue, NothingAway
<1>. QED
  BY <1>1, <1>2, <1>3 DEF CountInv

LEMMA CountStep ==
  ASSUME OrderInv, CountInv, [Next]_vars
  PROVE  CountInv'
<1>1. PICK m : Ordered(m)
  BY DEF OrderInv
<1>2. PathOK
  BY <1>1 DEF Ordered
<1>3. ASSUME NEW t \in Terminal, Read(t) \/ SendEvent(t) \/ Ends(t)
      PROVE  CountInv'
  BY <1>2, <1>3, SaidKeepsCounts DEF Read, SendEvent, Ends
<1>4. ASSUME UNCHANGED vars \/ \E t \in Terminal : Resume(t)
      PROVE  CountInv'
  <2>1. UNCHANGED <<pipe, buf, batched, flow, current, opened, broken, out, away>>
    BY <1>4 DEF vars, readers, routes, Resume
  <2>. QED
    BY <2>1 DEF CountInv, InTransit, Waiting, Buffered, OnlyOutput, AllCounted, LensTrue, QueuedIn
<1>5. ASSUME Accept \/ FlushAll
      PROVE  CountInv'
  BY <1>2, <1>5, BatchKeepsCounts
<1>6. CASE Route
  BY <1>1, <1>6, RouteKeepsCounts
<1>7. CASE Disconnect
  BY <1>2, <1>7, DisconnectKeepsCounts
<1>8. CASE Connect
  BY <1>1, <1>8, ConnectKeepsCounts
<1>9. ASSUME NEW c \in Conn, Write(c) \/ WriteFails(c)
      PROVE  CountInv'
  BY <1>2, <1>9, WriteKeepsCounts, WriteFailsKeepsCounts
<1>. QED
  BY <1>3, <1>4, <1>5, <1>6, <1>7, <1>8, <1>9 DEF Next

(* The two counts of the flow are what is really there, after any order of *)
(* reads, batches, writes, failures and connections: no charge is lost and *)
(* none is dropped twice.                                                  *)
THEOREM CountsAreExact == Spec => []CountsAreTrue
<1>1. Init => OrderInv /\ CountInv
  BY OrderInit, CountInit
<1>2. OrderInv /\ CountInv /\ [Next]_vars => OrderInv' /\ CountInv'
  BY OrderStep, CountStep
<1>3. OrderInv /\ CountInv => CountsAreTrue
  <2>1. SUFFICES ASSUME OrderInv, CountInv
                 PROVE  CountsAreTrue
    OBVIOUS
  <2>2. PathOK
    BY <2>1 DEF OrderInv, Ordered
  <2>3. flow.transit = ChargeOf(pipe) + FramesCharge(batched) + Total([t \in Terminal |-> Len(buf[t])])
    BY <2>1, <2>2, TransitIs DEF CountInv, Buffered
  <2>4. current # 0 => flow.queued = TotalOf(out[current], LAMBDA e : FrameLen(e.items))
    <3>1. current # 0 => out[current] \in Seq(Entry)
      BY <2>2, Bounds DEF PathOK, Conn
    <3>. QED
      BY <2>1, <3>1, EntryLenFacts DEF CountInv, QueuedIn
  <2>. QED
    BY <2>1, <2>3, <2>4 DEF CountInv, CountsAreTrue
<1>. QED
  BY <1>1, <1>2, <1>3, PTL DEF Spec

-----------------------------------------------------------------------------
(* How much output can wait.                                               *)

OutputSize == [x \in Items |-> IF x.kind = "output" THEN 1 ELSE 0]
OutputsOf == [e \in Entry |-> IF e.away THEN 0 ELSE SumOver(e.items, OutputSize)]
Unwritten == IF current = 0 THEN 0 ELSE SumOver(out[current], OutputsOf)
Unsent == Waiting(OutputSize) + Unwritten

LEMMA OutputFacts ==
  /\ Weighs(OutputSize) /\ OutputsOf \in [Entry -> Nat]
  /\ \A x \in Items : OutputSize[x] = IF x.kind = "output" THEN 1 ELSE 0
  /\ \A e \in Entry : /\ OutputsOf[e] = IF e.away THEN 0 ELSE SumOver(e.items, OutputSize)
                      /\ e.items \in Seq(Items)
<1>1. Weighs(OutputSize) /\ \A x \in Items : OutputSize[x] = IF x.kind = "output" THEN 1 ELSE 0
  BY DEF OutputSize, Weighs
<1>2. \A e \in Entry : e.items \in Seq(Items) /\ SumOver(e.items, OutputSize) \in Nat
  BY <1>1, WeighFacts DEF Entry
<1>3. OutputsOf \in [Entry -> Nat]
  BY <1>2 DEF OutputsOf
<1>. QED
  BY <1>1, <1>2, <1>3 DEF OutputsOf

LEMMA UnwrittenIsNat ==
  ASSUME PathOK
  PROVE  Unwritten \in Nat /\ Unsent \in Nat
<1>1. current # 0 => out[current] \in Seq(Entry)
  BY Bounds DEF PathOK, Conn
<1>2. Unwritten \in Nat
  BY <1>1, OutputFacts, SumIsNat DEF Unwritten
<1>. QED
  BY <1>2, OutputFacts, WaitingIsNat DEF Unsent

(* An entry's output is no more than its length.                           *)
LEMMA OutputWithinLen ==
  ASSUME NEW e \in Entry
  PROVE  OutputsOf[e] <= EntryLen[e]
<1>. DEFINE size == [x \in Items |-> SizeOf(x)]
<1>1. e.items \in Seq(Items) /\ \A i \in DOMAIN e.items : e.items[i] \in Items
  BY ElementOf DEF Entry
<1>2. size \in [Items -> Nat] /\ \A x \in Items : OutputSize[x] <= size[x] /\ size[x] = SizeOf(x)
  BY Bounds DEF OutputSize, SizeOf
<1>. HIDE DEF size
<1>3. [i \in DOMAIN e.items |-> SizeOf(e.items[i])] = [i \in DOMAIN e.items |-> size[e.items[i]]]
  BY <1>1, <1>2
<1>4. TotalOf(e.items, SizeOf) = SumOver(e.items, size)
  BY <1>3 DEF TotalOf, SumOver
<1>5. OutputSize \in [Items -> Nat]
  BY OutputFacts, WeighFacts
<1>6. SumOver(e.items, OutputSize) <= SumOver(e.items, size)
  BY <1>1, <1>2, <1>5, SumRises
<1>7. SumOver(e.items, OutputSize) \in Nat /\ SumOver(e.items, size) \in Nat
  BY <1>1, <1>2, <1>5, SumIsNat
<1>8. EntryLen[e] = Header + SumOver(e.items, size)
  BY <1>4, EntryLenFacts DEF FrameLen
<1>9. OutputsOf[e] <= SumOver(e.items, size)
  BY <1>6, <1>7, OutputFacts
<1>10. OutputsOf[e] \in Nat
  BY OutputFacts
<1>. QED
  BY <1>7, <1>8, <1>9, <1>10, Bounds

(* What waits is charged for.                                              *)
LEMMA UnsentIsCharged ==
  ASSUME PathOK, CountInv
  PROVE  Unsent <= Pending /\ Pending \in Nat /\ Unsent \in Nat
<1>1. Weighs(OutputSize) /\ Weighs(ItemCharge) /\ flow.transit = InTransit
  BY OutputFacts, TransitIs DEF CountInv
<1>2. \A x \in Items : OutputSize[x] <= ItemCharge[x]
  <2>1. TAKE x \in Items
  <2>2. CASE x.kind = "output"
    BY <2>2, <1>1, WeighFacts
  <2>3. CASE x.kind # "output"
    BY <2>3, <1>1, OutputFacts, WeighFacts
  <2>. QED
    BY <2>2, <2>3
<1>3. \A f \in Seq(Items) : SumOver(f, OutputSize) <= SumOver(f, ItemCharge)
  <2>1. TAKE f \in Seq(Items)
  <2>2. \A i \in DOMAIN f : OutputSize[f[i]] <= ItemCharge[f[i]]
    BY <1>2, ElementOf
  <2>3. OutputSize \in [Items -> Nat] /\ ItemCharge \in [Items -> Nat]
    BY <1>1, WeighFacts
  <2>. QED
    BY <2>2, <2>3, SumRises
<1>4. SumOver(batched, FrameSum(OutputSize)) <= SumOver(batched, FrameSum(ItemCharge))
  <2>1. /\ FrameSum(OutputSize) \in [Seq(Items) -> Nat] /\ FrameSum(ItemCharge) \in [Seq(Items) -> Nat]
        /\ \A f \in Seq(Items) : FrameSum(OutputSize)[f] <= FrameSum(ItemCharge)[f]
    BY <1>1, <1>3, WeighFacts
  <2>2. \A i \in DOMAIN batched : FrameSum(OutputSize)[batched[i]] <= FrameSum(ItemCharge)[batched[i]]
    BY <2>1, ElementOf DEF PathOK
  <2>. QED
    BY <2>1, <2>2, SumRises DEF PathOK
<1>5. Waiting(OutputSize) <= Waiting(ItemCharge)
  <2>1. PICK p, q, b, c, d \in Nat :
               /\ p = SumOver(pipe, OutputSize) /\ q = SumOver(pipe, ItemCharge)
               /\ b = SumOver(batched, FrameSum(OutputSize)) /\ c = SumOver(batched, FrameSum(ItemCharge))
               /\ d = Buffered
    BY <1>1, WaitingIsNat
  <2>2. p <= q /\ b <= c
    BY <1>3, <1>4, <2>1 DEF PathOK
  <2>3. p + b + d <= q + c + d
    BY <2>2
  <2>. QED
    BY <2>1, <2>3 DEF Waiting
<1>6. Unwritten <= flow.queued
  <2>1. CASE current = 0
    BY <2>1 DEF Unwritten, CountInv
  <2>2. CASE current # 0
    <3>1. out[current] \in Seq(Entry) /\ flow.queued = SumOver(out[current], EntryLen)
      BY <2>2, Bounds DEF PathOK, Conn, CountInv, QueuedIn
    <3>2. \A i \in DOMAIN out[current] : OutputsOf[out[current][i]] <= EntryLen[out[current][i]]
      BY <3>1, ElementOf, OutputWithinLen
    <3>3. SumOver(out[current], OutputsOf) <= SumOver(out[current], EntryLen)
      BY <3>1, <3>2, OutputFacts, EntryLenFacts, SumRises
    <3>. QED
      BY <2>2, <3>1, <3>3 DEF Unwritten
  <2>. QED
    BY <2>1, <2>2
<1>7. flow.queued \in Nat /\ flow.transit \in Nat
  BY DEF CountInv
<1>8. PICK u, v, a, b \in Nat : /\ u = Waiting(OutputSize) /\ v = Unwritten
                                /\ a = flow.transit /\ b = flow.queued
  BY <1>1, <1>7, WaitingIsNat, UnwrittenIsNat
<1>9. u <= a /\ v <= b
  BY <1>1, <1>5, <1>6, <1>8 DEF InTransit
<1>10. u + v <= a + b
  BY <1>9
<1>. QED
  BY <1>8, <1>10 DEF Unsent, Pending

LEMMA SaidWaits ==
  ASSUME PathOK, NEW t \in Terminal, NEW kind \in {"output", "event", "exit"}, Said(t, kind)
  PROVE  Unsent' = IF kind = "output" THEN Unsent + 1 ELSE Unsent
<1>1. PICK x : x = Item(t, said[t] + 1, kind)
  OBVIOUS
<1>2. /\ x \in Items /\ Waiting(OutputSize)' = Waiting(OutputSize) + OutputSize[x]
      /\ Waiting(OutputSize) \in Nat
  BY <1>1, OutputFacts, SaidCounts, WaitingIsNat
<1>3. OutputSize[x] = IF kind = "output" THEN 1 ELSE 0
  BY <1>1, <1>2, OutputFacts DEF Item
<1>4. Unwritten' = Unwritten /\ Unwritten \in Nat
  <2>1. UNCHANGED <<current, out>>
    BY DEF Said, routes
  <2>. QED
    BY <2>1, UnwrittenIsNat DEF Unwritten
<1>5. Unsent' = Waiting(OutputSize)' + Unwritten'
  BY DEF Unsent
<1>. QED
  BY <1>2, <1>3, <1>4, <1>5 DEF Unsent

LEMMA BatchWaits ==
  ASSUME PathOK, OnlyOutput, Accept \/ FlushAll
  PROVE  Unsent' = Unsent
<1>1. Waiting(OutputSize)' = Waiting(OutputSize)
  BY OutputFacts, AcceptCounts, FlushAllCounts
<1>2. UNCHANGED <<current, out>>
  BY DEF Accept, FlushAll, routes
<1>. QED
  BY <1>1, <1>2 DEF Unsent, Unwritten

LEMMA RouteWaits ==
  ASSUME PathOK, Route
  PROVE  Unsent' <= Unsent
<1>1. PICK frame : frame = Head(batched)
  OBVIOUS
<1>2. batched # <<>> /\ batched' = Tail(batched) /\ UNCHANGED <<pipe, buf, current>>
  BY DEF Route, routes
<1>3. PICK k, a, b \in Nat :
             /\ k = SumOver(frame, OutputSize) /\ a = Waiting(OutputSize)' /\ b = Unwritten
             /\ Waiting(OutputSize) = a + k
  BY <1>1, <1>2, OutputFacts, RouteCounts, UnwrittenIsNat
<1>4. frame \in Seq(Items)
  BY <1>1, <1>2, OutputFacts, RouteCounts
<1>5. Unsent = (a + k) + b /\ Unsent' = a + Unwritten'
  BY <1>3 DEF Unsent
<1>6. CASE current # 0 /\ current \notin broken
  <2>1. PICK entry : entry = [items |-> frame, counted |-> flow.conn = current, away |-> FALSE]
    OBVIOUS
  <2>2. out' = [out EXCEPT ![current] = Append(@, entry)]
    BY <1>1, <1>6, <2>1 DEF Route
  <2>3. entry \in Entry /\ entry.items = frame /\ entry.away = FALSE
    BY <1>4, <2>1 DEF Entry
  <2>4. current \in Conn /\ out \in [Conn -> Seq(Entry)] /\ out[current] \in Seq(Entry)
    BY <1>6, Bounds DEF PathOK, Conn
  <2>5. out'[current'] = Append(out[current], entry)
    BY <1>2, <2>2, <2>4
  <2>6. SumOver(Append(out[current], entry), OutputsOf) = SumOver(out[current], OutputsOf) + OutputsOf[entry]
    BY <2>3, <2>4, OutputFacts, SumAppend
  <2>7. OutputsOf[entry] = k
    BY <1>3, <2>3, OutputFacts
  <2>8. Unwritten' = b + k
    BY <1>2, <1>3, <1>6, <2>5, <2>6, <2>7 DEF Unwritten
  <2>9. a + (b + k) = (a + k) + b
    OBVIOUS
  <2>. QED
    BY <1>5, <2>8, <2>9
<1>7. CASE ~(current # 0 /\ current \notin broken)
  <2>1. UNCHANGED out
    BY <1>7 DEF Route
  <2>2. Unwritten' = b
    BY <1>2, <1>3, <2>1 DEF Unwritten
  <2>3. a + b <= (a + k) + b
    OBVIOUS
  <2>. QED
    BY <1>5, <2>2, <2>3
<1>. QED
  BY <1>6, <1>7

(* What a connection's queue loses, whatever the connection.               *)
LEMMA WriteWaits ==
  ASSUME PathOK, NEW c \in Conn, Write(c) \/ WriteFails(c)
  PROVE  Unsent' <= Unsent
<1>1. UNCHANGED <<pipe, buf, batched, current>>
  BY DEF Write, WriteFails, routes
<1>2. Waiting(OutputSize)' = Waiting(OutputSize) /\ Waiting(OutputSize) \in Nat
  BY <1>1, OutputFacts, WaitingIsNat DEF Waiting, Buffered
<1>3. out \in [Conn -> Seq(Entry)] /\ out[c] \in Seq(Entry)
  BY DEF PathOK
<1>4. PICK q \in Seq(Entry) : /\ out' = [out EXCEPT ![c] = q]
                              /\ SumOver(q, OutputsOf) <= SumOver(out[c], OutputsOf)
  <2>1. CASE Write(c)
    <3>1. out' = [out EXCEPT ![c] = Tail(out[c])] /\ out[c] # <<>>
      BY <2>1 DEF Write
    <3>2. PICK q : q = Tail(out[c])
      OBVIOUS
    <3>3. /\ SumOver(out[c], OutputsOf) = OutputsOf[Head(out[c])] + SumOver(Tail(out[c]), OutputsOf)
          /\ Tail(out[c]) \in Seq(Entry) /\ OutputsOf[Head(out[c])] \in Nat
      BY <1>3, <3>1, OutputFacts, SumTail
    <3>4. q \in Seq(Entry) /\ SumOver(q, OutputsOf) \in Nat
      BY <3>2, <3>3, OutputFacts, SumIsNat
    <3>5. SumOver(q, OutputsOf) <= SumOver(out[c], OutputsOf)
      BY <3>2, <3>3, <3>4
    <3>. QED
      BY <3>1, <3>2, <3>4, <3>5
  <2>2. CASE WriteFails(c)
    <3>1. PICK q : q = <<>>
      OBVIOUS
    <3>2. q \in Seq(Entry) /\ SumOver(q, OutputsOf) = 0
      BY <3>1, SumOfNone
    <3>3. SumOver(out[c], OutputsOf) \in Nat
      BY <1>3, OutputFacts, SumIsNat
    <3>4. out' = [out EXCEPT ![c] = q]
      BY <2>2, <3>1 DEF WriteFails
    <3>5. SumOver(q, OutputsOf) <= SumOver(out[c], OutputsOf)
      BY <3>2, <3>3
    <3>. QED
      BY <3>2, <3>4, <3>5
  <2>. QED
    BY <2>1, <2>2
<1>5. Unwritten' <= Unwritten
  <2>1. CASE current = c
    <3>1. out'[current'] = q /\ current # 0
      BY <1>1, <1>3, <1>4, <2>1 DEF Conn
    <3>. QED
      BY <1>1, <1>4, <2>1, <3>1 DEF Unwritten
  <2>2. CASE current # c
    <3>1. current # 0 => out'[current] = out[current]
      BY <1>3, <1>4, <2>2, Bounds DEF PathOK, Conn
    <3>2. Unwritten' = Unwritten
      BY <1>1, <3>1 DEF Unwritten
    <3>. QED
      BY <3>2, UnwrittenIsNat
  <2>. QED
    BY <2>1, <2>2
<1>6. Unwritten' \in Nat
  <2>1. current # 0 => out'[current] \in Seq(Entry)
    BY <1>3, <1>4, Bounds DEF PathOK, Conn
  <2>2. current # 0 => SumOver(out'[current], OutputsOf) \in Nat
    BY <2>1, OutputFacts, SumIsNat
  <2>. QED
    BY <1>1, <2>2 DEF Unwritten
<1>7. Unsent' = Waiting(OutputSize)' + Unwritten'
  BY DEF Unsent
<1>. QED
  BY <1>2, <1>5, <1>6, <1>7, UnwrittenIsNat DEF Unsent

(* A new connection starts with what has bounds of its own.                *)
LEMMA ConnWaits ==
  ASSUME NEW m, Ordered(m), Disconnect \/ Connect
  PROVE  Unsent' <= Unsent
<1>1. UNCHANGED <<pipe, buf, batched>>
  BY DEF Disconnect, Connect
<1>2. PathOK
  BY DEF Ordered
<1>3. Waiting(OutputSize)' = Waiting(OutputSize) /\ Waiting(OutputSize) \in Nat
  BY <1>1, <1>2, OutputFacts, WaitingIsNat DEF Waiting, Buffered
<1>4. Unwritten' = 0
  <2>1. CASE Disconnect
    BY <2>1 DEF Disconnect, Unwritten
  <2>2. CASE Connect
    <3>1. PICK c : c = opened + 1
      OBVIOUS
    <3>2. PICK drained \in Drained : out' = [out EXCEPT ![c] = Sendable(drained)]
      BY <2>2, <3>1 DEF Connect, Sendable
    <3>3. PICK q : q = Sendable(drained)
      OBVIOUS
    <3>4. q \in Seq(Entry)
      BY <3>3, DrainedInOrder
    <3>5. \A i \in DOMAIN q : q[i].away = TRUE
      BY <3>3 DEF Sendable
    <3>6. c \in Conn /\ c # 0 /\ current' = c /\ out \in [Conn -> Seq(Entry)]
      BY <1>2, <2>2, <3>1, Bounds DEF Connect, PathOK, Conn
    <3>7. out'[current'] = q
      BY <3>2, <3>3, <3>6
    <3>8. SumOver(q, OutputsOf) = 0
      <4>. DEFINE f == [i \in DOMAIN q |-> OutputsOf[q[i]]]
      <4>1. f \in [1 .. Len(q) -> Nat] /\ IsFiniteSet(1 .. Len(q))
        BY <3>4, OutputFacts, SumIsNat
      <4>2. \A i \in DOMAIN q : OutputsOf[q[i]] = 0
        BY <3>4, <3>5, ElementOf, OutputFacts
      <4>3. \A i \in 1 .. Len(q) : f[i] = 0
        BY <3>4, <4>2
      <4>. HIDE DEF f
      <4>4. Total(f) = 0
        BY <4>1, <4>3, TotalOfZeros
      <4>. QED
        BY <4>4 DEF SumOver, f
    <3>. QED
      BY <3>6, <3>7, <3>8 DEF Unwritten
  <2>. QED
    BY <2>1, <2>2
<1>5. Unsent' = Waiting(OutputSize)' + Unwritten'
  BY DEF Unsent
<1>. QED
  BY <1>2, <1>3, <1>4, <1>5, UnwrittenIsNat DEF Unsent

(* Who has read since the flow was full: one read each above the mark.     *)
Allowed == heldBack \cup over
BoundInv ==
  /\ heldBack \subseteq Terminal \ over
  /\ Unsent <= High - 1 + Cardinality(Allowed)

LEMMA AllowedFacts ==
  ASSUME NEW S, S \subseteq Terminal
  PROVE  IsFiniteSet(S) /\ Cardinality(S) \in Nat /\ Cardinality(S) <= Cardinality(Terminal)
BY Bounds, FS_Subset, FS_CardinalityType

LEMMA ReadKeepsBound ==
  ASSUME PathOK, PathOK', CountInv', BoundInv, NEW t \in Terminal, Read(t)
  PROVE  BoundInv'
<1>1. t \notin Allowed /\ Said(t, "output") /\ UNCHANGED over /\ Allowed \subseteq Terminal
  BY DEF Read, Said, Allowed, BoundInv, PathOK
<1>2. Unsent' = Unsent + 1
  BY <1>1, SaidWaits
<1>3. heldBack' \subseteq Terminal \ over'
  BY <1>1 DEF BoundInv, Read, HeldAfterRead, Allowed
<1>4. Cardinality(Allowed) \in Nat /\ IsFiniteSet(Allowed) /\ High \in Nat /\ Unsent \in Nat
  BY <1>1, AllowedFacts, Bounds, UnwrittenIsNat
<1>5. CASE FullAt(flow')
  <2>1. Allowed' = Allowed \cup {t}
    BY <1>1, <1>5 DEF Read, HeldAfterRead, Allowed
  <2>2. Cardinality(Allowed \cup {t}) = Cardinality(Allowed) + 1
    BY <1>1, <1>4, FS_AddElement
  <2>3. Unsent <= High - 1 + Cardinality(Allowed)
    BY DEF BoundInv
  <2>4. Unsent' <= High - 1 + Cardinality(Allowed')
    BY <1>2, <1>4, <2>1, <2>2, <2>3
  <2>. QED
    BY <1>3, <2>4 DEF BoundInv
<1>6. CASE ~FullAt(flow')
  <2>1. Allowed' = Allowed
    BY <1>1, <1>6 DEF Read, HeldAfterRead, Allowed
  <2>2. /\ flow'.transit \in Nat /\ flow'.queued \in Nat
        /\ ~(flow'.transit + flow'.queued >= High)
        /\ Unsent' <= flow'.transit + flow'.queued
    <3>1. (Unsent <= Pending)' /\ (flow \in [transit : Nat, conn : Nat, queued : Nat])'
      BY UnsentIsCharged, PTL DEF CountInv
    <3>. QED
      BY <1>6, <3>1 DEF FullAt, Pending
  <2>3. Unsent' <= High - 1 + Cardinality(Allowed)
    BY <1>2, <1>4, <2>2
  <2>. QED
    BY <1>3, <2>1, <2>3 DEF BoundInv
<1>. QED
  BY <1>5, <1>6

LEMMA BoundStep ==
  ASSUME OrderInv, OrderInv', CountInv, CountInv', BoundInv, [Next]_vars
  PROVE  BoundInv'
<1>1. PICK m : Ordered(m)
  BY DEF OrderInv
<1>2. PathOK /\ PathOK' /\ OnlyOutput
  BY <1>1 DEF OrderInv, Ordered, CountInv
<1>3. /\ Allowed \subseteq Terminal /\ Cardinality(Allowed) \in Nat
      /\ High \in Nat /\ Low \in Nat /\ Low < High /\ Unsent \in Nat /\ Unsent' \in Nat
  <2>1. Allowed \subseteq Terminal
    BY <1>2 DEF Allowed, BoundInv, PathOK
  <2>2. Unsent \in Nat
    BY <1>2, UnwrittenIsNat
  <2>3. (Unsent \in Nat)'
    BY <1>2, UnwrittenIsNat, PTL
  <2>. QED
    BY <2>1, <2>2, <2>3, AllowedFacts, Bounds
<1>4. ASSUME NEW t \in Terminal, Read(t)
      PROVE  BoundInv'
  BY <1>2, <1>4, ReadKeepsBound
<1>5. ASSUME NEW t \in Terminal, SendEvent(t)
      PROVE  BoundInv'
  <2>1. Unsent' = Unsent /\ UNCHANGED <<over, heldBack>>
    BY <1>2, <1>5, SaidWaits DEF SendEvent
  <2>. QED
    BY <2>1 DEF BoundInv, Allowed
<1>6. ASSUME NEW t \in Terminal, Ends(t)
      PROVE  BoundInv'
  <2>1. Unsent' = Unsent
    BY <1>2, <1>6, SaidWaits DEF Ends
  <2>2. Allowed' = Allowed \cup {t} /\ heldBack' \subseteq Terminal \ over'
    BY <1>6 DEF Ends, Allowed, BoundInv
  <2>3. Cardinality(Allowed) <= Cardinality(Allowed') /\ Cardinality(Allowed') \in Nat
    <3>1. Allowed' \subseteq Terminal /\ IsFiniteSet(Allowed')
      BY <1>3, <1>6, <2>2, AllowedFacts
    <3>. QED
      BY <2>2, <3>1, AllowedFacts, FS_Subset
  <2>4. Unsent' <= High - 1 + Cardinality(Allowed')
    BY <1>3, <2>1, <2>3 DEF BoundInv
  <2>. QED
    BY <2>2, <2>4 DEF BoundInv
<1>7. ASSUME NEW t \in Terminal, Resume(t)
      PROVE  BoundInv'
  <2>1. Pending <= Low /\ heldBack' = heldBack \ {t} /\ UNCHANGED <<over, pipe, buf, batched, current, out>>
    BY <1>7 DEF Resume, routes
  <2>2. Unsent' = Unsent
    BY <2>1 DEF Unsent, Unwritten, Waiting, Buffered
  <2>3. Unsent <= Pending /\ Pending \in Nat
    BY <1>2, UnsentIsCharged
  <2>4. heldBack' \subseteq Terminal \ over' /\ Allowed' \subseteq Terminal
    BY <1>3, <2>1 DEF BoundInv, Allowed
  <2>5. Cardinality(Allowed') \in Nat
    BY <2>4, AllowedFacts
  <2>6. Unsent' <= High - 1 + Cardinality(Allowed')
    BY <1>3, <2>1, <2>2, <2>3, <2>5
  <2>. QED
    BY <2>4, <2>6 DEF BoundInv
<1>8. ASSUME Unsent' <= Unsent, UNCHANGED <<over, heldBack>>
      PROVE  BoundInv'
  <2>1. Allowed' = Allowed
    BY <1>8 DEF Allowed
  <2>2. Unsent' <= High - 1 + Cardinality(Allowed)
    BY <1>3, <1>8 DEF BoundInv
  <2>. QED
    BY <1>8, <2>1, <2>2 DEF BoundInv
<1>9. ASSUME Accept \/ FlushAll \/ Route
      PROVE  BoundInv'
  <2>1. Unsent' <= Unsent
    BY <1>2, <1>3, <1>9, BatchWaits, RouteWaits
  <2>2. UNCHANGED <<over, heldBack>>
    BY <1>9 DEF Accept, FlushAll, Route, readers
  <2>. QED
    BY <1>8, <2>1, <2>2
<1>10. ASSUME Disconnect \/ Connect
       PROVE  BoundInv'
  <2>1. UNCHANGED <<over, heldBack>>
    BY <1>10 DEF Disconnect, Connect, readers
  <2>. QED
    BY <1>1, <1>8, <1>10, <2>1, ConnWaits
<1>11. ASSUME NEW c \in Conn, Write(c) \/ WriteFails(c)
       PROVE  BoundInv'
  <2>1. UNCHANGED <<over, heldBack>>
    BY <1>11 DEF Write, WriteFails, readers
  <2>. QED
    BY <1>2, <1>8, <1>11, <2>1, WriteWaits
<1>12. CASE UNCHANGED vars
  <2>1. UNCHANGED <<over, heldBack, pipe, buf, batched, current, out>>
    BY <1>12 DEF vars, readers, routes
  <2>2. Unsent' = Unsent
    BY <2>1 DEF Unsent, Unwritten, Waiting, Buffered
  <2>. QED
    BY <1>3, <1>8, <2>1, <2>2
<1>. QED
  BY <1>4, <1>5, <1>6, <1>7, <1>9, <1>10, <1>11, <1>12 DEF Next

LEMMA BoundInit ==
  ASSUME Init
  PROVE  BoundInv
<1>1. PathOK /\ CountInv
  BY OrderInit, CountInit DEF OrderInv, Ordered
<1>2. Pending = 0
  BY DEF Init, Pending
<1>3. Unsent <= 0 /\ Unsent \in Nat
  BY <1>1, <1>2, UnsentIsCharged
<1>4. Allowed = {} /\ heldBack \subseteq Terminal \ over
  BY DEF Init, Allowed
<1>5. Cardinality({}) = 0 /\ High \in Nat /\ High > 0
  BY Bounds, FS_EmptySet
<1>6. Unsent <= High - 1 + Cardinality(Allowed)
  BY <1>3, <1>4, <1>5
<1>. QED
  BY <1>4, <1>6 DEF BoundInv

(* What OutputIsBounded adds up.                                           *)
LEMMA UnsentIs ==
  ASSUME PathOK
  PROVE  /\ OutputIn(pipe) = SumOver(pipe, OutputSize)
         /\ OutputsIn(batched) = SumOver(batched, FrameSum(OutputSize))
         /\ current # 0 =>
              TotalOf(out[current], LAMBDA e : IF e.away THEN 0 ELSE OutputIn(e.items)) = Unwritten
<1>1. ASSUME NEW s \in Seq(Items)
      PROVE  OutputIn(s) = SumOver(s, OutputSize)
  <2>1. \A i \in DOMAIN s : s[i] \in Items
    BY ElementOf
  <2>2. [i \in DOMAIN s |-> IF s[i].kind = "output" THEN 1 ELSE 0] = [i \in DOMAIN s |-> OutputSize[s[i]]]
    BY <2>1, OutputFacts
  <2>. QED
    BY <2>2 DEF OutputIn, TotalOf, SumOver
<1>2. OutputsIn(batched) = SumOver(batched, FrameSum(OutputSize))
  <2>1. \A i \in DOMAIN batched : batched[i] \in Seq(Items)
    BY ElementOf DEF PathOK
  <2>2. \A f \in Seq(Items) : OutputIn(f) = FrameSum(OutputSize)[f]
    BY <1>1, OutputFacts, WeighFacts
  <2>3. [i \in DOMAIN batched |-> OutputIn(batched[i])] = [i \in DOMAIN batched |-> FrameSum(OutputSize)[batched[i]]]
    BY <2>1, <2>2
  <2>. QED
    BY <2>3 DEF OutputsIn, TotalOf, SumOver
<1>3. ASSUME current # 0
      PROVE  TotalOf(out[current], LAMBDA e : IF e.away THEN 0 ELSE OutputIn(e.items)) = Unwritten
  <2>1. out[current] \in Seq(Entry)
    BY <1>3, Bounds DEF PathOK, Conn
  <2>2. PICK q \in Seq(Entry) : q = out[current]
    BY <2>1
  <2>3. \A i \in DOMAIN q : q[i] \in Entry
    BY ElementOf
  <2>4. \A e \in Entry : OutputsOf[e] = IF e.away THEN 0 ELSE OutputIn(e.items)
    BY <1>1, OutputFacts
  <2>5. [i \in DOMAIN q |-> IF q[i].away THEN 0 ELSE OutputIn(q[i].items)] = [i \in DOMAIN q |-> OutputsOf[q[i]]]
    BY <2>3, <2>4
  <2>6. TotalOf(q, LAMBDA e : IF e.away THEN 0 ELSE OutputIn(e.items)) = SumOver(q, OutputsOf)
    BY <2>5 DEF TotalOf, SumOver
  <2>. QED
    BY <1>3, <2>2, <2>6 DEF Unwritten
<1>. QED
  BY <1>1, <1>2, <1>3 DEF PathOK

(* However fast the terminals read and however slowly the hub, its output  *)
(* waiting in the agent never exceeds the high mark by more than one read  *)
(* of every terminal.                                                      *)
THEOREM OutputStaysBounded == Spec => []OutputIsBounded
<1>1. Init => OrderInv /\ CountInv /\ BoundInv
  BY OrderInit, CountInit, BoundInit
<1>2. OrderInv /\ CountInv /\ BoundInv /\ [Next]_vars => OrderInv' /\ CountInv' /\ BoundInv'
  BY OrderStep, CountStep, BoundStep
<1>3. OrderInv /\ CountInv /\ BoundInv => OutputIsBounded
  <2>1. SUFFICES ASSUME OrderInv, BoundInv
                 PROVE  OutputIsBounded
    OBVIOUS
  <2>2. PathOK
    BY <2>1 DEF OrderInv, Ordered
  <2>3. Allowed \subseteq Terminal
    BY <2>1, <2>2 DEF Allowed, BoundInv, PathOK
  <2>4. PICK a, b, h, u \in Nat : a = Cardinality(Allowed) /\ b = Cardinality(Terminal) /\ h = High /\ u = Unsent
    BY <2>2, <2>3, AllowedFacts, Bounds, UnwrittenIsNat
  <2>5. a <= b /\ u <= h - 1 + a
    BY <2>1, <2>3, <2>4, AllowedFacts DEF BoundInv
  <2>6. u <= h - 1 + b
    BY <2>5
  <2>7. Unsent = OutputIn(pipe) + OutputsIn(batched) + Total([t \in Terminal |-> Len(buf[t])])
                 + (IF current = 0 THEN 0
                    ELSE TotalOf(out[current], LAMBDA e : IF e.away THEN 0 ELSE OutputIn(e.items)))
    <3>1. current = 0 => Unwritten = 0
      BY DEF Unwritten
    <3>. QED
      BY <2>2, <3>1, UnsentIs DEF Unsent, Waiting, Buffered
  <2>. QED
    BY <2>4, <2>6, <2>7 DEF OutputIsBounded
<1>. QED
  BY <1>1, <1>2, <1>3, PTL DEF Spec

(* The variables keep their types, for any constants.                      *)
THEOREM OutputTypeCorrect == Spec => []TypeOK
<1>1. Init => OrderInv /\ CountInv /\ BoundInv /\ WordKept
  BY OrderInit, CountInit, BoundInit DEF Init, WordKept, NothingKept
<1>2. OrderInv /\ CountInv /\ BoundInv /\ WordKept /\ [Next]_vars
        => OrderInv' /\ CountInv' /\ BoundInv' /\ WordKept'
  BY OrderStep, CountStep, BoundStep, WordStep
<1>3. OrderInv /\ CountInv /\ BoundInv /\ WordKept => TypeOK
  <2>1. SUFFICES ASSUME OrderInv, CountInv, BoundInv, WordKept
                 PROVE  TypeOK
    OBVIOUS
  <2>2. PathOK
    BY <2>1 DEF OrderInv, Ordered
  <2>3. heldBack \subseteq Terminal \ over /\ kept \in [Terminal -> [bytes : Nat, last : Nat]]
    BY <2>1 DEF BoundInv, WordKept
  <2>4. opened \in 0 .. MaxConn /\ current \in 0 .. opened /\ broken \subseteq Conn /\ opened \in Nat /\ current \in Nat
    BY <2>2, Bounds DEF PathOK, Conn
  <2>5. flow \in [transit : Nat, conn : 0 .. MaxConn, queued : Nat]
    <3>1. current \in 0 .. MaxConn
      BY <2>4, Bounds
    <3>. QED
      BY <2>1, <3>1 DEF CountInv
  <2>. QED
    BY <2>2, <2>3, <2>4, <2>5 DEF PathOK, TypeOK, Entry, Backlog
<1>. QED
  BY <1>1, <1>2, <1>3, PTL DEF Spec
=============================================================================
