--------------------------- MODULE PromptsProofs ---------------------------
(***************************************************************************)
(* Theorems about Prompts, for any clients and any number of operations    *)
(* and questions.                                                          *)
(*                                                                         *)
(* The operations of prompt-context.ts are functions of a world, and so is *)
(* the invariant: Sound(w) is shown to be kept by each of them, and hence  *)
(* by the actions, which compose them.                                     *)
(***************************************************************************)
EXTENDS Prompts, WellFoundedInduction, NaturalsInduction, TLAPS

(* What the operations of prompt-context.ts work on.                       *)
Context == [kind : {"none", "session", "test", "elevation"}, route : Client \cup {0}]

Worlds ==
  [contexts : [ContextId -> Context], asked : 0..MaxPrompts,
   prompts : [Prompt -> PromptRecord], ops : [Op -> Operation],
   toClient : [Client -> SUBSET Message]]

ContextIn(w, o) == IF w.ops[o].kind = "reconnect" THEN Reconnect ELSE o

PendingIn(w, p) == w.prompts[p].state = "pending"

RouteIn(w, p) == w.contexts[w.prompts[p].context].route

AskMsg(p, e) == [type |-> "ask", id |-> p, epoch |-> e]
CancelMsg(p) == [type |-> "cancel", id |-> p]

(* A question that was asked belongs to an operation that was begun; one   *)
(* that is open has its context, and its operation waits for it alone.     *)
QuestionsHeld(w) ==
  /\ \A p \in Prompt : p > w.asked => ~PendingIn(w, p)
  /\ \A p \in Prompt : p <= w.asked =>
       w.prompts[p].op \in Op /\ w.ops[w.prompts[p].op].kind # "none"
  /\ \A p \in Prompt : PendingIn(w, p) =>
       /\ w.ops[w.prompts[p].op].state = "asking"
       /\ w.prompts[p].context = ContextIn(w, w.prompts[p].op)
       /\ w.contexts[w.prompts[p].context] # NoContext
  /\ \A p, q \in Prompt :
       PendingIn(w, p) /\ PendingIn(w, q) /\ w.prompts[p].op = w.prompts[q].op => p = q

(* Who waits has a question open.                                          *)
WaitersAsk(w) ==
  \A o \in Op : w.ops[o].state = "asking" =>
    \E p \in Prompt : PendingIn(w, p) /\ w.prompts[p].op = o

(* A context is the session's, an acquisition's, or a test's or an         *)
(* elevation's, which is routed to the client it was begun for.            *)
ContextsOwned(w) ==
  \A i \in ContextId :
    \/ w.contexts[i] = NoContext
    \/ w.contexts[i].kind = "session" /\ (i = Reconnect \/ w.ops[i].kind = "acquire")
    \/ /\ i # Reconnect /\ w.contexts[i].kind = w.ops[i].kind
       /\ w.ops[i].kind \in {"test", "elevation"}
       /\ w.contexts[i].route = w.ops[i].client

(* A context is routed to a client that is there.                          *)
RoutesThere(w) ==
  \A i \in ContextId : w.contexts[i] # NoContext => w.contexts[i].route \in clients

(* The dialogs of a queue, in any order, and that none is there twice.     *)
Elems(s) == {d \in Dialog : \E k \in DOMAIN s : s[k] = d}

Unique(s) == \A j, k \in DOMAIN s : s[j].id = s[k].id => j = k

(* The dialogs of a client for a type of question.                         *)
ShownAs(c, t) == Elems(dialogs[c][t])

(* What is sent, shown or answered is about a question that was asked, and *)
(* a client that left is sent nothing and shows nothing.                   *)
TracesKnown(w) ==
  \A c \in Client :
    /\ \A m \in w.toClient[c] : m.id <= w.asked /\ c \in clients
    /\ \A t \in PromptType : \A d \in ShownAs(c, t) : d.id <= w.asked /\ c \in clients
    /\ \A a \in toHub[c] : a.id \in Prompt /\ a.id <= w.asked /\ c \in clients

(* A question that is open is seen by nobody but the client it is routed   *)
(* to, as it was last sent, and nobody is told that it is cancelled.       *)
OpenIsCurrent(w) ==
  \A p \in Prompt : PendingIn(w, p) => \A c \in Client :
    /\ \A m \in w.toClient[c] : m.id = p =>
         c = RouteIn(w, p) /\ m = AskMsg(p, w.prompts[p].epoch)
    /\ \A t \in PromptType : \A d \in ShownAs(c, t) : d.id = p =>
         c = RouteIn(w, p) /\ d.epoch = w.prompts[p].epoch
    /\ \A a \in toHub[c] : a.id = p => c = RouteIn(w, p)

(* A client is sent a question once: it is on its way, or shown, or its    *)
(* answer is on its way.                                                   *)
SentOnce(w) ==
  \A c \in Client :
    /\ \A m, n \in w.toClient[c] :
         m.type = "ask" /\ n.type = "ask" /\ m.id = n.id => m = n
    /\ \A m \in w.toClient[c] : m.type = "ask" =>
         /\ \A t \in PromptType : \A d \in ShownAs(c, t) : d.id # m.id
         /\ \A a \in toHub[c] : a.id # m.id

(* And shown once.                                                         *)
ShownOnce ==
  \A c \in Client : \A t \in PromptType :
    /\ Unique(dialogs[c][t])
    /\ \A d \in ShownAs(c, t) : \A a \in toHub[c] : a.id # d.id
    /\ \A u \in PromptType : \A d \in ShownAs(c, t), e \in ShownAs(c, u) :
         u # t => d.id # e.id

(* What is sent or shown is open, or its cancellation is on its way.       *)
LiveIn(w, c, p) ==
  \/ PendingIn(w, p) \/ CancelMsg(p) \in w.toClient[c]
  \/ w.prompts[p].state = "expired" \/ phase = "stopped"

TracesLive(w) ==
  \A c \in Client :
    /\ \A m \in w.toClient[c] : LiveIn(w, c, m.id)
    /\ \A t \in PromptType : \A d \in ShownAs(c, t) : LiveIn(w, c, d.id)

(* WaiterIsShown, of a world.                                              *)
OpenIsShown(w) ==
  \A p \in Prompt : PendingIn(w, p) =>
    \/ AskMsg(p, w.prompts[p].epoch) \in w.toClient[RouteIn(w, p)]
    \/ [id |-> p, epoch |-> w.prompts[p].epoch] \in ShownAs(RouteIn(w, p), w.prompts[p].type)
    \/ \E a \in toHub[RouteIn(w, p)] : a.id = p /\ a.epoch = w.prompts[p].epoch

(* A test's and an elevation's questions are seen by their client alone.   *)
OwnedBy(w, p, c) ==
  w.ops[w.prompts[p].op].kind \in {"test", "elevation"} =>
    w.ops[w.prompts[p].op].client = c

OwnTraces(w) ==
  \A c \in Client :
    /\ \A m \in w.toClient[c] : OwnedBy(w, m.id, c)
    /\ \A t \in PromptType : \A d \in ShownAs(c, t) : OwnedBy(w, d.id, c)

(* The first b operations are begun; those after them hold nothing.        *)
BegunTo(w, b) ==
  \A o \in Op : /\ o > b => w.ops[o] = NoOp /\ w.contexts[o] = NoContext
                /\ o <= b => w.ops[o].kind # "none"

HeldAreBegun == acq <= begun /\ controller <= begun

(* What is true of a world, but for what is shown in vain.                 *)
Sound(w) ==
  /\ w \in Worlds
  /\ QuestionsHeld(w) /\ WaitersAsk(w) /\ ContextsOwned(w) /\ RoutesThere(w)
  /\ TracesKnown(w) /\ OpenIsCurrent(w) /\ SentOnce(w) /\ OpenIsShown(w) /\ OwnTraces(w)

Fine(w, b) == Sound(w) /\ TracesLive(w) /\ BegunTo(w, b)

PromptsInv ==
  /\ PeopleTypeOK /\ HostTypeOK
  /\ toHub \in [Client -> SUBSET Answer]
  /\ dialogs \in [Client -> [PromptType -> Seq(Dialog)]]
  /\ Fine(World, begun) /\ ShownOnce /\ HeldAreBegun

-----------------------------------------------------------------------------
(* Ids, messages and worlds.                                               *)

LEMMA Ids ==
  /\ Op \subseteq Nat /\ Prompt \subseteq Nat
  /\ Op \subseteq ContextId /\ Reconnect \in ContextId /\ Reconnect \notin Op
  /\ ContextId = Op \cup {Reconnect} /\ 0 \notin Op /\ 0 \notin Client
BY ClientAssumption, BoundsAssumption DEF Op, Prompt, ContextId, Reconnect

LEMMA MessageKinds ==
  /\ \A m \in Message :
       /\ m.id \in Prompt
       /\ m.type = "cancel" => m = CancelMsg(m.id)
       /\ m.type # "cancel" => m.type = "ask" /\ m.epoch \in Nat /\ m = AskMsg(m.id, m.epoch)
  /\ \A p \in Prompt : CancelMsg(p) \in Message
  /\ \A p \in Prompt : \A e \in Nat : AskMsg(p, e) \in Message
  /\ \A p : CancelMsg(p).id = p /\ CancelMsg(p).type = "cancel"
  /\ \A p, e : AskMsg(p, e).id = p /\ AskMsg(p, e).type = "ask" /\ AskMsg(p, e).epoch = e
BY DEF Message, CancelMsg, AskMsg

LEMMA WorldFields ==
  ASSUME NEW w \in Worlds
  PROVE  /\ w.contexts \in [ContextId -> Context] /\ w.asked \in 0..MaxPrompts
         /\ w.prompts \in [Prompt -> PromptRecord] /\ w.ops \in [Op -> Operation]
         /\ w.toClient \in [Client -> SUBSET Message]
         /\ w.asked \in Nat
BY BoundsAssumption DEF Worlds

(* The first of some clients is one of them.                               *)
LEMMA OldestIsOne ==
  ASSUME NEW s \in SUBSET Client, s # {}
  PROVE  Oldest(s) \in s
<1>1. s \subseteq Nat
  BY ClientAssumption
<1>2. PICK c \in s : \A d \in s : ~ (<<d, c>> \in OpToRel(<, Nat))
  BY <1>1, NatLessThanWellFounded, WFMin, Zenon
<1>3. \A d \in s : ~ (d < c)
  BY <1>1, <1>2 DEF OpToRel
<1>4. \A d \in s : c <= d
  BY <1>1, <1>3
<1>. QED
  BY <1>4 DEF Oldest

(* The questions that go with the contexts is.                             *)
GoneWith(w, is, p) == PendingIn(w, p) /\ w.prompts[p].context \in is

(* clearContexts, field by field.                                          *)
ClearedTo(w, is, told, v) ==
  /\ v \in Worlds
  /\ v.asked = w.asked
  /\ \A i \in ContextId : v.contexts[i] = IF i \in is THEN NoContext ELSE w.contexts[i]
  /\ \A p \in Prompt :
       /\ v.prompts[p].context = w.prompts[p].context
       /\ v.prompts[p].op = w.prompts[p].op
       /\ v.prompts[p].type = w.prompts[p].type
       /\ v.prompts[p].epoch = w.prompts[p].epoch
       /\ v.prompts[p].timed = w.prompts[p].timed
       /\ v.prompts[p].state = IF GoneWith(w, is, p) THEN "cleared" ELSE w.prompts[p].state
  /\ \A o \in Op :
       /\ v.ops[o].kind = w.ops[o].kind
       /\ v.ops[o].client = w.ops[o].client
       /\ v.ops[o].aborted = w.ops[o].aborted
       /\ v.ops[o].state = IF \E p \in Prompt : GoneWith(w, is, p) /\ w.prompts[p].op = o
                             THEN "cleared" ELSE w.ops[o].state
  /\ \A c \in Client : v.toClient[c] =
       w.toClient[c] \cup (IF told /\ c \in clients
         THEN {CancelMsg(p) : p \in {q \in Prompt : GoneWith(w, is, q) /\ RouteIn(w, q) = c}}
         ELSE {})

LEMMA ClearFields ==
  ASSUME NEW w \in Worlds, NEW is \in SUBSET ContextId, NEW told \in BOOLEAN,
         QuestionsHeld(w)
  PROVE  ClearedTo(w, is, told, clearContexts(w, is, told))
<1> DEFINE v == clearContexts(w, is, told)
           open == {i \in is : w.contexts[i] # NoContext}
           ps == InFlight(w, open)
           r == Resolved(w, ps, "cleared")
           ctx == [i \in ContextId |-> IF i \in open THEN NoContext ELSE w.contexts[i]]
           cancels(c) == {[type |-> "cancel", id |-> p] :
                       p \in {q \in ps : w.contexts[w.prompts[q].context].route = c}}
           msgs == [c \in Client |-> IF told /\ c \in clients THEN w.toClient[c] \cup cancels(c)
                                       ELSE w.toClient[c]]
           pr == [p \in Prompt |-> IF p \in ps THEN [w.prompts[p] EXCEPT !.state = "cleared"]
                                     ELSE w.prompts[p]]
           os == [o \in Op |-> IF \E p \in ps : w.prompts[p].op = o
                                 THEN [w.ops[o] EXCEPT !.state = "cleared"] ELSE w.ops[o]]
<1>1. ps = {p \in Prompt : GoneWith(w, is, p)}
  BY DEF InFlight, PendingIn, GoneWith, QuestionsHeld
<1>2. v = [contexts |-> ctx, asked |-> w.asked, prompts |-> pr, ops |-> os, toClient |-> msgs]
  <2>1. r = [contexts |-> w.contexts, asked |-> w.asked, prompts |-> pr, ops |-> os,
             toClient |-> w.toClient]
    <3>1. r = [w EXCEPT !.prompts = pr, !.ops = os]
      <4> HIDE DEF ps
      <4>. QED
        BY DEF Resolved
    <3> HIDE DEF r, pr, os
    <3>. QED
      BY <3>1 DEF Worlds
  <2>2. v = [r EXCEPT
               !.contexts = [i \in ContextId |-> IF i \in open THEN NoContext ELSE @[i]],
               !.toClient = [c \in Client |->
                  IF told /\ c \in clients THEN @[c] \cup cancels(c) ELSE @[c]]]
    BY DEF clearContexts
  <2> HIDE DEF r, v, pr, os, open, cancels
  <2>. QED
    BY <2>1, <2>2
<1> HIDE DEF v
<1>3. v.contexts = ctx /\ v.asked = w.asked /\ v.prompts = pr /\ v.ops = os /\ v.toClient = msgs
  BY <1>2
<1>4. ctx \in [ContextId -> Context]
  BY WorldFields DEF Context, NoContext
<1>5. pr \in [Prompt -> PromptRecord]
  <2> SUFFICES ASSUME NEW p \in Prompt
               PROVE  [w.prompts[p] EXCEPT !.state = "cleared"] \in PromptRecord
    BY WorldFields
  <2>. QED
    BY WorldFields DEF PromptRecord
<1>6. os \in [Op -> Operation]
  <2> SUFFICES ASSUME NEW o \in Op
               PROVE  [w.ops[o] EXCEPT !.state = "cleared"] \in Operation
    BY WorldFields
  <2>. QED
    BY WorldFields DEF Operation
<1>7. msgs \in [Client -> SUBSET Message]
  <2>1. \A c \in Client : cancels(c) \subseteq Message
    BY <1>1, MessageKinds DEF CancelMsg
  <2> HIDE DEF cancels
  <2>. QED
    BY <2>1, WorldFields
<1>8. v \in Worlds
  <2> HIDE DEF ctx, pr, os, msgs
  <2>. QED
    BY <1>2, <1>4, <1>5, <1>6, <1>7, WorldFields DEF Worlds
<1>9. \A i \in ContextId : ctx[i] = IF i \in is THEN NoContext ELSE w.contexts[i]
  OBVIOUS
<1>10. \A p \in Prompt :
         /\ pr[p].context = w.prompts[p].context
         /\ pr[p].op = w.prompts[p].op
         /\ pr[p].type = w.prompts[p].type
         /\ pr[p].epoch = w.prompts[p].epoch
         /\ pr[p].timed = w.prompts[p].timed
         /\ pr[p].state = IF p \in ps THEN "cleared" ELSE w.prompts[p].state
  <2> HIDE DEF ps
  <2>. QED
    BY WorldFields DEF PromptRecord
<1>11. \A o \in Op :
         /\ os[o].kind = w.ops[o].kind
         /\ os[o].client = w.ops[o].client
         /\ os[o].aborted = w.ops[o].aborted
         /\ os[o].state = IF \E p \in ps : w.prompts[p].op = o
                            THEN "cleared" ELSE w.ops[o].state
  <2> HIDE DEF ps
  <2>. QED
    BY WorldFields DEF Operation
<1>12. \A c \in Client : cancels(c) =
         {CancelMsg(p) : p \in {q \in Prompt :
            GoneWith(w, is, q) /\ RouteIn(w, q) = c}}
  BY <1>1 DEF CancelMsg, RouteIn
<1>13. \A c \in Client : msgs[c] =
         w.toClient[c] \cup (IF told /\ c \in clients THEN cancels(c) ELSE {})
  <2> HIDE DEF cancels
  <2>. QED
    OBVIOUS
<1>14. \A c \in Client : msgs[c] =
         w.toClient[c] \cup (IF told /\ c \in clients
           THEN {CancelMsg(p) : p \in {q \in Prompt :
            GoneWith(w, is, q) /\ RouteIn(w, q) = c}} ELSE {})
  <2> HIDE DEF cancels, msgs
  <2>. QED
    BY <1>12, <1>13
<1>15. \A o \in Op : (\E p \in ps : w.prompts[p].op = o) <=>
          \E p \in Prompt : GoneWith(w, is, p) /\ w.prompts[p].op = o
  BY <1>1
<1> HIDE DEF ctx, pr, os, msgs, cancels, ps
<1>16. \A p \in Prompt : p \in ps <=> GoneWith(w, is, p)
  BY <1>1
<1>17. \A p \in Prompt :
         /\ v.prompts[p].context = w.prompts[p].context
         /\ v.prompts[p].op = w.prompts[p].op
         /\ v.prompts[p].type = w.prompts[p].type
         /\ v.prompts[p].epoch = w.prompts[p].epoch
         /\ v.prompts[p].timed = w.prompts[p].timed
         /\ v.prompts[p].state = IF GoneWith(w, is, p) THEN "cleared" ELSE w.prompts[p].state
  BY <1>3, <1>10, <1>16
<1>18. \A o \in Op :
         /\ v.ops[o].kind = w.ops[o].kind
         /\ v.ops[o].client = w.ops[o].client
         /\ v.ops[o].aborted = w.ops[o].aborted
         /\ v.ops[o].state = IF \E p \in Prompt :
                                  GoneWith(w, is, p) /\ w.prompts[p].op = o
                               THEN "cleared" ELSE w.ops[o].state
  BY <1>3, <1>11, <1>15
<1>. QED
  BY <1>3, <1>8, <1>9, <1>14, <1>17, <1>18 DEF ClearedTo, v
(* Queues of dialogs.                                                      *)
LEMMA QueueAppend ==
  ASSUME NEW s \in Seq(Dialog), Unique(s), NEW d \in Dialog,
         \A e \in Elems(s) : e.id # d.id
  PROVE  /\ Append(s, d) \in Seq(Dialog) /\ Unique(Append(s, d))
         /\ Elems(Append(s, d)) = Elems(s) \cup {d}
<1> DEFINE q == Append(s, d)
<1>1. q \in Seq(Dialog) /\ Len(q) = Len(s) + 1 /\ q[Len(s) + 1] = d /\ Len(s) \in Nat
      /\ DOMAIN q = 1..(Len(s) + 1) /\ DOMAIN s = 1..Len(s)
      /\ \A k \in 1..Len(s) : q[k] = s[k]
  OBVIOUS
<1>2. \A k \in 1..Len(s) : s[k] \in Dialog /\ s[k] \in Elems(s) /\ s[k].id # d.id
  BY <1>1 DEF Elems
<1>3. \A k \in DOMAIN q : (k \in 1..Len(s) /\ q[k] = s[k]) \/ (k = Len(s) + 1 /\ q[k] = d)
  BY <1>1
<1>4. \A k \in DOMAIN s : k \in DOMAIN q /\ q[k] = s[k]
  BY <1>1
<1>5. Len(s) + 1 \in DOMAIN q
  BY <1>1
<1> HIDE DEF q
<1>6. Unique(q)
  <2> SUFFICES ASSUME NEW j \in DOMAIN q, NEW k \in DOMAIN q, q[j].id = q[k].id PROVE j = k
    BY DEF Unique
  <2>. QED
    BY <1>1, <1>2, <1>3 DEF Unique
<1>7. Elems(q) = Elems(s) \cup {d}
  <2>1. \A e \in Elems(q) : e \in Elems(s) \/ e = d
    BY <1>2, <1>3 DEF Elems
  <2>2. \A e \in Elems(s) : e \in Elems(q)
    BY <1>4 DEF Elems
  <2>3. d \in Elems(q)
    BY <1>1, <1>5 DEF Elems
  <2>. QED
    BY <2>1, <2>2, <2>3
<1>. QED
  BY <1>1, <1>6, <1>7 DEF q

LEMMA QueueTail ==
  ASSUME NEW s \in Seq(Dialog), Unique(s), s # <<>>
  PROVE  /\ Tail(s) \in Seq(Dialog) /\ Unique(Tail(s)) /\ Head(s) \in Elems(s)
         /\ Elems(Tail(s)) = Elems(s) \ {Head(s)}
         /\ \A e \in Elems(Tail(s)) : e.id # Head(s).id
<1> DEFINE q == Tail(s)
<1>1. /\ q \in Seq(Dialog) /\ Len(s) \in Nat /\ Len(s) >= 1 /\ Len(q) = Len(s) - 1
      /\ DOMAIN q = 1..(Len(s) - 1) /\ DOMAIN s = 1..Len(s)
      /\ \A k \in 1..(Len(s) - 1) : q[k] = s[k + 1]
      /\ Head(s) = s[1]
  OBVIOUS
<1>2. \A k \in DOMAIN s : s[k] \in Dialog /\ s[k] \in Elems(s)
  BY DEF Elems
<1>3. \A k \in DOMAIN q : k + 1 \in DOMAIN s /\ q[k] = s[k + 1] /\ k + 1 # 1 /\ k \in Nat
  BY <1>1
<1>4. \A k \in DOMAIN s : k # 1 => k - 1 \in DOMAIN q /\ q[k - 1] = s[k]
  BY <1>1
<1>5. 1 \in DOMAIN s
  BY <1>1
<1>h. Head(s) = s[1] /\ q \in Seq(Dialog)
  BY <1>1
<1> HIDE DEF q
<1>6. Unique(q)
  <2> SUFFICES ASSUME NEW j \in DOMAIN q, NEW k \in DOMAIN q, q[j].id = q[k].id PROVE j = k
    BY DEF Unique
  <2>1. j + 1 = k + 1
    BY <1>3 DEF Unique
  <2>. QED
    BY <1>3, <2>1
<1>7. \A e \in Elems(q) : e \in Elems(s) /\ e.id # s[1].id
  <2> SUFFICES ASSUME NEW e \in Elems(q) PROVE e \in Elems(s) /\ e.id # s[1].id
    OBVIOUS
  <2>1. PICK k \in DOMAIN q : q[k] = e
    BY DEF Elems
  <2>. QED
    BY <1>2, <1>3, <1>5, <2>1 DEF Unique
<1>8. \A e \in Elems(s) : e # s[1] => e \in Elems(q)
  <2> SUFFICES ASSUME NEW e \in Elems(s), e # s[1] PROVE e \in Elems(q)
    OBVIOUS
  <2>1. PICK k \in DOMAIN s : s[k] = e
    BY DEF Elems
  <2>2. k - 1 \in DOMAIN q /\ q[k - 1] = e
    BY <1>4, <2>1
  <2>. QED
    BY <2>2 DEF Elems
<1>9. Head(s) \in Elems(s)
  BY <1>2, <1>5, <1>h
<1>. QED
  BY <1>h, <1>6, <1>7, <1>8, <1>9 DEF q

LEMMA SubSeqFacts ==
  ASSUME NEW S, NEW s \in Seq(S), NEW k \in 1..Len(s)
  PROVE  /\ SubSeq(s, 1, k - 1) \in Seq(S) /\ SubSeq(s, k + 1, Len(s)) \in Seq(S)
         /\ Len(SubSeq(s, 1, k - 1)) = k - 1 /\ Len(SubSeq(s, k + 1, Len(s))) = Len(s) - k
         /\ \A j \in 1..(k - 1) : SubSeq(s, 1, k - 1)[j] = s[j]
         /\ \A j \in 1..(Len(s) - k) : SubSeq(s, k + 1, Len(s))[j] = s[k + j]
<1>1. /\ SubSeq(s, 1, k - 1) \in Seq(S) /\ Len(SubSeq(s, 1, k - 1)) = k - 1
      /\ \A j \in 1..(k - 1) : SubSeq(s, 1, k - 1)[j] = s[j]
  OBVIOUS
<1>2. SubSeq(s, k + 1, Len(s)) \in Seq(S) /\ Len(SubSeq(s, k + 1, Len(s))) = Len(s) - k
  OBVIOUS
<1>3. \A j \in 1..(Len(s) - k) : SubSeq(s, k + 1, Len(s))[j] = s[k + j]
  OBVIOUS
<1>. QED
  BY <1>1, <1>2, <1>3

LEMMA ConcatFacts ==
  ASSUME NEW S, NEW s \in Seq(S), NEW t \in Seq(S)
  PROVE  /\ s \o t \in Seq(S) /\ Len(s \o t) = Len(s) + Len(t)
         /\ DOMAIN (s \o t) = 1..(Len(s) + Len(t))
         /\ \A j \in 1..Len(s) : (s \o t)[j] = s[j]
         /\ \A j \in 1..Len(t) : (s \o t)[Len(s) + j] = t[j]
OBVIOUS

LEMMA QueueWithout ==
  ASSUME NEW s \in Seq(Dialog), Unique(s), NEW id
  PROVE  /\ WithoutId(s, id) \in Seq(Dialog) /\ Unique(WithoutId(s, id))
         /\ Elems(WithoutId(s, id)) = {e \in Elems(s) : e.id # id}
<1> DEFINE at == {k \in DOMAIN s : s[k].id = id}
           q == WithoutId(s, id)
<1>0. \A k \in DOMAIN s : s[k] \in Dialog /\ s[k] \in Elems(s)
  BY DEF Elems
<1>1. CASE at = {}
  <2>1. q = s
    BY <1>1 DEF WithoutId
  <2>2. \A e \in Elems(s) : e.id # id
    BY <1>1 DEF Elems
  <2>. QED
    BY <2>1, <2>2
<1>2. CASE at # {}
  <2> DEFINE k == CHOOSE j \in at : TRUE
  <2>1. k \in DOMAIN s /\ s[k].id = id
    BY <1>2
  <2>2. q = SubSeq(s, 1, k - 1) \o SubSeq(s, k + 1, Len(s))
    BY <1>2 DEF WithoutId
  <2> HIDE DEF k, q
  <2>3. k \in 1..Len(s) /\ Len(s) \in Nat /\ DOMAIN s = 1..Len(s)
    BY <2>1
  <2>4. /\ SubSeq(s, 1, k - 1) \in Seq(Dialog) /\ SubSeq(s, k + 1, Len(s)) \in Seq(Dialog)
        /\ Len(SubSeq(s, 1, k - 1)) = k - 1 /\ Len(SubSeq(s, k + 1, Len(s))) = Len(s) - k
        /\ \A j \in 1..(k - 1) : SubSeq(s, 1, k - 1)[j] = s[j]
        /\ \A j \in 1..(Len(s) - k) : SubSeq(s, k + 1, Len(s))[j] = s[k + j]
    BY <2>3, SubSeqFacts
  <2> DEFINE a == SubSeq(s, 1, k - 1)
             z == SubSeq(s, k + 1, Len(s))
  <2>a. /\ a \o z \in Seq(Dialog) /\ DOMAIN (a \o z) = 1..(Len(a) + Len(z))
        /\ \A j \in 1..Len(a) : (a \o z)[j] = a[j]
        /\ \A j \in 1..Len(z) : (a \o z)[Len(a) + j] = z[j]
    <3>1. a \in Seq(Dialog) /\ z \in Seq(Dialog)
      BY <2>4
    <3> HIDE DEF a, z
    <3>. QED
      BY <3>1, ConcatFacts
  <2>b. q = a \o z /\ Len(a) = k - 1 /\ Len(z) = Len(s) - k
    BY <2>2, <2>4
  <2>c. (\A j \in 1..(k - 1) : a[j] = s[j]) /\ \A j \in 1..(Len(s) - k) : z[j] = s[k + j]
    BY <2>4
  <2> HIDE DEF a, z
  <2>5. q \in Seq(Dialog) /\ DOMAIN q = 1..(Len(s) - 1)
    <3>1. Len(a) + Len(z) = Len(s) - 1
      BY <2>3, <2>b
    <3>. QED
      BY <2>a, <2>b, <3>1
  <2>6. /\ \A j \in 1..(k - 1) : q[j] = s[j]
        /\ \A j \in 1..(Len(s) - 1) : j >= k => q[j] = s[j + 1]
    <3>1. \A j \in 1..(k - 1) : q[j] = s[j]
      BY <2>a, <2>b, <2>c
    <3>2. ASSUME NEW j \in 1..(Len(s) - 1), j >= k PROVE q[j] = s[j + 1]
      <4> DEFINE i == j - (k - 1)
      <4>1. i \in 1..(Len(s) - k) /\ (k - 1) + i = j /\ k + i = j + 1
        BY <2>3, <3>2
      <4> HIDE DEF i
      <4>2. q[(k - 1) + i] = z[i] /\ z[i] = s[k + i]
        BY <2>a, <2>b, <2>c, <4>1
      <4>. QED
        BY <4>1, <4>2
    <3>. QED
      BY <3>1, <3>2
  <2> DEFINE f(j) == IF j < k THEN j ELSE j + 1
  <2>7. \A j \in DOMAIN q : f(j) \in DOMAIN s /\ f(j) # k /\ q[j] = s[f(j)]
    BY <2>3, <2>5, <2>6
  <2>8. \A i, j \in DOMAIN q : f(i) = f(j) => i = j
    BY <2>3, <2>5
  <2>9. \A i \in DOMAIN s : i # k => \E j \in DOMAIN q : f(j) = i
    <3> SUFFICES ASSUME NEW i \in DOMAIN s, i # k PROVE \E j \in DOMAIN q : f(j) = i
      OBVIOUS
    <3>1. CASE i < k
      <4>1. i \in DOMAIN q /\ f(i) = i
        BY <2>3, <2>5, <3>1
      <4>. QED
        BY <4>1
    <3>2. CASE ~(i < k)
      <4>1. i - 1 \in DOMAIN q /\ f(i - 1) = i
        BY <2>3, <2>5, <3>2
      <4>. QED
        BY <4>1
    <3>. QED
      BY <3>1, <3>2
  <2> HIDE DEF f
  <2>10. Unique(q)
    BY <2>7, <2>8 DEF Unique
  <2>11. \A e \in Elems(q) : e \in Elems(s) /\ e.id # id
    <3> SUFFICES ASSUME NEW e \in Elems(q) PROVE e \in Elems(s) /\ e.id # id
      OBVIOUS
    <3>1. PICK j \in DOMAIN q : q[j] = e
      BY DEF Elems
    <3>. QED
      BY <1>0, <2>1, <2>7, <3>1 DEF Unique
  <2>12. \A e \in Elems(s) : e.id # id => e \in Elems(q)
    <3> SUFFICES ASSUME NEW e \in Elems(s), e.id # id PROVE e \in Elems(q)
      OBVIOUS
    <3>1. PICK i \in DOMAIN s : s[i] = e
      BY DEF Elems
    <3>2. i # k
      BY <2>1, <3>1
    <3>3. PICK j \in DOMAIN q : f(j) = i
      BY <2>9, <3>2
    <3>4. q[j] = e
      BY <2>7, <3>1, <3>3
    <3>. QED
      BY <3>4 DEF Elems
  <2>. QED
    BY <2>5, <2>10, <2>11, <2>12 DEF q
<1>. QED
  BY <1>1, <1>2

-----------------------------------------------------------------------------
(* What keeps a world sound.                                               *)

(* A question that is open is routed to a client that is there, the one    *)
(* that asked for it if it is a test's or an elevation's.                  *)
LEMMA OpenQuestion ==
  ASSUME NEW w \in Worlds, QuestionsHeld(w), ContextsOwned(w), RoutesThere(w),
         NEW p \in Prompt, PendingIn(w, p)
  PROVE  /\ p <= w.asked
         /\ w.prompts[p].op \in Op /\ w.prompts[p].context \in ContextId
         /\ w.contexts[w.prompts[p].context] # NoContext
         /\ RouteIn(w, p) \in clients
         /\ OwnedBy(w, p, RouteIn(w, p))
<1>1. p <= w.asked
  BY Ids, WorldFields DEF QuestionsHeld
<1>2. w.prompts[p].op \in Op /\ w.ops[w.prompts[p].op].kind # "none"
  BY <1>1 DEF QuestionsHeld
<1>3. /\ w.prompts[p].context = ContextIn(w, w.prompts[p].op)
      /\ w.contexts[w.prompts[p].context] # NoContext
  BY DEF QuestionsHeld
<1>4. w.prompts[p].context \in ContextId
  BY <1>2, <1>3, Ids DEF ContextIn
<1>5. RouteIn(w, p) \in clients
  BY <1>3, <1>4 DEF RoutesThere, RouteIn
<1>6. ASSUME w.ops[w.prompts[p].op].kind \in {"test", "elevation"}
      PROVE  w.ops[w.prompts[p].op].client = RouteIn(w, p)
  <2>1. w.prompts[p].context = w.prompts[p].op
    BY <1>3, <1>6 DEF ContextIn
  <2>. QED
    BY <1>2, <1>3, <1>4, <1>6, <2>1, Ids DEF ContextsOwned, RouteIn
<1>. QED
  BY <1>1, <1>2, <1>3, <1>4, <1>5, <1>6 DEF OwnedBy

(* Clearing contexts keeps a world sound, and shows nothing in vain if the *)
(* clients are told.                                                       *)
LEMMA ClearIsSound ==
  ASSUME NEW w, Sound(w), NEW is \in SUBSET ContextId, NEW told \in BOOLEAN,
         clients \subseteq Client
  PROVE  /\ Sound(clearContexts(w, is, told))
         /\ told /\ TracesLive(w) => TracesLive(clearContexts(w, is, told))
<1> DEFINE v == clearContexts(w, is, told)
           gone(p) == GoneWith(w, is, p)
<1>w. w \in Worlds /\ QuestionsHeld(w) /\ ContextsOwned(w) /\ RoutesThere(w)
  BY DEF Sound
<1>a. ClearedTo(w, is, told, v)
  BY <1>w, ClearFields
<1> HIDE DEF v
<1>0. /\ v \in Worlds
      /\ v.asked = w.asked
      /\ \A i \in ContextId : v.contexts[i] = IF i \in is THEN NoContext ELSE w.contexts[i]
      /\ \A p \in Prompt :
           /\ v.prompts[p].context = w.prompts[p].context
           /\ v.prompts[p].op = w.prompts[p].op
           /\ v.prompts[p].type = w.prompts[p].type
           /\ v.prompts[p].epoch = w.prompts[p].epoch
           /\ v.prompts[p].state = IF gone(p) THEN "cleared" ELSE w.prompts[p].state
      /\ \A o \in Op :
           /\ v.ops[o].kind = w.ops[o].kind
           /\ v.ops[o].client = w.ops[o].client
           /\ v.ops[o].aborted = w.ops[o].aborted
           /\ v.ops[o].state = IF \E p \in Prompt : gone(p) /\ w.prompts[p].op = o
                                 THEN "cleared" ELSE w.ops[o].state
      /\ \A c \in Client : v.toClient[c] =
           w.toClient[c] \cup (IF told /\ c \in clients
             THEN {CancelMsg(p) : p \in {q \in Prompt : gone(q) /\ RouteIn(w, q) = c}}
             ELSE {})
  BY <1>a DEF ClearedTo
<1>1. \A p \in Prompt : PendingIn(v, p) <=> PendingIn(w, p) /\ ~gone(p)
  BY <1>0 DEF PendingIn, GoneWith
<1>2. \A p \in Prompt : \A q \in Prompt :
        PendingIn(v, p) /\ gone(q) => w.prompts[p].op # w.prompts[q].op
  BY <1>1, <1>w DEF QuestionsHeld, GoneWith
<1>3. \A p \in Prompt : PendingIn(v, p) =>
        /\ w.prompts[p].op \in Op /\ w.prompts[p].context \in ContextId
        /\ v.contexts[v.prompts[p].context] = w.contexts[w.prompts[p].context]
        /\ RouteIn(v, p) = RouteIn(w, p)
        /\ v.ops[v.prompts[p].op].state = w.ops[w.prompts[p].op].state
  BY <1>0, <1>1, <1>2, <1>w, OpenQuestion DEF RouteIn, GoneWith
<1>4. \A o \in Op : ContextIn(v, o) = ContextIn(w, o)
  BY <1>0 DEF ContextIn
<1>5. QuestionsHeld(v)
  <2>1. \A p \in Prompt : p > v.asked => ~PendingIn(v, p)
    BY <1>0, <1>1, <1>w DEF QuestionsHeld
  <2>2. \A p \in Prompt : p <= v.asked =>
          v.prompts[p].op \in Op /\ v.ops[v.prompts[p].op].kind # "none"
    BY <1>0, <1>w DEF QuestionsHeld
  <2>3. \A p \in Prompt : PendingIn(v, p) =>
          /\ v.ops[v.prompts[p].op].state = "asking"
          /\ v.prompts[p].context = ContextIn(v, v.prompts[p].op)
          /\ v.contexts[v.prompts[p].context] # NoContext
    BY <1>0, <1>1, <1>3, <1>4, <1>w DEF QuestionsHeld
  <2>4. \A p, q \in Prompt :
          PendingIn(v, p) /\ PendingIn(v, q) /\ v.prompts[p].op = v.prompts[q].op => p = q
    BY <1>0, <1>1, <1>w DEF QuestionsHeld
  <2>. QED
    BY <2>1, <2>2, <2>3, <2>4 DEF QuestionsHeld
<1>6. WaitersAsk(v)
  <2> SUFFICES ASSUME NEW o \in Op, v.ops[o].state = "asking"
               PROVE  \E p \in Prompt : PendingIn(v, p) /\ v.prompts[p].op = o
    BY DEF WaitersAsk
  <2>1. w.ops[o].state = "asking" /\ \A p \in Prompt : gone(p) => w.prompts[p].op # o
    BY <1>0
  <2>2. PICK p \in Prompt : PendingIn(w, p) /\ w.prompts[p].op = o
    BY <2>1 DEF Sound, WaitersAsk
  <2>. QED
    BY <1>0, <1>1, <2>1, <2>2
<1>7. ContextsOwned(v)
  <2> SUFFICES ASSUME NEW i \in ContextId, i \notin is, v.contexts[i] # NoContext
               PROVE  \/ v.contexts[i].kind = "session" /\ (i = Reconnect \/ v.ops[i].kind = "acquire")
                      \/ /\ i # Reconnect /\ v.contexts[i].kind = v.ops[i].kind
                         /\ v.ops[i].kind \in {"test", "elevation"}
                         /\ v.contexts[i].route = v.ops[i].client
    BY <1>0 DEF ContextsOwned
  <2>1. v.contexts[i] = w.contexts[i]
    BY <1>0
  <2>2. i # Reconnect => v.ops[i].kind = w.ops[i].kind /\ v.ops[i].client = w.ops[i].client
    BY <1>0, Ids
  <2>. QED
    BY <1>w, <2>1, <2>2 DEF ContextsOwned
<1>8. RoutesThere(v)
  BY <1>0, <1>w DEF RoutesThere
<1>9. \A c \in Client : \A m \in v.toClient[c] :
        \/ m \in w.toClient[c]
        \/ \E p \in Prompt : /\ m = CancelMsg(p) /\ gone(p) /\ RouteIn(w, p) = c
                             /\ c \in clients /\ m.id = p /\ m.type = "cancel"
  BY <1>0, MessageKinds
<1>10. \A c \in Client : w.toClient[c] \subseteq v.toClient[c]
  BY ZenonT(30), <1>0
<1> HIDE DEF gone
<1>11. \A p \in Prompt : gone(p) => PendingIn(w, p) /\ ~PendingIn(v, p)
  BY <1>1 DEF gone, GoneWith
<1>12. TracesKnown(v)
  <2>1. \A p \in Prompt : gone(p) => p <= w.asked
    BY <1>11, <1>w, OpenQuestion
  <2>2. v.asked = w.asked
    BY <1>0
  <2>. QED
    BY <1>9, <2>1, <2>2 DEF TracesKnown, Sound
<1>13. OpenIsCurrent(v)
  <2> SUFFICES ASSUME NEW p \in Prompt, PendingIn(v, p), NEW c \in Client
               PROVE  /\ \A m \in v.toClient[c] : m.id = p =>
                           c = RouteIn(v, p) /\ m = AskMsg(p, v.prompts[p].epoch)
                      /\ \A t \in PromptType : \A d \in ShownAs(c, t) : d.id = p =>
                           c = RouteIn(v, p) /\ d.epoch = v.prompts[p].epoch
                      /\ \A a \in toHub[c] : a.id = p => c = RouteIn(v, p)
    BY DEF OpenIsCurrent
  <2>1. PendingIn(w, p) /\ RouteIn(v, p) = RouteIn(w, p) /\ v.prompts[p].epoch = w.prompts[p].epoch
    BY <1>0, <1>1, <1>3
  <2>2. \A m \in v.toClient[c] : m.id = p => m \in w.toClient[c]
    BY <1>9, <1>11
  <2>. QED
    BY <2>1, <2>2 DEF Sound, OpenIsCurrent
<1>14. SentOnce(v)
  <2>1. \A c \in Client : \A m \in v.toClient[c] : m.type = "ask" => m \in w.toClient[c]
    BY <1>9
  <2>. QED
    BY <2>1 DEF Sound, SentOnce
<1>15. OpenIsShown(v)
  <2> SUFFICES ASSUME NEW p \in Prompt, PendingIn(v, p)
               PROVE  \/ AskMsg(p, v.prompts[p].epoch) \in v.toClient[RouteIn(v, p)]
                      \/ [id |-> p, epoch |-> v.prompts[p].epoch]
                           \in ShownAs(RouteIn(v, p), v.prompts[p].type)
                      \/ \E a \in toHub[RouteIn(v, p)] :
                           a.id = p /\ a.epoch = v.prompts[p].epoch
    BY DEF OpenIsShown
  <2>1. /\ PendingIn(w, p) /\ RouteIn(v, p) = RouteIn(w, p)
        /\ v.prompts[p].epoch = w.prompts[p].epoch /\ v.prompts[p].type = w.prompts[p].type
    BY <1>0, <1>1, <1>3
  <2>2. RouteIn(w, p) \in Client
    BY <1>w, <2>1, OpenQuestion
  <2>. QED
    BY <1>10, <2>1, <2>2 DEF Sound, OpenIsShown
<1>16. \A p \in Prompt : \A c \in Client :
         p <= w.asked /\ OwnedBy(w, p, c) => OwnedBy(v, p, c)
  <2>1. \A p \in Prompt : p <= w.asked =>
          /\ v.ops[v.prompts[p].op].kind = w.ops[w.prompts[p].op].kind
          /\ v.ops[v.prompts[p].op].client = w.ops[w.prompts[p].op].client
    BY <1>0, <1>w DEF QuestionsHeld
  <2>. QED
    BY <2>1 DEF OwnedBy
<1>17. OwnTraces(v)
  <2>1. \A p \in Prompt : gone(p) => p <= w.asked /\ OwnedBy(w, p, RouteIn(w, p))
    BY <1>11, <1>w, OpenQuestion
  <2>2. \A c \in Client : \A m \in v.toClient[c] :
          m.id \in Prompt /\ m.id <= w.asked /\ OwnedBy(w, m.id, c)
    <3>1. \A c \in Client : \A m \in w.toClient[c] : m.id \in Prompt
      BY <1>w, WorldFields, MessageKinds
    <3>. QED
      BY <1>9, <2>1, <3>1 DEF Sound, TracesKnown, OwnTraces
  <2>3. \A c \in Client : \A t \in PromptType : \A d \in ShownAs(c, t) :
          d.id \in Prompt /\ d.id <= w.asked /\ OwnedBy(w, d.id, c)
    BY DEF Sound, TracesKnown, OwnTraces, ShownAs, Elems, Dialog
  <2>. QED
    BY <1>16, <2>2, <2>3 DEF OwnTraces
<1>18. Sound(v)
  BY <1>0, <1>5, <1>6, <1>7, <1>8, <1>12, <1>13, <1>14, <1>15, <1>17 DEF Sound
<1>19. ASSUME told, TracesLive(w) PROVE TracesLive(v)
  <2>1. ASSUME NEW c \in Client, NEW p \in Prompt, LiveIn(w, c, p),
               PendingIn(w, p) => c = RouteIn(w, p) /\ c \in clients
        PROVE  LiveIn(v, c, p)
    <3>1. CASE PendingIn(w, p) /\ gone(p)
      <4>1. CancelMsg(p) \in v.toClient[c]
        BY <1>0, <1>19, <2>1, <3>1
      <4>. QED
        BY <4>1 DEF LiveIn
    <3>2. CASE PendingIn(w, p) /\ ~gone(p)
      BY <1>1, <3>2 DEF LiveIn, gone
    <3>3. CASE ~PendingIn(w, p)
      <4>1. v.prompts[p].state = w.prompts[p].state
        BY <1>0, <1>11, <3>3
      <4>. QED
        BY <1>10, <2>1, <3>3, <4>1 DEF LiveIn
    <3>. QED
      BY <3>1, <3>2, <3>3
  <2>2. \A c \in Client : \A m \in w.toClient[c] :
          m.id \in Prompt /\ LiveIn(w, c, m.id) /\ (PendingIn(w, m.id) => c = RouteIn(w, m.id))
    <3>1. \A c \in Client : \A m \in w.toClient[c] : m.id \in Prompt
      BY <1>w, WorldFields, MessageKinds
    <3>. QED
      BY <1>19, <3>1 DEF TracesLive, Sound, OpenIsCurrent
  <2>3. \A c \in Client : \A t \in PromptType : \A d \in ShownAs(c, t) :
          d.id \in Prompt /\ LiveIn(w, c, d.id) /\ (PendingIn(w, d.id) => c = RouteIn(w, d.id))
    <3>1. \A c \in Client : \A t \in PromptType : \A d \in ShownAs(c, t) : d.id \in Prompt
      BY DEF ShownAs, Elems, Dialog
    <3>. QED
      BY <1>19, <3>1 DEF TracesLive, Sound, OpenIsCurrent
  <2>4. \A p \in Prompt : PendingIn(w, p) => RouteIn(w, p) \in clients
    BY <1>w, OpenQuestion
  <2>5. \A c \in Client : \A m \in v.toClient[c] : LiveIn(v, c, m.id)
    <3> SUFFICES ASSUME NEW c \in Client, NEW m \in v.toClient[c] PROVE LiveIn(v, c, m.id)
      OBVIOUS
    <3>1. CASE m \in w.toClient[c]
      BY <2>1, <2>2, <2>4, <3>1
    <3>2. CASE m \notin w.toClient[c]
      BY <1>9, <3>2 DEF LiveIn
    <3>. QED
      BY <3>1, <3>2
  <2>6. \A c \in Client : \A t \in PromptType : \A d \in ShownAs(c, t) : LiveIn(v, c, d.id)
    BY <2>1, <2>3, <2>4
  <2>. QED
    BY <2>5, <2>6 DEF TracesLive
<1>. QED
  BY <1>18, <1>19 DEF v
(* Clearing contexts begins nothing.                                       *)
LEMMA ClearBegins ==
  ASSUME NEW w \in Worlds, QuestionsHeld(w), NEW is \in SUBSET ContextId,
         NEW told \in BOOLEAN, NEW b \in Nat, BegunTo(w, b)
  PROVE  BegunTo(clearContexts(w, is, told), b)
<1> DEFINE v == clearContexts(w, is, told)
<1>1. ClearedTo(w, is, told, v)
  BY ClearFields
<1> HIDE DEF v
<1>k. \A o \in Op : v.ops[o].kind = w.ops[o].kind
  BY <1>1 DEF ClearedTo
<1> SUFFICES ASSUME NEW o \in Op, o > b PROVE v.ops[o] = NoOp /\ v.contexts[o] = NoContext
  BY <1>k DEF BegunTo, v
<1>2. w.ops[o] = NoOp /\ w.contexts[o] = NoContext
  BY DEF BegunTo
<1>3. \A p \in Prompt : GoneWith(w, is, p) => w.prompts[p].op # o
  <2>1. \A p \in Prompt : GoneWith(w, is, p) => PendingIn(w, p) /\ p <= w.asked
    <3>1. w.asked \in Nat /\ \A p \in Prompt : p \in Nat
      BY Ids, WorldFields
    <3>. QED
      BY <3>1 DEF GoneWith, QuestionsHeld
  <2>. QED
    BY <1>2, <2>1 DEF QuestionsHeld, NoOp
<1>4. v.ops[o] \in Operation /\ w.ops[o] \in Operation
  BY <1>1 DEF ClearedTo, Worlds
<1>5. /\ v.ops[o].kind = w.ops[o].kind /\ v.ops[o].client = w.ops[o].client
      /\ v.ops[o].aborted = w.ops[o].aborted /\ v.ops[o].state = w.ops[o].state
  BY <1>1, <1>3 DEF ClearedTo
<1>6. v.ops[o] = w.ops[o]
  BY <1>4, <1>5 DEF Operation
<1>7. v.contexts[o] = NoContext
  BY <1>1, <1>2, Ids DEF ClearedTo
<1>. QED
  BY <1>2, <1>6, <1>7

LEMMA ClearIsFine ==
  ASSUME NEW w, NEW b \in Nat, Fine(w, b), NEW is \in SUBSET ContextId,
         clients \subseteq Client
  PROVE  Fine(clearContexts(w, is, TRUE), b)
BY ClearIsSound, ClearBegins DEF Fine, Sound

(* An operation goes on without being asked, is aborted, or begins.        *)
LEMMA OpIsFine ==
  ASSUME NEW w, NEW a, NEW b, Fine(w, a), NEW o \in Op,
         \A x \in Op : (x > b => x > a /\ x # o) /\ (x <= b => x <= a \/ x = o),
         NEW r \in Operation, r.kind # "none",
         r.state = "asking" <=> w.ops[o].state = "asking",
         \/ r.kind = w.ops[o].kind /\ r.client = w.ops[o].client
         \/ w.ops[o].kind = "none" /\ w.contexts[o] = NoContext
  PROVE  Fine([w EXCEPT !.ops[o] = r], b)
<1> DEFINE v == [w EXCEPT !.ops[o] = r]
<1>w. w \in Worlds /\ QuestionsHeld(w) /\ ContextsOwned(w) /\ RoutesThere(w)
  BY DEF Fine, Sound
<1>1. /\ v.contexts = w.contexts /\ v.asked = w.asked /\ v.prompts = w.prompts
      /\ v.toClient = w.toClient /\ v.ops = [w.ops EXCEPT ![o] = r] /\ v \in Worlds
  BY <1>w DEF Worlds
<1> HIDE DEF v
<1>2. v.ops[o] = r /\ \A x \in Op : x # o => v.ops[x] = w.ops[x]
  BY <1>1, <1>w, WorldFields
<1>3. \A x \in Op : (v.ops[x].state = "asking") <=> (w.ops[x].state = "asking")
  BY <1>2
<1>4. \A x \in Op : w.ops[x].kind # "none" =>
        v.ops[x].kind = w.ops[x].kind /\ v.ops[x].client = w.ops[x].client
  BY <1>2
<1>5. \A x \in Op : w.contexts[x] # NoContext =>
        v.ops[x].kind = w.ops[x].kind /\ v.ops[x].client = w.ops[x].client
  BY <1>2
<1>6. \A p \in Prompt : (PendingIn(v, p) <=> PendingIn(w, p)) /\ RouteIn(v, p) = RouteIn(w, p)
  BY <1>1 DEF PendingIn, RouteIn
<1>7. QuestionsHeld(v)
  <2>1. \A p \in Prompt : PendingIn(w, p) =>
          w.prompts[p].op \in Op /\ w.ops[w.prompts[p].op].kind # "none"
    BY <1>w, OpenQuestion DEF QuestionsHeld
  <2>2. \A p \in Prompt : PendingIn(w, p) =>
          ContextIn(v, v.prompts[p].op) = ContextIn(w, w.prompts[p].op)
    BY <1>1, <1>4, <2>1 DEF ContextIn
  <2>3. \A p \in Prompt : p > v.asked => ~PendingIn(v, p)
    BY <1>1, <1>3, <1>4, <1>6, <1>w DEF QuestionsHeld
  <2>4. \A p \in Prompt : p <= v.asked =>
          v.prompts[p].op \in Op /\ v.ops[v.prompts[p].op].kind # "none"
    BY <1>1, <1>3, <1>4, <1>6, <1>w DEF QuestionsHeld
  <2>5. \A p \in Prompt : PendingIn(v, p) =>
          /\ v.ops[v.prompts[p].op].state = "asking"
          /\ v.prompts[p].context = ContextIn(v, v.prompts[p].op)
          /\ v.contexts[v.prompts[p].context] # NoContext
    BY <1>1, <1>3, <1>4, <1>6, <1>w, <2>1, <2>2 DEF QuestionsHeld
  <2>6. \A p, q \in Prompt :
          PendingIn(v, p) /\ PendingIn(v, q) /\ v.prompts[p].op = v.prompts[q].op => p = q
    BY <1>1, <1>6, <1>w DEF QuestionsHeld
  <2>. QED
    BY <2>3, <2>4, <2>5, <2>6 DEF QuestionsHeld
<1>8. WaitersAsk(v)
  BY <1>1, <1>3, <1>6 DEF Fine, Sound, WaitersAsk
<1>9. ContextsOwned(v)
  <2>1. \A i \in ContextId : i # Reconnect => i \in Op
    BY Ids
  <2>. QED
    BY <1>1, <1>5, <1>w, <2>1 DEF ContextsOwned
<1>10. RoutesThere(v)
  BY <1>1, <1>w DEF RoutesThere
<1>11. TracesKnown(v)
  BY <1>1 DEF Fine, Sound, TracesKnown
<1>12. OpenIsCurrent(v)
  BY <1>1, <1>6 DEF Fine, Sound, OpenIsCurrent
<1>13. SentOnce(v)
  BY <1>1 DEF Fine, Sound, SentOnce
<1>14. OpenIsShown(v)
  BY <1>1, <1>6 DEF Fine, Sound, OpenIsShown
<1>15. OwnTraces(v)
  <2>1. \A p \in Prompt : \A c \in Client : p <= w.asked /\ OwnedBy(w, p, c) => OwnedBy(v, p, c)
    BY <1>1, <1>4, <1>w DEF OwnedBy, QuestionsHeld
  <2>2. \A c \in Client : \A m \in w.toClient[c] :
          m.id \in Prompt /\ m.id <= w.asked /\ OwnedBy(w, m.id, c)
    <3>1. \A c \in Client : \A m \in w.toClient[c] : m.id \in Prompt
      BY <1>w, WorldFields, MessageKinds
    <3>. QED
      BY <3>1 DEF Fine, Sound, TracesKnown, OwnTraces
  <2>3. \A c \in Client : \A t \in PromptType : \A d \in ShownAs(c, t) :
          d.id \in Prompt /\ d.id <= w.asked /\ OwnedBy(w, d.id, c)
    BY DEF Fine, Sound, TracesKnown, OwnTraces, ShownAs, Elems, Dialog
  <2>. QED
    BY <1>1, <2>1, <2>2, <2>3 DEF OwnTraces
<1>16. TracesLive(v)
  <2>1. \A c \in Client : \A p \in Prompt : LiveIn(v, c, p) <=> LiveIn(w, c, p)
    BY <1>1, <1>6 DEF LiveIn
  <2>2. /\ \A c \in Client : \A m \in w.toClient[c] : m.id \in Prompt
        /\ \A c \in Client : \A t \in PromptType : \A d \in ShownAs(c, t) : d.id \in Prompt
    BY <1>w, WorldFields, MessageKinds DEF ShownAs, Elems, Dialog
  <2>. QED
    BY <1>1, <2>1, <2>2 DEF Fine, TracesLive
<1>17. BegunTo(v, b)
  BY <1>1, <1>2 DEF Fine, BegunTo
<1>. QED
  BY <1>1, <1>7, <1>8, <1>9, <1>10, <1>11, <1>12, <1>13, <1>14, <1>15, <1>16, <1>17
     DEF Fine, Sound, v

LEMMA OpGoesOn ==
  ASSUME NEW w, NEW b \in Nat, Fine(w, b), NEW o \in Op, o <= b, NEW r \in Operation,
         r.state = "asking" <=> w.ops[o].state = "asking",
         r.kind = w.ops[o].kind, r.client = w.ops[o].client
  PROVE  Fine([w EXCEPT !.ops[o] = r], b)
<1>1. \A x \in Op : (x > b => x > b /\ x # o) /\ (x <= b => x <= b \/ x = o)
  BY Ids
<1>2. r.kind # "none"
  BY DEF Fine, BegunTo
<1>. QED
  BY <1>1, <1>2, OpIsFine

LEMMA OpBegins ==
  ASSUME NEW w, NEW b \in Nat, Fine(w, b), b + 1 \in Op, NEW r \in Operation,
         r.state # "asking", r.kind # "none"
  PROVE  Fine([w EXCEPT !.ops[b + 1] = r], b + 1)
<1> DEFINE o == b + 1
<1>1. \A x \in Op : (x > o => x > b /\ x # o) /\ (x <= o => x <= b \/ x = o)
  BY Ids
<1>2. o > b
  OBVIOUS
<1> HIDE DEF o
<1>3. o \in Op /\ w.ops[o] = NoOp /\ w.contexts[o] = NoContext
  BY <1>2 DEF Fine, BegunTo, o
<1>4. w.ops[o].kind = "none" /\ w.ops[o].state # "asking"
  BY <1>3 DEF NoOp
<1>5. Fine([w EXCEPT !.ops[o] = r], o)
  BY <1>1, <1>3, <1>4, OpIsFine
<1>. QED
  BY <1>5 DEF o

(* A context is opened for a client that is there.                         *)
LEMMA OpenIsFine ==
  ASSUME NEW w, NEW b \in Nat, Fine(w, b), NEW i \in ContextId, i <= b,
         NEW kind \in {"session", "test", "elevation"}, NEW route \in clients,
         clients \subseteq Client, w.contexts[i] = NoContext,
         \/ kind = "session" /\ (i = Reconnect \/ w.ops[i].kind = "acquire")
         \/ /\ i # Reconnect /\ kind = w.ops[i].kind /\ kind \in {"test", "elevation"}
            /\ route = w.ops[i].client
  PROVE  /\ Fine(openContext(w, i, kind, route), b)
         /\ openContext(w, i, kind, route).contexts[i] = [kind |-> kind, route |-> route]
<1> DEFINE v == openContext(w, i, kind, route)
           x == [kind |-> kind, route |-> route]
<1>w. w \in Worlds /\ QuestionsHeld(w) /\ ContextsOwned(w) /\ RoutesThere(w)
  BY DEF Fine, Sound
<1>0. x \in Context /\ x.kind = kind /\ x.route = route /\ x # NoContext
  BY DEF Context, NoContext
<1>1. /\ v.ops = w.ops /\ v.asked = w.asked /\ v.prompts = w.prompts
      /\ v.toClient = w.toClient /\ v.contexts = [w.contexts EXCEPT ![i] = x] /\ v \in Worlds
  BY <1>0, <1>w DEF Worlds, openContext
<1> HIDE DEF v, x
<1>2. v.contexts[i] = x /\ \A j \in ContextId : j # i => v.contexts[j] = w.contexts[j]
  BY <1>1, <1>w, WorldFields
<1>3. \A p \in Prompt : PendingIn(v, p) <=> PendingIn(w, p)
  BY <1>1 DEF PendingIn
<1>4. \A p \in Prompt : PendingIn(w, p) =>
        /\ v.contexts[v.prompts[p].context] = w.contexts[w.prompts[p].context]
        /\ RouteIn(v, p) = RouteIn(w, p)
  BY <1>1, <1>2, <1>w, OpenQuestion DEF RouteIn
<1>5. \A y \in Op : ContextIn(v, y) = ContextIn(w, y)
  BY <1>1 DEF ContextIn
<1>6. QuestionsHeld(v)
  <2>1. \A p \in Prompt : p > v.asked => ~PendingIn(v, p)
    BY <1>1, <1>3, <1>w DEF QuestionsHeld
  <2>2. \A p \in Prompt : p <= v.asked =>
          v.prompts[p].op \in Op /\ v.ops[v.prompts[p].op].kind # "none"
    BY <1>1, <1>w DEF QuestionsHeld
  <2>3. ASSUME NEW p \in Prompt, PendingIn(v, p)
        PROVE  /\ v.ops[v.prompts[p].op].state = "asking"
               /\ v.prompts[p].context = ContextIn(v, v.prompts[p].op)
               /\ v.contexts[v.prompts[p].context] # NoContext
    <3>1. PendingIn(w, p)
      BY <1>3, <2>3
    <3>2. w.prompts[p].op \in Op /\ w.contexts[w.prompts[p].context] # NoContext
      BY <1>w, <3>1, OpenQuestion
    <3>3. /\ w.ops[w.prompts[p].op].state = "asking"
          /\ w.prompts[p].context = ContextIn(w, w.prompts[p].op)
      BY <1>w, <3>1 DEF QuestionsHeld
    <3>4. ContextIn(v, w.prompts[p].op) = ContextIn(w, w.prompts[p].op)
      BY <1>5, <3>2
    <3>5. v.contexts[v.prompts[p].context] = w.contexts[w.prompts[p].context]
      BY <1>4, <3>1
    <3>. QED
      BY <1>1, <3>2, <3>3, <3>4, <3>5
  <2>4. \A p, q \in Prompt :
          PendingIn(v, p) /\ PendingIn(v, q) /\ v.prompts[p].op = v.prompts[q].op => p = q
    BY <1>1, <1>3, <1>w DEF QuestionsHeld
  <2>. QED
    BY <2>1, <2>2, <2>3, <2>4 DEF QuestionsHeld
<1>7. WaitersAsk(v)
  BY <1>1, <1>3 DEF Fine, Sound, WaitersAsk
<1>8. ContextsOwned(v)
  BY <1>0, <1>1, <1>2, <1>w DEF ContextsOwned
<1>9. RoutesThere(v)
  BY <1>0, <1>2, <1>w DEF RoutesThere
<1>10. TracesKnown(v)
  BY <1>1 DEF Fine, Sound, TracesKnown
<1>11. OpenIsCurrent(v)
  BY <1>1, <1>3, <1>4 DEF Fine, Sound, OpenIsCurrent
<1>12. SentOnce(v)
  BY <1>1 DEF Fine, Sound, SentOnce
<1>13. OpenIsShown(v)
  BY <1>1, <1>3, <1>4 DEF Fine, Sound, OpenIsShown
<1>14. OwnTraces(v)
  <2>1. \A p, c : OwnedBy(v, p, c) <=> OwnedBy(w, p, c)
    BY <1>1 DEF OwnedBy
  <2>. QED
    BY <1>1, <2>1 DEF Fine, Sound, OwnTraces
<1>15. TracesLive(v)
  BY <1>1 DEF Fine, TracesLive, LiveIn, PendingIn
<1>16. BegunTo(v, b)
  <2>1. \A y \in Op : y > b => y # i /\ y \in ContextId
    BY Ids
  <2>. QED
    BY <1>1, <1>2, <2>1 DEF Fine, BegunTo
<1>. QED
  BY <1>1, <1>2, <1>6, <1>7, <1>8, <1>9, <1>10, <1>11, <1>12, <1>13, <1>14, <1>15, <1>16
     DEF Fine, Sound, v, x
(* A question is put.                                                      *)
LEMMA PromptIsFine ==
  ASSUME NEW w, NEW b \in Nat, Fine(w, b), NEW o \in Op, o <= b,
         w.ops[o].kind # "none", w.ops[o].state # "asking",
         w.asked < MaxPrompts, NEW type \in PromptType, clients \subseteq Client
  PROVE  Fine(prompt(w, o, ContextIn(w, o), type), b)
<1> DEFINE i == ContextIn(w, o)
           p == w.asked + 1
           c == w.contexts[i].route
           q == [context |-> i, op |-> o, type |-> type, epoch |-> 1,
                 timed |-> w.ops[o].kind = "elevation", state |-> "pending"]
           v == [w EXCEPT !.asked = p, !.prompts[p] = q, !.ops[o].state = "asking",
                          !.toClient[c] = @ \cup {AskMsg(p, 1)}]
<1>w. w \in Worlds /\ QuestionsHeld(w) /\ ContextsOwned(w) /\ RoutesThere(w)
  BY DEF Fine, Sound
<1>i. i \in ContextId
  BY Ids DEF ContextIn
<1>1. CASE w.contexts[i] = NoContext
  <2>1. w.ops[o] \in Operation
    BY <1>w, WorldFields
  <2> DEFINE r == [w.ops[o] EXCEPT !.state = "cleared"]
  <2>2. r \in Operation /\ r.state # "asking" /\ r.kind = w.ops[o].kind /\ r.client = w.ops[o].client
    BY <2>1 DEF Operation
  <2>3. prompt(w, o, i, type) = [w EXCEPT !.ops[o] = r]
    BY <1>1 DEF prompt, NotAsked
  <2> HIDE DEF r
  <2>. QED
    BY <2>2, <2>3, OpGoesOn
<1>2. CASE w.contexts[i] # NoContext
  <2>1. c \in clients /\ c \in Client
    BY <1>i, <1>2, <1>w DEF RoutesThere
  <2>2. [w EXCEPT !.contexts[i].route = c] = w
    BY <1>i, <1>w DEF Worlds, Context
  <2>3. prompt(w, o, i, type) =
          [w EXCEPT !.contexts[i].route = c, !.asked = p, !.prompts[p] = q,
                    !.ops[o].state = "asking", !.toClient[c] = @ \cup {AskMsg(p, 1)}]
    BY <1>2, <2>1 DEF prompt, AskMsg
  <2>4. prompt(w, o, i, type) = v
    BY <1>w, <1>i, <2>2, <2>3 DEF Worlds, Context
  <2>5. p \in Prompt /\ p \in Nat /\ p \in 0..MaxPrompts
    BY <1>w, WorldFields, BoundsAssumption DEF Prompt
  <2>6. q \in PromptRecord
    BY <1>i DEF PromptRecord
  <2>7. w.ops[o] \in Operation /\ [w.ops[o] EXCEPT !.state = "asking"] \in Operation
    <3>1. w.ops[o] \in Operation
      BY <1>w, WorldFields
    <3>. QED
      BY <3>1 DEF Operation
  <2>8. AskMsg(p, 1) \in Message
    BY <2>5, MessageKinds
  <2>9. /\ v.contexts = w.contexts /\ v.asked = p /\ v.prompts = [w.prompts EXCEPT ![p] = q]
        /\ v.ops = [w.ops EXCEPT ![o] = [w.ops[o] EXCEPT !.state = "asking"]]
        /\ v.toClient = [w.toClient EXCEPT ![c] = w.toClient[c] \cup {AskMsg(p, 1)}]
    <3> HIDE DEF p, q, c, i
    <3>. QED
      BY <1>w DEF Worlds
  <2>10. v \in Worlds
    <3>1. w.toClient[c] \cup {AskMsg(p, 1)} \in SUBSET Message
      BY <1>w, <2>1, <2>8, WorldFields
    <3> HIDE DEF p, q, c, i
    <3>. QED
      BY <1>w, <2>5, <2>6, <2>7, <3>1 DEF Worlds
  <2>11. q.op = o /\ q.context = i /\ q.epoch = 1 /\ q.type = type /\ q.state = "pending"
    OBVIOUS
  <2>12. \A x \in Prompt : x # p /\ x <= p => x <= w.asked
    BY <1>w, WorldFields, Ids
  <2>13. ~(p <= w.asked) /\ p > w.asked /\ \A x \in Prompt : x > p => x > w.asked
    BY <1>w, WorldFields, Ids
  <2>14. \A x \in Prompt : x <= w.asked => x <= p /\ x # p
    BY <1>w, WorldFields, Ids
  <2>i. ContextIn(w, o) = i
    OBVIOUS
  <2>c. c = w.contexts[i].route
    OBVIOUS
  <2> HIDE DEF v, q, p, c, i
  <2>15. v.prompts[p] = q /\ \A x \in Prompt : x # p => v.prompts[x] = w.prompts[x]
    BY <1>w, <2>5, <2>9, WorldFields
  <2>16. \A x \in Op : /\ v.ops[x].kind = w.ops[x].kind /\ v.ops[x].client = w.ops[x].client
                       /\ x # o => v.ops[x] = w.ops[x]
    BY <1>w, <2>7, <2>9, WorldFields DEF Operation
  <2>17. v.ops[o].state = "asking"
    BY <1>w, <2>7, <2>9, WorldFields DEF Operation
  <2>18. /\ v.toClient[c] = w.toClient[c] \cup {AskMsg(p, 1)}
         /\ \A d \in Client : d # c => v.toClient[d] = w.toClient[d]
    BY <1>w, <2>1, <2>9, WorldFields
  <2>19. ~PendingIn(w, p)
    BY <1>w, <2>5, <2>13 DEF QuestionsHeld
  <2>20. PendingIn(v, p) /\ \A x \in Prompt : x # p => (PendingIn(v, x) <=> PendingIn(w, x))
    BY <2>11, <2>15 DEF PendingIn
  <2>21. RouteIn(v, p) = c /\ \A x \in Prompt : x # p => RouteIn(v, x) = RouteIn(w, x)
    BY <2>9, <2>11, <2>15, <2>c DEF RouteIn
  <2>22. \A x \in Op : ContextIn(v, x) = ContextIn(w, x)
    BY <2>16 DEF ContextIn
  <2>23. \A x \in Prompt : PendingIn(w, x) => x # p /\ w.prompts[x].op # o
    BY <1>w, <2>19 DEF QuestionsHeld
  <2>24. QuestionsHeld(v)
    <3>1. \A x \in Prompt : x > v.asked => ~PendingIn(v, x)
      BY <1>w, <2>9, <2>13, <2>20, <2>5, Ids DEF QuestionsHeld
    <3>2. \A x \in Prompt : x <= v.asked =>
            v.prompts[x].op \in Op /\ v.ops[v.prompts[x].op].kind # "none"
      BY <1>w, <2>9, <2>11, <2>12, <2>15, <2>16 DEF QuestionsHeld
    <3>3. \A x \in Prompt : PendingIn(v, x) =>
            /\ v.ops[v.prompts[x].op].state = "asking"
            /\ v.prompts[x].context = ContextIn(v, v.prompts[x].op)
            /\ v.contexts[v.prompts[x].context] # NoContext
      <4> SUFFICES ASSUME NEW x \in Prompt, PendingIn(v, x)
                   PROVE  /\ v.ops[v.prompts[x].op].state = "asking"
                          /\ v.prompts[x].context = ContextIn(v, v.prompts[x].op)
                          /\ v.contexts[v.prompts[x].context] # NoContext
        OBVIOUS
      <4>1. CASE x = p
        BY <1>2, <2>9, <2>11, <2>15, <2>17, <2>22, <2>i, <4>1
      <4>2. CASE x # p
        <5>1. PendingIn(w, x) /\ v.prompts[x] = w.prompts[x] /\ w.prompts[x].op # o
          BY <2>15, <2>20, <2>23, <4>2
        <5>2. w.prompts[x].op \in Op
          BY <1>w, <5>1, OpenQuestion
        <5>. QED
          BY <1>w, <2>9, <2>16, <2>22, <5>1, <5>2 DEF QuestionsHeld
      <4>. QED
        BY <4>1, <4>2
    <3>4. \A x, y \in Prompt :
            PendingIn(v, x) /\ PendingIn(v, y) /\ v.prompts[x].op = v.prompts[y].op => x = y
      BY <1>w, <2>11, <2>15, <2>20, <2>23 DEF QuestionsHeld
    <3>. QED
      BY <3>1, <3>2, <3>3, <3>4 DEF QuestionsHeld
  <2>25. WaitersAsk(v)
    <3> SUFFICES ASSUME NEW x \in Op, v.ops[x].state = "asking"
                 PROVE  \E y \in Prompt : PendingIn(v, y) /\ v.prompts[y].op = x
      BY DEF WaitersAsk
    <3>1. CASE x = o
      BY <2>5, <2>11, <2>15, <2>20, <3>1
    <3>2. CASE x # o
      <4>1. w.ops[x].state = "asking"
        BY <2>16, <3>2
      <4>2. PICK y \in Prompt : PendingIn(w, y) /\ w.prompts[y].op = x
        BY <4>1 DEF Fine, Sound, WaitersAsk
      <4>. QED
        BY <2>15, <2>20, <2>23, <4>2
    <3>. QED
      BY <3>1, <3>2
  <2>26. ContextsOwned(v)
    <3>1. \A x \in ContextId : x # Reconnect => x \in Op
      BY Ids
    <3>. QED
      BY <1>w, <2>9, <2>16, <3>1 DEF ContextsOwned
  <2>27. RoutesThere(v)
    BY <1>w, <2>9 DEF RoutesThere
  <2>28. \A d \in Client : \A m \in v.toClient[d] :
           m \in w.toClient[d] \/ (d = c /\ m = AskMsg(p, 1) /\ m.id = p)
    BY <2>18, MessageKinds
  <2>29. /\ \A d \in Client : \A m \in w.toClient[d] : m.id \in Prompt /\ m.id <= w.asked /\ m.id # p
         /\ \A d \in Client : \A t \in PromptType : \A x \in ShownAs(d, t) :
              x.id \in Prompt /\ x.id <= w.asked /\ x.id # p
         /\ \A d \in Client : \A a \in toHub[d] : a.id # p
    <3>1. \A d \in Client : \A m \in w.toClient[d] : m.id \in Prompt
      BY <1>w, WorldFields, MessageKinds
    <3>2. \A d \in Client : \A t \in PromptType : \A x \in ShownAs(d, t) : x.id \in Prompt
      BY DEF ShownAs, Elems, Dialog
    <3>. QED
      BY <2>13, <3>1, <3>2 DEF Fine, Sound, TracesKnown
  <2>30. TracesKnown(v)
    <3>1. \A d \in Client : \A m \in v.toClient[d] : m.id <= p /\ d \in clients
      <4>1. p <= p
        BY <2>5
      <4>. QED
        BY <2>1, <2>14, <2>28, <2>29, <4>1 DEF Fine, Sound, TracesKnown
    <3>2. \A d \in Client : \A t \in PromptType : \A x \in ShownAs(d, t) :
            x.id <= p /\ d \in clients
      BY <2>14, <2>29 DEF Fine, Sound, TracesKnown
    <3>3. \A d \in Client : \A a \in toHub[d] : a.id \in Prompt /\ a.id <= p /\ d \in clients
      <4>1. \A d \in Client : \A a \in toHub[d] : a.id <= w.asked /\ d \in clients
        BY DEF Fine, Sound, TracesKnown
      <4>2. \A d \in Client : \A a \in toHub[d] : a.id \in Prompt
        BY DEF Fine, Sound, TracesKnown
      <4>. QED
        BY <2>14, <4>1, <4>2
    <3>. QED
      BY <2>9, <3>1, <3>2, <3>3 DEF TracesKnown
  <2>31. OpenIsCurrent(v)
    <3> SUFFICES ASSUME NEW x \in Prompt, PendingIn(v, x), NEW d \in Client
                 PROVE  /\ \A m \in v.toClient[d] : m.id = x =>
                             d = RouteIn(v, x) /\ m = AskMsg(x, v.prompts[x].epoch)
                        /\ \A t \in PromptType : \A e \in ShownAs(d, t) : e.id = x =>
                             d = RouteIn(v, x) /\ e.epoch = v.prompts[x].epoch
                        /\ \A a \in toHub[d] : a.id = x => d = RouteIn(v, x)
      BY DEF OpenIsCurrent
    <3>1. CASE x = p
      BY <2>11, <2>15, <2>21, <2>28, <2>29, <3>1
    <3>2. CASE x # p
      BY <2>15, <2>20, <2>21, <2>28, <3>2 DEF Fine, Sound, OpenIsCurrent
    <3>. QED
      BY <3>1, <3>2
  <2>32. SentOnce(v)
    <3> SUFFICES ASSUME NEW d \in Client
                 PROVE  /\ \A m, n \in v.toClient[d] :
                             m.type = "ask" /\ n.type = "ask" /\ m.id = n.id => m = n
                        /\ \A m \in v.toClient[d] : m.type = "ask" =>
                             /\ \A t \in PromptType : \A e \in ShownAs(d, t) : e.id # m.id
                             /\ \A a \in toHub[d] : a.id # m.id
      BY DEF SentOnce
    <3>. QED
      BY <2>28, <2>29 DEF Fine, Sound, SentOnce
  <2>33. OpenIsShown(v)
    <3> SUFFICES ASSUME NEW x \in Prompt, PendingIn(v, x)
                 PROVE  \/ AskMsg(x, v.prompts[x].epoch) \in v.toClient[RouteIn(v, x)]
                        \/ [id |-> x, epoch |-> v.prompts[x].epoch]
                             \in ShownAs(RouteIn(v, x), v.prompts[x].type)
                        \/ \E a \in toHub[RouteIn(v, x)] :
                             a.id = x /\ a.epoch = v.prompts[x].epoch
      BY DEF OpenIsShown
    <3>1. CASE x = p
      BY <2>11, <2>15, <2>18, <2>21, <3>1
    <3>2. CASE x # p
      <4>1. /\ PendingIn(w, x) /\ v.prompts[x] = w.prompts[x] /\ RouteIn(v, x) = RouteIn(w, x)
            /\ RouteIn(w, x) \in Client
        BY <1>w, <2>15, <2>20, <2>21, <3>2, OpenQuestion
      <4>2. w.toClient[RouteIn(w, x)] \subseteq v.toClient[RouteIn(w, x)]
        BY <2>18, <4>1
      <4>. QED
        BY <4>1, <4>2 DEF Fine, Sound, OpenIsShown
    <3>. QED
      BY <3>1, <3>2
  <2>34. OwnTraces(v)
    <3>1. \A x \in Prompt : \A d \in Client :
            x # p /\ x <= w.asked /\ OwnedBy(w, x, d) => OwnedBy(v, x, d)
      <4>1. \A x \in Prompt : x # p /\ x <= w.asked =>
              /\ v.prompts[x].op = w.prompts[x].op
              /\ v.ops[v.prompts[x].op].kind = w.ops[w.prompts[x].op].kind
              /\ v.ops[v.prompts[x].op].client = w.ops[w.prompts[x].op].client
        BY <1>w, <2>15, <2>16 DEF QuestionsHeld
      <4>. QED
        BY <4>1 DEF OwnedBy
    <3>2. OwnedBy(v, p, c)
      <4>1. OwnedBy(v, p, RouteIn(v, p))
        BY <2>10, <2>24, <2>26, <2>27, <2>5, <2>20, OpenQuestion
      <4>. QED
        BY <2>21, <4>1
    <3>. QED
      BY <2>28, <2>29, <3>1, <3>2 DEF Fine, Sound, OwnTraces
  <2>35. TracesLive(v)
    <3>1. \A d \in Client : \A x \in Prompt : x # p /\ LiveIn(w, d, x) => LiveIn(v, d, x)
      BY <2>15, <2>18, <2>20 DEF LiveIn
    <3>2. \A d \in Client : LiveIn(v, d, p)
      BY <2>20 DEF LiveIn
    <3>. QED
      BY <2>28, <2>29, <3>1, <3>2 DEF Fine, TracesLive
  <2>36. BegunTo(v, b)
    <3>1. \A x \in Op : x > b => x # o
      BY Ids
    <3>. QED
      BY <2>9, <2>16, <3>1 DEF Fine, BegunTo
  <2>. QED
    BY <2>4, <2>10, <2>24, <2>25, <2>26, <2>27, <2>30, <2>31, <2>32, <2>33, <2>34, <2>35, <2>36
       DEF Fine, Sound, i
<1>. QED
  BY <1>1, <1>2
(* An operation goes on with null.                                         *)
LEMMA NotAskedIsFine ==
  ASSUME NEW w, NEW b \in Nat, Fine(w, b), NEW o \in Op, o <= b,
         w.ops[o].state # "asking"
  PROVE  Fine(NotAsked(w, o), b)
<1>1. w.ops[o] \in Operation
  BY WorldFields DEF Fine, Sound
<1> DEFINE r == [w.ops[o] EXCEPT !.state = "cleared"]
<1>2. r \in Operation /\ r.state # "asking" /\ r.kind = w.ops[o].kind /\ r.client = w.ops[o].client
  BY <1>1 DEF Operation
<1>3. NotAsked(w, o) = [w EXCEPT !.ops[o] = r]
  BY DEF NotAsked
<1> HIDE DEF r
<1>. QED
  BY <1>2, <1>3, OpGoesOn

LEMMA GetOrOpenIsFine ==
  ASSUME NEW w, NEW b \in Nat, Fine(w, b), NEW o \in Op, o <= b,
         w.ops[o].kind \in {"acquire", "reconnect"},
         clients \subseteq Client, panes \subseteq clients
  PROVE  LET g == getOrOpenSessionPromptContext(w, o)
         IN Fine(g, b) /\ g.ops = w.ops /\ g.asked = w.asked
<1> DEFINE i == IF w.ops[o].kind = "reconnect" THEN Reconnect ELSE o
           c == w.ops[o].client
           g == getOrOpenSessionPromptContext(w, o)
<1>w. w \in Worlds /\ RoutesThere(w)
  BY DEF Fine, Sound
<1>i. i \in ContextId /\ i <= b /\ (i = Reconnect \/ w.ops[i].kind = "acquire")
  BY Ids DEF Reconnect
<1>1. CASE w.contexts[i] # NoContext
  <2>1. w.contexts[i].route \in clients
    BY <1>i, <1>w, <1>1 DEF RoutesThere
  <2>2. g = w
    BY <1>1, <2>1 DEF getOrOpenSessionPromptContext
  <2>. QED
    BY <2>2
<1>2. CASE w.contexts[i] = NoContext
  <2>1. ASSUME NEW r \in clients
        PROVE  LET v == openContext(w, i, "session", r)
               IN Fine(v, b) /\ v.ops = w.ops /\ v.asked = w.asked
    <3>1. Fine(openContext(w, i, "session", r), b)
      <4> HIDE DEF i
      <4>. QED
        BY <1>i, <1>2, <2>1, OpenIsFine
    <3>. QED
      BY <1>w, <3>1 DEF openContext, Worlds
  <2>2. panes # {} => Oldest(panes) \in clients
    BY OldestIsOne
  <2>3. \/ g = w
        \/ panes # {} /\ g = openContext(w, i, "session", Oldest(panes))
        \/ c \in clients /\ g = openContext(w, i, "session", c)
    BY <1>2 DEF getOrOpenSessionPromptContext
  <2>. QED
    BY <2>1, <2>2, <2>3
<1>. QED
  BY <1>1, <1>2

(* An operation asks.                                                      *)
LEMMA AsksIsFine ==
  ASSUME NEW w, NEW b \in Nat, Fine(w, b), NEW o \in Op, o <= b,
         w.ops[o].kind # "none", w.ops[o].state # "asking",
         w.asked < MaxPrompts, NEW type \in PromptType,
         clients \subseteq Client, panes \subseteq clients
  PROVE  Fine(Asks(w, o, type), b)
<1>1. CASE w.ops[o].aborted
  BY <1>1, NotAskedIsFine DEF Asks
<1>2. CASE ~w.ops[o].aborted /\ w.ops[o].kind \in {"acquire", "reconnect"}
  <2> DEFINE g == getOrOpenSessionPromptContext(w, o)
  <2>1. Fine(g, b) /\ g.ops = w.ops /\ g.asked = w.asked
    BY <1>2, GetOrOpenIsFine
  <2>2. Asks(w, o, type) = prompt(g, o, ContextIn(w, o), type)
    BY <1>2 DEF Asks, ContextIn
  <2> HIDE DEF g
  <2>3. ContextIn(w, o) = ContextIn(g, o)
    BY <2>1 DEF ContextIn
  <2>. QED
    BY <2>1, <2>2, <2>3, PromptIsFine
<1>3. CASE ~w.ops[o].aborted /\ w.ops[o].kind \notin {"acquire", "reconnect"}
  <2>1. Asks(w, o, type) = prompt(w, o, o, type) /\ ContextIn(w, o) = o
    BY <1>3 DEF Asks, ContextIn
  <2>. QED
    BY <2>1, PromptIsFine
<1>. QED
  BY <1>1, <1>2, <1>3

(* An operation is aborted.                                                *)
LEMMA AbortedIsFine ==
  ASSUME NEW w, NEW b \in Nat, Fine(w, b), NEW o \in Op \cup {0}, o <= b,
         clients \subseteq Client
  PROVE  Fine(Aborted(w, o), b) /\ Aborted(w, o).asked = w.asked
<1>1. CASE o = 0
  BY <1>1 DEF Aborted
<1>2. CASE o # 0
  <2> DEFINE r == [w.ops[o] EXCEPT !.aborted = TRUE]
             w1 == [w EXCEPT !.ops[o] = r]
             i == IF w.ops[o].kind = "reconnect" THEN Reconnect ELSE o
  <2>0. o \in Op /\ w \in Worlds
    BY <1>2 DEF Fine, Sound
  <2>1. w.ops[o] \in Operation
    BY <2>0, WorldFields
  <2>2. r \in Operation /\ r.state = w.ops[o].state /\ r.kind = w.ops[o].kind
        /\ r.client = w.ops[o].client
    BY <2>1 DEF Operation
  <2>3. Aborted(w, o) = w1 \/ Aborted(w, o) = clearContexts(w1, {i}, TRUE)
    BY <1>2 DEF Aborted, clearContext
  <2>4. w1.asked = w.asked
    BY <2>0 DEF Worlds
  <2>5. {i} \in SUBSET ContextId
    BY <2>0, Ids
  <2> HIDE DEF r, i
  <2>6. Fine(w1, b)
    BY <2>0, <2>2, OpGoesOn
  <2> HIDE DEF w1
  <2>7. Fine(clearContexts(w1, {i}, TRUE), b)
    BY <2>5, <2>6, ClearIsFine
  <2>8. ClearedTo(w1, {i}, TRUE, clearContexts(w1, {i}, TRUE))
    BY <2>5, <2>6, ClearFields DEF Fine, Sound
  <2>9. clearContexts(w1, {i}, TRUE).asked = w1.asked
    BY <2>8 DEF ClearedTo
  <2>. QED
    BY <2>3, <2>4, <2>6, <2>7, <2>9
<1>. QED
  BY <1>1, <1>2

LEMMA AcquisitionClosedIsFine ==
  ASSUME NEW w, NEW b \in Nat, Fine(w, b), acq \in Op \cup {0}, acq <= b,
         clients \subseteq Client
  PROVE  Fine(AcquisitionClosed(w), b)
<1>1. CASE acq = 0
  BY <1>1 DEF AcquisitionClosed
<1>2. CASE acq # 0
  <2>1. Fine(Aborted(w, acq), b)
    BY AbortedIsFine
  <2>2. {acq} \in SUBSET ContextId
    BY <1>2, Ids
  <2>. QED
    BY <1>2, <2>1, <2>2, ClearIsFine DEF AcquisitionClosed, clearContext
<1>. QED
  BY <1>1, <1>2
-----------------------------------------------------------------------------
(* Actions.                                                                *)

Others ==
  /\ PeopleTypeOK /\ HostTypeOK
  /\ toHub \in [Client -> SUBSET Answer]
  /\ dialogs \in [Client -> [PromptType -> Seq(Dialog)]]
  /\ ShownOnce /\ HeldAreBegun

(* The next world is sound if what it becomes is, what clients show stays, *)
(* and only answers that nobody waits for are read.                        *)
LEMMA Becomes ==
  ASSUME NEW w, Sound(w), Become(w), UNCHANGED <<clients, dialogs>>,
         \A c \in Client : toHub'[c] \subseteq toHub[c],
         \A p \in Prompt : PendingIn(w, p) => \A a \in toHub[RouteIn(w, p)] :
           a.id = p /\ a.epoch = w.prompts[p].epoch => a \in toHub'[RouteIn(w, p)]
  PROVE  /\ Sound(World)'
         /\ TracesLive(w) /\ (phase = "stopped" => phase' = "stopped") => TracesLive(World)'
         /\ BegunTo(w, begun') => BegunTo(World, begun)'
<1>1. /\ contexts' = w.contexts /\ asked' = w.asked /\ prompts' = w.prompts
      /\ ops' = w.ops /\ toClient' = w.toClient
  BY DEF Become
<1>2. \A c, t : ShownAs(c, t)' = ShownAs(c, t)
  BY DEF ShownAs
<1>3. (World \in Worlds)'
  BY <1>1 DEF World, Worlds, Sound
<1>4. QuestionsHeld(World)'
  BY <1>1 DEF Sound, QuestionsHeld, PendingIn, ContextIn, World
<1>5. WaitersAsk(World)'
  BY <1>1 DEF Sound, WaitersAsk, PendingIn, World
<1>6. ContextsOwned(World)'
  BY <1>1 DEF Sound, ContextsOwned, World
<1>7. RoutesThere(World)'
  BY <1>1 DEF Sound, RoutesThere, World
<1>8. TracesKnown(World)'
  BY <1>1, <1>2 DEF Sound, TracesKnown, World
<1>9. OpenIsCurrent(World)'
  BY <1>1, <1>2 DEF Sound, OpenIsCurrent, PendingIn, RouteIn, World
<1>10. SentOnce(World)'
  BY <1>1, <1>2 DEF Sound, SentOnce, World
<1>11. OpenIsShown(World)'
  <2>1. \A p \in Prompt : PendingIn(w, p) =>
          \/ AskMsg(p, w.prompts[p].epoch) \in w.toClient[RouteIn(w, p)]
          \/ [id |-> p, epoch |-> w.prompts[p].epoch]
               \in ShownAs(RouteIn(w, p), w.prompts[p].type)'
          \/ \E a \in toHub'[RouteIn(w, p)] : a.id = p /\ a.epoch = w.prompts[p].epoch
    BY <1>2 DEF Sound, OpenIsShown
  <2>. QED
    BY ZenonT(30), <1>1, <2>1 DEF OpenIsShown, PendingIn, RouteIn, World, ShownAs
<1>12. OwnTraces(World)'
  BY <1>1, <1>2 DEF Sound, OwnTraces, OwnedBy, World
<1>13. TracesLive(w) /\ (phase = "stopped" => phase' = "stopped") => TracesLive(World)'
  BY <1>1, <1>2 DEF TracesLive, LiveIn, PendingIn, World
<1>14. BegunTo(w, begun') => BegunTo(World, begun)'
  BY <1>1 DEF BegunTo, World
<1>. QED
  BY <1>3, <1>4, <1>5, <1>6, <1>7, <1>8, <1>9, <1>10, <1>11, <1>12, <1>13, <1>14 DEF Sound

LEMMA BecomesFine ==
  ASSUME NEW w, Fine(w, begun'), Become(w), UNCHANGED <<clients, toHub, dialogs>>,
         phase = "stopped" => phase' = "stopped"
  PROVE  Fine(World, begun)'
BY Becomes DEF Fine

LEMMA ShownOnceStays ==
  ASSUME ShownOnce, UNCHANGED <<toHub, dialogs>>
  PROVE  ShownOnce'
<1>1. \A c, t : ShownAs(c, t)' = ShownAs(c, t)
  BY DEF ShownAs
<1>. QED
  BY <1>1 DEF ShownOnce

(* The world as it is.                                                     *)
LEMMA SameWorld ==
  ASSUME Fine(World, begun), UNCHANGED <<askVars, clients, toHub, dialogs, begun, phase>>
  PROVE  Fine(World, begun)'
<1>1. Become(World)
  BY DEF Become, World, askVars
<1>2. begun' = begun
  OBVIOUS
<1>. QED
  BY <1>1, <1>2, BecomesFine

LEMMA HostFacts ==
  ASSUME Others
  PROVE  /\ clients \subseteq Client /\ panes \subseteq clients
         /\ begun \in Nat /\ begun \in 0..MaxOps
         /\ acq \in Op \cup {0} /\ acq <= begun /\ acq \in Nat
         /\ controller \in Op \cup {0} /\ controller <= begun /\ controller \in Nat
BY Ids, BoundsAssumption DEF Others, PeopleTypeOK, HostTypeOK, HeldAreBegun

LEMMA AttachKeeps ==
  ASSUME PromptsInv, NEW c \in Client, Attach(c) \/ Detach(c)
  PROVE  PromptsInv'
<1>1. UNCHANGED <<askVars, clients, toHub, dialogs, hostVars>> /\ panes' \subseteq clients
  BY DEF Attach, Detach, PromptsInv, PeopleTypeOK
<1>2. Fine(World, begun)'
  BY <1>1, SameWorld DEF PromptsInv, hostVars
<1>3. ShownOnce'
  BY <1>1, ShownOnceStays DEF PromptsInv
<1>. QED
  BY <1>1, <1>2, <1>3 DEF PromptsInv, PeopleTypeOK, HostTypeOK, HeldAreBegun, hostVars

LEMMA JoinKeeps ==
  ASSUME PromptsInv, NEW c \in Client, Join(c)
  PROVE  PromptsInv'
<1>1. /\ UNCHANGED <<askVars, clients, panes, toHub, dialogs, session, begun, acq, controller, phase>>
      /\ leases' \subseteq Client
  BY DEF Join, PromptsInv, HostTypeOK, peopleVars
<1>2. Fine(World, begun)'
  BY <1>1, SameWorld DEF PromptsInv
<1>3. ShownOnce'
  BY <1>1, ShownOnceStays DEF PromptsInv
<1>. QED
  BY <1>1, <1>2, <1>3 DEF PromptsInv, PeopleTypeOK, HostTypeOK, HeldAreBegun

(* An action that only changes the world and what the hub holds.           *)
LEMMA WorldStep ==
  ASSUME PromptsInv, NEW w, Fine(w, begun'), Become(w),
         UNCHANGED <<clients, toHub, dialogs>>,
         phase = "stopped" => phase' = "stopped",
         HostTypeOK', panes' \subseteq clients, HeldAreBegun'
  PROVE  PromptsInv'
<1>1. Fine(World, begun)'
  BY BecomesFine
<1>2. ShownOnce'
  BY ShownOnceStays DEF PromptsInv
<1>3. PeopleTypeOK'
  BY DEF PromptsInv, PeopleTypeOK
<1>. QED
  BY <1>1, <1>2, <1>3 DEF PromptsInv

(* An operation that begins: the world it begins in.                       *)
LEMMA BegunIsFine ==
  ASSUME NEW w, Others, Fine(w, begun), begun < MaxOps,
         NEW kind \in AllKinds, NEW c \in Client
  PROVE  LET o == begun + 1
             r == [kind |-> kind, client |-> c, state |-> "running", aborted |-> FALSE]
             v == [w EXCEPT !.ops[o] = r]
         IN /\ o \in Op /\ o \in Nat /\ Fine(v, o) /\ v.ops[o] = r
            /\ v.contexts = w.contexts /\ v.asked = w.asked /\ w.contexts[o] = NoContext
<1> DEFINE o == begun + 1
           r == [kind |-> kind, client |-> c, state |-> "running", aborted |-> FALSE]
<1>1. o \in Op /\ o \in Nat /\ o > begun /\ begun <= o /\ o <= o /\ begun \in Nat
  BY HostFacts, BoundsAssumption DEF Op
<1>2. w.ops[o] = NoOp /\ w.contexts[o] = NoContext
  BY <1>1 DEF Fine, BegunTo
<1>3. r \in Operation /\ r.state = "running" /\ r.kind # "none"
  BY DEF Operation, AllKinds
<1> HIDE DEF r
<1>5. Fine([w EXCEPT !.ops[o] = r], o)
  BY <1>1, <1>3, OpBegins
<1> HIDE DEF o
<1>6. w \in Worlds
  BY DEF Fine, Sound
<1>7. /\ [w EXCEPT !.ops[o] = r].ops[o] = r /\ [w EXCEPT !.ops[o] = r].contexts = w.contexts
      /\ [w EXCEPT !.ops[o] = r].asked = w.asked
  BY <1>1, <1>6 DEF Worlds
<1>. QED
  BY <1>1, <1>2, <1>5, <1>7 DEF o, r
LEMMA BeginAcquireKeeps ==
  ASSUME PromptsInv, NEW c \in Client, BeginAcquire(c)
  PROVE  PromptsInv'
<1> USE DEF Starts
<1>0. Others /\ Fine(World, begun) /\ begun < MaxOps /\ begun' = begun + 1
  BY DEF PromptsInv, Others, BeginAcquire
<1>1. /\ begun + 1 \in Op /\ begun + 1 \in Nat
      /\ Fine(Begun(begun + 1, "acquire", c), begun + 1)
  BY <1>0, BegunIsFine DEF Begun, AllKinds
<1>2. /\ Become(Begun(begun + 1, "acquire", c)) /\ UNCHANGED <<clients, panes, toHub, dialogs, phase, controller>>
      /\ acq' = begun + 1 /\ leases' = {c} /\ session' = TRUE
  BY DEF BeginAcquire, peopleVars
<1>3. Fine(Begun(begun + 1, "acquire", c), begun')
  BY <1>0, <1>1
<1>4. HostTypeOK' /\ HeldAreBegun' /\ panes' \subseteq clients
  BY <1>0, <1>1, <1>2, HostFacts, BoundsAssumption DEF Others, HostTypeOK, HeldAreBegun, Op
<1>. QED
  BY <1>2, <1>3, <1>4, WorldStep

LEMMA BeginTestKeeps ==
  ASSUME PromptsInv, NEW c \in Client, BeginTest(c)
  PROVE  PromptsInv'
<1> USE DEF Starts
<1> DEFINE o == begun + 1
           w == Begun(o, "test", c)
<1>0. Others /\ Fine(World, begun) /\ begun < MaxOps /\ begun' = o /\ c \in clients
  BY DEF PromptsInv, Others, BeginTest
<1>1. /\ o \in Op /\ o \in Nat /\ Fine(w, o) /\ w.contexts[o] = NoContext
      /\ w.ops[o].kind = "test" /\ w.ops[o].client = c
  BY <1>0, BegunIsFine DEF Begun, AllKinds
<1>2. /\ Become(openContext(w, o, "test", c)) /\ UNCHANGED <<clients, panes, toHub, dialogs, phase>>
      /\ UNCHANGED <<acq, controller, leases, session>>
  BY DEF BeginTest, peopleVars
<1>3. o <= o /\ o \in ContextId /\ o # Reconnect
  BY <1>1, Ids
<1>4. HostTypeOK' /\ HeldAreBegun' /\ panes' \subseteq clients
  BY <1>0, <1>1, <1>2, HostFacts, BoundsAssumption DEF Others, HostTypeOK, HeldAreBegun, Op
<1> HIDE DEF o, w
<1>5. Fine(openContext(w, o, "test", c), o)
  BY <1>0, <1>1, <1>3, OpenIsFine, HostFacts
<1>. QED
  BY <1>0, <1>2, <1>4, <1>5, WorldStep

(* The client of an elevation left: its context goes as it came.           *)
LEMMA OpenedInVain ==
  ASSUME NEW w, NEW b \in Nat, Fine(w, b), NEW o \in Op, w.contexts[o] = NoContext,
         NEW c \in Client
  PROVE  clearContexts(openContext(w, o, "elevation", c), {o}, TRUE) = w
<1> DEFINE x == [kind |-> "elevation", route |-> c]
           v == openContext(w, o, "elevation", c)
           u == clearContexts(v, {o}, TRUE)
<1>w. w \in Worlds /\ QuestionsHeld(w) /\ ContextsOwned(w) /\ RoutesThere(w)
  BY DEF Fine, Sound
<1>0. x \in Context /\ x # NoContext /\ o \in ContextId
  BY Ids DEF Context, NoContext
<1>1. /\ v.ops = w.ops /\ v.asked = w.asked /\ v.prompts = w.prompts
      /\ v.toClient = w.toClient /\ v.contexts = [w.contexts EXCEPT ![o] = x] /\ v \in Worlds
  BY <1>0, <1>w DEF Worlds, openContext
<1> HIDE DEF v, x
<1>2. v.contexts[o] = x /\ \A j \in ContextId : j # o => v.contexts[j] = w.contexts[j]
  BY <1>0, <1>1, <1>w, WorldFields
<1>3. \A p \in Prompt : PendingIn(v, p) <=> PendingIn(w, p)
  BY <1>1 DEF PendingIn
<1>4. \A p \in Prompt : PendingIn(w, p) =>
        w.prompts[p].context # o /\ w.prompts[p].context \in ContextId
  BY <1>w, OpenQuestion
<1>5. QuestionsHeld(v)
  <2>1. \A y \in Op : ContextIn(v, y) = ContextIn(w, y)
    BY <1>1 DEF ContextIn
  <2>. QED
    BY <1>1, <1>2, <1>3, <1>4, <1>w, <2>1, OpenQuestion DEF QuestionsHeld
<1>6. ClearedTo(v, {o}, TRUE, u)
  BY <1>0, <1>1, <1>5, ClearFields
<1> HIDE DEF u
<1>7. \A p \in Prompt : ~GoneWith(v, {o}, p)
  BY <1>1, <1>3, <1>4 DEF GoneWith
<1>a. /\ \A p \in Prompt :
           /\ u.prompts[p].context = v.prompts[p].context
           /\ u.prompts[p].op = v.prompts[p].op
           /\ u.prompts[p].type = v.prompts[p].type
           /\ u.prompts[p].epoch = v.prompts[p].epoch
           /\ u.prompts[p].timed = v.prompts[p].timed
           /\ u.prompts[p].state = v.prompts[p].state
      /\ \A y \in Op :
           /\ u.ops[y].kind = v.ops[y].kind
           /\ u.ops[y].client = v.ops[y].client
           /\ u.ops[y].aborted = v.ops[y].aborted
           /\ u.ops[y].state = v.ops[y].state
  BY <1>6, <1>7 DEF ClearedTo
<1>b. \A d \in Client : u.toClient[d] = v.toClient[d]
  <2>1. \A d \in Client : {CancelMsg(p) :
          p \in {q \in Prompt : GoneWith(v, {o}, q) /\ RouteIn(v, q) = d}} = {}
    BY <1>7
  <2>2. \A d \in Client : u.toClient[d] = v.toClient[d] \cup (IF TRUE /\ d \in clients
         THEN {CancelMsg(p) : p \in {q \in Prompt : GoneWith(v, {o}, q) /\ RouteIn(v, q) = d}}
         ELSE {})
    BY <1>6 DEF ClearedTo
  <2>. QED
    BY <2>1, <2>2
<1>8. u \in Worlds /\ u.asked = w.asked
  BY <1>1, <1>6 DEF ClearedTo
<1>9. u.contexts = w.contexts
  <2>1. \A j \in ContextId : u.contexts[j] = w.contexts[j]
    BY <1>2, <1>6 DEF ClearedTo
  <2>. QED
    BY <1>8, <1>w, <2>1, WorldFields
<1>10. u.prompts = w.prompts
  <2>1. \A p \in Prompt : u.prompts[p] \in PromptRecord /\ w.prompts[p] \in PromptRecord
    BY <1>8, <1>w, WorldFields
  <2>2. \A p \in Prompt : 
         /\ u.prompts[p].context = w.prompts[p].context /\ u.prompts[p].op = w.prompts[p].op
         /\ u.prompts[p].type = w.prompts[p].type /\ u.prompts[p].epoch = w.prompts[p].epoch
         /\ u.prompts[p].timed = w.prompts[p].timed /\ u.prompts[p].state = w.prompts[p].state
    BY <1>1, <1>a
  <2>3. \A p \in Prompt : u.prompts[p] = w.prompts[p]
    BY <2>1, <2>2 DEF PromptRecord
  <2>. QED
    BY <1>8, <1>w, <2>3, WorldFields
<1>11. u.ops = w.ops
  <2>1. \A y \in Op : u.ops[y] \in Operation /\ w.ops[y] \in Operation
    BY <1>8, <1>w, WorldFields
  <2>2. \A y \in Op :
          /\ u.ops[y].kind = w.ops[y].kind /\ u.ops[y].client = w.ops[y].client
          /\ u.ops[y].aborted = w.ops[y].aborted /\ u.ops[y].state = w.ops[y].state
    BY <1>1, <1>a
  <2>3. \A y \in Op : u.ops[y] = w.ops[y]
    BY <2>1, <2>2 DEF Operation
  <2>. QED
    BY <1>8, <1>w, <2>3, WorldFields
<1>12. u.toClient = w.toClient
  <2>1. \A d \in Client : u.toClient[d] = w.toClient[d]
    BY <1>1, <1>b
  <2>. QED
    BY <1>8, <1>w, <2>1, WorldFields
<1>13. u = w
  BY <1>8, <1>9, <1>10, <1>11, <1>12, <1>w DEF Worlds
<1>. QED
  BY <1>13 DEF u, v

LEMMA BeginElevationKeeps ==
  ASSUME PromptsInv, NEW c \in Client, BeginElevation(c)
  PROVE  PromptsInv'
<1> USE DEF Starts
<1> DEFINE o == begun + 1
           w == Begun(o, "elevation", c)
           v == openContext(w, o, "elevation", c)
<1>0. Others /\ Fine(World, begun) /\ begun < MaxOps /\ begun' = o /\ asked < MaxPrompts
  BY DEF PromptsInv, Others, BeginElevation, MayAsk
<1>1. /\ o \in Op /\ o \in Nat /\ Fine(w, o) /\ w.contexts[o] = NoContext
      /\ w.ops[o].kind = "elevation" /\ w.ops[o].client = c /\ w.ops[o].state = "running"
      /\ w.asked = asked
  BY <1>0, BegunIsFine DEF Begun, AllKinds, World
<1>2. /\ Become(prompt(v, o, o, "auth")) /\ UNCHANGED <<clients, panes, toHub, dialogs, phase>>
      /\ UNCHANGED <<acq, controller, leases, session>>
  BY DEF BeginElevation, peopleVars
<1>3. o <= o /\ o \in ContextId /\ o # Reconnect
  BY <1>1, Ids
<1>4. HostTypeOK' /\ HeldAreBegun' /\ panes' \subseteq clients
  BY <1>0, <1>1, <1>2, HostFacts, BoundsAssumption DEF Others, HostTypeOK, HeldAreBegun, Op
<1> HIDE DEF o, w
<1>5. w \in Worlds
  BY <1>1 DEF Fine, Sound
<1>6. /\ v.ops = w.ops /\ v.asked = w.asked
      /\ v.contexts[o] = [kind |-> "elevation", route |-> c]
  BY <1>3, <1>5 DEF Worlds, openContext
<1>7. Fine(prompt(v, o, o, "auth"), o)
  <2>1. CASE c \in clients
    <3>0. clients \subseteq Client
      BY <1>0, HostFacts
    <3>1. Fine(v, o)
      BY ZenonT(30), <1>1, <1>3, <2>1, <3>0, OpenIsFine
    <3> HIDE DEF v
    <3>2. ContextIn(v, o) = o
      BY <1>1, <1>6 DEF ContextIn
    <3>3. "auth" \in PromptType
      BY DEF PromptType
    <3>4. v.ops[o].kind # "none" /\ v.ops[o].state # "asking" /\ v.asked < MaxPrompts
      BY <1>0, <1>1, <1>6
    <3>5. Fine(prompt(v, o, ContextIn(v, o), "auth"), o)
      BY <1>0, <1>1, <1>3, <3>1, <3>3, <3>4, PromptIsFine, HostFacts
    <3>. QED
      BY <3>2, <3>5
  <2>2. CASE c \notin clients
    <3>1. v.contexts[o] # NoContext /\ v.contexts[o].route = c /\ v.contexts[o].kind = "elevation"
      BY <1>6 DEF NoContext
    <3> HIDE DEF v
    <3>2. RouteCandidates(v, o, c) = {}
      BY <3>1 DEF RouteCandidates
    <3>3. prompt(v, o, o, "auth") = NotAsked(clearContexts(v, {o}, TRUE), o)
      BY <2>2, <3>1, <3>2 DEF prompt, clearContext
    <3>4. clearContexts(v, {o}, TRUE) = w
      BY <1>1, OpenedInVain DEF v
    <3>. QED
      BY <1>1, <1>3, <3>3, <3>4, NotAskedIsFine
  <2>. QED
    BY <2>1, <2>2
<1>. QED
  BY <1>0, <1>2, <1>4, <1>7, WorldStep

LEMMA BeginReconnectKeeps ==
  ASSUME PromptsInv, NEW asks \in BOOLEAN, BeginReconnect(asks)
  PROVE  PromptsInv'
<1> USE DEF Starts
<1> DEFINE o == begun + 1
           a == Aborted(World, controller)
           r == [kind |-> "reconnect", client |-> Oldest(clients),
                 state |-> "running", aborted |-> FALSE]
           w == [a EXCEPT !.ops[o] = r]
           v == IF asks THEN Asks(w, o, "auth") ELSE w
<1>0. Others /\ Fine(World, begun) /\ begun < MaxOps /\ begun' = o /\ clients # {}
  BY DEF PromptsInv, Others, BeginReconnect
<1>1. Fine(a, begun) /\ a.asked = asked
  BY <1>0, HostFacts, AbortedIsFine DEF World
<1>2. Oldest(clients) \in Client
  BY <1>0, HostFacts, OldestIsOne
<1>3. Become(v) /\ UNCHANGED <<clients, panes, toHub, dialogs, phase, acq, leases, session>>
      /\ controller' = o
  BY DEF BeginReconnect, peopleVars
<1>4. asks => asked < MaxPrompts
  BY DEF BeginReconnect, MayAsk
<1> HIDE DEF a
<1>5. /\ o \in Op /\ o \in Nat /\ Fine(w, o) /\ w.ops[o] = r /\ w.asked = asked
  BY <1>0, <1>1, <1>2, BegunIsFine DEF AllKinds
<1>6. HostTypeOK' /\ HeldAreBegun' /\ panes' \subseteq clients
  BY <1>0, <1>3, <1>5, HostFacts, BoundsAssumption DEF Others, HostTypeOK, HeldAreBegun, Op
<1>7. w.ops[o].kind # "none" /\ w.ops[o].state # "asking" /\ o <= o /\ "auth" \in PromptType
  BY <1>5 DEF PromptType
<1> HIDE DEF o, w, r
<1>8. Fine(v, o)
  <2>1. CASE asks
    BY <1>0, <1>4, <1>5, <1>7, <2>1, AsksIsFine, HostFacts
  <2>2. CASE ~asks
    BY <1>5, <2>2
  <2>. QED
    BY <2>1, <2>2
<1> HIDE DEF v
<1>. QED
  BY <1>0, <1>3, <1>6, <1>8, WorldStep

LEMMA AskKeeps ==
  ASSUME PromptsInv, NEW o \in Op, NEW type \in PromptType, Ask(o, type)
  PROVE  PromptsInv'
<1>0. Others /\ Fine(World, begun) /\ asked < MaxPrompts /\ ops[o].state = "running"
  BY DEF PromptsInv, Others, Ask, MayAsk
<1>1. /\ Become(Asks(World, o, type)) /\ UNCHANGED <<clients, panes, toHub, dialogs, phase>>
      /\ UNCHANGED <<acq, controller, leases, session, begun>>
  BY DEF Ask, peopleVars, hostVars
<1>2. World.ops[o] = ops[o] /\ World.asked = asked
  BY DEF World
<1>3. ~(o > begun) /\ o <= begun
  <2>1. ~(o > begun)
    BY <1>0, <1>2 DEF Fine, BegunTo, NoOp
  <2>. QED
    BY <1>0, <2>1, HostFacts, Ids
<1>4. World.ops[o].kind # "none" /\ World.ops[o].state # "asking" /\ World.asked < MaxPrompts
  BY <1>0, <1>2, <1>3 DEF Fine, BegunTo
<1>5. Fine(Asks(World, o, type), begun)
  BY <1>0, <1>3, <1>4, HostFacts, AsksIsFine
<1>6. HostTypeOK' /\ HeldAreBegun' /\ panes' \subseteq clients /\ begun' = begun
  BY <1>0, <1>1, HostFacts DEF Others, HostTypeOK, HeldAreBegun
<1>. QED
  BY <1>1, <1>5, <1>6, WorldStep
LEMMA EndKeeps ==
  ASSUME PromptsInv, NEW o \in Op, End(o)
  PROVE  PromptsInv'
<1> DEFINE r == [ops[o] EXCEPT !.state = "done"]
           w == [World EXCEPT !.ops[o] = r]
           v == clearContexts(w, {ContextOf(o)}, TRUE)
<1>0. Others /\ Fine(World, begun) /\ ops[o].state \in {"running", "refused", "cleared"}
  BY DEF PromptsInv, Others, End
<1>1. /\ Become(v) /\ UNCHANGED <<clients, panes, toHub, dialogs, phase>>
      /\ UNCHANGED <<leases, session, begun>>
      /\ acq' \in {acq, 0} /\ controller' \in {controller, 0}
  BY DEF End, peopleVars, clearContext, World
<1>2. World.ops = ops /\ World.ops[o] = ops[o] /\ ops[o] \in Operation
  BY <1>0, WorldFields DEF World, Fine, Sound
<1>3. r \in Operation /\ r.state = "done" /\ r.kind = ops[o].kind /\ r.client = ops[o].client
  BY <1>2 DEF Operation
<1>4. o <= begun
  <2>1. ~(o > begun)
    BY <1>0, <1>2 DEF Fine, BegunTo, NoOp
  <2>. QED
    BY <1>0, <2>1, HostFacts, Ids
<1>5. {ContextOf(o)} \in SUBSET ContextId
  BY Ids DEF ContextOf
<1> HIDE DEF r
<1>6. Fine(w, begun)
  BY <1>0, <1>2, <1>3, <1>4, HostFacts, OpGoesOn
<1> HIDE DEF w
<1>7. Fine(v, begun)
  BY <1>0, <1>5, <1>6, HostFacts, ClearIsFine
<1>8. HostTypeOK' /\ HeldAreBegun' /\ panes' \subseteq clients /\ begun' = begun
  BY <1>0, <1>1, HostFacts, Ids DEF Others, HostTypeOK, HeldAreBegun
<1> HIDE DEF v
<1>. QED
  BY <1>1, <1>7, <1>8, WorldStep

LEMMA DisconnectHostKeeps ==
  ASSUME PromptsInv, DisconnectHost
  PROVE  PromptsInv'
<1>0. Others /\ Fine(World, begun)
  BY DEF PromptsInv, Others
<1> DEFINE v == Aborted(AcquisitionClosed(World), controller)
<1>1. /\ Become(v) /\ UNCHANGED <<clients, panes, toHub, dialogs, phase>>
      /\ UNCHANGED <<leases, session, begun>> /\ acq' = 0 /\ controller' = 0
  BY DEF DisconnectHost, peopleVars
<1>2. Fine(v, begun)
  BY <1>0, HostFacts, AcquisitionClosedIsFine, AbortedIsFine
<1>3. HostTypeOK' /\ HeldAreBegun' /\ panes' \subseteq clients /\ begun' = begun
  BY <1>0, <1>1, HostFacts DEF Others, HostTypeOK, HeldAreBegun
<1> HIDE DEF v
<1>. QED
  BY <1>1, <1>2, <1>3, WorldStep

LEMMA CloseSessionKeeps ==
  ASSUME PromptsInv, CloseSession
  PROVE  PromptsInv'
<1>0. Others /\ Fine(World, begun)
  BY DEF PromptsInv, Others
<1> DEFINE w == Aborted(AcquisitionClosed(World), controller)
           u == clearContexts(w, {Reconnect}, TRUE)
           v == ElevationsCleared(u)
<1>1. /\ Become(v) /\ UNCHANGED <<clients, toHub, dialogs, phase>>
      /\ UNCHANGED <<leases, begun>> /\ acq' = 0 /\ controller' = 0
      /\ session' = FALSE /\ panes' = {}
  BY DEF CloseSession, peopleVars, clearContext
<1>2. Fine(w, begun)
  BY <1>0, HostFacts, AcquisitionClosedIsFine, AbortedIsFine
<1> HIDE DEF w
<1>3. Fine(u, begun)
  BY <1>0, <1>2, HostFacts, ClearIsFine, Ids
<1> HIDE DEF u
<1>4. Fine(v, begun)
  BY <1>0, <1>3, HostFacts, ClearIsFine DEF ElevationsCleared
<1> HIDE DEF v
<1>5. session' \in BOOLEAN
  BY <1>1
<1>6. HostTypeOK' /\ HeldAreBegun' /\ panes' \subseteq clients /\ begun' = begun
  <2>1. acq' = 0 /\ controller' = 0 /\ begun' = begun /\ leases' = leases /\ phase' = phase /\ panes' = {}
    BY <1>1
  <2>2. HostTypeOK'
    BY <1>0, <1>5, <2>1 DEF Others, HostTypeOK
  <2>. QED
    BY <1>0, <2>1, <2>2, HostFacts DEF HeldAreBegun
<1>. QED
  BY <1>1, <1>4, <1>6, WorldStep

LEMMA BeginQuitKeeps ==
  ASSUME PromptsInv, BeginQuit
  PROVE  PromptsInv'
<1>0. Others /\ Fine(World, begun)
  BY DEF PromptsInv, Others
<1> DEFINE v == Aborted(Aborted(World, acq), controller)
<1>1. /\ Become(v) /\ UNCHANGED <<clients, panes, toHub, dialogs>>
      /\ UNCHANGED <<leases, session, begun>> /\ acq' = 0 /\ controller' = 0
      /\ phase = "running" /\ phase' = "quitting"
  BY DEF BeginQuit, peopleVars
<1>2. Fine(v, begun)
  BY <1>0, HostFacts, AbortedIsFine
<1>3. HostTypeOK' /\ HeldAreBegun' /\ panes' \subseteq clients /\ begun' = begun
  BY <1>0, <1>1, HostFacts DEF Others, HostTypeOK, HeldAreBegun
<1> HIDE DEF v
<1>. QED
  BY <1>1, <1>2, <1>3, WorldStep

LEMMA ShutdownKeeps ==
  ASSUME PromptsInv, Shutdown
  PROVE  PromptsInv'
<1>0. Others /\ Fine(World, begun)
  BY DEF PromptsInv, Others
<1> DEFINE v == clearContexts(World, ContextId, FALSE)
<1>1. /\ Become(v) /\ UNCHANGED <<clients, panes, toHub, dialogs>>
      /\ UNCHANGED <<leases, session, begun, acq, controller>> /\ phase' = "stopped"
  BY DEF Shutdown, peopleVars
<1>2. Sound(v) /\ BegunTo(v, begun)
  <2>1. World \in Worlds /\ QuestionsHeld(World) /\ Sound(World) /\ BegunTo(World, begun)
    BY <1>0 DEF Fine, Sound
  <2>. QED
    BY <1>0, <2>1, HostFacts, ClearIsSound, ClearBegins
<1> HIDE DEF v
<1>3. Sound(World)' /\ BegunTo(World, begun)'
  BY <1>1, <1>2, Becomes
<1>4. TracesLive(World)'
  BY <1>1 DEF TracesLive, LiveIn
<1>5. ShownOnce'
  BY <1>0, <1>1, ShownOnceStays DEF Others
<1>. QED
  BY <1>0, <1>1, <1>3, <1>4, <1>5 DEF PromptsInv, Fine, Others, PeopleTypeOK, HostTypeOK, HeldAreBegun

(* One question is resolved, and its operation goes on.                    *)
ResolvedTo(w, p, v) ==
  LET o == w.prompts[p].op
  IN /\ v \in Worlds
     /\ v.contexts = w.contexts /\ v.asked = w.asked /\ v.toClient = w.toClient
     /\ v.prompts[p].state \in {"answered", "expired"}
     /\ \A q \in Prompt :
          /\ q # p => v.prompts[q].state = w.prompts[q].state
          /\ v.prompts[q].op = w.prompts[q].op /\ v.prompts[q].context = w.prompts[q].context
          /\ v.prompts[q].epoch = w.prompts[q].epoch /\ v.prompts[q].type = w.prompts[q].type
     /\ v.ops[o].state \in {"running", "refused", "cleared"}
     /\ \A x \in Op : /\ x # o => v.ops[x] = w.ops[x]
                      /\ v.ops[x].kind = w.ops[x].kind /\ v.ops[x].client = w.ops[x].client

LEMMA ResolvedIsSound ==
  ASSUME NEW w, NEW b \in Nat, Fine(w, b), NEW p \in Prompt, PendingIn(w, p),
         NEW v, ResolvedTo(w, p, v)
  PROVE  /\ Sound(v) /\ BegunTo(v, b)
         /\ v.prompts[p].state = "expired" => TracesLive(v)
         /\ \A q \in Prompt : PendingIn(v, q) <=> PendingIn(w, q) /\ q # p
         /\ \A q \in Prompt : RouteIn(v, q) = RouteIn(w, q) /\ v.prompts[q].epoch = w.prompts[q].epoch
<1> DEFINE o == w.prompts[p].op
<1>w. w \in Worlds /\ QuestionsHeld(w) /\ ContextsOwned(w) /\ RoutesThere(w)
  BY DEF Fine, Sound
<1>v. v \in Worlds /\ v.contexts = w.contexts /\ v.asked = w.asked /\ v.toClient = w.toClient
  BY DEF ResolvedTo
<1>0. o \in Op /\ w.ops[o] \in Operation /\ w.prompts \in [Prompt -> PromptRecord]
  BY <1>w, OpenQuestion, WorldFields
<1>1. /\ v.prompts[p].state \in {"answered", "expired"}
      /\ \A q \in Prompt :
           /\ q # p => v.prompts[q].state = w.prompts[q].state
           /\ v.prompts[q].op = w.prompts[q].op /\ v.prompts[q].context = w.prompts[q].context
           /\ v.prompts[q].epoch = w.prompts[q].epoch /\ v.prompts[q].type = w.prompts[q].type
  BY DEF ResolvedTo
<1>2. /\ v.ops[o].state \in {"running", "refused", "cleared"}
      /\ \A x \in Op : /\ x # o => v.ops[x] = w.ops[x]
                       /\ v.ops[x].kind = w.ops[x].kind /\ v.ops[x].client = w.ops[x].client
  BY DEF ResolvedTo
<1>3. \A q \in Prompt : PendingIn(v, q) <=> PendingIn(w, q) /\ q # p
  BY <1>v, <1>1 DEF PendingIn
<1>4. \A q \in Prompt : RouteIn(v, q) = RouteIn(w, q)
  BY <1>v, <1>1 DEF RouteIn
<1>5. \A q \in Prompt : PendingIn(v, q) => w.prompts[q].op \in Op /\ w.prompts[q].op # o
  BY <1>v, <1>3, <1>w, OpenQuestion DEF QuestionsHeld
<1>6. \A x \in Op : ContextIn(v, x) = ContextIn(w, x)
  BY <1>v, <1>2 DEF ContextIn
<1> HIDE DEF o
<1>7. QuestionsHeld(v)
  <2>1. \A q \in Prompt : q > v.asked => ~PendingIn(v, q)
    BY <1>v, <1>3, <1>w DEF QuestionsHeld
  <2>2. \A q \in Prompt : q <= v.asked =>
          v.prompts[q].op \in Op /\ v.ops[v.prompts[q].op].kind # "none"
    BY <1>v, <1>1, <1>2, <1>w DEF QuestionsHeld
  <2>3. \A q \in Prompt : PendingIn(v, q) =>
          /\ v.ops[v.prompts[q].op].state = "asking"
          /\ v.prompts[q].context = ContextIn(v, v.prompts[q].op)
          /\ v.contexts[v.prompts[q].context] # NoContext
    BY <1>v, <1>1, <1>2, <1>3, <1>5, <1>6, <1>w DEF QuestionsHeld
  <2>4. \A q, x \in Prompt :
          PendingIn(v, q) /\ PendingIn(v, x) /\ v.prompts[q].op = v.prompts[x].op => q = x
    BY <1>v, <1>1, <1>3, <1>w DEF QuestionsHeld
  <2>. QED
    BY <2>1, <2>2, <2>3, <2>4 DEF QuestionsHeld
<1>8. WaitersAsk(v)
  <2> SUFFICES ASSUME NEW x \in Op, v.ops[x].state = "asking"
               PROVE  \E q \in Prompt : PendingIn(v, q) /\ v.prompts[q].op = x
    BY DEF WaitersAsk
  <2>1. x # o /\ w.ops[x].state = "asking"
    BY <1>v, <1>2
  <2>2. PICK q \in Prompt : PendingIn(w, q) /\ w.prompts[q].op = x
    BY <2>1 DEF Fine, Sound, WaitersAsk
  <2>. QED
    BY <1>v, <1>1, <1>3, <2>1, <2>2 DEF o
<1>9. ContextsOwned(v)
  <2>1. \A x \in ContextId : x # Reconnect => x \in Op
    BY Ids
  <2>. QED
    BY <1>v, <1>2, <1>w, <2>1 DEF ContextsOwned
<1>10. RoutesThere(v)
  BY <1>v, <1>w DEF RoutesThere
<1>11. TracesKnown(v)
  BY <1>v DEF Fine, Sound, TracesKnown
<1>12. OpenIsCurrent(v)
  BY <1>v, <1>1, <1>3, <1>4 DEF Fine, Sound, OpenIsCurrent
<1>13. SentOnce(v)
  BY <1>v DEF Fine, Sound, SentOnce
<1>14. OpenIsShown(v)
  BY <1>v, <1>1, <1>3, <1>4 DEF Fine, Sound, OpenIsShown
<1>15. /\ \A d \in Client : \A m \in w.toClient[d] : m.id \in Prompt /\ m.id <= w.asked
       /\ \A d \in Client : \A t \in PromptType : \A x \in ShownAs(d, t) :
            x.id \in Prompt /\ x.id <= w.asked
  <2>1. \A d \in Client : \A m \in w.toClient[d] : m.id \in Prompt
    BY <1>v, <1>w, WorldFields, MessageKinds
  <2>2. \A d \in Client : \A t \in PromptType : \A x \in ShownAs(d, t) : x.id \in Prompt
    BY DEF ShownAs, Elems, Dialog
  <2>. QED
    BY <2>1, <2>2 DEF Fine, Sound, TracesKnown
<1>16. OwnTraces(v)
  <2>1. \A q \in Prompt : \A d \in Client : q <= w.asked /\ OwnedBy(w, q, d) => OwnedBy(v, q, d)
    <3>1. \A q \in Prompt : q <= w.asked =>
            /\ v.ops[v.prompts[q].op].kind = w.ops[w.prompts[q].op].kind
            /\ v.ops[v.prompts[q].op].client = w.ops[w.prompts[q].op].client
      BY <1>v, <1>1, <1>2, <1>w DEF QuestionsHeld
    <3>. QED
      BY <3>1 DEF OwnedBy
  <2>. QED
    BY <1>v, <1>15, <2>1 DEF Fine, Sound, OwnTraces
<1>17. ASSUME v.prompts[p].state = "expired" PROVE TracesLive(v)
  <2>1. \A d \in Client : \A q \in Prompt : LiveIn(w, d, q) => LiveIn(v, d, q)
    BY <1>v, <1>1, <1>3, <1>17 DEF LiveIn
  <2>. QED
    BY <1>v, <1>15, <2>1 DEF Fine, TracesLive
<1>18. BegunTo(v, b)
  <2>1. \A x \in Op : x > b => x # o
    BY <1>v, <1>w, OpenQuestion DEF o, QuestionsHeld, Fine, BegunTo, NoOp
  <2>. QED
    BY <1>v, <1>2, <2>1 DEF Fine, BegunTo
<1>. QED
  BY <1>v, <1>1, <1>3, <1>4, <1>7, <1>8, <1>9, <1>10, <1>11, <1>12, <1>13, <1>14, <1>16, <1>17, <1>18
     DEF Sound

LEMMA ExpireKeeps ==
  ASSUME PromptsInv, NEW p \in Prompt, Expire(p)
  PROVE  PromptsInv'
<1> DEFINE v == Resolved(World, {p}, "expired")
           o == prompts[p].op
<1>0. Others /\ Fine(World, begun) /\ begun \in Nat
  BY HostFacts DEF PromptsInv, Others
<1>1. Become(v) /\ UNCHANGED <<clients, panes, toHub, dialogs, phase, hostVars>>
  BY DEF Expire, peopleVars, hostVars
<1>2. World \in Worlds /\ QuestionsHeld(World) /\ ContextsOwned(World) /\ RoutesThere(World)
  BY <1>0 DEF Fine, Sound
<1>3. PendingIn(World, p) /\ World.prompts = prompts /\ World.ops = ops
  BY DEF Expire, PendingIn, World
<1>4. o \in Op /\ ops \in [Op -> Operation] /\ prompts \in [Prompt -> PromptRecord]
  BY <1>2, <1>3, OpenQuestion, WorldFields
<1>5. v = [World EXCEPT
            !.prompts = [q \in Prompt |-> IF q \in {p} THEN [prompts[q] EXCEPT !.state = "expired"]
                                            ELSE prompts[q]],
            !.ops = [x \in Op |-> IF \E q \in {p} : prompts[q].op = x
                                    THEN [ops[x] EXCEPT !.state = "cleared"] ELSE ops[x]]]
  BY <1>3 DEF Resolved
<1>6. [q \in Prompt |-> IF q \in {p} THEN [prompts[q] EXCEPT !.state = "expired"] ELSE prompts[q]]
        = [prompts EXCEPT ![p].state = "expired"]
  BY <1>4
<1>7. [x \in Op |-> IF \E q \in {p} : prompts[q].op = x
                      THEN [ops[x] EXCEPT !.state = "cleared"] ELSE ops[x]]
        = [ops EXCEPT ![o].state = "cleared"]
  BY <1>4
<1>8. v = [World EXCEPT !.prompts = [prompts EXCEPT ![p].state = "expired"],
                        !.ops = [ops EXCEPT ![o].state = "cleared"]]
  BY <1>5, <1>6, <1>7
<1>9. /\ [prompts EXCEPT ![p].state = "expired"] \in [Prompt -> PromptRecord]
      /\ [ops EXCEPT ![o].state = "cleared"] \in [Op -> Operation]
  <2>1. [prompts[p] EXCEPT !.state = "expired"] \in PromptRecord
    BY <1>4 DEF PromptRecord
  <2>2. [ops[o] EXCEPT !.state = "cleared"] \in Operation
    BY <1>4 DEF Operation
  <2>. QED
    BY <1>4, <2>1, <2>2
<1> HIDE DEF v, o
<1>10. /\ v.contexts = World.contexts /\ v.asked = World.asked /\ v.toClient = World.toClient
       /\ v.prompts = [prompts EXCEPT ![p].state = "expired"]
       /\ v.ops = [ops EXCEPT ![o].state = "cleared"]
       /\ v \in Worlds
  BY <1>2, <1>3, <1>8, <1>9 DEF Worlds
<1>a. /\ v.prompts[p].state = "expired"
      /\ \A q \in Prompt :
           /\ q # p => v.prompts[q].state = prompts[q].state
           /\ v.prompts[q].op = prompts[q].op /\ v.prompts[q].context = prompts[q].context
           /\ v.prompts[q].epoch = prompts[q].epoch /\ v.prompts[q].type = prompts[q].type
  BY <1>4, <1>10 DEF PromptRecord
<1>b. /\ v.ops[o].state = "cleared"
      /\ \A x \in Op : /\ x # o => v.ops[x] = ops[x]
                       /\ v.ops[x].kind = ops[x].kind /\ v.ops[x].client = ops[x].client
  BY <1>4, <1>10 DEF Operation
<1>c. ResolvedTo(World, p, v)
  BY <1>3, <1>10, <1>a, <1>b DEF ResolvedTo, o
<1>11. Fine(v, begun)
  BY <1>0, <1>3, <1>a, <1>c, ResolvedIsSound DEF Fine
<1>12. HostTypeOK' /\ HeldAreBegun' /\ panes' \subseteq clients /\ begun' = begun
  BY <1>0, <1>1, HostFacts DEF Others, HostTypeOK, HeldAreBegun, hostVars
<1>. QED
  BY <1>1, <1>11, <1>12, WorldStep
-----------------------------------------------------------------------------
(* What clients do.                                                        *)

(* The questions and their contexts are as they were.                      *)
LEMMA CoreStays ==
  ASSUME Fine(World, begun),
         UNCHANGED <<contexts, asked, prompts, ops, clients, begun>>,
         toClient' \in [Client -> SUBSET Message]
  PROVE  /\ (World \in Worlds)' /\ QuestionsHeld(World)' /\ WaitersAsk(World)'
         /\ ContextsOwned(World)' /\ RoutesThere(World)' /\ BegunTo(World, begun)'
<1>1. (World \in Worlds)'
  BY DEF Fine, Sound, World, Worlds
<1>2. QuestionsHeld(World)'
  BY DEF Fine, Sound, QuestionsHeld, PendingIn, ContextIn, World
<1>3. WaitersAsk(World)'
  BY DEF Fine, Sound, WaitersAsk, PendingIn, World
<1>4. ContextsOwned(World)' /\ RoutesThere(World)'
  BY DEF Fine, Sound, ContextsOwned, RoutesThere, World
<1>5. BegunTo(World, begun)'
  BY DEF Fine, BegunTo, World
<1>. QED
  BY <1>1, <1>2, <1>3, <1>4, <1>5

(* What is known of the state from the invariant of its world.             *)
LEMMA Facts ==
  ASSUME PromptsInv
  PROVE  /\ contexts \in [ContextId -> Context] /\ prompts \in [Prompt -> PromptRecord]
         /\ ops \in [Op -> Operation] /\ toClient \in [Client -> SUBSET Message]
         /\ asked \in Nat
         /\ \A c \in Client : \A m \in toClient[c] :
              m.id \in Prompt /\ m.id <= asked /\ c \in clients
         /\ \A c \in Client : \A t \in PromptType : \A d \in ShownAs(c, t) :
              d \in Dialog /\ d.id \in Prompt /\ d.id <= asked /\ c \in clients
         /\ \A c \in Client : \A a \in toHub[c] :
              a.id \in Prompt /\ a.id <= asked /\ c \in clients
<1>1. World \in Worlds /\ TracesKnown(World)
  BY DEF PromptsInv, Fine, Sound
<1>2. /\ World.contexts = contexts /\ World.prompts = prompts /\ World.ops = ops
      /\ World.toClient = toClient /\ World.asked = asked
  BY DEF World
<1>3. /\ contexts \in [ContextId -> Context] /\ prompts \in [Prompt -> PromptRecord]
      /\ ops \in [Op -> Operation] /\ toClient \in [Client -> SUBSET Message]
      /\ asked \in Nat
  BY <1>1, <1>2, WorldFields
<1>4. \A c \in Client : \A m \in toClient[c] : m.id \in Prompt
  BY <1>3, MessageKinds
<1>5. \A c \in Client : \A t \in PromptType : \A d \in ShownAs(c, t) :
        d \in Dialog /\ d.id \in Prompt
  BY DEF ShownAs, Elems, Dialog
<1>. QED
  BY <1>1, <1>2, <1>3, <1>4, <1>5 DEF TracesKnown

LEMMA DeliverAskKeeps ==
  ASSUME PromptsInv, NEW c \in Client, NEW m \in toClient[c], Deliver(c, m), m.type = "ask"
  PROVE  PromptsInv'
<1> DEFINE p == m.id
           d == [id |-> p, epoch |-> m.epoch]
           t0 == prompts[p].type
<1>0. Others /\ Fine(World, begun) /\ Sound(World)
  BY DEF PromptsInv, Others, Fine
<1>1. /\ p \in Prompt /\ p <= asked /\ c \in clients /\ m \in Message
      /\ m.epoch \in Nat /\ m = AskMsg(p, m.epoch)
  <2>1. m \in Message /\ p \in Prompt /\ p <= asked /\ c \in clients
    BY Facts
  <2>. QED
    BY <2>1, MessageKinds
<1>2. /\ d \in Dialog /\ d.id = p /\ d.epoch = m.epoch /\ t0 \in PromptType
  BY <1>1, Facts DEF Dialog, PromptRecord
<1>3. /\ toClient' = [toClient EXCEPT ![c] = toClient[c] \ {m}]
      /\ dialogs' = [dialogs EXCEPT ![c][t0] = Enqueued(dialogs[c][t0], d)]
      /\ UNCHANGED <<peopleVars, hostVars, contexts, asked, prompts, ops, toHub>>
  BY DEF Deliver
<1>u. /\ UNCHANGED <<contexts, asked, prompts, ops, toHub, clients, panes, phase, begun>>
      /\ UNCHANGED <<session, acq, leases, controller>>
  BY <1>3 DEF peopleVars, hostVars
<1> HIDE DEF d, t0, p
<1>4. \A e \in ShownAs(c, t0) : e.id # p
  BY <1>0, <1>2 DEF Sound, SentOnce, World, p
<1>5. /\ dialogs[c][t0] \in Seq(Dialog) /\ Unique(dialogs[c][t0])
      /\ dialogs \in [Client -> [PromptType -> Seq(Dialog)]]
  BY <1>0, <1>2 DEF Others, ShownOnce
<1>6. Enqueued(dialogs[c][t0], d) = Append(dialogs[c][t0], d)
  <2>1. \A k \in DOMAIN dialogs[c][t0] : dialogs[c][t0][k] \in ShownAs(c, t0)
    BY <1>5 DEF ShownAs, Elems
  <2>. QED
    BY <1>2, <1>4, <2>1 DEF Enqueued
<1>7. /\ Append(dialogs[c][t0], d) \in Seq(Dialog) /\ Unique(Append(dialogs[c][t0], d))
      /\ Elems(Append(dialogs[c][t0], d)) = ShownAs(c, t0) \cup {d}
  BY <1>2, <1>4, <1>5, QueueAppend DEF ShownAs
<1> DEFINE q == Append(dialogs[c][t0], d)
<1>8. dialogs' = [dialogs EXCEPT ![c][t0] = q]
  BY <1>3, <1>6
<1> HIDE DEF q
<1>9. /\ dialogs' \in [Client -> [PromptType -> Seq(Dialog)]]
      /\ dialogs'[c][t0] = q
      /\ \A x \in Client : \A t \in PromptType : x # c \/ t # t0 => dialogs'[x][t] = dialogs[x][t]
  BY <1>2, <1>5, <1>7, <1>8 DEF q
<1>10. /\ \A x \in Client : \A t \in PromptType : ShownAs(x, t)' = Elems(dialogs'[x][t])
       /\ Elems(dialogs'[c][t0]) = ShownAs(c, t0) \cup {d}
       /\ \A x \in Client : \A t \in PromptType :
            x # c \/ t # t0 => Elems(dialogs'[x][t]) = ShownAs(x, t)
  BY <1>7, <1>9 DEF ShownAs, q
<1>11. \A x \in Client : \A t \in PromptType : \A e \in ShownAs(x, t)' :
         e \in ShownAs(x, t) \/ (x = c /\ t = t0 /\ e = d)
  BY <1>10
<1>12. /\ toClient' \in [Client -> SUBSET Message]
       /\ toClient'[c] = toClient[c] \ {m}
       /\ \A x \in Client : x # c => toClient'[x] = toClient[x]
  BY <1>3, Facts
<1>13. \A x \in Client : toClient'[x] \subseteq toClient[x]
  BY <1>12
<1>14. /\ (World \in Worlds)' /\ QuestionsHeld(World)' /\ WaitersAsk(World)'
       /\ ContextsOwned(World)' /\ RoutesThere(World)' /\ BegunTo(World, begun)'
  BY <1>0, <1>u, <1>12, CoreStays
<1>15. TracesKnown(World)'
  BY <1>0, <1>1, <1>2, <1>u, <1>11, <1>13 DEF Sound, TracesKnown, World
<1>16. OpenIsCurrent(World)'
  <2> SUFFICES ASSUME NEW x \in Prompt, PendingIn(World, x), NEW b \in Client
               PROVE  /\ \A n \in toClient'[b] : n.id = x =>
                           b = RouteIn(World, x) /\ n = AskMsg(x, prompts[x].epoch)
                      /\ \A t \in PromptType : \A e \in ShownAs(b, t)' : e.id = x =>
                           b = RouteIn(World, x) /\ e.epoch = prompts[x].epoch
                      /\ \A a \in toHub[b] : a.id = x => b = RouteIn(World, x)
    BY <1>u DEF OpenIsCurrent, PendingIn, RouteIn, World
  <2>1. /\ \A n \in toClient[b] : n.id = x =>
             b = RouteIn(World, x) /\ n = AskMsg(x, prompts[x].epoch)
        /\ \A t \in PromptType : \A e \in ShownAs(b, t) : e.id = x =>
             b = RouteIn(World, x) /\ e.epoch = prompts[x].epoch
        /\ \A a \in toHub[b] : a.id = x => b = RouteIn(World, x)
    BY <1>0 DEF Sound, OpenIsCurrent, World
  <2>2. p = x /\ b = c => b = RouteIn(World, x) /\ m.epoch = prompts[x].epoch
    BY <2>1, MessageKinds DEF p
  <2>. QED
    BY <1>2, <1>11, <1>13, <2>1, <2>2
<1>17. SentOnce(World)'
  <2> SUFFICES ASSUME NEW b \in Client
               PROVE  /\ \A n, l \in toClient'[b] :
                           n.type = "ask" /\ l.type = "ask" /\ n.id = l.id => n = l
                      /\ \A n \in toClient'[b] : n.type = "ask" =>
                           /\ \A t \in PromptType : \A e \in ShownAs(b, t)' : e.id # n.id
                           /\ \A a \in toHub[b] : a.id # n.id
    BY <1>u DEF SentOnce, World
  <2>1. /\ \A n, l \in toClient[b] :
             n.type = "ask" /\ l.type = "ask" /\ n.id = l.id => n = l
        /\ \A n \in toClient[b] : n.type = "ask" =>
             /\ \A t \in PromptType : \A e \in ShownAs(b, t) : e.id # n.id
             /\ \A a \in toHub[b] : a.id # n.id
    BY <1>0 DEF Sound, SentOnce, World
  <2>2. \A n \in toClient'[b] : b = c /\ n.type = "ask" => n.id # p
    BY <1>12, <2>1 DEF p
  <2>. QED
    BY <1>2, <1>11, <1>13, <2>1, <2>2
<1>18. OpenIsShown(World)'
  <2> SUFFICES ASSUME NEW x \in Prompt, PendingIn(World, x)
               PROVE  \/ AskMsg(x, prompts[x].epoch) \in toClient'[RouteIn(World, x)]
                      \/ [id |-> x, epoch |-> prompts[x].epoch]
                           \in Elems(dialogs'[RouteIn(World, x)][prompts[x].type])
                      \/ \E a \in toHub[RouteIn(World, x)] :
                           a.id = x /\ a.epoch = prompts[x].epoch
    BY <1>u DEF OpenIsShown, PendingIn, RouteIn, World, ShownAs
  <2>1. \/ AskMsg(x, prompts[x].epoch) \in toClient[RouteIn(World, x)]
        \/ [id |-> x, epoch |-> prompts[x].epoch]
             \in ShownAs(RouteIn(World, x), prompts[x].type)
        \/ \E a \in toHub[RouteIn(World, x)] :
             a.id = x /\ a.epoch = prompts[x].epoch
    BY <1>0 DEF Sound, OpenIsShown, World
  <2>2. RouteIn(World, x) \in Client /\ prompts[x].type \in PromptType
    <3>1. RouteIn(World, x) \in Client
      BY <1>0, OpenQuestion, HostFacts DEF Sound
    <3>. QED
      BY <3>1, Facts DEF PromptRecord
  <2>3. CASE m = AskMsg(x, prompts[x].epoch) /\ RouteIn(World, x) = c
    <3>1. p = x /\ m.epoch = prompts[x].epoch
      BY <2>3, MessageKinds DEF p
    <3>2. d = [id |-> x, epoch |-> prompts[x].epoch] /\ t0 = prompts[x].type
      BY <3>1 DEF d, t0
    <3>. QED
      BY <1>10, <2>3, <3>2
  <2>4. CASE ~(m = AskMsg(x, prompts[x].epoch) /\ RouteIn(World, x) = c)
    BY <1>10, <1>12, <2>1, <2>2, <2>4
  <2>. QED
    BY <2>3, <2>4
<1>19. OwnTraces(World)'
  <2> DEFINE own(x, b) == ops[prompts[x].op].kind \in {"test", "elevation"} =>
                            ops[prompts[x].op].client = b
  <2>1. \A b \in Client : /\ \A n \in toClient[b] : own(n.id, b)
                          /\ \A t \in PromptType : \A e \in ShownAs(b, t) : own(e.id, b)
    BY <1>0 DEF Sound, OwnTraces, OwnedBy, World
  <2> HIDE DEF own
  <2>2. \A b \in Client : /\ \A n \in toClient'[b] : own(n.id, b)
                          /\ \A t \in PromptType : \A e \in ShownAs(b, t)' : own(e.id, b)
    BY <1>2, <1>11, <1>13, <2>1 DEF p
  <2>. QED
    BY <1>u, <2>2 DEF OwnTraces, OwnedBy, World, own
<1>20. TracesLive(World)'
  <2>1. \A x \in Prompt : \A b \in Client : LiveIn(World, b, x) => LiveIn(World, b, x)'
    BY <1>1, <1>u, <1>12, MessageKinds DEF LiveIn, PendingIn, World
  <2>2. \A b \in Client : /\ \A n \in toClient[b] : LiveIn(World, b, n.id)
                          /\ \A t \in PromptType : \A e \in ShownAs(b, t) : LiveIn(World, b, e.id)
    BY <1>0 DEF Fine, TracesLive, World
  <2>3. \A b \in Client : /\ \A n \in toClient'[b] : LiveIn(World, b, n.id)'
                          /\ \A t \in PromptType : \A e \in ShownAs(b, t)' : LiveIn(World, b, e.id)'
    BY <1>1, <1>2, <1>11, <1>13, <2>1, <2>2, Facts DEF p
  <2>. QED
    BY <2>3 DEF TracesLive, World, LiveIn, PendingIn
<1>21. ShownOnce'
  <2>1. \A b \in Client : \A t \in PromptType : Unique(dialogs'[b][t])
    BY <1>0, <1>7, <1>9 DEF Others, ShownOnce, q
  <2>2. \A b \in Client : \A t \in PromptType :
          \A e \in ShownAs(b, t)' : \A a \in toHub[b] : a.id # e.id
    <3>1. \A a \in toHub[c] : a.id # p
      BY <1>0 DEF Sound, SentOnce, World, p
    <3>. QED
      BY <1>0, <1>2, <1>11, <3>1 DEF Others, ShownOnce
  <2>3. \A b \in Client : \A t, u \in PromptType :
          \A e \in ShownAs(b, t)', f \in ShownAs(b, u)' : u # t => e.id # f.id
    <3>1. \A t \in PromptType : \A e \in ShownAs(c, t) : e.id # p
      BY <1>0 DEF Sound, SentOnce, World, p
    <3>. QED
      BY <1>0, <1>2, <1>11, <3>1 DEF Others, ShownOnce
  <2>. QED
    BY <1>u, <2>1, <2>2, <2>3 DEF ShownOnce
<1>22. Fine(World, begun)'
  BY <1>14, <1>15, <1>16, <1>17, <1>18, <1>19, <1>20 DEF Fine, Sound
<1>. QED
  BY <1>0, <1>u, <1>9, <1>21, <1>22
     DEF PromptsInv, Others, PeopleTypeOK, HostTypeOK, HeldAreBegun
LEMMA DeliverCancelKeeps ==
  ASSUME PromptsInv, NEW c \in Client, NEW m \in toClient[c], Deliver(c, m), m.type # "ask"
  PROVE  PromptsInv'
<1> DEFINE p == m.id
<1>0. Others /\ Fine(World, begun) /\ Sound(World)
  BY DEF PromptsInv, Others, Fine
<1>1. p \in Prompt /\ c \in clients /\ m = CancelMsg(p) /\ m.type = "cancel"
  <2>1. m \in Message /\ p \in Prompt /\ c \in clients
    BY Facts
  <2>. QED
    BY <2>1, MessageKinds
<1>2. \A n \in toClient[c] : n.id = p => n = m
  BY <1>1 DEF Deliver
<1>3. /\ toClient' = [toClient EXCEPT ![c] = toClient[c] \ {m}]
      /\ dialogs' = [dialogs EXCEPT ![c] = [t \in PromptType |-> WithoutId(dialogs[c][t], p)]]
      /\ UNCHANGED <<peopleVars, hostVars, contexts, asked, prompts, ops, toHub>>
  BY DEF Deliver
<1>u. /\ UNCHANGED <<contexts, asked, prompts, ops, toHub, clients, panes, phase, begun>>
      /\ UNCHANGED <<session, acq, leases, controller>>
  BY <1>3 DEF peopleVars, hostVars
<1> HIDE DEF p
<1>4. dialogs \in [Client -> [PromptType -> Seq(Dialog)]]
  BY <1>0 DEF Others
<1>5. \A t \in PromptType :
        /\ WithoutId(dialogs[c][t], p) \in Seq(Dialog) /\ Unique(WithoutId(dialogs[c][t], p))
        /\ Elems(WithoutId(dialogs[c][t], p)) = {e \in ShownAs(c, t) : e.id # p}
  <2> SUFFICES ASSUME NEW t \in PromptType
               PROVE  /\ WithoutId(dialogs[c][t], p) \in Seq(Dialog) /\ Unique(WithoutId(dialogs[c][t], p))
                      /\ Elems(WithoutId(dialogs[c][t], p)) = {e \in ShownAs(c, t) : e.id # p}
    OBVIOUS
  <2>1. dialogs[c][t] \in Seq(Dialog) /\ Unique(dialogs[c][t])
    BY <1>0, <1>4 DEF Others, ShownOnce
  <2>. QED
    BY <2>1, QueueWithout DEF ShownAs
<1>6. /\ dialogs' \in [Client -> [PromptType -> Seq(Dialog)]]
      /\ \A t \in PromptType : dialogs'[c][t] = WithoutId(dialogs[c][t], p)
      /\ \A x \in Client : x # c => dialogs'[x] = dialogs[x]
  BY <1>3, <1>4, <1>5
<1>7. /\ \A x \in Client : \A t \in PromptType : ShownAs(x, t)' = Elems(dialogs'[x][t])
      /\ \A t \in PromptType : Elems(dialogs'[c][t]) = {e \in ShownAs(c, t) : e.id # p}
      /\ \A x \in Client : \A t \in PromptType : x # c => Elems(dialogs'[x][t]) = ShownAs(x, t)
  BY <1>5, <1>6 DEF ShownAs
<1>8. \A x \in Client : \A t \in PromptType : \A e \in ShownAs(x, t)' :
        e \in ShownAs(x, t) /\ (x = c => e.id # p)
  BY <1>7
<1>9. /\ toClient' \in [Client -> SUBSET Message]
      /\ toClient'[c] = toClient[c] \ {m}
      /\ \A x \in Client : x # c => toClient'[x] = toClient[x]
  BY <1>3, Facts
<1>10. \A x \in Client : \A n \in toClient'[x] : n \in toClient[x] /\ (x = c => n.id # p)
  BY <1>2, <1>9
<1>11. ~PendingIn(World, p)
  <2> SUFFICES ASSUME PendingIn(World, p) PROVE FALSE
    OBVIOUS
  <2>1. m = AskMsg(p, prompts[p].epoch)
    BY <1>0, <1>1 DEF Sound, OpenIsCurrent, World, p
  <2>. QED
    BY <1>1, <2>1, MessageKinds
<1>12. /\ (World \in Worlds)' /\ QuestionsHeld(World)' /\ WaitersAsk(World)'
       /\ ContextsOwned(World)' /\ RoutesThere(World)' /\ BegunTo(World, begun)'
  BY <1>0, <1>u, <1>9, CoreStays
<1>13. TracesKnown(World)'
  BY <1>0, <1>u, <1>8, <1>10 DEF Sound, TracesKnown, World
<1>14. OpenIsCurrent(World)'
  <2>1. \A x \in Prompt : PendingIn(World, x) => \A b \in Client :
          /\ \A n \in toClient'[b] : n.id = x =>
               b = RouteIn(World, x) /\ n = AskMsg(x, prompts[x].epoch)
          /\ \A t \in PromptType : \A e \in ShownAs(b, t)' : e.id = x =>
               b = RouteIn(World, x) /\ e.epoch = prompts[x].epoch
          /\ \A a \in toHub[b] : a.id = x => b = RouteIn(World, x)
    BY <1>0, <1>8, <1>10 DEF Sound, OpenIsCurrent, World
  <2>. QED
    BY <1>u, <2>1 DEF OpenIsCurrent, PendingIn, RouteIn, World
<1>15. SentOnce(World)'
  BY <1>0, <1>u, <1>8, <1>10 DEF Sound, SentOnce, World
<1>16. OpenIsShown(World)'
  <2> SUFFICES ASSUME NEW x \in Prompt, PendingIn(World, x)
               PROVE  \/ AskMsg(x, prompts[x].epoch) \in toClient'[RouteIn(World, x)]
                      \/ [id |-> x, epoch |-> prompts[x].epoch]
                           \in Elems(dialogs'[RouteIn(World, x)][prompts[x].type])
                      \/ \E a \in toHub[RouteIn(World, x)] :
                           a.id = x /\ a.epoch = prompts[x].epoch
    BY <1>u DEF OpenIsShown, PendingIn, RouteIn, World, ShownAs
  <2>1. \/ AskMsg(x, prompts[x].epoch) \in toClient[RouteIn(World, x)]
        \/ [id |-> x, epoch |-> prompts[x].epoch]
             \in ShownAs(RouteIn(World, x), prompts[x].type)
        \/ \E a \in toHub[RouteIn(World, x)] :
             a.id = x /\ a.epoch = prompts[x].epoch
    BY <1>0 DEF Sound, OpenIsShown, World
  <2>2. RouteIn(World, x) \in Client /\ prompts[x].type \in PromptType
    <3>1. RouteIn(World, x) \in Client
      BY <1>0, OpenQuestion, HostFacts DEF Sound
    <3>. QED
      BY <3>1, Facts DEF PromptRecord
  <2>3. x # p
    BY <1>11
  <2>4. AskMsg(x, prompts[x].epoch) # m
    BY <1>1, MessageKinds
  <2>5. [id |-> x, epoch |-> prompts[x].epoch].id # p
    BY <2>3
  <2>. QED
    BY <1>7, <1>9, <2>1, <2>2, <2>4, <2>5
<1>17. OwnTraces(World)'
  <2> DEFINE own(x, b) == ops[prompts[x].op].kind \in {"test", "elevation"} =>
                            ops[prompts[x].op].client = b
  <2>1. \A b \in Client : /\ \A n \in toClient[b] : own(n.id, b)
                          /\ \A t \in PromptType : \A e \in ShownAs(b, t) : own(e.id, b)
    BY <1>0 DEF Sound, OwnTraces, OwnedBy, World
  <2> HIDE DEF own
  <2>2. \A b \in Client : /\ \A n \in toClient'[b] : own(n.id, b)
                          /\ \A t \in PromptType : \A e \in ShownAs(b, t)' : own(e.id, b)
    BY <1>8, <1>10, <2>1
  <2>. QED
    BY <1>u, <2>2 DEF OwnTraces, OwnedBy, World, own
<1>18. TracesLive(World)'
  <2>1. \A x \in Prompt : \A b \in Client :
          LiveIn(World, b, x) /\ (b = c => x # p) => LiveIn(World, b, x)'
    BY <1>1, <1>u, <1>9, MessageKinds DEF LiveIn, PendingIn, World
  <2>2. \A b \in Client : /\ \A n \in toClient[b] : LiveIn(World, b, n.id)
                          /\ \A t \in PromptType : \A e \in ShownAs(b, t) : LiveIn(World, b, e.id)
    BY <1>0 DEF Fine, TracesLive, World
  <2>3. \A b \in Client : /\ \A n \in toClient'[b] : LiveIn(World, b, n.id)'
                          /\ \A t \in PromptType : \A e \in ShownAs(b, t)' : LiveIn(World, b, e.id)'
    BY <1>8, <1>10, <2>1, <2>2, Facts
  <2>. QED
    BY <2>3 DEF TracesLive, World, LiveIn, PendingIn
<1>19. ShownOnce'
  <2>1. \A b \in Client : \A t \in PromptType : Unique(dialogs'[b][t])
    <3>1. \A t \in PromptType : Unique(dialogs'[c][t])
      BY <1>5, <1>6
    <3>2. \A b \in Client : \A t \in PromptType : b # c => Unique(dialogs'[b][t])
      BY <1>0, <1>6 DEF Others, ShownOnce
    <3>. QED
      BY <3>1, <3>2
  <2>2. \A b \in Client : \A t \in PromptType :
          /\ \A e \in ShownAs(b, t)' : \A a \in toHub[b] : a.id # e.id
          /\ \A u \in PromptType : \A e \in ShownAs(b, t)', f \in ShownAs(b, u)' :
               u # t => e.id # f.id
    BY <1>0, <1>8 DEF Others, ShownOnce
  <2>. QED
    BY <1>u, <2>1, <2>2 DEF ShownOnce
<1>20. Fine(World, begun)'
  BY <1>12, <1>13, <1>14, <1>15, <1>16, <1>17, <1>18 DEF Fine, Sound
<1>. QED
  BY <1>0, <1>u, <1>6, <1>19, <1>20
     DEF PromptsInv, Others, PeopleTypeOK, HostTypeOK, HeldAreBegun

LEMMA RespondKeeps ==
  ASSUME PromptsInv, NEW c \in Client, NEW type \in PromptType, NEW given \in BOOLEAN,
         Respond(c, type, given)
  PROVE  PromptsInv'
<1> DEFINE d == Head(dialogs[c][type])
           y == [id |-> d.id, type |-> type, epoch |-> d.epoch, given |-> given]
<1>0. Others /\ Fine(World, begun) /\ Sound(World)
  BY DEF PromptsInv, Others, Fine
<1>1. /\ dialogs[c][type] # <<>>
      /\ toHub' = [toHub EXCEPT ![c] = toHub[c] \cup {y}]
      /\ dialogs' = [dialogs EXCEPT ![c][type] = Tail(dialogs[c][type])]
      /\ UNCHANGED <<peopleVars, hostVars, askVars>>
  BY DEF Respond
<1>u. /\ UNCHANGED <<contexts, asked, prompts, ops, toClient, clients, panes, phase, begun>>
      /\ UNCHANGED <<session, acq, leases, controller>>
  BY <1>1 DEF peopleVars, hostVars, askVars
<1>2. /\ dialogs[c][type] \in Seq(Dialog) /\ Unique(dialogs[c][type])
      /\ dialogs \in [Client -> [PromptType -> Seq(Dialog)]]
      /\ toHub \in [Client -> SUBSET Answer]
  BY <1>0 DEF Others, ShownOnce
<1>3. /\ Tail(dialogs[c][type]) \in Seq(Dialog) /\ Unique(Tail(dialogs[c][type]))
      /\ d \in ShownAs(c, type)
      /\ Elems(Tail(dialogs[c][type])) = ShownAs(c, type) \ {d}
      /\ \A e \in Elems(Tail(dialogs[c][type])) : e.id # d.id
  BY <1>1, <1>2, QueueTail DEF ShownAs
<1> HIDE DEF d
<1>4. /\ d \in Dialog /\ d.id \in Prompt /\ d.id <= asked /\ c \in clients
  BY <1>3, Facts
<1>5. y \in Answer /\ y.id = d.id /\ y.epoch = d.epoch
  BY <1>4 DEF Answer, Dialog
<1> HIDE DEF y
<1> DEFINE q == Tail(dialogs[c][type])
<1>6. /\ dialogs' \in [Client -> [PromptType -> Seq(Dialog)]]
      /\ dialogs'[c][type] = q
      /\ \A x \in Client : \A t \in PromptType : x # c \/ t # type => dialogs'[x][t] = dialogs[x][t]
  <2>1. dialogs' = [dialogs EXCEPT ![c][type] = q] /\ q \in Seq(Dialog)
    BY <1>1, <1>3
  <2> HIDE DEF q
  <2>. QED
    BY <1>2, <2>1
<1>7. /\ \A x \in Client : \A t \in PromptType : ShownAs(x, t)' = Elems(dialogs'[x][t])
      /\ Elems(dialogs'[c][type]) = ShownAs(c, type) \ {d}
      /\ \A x \in Client : \A t \in PromptType :
           x # c \/ t # type => Elems(dialogs'[x][t]) = ShownAs(x, t)
  BY <1>3, <1>6 DEF ShownAs
<1>8. \A x \in Client : \A t \in PromptType : \A e \in ShownAs(x, t)' :
        e \in ShownAs(x, t) /\ (x = c => e.id # d.id)
  <2>1. \A t \in PromptType : t # type => \A e \in ShownAs(c, t) : e.id # d.id
    BY <1>0, <1>3 DEF Others, ShownOnce
  <2>2. \A e \in Elems(dialogs'[c][type]) : e \in ShownAs(c, type) /\ e.id # d.id
    BY <1>3, <1>6, <1>7
  <2>3. \A x \in Client : \A t \in PromptType : \A e \in Elems(dialogs'[x][t]) :
          e \in ShownAs(x, t) /\ (x = c => e.id # d.id)
    BY <1>7, <2>1, <2>2
  <2>. QED
    BY <1>7, <2>3
<1>9. /\ toHub' \in [Client -> SUBSET Answer]
      /\ toHub'[c] = toHub[c] \cup {y}
      /\ \A x \in Client : x # c => toHub'[x] = toHub[x]
  BY <1>1, <1>2, <1>5
<1>10. \A x \in Client : \A a \in toHub'[x] :
         a \in toHub[x] \/ (x = c /\ a = y /\ a.id = d.id /\ a.epoch = d.epoch)
  BY <1>5, <1>9
<1>11. toClient' \in [Client -> SUBSET Message]
  BY <1>u, Facts
<1>12. /\ (World \in Worlds)' /\ QuestionsHeld(World)' /\ WaitersAsk(World)'
       /\ ContextsOwned(World)' /\ RoutesThere(World)' /\ BegunTo(World, begun)'
  BY <1>0, <1>u, <1>11, CoreStays
<1>13. TracesKnown(World)'
  BY <1>0, <1>4, <1>u, <1>8, <1>10 DEF Sound, TracesKnown, World
<1>14. OpenIsCurrent(World)'
  <2>1. \A x \in Prompt : PendingIn(World, x) => \A b \in Client :
          /\ \A n \in toClient[b] : n.id = x =>
               b = RouteIn(World, x) /\ n = AskMsg(x, prompts[x].epoch)
          /\ \A t \in PromptType : \A e \in ShownAs(b, t)' : e.id = x =>
               b = RouteIn(World, x) /\ e.epoch = prompts[x].epoch
          /\ \A a \in toHub'[b] : a.id = x => b = RouteIn(World, x)
    BY <1>0, <1>3, <1>8, <1>10 DEF Sound, OpenIsCurrent, World
  <2>. QED
    BY <1>u, <2>1 DEF OpenIsCurrent, PendingIn, RouteIn, World
<1>15. SentOnce(World)'
  <2>1. \A b \in Client :
          /\ \A m, n \in toClient[b] :
               m.type = "ask" /\ n.type = "ask" /\ m.id = n.id => m = n
          /\ \A m \in toClient[b] : m.type = "ask" =>
               /\ \A t \in PromptType : \A e \in ShownAs(b, t)' : e.id # m.id
               /\ \A a \in toHub'[b] : a.id # m.id
    BY <1>0, <1>3, <1>8, <1>10 DEF Sound, SentOnce, World
  <2>. QED
    BY <1>u, <2>1 DEF SentOnce, World
<1>16. OpenIsShown(World)'
  <2> SUFFICES ASSUME NEW x \in Prompt, PendingIn(World, x)
               PROVE  \/ AskMsg(x, prompts[x].epoch) \in toClient[RouteIn(World, x)]
                      \/ [id |-> x, epoch |-> prompts[x].epoch]
                           \in Elems(dialogs'[RouteIn(World, x)][prompts[x].type])
                      \/ \E a \in toHub'[RouteIn(World, x)] :
                           a.id = x /\ a.epoch = prompts[x].epoch
    BY <1>u DEF OpenIsShown, PendingIn, RouteIn, World, ShownAs
  <2>1. \/ AskMsg(x, prompts[x].epoch) \in toClient[RouteIn(World, x)]
        \/ [id |-> x, epoch |-> prompts[x].epoch]
             \in ShownAs(RouteIn(World, x), prompts[x].type)
        \/ \E a \in toHub[RouteIn(World, x)] :
             a.id = x /\ a.epoch = prompts[x].epoch
    BY <1>0 DEF Sound, OpenIsShown, World
  <2>2. RouteIn(World, x) \in Client /\ prompts[x].type \in PromptType
    <3>1. RouteIn(World, x) \in Client
      BY <1>0, OpenQuestion, HostFacts DEF Sound
    <3>. QED
      BY <3>1, Facts DEF PromptRecord
  <2>3. CASE RouteIn(World, x) = c /\ d = [id |-> x, epoch |-> prompts[x].epoch]
    <3>1. y \in toHub'[RouteIn(World, x)] /\ y.id = x /\ y.epoch = prompts[x].epoch
      BY <1>5, <1>9, <2>3
    <3>. QED
      BY <3>1
  <2>4. CASE ~(RouteIn(World, x) = c /\ d = [id |-> x, epoch |-> prompts[x].epoch])
    BY <1>7, <1>9, <2>1, <2>2, <2>4
  <2>. QED
    BY <2>3, <2>4
<1>17. OwnTraces(World)'
  BY <1>0, <1>u, <1>8 DEF Sound, OwnTraces, OwnedBy, World
<1>18. TracesLive(World)'
  BY <1>0, <1>u, <1>8 DEF Fine, TracesLive, LiveIn, PendingIn, World
<1>19. ShownOnce'
  <2>1. \A b \in Client : \A t \in PromptType : Unique(dialogs'[b][t])
    BY <1>0, <1>3, <1>6 DEF Others, ShownOnce
  <2>2. \A b \in Client : \A t \in PromptType :
          /\ \A e \in ShownAs(b, t)' : \A a \in toHub'[b] : a.id # e.id
          /\ \A u \in PromptType : \A e \in ShownAs(b, t)', f \in ShownAs(b, u)' :
               u # t => e.id # f.id
    BY <1>0, <1>8, <1>10 DEF Others, ShownOnce
  <2>. QED
    BY <1>u, <2>1, <2>2 DEF ShownOnce
<1>20. Fine(World, begun)'
  BY <1>12, <1>13, <1>14, <1>15, <1>16, <1>17, <1>18 DEF Fine, Sound
<1>. QED
  BY <1>0, <1>u, <1>6, <1>9, <1>19, <1>20
     DEF PromptsInv, Others, PeopleTypeOK, HostTypeOK, HeldAreBegun

LEMMA HandleResponseKeeps ==
  ASSUME PromptsInv, NEW c \in Client, NEW a \in toHub[c], HandleResponse(c, a)
  PROVE  PromptsInv'
<1> DEFINE p == a.id
<1>0. Others /\ Fine(World, begun) /\ Sound(World) /\ toHub \in [Client -> SUBSET Answer]
  BY DEF PromptsInv, Others, Fine
<1>p. p \in Prompt
  BY Facts
<1>1. /\ toHub' = [toHub EXCEPT ![c] = toHub[c] \ {a}]
      /\ UNCHANGED <<clients, panes, phase, begun, session, acq, leases, controller>>
      /\ UNCHANGED <<contexts, asked, toClient, dialogs>>
  BY DEF HandleResponse, peopleVars, hostVars
<1>2. /\ toHub' \in [Client -> SUBSET Answer]
      /\ toHub'[c] = toHub[c] \ {a}
      /\ \A x \in Client : toHub'[x] \subseteq toHub[x] /\ (x # c => toHub'[x] = toHub[x])
  BY <1>0, <1>1
<1>3. /\ World.prompts = prompts /\ World.ops = ops /\ World.contexts = contexts
      /\ World.toClient = toClient /\ World.asked = asked /\ World \in Worlds
  BY <1>0 DEF World, Sound
<1>4. \A b, t : ShownAs(b, t)' = ShownAs(b, t)
  BY <1>1 DEF ShownAs
<1>5. ShownOnce'
  BY <1>0, <1>1, <1>2, <1>4 DEF Others, ShownOnce
<1>6. ASSUME Fine(World, begun)' PROVE PromptsInv'
  BY <1>0, <1>1, <1>2, <1>5, <1>6
     DEF PromptsInv, Others, PeopleTypeOK, HostTypeOK, HeldAreBegun
<1>7. CASE ~Accepts(c, a)
  <2>1. Become(World)
    BY <1>1, <1>7 DEF Become, World, HandleResponse
  <2>2. \A x \in Prompt : PendingIn(World, x) => \A b \in toHub[RouteIn(World, x)] :
          b.id = x /\ b.epoch = World.prompts[x].epoch => b \in toHub'[RouteIn(World, x)]
    <3> SUFFICES ASSUME NEW x \in Prompt, PendingIn(World, x), NEW b \in toHub[RouteIn(World, x)],
                        b.id = x, b.epoch = prompts[x].epoch, b \notin toHub'[RouteIn(World, x)]
                 PROVE  FALSE
      BY <1>3
    <3>1. RouteIn(World, x) \in Client /\ contexts[prompts[x].context] # NoContext
      BY <1>0, <1>3, OpenQuestion, HostFacts DEF Sound
    <3>2. RouteIn(World, x) = c /\ b = a
      BY <1>2, <3>1
    <3>. QED
      BY <1>3, <1>7, <3>1, <3>2 DEF Accepts, PendingIn, RouteIn
  <2>3. Sound(World)' /\ TracesLive(World)' /\ BegunTo(World, begun)'
    BY <1>0, <1>1, <1>2, <2>1, <2>2, Becomes DEF Fine
  <2>. QED
    BY <1>6, <2>3 DEF Fine
<1>8. CASE Accepts(c, a)
  <2> DEFINE s == IF a.given THEN "running" ELSE "refused"
             v == [World EXCEPT !.prompts = [prompts EXCEPT ![p].state = "answered"],
                                !.ops = [ops EXCEPT ![prompts[p].op].state = s]]
  <2>1. /\ PendingIn(World, p) /\ RouteIn(World, p) = c
    BY <1>3, <1>8 DEF Accepts, PendingIn, RouteIn
  <2>2. /\ prompts' = [prompts EXCEPT ![p].state = "answered"]
        /\ ops' = [ops EXCEPT ![prompts[p].op].state = s]
    BY <1>8 DEF HandleResponse
  <2>3. prompts[p].op \in Op /\ s \in {"running", "refused", "cleared"}
    BY <1>0, <1>3, <1>p, <2>1, OpenQuestion DEF Sound
  <2>s. s \in {"running", "refused", "done"}
    OBVIOUS
  <2> HIDE DEF s, p
  <2>4. prompts' \in [Prompt -> PromptRecord] /\ ops' \in [Op -> Operation]
    <3>1. [prompts[p] EXCEPT !.state = "answered"] \in PromptRecord
      BY <1>p, Facts DEF PromptRecord
    <3>2. [ops[prompts[p].op] EXCEPT !.state = s] \in Operation
      BY <2>3, <2>s, Facts DEF Operation
    <3>. QED
      BY <1>p, <2>2, <2>3, <3>1, <3>2, Facts
  <2>5. /\ v.contexts = World.contexts /\ v.asked = World.asked /\ v.toClient = World.toClient
        /\ v \in Worlds
        /\ v.prompts = prompts' /\ v.ops = ops'
    BY <1>3, <2>2, <2>4 DEF Worlds
  <2> HIDE DEF v
  <2>a. /\ v.prompts[p].state = "answered"
        /\ \A q \in Prompt :
             /\ q # p => v.prompts[q].state = prompts[q].state
             /\ v.prompts[q].op = prompts[q].op /\ v.prompts[q].context = prompts[q].context
             /\ v.prompts[q].epoch = prompts[q].epoch /\ v.prompts[q].type = prompts[q].type
    BY <1>p, <2>2, <2>5, Facts DEF PromptRecord
  <2>b. /\ v.ops[prompts[p].op].state = s
        /\ \A x \in Op : /\ x # prompts[p].op => v.ops[x] = ops[x]
                         /\ v.ops[x].kind = ops[x].kind /\ v.ops[x].client = ops[x].client
    BY <2>2, <2>3, <2>5, Facts DEF Operation
  <2>c. ResolvedTo(World, p, v)
    BY <1>3, <2>3, <2>5, <2>a, <2>b DEF ResolvedTo
  <2>6. /\ Sound(v) /\ BegunTo(v, begun)
        /\ \A q \in Prompt : PendingIn(v, q) <=> PendingIn(World, q) /\ q # p
        /\ \A q \in Prompt : RouteIn(v, q) = RouteIn(World, q)
    <3>1. begun \in Nat
      BY <1>0, HostFacts
    <3>. QED
      BY <1>0, <1>p, <2>1, <2>c, <3>1, ResolvedIsSound
  <2>7. Become(v)
    BY <1>1, <1>3, <2>5 DEF Become
  <2>8. \A x \in Prompt : PendingIn(v, x) => \A b \in toHub[RouteIn(v, x)] :
          b.id = x /\ b.epoch = v.prompts[x].epoch => b \in toHub'[RouteIn(v, x)]
    <3> SUFFICES ASSUME NEW x \in Prompt, PendingIn(v, x), NEW b \in toHub[RouteIn(v, x)],
                        b.id = x
                 PROVE  b \in toHub'[RouteIn(v, x)]
      OBVIOUS
    <3>1. PendingIn(World, x) /\ x # p /\ RouteIn(v, x) = RouteIn(World, x)
      BY <2>6
    <3>2. RouteIn(World, x) \in Client
      BY <1>0, <3>1, OpenQuestion, HostFacts DEF Sound
    <3>. QED
      BY <1>2, <3>1, <3>2 DEF p
  <2>9. Sound(World)' /\ BegunTo(World, begun)'
    BY <1>1, <1>2, <2>6, <2>7, <2>8, Becomes
  <2>10. \A b \in Client :
           /\ \A m \in toClient[b] : m.id # p
           /\ \A t \in PromptType : \A e \in ShownAs(b, t) : e.id # p
    <3>1. \A b \in Client :
           /\ \A m \in toClient[b] : m.id = p => b = c /\ m.type = "ask"
           /\ \A t \in PromptType : \A e \in ShownAs(b, t) : e.id = p => b = c
      BY <1>0, <1>3, <1>p, <2>1, MessageKinds DEF Sound, OpenIsCurrent
    <3>2. \A m \in toClient[c] : m.type = "ask" => m.id # p
      BY <1>0, <1>3 DEF Sound, SentOnce, p
    <3>3. \A t \in PromptType : \A e \in ShownAs(c, t) : e.id # p
      BY <1>0 DEF Others, ShownOnce, p
    <3>. QED
      BY <3>1, <3>2, <3>3
  <2>11. TracesLive(World)'
    <3>1. \A b \in Client : \A x \in Prompt : x # p /\ LiveIn(World, b, x) => LiveIn(World, b, x)'
      <4>1. \A x \in Prompt : x # p => prompts'[x] = prompts[x]
        BY <1>p, <2>2, Facts
      <4>. QED
        BY <1>1, <4>1 DEF LiveIn, PendingIn, World
    <3>2. \A b \in Client : /\ \A n \in toClient[b] : LiveIn(World, b, n.id)
                            /\ \A t \in PromptType : \A e \in ShownAs(b, t) : LiveIn(World, b, e.id)
      BY <1>0, <1>3 DEF Fine, TracesLive
    <3>3. \A b \in Client : /\ \A n \in toClient'[b] : LiveIn(World, b, n.id)'
                            /\ \A t \in PromptType : \A e \in ShownAs(b, t)' : LiveIn(World, b, e.id)'
      BY <1>1, <1>4, <2>10, <3>1, <3>2, Facts
    <3>. QED
      BY <3>3 DEF TracesLive, World, LiveIn, PendingIn
  <2>. QED
    BY <1>6, <2>9, <2>11 DEF Fine
<1>. QED
  BY <1>7, <1>8

-----------------------------------------------------------------------------
(* A client leaves.                                                        *)

(* The questions that move with the contexts is.                           *)
MovesWith(w, is, p) == PendingIn(w, p) /\ w.prompts[p].context \in is

(* retarget, field by field, for the contexts is.                          *)
RetargetedTo(w, is, to, r) ==
  /\ r \in Worlds
  /\ r.asked = w.asked /\ r.ops = w.ops
  /\ \A i \in ContextId :
       /\ i \notin is => r.contexts[i] = w.contexts[i]
       /\ i \in is => r.contexts[i].kind = w.contexts[i].kind /\ r.contexts[i].route = to[i]
  /\ \A p \in Prompt :
       /\ r.prompts[p].context = w.prompts[p].context
       /\ r.prompts[p].op = w.prompts[p].op
       /\ r.prompts[p].type = w.prompts[p].type
       /\ r.prompts[p].state = w.prompts[p].state
       /\ r.prompts[p].epoch = IF MovesWith(w, is, p) THEN w.prompts[p].epoch + 1
                                 ELSE w.prompts[p].epoch
  /\ \A c \in Client : r.toClient[c] =
       w.toClient[c] \cup {AskMsg(p, w.prompts[p].epoch + 1) :
         p \in {q \in Prompt : MovesWith(w, is, q) /\ to[w.prompts[q].context] = c}}

LEMMA RetargetFields ==
  ASSUME NEW w \in Worlds, NEW is \in SUBSET ContextId, NEW to \in [is -> Client]
  PROVE  RetargetedTo(w, is, to, retarget(w, to))
<1> DEFINE r == retarget(w, to)
           ps == InFlight(w, DOMAIN to)
           asks(c) == {[type |-> "ask", id |-> p, epoch |-> w.prompts[p].epoch + 1] :
                         p \in {q \in ps : to[w.prompts[q].context] = c}}
           ctx == [i \in ContextId |-> IF i \in DOMAIN to
                     THEN [w.contexts[i] EXCEPT !.route = to[i]] ELSE w.contexts[i]]
           pr == [p \in Prompt |-> IF p \in ps
                    THEN [w.prompts[p] EXCEPT !.epoch = w.prompts[p].epoch + 1]
                    ELSE w.prompts[p]]
           msgs == [c \in Client |-> w.toClient[c] \cup asks(c)]
<1>0. DOMAIN to = is
  OBVIOUS
<1>1. \A p \in Prompt : p \in ps <=> MovesWith(w, is, p)
  BY <1>0 DEF InFlight, MovesWith, PendingIn
<1>2. r = [w EXCEPT !.contexts = ctx, !.prompts = pr, !.toClient = msgs]
  BY DEF retarget
<1> HIDE DEF r, ctx, pr, msgs
<1>3. r = [contexts |-> ctx, asked |-> w.asked, prompts |-> pr, ops |-> w.ops, toClient |-> msgs]
  BY <1>2 DEF Worlds
<1>4. r.contexts = ctx /\ r.asked = w.asked /\ r.prompts = pr /\ r.ops = w.ops /\ r.toClient = msgs
  BY <1>3
<1>5. /\ ctx \in [ContextId -> Context]
      /\ \A i \in ContextId :
           /\ i \notin is => ctx[i] = w.contexts[i]
           /\ i \in is => ctx[i].kind = w.contexts[i].kind /\ ctx[i].route = to[i]
  BY <1>0, WorldFields DEF ctx, Context
<1>6. /\ pr \in [Prompt -> PromptRecord]
      /\ \A p \in Prompt :
           /\ pr[p].context = w.prompts[p].context /\ pr[p].op = w.prompts[p].op
           /\ pr[p].type = w.prompts[p].type /\ pr[p].state = w.prompts[p].state
           /\ pr[p].epoch = IF p \in ps THEN w.prompts[p].epoch + 1 ELSE w.prompts[p].epoch
  <2> HIDE DEF ps
  <2>1. \A p \in Prompt : [w.prompts[p] EXCEPT !.epoch = w.prompts[p].epoch + 1] \in PromptRecord
    BY WorldFields DEF PromptRecord
  <2>2. pr \in [Prompt -> PromptRecord]
    BY <2>1, WorldFields DEF pr
  <2>. QED
    BY <2>2, WorldFields DEF pr, PromptRecord
<1>7. \A c \in Client : asks(c) = {AskMsg(p, w.prompts[p].epoch + 1) :
         p \in {q \in Prompt : MovesWith(w, is, q) /\ to[w.prompts[q].context] = c}}
  BY <1>0 DEF InFlight, MovesWith, PendingIn, AskMsg
<1>8. \A c \in Client : asks(c) \subseteq Message
  <2>1. \A p \in Prompt : AskMsg(p, w.prompts[p].epoch + 1) \in Message
    <3>1. \A p \in Prompt : w.prompts[p].epoch + 1 \in Nat
      BY WorldFields DEF PromptRecord
    <3>. QED
      BY <3>1, MessageKinds
  <2> SUFFICES ASSUME NEW c \in Client, NEW m \in asks(c) PROVE m \in Message
    OBVIOUS
  <2>2. PICK p \in Prompt : m = AskMsg(p, w.prompts[p].epoch + 1)
    BY <1>7
  <2>. QED
    BY <2>1, <2>2
<1> HIDE DEF asks, ps
<1>9. msgs \in [Client -> SUBSET Message] /\ \A c \in Client : msgs[c] = w.toClient[c] \cup asks(c)
  BY <1>8, WorldFields DEF msgs
<1>10. r \in Worlds
  BY <1>3, <1>5, <1>6, <1>9, WorldFields DEF Worlds
<1>11. \A p \in Prompt :
       /\ r.prompts[p].context = w.prompts[p].context
       /\ r.prompts[p].op = w.prompts[p].op
       /\ r.prompts[p].type = w.prompts[p].type
       /\ r.prompts[p].state = w.prompts[p].state
       /\ r.prompts[p].epoch = IF MovesWith(w, is, p) THEN w.prompts[p].epoch + 1
                                 ELSE w.prompts[p].epoch
  BY <1>1, <1>4, <1>6
<1>12. \A c \in Client : r.toClient[c] =
       w.toClient[c] \cup {AskMsg(p, w.prompts[p].epoch + 1) :
         p \in {q \in Prompt : MovesWith(w, is, q) /\ to[w.prompts[q].context] = c}}
  BY <1>4, <1>7, <1>9
<1>. QED
  BY <1>4, <1>5, <1>10, <1>11, <1>12 DEF RetargetedTo, r

(* The contexts of a client, those of them that go to another one, and to  *)
(* whom; the questions that end with it and those that move.               *)
Mine(c) == {i \in ContextId : contexts[i] # NoContext /\ contexts[i].route = c}

Moved(c) == {i \in Mine(c) : RouteCandidates(World, i, c) # {}}

MovedTo(c) == [i \in Moved(c) |-> Oldest(RouteCandidates(World, i, c))]

Ending(c, p) == PendingIn(World, p) /\ prompts[p].context \in Mine(c) \ Moved(c)

Moving(c, p) == PendingIn(World, p) /\ prompts[p].context \in Moved(c)

(* They go to a client that stays, and are no test's and no elevation's.   *)
LEMMA MovesToOther ==
  ASSUME Others, NEW c
  PROVE  /\ Mine(c) \subseteq ContextId /\ Moved(c) \subseteq Mine(c)
         /\ MovedTo(c) \in [Moved(c) -> Client]
         /\ \A i \in Moved(c) : MovedTo(c)[i] \in clients /\ MovedTo(c)[i] # c
                                /\ contexts[i].kind = "session"
<1>1. \A i \in Moved(c) : /\ RouteCandidates(World, i, c) \subseteq clients \ {c}
                          /\ RouteCandidates(World, i, c) # {}
                          /\ contexts[i].kind = "session"
  BY DEF Moved, RouteCandidates, World
<1>2. clients \subseteq Client
  BY HostFacts
<1>3. \A i \in Moved(c) : Oldest(RouteCandidates(World, i, c)) \in clients \ {c}
  <2> SUFFICES ASSUME NEW i \in Moved(c)
               PROVE  Oldest(RouteCandidates(World, i, c)) \in clients \ {c}
    OBVIOUS
  <2>1. RouteCandidates(World, i, c) \in SUBSET Client
    BY <1>1, <1>2
  <2>2. Oldest(RouteCandidates(World, i, c)) \in RouteCandidates(World, i, c)
    BY <1>1, <2>1, OldestIsOne
  <2>. QED
    BY <1>1, <2>2
<1>. QED
  BY <1>1, <1>2, <1>3 DEF Mine, Moved, MovedTo

(* What a client that leaves leaves behind.                                *)
LEMMA LeaveFields ==
  ASSUME PromptsInv, NEW c \in Client, Leave(c)
  PROVE  /\ (World \in Worlds)' /\ BegunTo(World, begun)' /\ asked' = asked
         /\ \A i \in ContextId :
              /\ i \in Mine(c) \ Moved(c) => contexts'[i] = NoContext
              /\ i \in Moved(c) => /\ contexts'[i].kind = contexts[i].kind
                                   /\ contexts'[i].route = MovedTo(c)[i]
              /\ i \notin Mine(c) => contexts'[i] = contexts[i]
         /\ \A p \in Prompt :
              /\ prompts'[p].context = prompts[p].context
              /\ prompts'[p].op = prompts[p].op
              /\ prompts'[p].type = prompts[p].type
              /\ prompts'[p].state = IF Ending(c, p) THEN "cleared" ELSE prompts[p].state
              /\ prompts'[p].epoch = IF Moving(c, p) THEN prompts[p].epoch + 1
                                       ELSE prompts[p].epoch
         /\ \A o \in Op :
              /\ ops'[o].kind = ops[o].kind
              /\ ops'[o].client = ops[o].client
              /\ ops'[o].state = IF \E p \in Prompt : Ending(c, p) /\ prompts[p].op = o
                                   THEN "cleared" ELSE ops[o].state
         /\ toClient'[c] = {}
         /\ \A d \in Client : d # c => toClient'[d] =
              toClient[d] \cup {AskMsg(p, prompts[p].epoch + 1) :
                p \in {q \in Prompt : Moving(c, q) /\ MovedTo(c)[prompts[q].context] = d}}
<1> DEFINE r == retarget(World, MovedTo(c))
           is == Mine(c) \ Moved(c)
           v == clearContexts(r, is, TRUE)
<1>0. Others /\ Fine(World, begun) /\ World \in Worlds /\ QuestionsHeld(World) /\ begun \in Nat
  BY HostFacts DEF PromptsInv, Others, Fine, Sound
<1>1. /\ World.contexts = contexts /\ World.prompts = prompts /\ World.ops = ops
      /\ World.toClient = toClient /\ World.asked = asked
  BY DEF World
<1>2. /\ Moved(c) \in SUBSET ContextId /\ MovedTo(c) \in [Moved(c) -> Client]
      /\ is \in SUBSET ContextId /\ Moved(c) \subseteq Mine(c)
      /\ \A i \in Moved(c) : contexts[i].kind = "session"
  BY <1>0, MovesToOther
<1>3. clientDisconnect(World, c) = v
  BY <1>1 DEF clientDisconnect, Mine, Moved, MovedTo
<1>4. RetargetedTo(World, Moved(c), MovedTo(c), r)
  BY <1>0, <1>2, RetargetFields
<1> HIDE DEF r
<1>5. /\ r \in Worlds /\ r.asked = asked /\ r.ops = ops
      /\ \A i \in ContextId :
           /\ i \notin Moved(c) => r.contexts[i] = contexts[i]
           /\ i \in Moved(c) => /\ r.contexts[i].kind = contexts[i].kind
                                /\ r.contexts[i].route = MovedTo(c)[i]
      /\ \A p \in Prompt :
           /\ r.prompts[p].context = prompts[p].context
           /\ r.prompts[p].op = prompts[p].op
           /\ r.prompts[p].type = prompts[p].type
           /\ r.prompts[p].state = prompts[p].state
           /\ r.prompts[p].epoch = IF Moving(c, p) THEN prompts[p].epoch + 1
                                     ELSE prompts[p].epoch
      /\ \A d \in Client : r.toClient[d] =
           toClient[d] \cup {AskMsg(p, prompts[p].epoch + 1) :
             p \in {q \in Prompt : Moving(c, q) /\ MovedTo(c)[prompts[q].context] = d}}
  BY <1>1, <1>4 DEF RetargetedTo, MovesWith, Moving
<1>6. \A p \in Prompt : PendingIn(r, p) <=> PendingIn(World, p)
  BY <1>1, <1>5 DEF PendingIn
<1>7. QuestionsHeld(r)
  <2>1. \A o \in Op : ContextIn(r, o) = ContextIn(World, o)
    BY <1>1, <1>5 DEF ContextIn
  <2>2. \A i \in ContextId : contexts[i] # NoContext => r.contexts[i] # NoContext
    BY <1>2, <1>5 DEF NoContext
  <2>3. \A p \in Prompt : p > r.asked => ~PendingIn(r, p)
    BY <1>0, <1>1, <1>5, <1>6 DEF QuestionsHeld
  <2>4. \A p \in Prompt : p <= r.asked =>
          r.prompts[p].op \in Op /\ r.ops[r.prompts[p].op].kind # "none"
    BY <1>0, <1>1, <1>5 DEF QuestionsHeld
  <2>5. \A p \in Prompt : PendingIn(r, p) =>
          /\ r.ops[r.prompts[p].op].state = "asking"
          /\ r.prompts[p].context = ContextIn(r, r.prompts[p].op)
          /\ r.contexts[r.prompts[p].context] # NoContext
    <3> SUFFICES ASSUME NEW p \in Prompt, PendingIn(World, p)
                 PROVE  /\ r.ops[r.prompts[p].op].state = "asking"
                        /\ r.prompts[p].context = ContextIn(r, r.prompts[p].op)
                        /\ r.contexts[r.prompts[p].context] # NoContext
      BY <1>6
    <3>1. /\ prompts[p].op \in Op /\ prompts[p].context \in ContextId
          /\ contexts[prompts[p].context] # NoContext
      BY <1>0, <1>1, OpenQuestion DEF Fine, Sound
    <3>. QED
      BY <1>0, <1>1, <1>5, <2>1, <2>2, <3>1 DEF QuestionsHeld
  <2>6. \A p, q \in Prompt :
          PendingIn(r, p) /\ PendingIn(r, q) /\ r.prompts[p].op = r.prompts[q].op => p = q
    BY <1>0, <1>1, <1>5, <1>6 DEF QuestionsHeld
  <2>. QED
    BY <2>3, <2>4, <2>5, <2>6 DEF QuestionsHeld
<1>8. BegunTo(r, begun)
  <2>1. \A o \in Op : contexts[o] = NoContext => r.contexts[o] = NoContext
    BY <1>2, <1>5, Ids DEF NoContext
  <2>. QED
    BY <1>0, <1>1, <1>5, <2>1 DEF Fine, BegunTo
<1> HIDE DEF is
<1>9. ClearedTo(r, is, TRUE, v) /\ BegunTo(v, begun)
  BY <1>0, <1>2, <1>5, <1>7, <1>8, ClearFields, ClearBegins
<1> HIDE DEF v
<1>10. \A p \in Prompt : GoneWith(r, is, p) <=> Ending(c, p)
  BY <1>5, <1>6 DEF GoneWith, Ending, is
<1>11. /\ v \in Worlds /\ v.asked = asked
       /\ \A i \in ContextId : v.contexts[i] = IF i \in is THEN NoContext ELSE r.contexts[i]
       /\ \A p \in Prompt :
            /\ v.prompts[p].context = prompts[p].context
            /\ v.prompts[p].op = prompts[p].op
            /\ v.prompts[p].type = prompts[p].type
            /\ v.prompts[p].epoch = r.prompts[p].epoch
            /\ v.prompts[p].state = IF Ending(c, p) THEN "cleared" ELSE prompts[p].state
  BY <1>5, <1>9, <1>10 DEF ClearedTo
<1>12. \A o \in Op :
         /\ v.ops[o].kind = ops[o].kind
         /\ v.ops[o].client = ops[o].client
         /\ v.ops[o].state = IF \E p \in Prompt : Ending(c, p) /\ prompts[p].op = o
                               THEN "cleared" ELSE ops[o].state
  <2>1. \A o \in Op : (\E p \in Prompt : GoneWith(r, is, p) /\ r.prompts[p].op = o)
                        <=> \E p \in Prompt : Ending(c, p) /\ prompts[p].op = o
    BY <1>5, <1>10
  <2>. QED
    BY <1>5, <1>9, <2>1 DEF ClearedTo
<1>13. \A p \in Prompt : GoneWith(r, is, p) => RouteIn(r, p) = c
  BY <1>2, <1>5, <1>10 DEF RouteIn, Ending, Mine
<1>14. \A d \in Client : d # c => v.toClient[d] = r.toClient[d]
  <2> SUFFICES ASSUME NEW d \in Client, d # c PROVE v.toClient[d] = r.toClient[d]
    OBVIOUS
  <2>1. {q \in Prompt : GoneWith(r, is, q) /\ RouteIn(r, q) = d} = {}
    BY <1>13
  <2>2. {CancelMsg(p) : p \in {q \in Prompt : GoneWith(r, is, q) /\ RouteIn(r, q) = d}} = {}
    BY <2>1
  <2>3. v.toClient[d] = r.toClient[d] \cup (IF d \in clients
          THEN {CancelMsg(p) : p \in {q \in Prompt : GoneWith(r, is, q) /\ RouteIn(r, q) = d}}
          ELSE {})
    BY <1>9 DEF ClearedTo
  <2>. QED
    BY <2>2, <2>3
<1>15. Become([v EXCEPT !.toClient[c] = {}]) /\ begun' = begun
  BY <1>3 DEF Leave, hostVars
<1>16. /\ contexts' = v.contexts /\ asked' = v.asked /\ prompts' = v.prompts /\ ops' = v.ops
       /\ toClient' = [v.toClient EXCEPT ![c] = {}]
  BY <1>11, <1>15 DEF Become, Worlds
<1>17. /\ toClient'[c] = {} /\ \A d \in Client : d # c => toClient'[d] = v.toClient[d]
       /\ toClient' \in [Client -> SUBSET Message]
  BY <1>11, <1>16, WorldFields
<1>18. (World \in Worlds)'
  BY <1>11, <1>16, <1>17, WorldFields DEF World, Worlds
<1>19. BegunTo(World, begun)'
  BY <1>9, <1>15, <1>16 DEF BegunTo, World
<1>20. \A i \in ContextId :
              /\ i \in Mine(c) \ Moved(c) => contexts'[i] = NoContext
              /\ i \in Moved(c) => /\ contexts'[i].kind = contexts[i].kind
                                   /\ contexts'[i].route = MovedTo(c)[i]
              /\ i \notin Mine(c) => contexts'[i] = contexts[i]
  BY <1>2, <1>5, <1>11, <1>16 DEF is
<1>21. \A p \in Prompt :
         /\ prompts'[p].context = prompts[p].context
         /\ prompts'[p].op = prompts[p].op
         /\ prompts'[p].type = prompts[p].type
         /\ prompts'[p].state = IF Ending(c, p) THEN "cleared" ELSE prompts[p].state
         /\ prompts'[p].epoch = IF Moving(c, p) THEN prompts[p].epoch + 1
                                  ELSE prompts[p].epoch
  BY <1>5, <1>11, <1>16
<1>22. \A d \in Client : d # c => toClient'[d] =
         toClient[d] \cup {AskMsg(p, prompts[p].epoch + 1) :
           p \in {q \in Prompt : Moving(c, q) /\ MovedTo(c)[prompts[q].context] = d}}
  BY <1>5, <1>14, <1>17
<1>. QED
  BY <1>11, <1>12, <1>16, <1>17, <1>18, <1>19, <1>20, <1>21, <1>22

LEMMA LeaveKeeps ==
  ASSUME PromptsInv, NEW c \in Client, Leave(c)
  PROVE  PromptsInv'
<1> DEFINE mine == Mine(c)
           moved == Moved(c)
           to == MovedTo(c)
           ending(p) == Ending(c, p)
           moving(p) == Moving(c, p)
<1>0. Others /\ Fine(World, begun) /\ Sound(World) /\ clients \subseteq Client
  BY HostFacts DEF PromptsInv, Others, Fine
<1>w. World \in Worlds /\ QuestionsHeld(World) /\ ContextsOwned(World) /\ RoutesThere(World)
  BY <1>0 DEF Sound
<1>1. /\ clients' = clients \ {c} /\ panes' = panes \ {c}
      /\ toHub' = [toHub EXCEPT ![c] = {}]
      /\ dialogs' = [dialogs EXCEPT ![c] = [t \in PromptType |-> <<>>]]
      /\ UNCHANGED <<session, begun, acq, leases, controller, phase>>
  BY DEF Leave, PanesWithout, hostVars
<1>2. /\ (World \in Worlds)' /\ BegunTo(World, begun)' /\ asked' = asked
      /\ \A i \in ContextId :
           /\ i \in mine \ moved => contexts'[i] = NoContext
           /\ i \in moved => contexts'[i].kind = contexts[i].kind /\ contexts'[i].route = to[i]
           /\ i \notin mine => contexts'[i] = contexts[i]
      /\ \A p \in Prompt :
           /\ prompts'[p].context = prompts[p].context
           /\ prompts'[p].op = prompts[p].op
           /\ prompts'[p].type = prompts[p].type
           /\ prompts'[p].state = IF ending(p) THEN "cleared" ELSE prompts[p].state
           /\ prompts'[p].epoch = IF moving(p) THEN prompts[p].epoch + 1 ELSE prompts[p].epoch
      /\ \A o \in Op :
           /\ ops'[o].kind = ops[o].kind
           /\ ops'[o].client = ops[o].client
           /\ ops'[o].state = IF \E p \in Prompt : ending(p) /\ prompts[p].op = o
                                THEN "cleared" ELSE ops[o].state
  BY LeaveFields
<1>3. /\ toClient'[c] = {}
      /\ \A d \in Client : d # c => toClient'[d] =
           toClient[d] \cup {AskMsg(p, prompts[p].epoch + 1) :
             p \in {q \in Prompt : moving(q) /\ to[prompts[q].context] = d}}
  BY LeaveFields
<1>4. /\ mine \subseteq ContextId /\ moved \subseteq mine
      /\ \A i \in moved : to[i] \in clients /\ to[i] # c /\ contexts[i].kind = "session"
  BY <1>0, MovesToOther
<1>5. \A i \in ContextId : i \in mine <=> contexts[i] # NoContext /\ contexts[i].route = c
  BY DEF Mine
<1>6. \A p \in Prompt :
        /\ ending(p) <=> PendingIn(World, p) /\ prompts[p].context \in mine \ moved
        /\ moving(p) <=> PendingIn(World, p) /\ prompts[p].context \in moved
  BY DEF Ending, Moving
<1> HIDE DEF mine, moved, to, ending, moving
<1>7. /\ World.contexts = contexts /\ World.prompts = prompts /\ World.ops = ops
      /\ World.toClient = toClient /\ World.asked = asked
  BY DEF World
(* The questions that stay open.                                           *)
<1> DEFINE open(p) == PendingIn(World, p) /\ ~ending(p)
           route(p) == IF moving(p) THEN to[prompts[p].context] ELSE RouteIn(World, p)
           epoch(p) == IF moving(p) THEN prompts[p].epoch + 1 ELSE prompts[p].epoch
<1>8. \A p \in Prompt : PendingIn(World, p)' <=> open(p)
  BY <1>2, <1>6, <1>7 DEF PendingIn, World
<1>9. \A p \in Prompt : PendingIn(World, p) =>
        /\ p <= asked /\ prompts[p].op \in Op /\ prompts[p].context \in ContextId
        /\ contexts[prompts[p].context] # NoContext /\ RouteIn(World, p) \in clients
        /\ OwnedBy(World, p, RouteIn(World, p))
  BY <1>w, <1>7, OpenQuestion
<1>10. \A p \in Prompt : PendingIn(World, p) =>
         /\ prompts[p].context \in mine <=> RouteIn(World, p) = c
         /\ ending(p) \/ moving(p) => RouteIn(World, p) = c
         /\ RouteIn(World, p) = c => ending(p) \/ moving(p)
  BY <1>4, <1>5, <1>6, <1>7, <1>9 DEF RouteIn
<1>11. \A p \in Prompt : open(p) =>
         /\ route(p) \in clients /\ route(p) # c
         /\ RouteIn(World, p)' = route(p)
         /\ prompts'[p].epoch = epoch(p)
         /\ contexts'[prompts[p].context] # NoContext
  <2> SUFFICES ASSUME NEW p \in Prompt, open(p)
               PROVE  /\ route(p) \in clients /\ route(p) # c
                      /\ RouteIn(World, p)' = route(p)
                      /\ prompts'[p].epoch = epoch(p)
                      /\ contexts'[prompts[p].context] # NoContext
    OBVIOUS
  <2>0. RouteIn(World, p)' = contexts'[prompts[p].context].route
    BY <1>2 DEF RouteIn, World
  <2>1. CASE moving(p)
    <3>1. prompts[p].context \in moved /\ prompts[p].context \in ContextId
      BY <1>6, <1>9, <2>1
    <3>2. contexts'[prompts[p].context].kind = "session"
      BY <1>2, <1>4, <3>1
    <3>. QED
      BY <1>2, <1>4, <2>0, <2>1, <3>1, <3>2 DEF NoContext
  <2>2. CASE ~moving(p)
    <3>1. prompts[p].context \notin mine /\ RouteIn(World, p) # c
      BY <1>10, <2>2
    <3>. QED
      BY <1>2, <1>7, <1>9, <2>0, <2>2, <3>1 DEF RouteIn
  <2>. QED
    BY <2>1, <2>2
<1>12. \A p \in Prompt : \A q \in Prompt :
         open(p) /\ ending(q) => prompts[p].op # prompts[q].op
  BY <1>6, <1>7, <1>w DEF QuestionsHeld
(* What each client is sent and shows.                                     *)
<1>13. \A d \in Client : \A m \in toClient'[d] :
         /\ d # c
         /\ \/ m \in toClient[d]
            \/ \E p \in Prompt : moving(p) /\ to[prompts[p].context] = d
                                 /\ m = AskMsg(p, prompts[p].epoch + 1) /\ m.id = p
  BY <1>3, MessageKinds
<1>14. \A d \in Client : d # c => toClient[d] \subseteq toClient'[d]
  BY <1>3
<1>15. \A p \in Prompt : moving(p) =>
         AskMsg(p, prompts[p].epoch + 1) \in toClient'[to[prompts[p].context]]
  BY <1>0, <1>3, <1>4, <1>6
<1>16. /\ dialogs \in [Client -> [PromptType -> Seq(Dialog)]]
       /\ toHub \in [Client -> SUBSET Answer]
  BY <1>0 DEF Others
<1>17. /\ dialogs' \in [Client -> [PromptType -> Seq(Dialog)]]
       /\ \A t \in PromptType : dialogs'[c][t] = <<>>
       /\ \A d \in Client : d # c => dialogs'[d] = dialogs[d]
  BY <1>1, <1>16
<1>18. /\ toHub' \in [Client -> SUBSET Answer] /\ toHub'[c] = {}
       /\ \A d \in Client : d # c => toHub'[d] = toHub[d]
  BY <1>1, <1>16
<1>19. \A d \in Client : \A t \in PromptType :
         ShownAs(d, t)' = IF d = c THEN {} ELSE ShownAs(d, t)
  <2>1. \A t \in PromptType : Elems(dialogs'[c][t]) = {}
    BY <1>17 DEF Elems
  <2>2. \A d \in Client : \A t \in PromptType : d # c => Elems(dialogs'[d][t]) = ShownAs(d, t)
    BY <1>17 DEF ShownAs
  <2>. QED
    BY <2>1, <2>2 DEF ShownAs
<1>20. \A d \in Client : \A t \in PromptType : \A e \in ShownAs(d, t)' : d # c /\ e \in ShownAs(d, t)
  BY <1>19
<1>21. \A d \in Client : \A a \in toHub'[d] : d # c /\ a \in toHub[d]
  BY <1>18
(* A question that moves is seen by the client that leaves alone.          *)
<1>22. \A p \in Prompt : \A d \in Client : moving(p) \/ ending(p) =>
         /\ \A m \in toClient[d] : m.id = p => d = c
         /\ \A t \in PromptType : \A e \in ShownAs(d, t) : e.id = p => d = c
         /\ \A a \in toHub[d] : a.id = p => d = c
  BY <1>0, <1>6, <1>7, <1>10 DEF Sound, OpenIsCurrent
<1>i. /\ \A d \in Client : \A m \in toClient[d] : m.id \in Prompt /\ m.id <= asked /\ d \in clients
      /\ \A d \in Client : \A t \in PromptType : \A e \in ShownAs(d, t) :
           e.id \in Prompt /\ e.id <= asked /\ d \in clients
      /\ \A d \in Client : \A a \in toHub[d] : a.id \in Prompt /\ a.id <= asked /\ d \in clients
  BY Facts
<1>23. QuestionsHeld(World)'
  <2>1. \A p \in Prompt : p > asked' => ~PendingIn(World, p)'
    BY <1>2, <1>7, <1>8, <1>w DEF QuestionsHeld
  <2>2. \A p \in Prompt : p <= asked' => prompts'[p].op \in Op /\ ops'[prompts'[p].op].kind # "none"
    BY <1>2, <1>7, <1>w DEF QuestionsHeld
  <2>3. \A p \in Prompt : PendingIn(World, p)' =>
          /\ ops'[prompts'[p].op].state = "asking"
          /\ prompts'[p].context = ContextIn(World, prompts[p].op)
          /\ contexts'[prompts'[p].context] # NoContext
    <3> SUFFICES ASSUME NEW p \in Prompt, open(p)
                 PROVE  /\ ops'[prompts'[p].op].state = "asking"
                        /\ prompts'[p].context = ContextIn(World, prompts[p].op)
                        /\ contexts'[prompts'[p].context] # NoContext
      BY <1>8
    <3>1. prompts[p].op \in Op /\ ~\E q \in Prompt : ending(q) /\ prompts[q].op = prompts[p].op
      BY <1>9, <1>12
    <3>2. /\ ops[prompts[p].op].state = "asking"
          /\ prompts[p].context = ContextIn(World, prompts[p].op)
      BY <1>7, <1>w DEF QuestionsHeld
    <3>. QED
      BY <1>2, <1>11, <3>1, <3>2
  <2>4. \A o \in Op : ContextIn(World, o)' = ContextIn(World, o)
    BY <1>2 DEF ContextIn, World
  <2>5. \A p, q \in Prompt : open(p) /\ open(q) /\ prompts'[p].op = prompts'[q].op => p = q
    BY <1>2, <1>7, <1>w DEF QuestionsHeld
  <2>6. \A p \in Prompt : PendingIn(World, p)' => prompts'[p].op \in Op
    BY <1>2, <1>8, <1>9
  <2>. QED
    BY <1>2, <1>8, <2>1, <2>2, <2>3, <2>4, <2>5, <2>6 DEF QuestionsHeld, PendingIn, ContextIn, World
<1>24. WaitersAsk(World)'
  <2> SUFFICES ASSUME NEW o \in Op, ops'[o].state = "asking"
               PROVE  \E p \in Prompt : PendingIn(World, p)' /\ prompts'[p].op = o
    BY DEF WaitersAsk, PendingIn, World
  <2>1. ops[o].state = "asking" /\ \A p \in Prompt : ending(p) => prompts[p].op # o
    BY <1>2
  <2>2. PICK p \in Prompt : PendingIn(World, p) /\ prompts[p].op = o
    BY <1>0, <1>7, <2>1 DEF Sound, WaitersAsk
  <2>. QED
    BY <1>2, <1>8, <2>1, <2>2
<1>25. ContextsOwned(World)'
  <2> SUFFICES ASSUME NEW i \in ContextId, contexts'[i] # NoContext
               PROVE  \/ contexts'[i].kind = "session" /\ (i = Reconnect \/ ops'[i].kind = "acquire")
                      \/ /\ i # Reconnect /\ contexts'[i].kind = ops'[i].kind
                         /\ ops'[i].kind \in {"test", "elevation"}
                         /\ contexts'[i].route = ops'[i].client
    BY DEF ContextsOwned, World
  <2>1. i # Reconnect => ops'[i].kind = ops[i].kind /\ ops'[i].client = ops[i].client
    BY <1>2, Ids
  <2>2. \/ contexts[i] = NoContext
        \/ contexts[i].kind = "session" /\ (i = Reconnect \/ ops[i].kind = "acquire")
        \/ /\ i # Reconnect /\ contexts[i].kind = ops[i].kind
           /\ ops[i].kind \in {"test", "elevation"}
           /\ contexts[i].route = ops[i].client
    BY <1>7, <1>w DEF ContextsOwned
  <2>3. CASE i \in moved
    <3>1. contexts[i].kind = "session" /\ contexts'[i].kind = "session"
      BY <1>2, <1>4, <2>3
    <3>2. contexts[i] # NoContext
      BY <3>1 DEF NoContext
    <3>. QED
      BY <2>1, <2>2, <3>1, <3>2
  <2>4. CASE i \notin moved
    <3>1. contexts'[i] = contexts[i]
      BY <1>2, <2>4
    <3>. QED
      BY <2>1, <2>2, <3>1
  <2>. QED
    BY <2>3, <2>4
<1>26. RoutesThere(World)'
  <2> SUFFICES ASSUME NEW i \in ContextId, contexts'[i] # NoContext
               PROVE  contexts'[i].route \in clients \ {c}
    BY <1>1 DEF RoutesThere, World
  <2>1. CASE i \in moved
    BY <1>2, <1>4, <2>1
  <2>2. CASE i \notin moved
    <3>1. i \notin mine /\ contexts'[i] = contexts[i]
      BY <1>2, <2>2
    <3>. QED
      BY <1>5, <1>7, <1>w, <3>1 DEF RoutesThere
  <2>. QED
    BY <2>1, <2>2
<1>27. TracesKnown(World)'
  <2>1. \A d \in Client :
          /\ \A m \in toClient'[d] : m.id <= asked /\ d \in clients \ {c}
          /\ \A t \in PromptType : \A e \in ShownAs(d, t)' : e.id <= asked /\ d \in clients \ {c}
          /\ \A a \in toHub'[d] : a.id \in Prompt /\ a.id <= asked /\ d \in clients \ {c}
    <3>1. \A p \in Prompt : moving(p) => p <= asked /\ to[prompts[p].context] \in clients
      BY <1>4, <1>6, <1>9
    <3>2. \A d \in Client : \A m \in toClient'[d] : m.id <= asked /\ d \in clients \ {c}
      BY <1>13, <1>i, <3>1
    <3>. QED
      BY <1>20, <1>21, <1>i, <3>2
  <2>. QED
    BY <1>1, <1>2, <2>1 DEF TracesKnown, World
<1>28. OpenIsCurrent(World)'
  <2>1. \A p \in Prompt : open(p) => \A d \in Client :
          /\ \A m \in toClient'[d] : m.id = p => d = route(p) /\ m = AskMsg(p, epoch(p))
          /\ \A t \in PromptType : \A e \in ShownAs(d, t)' : e.id = p =>
               d = route(p) /\ e.epoch = epoch(p)
          /\ \A a \in toHub'[d] : a.id = p => d = route(p)
    <3> SUFFICES ASSUME NEW p \in Prompt, open(p), NEW d \in Client
                 PROVE  /\ \A m \in toClient'[d] : m.id = p => d = route(p) /\ m = AskMsg(p, epoch(p))
                        /\ \A t \in PromptType : \A e \in ShownAs(d, t)' : e.id = p =>
                             d = route(p) /\ e.epoch = epoch(p)
                        /\ \A a \in toHub'[d] : a.id = p => d = route(p)
      OBVIOUS
    <3>1. CASE moving(p)
      BY <1>13, <1>20, <1>21, <1>22, <3>1
    <3>2. CASE ~moving(p)
      <4>1. \A m \in toClient'[d] : m.id = p => m \in toClient[d]
        BY <1>13, <3>2
      <4>. QED
        BY <1>0, <1>7, <1>20, <1>21, <3>2, <4>1 DEF Sound, OpenIsCurrent
    <3>. QED
      BY <3>1, <3>2
  <2> HIDE DEF open, route, epoch
  <2>2. \A p \in Prompt : PendingIn(World, p)' => \A d \in Client :
          /\ \A m \in toClient'[d] : m.id = p =>
               d = RouteIn(World, p)' /\ m = AskMsg(p, prompts'[p].epoch)
          /\ \A t \in PromptType : \A e \in ShownAs(d, t)' : e.id = p =>
               d = RouteIn(World, p)' /\ e.epoch = prompts'[p].epoch
          /\ \A a \in toHub'[d] : a.id = p => d = RouteIn(World, p)'
    BY <1>8, <1>11, <2>1
  <2>. QED
    BY <2>2 DEF OpenIsCurrent, PendingIn, RouteIn, World
<1>29. SentOnce(World)'
  <2>1. \A d \in Client :
          /\ \A m, n \in toClient[d] : m.type = "ask" /\ n.type = "ask" /\ m.id = n.id => m = n
          /\ \A m \in toClient[d] : m.type = "ask" =>
               /\ \A t \in PromptType : \A e \in ShownAs(d, t) : e.id # m.id
               /\ \A a \in toHub[d] : a.id # m.id
    BY <1>0, <1>7 DEF Sound, SentOnce
  <2>2. \A d \in Client :
          /\ \A m, n \in toClient'[d] : m.type = "ask" /\ n.type = "ask" /\ m.id = n.id => m = n
          /\ \A m \in toClient'[d] : m.type = "ask" =>
               /\ \A t \in PromptType : \A e \in ShownAs(d, t)' : e.id # m.id
               /\ \A a \in toHub'[d] : a.id # m.id
    <3> SUFFICES ASSUME NEW d \in Client
                 PROVE  /\ \A m, n \in toClient'[d] :
                             m.type = "ask" /\ n.type = "ask" /\ m.id = n.id => m = n
                        /\ \A m \in toClient'[d] : m.type = "ask" =>
                             /\ \A t \in PromptType : \A e \in ShownAs(d, t)' : e.id # m.id
                             /\ \A a \in toHub'[d] : a.id # m.id
      OBVIOUS
    <3>1. \A m, n \in toClient'[d] : m.type = "ask" /\ n.type = "ask" /\ m.id = n.id => m = n
      BY <1>13, <1>22, <2>1
    <3>2. \A m \in toClient'[d] : m.type = "ask" =>
            /\ \A t \in PromptType : \A e \in ShownAs(d, t)' : e.id # m.id
            /\ \A a \in toHub'[d] : a.id # m.id
      BY <1>13, <1>20, <1>21, <1>22, <2>1
    <3>. QED
      BY <3>1, <3>2
  <2>. QED
    BY <2>2 DEF SentOnce, World
<1>30. OpenIsShown(World)'
  <2>1. ASSUME NEW p \in Prompt, open(p)
        PROVE  \/ AskMsg(p, epoch(p)) \in toClient'[route(p)]
               \/ [id |-> p, epoch |-> epoch(p)] \in Elems(dialogs'[route(p)][prompts[p].type])
               \/ \E a \in toHub'[route(p)] : a.id = p /\ a.epoch = epoch(p)
    <3>1. CASE moving(p)
      BY <1>15, <3>1
    <3>2. CASE ~moving(p)
      <4>1. route(p) \in Client /\ route(p) # c
        BY <1>0, <1>11, <2>1
      <4>2. \/ AskMsg(p, prompts[p].epoch) \in toClient[RouteIn(World, p)]
            \/ [id |-> p, epoch |-> prompts[p].epoch]
                 \in ShownAs(RouteIn(World, p), prompts[p].type)
            \/ \E a \in toHub[RouteIn(World, p)] : a.id = p /\ a.epoch = prompts[p].epoch
        BY <1>0, <1>7, <2>1 DEF Sound, OpenIsShown
      <4>. QED
        BY <1>14, <1>17, <1>18, <3>2, <4>1, <4>2 DEF ShownAs
    <3>. QED
      BY <3>1, <3>2
  <2> HIDE DEF open, route, epoch
  <2>2. \A p \in Prompt : PendingIn(World, p)' =>
          \/ AskMsg(p, prompts'[p].epoch) \in toClient'[RouteIn(World, p)']
          \/ [id |-> p, epoch |-> prompts'[p].epoch]
               \in Elems(dialogs'[RouteIn(World, p)'][prompts'[p].type])
          \/ \E a \in toHub'[RouteIn(World, p)'] : a.id = p /\ a.epoch = prompts'[p].epoch
    BY <1>2, <1>8, <1>11, <2>1
  <2>. QED
    BY <2>2 DEF OpenIsShown, PendingIn, RouteIn, World, ShownAs
<1>31. OwnTraces(World)'
  <2> DEFINE own(x, b) == ops[prompts[x].op].kind \in {"test", "elevation"} =>
                            ops[prompts[x].op].client = b
  <2>1. \A b \in Client : /\ \A n \in toClient[b] : own(n.id, b)
                          /\ \A t \in PromptType : \A e \in ShownAs(b, t) : own(e.id, b)
    BY <1>0 DEF Sound, OwnTraces, OwnedBy, World
  <2>2. \A p \in Prompt : \A b \in Client : moving(p) => own(p, b)
    <3> SUFFICES ASSUME NEW p \in Prompt, moving(p)
                 PROVE  ops[prompts[p].op].kind \notin {"test", "elevation"}
      OBVIOUS
    <3>1. /\ contexts[prompts[p].context].kind = "session" /\ PendingIn(World, p)
          /\ prompts[p].context \in ContextId /\ prompts[p].op \in Op
      BY <1>4, <1>6, <1>9
    <3>2. /\ prompts[p].context = ContextIn(World, prompts[p].op)
          /\ contexts[prompts[p].context] # NoContext
      BY <1>7, <1>w, <3>1 DEF QuestionsHeld
    <3>3. CASE ops[prompts[p].op].kind = "reconnect"
      BY <3>3
    <3>4. CASE ops[prompts[p].op].kind # "reconnect"
      <4>1. prompts[p].context = prompts[p].op
        BY <1>7, <3>2, <3>4 DEF ContextIn
      <4>. QED
        BY <1>7, <1>w, <3>1, <3>2, <4>1, Ids DEF ContextsOwned
    <3>. QED
      BY <3>3, <3>4
  <2>k. \A x \in Prompt : x <= asked =>
          /\ ops'[prompts'[x].op].kind = ops[prompts[x].op].kind
          /\ ops'[prompts'[x].op].client = ops[prompts[x].op].client
    BY <1>2, <1>7, <1>w DEF QuestionsHeld
  <2>l. \A x \in Prompt : moving(x) => x <= asked
    BY <1>6, <1>9
  <2> HIDE DEF own
  <2>3. \A b \in Client :
          /\ \A n \in toClient'[b] : n.id \in Prompt /\ n.id <= asked /\ own(n.id, b)
          /\ \A t \in PromptType : \A e \in ShownAs(b, t)' :
               e.id \in Prompt /\ e.id <= asked /\ own(e.id, b)
    BY <1>13, <1>20, <1>i, <2>1, <2>2, <2>l
  <2>4. \A x \in Prompt : \A b \in Client : x <= asked /\ own(x, b) => OwnedBy(World, x, b)'
    BY <2>k DEF own, OwnedBy, World
  <2>5. \A b \in Client :
          /\ \A n \in toClient'[b] : OwnedBy(World, n.id, b)'
          /\ \A t \in PromptType : \A e \in ShownAs(b, t)' : OwnedBy(World, e.id, b)'
    BY <2>3, <2>4
  <2>. QED
    BY <2>5 DEF OwnTraces, OwnedBy, World
<1>32. TracesLive(World)'
  <2>1. \A b \in Client : \A x \in Prompt :
          b # c /\ LiveIn(World, b, x) /\ ~ending(x) => LiveIn(World, b, x)'
    <3>1. \A x \in Prompt : ~ending(x) => prompts'[x].state = prompts[x].state
      BY <1>2
    <3>. QED
      BY <1>1, <1>14, <3>1 DEF LiveIn, PendingIn, World
  <2>2. \A b \in Client : /\ \A n \in toClient[b] : LiveIn(World, b, n.id)
                          /\ \A t \in PromptType : \A e \in ShownAs(b, t) : LiveIn(World, b, e.id)
    BY <1>0, <1>7 DEF Fine, TracesLive
  <2>3. \A x \in Prompt : \A b \in Client : moving(x) => LiveIn(World, b, x)'
    <3>1. \A x \in Prompt : moving(x) => PendingIn(World, x)'
      BY <1>6, <1>8
    <3>. QED
      BY <3>1 DEF LiveIn, PendingIn, World
  <2>4. \A b \in Client : /\ \A n \in toClient'[b] : LiveIn(World, b, n.id)'
                          /\ \A t \in PromptType : \A e \in ShownAs(b, t)' : LiveIn(World, b, e.id)'
    BY <1>13, <1>20, <1>22, <1>i, <2>1, <2>2, <2>3
  <2>. QED
    BY <2>4 DEF TracesLive, World, LiveIn, PendingIn
<1>33. ShownOnce'
  <2>1. \A d \in Client : \A t \in PromptType : Unique(dialogs'[d][t])
    <3>1. \A t \in PromptType : Unique(dialogs'[c][t])
      BY <1>17 DEF Unique
    <3>2. \A d \in Client : \A t \in PromptType : d # c => Unique(dialogs'[d][t])
      BY <1>0, <1>17 DEF Others, ShownOnce
    <3>. QED
      BY <3>1, <3>2
  <2>2. \A d \in Client : \A t \in PromptType :
          /\ \A e \in ShownAs(d, t)' : \A a \in toHub'[d] : a.id # e.id
          /\ \A u \in PromptType : \A e \in ShownAs(d, t)', f \in ShownAs(d, u)' :
               u # t => e.id # f.id
    BY <1>0, <1>20, <1>21 DEF Others, ShownOnce
  <2>. QED
    BY <2>1, <2>2 DEF ShownOnce
<1>34. Fine(World, begun)'
  BY <1>2, <1>23, <1>24, <1>25, <1>26, <1>27, <1>28, <1>29, <1>30, <1>31, <1>32 DEF Fine, Sound
<1>35. PeopleTypeOK' /\ HostTypeOK' /\ HeldAreBegun'
  BY <1>0, <1>1 DEF Others, PeopleTypeOK, HostTypeOK, HeldAreBegun
<1>. QED
  BY <1>17, <1>18, <1>33, <1>34, <1>35 DEF PromptsInv

-----------------------------------------------------------------------------
(* The invariant.                                                          *)

LEMMA InitPrompts == Init => PromptsInv
<1> SUFFICES ASSUME Init PROVE PromptsInv
  OBVIOUS
<1>1. /\ clients = Client /\ panes = {} /\ session = TRUE /\ begun = 0 /\ acq = 0
      /\ leases = {} /\ controller = 0 /\ phase = "running"
  BY DEF Init
<1>2. /\ contexts = [i \in ContextId |-> NoContext] /\ asked = 0
      /\ prompts = [p \in Prompt |-> NoPrompt] /\ ops = [o \in Op |-> NoOp]
      /\ toClient = [c \in Client |-> {}] /\ toHub = [c \in Client |-> {}]
      /\ dialogs = [c \in Client |-> [t \in PromptType |-> <<>>]]
  BY DEF Init
<1>3. NoContext \in Context /\ NoPrompt \in PromptRecord /\ NoOp \in Operation
  BY Ids DEF NoContext, Context, NoPrompt, PromptRecord, NoOp, Operation, PromptType, Reconnect
<1>4. World \in Worlds
  BY <1>2, <1>3, BoundsAssumption DEF World, Worlds
<1>5. /\ \A p \in Prompt : ~PendingIn(World, p) /\ p > asked
      /\ \A o \in Op : ops[o] = NoOp /\ o > begun /\ ops[o].state = "new"
  BY <1>1, <1>2, BoundsAssumption DEF PendingIn, World, NoPrompt, NoOp, Prompt, Op
<1>6. /\ \A c \in Client : toClient[c] = {} /\ toHub[c] = {}
      /\ \A c \in Client : \A t \in PromptType : dialogs[c][t] = <<>> /\ ShownAs(c, t) = {}
      /\ \A i \in ContextId : contexts[i] = NoContext
  BY <1>2 DEF ShownAs, Elems
<1>7. QuestionsHeld(World)
  <2>1. \A p \in Prompt : ~(p <= asked)
    BY <1>2, BoundsAssumption DEF Prompt
  <2>. QED
    BY <1>5, <2>1 DEF QuestionsHeld, World
<1>8. /\ WaitersAsk(World) /\ ContextsOwned(World) /\ RoutesThere(World) /\ TracesKnown(World)
      /\ OpenIsCurrent(World) /\ SentOnce(World) /\ OpenIsShown(World) /\ OwnTraces(World)
  BY <1>5, <1>6 DEF WaitersAsk, ContextsOwned, RoutesThere, TracesKnown, OpenIsCurrent,
       SentOnce, OpenIsShown, OwnTraces, World
<1>9. TracesLive(World)
  BY <1>6 DEF TracesLive, World
<1>10. BegunTo(World, begun)
  <2>1. \A o \in Op : ~(o <= begun)
    BY <1>1, BoundsAssumption DEF Op
  <2>. QED
    BY <1>5, <1>6, <2>1, Ids DEF BegunTo, World
<1>11. ShownOnce
  BY <1>6 DEF ShownOnce, Unique
<1>12. PeopleTypeOK /\ HostTypeOK /\ HeldAreBegun
  BY <1>1, BoundsAssumption DEF PeopleTypeOK, HostTypeOK, HeldAreBegun
<1>13. toHub \in [Client -> SUBSET Answer] /\ dialogs \in [Client -> [PromptType -> Seq(Dialog)]]
  BY <1>2
<1>. QED
  BY <1>4, <1>7, <1>8, <1>9, <1>10, <1>11, <1>12, <1>13 DEF PromptsInv, Fine, Sound

LEMMA NextKeeps == PromptsInv /\ [Next]_vars => PromptsInv'
<1> SUFFICES ASSUME PromptsInv, [Next]_vars PROVE PromptsInv'
  OBVIOUS
<1>1. ASSUME NEW c \in Client, Leave(c) PROVE PromptsInv'
  BY <1>1, LeaveKeeps
<1>2. ASSUME NEW c \in Client, Attach(c) \/ Detach(c) PROVE PromptsInv'
  BY <1>2, AttachKeeps
<1>3. ASSUME NEW c \in Client, BeginAcquire(c) PROVE PromptsInv'
  BY <1>3, BeginAcquireKeeps
<1>4. ASSUME NEW c \in Client, Join(c) PROVE PromptsInv'
  BY <1>4, JoinKeeps
<1>5. ASSUME NEW c \in Client, BeginTest(c) PROVE PromptsInv'
  BY <1>5, BeginTestKeeps
<1>6. ASSUME NEW c \in Client, BeginElevation(c) PROVE PromptsInv'
  BY <1>6, BeginElevationKeeps
<1>7. ASSUME NEW c \in Client, NEW m \in toClient[c], Deliver(c, m) PROVE PromptsInv'
  BY <1>7, DeliverAskKeeps, DeliverCancelKeeps
<1>8. ASSUME NEW c \in Client, NEW type \in PromptType, NEW given \in BOOLEAN,
             Respond(c, type, given)
      PROVE  PromptsInv'
  BY <1>8, RespondKeeps
<1>9. ASSUME NEW c \in Client, NEW a \in toHub[c], HandleResponse(c, a) PROVE PromptsInv'
  BY <1>9, HandleResponseKeeps
<1>10. ASSUME NEW asks \in BOOLEAN, BeginReconnect(asks) PROVE PromptsInv'
  BY <1>10, BeginReconnectKeeps
<1>11. ASSUME NEW o \in Op, End(o) PROVE PromptsInv'
  BY <1>11, EndKeeps
<1>12. ASSUME NEW o \in Op, NEW type \in PromptType, Ask(o, type) PROVE PromptsInv'
  BY <1>12, AskKeeps
<1>13. ASSUME NEW p \in Prompt, Expire(p) PROVE PromptsInv'
  BY <1>13, ExpireKeeps
<1>14. CASE DisconnectHost
  BY <1>14, DisconnectHostKeeps
<1>15. CASE CloseSession
  BY <1>15, CloseSessionKeeps
<1>16. CASE BeginQuit
  BY <1>16, BeginQuitKeeps
<1>17. CASE Shutdown
  BY <1>17, ShutdownKeeps
<1>18. CASE UNCHANGED vars
  <2>1. /\ UNCHANGED <<askVars, clients, panes, toHub, dialogs>>
        /\ UNCHANGED <<session, begun, acq, leases, controller, phase>>
    BY <1>18 DEF vars, peopleVars, hostVars
  <2>2. Fine(World, begun)' /\ ShownOnce'
    BY <2>1, SameWorld, ShownOnceStays DEF PromptsInv
  <2>. QED
    BY <2>1, <2>2 DEF PromptsInv, PeopleTypeOK, HostTypeOK, HeldAreBegun
<1>. QED
  BY <1>1, <1>2, <1>3, <1>4, <1>5, <1>6, <1>7, <1>8, <1>9, <1>10, <1>11, <1>12, <1>13,
     <1>14, <1>15, <1>16, <1>17, <1>18 DEF Next

LEMMA PromptsInvariant == Spec => []PromptsInv
BY InitPrompts, NextKeeps, PTL DEF Spec

(* Every variable keeps its type.                                          *)
THEOREM PromptsTypeCorrect == Spec => []TypeOK
<1>1. PromptsInv => TypeOK
  BY DEF PromptsInv, TypeOK, AskTypeOK, Fine, Sound, World, Worlds, Context
<1>. QED
  BY <1>1, PromptsInvariant, PTL

(* Whoever waits for an answer has a question open, in a context that is   *)
(* routed to a client that is there, whoever leaves, detaches or closes    *)
(* while it waits (clientDisconnect, clearContext and prompt of            *)
(* prompt-context.ts).                                                     *)
THEOREM WaitersAreAsked == Spec => []WaiterIsAsked
<1>1. PromptsInv => WaiterIsAsked
  <2> SUFFICES ASSUME PromptsInv, NEW o \in Op, ops[o].state = "asking"
               PROVE  \E p \in Pending :
                        /\ prompts[p].op = o
                        /\ contexts[prompts[p].context] # NoContext
                        /\ contexts[prompts[p].context].route \in clients
    BY DEF WaiterIsAsked
  <2>1. Sound(World)
    BY DEF PromptsInv, Fine
  <2>2. World.prompts = prompts /\ World.contexts = contexts /\ World.ops = ops
    BY DEF World
  <2>3. PICK p \in Prompt : PendingIn(World, p) /\ prompts[p].op = o
    BY <2>1, <2>2 DEF Sound, WaitersAsk
  <2>4. contexts[prompts[p].context] # NoContext /\ RouteIn(World, p) \in clients
    BY <2>1, <2>2, <2>3, OpenQuestion DEF Sound
  <2>. QED
    BY <2>2, <2>3, <2>4 DEF Pending, PendingIn, RouteIn
<1>. QED
  BY <1>1, PromptsInvariant, PTL

(* A question that is open can be answered: the client it is routed to has *)
(* its dialog, at the delivery respond accepts, or is about to, or has     *)
(* answered (retarget puts it to another client at the next delivery).     *)
THEOREM WaitersAreShown == Spec => []WaiterIsShown
<1>1. PromptsInv => WaiterIsShown
  <2> SUFFICES ASSUME PromptsInv, NEW p \in Prompt, PendingIn(World, p)
               PROVE  LET c == contexts[prompts[p].context].route
                          e == prompts[p].epoch
                      IN \/ [type |-> "ask", id |-> p, epoch |-> e] \in toClient[c]
                         \/ \E k \in DOMAIN dialogs[c][prompts[p].type] :
                              dialogs[c][prompts[p].type][k] = [id |-> p, epoch |-> e]
                         \/ \E a \in toHub[c] : a.id = p /\ a.epoch = e
    BY DEF WaiterIsShown, Pending, PendingIn, World
  <2>1. OpenIsShown(World)
    BY DEF PromptsInv, Fine, Sound
  <2>. QED
    BY <2>1 DEF OpenIsShown, RouteIn, World, AskMsg, ShownAs, Elems
<1>. QED
  BY <1>1, PromptsInvariant, PTL

(* No dialog is shown in vain: the hub waits for its answer, from the      *)
(* client that shows it, or its PROMPT_CANCEL is on its way; but for one   *)
(* whose time is over and a hub that has stopped.                          *)
THEOREM DialogsAreLive == Spec => []DialogIsLive
<1>1. PromptsInv => DialogIsLive
  <2> SUFFICES ASSUME PromptsInv, NEW c \in clients, NEW t \in PromptType,
                      NEW k \in DOMAIN dialogs[c][t]
               PROVE  LET p == dialogs[c][t][k].id
                      IN \/ p \in Pending /\ contexts[prompts[p].context].route = c
                         \/ [type |-> "cancel", id |-> p] \in toClient[c]
                         \/ prompts[p].state = "expired"
                         \/ phase = "stopped"
    BY DEF DialogIsLive
  <2> DEFINE d == dialogs[c][t][k]
  <2>1. c \in Client /\ dialogs[c][t] \in Seq(Dialog)
    BY DEF PromptsInv, PeopleTypeOK
  <2>d. d \in Dialog
    BY <2>1
  <2>2. d \in ShownAs(c, t) /\ d.id \in Prompt
    BY <2>1, <2>d DEF ShownAs, Elems, Dialog
  <2> HIDE DEF d
  <2>3. LiveIn(World, c, d.id)
    BY <2>1, <2>2 DEF PromptsInv, Fine, TracesLive
  <2>4. PendingIn(World, d.id) => RouteIn(World, d.id) = c
    BY <2>1, <2>2 DEF PromptsInv, Fine, Sound, OpenIsCurrent
  <2>. QED
    BY <2>2, <2>3, <2>4 DEF LiveIn, PendingIn, RouteIn, World, Pending, CancelMsg, d
<1>. QED
  BY <1>1, PromptsInvariant, PTL

(* A test's and an elevation's questions are sent to and shown by the      *)
(* client that asked for it alone (pickRouteCandidate moves neither).      *)
THEOREM OwnQuestionsAreKept == Spec => []OwnQuestionsStay
<1>1. PromptsInv => OwnQuestionsStay
  <2> SUFFICES ASSUME PromptsInv, NEW c \in Client, NEW p \in Prompt,
                      \/ \E m \in toClient[c] : m.id = p
                      \/ \E t \in PromptType : \E k \in DOMAIN dialogs[c][t] :
                           dialogs[c][t][k].id = p
               PROVE  OwnedBy(World, p, c)
    BY DEF OwnQuestionsStay, OwnedBy, World, PromptType
  <2>1. OwnTraces(World)
    BY DEF PromptsInv, Fine, Sound
  <2>2. CASE \E m \in toClient[c] : m.id = p
    BY <2>1, <2>2 DEF OwnTraces, World
  <2>3. CASE \E t \in PromptType : \E k \in DOMAIN dialogs[c][t] : dialogs[c][t][k].id = p
    <3>1. PICK t \in PromptType : \E k \in DOMAIN dialogs[c][t] : dialogs[c][t][k].id = p
      BY <2>3
    <3>2. PICK k \in DOMAIN dialogs[c][t] : dialogs[c][t][k].id = p
      BY <3>1
    <3>3. dialogs[c][t] \in Seq(Dialog)
      BY DEF PromptsInv
    <3>4. dialogs[c][t][k] \in ShownAs(c, t)
      BY <3>3 DEF ShownAs, Elems
    <3>. QED
      BY <2>1, <3>2, <3>4 DEF OwnTraces
  <2>. QED
    BY <2>2, <2>3
<1>. QED
  BY <1>1, PromptsInvariant, PTL

=============================================================================
