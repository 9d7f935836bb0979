------------------------------- MODULE Prompts -------------------------------
(***************************************************************************)
(* The questions the hub puts to a person while it reaches a host: a       *)
(* password, a host's key, an agent's binary, the password of an elevated  *)
(* shell (prompt-context.ts), who asks them (ssh-connection-manager.ts,    *)
(* session-manager.ts, channel-lifecycle-manager.ts) and the dialogs that  *)
(* show them (usePromptQueue.ts).                                          *)
(*                                                                         *)
(* An operation asks one question at a time and waits for it; most         *)
(* questions have no time limit.  A question belongs to a context, which   *)
(* routes it to one client.  The context of an acquisition has its         *)
(* operation's number; all reconnects of the session share context 0.      *)
(*                                                                         *)
(* Messages about different questions touch different dialogs: each socket *)
(* is a set of messages in which only those of one question are ordered.   *)
(***************************************************************************)
EXTENDS Naturals, Sequences

CONSTANTS
  Client,      \* ids of clients, older ones smaller
  MaxOps,      \* bound: operations begun
  MaxPrompts,  \* bound: questions asked
  Kinds        \* the kinds of operations begun, of AllKinds

AllKinds == {"acquire", "reconnect", "test", "elevation"}

ASSUME ClientAssumption == Client \subseteq Nat \ {0}
ASSUME BoundsAssumption == MaxOps \in Nat /\ MaxPrompts \in Nat
ASSUME KindsAssumption == Kinds \subseteq AllKinds

Op == 1..MaxOps
Prompt == 1..MaxPrompts
Reconnect == 0
ContextId == Op \cup {Reconnect}
PromptType == {"auth", "verify"}

VARIABLES
  clients,     \* ctx.clients; an id is never used again
  panes,       \* clients attached to a terminal of the session
  session,     \* the host has a session
  begun,       \* how many operations were begun
  ops,         \* what asks, see Operation
  acq,         \* ctx.acquisitions: the operation that leads the host's, or 0
  leases,      \* clients with a lease of that acquisition
  controller,  \* ctx.reconnectAbortControllers: the operation's, or 0
  contexts,    \* ctx.promptContexts, NoContext for those that are not there
  asked,       \* how many questions were asked
  prompts,     \* ctx.pendingPrompts and what became of each question
  toClient,    \* client -> messages on their way to it
  toHub,       \* client -> answers on their way from it
  dialogs,     \* client -> type -> its queue of dialogs, the first one shown
  phase        \* "running", "quitting" (beginQuit), "stopped" (shutdown)

peopleVars == <<clients, panes>>
hostVars   == <<session, begun, acq, leases, controller, phase>>
askVars    == <<contexts, asked, prompts, ops, toClient>>
vars == <<peopleVars, hostVars, askVars, toHub, dialogs>>

NoContext == [kind |-> "none", route |-> 0]
NoPrompt  == [context |-> 0, op |-> 0, type |-> "auth", epoch |-> 0,
              timed |-> FALSE, state |-> "none"]
NoOp      == [kind |-> "none", client |-> 0, state |-> "new", aborted |-> FALSE]

(* An operation waits for its question in state "asking".  "cleared" and   *)
(* "refused" are a promise that was resolved with null, by the hub or by   *)
(* the person.                                                             *)
Operation ==
  [kind : AllKinds \cup {"none"}, client : Client \cup {0}, aborted : BOOLEAN,
   state : {"new", "running", "asking", "refused", "cleared", "done"}]

PromptRecord ==
  [context : ContextId, op : Op \cup {0}, type : PromptType, epoch : Nat,
   timed : BOOLEAN,
   state : {"none", "pending", "answered", "cleared", "expired"}]

Message == [type : {"ask"}, id : Prompt, epoch : Nat]
             \cup [type : {"cancel"}, id : Prompt]
Answer  == [id : Prompt, type : PromptType, epoch : Nat, given : BOOLEAN]
Dialog  == [id : Prompt, epoch : Nat]

PeopleTypeOK ==
  /\ clients \subseteq Client
  /\ panes \subseteq clients

HostTypeOK ==
  /\ session \in BOOLEAN
  /\ begun \in 0..MaxOps
  /\ acq \in Op \cup {0} /\ controller \in Op \cup {0}
  /\ leases \subseteq Client
  /\ phase \in {"running", "quitting", "stopped"}

AskTypeOK ==
  /\ contexts \in
       [ContextId -> [kind : {"none", "session", "test", "elevation"},
                      route : Client \cup {0}]]
  /\ asked \in 0..MaxPrompts
  /\ prompts \in [Prompt -> PromptRecord]
  /\ ops \in [Op -> Operation]
  /\ toClient \in [Client -> SUBSET Message]

(* The types of the variables.                                             *)
TypeOK ==
  /\ PeopleTypeOK /\ HostTypeOK /\ AskTypeOK
  /\ toHub \in [Client -> SUBSET Answer]
  /\ dialogs \in [Client -> [PromptType -> Seq(Dialog)]]

(* Clients that connect later are among those that have done nothing yet.  *)
Init ==
  /\ clients = Client /\ panes = {}
  /\ session = TRUE /\ begun = 0 /\ acq = 0 /\ leases = {} /\ controller = 0
  /\ phase = "running"
  /\ contexts = [i \in ContextId |-> NoContext]
  /\ asked = 0
  /\ prompts = [p \in Prompt |-> NoPrompt]
  /\ ops = [o \in Op |-> NoOp]
  /\ toClient = [c \in Client |-> {}]
  /\ toHub = [c \in Client |-> {}]
  /\ dialogs = [c \in Client |-> [t \in PromptType |-> <<>>]]

-----------------------------------------------------------------------------
(* The operations of prompt-context.ts run without waiting and several may *)
(* run in one step.  They are functions of a world: what they may change.  *)

World == [contexts |-> contexts, asked |-> asked, prompts |-> prompts,
          ops |-> ops, toClient |-> toClient]

Become(w) ==
  /\ contexts' = w.contexts
  /\ asked' = w.asked
  /\ prompts' = w.prompts
  /\ ops' = w.ops
  /\ toClient' = w.toClient

(* The questions of the contexts is that wait for an answer.               *)
InFlight(w, is) ==
  {p \in Prompt : w.prompts[p].state = "pending" /\ w.prompts[p].context \in is}

(* _clearPrompt and resolve(null), for the questions ps: their operations  *)
(* go on with null.                                                        *)
Resolved(w, ps, how) ==
  [w EXCEPT
    !.prompts = [p \in Prompt |-> IF p \in ps THEN [@[p] EXCEPT !.state = how] ELSE @[p]],
    !.ops = [o \in Op |-> IF \E p \in ps : w.prompts[p].op = o
                            THEN [@[o] EXCEPT !.state = "cleared"] ELSE @[o]]]

(* As if the dialogs were left to be.                                      *)
clearContextsSilently(w, is, told) ==
  LET open == {i \in is : w.contexts[i] # NoContext}
  IN [Resolved(w, InFlight(w, open), "cleared") EXCEPT
       !.contexts = [i \in ContextId |-> IF i \in open THEN NoContext ELSE @[i]]]

(* clearContext, for the contexts is: those that are there go, their       *)
(* questions are resolved with null and, when told, the dialogs dismissed. *)
clearContexts(w, is, told) ==
  LET open == {i \in is : w.contexts[i] # NoContext}
      ps == InFlight(w, open)
      cancels(c) == {[type |-> "cancel", id |-> p] :
                       p \in {q \in ps : w.contexts[w.prompts[q].context].route = c}}
  IN [Resolved(w, ps, "cleared") EXCEPT
       !.contexts = [i \in ContextId |-> IF i \in open THEN NoContext ELSE @[i]],
       !.toClient = [c \in Client |->
                       IF told /\ c \in clients THEN @[c] \cup cancels(c) ELSE @[c]]]

clearContext(w, i, told) == clearContexts(w, {i}, told)

Oldest(s) == CHOOSE c \in s : \A d \in s : c <= d

(* As if any context might go to another client.                           *)
RouteCandidatesOfAny(w, i, exclude) ==
  (IF i = Reconnect THEN panes ELSE IF acq = 0 THEN {} ELSE leases) \cap (clients \ {exclude})

(* pickRouteCandidate, pickReconnectRouteCandidate: who else a question    *)
(* may be put to.  An acquisition's goes to who holds a lease, a           *)
(* reconnect's to who has a terminal of the session open; a test's and an  *)
(* elevation's to nobody else.                                             *)
RouteCandidates(w, i, exclude) ==
  IF w.contexts[i].kind # "session" THEN {}
  ELSE (IF i = Reconnect THEN panes ELSE IF acq = 0 THEN {} ELSE leases)
         \cap (clients \ {exclude})

(* openContext.                                                            *)
openContext(w, i, kind, route) ==
  [w EXCEPT !.contexts[i] = [kind |-> kind, route |-> route]]

(* As if the route were changed and nothing sent again.                    *)
retargetSilently(w, to) ==
  [w EXCEPT !.contexts = [i \in ContextId |->
      IF i \in DOMAIN to THEN [@[i] EXCEPT !.route = to[i]] ELSE @[i]]]

(* retarget, for each context i that goes to a client to[i]: the questions *)
(* in flight are put to that client, which is told at which delivery.  The *)
(* old route is leaving in every caller, and hears nothing any more.       *)
retarget(w, to) ==
  LET ps == InFlight(w, DOMAIN to)
      asks(c) == {[type |-> "ask", id |-> p, epoch |-> w.prompts[p].epoch + 1] :
                    p \in {q \in ps : to[w.prompts[q].context] = c}}
  IN [w EXCEPT
       !.contexts = [i \in ContextId |->
          IF i \in DOMAIN to THEN [@[i] EXCEPT !.route = to[i]] ELSE @[i]],
       !.prompts = [p \in Prompt |->
          IF p \in ps THEN [@[p] EXCEPT !.epoch = w.prompts[p].epoch + 1] ELSE @[p]],
       !.toClient = [c \in Client |-> @[c] \cup asks(c)]]

(* Nothing was asked: the operation goes on with null.                     *)
NotAsked(w, o) == [w EXCEPT !.ops[o].state = "cleared"]

(* As if whether the client is there were not asked.                       *)
promptBlindly(w, o, i, type) ==
  IF w.contexts[i] = NoContext THEN NotAsked(w, o)
  ELSE LET p == w.asked + 1
           c == w.contexts[i].route
       IN [w EXCEPT
            !.asked = p,
            !.prompts[p] = [context |-> i, op |-> o, type |-> type, epoch |-> 1,
                            timed |-> w.ops[o].kind = "elevation", state |-> "pending"],
            !.ops[o].state = "asking",
            !.toClient[c] = @ \cup {[type |-> "ask", id |-> p, epoch |-> 1]}]

(* prompt: the question is stored, then sent to the context's client, or   *)
(* to another if that one left.  Without one the context is cleared.  Only *)
(* elevation, asked over a live session, has a time limit.  (The code also *)
(* undoes a question whose send throws; send throws only for a client that *)
(* is not in ctx.clients, and this one was looked up there just before.)   *)
prompt(w, o, i, type) ==
  IF w.contexts[i] = NoContext THEN NotAsked(w, o)
  ELSE LET route == w.contexts[i].route
           others == RouteCandidates(w, i, route)
           c == IF route \in clients THEN route ELSE Oldest(others)
           p == w.asked + 1
       IN IF route \notin clients /\ others = {}
            THEN NotAsked(clearContext(w, i, TRUE), o)
            ELSE [w EXCEPT
                   !.contexts[i].route = c,
                   !.asked = p,
                   !.prompts[p] = [context |-> i, op |-> o, type |-> type, epoch |-> 1,
                                   timed |-> w.ops[o].kind = "elevation", state |-> "pending"],
                   !.ops[o].state = "asking",
                   !.toClient[c] = @ \cup {[type |-> "ask", id |-> p, epoch |-> 1]}]

ContextOf(o) == IF ops[o].kind = "reconnect" THEN Reconnect ELSE o

(* _getOrOpenSessionPromptContext: the context of an acquisition or of the *)
(* session's reconnects, opened by the first question, or none when nobody *)
(* could be asked.                                                         *)
getOrOpenSessionPromptContext(w, o) ==
  LET i == IF w.ops[o].kind = "reconnect" THEN Reconnect ELSE o
      c == w.ops[o].client
      route == w.contexts[i].route
      others == RouteCandidates(w, i, route)
  IN CASE w.contexts[i] # NoContext /\ route \in clients -> w
       [] w.contexts[i] # NoContext /\ route \notin clients ->
            IF others = {} THEN clearContext(w, i, FALSE)
            ELSE [w EXCEPT !.contexts[i].route = Oldest(others)]
       [] w.contexts[i] = NoContext /\ i = Reconnect ->
            IF panes = {} THEN w ELSE openContext(w, i, "session", Oldest(panes))
       [] OTHER -> IF c \in clients THEN openContext(w, i, "session", c) ELSE w

(* buildPromptAuth, promptHostKeyVerify, buildBinaryVerifyPrompt and the   *)
(* prompts of a test or an elevation: an operation asks.  One that was     *)
(* aborted gives up instead.                                               *)
Asks(w, o, type) ==
  IF w.ops[o].aborted THEN NotAsked(w, o)
  ELSE IF w.ops[o].kind \in {"acquire", "reconnect"}
    THEN prompt(getOrOpenSessionPromptContext(w, o), o,
                IF w.ops[o].kind = "reconnect" THEN Reconnect ELSE o, type)
    ELSE prompt(w, o, o, type)

(* controller.abort(): the listener buildPromptAuth sets clears the        *)
(* context while it waits for a password.                                  *)
Aborted(w, o) ==
  IF o = 0 THEN w
  ELSE LET i == IF w.ops[o].kind = "reconnect" THEN Reconnect ELSE o
           waits == \E p \in InFlight(w, {i}) : w.prompts[p].op = o /\ w.prompts[p].type = "auth"
           w1 == [w EXCEPT !.ops[o].aborted = TRUE]
       IN IF waits THEN clearContext(w1, i, TRUE) ELSE w1

-----------------------------------------------------------------------------
(* Clients.                                                                *)

(* What a resolved promise was awaited for goes on before anything else.   *)
Settled == \A o \in Op : ops[o].state \notin {"refused", "cleared"}

Up == phase # "stopped" /\ Settled

(* A client attaches to a terminal of the session, or detaches from it.    *)
Attach(c) ==
  /\ Up /\ session /\ c \in clients \ panes
  /\ panes' = panes \cup {c}
  /\ UNCHANGED <<clients, hostVars, askVars, toHub, dialogs>>

Detach(c) ==
  /\ Up /\ c \in panes
  /\ panes' = panes \ {c}
  /\ UNCHANGED <<clients, hostVars, askVars, toHub, dialogs>>

(* clientDisconnect: each of its contexts is put to another client, or     *)
(* cleared.                                                                *)
clientDisconnect(w, c) ==
  LET mine == {i \in ContextId : w.contexts[i] # NoContext /\ w.contexts[i].route = c}
      moved == {i \in mine : RouteCandidates(w, i, c) # {}}
      to == [i \in moved |-> Oldest(RouteCandidates(w, i, c))]
  IN clearContexts(retarget(w, to), mine \ moved, TRUE)

(* broadcaster.removeClient: every terminal forgets it.                    *)
PanesWithout(c) == panes \ {c}

(* removeClient: its questions go to others before it is forgotten.        *)
Leave(c) ==
  /\ Up /\ c \in clients
  /\ LET w == clientDisconnect(World, c)
     IN Become([w EXCEPT !.toClient[c] = {}])
  /\ clients' = clients \ {c}
  /\ panes' = PanesWithout(c)
  /\ toHub' = [toHub EXCEPT ![c] = {}]
  /\ dialogs' = [dialogs EXCEPT ![c] = [t \in PromptType |-> <<>>]]
  /\ UNCHANGED hostVars

Enqueued(queue, d) ==
  IF \E k \in DOMAIN queue : queue[k].id = d.id THEN queue ELSE Append(queue, d)

(* removeByPromptId: a queue holds an id once, see Enqueued.               *)
WithoutId(queue, id) ==
  LET at == {k \in DOMAIN queue : queue[k].id = id}
      k == CHOOSE j \in at : TRUE
  IN IF at = {} THEN queue
     ELSE SubSeq(queue, 1, k - 1) \o SubSeq(queue, k + 1, Len(queue))

(* A client reads a message: enqueue, or handlePromptCancel on all three   *)
(* stores.                                                                 *)
Deliver(c, m) ==
  /\ Up
  /\ m \in toClient[c]
  /\ m.type = "cancel" => \A n \in toClient[c] : n.id = m.id => n = m
  /\ toClient' = [toClient EXCEPT ![c] = @ \ {m}]
  /\ IF m.type = "ask"
       THEN dialogs' = [dialogs EXCEPT ![c][prompts[m.id].type] =
                          Enqueued(@, [id |-> m.id, epoch |-> m.epoch])]
       ELSE dialogs' = [dialogs EXCEPT ![c] = [t \in PromptType |->
                          WithoutId(@[t], m.id)]]
  /\ UNCHANGED <<peopleVars, hostVars, contexts, asked, prompts, ops, toHub>>

(* respond of a store: the person answers the dialog that is shown, or     *)
(* dismisses it.                                                           *)
Respond(c, type, given) ==
  /\ Up
  /\ dialogs[c][type] # <<>>
  /\ LET d == Head(dialogs[c][type])
     IN toHub' = [toHub EXCEPT ![c] = @ \cup
                    {[id |-> d.id, type |-> type, epoch |-> d.epoch, given |-> given]}]
  /\ dialogs' = [dialogs EXCEPT ![c][type] = Tail(@)]
  /\ UNCHANGED <<peopleVars, hostVars, askVars>>

(* respond of prompt-context.ts: whom an answer is taken from.  Only an    *)
(* AUTH_PROMPT_RESPONSE says which delivery it answers.                    *)
Accepts(c, a) ==
  LET q == prompts[a.id]
  IN /\ q.state = "pending"
     /\ contexts[q.context] # NoContext
     /\ contexts[q.context].route = c
     /\ a.type = "auth" => a.epoch = q.epoch

(* handleAuthPromptResponse, handleHostVerifyResponse,                     *)
(* handleAgentVerifyResponse.                                              *)
HandleResponse(c, a) ==
  /\ Up
  /\ a \in toHub[c]
  /\ toHub' = [toHub EXCEPT ![c] = @ \ {a}]
  /\ IF Accepts(c, a)
       THEN /\ prompts' = [prompts EXCEPT ![a.id].state = "answered"]
            /\ ops' = [ops EXCEPT ![prompts[a.id].op].state =
                         IF a.given THEN "running" ELSE "refused"]
       ELSE UNCHANGED <<prompts, ops>>
  /\ UNCHANGED <<peopleVars, hostVars, contexts, asked, toClient, dialogs>>

(* The time of a question that has one is over: no dialog is dismissed.    *)
Expire(p) ==
  /\ Up
  /\ prompts[p].state = "pending" /\ prompts[p].timed
  /\ Become(Resolved(World, {p}, "expired"))
  /\ UNCHANGED <<peopleVars, hostVars, toHub, dialogs>>

-----------------------------------------------------------------------------
(* Operations.                                                             *)

Begun(o, kind, c) == [World EXCEPT !.ops[o] =
                        [kind |-> kind, client |-> c, state |-> "running", aborted |-> FALSE]]

Starts(kind) ==
  /\ Up /\ phase = "running"
  /\ kind \in Kinds
  /\ begun < MaxOps
  /\ begun' = begun + 1

MayAsk == asked < MaxPrompts

(* A SPAWN or a Connect leads the acquisition of a host.                   *)
BeginAcquire(c) ==
  /\ Starts("acquire")
  /\ c \in clients /\ acq = 0
  /\ Become(Begun(begun + 1, "acquire", c))
  /\ acq' = begun + 1
  /\ leases' = {c}
  /\ session' = TRUE
  /\ UNCHANGED <<peopleVars, controller, phase, toHub, dialogs>>

(* Another joins it, and may be asked when the first one leaves.           *)
Join(c) ==
  /\ Up /\ acq # 0 /\ c \in clients \ leases
  /\ leases' = leases \cup {c}
  /\ UNCHANGED <<peopleVars, session, begun, acq, controller, phase, askVars, toHub, dialogs>>

(* onReconnectAgent: the attempt under way is aborted and another begins.  *)
(* Whether it asks for a password is known at once; asked in the same      *)
(* step, since nothing is awaited before it.                               *)
BeginReconnect(asks) ==
  /\ Starts("reconnect")
  /\ session /\ acq = 0 /\ clients # {}
  /\ asks => MayAsk
  /\ LET o == begun + 1
         w == [Aborted(World, controller) EXCEPT !.ops[o] =
                 [kind |-> "reconnect", client |-> Oldest(clients),
                  state |-> "running", aborted |-> FALSE]]
     IN Become(IF asks THEN Asks(w, o, "auth") ELSE w)
  /\ controller' = begun + 1
  /\ UNCHANGED <<peopleVars, session, acq, leases, phase, toHub, dialogs>>

(* handleTestConnect: a context of its own, there before any question.     *)
BeginTest(c) ==
  /\ Starts("test")
  /\ c \in clients
  /\ Become(openContext(Begun(begun + 1, "test", c), begun + 1, "test", c))
  /\ UNCHANGED <<peopleVars, session, acq, leases, controller, phase, toHub, dialogs>>

(* The password of an elevated shell: asked as its context opens, of a     *)
(* client that may have left while the agent was asked.                    *)
BeginElevation(c) ==
  /\ Starts("elevation")
  /\ session /\ MayAsk
  /\ LET o == begun + 1
     IN Become(prompt(openContext(Begun(o, "elevation", c), o, "elevation", c), o, o, "auth"))
  /\ UNCHANGED <<peopleVars, session, acq, leases, controller, phase, toHub, dialogs>>

(* A dial or a test comes to a question.  A key or a binary is only put to *)
(* a person by a connection that was not aborted, and never by a           *)
(* reconnect, which decides nothing for them.                              *)
Ask(o, type) ==
  /\ Up /\ MayAsk
  /\ ops[o].state = "running"
  /\ ops[o].kind # "elevation"
  /\ type = "verify" => ops[o].kind # "reconnect" /\ ~ops[o].aborted
  /\ Become(Asks(World, o, type))
  /\ UNCHANGED <<peopleVars, hostVars, toHub, dialogs>>

(* An operation ends: connected, failed, or given up with null.  Whichever *)
(* way, it clears its context: an acquisition's and a test's are its own,  *)
(* a reconnect's is the session's.                                         *)
End(o) ==
  /\ phase # "stopped"
  /\ ops[o].state \in {"running", "refused", "cleared"}
  /\ ops[o].state = "running" => Settled
  /\ Become(clearContext([World EXCEPT !.ops[o].state = "done"], ContextOf(o), TRUE))
  /\ acq' = IF acq = o THEN 0 ELSE acq
  /\ controller' = IF controller = o THEN 0 ELSE controller
  /\ UNCHANGED <<peopleVars, leases, session, begun, phase, toHub, dialogs>>

(* closeAcquisition: the connection being made is called off with its      *)
(* questions.                                                              *)
AcquisitionClosed(w) == IF acq = 0 THEN w ELSE clearContext(Aborted(w, acq), acq, TRUE)

(* clearElevationContextsForSession.                                       *)
ElevationsCleared(w) ==
  clearContexts(w, {i \in ContextId : w.contexts[i].kind = "elevation"}, TRUE)

(* disconnectHost: what reaches for the host is called off; its session,   *)
(* and what was asked over it, stays.                                      *)
DisconnectHost ==
  /\ Up /\ session /\ phase = "running"
  /\ Become(Aborted(AcquisitionClosed(World), controller))
  /\ acq' = 0 /\ controller' = 0
  /\ UNCHANGED <<peopleVars, leases, session, begun, phase, toHub, dialogs>>

(* closeSession, endHostSession: the session ends with all of its          *)
(* questions.                                                              *)
CloseSession ==
  /\ Up /\ session /\ phase = "running"
  /\ Become(ElevationsCleared(clearContext(
       Aborted(AcquisitionClosed(World), controller), Reconnect, TRUE)))
  /\ acq' = 0 /\ controller' = 0
  /\ session' = FALSE
  /\ panes' = {}
  /\ UNCHANGED <<clients, leases, begun, phase, toHub, dialogs>>

(* beginQuit: aborted, and what nobody listens for an abort of stays open. *)
BeginQuit ==
  /\ Up /\ phase = "running"
  /\ Become(Aborted(Aborted(World, acq), controller))
  /\ acq' = 0 /\ controller' = 0
  /\ phase' = "quitting"
  /\ UNCHANGED <<peopleVars, leases, session, begun, toHub, dialogs>>

(* shutdown: every context is cleared, and nobody told.                    *)
Shutdown ==
  /\ Up /\ phase = "quitting"
  /\ Become(clearContexts(World, ContextId, FALSE))
  /\ phase' = "stopped"
  /\ UNCHANGED <<peopleVars, session, begun, acq, leases, controller, toHub, dialogs>>

Next ==
  \/ \E c \in Client :
       \/ Leave(c) \/ Attach(c) \/ Detach(c)
       \/ BeginAcquire(c) \/ Join(c) \/ BeginTest(c) \/ BeginElevation(c)
       \/ \E m \in toClient[c] : Deliver(c, m)
       \/ \E type \in PromptType, given \in BOOLEAN : Respond(c, type, given)
       \/ \E a \in toHub[c] : HandleResponse(c, a)
  \/ \E asks \in BOOLEAN : BeginReconnect(asks)
  \/ \E o \in Op : End(o) \/ \E type \in PromptType : Ask(o, type)
  \/ \E p \in Prompt : Expire(p)
  \/ DisconnectHost \/ CloseSession \/ BeginQuit \/ Shutdown

Spec == Init /\ [][Next]_vars

-----------------------------------------------------------------------------
(* Properties.                                                             *)

Pending == {p \in Prompt : prompts[p].state = "pending"}

(* Whoever waits for an answer has a question open with a client that is   *)
(* there: most questions have no time limit, so that one put to nobody     *)
(* would hold its dial, and whoever follows it, for good.                  *)
WaiterIsAsked ==
  \A o \in Op : ops[o].state = "asking" =>
    \E p \in Pending :
      /\ prompts[p].op = o
      /\ contexts[prompts[p].context] # NoContext
      /\ contexts[prompts[p].context].route \in clients

(* A question that is open can be answered: its dialog is shown by the     *)
(* client it is routed to, or is on its way there, or the answer is on its *)
(* way back, and it is the delivery the hub accepts.                       *)
WaiterIsShown ==
  \A p \in Pending :
    LET c == contexts[prompts[p].context].route
        e == prompts[p].epoch
    IN \/ [type |-> "ask", id |-> p, epoch |-> e] \in toClient[c]
       \/ \E k \in DOMAIN dialogs[c][prompts[p].type] :
            dialogs[c][prompts[p].type][k] = [id |-> p, epoch |-> e]
       \/ \E a \in toHub[c] : a.id = p /\ a.epoch = e

(* A dialog that is shown is one the hub waits on, or its PROMPT_CANCEL is *)
(* on its way; but for a question whose time is over, of which nobody is   *)
(* told, and a hub that has stopped.                                       *)
DialogIsLive ==
  \A c \in clients : \A type \in PromptType : \A k \in DOMAIN dialogs[c][type] :
    LET p == dialogs[c][type][k].id
    IN \/ p \in Pending /\ contexts[prompts[p].context].route = c
       \/ [type |-> "cancel", id |-> p] \in toClient[c]
       \/ prompts[p].state = "expired"
       \/ phase = "stopped"

(* A test's and an elevation's questions are seen by no client but the one *)
(* that asked for it, whoever leaves meanwhile: these contexts are owned   *)
(* by one operation and must never move to an unrelated client.            *)
OwnQuestionsStay ==
  \A c \in Client : \A p \in Prompt :
    LET shown == \/ \E m \in toClient[c] : m.id = p
                 \/ \E k \in DOMAIN dialogs[c]["auth"] : dialogs[c]["auth"][k].id = p
                 \/ \E k \in DOMAIN dialogs[c]["verify"] : dialogs[c]["verify"][k].id = p
    IN shown /\ ops[prompts[p].op].kind \in {"test", "elevation"} =>
         ops[prompts[p].op].client = c

(* A reconnect that took the place of another keeps its question when that *)
(* other one ends: onReconnectAgent says of what it registers that it is   *)
(* identity-guarded on settle so a newer attempt is not clobbered.         *)
NewerIsNotClobbered ==
  [][\A o \in Op : \A older \in Op :
       /\ End(older) /\ older # o
       /\ ops[o].kind = "reconnect" /\ ops[o].state = "asking" /\ ~ops[o].aborted
       => ops'[o].state = "asking"]_vars
=============================================================================
