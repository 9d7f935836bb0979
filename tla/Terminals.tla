----------------------------- MODULE Terminals -----------------------------
(***************************************************************************)
(* The terminals of one host, held by a daemon that outlives its           *)
(* connection: the hub's channel table and its starts, judgements and ends *)
(* (channel-lifecycle-manager.ts, session-manager.ts,                      *)
(* agent-connection-manager.ts), the connection, and the agent's table of  *)
(* running shells with one reader task each (handler.rs, daemon.rs).       *)
(*                                                                         *)
(* A terminal is an id.  Its shells come and go under that id: a shell is  *)
(* named by the SPAWN request that started it.  A connection delivers in   *)
(* order, and loses what is under way when it drops.  What answers a       *)
(* request goes straight to the connection; an exit goes through the       *)
(* output pipeline, so the two can pass each other.                        *)
(*                                                                         *)
(* The hub handles every frame of one read before the code that awaits one *)
(* of them goes on (AgentConnection.handleData).  What has its answer and  *)
(* has not gone on is kept apart, and goes on before any other task.       *)
(***************************************************************************)
EXTENDS Naturals, Sequences, FiniteSets, SequencesExt

CONSTANTS
  Ids,           \* terminal ids
  NoId,          \* the id of a SPAWN that leaves it to the agent
  MaxStarts,     \* bound: SPAWNs the hub sends
  MaxConnects,   \* bound: connections the hub opens
  MaxClock,      \* bound: questions and starts the hub's clock counts
  MaxCrashes,    \* bound: hub restarts and daemon deaths
  MaxWire        \* bound: frames under way when a restart is asked for

ASSUME NoIdAssumption == NoId \notin Ids
ASSUME IdsAssumption == IsFiniteSet(Ids)
ASSUME BoundsAssumption ==
  /\ MaxStarts \in Nat /\ MaxConnects \in Nat
  /\ MaxClock \in Nat /\ MaxCrashes \in Nat /\ MaxWire \in Nat

VARIABLES
  tracked,     \* ctx.channels: id -> "none" | "live" | "dead"
  startedAt,   \* ChannelState.startedAt, 0 when unset
  record,      \* meta.db: id -> "none" | "live" | "dead"
  clock,       \* ctx.channelClock
  starting,    \* ctx.startingChannels
  starts,      \* starts under way: [id, via, req], req 0 before its SPAWN
  answered,    \* starts whose answer was read: [start, id to apply or NoId]
  listAsked,   \* askedAt of the list being waited for, 0 when none is
  listed,      \* the list that was read and is to be judged, at most one
  attachAsked, \* id -> askedAt of its ATTACH under way, 0 when none is
  notFound,    \* ids whose ATTACH was answered CHANNEL_NOT_FOUND
  believed,    \* id -> the shell its last answer started, 0 if none (history)
  gaveUp,      \* shells whose start timed out on this connection (history)
  judged,      \* the list of this connection was judged (history)
  unused,      \* ids never generated
  table,       \* PtyManager.channels: id -> its shell, 0 when none
  running,     \* the shells whose process runs
  readers,     \* the reader tasks, each of one shell of one id
  exiting,     \* exits in the batch loop and the output router
  away,        \* AwayQueue: exits kept while the hub has no connection
  connected,   \* the connection is up
  toAgent,     \* frames under way to the agent
  toHub,       \* frames under way to the hub
  requests,    \* how many SPAWNs were sent
  connects,    \* how many connections were opened
  crashes      \* how many crashes happened

channelVars == <<tracked, startedAt, record>>
startVars   == <<starting, starts, answered>>
askVars     == <<listAsked, listed, attachAsked, notFound>>
history     == <<believed, gaveUp, judged>>
hubVars     == <<channelVars, clock, startVars, askVars, history>>
agentVars   == <<unused, table, running, readers, exiting, away>>
wires       == <<connected, toAgent, toHub>>
bounds      == <<requests, connects, crashes>>
vars == <<hubVars, agentVars, wires, bounds>>

-----------------------------------------------------------------------------
(* Frames.                                                                 *)

Spawn(id, req)   == [type |-> "SPAWN", id |-> id, req |-> req]
Destroy(id, why) == [type |-> "DESTROY", id |-> id, why |-> why]
AttachTo(id, at) == [type |-> "ATTACH", id |-> id, at |-> at]
Auth             == [type |-> "AUTH"]

SpawnOk(id, req) == [type |-> "SPAWN_OK", id |-> id, req |-> req]
SpawnErr(req)    == [type |-> "SPAWN_ERR", req |-> req]
AttachOk(m)      == [type |-> "ATTACH_OK", id |-> m.id, at |-> m.at]
NotFound(m)      == [type |-> "CHANNEL_NOT_FOUND", id |-> m.id, at |-> m.at]
States(ids)      == [type |-> "CHANNEL_STATES", ids |-> ids]
Exit(r)          == [type |-> "CHANNEL_EXIT", id |-> r.id, shell |-> r.shell]

ToAgentFrames ==
  [type : {"SPAWN"}, id : Ids \cup {NoId}, req : Nat \ {0}]
    \cup [type : {"DESTROY"}, id : Ids, why : {"restart", "kill", "orphan"}]
    \cup [type : {"ATTACH"}, id : Ids, at : Nat \ {0}]
    \cup [type : {"AUTH"}]

ExitFrames == [type : {"CHANNEL_EXIT"}, id : Ids, shell : Nat \ {0}]

ToHubFrames ==
  [type : {"SPAWN_OK"}, id : Ids, req : Nat \ {0}]
    \cup [type : {"SPAWN_ERR"}, req : Nat \ {0}]
    \cup [type : {"ATTACH_OK", "CHANNEL_NOT_FOUND"}, id : Ids, at : Nat \ {0}]
    \cup [type : {"CHANNEL_STATES"}, ids : SUBSET Ids]
    \cup ExitFrames

Starts  == [id : Ids, via : {"restart", "spawn"}, req : Nat]
             \cup [id : {NoId}, via : {"spawn"}, req : Nat]
Readers == [id : Ids, shell : Nat \ {0}]

HubTypeOK ==
  /\ tracked \in [Ids -> {"none", "live", "dead"}]
  /\ startedAt \in [Ids -> Nat]
  /\ record \in [Ids -> {"none", "live", "dead"}]
  /\ clock \in Nat
  /\ starting \in SUBSET Ids
  /\ starts \in SUBSET Starts
  /\ answered \in SUBSET [start : Starts, id : Ids \cup {NoId}]
  /\ listAsked \in Nat
  /\ listed \in SUBSET (SUBSET Ids)
  /\ attachAsked \in [Ids -> Nat]
  /\ notFound \in SUBSET Ids
  /\ believed \in [Ids -> Nat]
  /\ gaveUp \in SUBSET (Nat \ {0})
  /\ judged \in BOOLEAN

AgentTypeOK ==
  /\ unused \in SUBSET Ids
  /\ table \in [Ids -> Nat]
  /\ running \in SUBSET (Nat \ {0})
  /\ readers \in SUBSET Readers
  /\ exiting \in SUBSET Readers
  /\ away \in Seq(ExitFrames)

WireTypeOK ==
  /\ connected \in BOOLEAN
  /\ toAgent \in Seq(ToAgentFrames)
  /\ toHub \in Seq(ToHubFrames)

BoundsTypeOK == requests \in Nat /\ connects \in Nat /\ crashes \in Nat

(* The types of the variables.                                             *)
TypeOK == HubTypeOK /\ AgentTypeOK /\ WireTypeOK /\ BoundsTypeOK

Init ==
  /\ tracked = [id \in Ids |-> "none"]
  /\ startedAt = [id \in Ids |-> 0]
  /\ record = [id \in Ids |-> "none"]
  /\ clock = 0
  /\ starting = {}
  /\ starts = {}
  /\ answered = {}
  /\ listAsked = 0
  /\ listed = {}
  /\ attachAsked = [id \in Ids |-> 0]
  /\ notFound = {}
  /\ requests = 0 /\ connects = 0 /\ crashes = 0
  /\ connected = FALSE
  /\ toAgent = <<>>
  /\ toHub = <<>>
  /\ unused = Ids
  /\ table = [id \in Ids |-> 0]
  /\ running = {}
  /\ readers = {}
  /\ exiting = {}
  /\ away = <<>>
  /\ believed = [id \in Ids |-> 0]
  /\ gaveUp = {}
  /\ judged = FALSE

-----------------------------------------------------------------------------
(* Helpers of the hub.                                                     *)

(* answerStillApplies: whether an answer to a question asked at `askedAt`  *)
(* still speaks of the terminal tracked under id.                          *)
answerStillAppliesThoughStarted(id, askedAt) ==
  /\ tracked[id] # "none"
  /\ id \notin starting

answerStillApplies(id, askedAt) ==
  /\ tracked[id] # "none"
  /\ id \notin starting
  /\ startedAt[id] <= askedAt

(* What destroyOrphans ends: reported, not tracked, and not known alive.   *)
OrphansUnrecorded(reported) ==
  {id \in reported : tracked[id] = "none" /\ record[id] = "none"}

Orphans(reported) ==
  {id \in reported : tracked[id] = "none" /\ record[id] \in {"none", "dead"}}

(* A start ends, and its claim with it: the finally of restartChannel and  *)
(* of handleSpawn.                                                         *)
EndStart(s) ==
  /\ starts' = starts \ {s}
  /\ starting' = starting \ {s.id}

(* A terminal is live from now on, whatever was tracked and recorded.      *)
Started(id, shell) ==
  /\ tracked' = [tracked EXCEPT ![id] = "live"]
  /\ record' = [record EXCEPT ![id] = "live"]
  /\ clock' = clock + 1
  /\ startedAt' = [startedAt EXCEPT ![id] = clock + 1]
  /\ believed' = [believed EXCEPT ![id] = shell]

(* A terminal is told dead and forgotten: retireChannel, forgetChannel.    *)
Forget(ids) ==
  /\ tracked' = [id \in Ids |-> IF id \in ids THEN "none" ELSE tracked[id]]
  /\ record' = [id \in Ids |-> IF id \in ids THEN "dead" ELSE record[id]]

(* pendingRequests: the starts that wait for the answer to their SPAWN.    *)
Waiting == {s \in starts : s.req # 0 /\ \A a \in answered : a.start # s}

(* The hub reads the next frame.                                           *)
HubReads(type) == toHub # <<>> /\ Head(toHub).type = type /\ toHub' = Tail(toHub)

(* Nothing that was answered has yet to go on.                             *)
Settled == answered = {} /\ listed = {} /\ notFound = {}

-----------------------------------------------------------------------------
(* The hub starts terminals.                                               *)

(* A start of id takes its claim.                                          *)
Claim(id, via) ==
  /\ starting' = starting \cup {id}
  /\ starts' = starts \cup {[id |-> id, via |-> via, req |-> 0]}
  /\ UNCHANGED <<channelVars, clock, answered, askVars, history, agentVars,
                 connected, toHub, bounds>>

(* SessionManager.restartChannel claims a terminal the database knows, and *)
(* destroys the one that runs under its id, where its host is connected.   *)
RestartClaim(id) ==
  /\ record[id] # "none"
  /\ id \notin starting
  /\ Len(toAgent) <= MaxWire
  /\ Claim(id, "restart")
  /\ toAgent' = IF connected /\ tracked[id] = "live"
                THEN Append(toAgent, Destroy(id, "restart")) ELSE toAgent

(* handleSpawn with reuseChannelId claims one that is not running.         *)
ReuseClaimTwice(id) ==
  /\ record[id] # "none"
  /\ tracked[id] # "live"
  /\ Claim(id, "spawn")
  /\ UNCHANGED toAgent

ReuseClaim(id) ==
  /\ record[id] # "none"
  /\ tracked[id] # "live"
  /\ id \notin starting
  /\ Claim(id, "spawn")
  /\ UNCHANGED toAgent

(* Its host is not reached or is being stopped, its password is not given, *)
(* or the hub quits: the start ends, whatever it has destroyed.            *)
StartRefused(s) ==
  /\ s.req = 0
  /\ EndStart(s)
  /\ UNCHANGED <<channelVars, clock, answered, askVars, history, agentVars,
                 wires, bounds>>

(* The SPAWN of a claimed start, once its host is reached and the password *)
(* of an elevated one is there.                                            *)
SendStart(s) ==
  LET req == requests + 1
  IN /\ connected
     /\ s.req = 0
     /\ requests < MaxStarts
     /\ requests' = req
     /\ starts' = (starts \ {s}) \cup {[s EXCEPT !.req = req]}
     /\ toAgent' = Append(toAgent, Spawn(s.id, req))
     /\ UNCHANGED <<channelVars, clock, starting, answered, askVars, history,
                    agentVars, connected, toHub, connects, crashes>>

(* handleSpawn of a new terminal: the agent names it.                      *)
SendNew ==
  /\ connected
  /\ requests < MaxStarts
  /\ requests' = requests + 1
  /\ starts' = starts \cup {[id |-> NoId, via |-> "spawn", req |-> requests + 1]}
  /\ toAgent' = Append(toAgent, Spawn(NoId, requests + 1))
  /\ UNCHANGED <<channelVars, clock, starting, answered, askVars, history,
                 agentVars, connected, toHub, connects, crashes>>

(* As if the timer were disarmed when the connection drops.                *)
StartTimeoutConnected(s) ==
  /\ connected
  /\ s.req # 0
  /\ EndStart(s)
  /\ gaveUp' = gaveUp \cup {s.req}
  /\ UNCHANGED <<channelVars, clock, answered, askVars, believed, judged,
                 agentVars, wires, bounds>>

(* SPAWN_TIMEOUT_MS passed: the hub stops waiting for the answer.          *)
StartTimeout(s) ==
  /\ s.req # 0
  /\ EndStart(s)
  /\ gaveUp' = gaveUp \cup {s.req}
  /\ UNCHANGED <<channelVars, clock, answered, askVars, believed, judged,
                 agentVars, wires, bounds>>

(* SPAWN_OK.  The handler of a spawn tracks the terminal at once; that of  *)
(* a restart only resolves what restartChannel awaits.                     *)
HubSpawnOk ==
  /\ HubReads("SPAWN_OK")
  /\ LET m == Head(toHub)
     IN \/ \E s \in Waiting :
             /\ s.req = m.req /\ s.via = "spawn"
             /\ Started(m.id, m.req)
             /\ answered' = answered \cup {[start |-> s, id |-> NoId]}
        \/ \E s \in Waiting :
             /\ s.req = m.req /\ s.via = "restart"
             /\ answered' = answered \cup {[start |-> s, id |-> m.id]}
             /\ UNCHANGED <<channelVars, clock, believed>>
        \/ /\ \A s \in Waiting : s.req # m.req
           /\ UNCHANGED <<channelVars, clock, answered, believed>>
  /\ UNCHANGED <<starting, starts, askVars, gaveUp, judged, agentVars,
                 connected, toAgent, bounds>>

(* SPAWN_ERR: the start ends and nothing else changes.                     *)
HubSpawnErr ==
  /\ HubReads("SPAWN_ERR")
  /\ LET m == Head(toHub)
     IN \/ \E s \in Waiting :
             /\ s.req = m.req
             /\ answered' = answered \cup {[start |-> s, id |-> NoId]}
             /\ believed' = [id \in Ids |-> IF id = s.id THEN 0 ELSE believed[id]]
        \/ /\ \A s \in Waiting : s.req # m.req
           /\ UNCHANGED <<answered, believed>>
  /\ UNCHANGED <<channelVars, clock, starting, starts, askVars, gaveUp, judged,
                 agentVars, connected, toAgent, bounds>>

(* A start goes on with its answer: a restart applies it                   *)
(* (applyRestartState), and the claim is given back.                       *)
ResumeStart(a) ==
  /\ answered' = answered \ {a}
  /\ EndStart(a.start)
  /\ \/ a.id # NoId /\ Started(a.id, a.start.req)
     \/ a.id = NoId /\ UNCHANGED <<channelVars, clock, believed>>
  /\ UNCHANGED <<askVars, gaveUp, judged, agentVars, wires, bounds>>

-----------------------------------------------------------------------------
(* The hub ends, judges and forgets terminals.                             *)

(* CHANNEL_EXIT: whatever is tracked under its id has ended.               *)
HubExitUnrecorded ==
  /\ HubReads("CHANNEL_EXIT")
  /\ LET id == Head(toHub).id
     IN tracked' = IF tracked[id] = "none" THEN tracked
                   ELSE [tracked EXCEPT ![id] = "dead"]
  /\ UNCHANGED <<startedAt, record, clock, startVars, askVars, history,
                 agentVars, connected, toAgent, bounds>>

HubExit ==
  /\ HubReads("CHANNEL_EXIT")
  /\ LET id == Head(toHub).id
     IN \/ /\ tracked[id] # "none"
           /\ tracked' = [tracked EXCEPT ![id] = "dead"]
           /\ record' = [record EXCEPT ![id] = "dead"]
        \/ /\ tracked[id] = "none"
           /\ UNCHANGED <<tracked, record>>
  /\ UNCHANGED <<startedAt, clock, startVars, askVars, history, agentVars,
                 connected, toAgent, bounds>>

(* destroyChannel: someone closes a terminal.                              *)
Kill(id) ==
  /\ tracked[id] # "none"
  /\ toAgent' = IF connected THEN Append(toAgent, Destroy(id, "kill")) ELSE toAgent
  /\ Forget({id})
  /\ UNCHANGED <<startedAt, clock, startVars, askVars, history, agentVars,
                 connected, toHub, bounds>>

(* handleAttach asks the agent about a terminal; one question at a time.   *)
AskAttach(id) ==
  /\ connected
  /\ tracked[id] = "live"
  /\ attachAsked[id] = 0
  /\ clock < MaxClock
  /\ clock' = clock + 1
  /\ attachAsked' = [attachAsked EXCEPT ![id] = clock + 1]
  /\ toAgent' = Append(toAgent, AttachTo(id, clock + 1))
  /\ UNCHANGED <<channelVars, startVars, listAsked, listed, notFound, history,
                 agentVars, connected, toHub, bounds>>

(* ATTACH_TIMEOUT_MS passed; a late answer finds nobody waiting.           *)
AttachTimeout(id) ==
  /\ attachAsked[id] # 0
  /\ attachAsked' = [attachAsked EXCEPT ![id] = 0]
  /\ UNCHANGED <<channelVars, clock, startVars, listAsked, listed, notFound,
                 history, agentVars, wires, bounds>>

HubAttachOk ==
  /\ HubReads("ATTACH_OK")
  /\ LET m == Head(toHub)
     IN attachAsked' = [attachAsked EXCEPT ![m.id] = IF @ = m.at THEN 0 ELSE @]
  /\ UNCHANGED <<channelVars, clock, startVars, listAsked, listed, notFound,
                 history, agentVars, connected, toAgent, bounds>>

HubNotFound ==
  /\ HubReads("CHANNEL_NOT_FOUND")
  /\ LET m == Head(toHub)
     IN notFound' = IF attachAsked[m.id] = m.at THEN notFound \cup {m.id} ELSE notFound
  /\ UNCHANGED <<channelVars, clock, startVars, listAsked, listed, attachAsked,
                 history, agentVars, connected, toAgent, bounds>>

(* The attach goes on: the agent had no such terminal, and it is retired,  *)
(* if the answer still applies to what is tracked now.                     *)
ResumeAttach(id) ==
  /\ notFound' = notFound \ {id}
  /\ attachAsked' = [attachAsked EXCEPT ![id] = 0]
  /\ Forget(IF answerStillApplies(id, attachAsked[id]) THEN {id} ELSE {})
  /\ UNCHANGED <<startedAt, clock, startVars, listAsked, listed, history,
                 agentVars, wires, bounds>>

(* The daemon's list arrives.                                              *)
HubStates ==
  /\ HubReads("CHANNEL_STATES")
  /\ listed' = IF listAsked = 0 THEN listed ELSE {Head(toHub).ids}
  /\ UNCHANGED <<channelVars, clock, startVars, listAsked, attachAsked, notFound,
                 history, agentVars, connected, toAgent, bounds>>

(* reconcileChannelState: what the daemon holds that the hub does not know *)
(* is destroyed; what it does not hold is ended and forgotten, where the   *)
(* list still applies.                                                     *)
ResumeList(reported) ==
  /\ toAgent' = toAgent \o
       SetToSeq({Destroy(id, "orphan") : id \in Orphans(reported)})
  /\ Forget({id \in Ids \ reported : answerStillApplies(id, listAsked)})
  /\ listAsked' = 0
  /\ listed' = {}
  /\ judged' = TRUE
  /\ UNCHANGED <<startedAt, clock, startVars, attachAsked, notFound, believed,
                 gaveUp, agentVars, connected, toHub, bounds>>

-----------------------------------------------------------------------------
(* The connection.  A close is a task of its own, and finds what one read  *)
(* answered gone on.                                                       *)

(* A connection is adopted, and its daemon asked what it holds             *)
(* (adoptWhatTheDaemonHolds).                                              *)
Connect ==
  /\ ~connected
  /\ connects < MaxConnects
  /\ clock < MaxClock
  /\ connects' = connects + 1
  /\ connected' = TRUE
  /\ clock' = clock + 1
  /\ listAsked' = clock + 1
  /\ toAgent' = <<Auth>>
  /\ gaveUp' = {}
  /\ judged' = FALSE
  /\ UNCHANGED <<channelVars, startVars, listed, attachAsked, notFound, believed,
                 agentVars, toHub, requests, crashes>>

(* The list did not come in time, or is given up with the connection.      *)
ListTimeout ==
  /\ listAsked # 0
  /\ listAsked' = 0
  /\ UNCHANGED <<channelVars, clock, startVars, listed, attachAsked, notFound,
                 history, agentVars, wires, bounds>>

(* What is under way either way is lost.                                   *)
Disconnected ==
  /\ connected' = FALSE
  /\ toAgent' = <<>>
  /\ toHub' = <<>>
  /\ listAsked' = 0
  /\ judged' = FALSE

Drop ==
  /\ connected
  /\ Disconnected
  /\ UNCHANGED <<channelVars, clock, startVars, listed, attachAsked, notFound,
                 believed, gaveUp, agentVars, bounds>>

(* closeSession: the host was not reached again in time, and every         *)
(* terminal of it is ended and forgotten.                                  *)
CloseSession ==
  /\ ~connected
  /\ \E id \in Ids : tracked[id] # "none"
  /\ Forget({id \in Ids : tracked[id] # "none"})
  /\ UNCHANGED <<startedAt, clock, startVars, askVars, history, agentVars,
                 wires, bounds>>

(* The daemon dies, and its terminals with it; another takes its place.    *)
DaemonDies ==
  /\ crashes < MaxCrashes
  /\ crashes' = crashes + 1
  /\ Disconnected
  /\ table' = [id \in Ids |-> 0]
  /\ running' = {}
  /\ readers' = {}
  /\ exiting' = {}
  /\ away' = <<>>
  /\ UNCHANGED <<channelVars, clock, startVars, listed, attachAsked, notFound,
                 believed, gaveUp, unused, requests, connects>>

(* The hub stops, at any point, and starts: startup tracks what the        *)
(* database has alive.                                                     *)
HubRestart ==
  /\ crashes < MaxCrashes
  /\ crashes' = crashes + 1
  /\ Disconnected
  /\ tracked' = [id \in Ids |-> IF record[id] = "live" THEN "live" ELSE "none"]
  /\ startedAt' = [id \in Ids |-> 0]
  /\ clock' = 0
  /\ starting' = {} /\ starts' = {} /\ answered' = {}
  /\ listed' = {} /\ notFound' = {}
  /\ attachAsked' = [id \in Ids |-> 0]
  /\ UNCHANGED <<record, believed, gaveUp, agentVars, requests, connects>>

-----------------------------------------------------------------------------
(* The agent reads its connection in order, one frame at a time.           *)

AgentReads(type) ==
  toAgent # <<>> /\ Head(toAgent).type = type /\ toAgent' = Tail(toAgent)

(* SPAWN: refused under an id that is taken; it may fail anyway.  SPAWN_OK *)
(* is queued before the reader starts.                                     *)
AgentSpawn ==
  /\ AgentReads("SPAWN")
  /\ LET m == Head(toAgent)
     IN \E id \in (IF m.id = NoId THEN unused ELSE {m.id}) :
          /\ table[id] = 0
          /\ unused' = unused \ {id}
          /\ table' = [table EXCEPT ![id] = m.req]
          /\ running' = running \cup {m.req}
          /\ readers' = readers \cup {[id |-> id, shell |-> m.req]}
          /\ toHub' = Append(toHub, SpawnOk(id, m.req))
  /\ UNCHANGED <<hubVars, exiting, away, connected, bounds>>

AgentSpawnFails ==
  /\ AgentReads("SPAWN")
  /\ toHub' = Append(toHub, SpawnErr(Head(toAgent).req))
  /\ UNCHANGED <<hubVars, agentVars, connected, bounds>>

(* DESTROY: the shell is signalled and its id let go at once.              *)
AgentDestroy ==
  /\ AgentReads("DESTROY")
  /\ LET id == Head(toAgent).id
     IN /\ table' = [table EXCEPT ![id] = 0]
        /\ running' = running \ {table[id]}
  /\ UNCHANGED <<hubVars, unused, readers, exiting, away, connected, toHub, bounds>>

(* ATTACH: answered by the reader of the shell, as long as it reads.       *)
AgentAttach ==
  /\ AgentReads("ATTACH")
  /\ LET m == Head(toAgent)
     IN \/ /\ table[m.id] # 0
           /\ toHub' = Append(toHub, AttachOk(m))
        \/ /\ table[m.id] \notin running
           /\ toHub' = Append(toHub, NotFound(m))
  /\ UNCHANGED <<hubVars, agentVars, connected, bounds>>

(* AUTH: the connection is registered, which sends what was kept while the *)
(* hub was away, and then the list of what its table holds.                *)
AgentList ==
  /\ AgentReads("AUTH")
  /\ toHub' = toHub \o away \o <<States({id \in Ids : table[id] # 0})>>
  /\ away' = <<>>
  /\ UNCHANGED <<hubVars, unused, table, running, readers, exiting, connected, bounds>>

Registered == connected /\ \A i \in 1..Len(toAgent) : toAgent[i].type # "AUTH"

(* A shell ends by itself.                                                 *)
ShellEnds(shell) ==
  /\ running' = running \ {shell}
  /\ UNCHANGED <<hubVars, unused, table, readers, exiting, away, wires, bounds>>

(* The reader of a shell that ended takes its workload back                *)
(* (take_own_workload): its own, or none any more, is reported; one that a *)
(* restart replaced is not.                                                *)
ReaderEnds(r) ==
  /\ r.shell \notin running
  /\ readers' = readers \ {r}
  /\ \/ /\ table[r.id] \in {0, r.shell}
        /\ table' = [table EXCEPT ![r.id] = 0]
        /\ exiting' = exiting \cup {r}
     \/ /\ table[r.id] \notin {0, r.shell}
        /\ UNCHANGED <<table, exiting>>
  /\ UNCHANGED <<hubVars, unused, running, away, wires, bounds>>

(* The router sends an exit to the hub's connection, or keeps it.          *)
RouteExit(r) ==
  /\ exiting' = exiting \ {r}
  /\ IF Registered
     THEN toHub' = Append(toHub, Exit(r)) /\ UNCHANGED away
     ELSE away' = Append(away, Exit(r)) /\ UNCHANGED toHub
  /\ UNCHANGED <<hubVars, unused, table, running, readers, connected, toAgent, bounds>>

-----------------------------------------------------------------------------
(* Frames of one read, and what they resume, before any other task.        *)
HubSteps ==
  \/ HubSpawnOk \/ HubSpawnErr \/ HubExit \/ HubAttachOk \/ HubNotFound
  \/ HubStates
  \/ \E a \in answered : ResumeStart(a)
  \/ \E id \in notFound : ResumeAttach(id)
  \/ \E reported \in listed : ResumeList(reported)

HubTasks ==
  \/ \E id \in Ids :
       RestartClaim(id) \/ ReuseClaim(id) \/ Kill(id) \/ AskAttach(id)
         \/ AttachTimeout(id)
  \/ \E s \in starts : StartRefused(s) \/ SendStart(s) \/ StartTimeout(s)
  \/ SendNew
  \/ Connect \/ Drop \/ ListTimeout \/ CloseSession \/ DaemonDies

AgentSteps ==
  \/ AgentSpawn \/ AgentSpawnFails \/ AgentDestroy \/ AgentAttach \/ AgentList
  \/ \E r \in readers : ReaderEnds(r)
  \/ \E r \in exiting : RouteExit(r)
  \/ \E shell \in running : ShellEnds(shell)

Next ==
  \/ HubSteps
  \/ Settled /\ HubTasks
  \/ HubRestart
  \/ AgentSteps

Spec == Init /\ [][Next]_vars

(* The timer of SPAWN_TIMEOUT_MS fires where no answer was read, and what  *)
(* has its answer goes on.  Nothing is asked of the connection, of the     *)
(* agent, or of the wait for the host before the SPAWN.                    *)
FairSpec ==
  /\ Spec
  /\ \A id \in Ids :
       WF_vars(Settled /\ \E s \in starts : s.id = id /\ StartTimeout(s))
  /\ WF_vars(\E a \in answered : ResumeStart(a))
  /\ WF_vars(\E id \in notFound : ResumeAttach(id))
  /\ WF_vars(\E reported \in listed : ResumeList(reported))

-----------------------------------------------------------------------------
(* Properties.                                                             *)

(* One start of a terminal at a time: whoever restarts it or brings it     *)
(* back, from however many windows, the claim in startingChannels is held  *)
(* by the one start under way and by nothing else (#592).                  *)
OneStartAtATime ==
  /\ \A s, t \in starts : s.id = t.id /\ s.id # NoId => s = t
  /\ starting = {s.id : s \in starts} \ {NoId}

(* What is tracked is what meta.db says, so that a hub that restarts finds *)
(* the terminals it had: none tracked that is recorded otherwise, and none *)
(* recorded alive that is not tracked.                                     *)
RecordAgrees ==
  \A id \in Ids :
    IF tracked[id] = "none" THEN record[id] # "live" ELSE record[id] = tracked[id]

(* Both ends have said and done all they had to, on a connection whose     *)
(* list the hub judged.                                                    *)
Quiet ==
  /\ connected /\ judged
  /\ toAgent = <<>> /\ toHub = <<>>
  /\ Settled /\ starts = {}
  /\ exiting = {}
  /\ \A r \in readers : r.shell \in running

(* No shell runs on where nothing can see it: a daemon holds no shell of   *)
(* an id the hub forgot, whatever connections dropped and whoever crashed, *)
(* but one whose start timed out on this connection (destroyOrphans).      *)
NothingRunsUnseen ==
  Quiet => \A id \in Ids :
             table[id] # 0 /\ tracked[id] = "none" => table[id] \in gaveUp

(* An answer about a terminal ends none that was started since: when a     *)
(* list or an ATTACH's answer makes the hub forget a terminal, no shell    *)
(* runs under its id, but one whose start timed out (#599).                *)
JudgedIsGone ==
  [][(\E reported \in listed : ResumeList(reported))
       \/ (\E id \in notFound : ResumeAttach(id)) =>
       \A id \in Ids :
         tracked[id] # "none" /\ tracked'[id] = "none"
           => table[id] \notin running \ gaveUp]_vars

(* A claim is given back once its SPAWN was sent: no terminal stays        *)
(* "already starting" for ever because the SPAWN or its answer was lost    *)
(* with the connection.  (Before the SPAWN, a start waits for its host,    *)
(* whose questions have no timeout, and keeps the claim as long.)          *)
ClaimIsReleased ==
  \A id \in Ids :
    (\E s \in starts : s.id = id /\ s.req # 0) ~> id \notin starting

(* What handler.rs says of an exit: the exit of a shell that a restart     *)
(* replaced is never read against the terminal that took its place, so     *)
(* that a terminal is not declared dead while its own shell runs.          *)
ExitIsItsOwn ==
  Settled => \A id \in Ids :
    tracked[id] = "dead" => table[id] # believed[id] \/ table[id] \notin running

(* What reconcileChannelState says of a start: a terminal started since    *)
(* the list was asked for is left out of its judgement, so that the DESTROY *)
(* of an orphan never meets the running shell of a terminal shown live.    *)
StartedIsNoOrphan ==
  \A id \in Ids :
    /\ toAgent # <<>>
    /\ Head(toAgent) = Destroy(id, "orphan")
    /\ table[id] \in running
    => ~(tracked[id] = "live" /\ believed[id] = table[id])
=============================================================================
