--------------------------- MODULE HostConnection ---------------------------
(***************************************************************************)
(* How the hub comes by, keeps and lets go of its one connection to an SSH *)
(* host that keeps a daemon: the acquisition a SPAWN or a Connect takes or *)
(* joins (session-acquisition.ts, session-manager.ts), the reconnect after *)
(* a lost link (ssh-connection-manager.ts), the one an ATTACH makes        *)
(* (onReconnectAgent), Disconnect, the session's end and the quit fence.   *)
(*                                                                         *)
(* What waits for something is a task, numbered as it begins.  A task that *)
(* leads an acquisition, makes a session or opens a connection gives it    *)
(* its number.  Between two awaits a task runs alone: a step of it is one  *)
(* action, and anything else happens while it waits.                       *)
(***************************************************************************)
EXTENDS Naturals, FiniteSets

CONSTANTS
  MaxTasks,   \* bound: tasks begun
  Requests    \* the requests that are made, of AllRequests

AllRequests == {"spawn", "connect", "reconnect", "disconnect", "attach",
                "restart", "close", "quit"}

ASSUME MaxTasksAssumption == MaxTasks \in Nat
ASSUME RequestsAssumption == Requests \subseteq AllRequests

Tasks == 1..MaxTasks

VARIABLES
  begun,        \* how many tasks were begun
  tasks,        \* the tasks that wait, see Task
  gone,         \* the SPAWNs whose client left
  session,      \* ctx.sessions: the host's session, 0 when it has none
  status,       \* session -> SessionState.status, "none" before it is made
  terminal,     \* ctx.channels: the SPAWN of each terminal -> its session, or 0
  agent,        \* ctx.agents: the host's connection, 0 when it has none
  open,         \* the connections that are up
  acq,          \* ctx.acquisitions: the host's, 0 when it has none
  promise,      \* acquisition -> its connectPromise
  leases,       \* acquisition -> the tasks that hold a lease of it
  timers,       \* session -> how many reconnect timers are armed for it
  waiting,      \* ctx.reconnectTimers: the session of the one kept, or 0
  controller,   \* ctx.reconnectAbortControllers: the task that set it, or 0
  aborted,      \* the tasks whose controller was aborted
  userDisconnected, \* ctx.userDisconnectedHosts
  quitting,     \* ctx.quitState
  mixed         \* an ATTACH or a restart dialled since all was at rest (history)

taskVars    == <<begun, tasks, gone>>
sessionVars == <<session, status, terminal>>
linkVars    == <<agent, open>>
acqVars     == <<acq, promise, leases>>
retryVars   == <<timers, waiting, controller, aborted>>
holdVars    == <<userDisconnected, quitting>>
vars == <<taskVars, sessionVars, linkVars, acqVars, retryVars, holdVars, mixed>>

(* A SPAWN or a Connect follows an acquisition or dials for its own, then  *)
(* adopts what the daemon holds; a SPAWN then waits for its SPAWN_OK.  A   *)
(* timer's reconnect and an ATTACH's dial for a session that is there.     *)
Task ==
  [n : Tasks,
   kind : {"spawn", "connect", "timer", "attach", "restart"},
   stage : {"follow", "dial", "adopt", "spawn"},
   acq : 0..MaxTasks,    \* the acquisition it leads or follows
   sess : 0..MaxTasks,   \* its session
   conn : 0..MaxTasks]   \* the connection its SPAWN went over

Statuses == {"none", "starting", "active", "disconnected", "detached", "closed"}

TaskTypeOK ==
  /\ begun \in 0..MaxTasks
  /\ tasks \in SUBSET Task
  /\ gone \in SUBSET Tasks

SessionTypeOK ==
  /\ session \in 0..MaxTasks
  /\ status \in [Tasks -> Statuses]
  /\ terminal \in [Tasks -> 0..MaxTasks]

LinkTypeOK == agent \in 0..MaxTasks /\ open \in SUBSET Tasks

AcqTypeOK ==
  /\ acq \in 0..MaxTasks
  /\ promise \in [Tasks -> {"pending", "resolved", "rejected"}]
  /\ leases \in [Tasks -> SUBSET Tasks]

RetryTypeOK ==
  /\ timers \in [Tasks -> Nat]
  /\ waiting \in 0..MaxTasks
  /\ controller \in 0..MaxTasks
  /\ aborted \in SUBSET Tasks

(* The types of the variables.                                             *)
TypeOK ==
  /\ TaskTypeOK /\ SessionTypeOK /\ LinkTypeOK /\ AcqTypeOK /\ RetryTypeOK
  /\ userDisconnected \in BOOLEAN /\ quitting \in BOOLEAN /\ mixed \in BOOLEAN

Init ==
  /\ begun = 0 /\ tasks = {} /\ gone = {}
  /\ session = 0
  /\ status = [s \in Tasks |-> "none"]
  /\ terminal = [n \in Tasks |-> 0]
  /\ agent = 0 /\ open = {}
  /\ acq = 0
  /\ promise = [a \in Tasks |-> "pending"]
  /\ leases = [a \in Tasks |-> {}]
  /\ timers = [s \in Tasks |-> 0]
  /\ waiting = 0
  /\ controller = 0 /\ aborted = {}
  /\ userDisconnected = FALSE /\ quitting = FALSE /\ mixed = FALSE

-----------------------------------------------------------------------------
(* Tasks.                                                                  *)

n1 == begun + 1   \* the number of the task that begins

Begin(kind, stage, a, s, c) ==
  /\ begun < MaxTasks
  /\ begun' = n1
  /\ tasks' = tasks \cup {[n |-> n1, kind |-> kind, stage |-> stage,
                           acq |-> a, sess |-> s, conn |-> c]}
  /\ UNCHANGED gone

Leave(t) == tasks' = tasks \ {t} /\ UNCHANGED <<begun, gone>>

GoTo(t, stage, c) ==
  /\ tasks' = (tasks \ {t}) \cup {[t EXCEPT !.stage = stage, !.conn = c]}
  /\ UNCHANGED <<begun, gone>>

Dialling(t, kinds) == t \in tasks /\ t.stage = "dial" /\ t.kind \in kinds

-----------------------------------------------------------------------------
(* What the hub keeps for the host.                                        *)

(* A terminal of session s, or of the host, that has not ended.            *)
hasChannels(s) == \E n \in Tasks : s # 0 /\ terminal[n] = s
holdsHost == \E n \in Tasks : terminal[n] # 0

(* As if an attempt under way were not looked at.                          *)
hostReconnectingOnTimer ==
  /\ agent = 0
  /\ session # 0 /\ status[session] = "disconnected"
  /\ waiting # 0

(* hostReconnecting: the hub lost the host and is reaching for it again.   *)
hostReconnecting ==
  /\ agent = 0
  /\ session # 0 /\ status[session] = "disconnected"
  /\ waiting # 0 \/ controller # 0

(* getOrCreateSession for an SSH host: the session there is, or a new one. *)
SessionFor(n) ==
  IF session # 0 /\ status[session] \in {"active", "disconnected"}
  THEN session ELSE n

getOrCreateSession ==
  LET s == SessionFor(n1)
  IN /\ session' = s
     /\ status' = [status EXCEPT ![s] = IF s = session THEN @ ELSE "starting"]
     /\ UNCHANGED terminal

(* updateSessionStatus changes the session that is the host's, no other.   *)
updateSessionStatus(s, st) ==
  /\ status' = [status EXCEPT ![s] = IF s = session THEN st ELSE @]
  /\ UNCHANGED <<session, terminal>>

(* The session is said to be closed, and let go of.                        *)
removeSession ==
  /\ session' = 0
  /\ status' = [s \in Tasks |-> IF s = session THEN "closed" ELSE status[s]]
  /\ UNCHANGED terminal

(* As if the attempt under way were left to go on.                         *)
cancelTimerOnly ==
  /\ timers' = [s \in Tasks |-> IF s = waiting THEN timers[s] - 1 ELSE timers[s]]
  /\ waiting' = 0
  /\ UNCHANGED <<controller, aborted>>

(* cancelReconnect: the timer that is kept is cleared, the attempt under   *)
(* way aborted.                                                            *)
cancelReconnect ==
  /\ timers' = [s \in Tasks |-> IF s = waiting THEN timers[s] - 1 ELSE timers[s]]
  /\ waiting' = 0
  /\ aborted' = aborted \cup ({controller} \ {0})
  /\ controller' = 0

(* lifecycle.closeSession: the reconnect is called off, the session ends   *)
(* and every terminal of the host with it.                                 *)
closeSession ==
  /\ cancelReconnect
  /\ session' = 0
  /\ status' = [s \in Tasks |-> IF s = session THEN "closed" ELSE status[s]]
  /\ terminal' = [n \in Tasks |-> 0]

(* The hub lets go of its connection and closes it.                        *)
letGoOfConnection ==
  /\ agent' = 0
  /\ open' = open \ {agent}

(* adoptAgent: the connection a task opened becomes the host's.  One that  *)
(* was the host's is not closed.                                           *)
adoptAgent(c) ==
  /\ agent' = c
  /\ open' = open \cup {c}

(* An attempt registers its controller, having aborted the one there was.  *)
registerController(n) ==
  /\ aborted' = aborted \cup ({controller} \ {0})
  /\ controller' = n

(* Its finally: the controller goes, unless another took its place.        *)
clearController(t) ==
  /\ controller' = IF controller = t.n THEN 0 ELSE controller
  /\ UNCHANGED aborted

(* scheduleReconnect: the timer is kept in the place of any there was,     *)
(* which is not cleared.                                                   *)
scheduleReconnect(s) ==
  IF quitting \/ userDisconnected
  THEN UNCHANGED <<timers, waiting>>
  ELSE /\ timers' = [timers EXCEPT ![s] = @ + 1]
       /\ waiting' = s

-----------------------------------------------------------------------------
(* The acquisition (session-acquisition.ts).                               *)

Settled(a, how) == [promise EXCEPT ![a] = IF @ = "pending" THEN how ELSE @]

acquire ==
  /\ acq' = n1
  /\ leases' = [leases EXCEPT ![n1] = {n1}]
  /\ UNCHANGED promise

join ==
  /\ leases' = [leases EXCEPT ![acq] = @ \cup {n1}]
  /\ UNCHANGED <<acq, promise>>

(* The session a follower is answered with is the leader's.                *)
LeaderSession ==
  IF \E t \in tasks : t.n = acq
  THEN (CHOOSE t \in tasks : t.n = acq).sess ELSE 0

LeasesWithout(t) ==
  IF t.acq = 0 THEN leases ELSE [leases EXCEPT ![t.acq] = @ \ {t.n}]

commit(t) ==
  /\ acq' = IF acq = t.n THEN 0 ELSE acq
  /\ promise' = Settled(t.n, "resolved")

(* failConnectingAcq: fail, then release.                                  *)
failConnectingAcq(t) ==
  /\ acq' = IF acq = t.n THEN 0 ELSE acq
  /\ promise' = Settled(t.n, "rejected")
  /\ leases' = LeasesWithout(t)

(* release: the last lease of the acquisition that is still the host's     *)
(* reaps it, unless something holds the host.                              *)
release(t, holds) ==
  LET reaps == acq # 0 /\ acq = t.acq /\ leases[acq] = {t.n} /\ ~holds
  IN /\ leases' = LeasesWithout(t)
     /\ acq' = IF reaps THEN 0 ELSE acq
     /\ promise' = IF reaps THEN Settled(t.acq, "rejected") ELSE promise

(* As if the waiters were not rejected.                                    *)
closeUnsettled ==
  /\ acq' = 0
  /\ UNCHANGED <<promise, leases>>

(* close, shutdownAll: the host's acquisition is called off, its leases    *)
(* left to those that hold them.                                           *)
closeAcquisition ==
  /\ acq' = 0
  /\ promise' = IF acq = 0 THEN promise ELSE Settled(acq, "rejected")
  /\ UNCHANGED leases

-----------------------------------------------------------------------------
(* SPAWN (handleSpawn).  It ends the hold of a Disconnect, and is refused  *)
(* while the hub reaches for a host it lost.                               *)

(* The host is connected: the terminal starts over its connection, with no *)
(* lease.                                                                  *)
SpawnOnConnected ==
  /\ "spawn" \in Requests /\ ~quitting
  /\ agent # 0
  /\ Begin("spawn", "spawn", 0, SessionFor(n1), agent)
  /\ getOrCreateSession
  /\ userDisconnected' = FALSE
  /\ UNCHANGED <<linkVars, acqVars, retryVars, quitting>>

(* A connection is on its way: the SPAWN joins it.                         *)
SpawnFollows ==
  /\ "spawn" \in Requests /\ ~quitting
  /\ agent = 0 /\ acq # 0 /\ ~hostReconnecting
  /\ Begin("spawn", "follow", acq, LeaderSession, 0)
  /\ join
  /\ userDisconnected' = FALSE
  /\ UNCHANGED <<sessionVars, linkVars, retryVars, quitting>>

(* Nothing is: it acquires the host, and dials.                            *)
SpawnLeads ==
  /\ "spawn" \in Requests /\ ~quitting
  /\ agent = 0 /\ acq = 0 /\ ~hostReconnecting
  /\ Begin("spawn", "dial", n1, SessionFor(n1), 0)
  /\ acquire
  /\ getOrCreateSession
  /\ userDisconnected' = FALSE
  /\ UNCHANGED <<linkVars, retryVars, quitting>>

(* The client of a SPAWN leaves before the host is reached.                *)
ClientLeaves(t) ==
  /\ t \in tasks /\ t.kind = "spawn" /\ t.stage # "spawn"
  /\ t.n \notin gone
  /\ gone' = gone \cup {t.n}
  /\ UNCHANGED <<begun, tasks, sessionVars, linkVars, acqVars, retryVars, holdVars>>

(* The dial of a SPAWN fails, or ends after its acquisition was called off *)
(* or its session replaced.                                                *)
SpawnDialFails(t) ==
  /\ Dialling(t, {"spawn"})
  /\ IF status[t.sess] = "starting" THEN removeSession ELSE UNCHANGED sessionVars
  /\ failConnectingAcq(t)
  /\ Leave(t)
  /\ UNCHANGED <<linkVars, retryVars, holdVars>>

(* As if the session were not looked at again.                             *)
LeaderDialSucceedsAnyway(t) ==
  /\ Dialling(t, {"spawn", "connect"})
  /\ acq = t.n
  /\ updateSessionStatus(t.sess, "active")
  /\ adoptAgent(t.n)
  /\ GoTo(t, "adopt", t.n)
  /\ UNCHANGED <<acqVars, retryVars, holdVars>>

(* The host is reached: the connection is taken up, and the daemon asked   *)
(* what it holds.  A Connect goes the same way.                            *)
LeaderDialSucceeds(t) ==
  /\ Dialling(t, {"spawn", "connect"})
  /\ acq = t.n /\ session = t.sess
  /\ updateSessionStatus(t.sess, "active")
  /\ adoptAgent(t.n)
  /\ GoTo(t, "adopt", t.n)
  /\ UNCHANGED <<acqVars, retryVars, holdVars>>

(* What the daemon says it holds, when it answers, is in the session that  *)
(* is now the host's: the terminals begun before it was asked.             *)
adoptWhatTheDaemonHolds(t) ==
  \E answered \in BOOLEAN :
    /\ answered => t.n \in open
    /\ terminal' = [x \in Tasks |->
                      IF answered /\ session # 0 /\ terminal[x] # 0 /\ x < t.n
                      THEN session ELSE terminal[x]]

(* The terminal starts over connection c, for a client that is there.      *)
SpawnStarts(t, c) ==
  /\ t.n \notin gone /\ ~quitting
  /\ GoTo(t, "spawn", c)
  /\ UNCHANGED <<session, status, linkVars, leases>>

(* A hub that quits sends no SPAWN.                                        *)
SpawnFenced(t) ==
  /\ t.n \notin gone /\ quitting
  /\ Leave(t)
  /\ leases' = LeasesWithout(t)
  /\ UNCHANGED <<session, status, linkVars>>

(* The client left: the last one that wanted the host closes what nothing  *)
(* of the session uses.                                                    *)
SpawnAbandoned(t) ==
  LET last == /\ leases[t.acq] = {t.n}
              /\ session = t.sess
              /\ ~\E x \in Tasks : terminal'[x] = t.sess
  IN /\ t.n \in gone
     /\ Leave(t)
     /\ leases' = LeasesWithout(t)
     /\ IF last
        THEN /\ letGoOfConnection
             /\ session' = 0
             /\ status' = [status EXCEPT ![t.sess] = "closed"]
        ELSE UNCHANGED <<session, status, linkVars>>

(* As if an early return kept the lease.                                   *)
SpawnGivenUpWithLease(t) ==
  /\ Leave(t)
  /\ UNCHANGED <<session, status, linkVars, leases>>

(* The host is not as the SPAWN needs it any more.                         *)
SpawnGivenUp(t) ==
  /\ Leave(t)
  /\ leases' = LeasesWithout(t)
  /\ UNCHANGED <<session, status, linkVars>>

SpawnGoesOn(t, c, reached) ==
  \/ ~reached /\ SpawnGivenUp(t)
  \/ reached /\ (SpawnStarts(t, c) \/ SpawnFenced(t) \/ SpawnAbandoned(t))

(* The leader commits, looks again, and starts its terminal.               *)
SpawnAdopts(t) ==
  /\ t \in tasks /\ t.stage = "adopt" /\ t.kind = "spawn"
  /\ adoptWhatTheDaemonHolds(t)
  /\ commit(t)
  /\ SpawnGoesOn(t, t.n, session = t.sess /\ t.n \in open)
  /\ UNCHANGED <<retryVars, holdVars>>

(* A follower hears of it.                                                 *)
SpawnResumes(t) ==
  /\ t \in tasks /\ t.stage = "follow" /\ t.kind = "spawn"
  /\ promise[t.acq] # "pending"
  /\ UNCHANGED terminal
  /\ SpawnGoesOn(t, agent, /\ promise[t.acq] = "resolved"
                           /\ session = t.sess /\ agent # 0)
  /\ UNCHANGED <<acq, promise, retryVars, holdVars>>

(* SPAWN_OK.  A hub that quits discards it.                                *)
SpawnAnswered(t) ==
  /\ t \in tasks /\ t.stage = "spawn" /\ t.conn \in open
  /\ terminal' = IF quitting THEN terminal ELSE [terminal EXCEPT ![t.n] = t.sess]
  /\ release(t, ~quitting \/ hasChannels(t.sess))
  /\ Leave(t)
  /\ UNCHANGED <<session, status, linkVars, retryVars, holdVars>>

(* SPAWN_ERR, or no answer within SPAWN_TIMEOUT_MS.                        *)
SpawnFails(t) ==
  /\ t \in tasks /\ t.stage = "spawn"
  /\ release(t, hasChannels(t.sess))
  /\ Leave(t)
  /\ UNCHANGED <<sessionVars, linkVars, retryVars, holdVars>>

-----------------------------------------------------------------------------
(* Connect, Reconnect (reachHostOnRequest): a reconnect that waits or is   *)
(* under way gives way.                                                    *)

(* A connection is on its way: this one joins it.                          *)
ReachFollows ==
  /\ acq # 0
  /\ Begin("connect", "follow", acq, LeaderSession, 0)
  /\ join
  /\ UNCHANGED terminal

(* Or it acquires the host, whose session is "starting", new or not.       *)
ReachLeads ==
  LET s == IF agent # 0 /\ session # 0 THEN session ELSE SessionFor(n1)
  IN /\ acq = 0
     /\ Begin("connect", "dial", n1, s, 0)
     /\ acquire
     /\ session' = s
     /\ status' = [status EXCEPT ![s] = "starting"]
     /\ UNCHANGED terminal

ConnectAsked ==
  /\ "connect" \in Requests /\ ~quitting
  /\ agent = 0
  /\ userDisconnected' = FALSE
  /\ cancelReconnect
  /\ ReachLeads \/ (ReachFollows /\ UNCHANGED <<session, status>>)
  /\ UNCHANGED <<linkVars, quitting>>

(* Reconnect drops the connection first, which leaves the session          *)
(* "disconnected".                                                         *)
ReconnectAsked ==
  /\ "reconnect" \in Requests /\ ~quitting
  /\ agent # 0
  /\ userDisconnected' = FALSE
  /\ letGoOfConnection
  /\ cancelReconnect
  /\ \/ ReachLeads
     \/ /\ ReachFollows
        /\ UNCHANGED session
        /\ status' = [s \in Tasks |->
                        IF s = session THEN "disconnected" ELSE status[s]]
  /\ UNCHANGED quitting

(* settleFailedConnect: a session the Connect made goes, another waits.    *)
ConnectDialFails(t) ==
  /\ Dialling(t, {"connect"})
  /\ IF session = t.sess /\ t.sess = t.n THEN removeSession
     ELSE updateSessionStatus(t.sess, "disconnected")
  /\ failConnectingAcq(t)
  /\ Leave(t)
  /\ UNCHANGED <<linkVars, retryVars, holdVars>>

(* The Connect commits, unless it was called off or its connection went    *)
(* while the daemon was asked; its lease goes either way.                  *)
ConnectAdopts(t) ==
  /\ t \in tasks /\ t.stage = "adopt" /\ t.kind = "connect"
  /\ adoptWhatTheDaemonHolds(t)
  /\ IF acq = t.n /\ agent = t.n
     THEN commit(t) /\ leases' = LeasesWithout(t)
     ELSE release(t, holdsHost)
  /\ Leave(t)
  /\ UNCHANGED <<session, status, linkVars, retryVars, holdVars>>

ConnectResumes(t) ==
  /\ t \in tasks /\ t.stage = "follow" /\ t.kind = "connect"
  /\ promise[t.acq] # "pending"
  /\ release(t, holdsHost)
  /\ Leave(t)
  /\ UNCHANGED <<sessionVars, linkVars, retryVars, holdVars>>

-----------------------------------------------------------------------------
(* The reconnect an ATTACH or a restart makes (onReconnectAgent).          *)

ReconnectAgent(kind) ==
  \/ /\ acq # 0
     /\ Begin(kind, "follow", acq, LeaderSession, 0)
     /\ UNCHANGED retryVars
  \/ /\ acq = 0 /\ session # 0
     /\ Begin(kind, "dial", 0, session, 0)
     /\ registerController(n1)
     /\ UNCHANGED <<timers, waiting>>

(* reconnectForAttach: one at a time, and none for a host its user         *)
(* disconnected.                                                           *)
AttachAsked ==
  /\ "attach" \in Requests /\ ~quitting
  /\ holdsHost
  /\ agent = 0 /\ ~userDisconnected
  /\ ~\E t \in tasks : t.kind = "attach"
  /\ ReconnectAgent("attach")
  /\ UNCHANGED <<sessionVars, linkVars, acqVars, holdVars>>

(* restartChannel: refused while the host is reached for; someone acts.    *)
RestartAsked ==
  /\ "restart" \in Requests /\ ~quitting
  /\ agent = 0 /\ ~hostReconnecting
  /\ ReconnectAgent("restart")
  /\ userDisconnected' = FALSE
  /\ UNCHANGED <<sessionVars, linkVars, acqVars, quitting>>

(* It heard of the connection it waited for.                               *)
AgentAwaited(t) ==
  /\ t \in tasks /\ t.stage = "follow" /\ t.kind \in {"attach", "restart"}
  /\ promise[t.acq] # "pending"
  /\ Leave(t)
  /\ UNCHANGED <<sessionVars, linkVars, acqVars, retryVars, holdVars>>

(* Its dial fails, or ends too late.                                       *)
AgentDialFails(t) ==
  /\ Dialling(t, {"attach", "restart"})
  /\ clearController(t)
  /\ Leave(t)
  /\ UNCHANGED <<sessionVars, linkVars, acqVars, timers, waiting, holdVars>>

(* The host is reached by one of these or by the timer: taken up, if the   *)
(* attempt is still the current one.                                       *)
AttemptSucceeds(t) ==
  /\ Dialling(t, {"attach", "restart", "timer"})
  /\ t.n \notin aborted /\ controller = t.n /\ session = t.sess
  /\ ~quitting
  /\ updateSessionStatus(t.sess, "active")
  /\ adoptAgent(t.n)
  /\ GoTo(t, "adopt", t.n)
  /\ UNCHANGED <<acqVars, retryVars, holdVars>>

AttemptAdopts(t) ==
  /\ t \in tasks /\ t.stage = "adopt" /\ t.kind \in {"attach", "restart", "timer"}
  /\ adoptWhatTheDaemonHolds(t)
  /\ clearController(t)
  /\ Leave(t)
  /\ UNCHANGED <<session, status, linkVars, acqVars, timers, waiting, holdVars>>

-----------------------------------------------------------------------------
(* A lost link, and the reconnect that follows (scheduleReconnect).        *)

LinkLost ==
  /\ agent # 0
  /\ letGoOfConnection
  /\ IF session = 0
     THEN UNCHANGED <<sessionVars, timers, waiting>>
     ELSE /\ updateSessionStatus(session, "disconnected")
          /\ scheduleReconnect(session)
  /\ UNCHANGED <<taskVars, acqVars, controller, aborted, holdVars>>

(* A connection that is no longer the host's ends.                         *)
StrayEnds(c) ==
  /\ c \in open \ {agent}
  /\ open' = open \ {c}
  /\ UNCHANGED <<taskVars, sessionVars, agent, acqVars, retryVars, holdVars>>

(* A timer fires: an attempt begins, if the host is still to be reached    *)
(* for this session.  The timer kept is forgotten, whichever fires.        *)
TimerFires(s) ==
  /\ timers[s] > 0
  /\ timers' = [timers EXCEPT ![s] = @ - 1]
  /\ waiting' = 0
  /\ IF agent = 0 /\ session = s /\ ~userDisconnected
     THEN Begin("timer", "dial", 0, s, 0) /\ registerController(n1)
     ELSE UNCHANGED <<taskVars, controller, aborted>>
  /\ UNCHANGED <<sessionVars, linkVars, acqVars, holdVars>>

(* The attempt was aborted, or its session is the host's no more once the  *)
(* host is reached.                                                        *)
TimerGivesUp(t) ==
  /\ Dialling(t, {"timer"})
  /\ t.n \in aborted \/ session # t.sess
  /\ clearController(t)
  /\ Leave(t)
  /\ UNCHANGED <<sessionVars, linkVars, acqVars, timers, waiting, holdVars>>

(* It failed: the next one is armed.                                       *)
TimerDialFails(t) ==
  /\ Dialling(t, {"timer"}) /\ t.n \notin aborted
  /\ scheduleReconnect(t.sess)
  /\ clearController(t)
  /\ Leave(t)
  /\ UNCHANGED <<sessionVars, linkVars, acqVars, holdVars>>

(* It failed RECONNECT_TIMEOUT_MS after the link was lost.                 *)
TimerRunsOut(t) ==
  /\ Dialling(t, {"timer"}) /\ t.n \notin aborted
  /\ IF session = t.sess THEN closeSession
     ELSE clearController(t) /\ UNCHANGED <<sessionVars, timers, waiting>>
  /\ Leave(t)
  /\ UNCHANGED <<linkVars, acqVars, holdVars>>

(* The host is reached while the hub quits: adoptAgent refuses, and the    *)
(* connection is nobody's.                                                 *)
TimerFenced(t) ==
  /\ Dialling(t, {"timer"})
  /\ t.n \notin aborted /\ session = t.sess /\ quitting
  /\ updateSessionStatus(t.sess, "active")
  /\ open' = open \cup {t.n}
  /\ clearController(t)
  /\ Leave(t)
  /\ UNCHANGED <<agent, acqVars, timers, waiting, holdVars>>

-----------------------------------------------------------------------------
(* The ends.                                                               *)

(* Disconnect: the session of a host that keeps a daemon waits, unless it  *)
(* is "starting".                                                          *)
DisconnectAsked ==
  /\ "disconnect" \in Requests /\ ~quitting
  /\ session # 0 \/ agent # 0 \/ acq # 0
  /\ userDisconnected' = TRUE
  /\ closeAcquisition
  /\ letGoOfConnection
  /\ IF session # 0 /\ status[session] # "starting"
     THEN cancelReconnect /\ updateSessionStatus(session, "disconnected")
     ELSE IF session # 0 THEN closeSession
     ELSE cancelReconnect /\ UNCHANGED sessionVars
  /\ UNCHANGED <<taskVars, quitting>>

(* As if the acquisition under way were left to go on.                     *)
beginQuitKeepsAcquisition ==
  /\ "quit" \in Requests /\ ~quitting
  /\ quitting' = TRUE
  /\ cancelReconnect
  /\ UNCHANGED <<taskVars, sessionVars, linkVars, acqVars, userDisconnected>>

(* DELETE /api/sessions/:id.                                               *)
CloseAsked ==
  /\ "close" \in Requests
  /\ session # 0
  /\ letGoOfConnection
  /\ closeAcquisition
  /\ closeSession
  /\ UNCHANGED <<taskVars, holdVars>>

beginQuit ==
  /\ "quit" \in Requests /\ ~quitting
  /\ quitting' = TRUE
  /\ closeAcquisition
  /\ cancelReconnect
  /\ UNCHANGED <<taskVars, sessionVars, linkVars, userDisconnected>>

(* A terminal ends: CHANNEL_EXIT, or not in the daemon's list.             *)
TerminalEnds(n) ==
  /\ terminal[n] # 0 /\ agent # 0
  /\ terminal' = [terminal EXCEPT ![n] = 0]
  /\ UNCHANGED <<taskVars, session, status, linkVars, acqVars, retryVars, holdVars>>

(* checkSessionDetached: the last client lets go of the last terminal it   *)
(* held.                                                                   *)
AllDetached ==
  /\ session # 0 /\ status[session] = "active"
  /\ holdsHost
  /\ updateSessionStatus(session, "detached")
  /\ UNCHANGED <<taskVars, linkVars, acqVars, retryVars, holdVars>>

-----------------------------------------------------------------------------
(* What waits for a promise goes on before anything else happens.          *)
Resuming == \E t \in tasks : t.stage = "follow" /\ promise[t.acq] # "pending"

Resume(t) == SpawnResumes(t) \/ ConnectResumes(t) \/ AgentAwaited(t)

TaskStep(t) ==
  \/ ClientLeaves(t)
  \/ SpawnDialFails(t) \/ ConnectDialFails(t) \/ LeaderDialSucceeds(t)
  \/ SpawnAdopts(t) \/ ConnectAdopts(t)
  \/ SpawnAnswered(t) \/ SpawnFails(t)
  \/ AgentDialFails(t) \/ AttemptSucceeds(t) \/ AttemptAdopts(t)
  \/ TimerGivesUp(t) \/ TimerDialFails(t) \/ TimerRunsOut(t) \/ TimerFenced(t)

Event ==
  \/ SpawnOnConnected \/ SpawnFollows \/ SpawnLeads
  \/ ConnectAsked \/ ReconnectAsked \/ AttachAsked \/ RestartAsked
  \/ LinkLost \/ (\E c \in Tasks : StrayEnds(c)) \/ (\E s \in Tasks : TimerFires(s))
  \/ DisconnectAsked \/ CloseAsked \/ beginQuit
  \/ (\E n \in Tasks : TerminalEnds(n)) \/ AllDetached

Step ==
  \/ \E t \in tasks : Resume(t)
  \/ ~Resuming /\ ((\E t \in tasks : TaskStep(t)) \/ Event)

(* Nothing is under way for the host, or armed, and it has no connection.  *)
AtRest ==
  /\ tasks = {} /\ acq = 0 /\ agent = 0
  /\ \A s \in Tasks : timers[s] = 0
  /\ session # 0 => status[session] # "starting"

(* An ATTACH or a restart dials for itself: onReconnectAgent takes no      *)
(* acquisition and cancels no timer.                                       *)
DialsBeside == \E t \in tasks : t.kind \in {"attach", "restart"} /\ t.stage = "dial"

Next ==
  /\ Step
  /\ mixed' = (~AtRest' /\ (mixed \/ DialsBeside'))

Spec == Init /\ [][Next]_vars

-----------------------------------------------------------------------------
(* Properties.                                                             *)

(* Once beginQuit has latched the hub, nothing that was under way, a dial, *)
(* a reconnect or a timer nobody cleared, gives the host a connection:     *)
(* the quit fence of adoptAgent and the acquisitions it calls off.         *)
QuitAdoptsNothing == [][quitting => agent' \in {agent, 0}]_vars

(* While the hold of a Disconnect lasts, no dial, timer, ATTACH or late    *)
(* answer connects the host: disconnectHost, userDisconnectedHosts.        *)
HoldIsKept == [][userDisconnected /\ userDisconnected' => agent' \in {agent, 0}]_vars

(* A lease is held by a task that is still under way: handleSpawn and      *)
(* reachHostOnRequest release theirs on every way out.                     *)
NoLeaseLeaks ==
  \A a \in Tasks : \A n \in leases[a] : \E t \in tasks : t.n = n /\ t.acq = a

(* A connection never takes the place of one that is up, which the daemon  *)
(* would drop: SPAWN, Connect, Reconnect and the reconnect after a lost    *)
(* link see each other (hostReconnecting, acquisitions, cancelReconnect).  *)
(* The dial of an ATTACH or of a restart sees none of them, and until all  *)
(* of it is at rest again a second connection may come.                    *)
OneConnection == [][agent # 0 /\ ~mixed => agent' \in {agent, 0}]_vars

(* The connection the hub keeps for the host serves a session: ends of     *)
(* sessions and of connections that cross leave no connection behind, but  *)
(* by the dial of an ATTACH or of a restart.                               *)
AgentServesASession == agent # 0 /\ ~mixed => session # 0

(* Nobody waits for a connectPromise whose acquisition is the host's no    *)
(* more: each way an acquisition leaves ctx.acquisitions (commit, fail,    *)
(* release, close, shutdownAll) settles it first, so that Disconnect, a    *)
(* close or a quit frees whoever waits.                                    *)
NobodyIsForgotten ==
  \A t \in tasks :
    t.stage = "follow" /\ promise[t.acq] = "pending" => acq = t.acq

(* Who waits for a connectPromise waits for a task that will settle it:    *)
(* every leader commits or fails its acquisition before it ends.           *)
FollowersHaveALeader ==
  \A t \in tasks :
    t.stage = "follow" /\ promise[t.acq] = "pending" => \E l \in tasks : l.n = t.acq

(* A Disconnect ends no terminal of a host that keeps a daemon:            *)
(* disconnectHost's "A daemon's terminals keep running on the host".       *)
DisconnectKeepsTerminals ==
  [][userDisconnected' /\ ~userDisconnected => terminal' = terminal]_vars

(* A host the hub lost, and was not told to leave, is being reached for or *)
(* will be: the reconnect loop of scheduleReconnect goes on until it       *)
(* succeeds or closes the session.                                         *)
LostIsFollowed ==
  /\ session # 0 /\ status[session] = "disconnected"
  /\ ~userDisconnected /\ ~quitting
  => timers[session] > 0 \/ tasks # {}
=============================================================================
