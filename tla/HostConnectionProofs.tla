------------------------ MODULE HostConnectionProofs ------------------------
(***************************************************************************)
(* Theorems about HostConnection, for any number of tasks and any set of   *)
(* requests.                                                               *)
(***************************************************************************)
EXTENDS HostConnection, TLAPS

(* The timer that is kept is armed: clearing it takes one from the armed.  *)
KeptIsArmed == waiting # 0 => timers[waiting] > 0

(* While the hub quits nothing acquires the host; while its user's hold    *)
(* lasts nothing acquires it and no attempt is current.                    *)
NothingReaches ==
  /\ quitting => acq = 0
  /\ userDisconnected => acq = 0 /\ controller = 0

HostInv == TypeOK /\ KeptIsArmed

-----------------------------------------------------------------------------
(* What each helper leaves of the types.                                   *)

(* A task that begins.                                                     *)
LEMMA BeginType ==
  ASSUME TypeOK, NEW kind \in {"spawn", "connect", "timer", "attach", "restart"},
         NEW stage \in {"follow", "dial", "adopt", "spawn"},
         NEW a \in 0..MaxTasks, NEW s \in 0..MaxTasks, NEW c \in 0..MaxTasks,
         Begin(kind, stage, a, s, c)
  PROVE  TaskTypeOK' /\ n1 \in Tasks
BY MaxTasksAssumption DEF TypeOK, TaskTypeOK, Begin, n1, Task, Tasks

(* A task that ends.                                                       *)
LEMMA LeaveType ==
  ASSUME TypeOK, NEW t, Leave(t)
  PROVE  TaskTypeOK'
BY DEF TypeOK, TaskTypeOK, Leave

(* A task that goes on to another stage.                                   *)
LEMMA GoToType ==
  ASSUME TypeOK, NEW t \in tasks, NEW c \in 0..MaxTasks,
         NEW stage \in {"follow", "dial", "adopt", "spawn"}, GoTo(t, stage, c)
  PROVE  TaskTypeOK'
BY DEF TypeOK, TaskTypeOK, GoTo, Task

(* The fields of a task.                                                   *)
LEMMA TaskFields ==
  ASSUME TypeOK, NEW t \in tasks
  PROVE  /\ t.n \in Tasks /\ t.n # 0
         /\ t.acq \in 0..MaxTasks /\ t.sess \in 0..MaxTasks /\ t.conn \in 0..MaxTasks
BY DEF TypeOK, TaskTypeOK, Task, Tasks

(* The session of the leader.                                              *)
LEMMA LeaderSessionType ==
  ASSUME TypeOK
  PROVE  LeaderSession \in 0..MaxTasks
<1>1. CASE \E t \in tasks : t.n = acq
  BY <1>1, TaskFields DEF LeaderSession
<1>2. CASE ~\E t \in tasks : t.n = acq
  BY <1>2, MaxTasksAssumption DEF LeaderSession
<1>. QED
  BY <1>1, <1>2

(* The session a SPAWN or a Connect is for.                                *)
LEMMA SessionForType ==
  ASSUME TypeOK, n1 \in Tasks
  PROVE  SessionFor(n1) \in Tasks
BY DEF TypeOK, SessionTypeOK, SessionFor, Tasks

(* The session and its status.                                             *)
LEMMA SessionHelpers ==
  ASSUME TypeOK
  PROVE  /\ n1 \in Tasks /\ getOrCreateSession => SessionTypeOK'
         /\ removeSession => SessionTypeOK'
         /\ closeSession => SessionTypeOK'
         /\ \A s \in 0..MaxTasks, st \in Statuses :
              updateSessionStatus(s, st) => SessionTypeOK'
<1>1. n1 \in Tasks /\ getOrCreateSession => SessionTypeOK'
  BY SessionForType DEF TypeOK, SessionTypeOK, getOrCreateSession, Statuses, Tasks
<1>2. removeSession => SessionTypeOK'
  BY MaxTasksAssumption DEF TypeOK, SessionTypeOK, removeSession, Statuses
<1>3. closeSession => SessionTypeOK'
  BY MaxTasksAssumption DEF TypeOK, SessionTypeOK, closeSession, Statuses
<1>4. ASSUME NEW s \in 0..MaxTasks, NEW st \in Statuses, updateSessionStatus(s, st)
      PROVE  SessionTypeOK'
  BY <1>4 DEF TypeOK, SessionTypeOK, updateSessionStatus
<1>. QED
  BY <1>1, <1>2, <1>3, <1>4

(* The connection.                                                         *)
LEMMA LinkHelpers ==
  ASSUME TypeOK
  PROVE  /\ letGoOfConnection => LinkTypeOK'
         /\ \A c \in Tasks : adoptAgent(c) => LinkTypeOK'
<1>1. letGoOfConnection => LinkTypeOK'
  BY MaxTasksAssumption DEF TypeOK, LinkTypeOK, letGoOfConnection
<1>2. \A c \in Tasks : adoptAgent(c) => LinkTypeOK'
  BY DEF TypeOK, LinkTypeOK, adoptAgent, Tasks
<1>. QED
  BY <1>1, <1>2

(* The acquisition, its promise and its leases.                            *)
LEMMA AcqHelpers ==
  ASSUME TypeOK
  PROVE  /\ n1 \in Tasks /\ acquire => AcqTypeOK'
         /\ n1 \in Tasks /\ join => AcqTypeOK'
         /\ closeAcquisition => AcqTypeOK'
         /\ \A t \in tasks : LeasesWithout(t) \in [Tasks -> SUBSET Tasks]
         /\ \A t \in tasks : commit(t) =>
              /\ acq' \in 0..MaxTasks
              /\ promise' \in [Tasks -> {"pending", "resolved", "rejected"}]
         /\ \A t \in tasks : failConnectingAcq(t) => AcqTypeOK'
         /\ \A t \in tasks : \A holds \in BOOLEAN : release(t, holds) => AcqTypeOK'
<1>1. n1 \in Tasks /\ acquire => AcqTypeOK'
  BY DEF TypeOK, AcqTypeOK, acquire, Tasks
<1>2. ASSUME n1 \in Tasks, join
      PROVE  AcqTypeOK'
  <2>1. acq \in Tasks => leases[acq] \cup {n1} \in SUBSET Tasks
    BY <1>2 DEF TypeOK, AcqTypeOK
  <2>2. leases' \in [Tasks -> SUBSET Tasks]
    BY <1>2, <2>1 DEF TypeOK, AcqTypeOK, join
  <2>. QED
    BY <1>2, <2>2 DEF TypeOK, AcqTypeOK, join
<1>3. \A a : \A how \in {"resolved", "rejected"} :
        Settled(a, how) \in [Tasks -> {"pending", "resolved", "rejected"}]
  BY DEF TypeOK, AcqTypeOK, Settled
<1>4. \A t \in tasks : LeasesWithout(t) \in [Tasks -> SUBSET Tasks]
  BY DEF TypeOK, AcqTypeOK, LeasesWithout
<1>5. closeAcquisition => AcqTypeOK'
  BY <1>3, MaxTasksAssumption DEF TypeOK, AcqTypeOK, closeAcquisition
<1>6. ASSUME NEW t \in tasks
      PROVE  /\ commit(t) =>
                  /\ acq' \in 0..MaxTasks
                  /\ promise' \in [Tasks -> {"pending", "resolved", "rejected"}]
             /\ failConnectingAcq(t) => AcqTypeOK'
             /\ \A holds \in BOOLEAN : release(t, holds) => AcqTypeOK'
  BY <1>3, <1>4, MaxTasksAssumption
     DEF TypeOK, AcqTypeOK, commit, failConnectingAcq, release
<1>. QED
  BY <1>1, <1>2, <1>4, <1>5, <1>6

(* The timers and the attempts.                                            *)
LEMMA RetryHelpers ==
  ASSUME TypeOK, KeptIsArmed
  PROVE  /\ cancelReconnect => RetryTypeOK' /\ KeptIsArmed'
         /\ \A s \in 0..MaxTasks : scheduleReconnect(s) =>
              /\ timers' \in [Tasks -> Nat]
              /\ waiting' \in 0..MaxTasks
              /\ KeptIsArmed'
         /\ \A n \in Tasks : registerController(n) =>
              controller' \in 0..MaxTasks /\ aborted' \in SUBSET Tasks
         /\ \A t \in tasks : clearController(t) =>
              controller' \in 0..MaxTasks /\ aborted' \in SUBSET Tasks
<1>1. cancelReconnect => RetryTypeOK' /\ KeptIsArmed'
  BY MaxTasksAssumption DEF TypeOK, RetryTypeOK, KeptIsArmed, cancelReconnect, Tasks
<1>2. ASSUME NEW s \in 0..MaxTasks, scheduleReconnect(s)
      PROVE  /\ timers' \in [Tasks -> Nat]
             /\ waiting' \in 0..MaxTasks
             /\ KeptIsArmed'
  <2>1. CASE quitting \/ userDisconnected
    BY <1>2, <2>1 DEF TypeOK, RetryTypeOK, KeptIsArmed, scheduleReconnect
  <2>2. CASE ~(quitting \/ userDisconnected)
    <3>1. timers' = [timers EXCEPT ![s] = timers[s] + 1] /\ waiting' = s
      BY <1>2, <2>2 DEF scheduleReconnect
    <3>2. timers \in [Tasks -> Nat] /\ (s \in Tasks => timers[s] \in Nat)
      BY DEF TypeOK, RetryTypeOK
    <3>4. s # 0 => s \in Tasks
      BY DEF Tasks
    <3>3. CASE s \in Tasks
      BY <3>1, <3>2, <3>3 DEF KeptIsArmed, Tasks
    <3>5. CASE s \notin Tasks
      <4>1. timers' = timers /\ waiting' = 0
        BY <3>1, <3>2, <3>4, <3>5
      <4>. QED
        BY <4>1, <3>2, MaxTasksAssumption DEF KeptIsArmed
    <3>. QED
      BY <3>3, <3>5
  <2>. QED
    BY <2>1, <2>2
<1>3. \A n \in Tasks : registerController(n) =>
        controller' \in 0..MaxTasks /\ aborted' \in SUBSET Tasks
  BY DEF TypeOK, RetryTypeOK, registerController, Tasks
<1>4. \A t \in tasks : clearController(t) =>
        controller' \in 0..MaxTasks /\ aborted' \in SUBSET Tasks
  BY MaxTasksAssumption DEF TypeOK, RetryTypeOK, clearController
<1>. QED
  BY <1>1, <1>2, <1>3, <1>4

-----------------------------------------------------------------------------
(* Every step keeps the types, and the timer that is kept armed.           *)

(* The steps of SPAWN.                                                     *)
LEMMA SpawnKeepsTypes ==
  ASSUME HostInv, mixed' \in BOOLEAN,
         \/ SpawnOnConnected \/ SpawnFollows \/ SpawnLeads
         \/ \E t \in tasks : \/ ClientLeaves(t) \/ SpawnDialFails(t)
                             \/ LeaderDialSucceeds(t) \/ SpawnAdopts(t)
                             \/ SpawnResumes(t) \/ SpawnAnswered(t) \/ SpawnFails(t)
  PROVE  HostInv'
<1>. USE DEF HostInv
<1>0. agent \in 0..MaxTasks /\ acq \in 0..MaxTasks /\ 0 \in 0..MaxTasks
  BY MaxTasksAssumption DEF TypeOK, LinkTypeOK, AcqTypeOK
<1>s. n1 \in Tasks => n1 \in 0..MaxTasks /\ SessionFor(n1) \in 0..MaxTasks
  BY SessionForType DEF Tasks
<1>n. Begin("spawn", "spawn", 0, SessionFor(n1), agent) \/
      Begin("spawn", "dial", n1, SessionFor(n1), 0) => n1 \in Tasks
  BY MaxTasksAssumption DEF TypeOK, TaskTypeOK, Begin, n1, Tasks
<1>1. CASE SpawnOnConnected
  <2>1. Begin("spawn", "spawn", 0, SessionFor(n1), agent) /\ getOrCreateSession
    BY <1>1 DEF SpawnOnConnected
  <2>2. TaskTypeOK' /\ n1 \in Tasks
    BY <2>1, <1>0, <1>s, <1>n, BeginType
  <2>. QED
    BY <1>1, <2>1, <2>2, SessionHelpers
       DEF SpawnOnConnected, TypeOK, SessionTypeOK, LinkTypeOK, AcqTypeOK, RetryTypeOK, TaskTypeOK, KeptIsArmed,
         sessionVars, linkVars, acqVars, retryVars, holdVars, taskVars
<1>2. CASE SpawnFollows
  <2>1. Begin("spawn", "follow", acq, LeaderSession, 0) /\ join
    BY <1>2 DEF SpawnFollows
  <2>2. TaskTypeOK' /\ n1 \in Tasks
    BY <2>1, <1>0, LeaderSessionType, BeginType
  <2>. QED
    BY <1>2, <2>1, <2>2, AcqHelpers
       DEF SpawnFollows, TypeOK, SessionTypeOK, LinkTypeOK, AcqTypeOK, RetryTypeOK, TaskTypeOK, KeptIsArmed,
         sessionVars, linkVars, acqVars, retryVars, holdVars, taskVars
<1>3. CASE SpawnLeads
  <2>1. Begin("spawn", "dial", n1, SessionFor(n1), 0) /\ getOrCreateSession /\ acquire
    BY <1>3 DEF SpawnLeads
  <2>2. TaskTypeOK' /\ n1 \in Tasks
    BY <2>1, <1>0, <1>s, <1>n, BeginType
  <2>. QED
    BY <1>3, <2>1, <2>2, SessionHelpers, AcqHelpers
       DEF SpawnLeads, TypeOK, SessionTypeOK, LinkTypeOK, AcqTypeOK, RetryTypeOK, TaskTypeOK, KeptIsArmed,
         sessionVars, linkVars, acqVars, retryVars, holdVars, taskVars
<1>4. ASSUME NEW t \in tasks, ClientLeaves(t)
      PROVE  HostInv'
  BY <1>4, TaskFields
     DEF ClientLeaves, TypeOK, SessionTypeOK, LinkTypeOK, AcqTypeOK, RetryTypeOK, TaskTypeOK, KeptIsArmed,
         sessionVars, linkVars, acqVars, retryVars, holdVars, taskVars
<1>5. ASSUME NEW t \in tasks, SpawnDialFails(t)
      PROVE  HostInv'
  <2>1. SessionTypeOK'
    BY <1>5, SessionHelpers DEF SpawnDialFails, TypeOK, SessionTypeOK, sessionVars
  <2>. QED
    BY <1>5, <2>1, AcqHelpers, LeaveType
       DEF SpawnDialFails, TypeOK, SessionTypeOK, LinkTypeOK, AcqTypeOK, RetryTypeOK, TaskTypeOK, KeptIsArmed,
         sessionVars, linkVars, acqVars, retryVars, holdVars, taskVars
<1>6. ASSUME NEW t \in tasks, LeaderDialSucceeds(t)
      PROVE  HostInv'
  <2>1. "active" \in Statuses /\ t.n \in Tasks /\ t.n \in 0..MaxTasks
    BY TaskFields DEF Statuses, Tasks
  <2>2. SessionTypeOK' /\ LinkTypeOK' /\ TaskTypeOK'
    BY <1>6, <2>1, SessionHelpers, LinkHelpers, GoToType, TaskFields
       DEF LeaderDialSucceeds
  <2>. QED
    BY <1>6, <2>2
       DEF LeaderDialSucceeds, TypeOK, SessionTypeOK, LinkTypeOK, AcqTypeOK, RetryTypeOK, TaskTypeOK, KeptIsArmed,
         sessionVars, linkVars, acqVars, retryVars, holdVars, taskVars
<1>7. ASSUME NEW t \in tasks, adoptWhatTheDaemonHolds(t)
      PROVE  terminal' \in [Tasks -> 0..MaxTasks]
  BY <1>7 DEF adoptWhatTheDaemonHolds, TypeOK, SessionTypeOK
<1>8. ASSUME NEW t \in tasks, NEW c \in 0..MaxTasks, NEW reached \in BOOLEAN,
             SpawnGoesOn(t, c, reached)
      PROVE  /\ TaskTypeOK' /\ LinkTypeOK'
             /\ session' \in 0..MaxTasks /\ status' \in [Tasks -> Statuses]
             /\ leases' \in [Tasks -> SUBSET Tasks]
  <2>1. CASE SpawnGivenUp(t) \/ SpawnFenced(t)
    BY <2>1, AcqHelpers, LeaveType
       DEF SpawnGivenUp, SpawnFenced, TypeOK, LinkTypeOK, SessionTypeOK, AcqTypeOK, linkVars
  <2>2. CASE SpawnStarts(t, c)
    BY <2>2, GoToType
       DEF SpawnStarts, TypeOK, LinkTypeOK, SessionTypeOK, AcqTypeOK, linkVars
  <2>3. CASE SpawnAbandoned(t)
    <3>1. TaskTypeOK' /\ leases' \in [Tasks -> SUBSET Tasks]
      BY <2>3, AcqHelpers, LeaveType DEF SpawnAbandoned
    <3>2. \/ letGoOfConnection /\ session' = 0
                /\ status' = [status EXCEPT ![t.sess] = "closed"]
          \/ UNCHANGED <<session, status, linkVars>>
      BY <2>3 DEF SpawnAbandoned
    <3>. QED
      BY <3>1, <3>2, <1>0, LinkHelpers
         DEF TypeOK, LinkTypeOK, SessionTypeOK, linkVars, Statuses
  <2>. QED
    BY <1>8, <2>1, <2>2, <2>3 DEF SpawnGoesOn
<1>9. ASSUME NEW t \in tasks, SpawnAdopts(t)
      PROVE  HostInv'
  <2>1. t.n \in 0..MaxTasks
    BY TaskFields DEF Tasks
  <2>2. /\ terminal' \in [Tasks -> 0..MaxTasks]
        /\ TaskTypeOK' /\ LinkTypeOK'
        /\ session' \in 0..MaxTasks /\ status' \in [Tasks -> Statuses]
        /\ leases' \in [Tasks -> SUBSET Tasks]
    BY <1>9, <2>1, <1>7, <1>8 DEF SpawnAdopts
  <2>. QED
    BY <1>9, <2>2, AcqHelpers
       DEF SpawnAdopts, TypeOK, SessionTypeOK, LinkTypeOK, AcqTypeOK, RetryTypeOK, TaskTypeOK, KeptIsArmed,
         sessionVars, linkVars, acqVars, retryVars, holdVars, taskVars
<1>10. ASSUME NEW t \in tasks, SpawnResumes(t)
       PROVE  HostInv'
  <2>1. /\ TaskTypeOK' /\ LinkTypeOK'
        /\ session' \in 0..MaxTasks /\ status' \in [Tasks -> Statuses]
        /\ leases' \in [Tasks -> SUBSET Tasks]
    BY <1>10, <1>0, <1>8 DEF SpawnResumes
  <2>. QED
    BY <1>10, <2>1
       DEF SpawnResumes, TypeOK, SessionTypeOK, LinkTypeOK, AcqTypeOK, RetryTypeOK, TaskTypeOK, KeptIsArmed,
         sessionVars, linkVars, acqVars, retryVars, holdVars, taskVars
<1>11. ASSUME NEW t \in tasks, SpawnAnswered(t)
       PROVE  HostInv'
  <2>1. AcqTypeOK' /\ TaskTypeOK'
    BY <1>11, AcqHelpers, LeaveType DEF SpawnAnswered, TypeOK, hasChannels
  <2>. QED
    BY <1>11, <2>1, TaskFields
       DEF SpawnAnswered, TypeOK, SessionTypeOK, LinkTypeOK, AcqTypeOK, RetryTypeOK, TaskTypeOK, KeptIsArmed,
         sessionVars, linkVars, acqVars, retryVars, holdVars, taskVars
<1>12. ASSUME NEW t \in tasks, SpawnFails(t)
       PROVE  HostInv'
  <2>1. AcqTypeOK' /\ TaskTypeOK'
    BY <1>12, AcqHelpers, LeaveType DEF SpawnFails, hasChannels
  <2>. QED
    BY <1>12, <2>1
       DEF SpawnFails, TypeOK, SessionTypeOK, LinkTypeOK, AcqTypeOK, RetryTypeOK, TaskTypeOK, KeptIsArmed,
         sessionVars, linkVars, acqVars, retryVars, holdVars, taskVars
<1>. QED
  BY <1>1, <1>2, <1>3, <1>4, <1>5, <1>6, <1>9, <1>10, <1>11, <1>12

(* The steps of Connect and Reconnect.                                     *)
LEMMA ReachKeepsTypes ==
  ASSUME HostInv, mixed' \in BOOLEAN,
         \/ ConnectAsked \/ ReconnectAsked
         \/ \E t \in tasks : ConnectDialFails(t) \/ ConnectAdopts(t) \/ ConnectResumes(t)
  PROVE  HostInv'
<1>. USE DEF HostInv
<1>0. acq \in 0..MaxTasks /\ session \in 0..MaxTasks /\ 0 \in 0..MaxTasks
  BY MaxTasksAssumption DEF TypeOK, SessionTypeOK, AcqTypeOK
<1>1. ASSUME ReachFollows
      PROVE  TaskTypeOK' /\ AcqTypeOK' /\ terminal' \in [Tasks -> 0..MaxTasks]
  <2>1. TaskTypeOK' /\ n1 \in Tasks
    BY <1>0, <1>1, LeaderSessionType, BeginType DEF ReachFollows
  <2>. QED
    BY <1>1, <2>1, AcqHelpers DEF ReachFollows, TypeOK, SessionTypeOK
<1>2. ASSUME ReachLeads
      PROVE  TaskTypeOK' /\ AcqTypeOK' /\ SessionTypeOK'
  <2>. DEFINE s == IF agent # 0 /\ session # 0 THEN session ELSE SessionFor(n1)
  <2>1. /\ Begin("connect", "dial", n1, s, 0) /\ acquire
        /\ session' = s /\ status' = [status EXCEPT ![s] = "starting"]
        /\ UNCHANGED terminal
    BY <1>2 DEF ReachLeads
  <2>2. n1 \in Tasks
    BY <2>1, MaxTasksAssumption DEF TypeOK, TaskTypeOK, Begin, n1, Tasks
  <2>3. s \in Tasks
    BY <1>0, <2>2, SessionForType DEF Tasks
  <2>4. s \in 0..MaxTasks /\ n1 \in 0..MaxTasks
    BY <2>2, <2>3 DEF Tasks
  <2>. HIDE DEF s
  <2>5. TaskTypeOK'
    BY <1>0, <2>1, <2>4, BeginType
  <2>. QED
    BY <2>1, <2>2, <2>4, <2>5, AcqHelpers DEF TypeOK, SessionTypeOK, Statuses
<1>3. CASE ConnectAsked
  <2>1. RetryTypeOK' /\ KeptIsArmed'
    BY <1>3, RetryHelpers DEF ConnectAsked
  <2>2. TaskTypeOK' /\ AcqTypeOK' /\ SessionTypeOK'
    BY <1>1, <1>2, <1>3 DEF ConnectAsked, TypeOK, SessionTypeOK
  <2>. QED
    BY <1>3, <2>1, <2>2 DEF ConnectAsked, TypeOK, LinkTypeOK, linkVars
<1>4. CASE ReconnectAsked
  <2>1. RetryTypeOK' /\ KeptIsArmed' /\ LinkTypeOK'
    BY <1>4, RetryHelpers, LinkHelpers DEF ReconnectAsked
  <2>2. TaskTypeOK' /\ AcqTypeOK' /\ SessionTypeOK'
    BY <1>1, <1>2, <1>4 DEF ReconnectAsked, TypeOK, SessionTypeOK, Statuses
  <2>. QED
    BY <1>4, <2>1, <2>2 DEF ReconnectAsked, TypeOK
<1>5. ASSUME NEW t \in tasks, ConnectDialFails(t)
      PROVE  HostInv'
  <2>1. SessionTypeOK'
    BY <1>5, SessionHelpers, TaskFields DEF ConnectDialFails, Statuses
  <2>. QED
    BY <1>5, <2>1, AcqHelpers, LeaveType
       DEF ConnectDialFails, TypeOK, SessionTypeOK, LinkTypeOK, AcqTypeOK, RetryTypeOK, TaskTypeOK, KeptIsArmed,
         sessionVars, linkVars, acqVars, retryVars, holdVars, taskVars
<1>6. ASSUME NEW t \in tasks, ConnectAdopts(t)
      PROVE  HostInv'
  <2>1. terminal' \in [Tasks -> 0..MaxTasks]
    BY <1>6 DEF ConnectAdopts, adoptWhatTheDaemonHolds, TypeOK, SessionTypeOK
  <2>2. AcqTypeOK' /\ TaskTypeOK'
    BY <1>6, AcqHelpers, LeaveType DEF ConnectAdopts, AcqTypeOK, holdsHost
  <2>. QED
    BY <1>6, <2>1, <2>2
       DEF ConnectAdopts, TypeOK, SessionTypeOK, LinkTypeOK, AcqTypeOK, RetryTypeOK, TaskTypeOK, KeptIsArmed,
         sessionVars, linkVars, acqVars, retryVars, holdVars, taskVars
<1>7. ASSUME NEW t \in tasks, ConnectResumes(t)
      PROVE  HostInv'
  <2>1. AcqTypeOK' /\ TaskTypeOK'
    BY <1>7, AcqHelpers, LeaveType DEF ConnectResumes, holdsHost
  <2>. QED
    BY <1>7, <2>1
       DEF ConnectResumes, TypeOK, SessionTypeOK, LinkTypeOK, AcqTypeOK, RetryTypeOK, TaskTypeOK, KeptIsArmed,
         sessionVars, linkVars, acqVars, retryVars, holdVars, taskVars
<1>. QED
  BY <1>3, <1>4, <1>5, <1>6, <1>7

(* The steps of ATTACH, of a restart and of the timer.                     *)
LEMMA AttemptKeepsTypes ==
  ASSUME HostInv, mixed' \in BOOLEAN,
         \/ AttachAsked \/ RestartAsked \/ \E s \in Tasks : TimerFires(s)
         \/ \E t \in tasks : \/ AgentAwaited(t) \/ AgentDialFails(t)
                             \/ AttemptSucceeds(t) \/ AttemptAdopts(t)
                             \/ TimerGivesUp(t) \/ TimerDialFails(t)
                             \/ TimerRunsOut(t) \/ TimerFenced(t)
  PROVE  HostInv'
<1>. USE DEF HostInv
<1>0. acq \in 0..MaxTasks /\ session \in 0..MaxTasks /\ 0 \in 0..MaxTasks
  BY MaxTasksAssumption DEF TypeOK, SessionTypeOK, AcqTypeOK
<1>1. ASSUME NEW kind \in {"attach", "restart"}, ReconnectAgent(kind)
      PROVE  TaskTypeOK' /\ RetryTypeOK' /\ KeptIsArmed'
  <2>1. CASE Begin(kind, "follow", acq, LeaderSession, 0) /\ UNCHANGED retryVars
    BY <1>0, <2>1, LeaderSessionType, BeginType
       DEF TypeOK, RetryTypeOK, KeptIsArmed, retryVars
  <2>2. CASE /\ Begin(kind, "dial", 0, session, 0)
             /\ registerController(n1) /\ UNCHANGED <<timers, waiting>>
    <3>1. TaskTypeOK' /\ n1 \in Tasks
      BY <1>0, <2>2, BeginType
    <3>. QED
      BY <2>2, <3>1, RetryHelpers DEF TypeOK, RetryTypeOK, KeptIsArmed
  <2>. QED
    BY <1>1, <2>1, <2>2 DEF ReconnectAgent
<1>2. CASE AttachAsked
  <2>1. TaskTypeOK' /\ RetryTypeOK' /\ KeptIsArmed'
    BY <1>1, <1>2 DEF AttachAsked
  <2>. QED
    BY <1>2, <2>1
       DEF AttachAsked, TypeOK, SessionTypeOK, LinkTypeOK, AcqTypeOK, RetryTypeOK, TaskTypeOK, KeptIsArmed,
         sessionVars, linkVars, acqVars, retryVars, holdVars, taskVars
<1>3. CASE RestartAsked
  <2>1. TaskTypeOK' /\ RetryTypeOK' /\ KeptIsArmed'
    BY <1>1, <1>3 DEF RestartAsked
  <2>. QED
    BY <1>3, <2>1
       DEF RestartAsked, TypeOK, SessionTypeOK, LinkTypeOK, AcqTypeOK, RetryTypeOK, TaskTypeOK, KeptIsArmed,
         sessionVars, linkVars, acqVars, retryVars, holdVars, taskVars
<1>4. ASSUME NEW s \in Tasks, TimerFires(s)
      PROVE  HostInv'
  <2>1. timers' \in [Tasks -> Nat] /\ waiting' = 0
    BY <1>4 DEF TimerFires, TypeOK, RetryTypeOK
  <2>2. TaskTypeOK' /\ controller' \in 0..MaxTasks /\ aborted' \in SUBSET Tasks
    <3>1. CASE Begin("timer", "dial", 0, s, 0) /\ registerController(n1)
      <4>1. TaskTypeOK' /\ n1 \in Tasks
        BY <1>0, <3>1, BeginType DEF Tasks
      <4>. QED
        BY <3>1, <4>1, RetryHelpers
    <3>2. CASE UNCHANGED <<taskVars, controller, aborted>>
      BY <3>2 DEF TypeOK, TaskTypeOK, RetryTypeOK, taskVars
    <3>. QED
      BY <1>4, <3>1, <3>2 DEF TimerFires
  <2>. QED
    BY <1>0, <1>4, <2>1, <2>2
       DEF TimerFires, TypeOK, SessionTypeOK, LinkTypeOK, AcqTypeOK, RetryTypeOK, TaskTypeOK, KeptIsArmed,
         sessionVars, linkVars, acqVars, retryVars, holdVars, taskVars
<1>5. ASSUME NEW t \in tasks,
             AgentAwaited(t) \/ AgentDialFails(t) \/ TimerGivesUp(t)
      PROVE  HostInv'
  <2>1. TaskTypeOK' /\ RetryTypeOK' /\ KeptIsArmed'
    BY <1>5, LeaveType, RetryHelpers
       DEF AgentAwaited, AgentDialFails, TimerGivesUp, TypeOK, RetryTypeOK, KeptIsArmed,
           retryVars
  <2>. QED
    BY <1>5, <2>1
       DEF AgentAwaited, AgentDialFails, TimerGivesUp,
           TypeOK, SessionTypeOK, LinkTypeOK, AcqTypeOK, RetryTypeOK, TaskTypeOK, KeptIsArmed,
         sessionVars, linkVars, acqVars, retryVars, holdVars, taskVars
<1>6. ASSUME NEW t \in tasks, AttemptSucceeds(t)
      PROVE  HostInv'
  <2>1. "active" \in Statuses /\ t.n \in Tasks /\ t.n \in 0..MaxTasks
    BY TaskFields DEF Statuses, Tasks
  <2>2. SessionTypeOK' /\ LinkTypeOK' /\ TaskTypeOK'
    BY <1>6, <2>1, SessionHelpers, LinkHelpers, GoToType, TaskFields
       DEF AttemptSucceeds
  <2>. QED
    BY <1>6, <2>2
       DEF AttemptSucceeds, TypeOK, SessionTypeOK, LinkTypeOK, AcqTypeOK, RetryTypeOK, TaskTypeOK, KeptIsArmed,
         sessionVars, linkVars, acqVars, retryVars, holdVars, taskVars
<1>7. ASSUME NEW t \in tasks, AttemptAdopts(t)
      PROVE  HostInv'
  <2>1. terminal' \in [Tasks -> 0..MaxTasks]
    BY <1>7 DEF AttemptAdopts, adoptWhatTheDaemonHolds, TypeOK, SessionTypeOK
  <2>2. TaskTypeOK' /\ RetryTypeOK' /\ KeptIsArmed'
    BY <1>7, LeaveType, RetryHelpers
       DEF AttemptAdopts, TypeOK, RetryTypeOK, KeptIsArmed
  <2>. QED
    BY <1>7, <2>1, <2>2
       DEF AttemptAdopts, TypeOK, SessionTypeOK, LinkTypeOK, AcqTypeOK, RetryTypeOK, TaskTypeOK, KeptIsArmed,
         sessionVars, linkVars, acqVars, retryVars, holdVars, taskVars
<1>8. ASSUME NEW t \in tasks, TimerDialFails(t)
      PROVE  HostInv'
  <2>1. TaskTypeOK' /\ RetryTypeOK' /\ KeptIsArmed'
    BY <1>8, LeaveType, RetryHelpers, TaskFields DEF TimerDialFails, RetryTypeOK
  <2>. QED
    BY <1>8, <2>1
       DEF TimerDialFails, TypeOK, SessionTypeOK, LinkTypeOK, AcqTypeOK, RetryTypeOK, TaskTypeOK, KeptIsArmed,
         sessionVars, linkVars, acqVars, retryVars, holdVars, taskVars
<1>9. ASSUME NEW t \in tasks, TimerRunsOut(t)
      PROVE  HostInv'
  <2>1. CASE closeSession
    BY <1>9, <2>1, SessionHelpers, RetryHelpers, LeaveType
       DEF TimerRunsOut, closeSession, TypeOK, LinkTypeOK, AcqTypeOK, linkVars, acqVars,
           holdVars
  <2>2. CASE clearController(t) /\ UNCHANGED <<sessionVars, timers, waiting>>
    BY <1>9, <2>2, RetryHelpers, LeaveType
       DEF TimerRunsOut, TypeOK, SessionTypeOK, LinkTypeOK, AcqTypeOK, RetryTypeOK, TaskTypeOK, KeptIsArmed,
         sessionVars, linkVars, acqVars, retryVars, holdVars, taskVars
  <2>. QED
    BY <1>9, <2>1, <2>2 DEF TimerRunsOut
<1>10. ASSUME NEW t \in tasks, TimerFenced(t)
       PROVE  HostInv'
  <2>1. SessionTypeOK'
    BY <1>10, SessionHelpers, TaskFields DEF TimerFenced, Statuses
  <2>2. TaskTypeOK' /\ RetryTypeOK' /\ KeptIsArmed'
    BY <1>10, LeaveType, RetryHelpers DEF TimerFenced, TypeOK, RetryTypeOK, KeptIsArmed
  <2>. QED
    BY <1>10, <2>1, <2>2, TaskFields
       DEF TimerFenced, TypeOK, LinkTypeOK, AcqTypeOK, acqVars, holdVars
<1>. QED
  BY <1>2, <1>3, <1>4, <1>5, <1>6, <1>7, <1>8, <1>9, <1>10

(* The steps of the link, and the ends.                                    *)
LEMMA EndsKeepTypes ==
  ASSUME HostInv, mixed' \in BOOLEAN,
         \/ LinkLost \/ (\E c \in Tasks : StrayEnds(c))
         \/ DisconnectAsked \/ CloseAsked \/ beginQuit
         \/ (\E n \in Tasks : TerminalEnds(n)) \/ AllDetached
  PROVE  HostInv'
<1>. USE DEF HostInv
<1>0. session \in 0..MaxTasks /\ "disconnected" \in Statuses /\ "detached" \in Statuses
      /\ 0 \in 0..MaxTasks
  BY MaxTasksAssumption DEF TypeOK, SessionTypeOK, Statuses
<1>1. CASE LinkLost
  <2>1. LinkTypeOK'
    BY <1>1, LinkHelpers DEF LinkLost
  <2>2. SessionTypeOK'
    BY <1>0, <1>1, SessionHelpers DEF LinkLost, TypeOK, SessionTypeOK, sessionVars
  <2>3. RetryTypeOK' /\ KeptIsArmed'
    BY <1>0, <1>1, RetryHelpers DEF LinkLost, TypeOK, RetryTypeOK, KeptIsArmed
  <2>. QED
    BY <1>1, <2>1, <2>2, <2>3
       DEF LinkLost, TypeOK, TaskTypeOK, AcqTypeOK, taskVars, acqVars, holdVars
<1>2. ASSUME NEW c \in Tasks, StrayEnds(c)
      PROVE  HostInv'
  BY <1>2
     DEF StrayEnds, TypeOK, SessionTypeOK, LinkTypeOK, AcqTypeOK, RetryTypeOK, TaskTypeOK, KeptIsArmed,
         sessionVars, linkVars, acqVars, retryVars, holdVars, taskVars
<1>3. CASE DisconnectAsked
  <2>1. LinkTypeOK' /\ AcqTypeOK'
    BY <1>3, LinkHelpers, AcqHelpers DEF DisconnectAsked
  <2>2. SessionTypeOK'
    BY <1>0, <1>3, SessionHelpers DEF DisconnectAsked, TypeOK, SessionTypeOK, sessionVars
  <2>3. RetryTypeOK' /\ KeptIsArmed'
    BY <1>3, RetryHelpers DEF DisconnectAsked, closeSession
  <2>. QED
    BY <1>3, <2>1, <2>2, <2>3 DEF DisconnectAsked, TypeOK, TaskTypeOK, taskVars
<1>4. CASE CloseAsked
  <2>1. LinkTypeOK' /\ AcqTypeOK' /\ SessionTypeOK'
    BY <1>4, LinkHelpers, AcqHelpers, SessionHelpers DEF CloseAsked
  <2>2. RetryTypeOK' /\ KeptIsArmed'
    BY <1>4, RetryHelpers DEF CloseAsked, closeSession
  <2>. QED
    BY <1>4, <2>1, <2>2 DEF CloseAsked, TypeOK, TaskTypeOK, taskVars, holdVars
<1>5. CASE beginQuit
  <2>1. AcqTypeOK' /\ RetryTypeOK' /\ KeptIsArmed'
    BY <1>5, AcqHelpers, RetryHelpers DEF beginQuit
  <2>. QED
    BY <1>5, <2>1
       DEF beginQuit, TypeOK, TaskTypeOK, SessionTypeOK, LinkTypeOK,
           taskVars, sessionVars, linkVars
<1>6. ASSUME NEW n \in Tasks, TerminalEnds(n)
      PROVE  HostInv'
  BY <1>0, <1>6
     DEF TerminalEnds, TypeOK, SessionTypeOK, LinkTypeOK, AcqTypeOK, RetryTypeOK, TaskTypeOK, KeptIsArmed,
         sessionVars, linkVars, acqVars, retryVars, holdVars, taskVars
<1>7. CASE AllDetached
  <2>1. SessionTypeOK'
    BY <1>0, <1>7, SessionHelpers DEF AllDetached
  <2>. QED
    BY <1>7, <2>1
       DEF AllDetached, TypeOK, SessionTypeOK, LinkTypeOK, AcqTypeOK, RetryTypeOK, TaskTypeOK, KeptIsArmed,
         sessionVars, linkVars, acqVars, retryVars, holdVars, taskVars
<1>. QED
  BY <1>1, <1>2, <1>3, <1>4, <1>5, <1>6, <1>7

(* The hub's record of a host is well formed at every step of every task:  *)
(* the maps of session-context.ts hold what their types say, and a timer   *)
(* that is cleared was armed.                                              *)
THEOREM HostTypeCorrect == Spec => []HostInv
<1>1. ASSUME Init
      PROVE  HostInv
  <2>0. 0 \in 0..MaxTasks
    BY MaxTasksAssumption
  <2>1. TaskTypeOK /\ LinkTypeOK
    BY <1>1, <2>0 DEF Init, TaskTypeOK, LinkTypeOK
  <2>2. SessionTypeOK
    BY <1>1, <2>0 DEF Init, SessionTypeOK, Statuses
  <2>3. AcqTypeOK
    BY <1>1, <2>0 DEF Init, AcqTypeOK
  <2>4. RetryTypeOK /\ KeptIsArmed
    BY <1>1, <2>0 DEF Init, RetryTypeOK, KeptIsArmed
  <2>. QED
    BY <1>1, <2>1, <2>2, <2>3, <2>4 DEF Init, HostInv, TypeOK
<1>2. HostInv /\ [Next]_vars => HostInv'
  <2>1. ASSUME HostInv, Next
        PROVE  HostInv'
    <3>1. mixed' \in BOOLEAN
      BY <2>1, Zenon DEF Next
    <3>. QED
    BY <2>1, <3>1, SpawnKeepsTypes, ReachKeepsTypes, AttemptKeepsTypes, EndsKeepTypes
       DEF Next, Step, Resume, TaskStep, Event
  <2>2. ASSUME HostInv, UNCHANGED vars
        PROVE  HostInv'
    BY <2>2 DEF HostInv, vars, TypeOK, SessionTypeOK, LinkTypeOK, AcqTypeOK, RetryTypeOK, TaskTypeOK, KeptIsArmed,
         sessionVars, linkVars, acqVars, retryVars, holdVars, taskVars
  <2>. QED
    BY <2>1, <2>2
<1>. QED
  BY <1>1, <1>2, PTL DEF Spec

-----------------------------------------------------------------------------
(* The holds.                                                              *)

(* Nothing that a step does while a hold lasts reaches for the host.       *)
LEMMA HoldsAreKept ==
  ASSUME HostInv, NothingReaches, [Next]_vars
  PROVE  NothingReaches'
<1>. USE DEF NothingReaches
<1>1. CASE SpawnOnConnected \/ SpawnFollows \/ SpawnLeads \/ RestartAsked
  BY <1>1 DEF SpawnOnConnected, SpawnFollows, SpawnLeads, RestartAsked, join, acqVars,
              retryVars
<1>2. CASE ConnectAsked \/ ReconnectAsked
  BY <1>2 DEF ConnectAsked, ReconnectAsked
<1>3. CASE AttachAsked \/ \E s \in Tasks : TimerFires(s)
  BY <1>3 DEF AttachAsked, TimerFires, acqVars, holdVars
<1>4. CASE DisconnectAsked \/ CloseAsked \/ beginQuit
  BY <1>4 DEF DisconnectAsked, CloseAsked, beginQuit, closeAcquisition, closeSession,
              cancelReconnect, holdVars
<1>5. CASE \/ LinkLost \/ (\E c \in Tasks : StrayEnds(c))
           \/ (\E n \in Tasks : TerminalEnds(n)) \/ AllDetached
  BY <1>5 DEF LinkLost, StrayEnds, TerminalEnds, AllDetached, acqVars, retryVars, holdVars
<1>6. ASSUME NEW t \in tasks, \/ ClientLeaves(t) \/ SpawnDialFails(t)
                              \/ LeaderDialSucceeds(t) \/ SpawnAdopts(t)
                              \/ SpawnResumes(t) \/ SpawnAnswered(t) \/ SpawnFails(t)
      PROVE  NothingReaches'
  <2>1. CASE ClientLeaves(t)
    BY <2>1 DEF ClientLeaves, acqVars, retryVars, holdVars
  <2>2. CASE LeaderDialSucceeds(t)
    BY <2>2 DEF LeaderDialSucceeds, acqVars, retryVars, holdVars
  <2>3. CASE SpawnResumes(t)
    BY <2>3 DEF SpawnResumes, retryVars, holdVars
  <2>4. CASE SpawnDialFails(t)
    BY <2>4 DEF SpawnDialFails, failConnectingAcq, retryVars, holdVars
  <2>5. CASE SpawnAdopts(t)
    BY <2>5 DEF SpawnAdopts, commit, retryVars, holdVars
  <2>6. CASE SpawnAnswered(t)
    BY <2>6 DEF SpawnAnswered, release, retryVars, holdVars
  <2>7. CASE SpawnFails(t)
    BY <2>7 DEF SpawnFails, release, retryVars, holdVars
  <2>. QED
    BY <1>6, <2>1, <2>2, <2>3, <2>4, <2>5, <2>6, <2>7
<1>7. ASSUME NEW t \in tasks, ConnectDialFails(t) \/ ConnectAdopts(t) \/ ConnectResumes(t)
      PROVE  NothingReaches'
  BY <1>7 DEF ConnectDialFails, ConnectAdopts, ConnectResumes, failConnectingAcq, commit,
              release, retryVars, holdVars
<1>8. ASSUME NEW t \in tasks, \/ AgentAwaited(t) \/ AgentDialFails(t)
                              \/ AttemptSucceeds(t) \/ AttemptAdopts(t)
                              \/ TimerGivesUp(t) \/ TimerDialFails(t)
                              \/ TimerRunsOut(t) \/ TimerFenced(t)
      PROVE  NothingReaches'
  BY <1>8 DEF AgentAwaited, AgentDialFails, AttemptSucceeds, AttemptAdopts, TimerGivesUp,
              TimerDialFails, TimerRunsOut, TimerFenced, clearController, closeSession,
              cancelReconnect, acqVars, retryVars, holdVars
<1>9. CASE UNCHANGED vars
  BY <1>9 DEF vars, acqVars, retryVars, holdVars
<1>. QED
  BY <1>1, <1>2, <1>3, <1>4, <1>5, <1>6, <1>7, <1>8, <1>9 DEF Next, Step, Resume, TaskStep, Event

(* So it is in every reachable state.                                      *)
LEMMA NothingReachesHolds == Spec => []NothingReaches
<1>1. Init => NothingReaches
  BY DEF Init, NothingReaches
<1>. QED
  BY <1>1, HoldsAreKept, HostTypeCorrect, PTL DEF Spec

(* Only a dial that succeeds gives the host another connection.            *)
LEMMA OnlyADialConnects ==
  ASSUME [Next]_vars, \A t \in tasks : ~LeaderDialSucceeds(t) /\ ~AttemptSucceeds(t)
  PROVE  agent' \in {agent, 0}
<1>1. CASE \/ SpawnOnConnected \/ SpawnFollows \/ SpawnLeads \/ RestartAsked
           \/ ConnectAsked \/ ReconnectAsked \/ AttachAsked
           \/ \E s \in Tasks : TimerFires(s)
  BY <1>1 DEF SpawnOnConnected, SpawnFollows, SpawnLeads, RestartAsked, ConnectAsked,
              ReconnectAsked, AttachAsked, TimerFires, letGoOfConnection, linkVars
<1>2. CASE \/ DisconnectAsked \/ CloseAsked \/ beginQuit
           \/ LinkLost \/ (\E c \in Tasks : StrayEnds(c))
           \/ (\E n \in Tasks : TerminalEnds(n)) \/ AllDetached
  BY <1>2 DEF DisconnectAsked, CloseAsked, beginQuit, LinkLost, StrayEnds, TerminalEnds,
              AllDetached, letGoOfConnection, linkVars
<1>3. ASSUME NEW t \in tasks, SpawnAdopts(t) \/ SpawnResumes(t)
      PROVE  agent' \in {agent, 0}
  BY <1>3 DEF SpawnAdopts, SpawnResumes, SpawnGoesOn, SpawnGivenUp, SpawnStarts,
              SpawnFenced, SpawnAbandoned, letGoOfConnection, linkVars
<1>4. ASSUME NEW t \in tasks, \/ ClientLeaves(t) \/ SpawnDialFails(t)
                              \/ SpawnAnswered(t) \/ SpawnFails(t) \/ ConnectDialFails(t)
                              \/ ConnectAdopts(t) \/ ConnectResumes(t) \/ AgentAwaited(t)
                              \/ AgentDialFails(t) \/ AttemptAdopts(t) \/ TimerGivesUp(t)
                              \/ TimerDialFails(t) \/ TimerRunsOut(t) \/ TimerFenced(t)
      PROVE  agent' \in {agent, 0}
  BY <1>4 DEF ClientLeaves, SpawnDialFails, SpawnAnswered, SpawnFails, ConnectDialFails,
              ConnectAdopts, ConnectResumes, AgentAwaited, AgentDialFails, AttemptAdopts,
              TimerGivesUp, TimerDialFails, TimerRunsOut, TimerFenced, linkVars
<1>5. CASE UNCHANGED vars
  BY <1>5 DEF vars, linkVars
<1>. QED
  BY <1>1, <1>2, <1>3, <1>4, <1>5 DEF Next, Step, Resume, TaskStep, Event

(* That is a leader's whose acquisition is the host's, or an attempt's     *)
(* that is current.                                                        *)
LEMMA WhoConnects ==
  ASSUME HostInv, [Next]_vars
  PROVE  \/ agent' \in {agent, 0}
         \/ acq # 0 /\ UNCHANGED holdVars
         \/ controller # 0 /\ ~quitting /\ UNCHANGED holdVars
<1>1. ASSUME NEW t \in tasks, LeaderDialSucceeds(t)
      PROVE  acq # 0 /\ UNCHANGED holdVars
  BY <1>1, TaskFields DEF LeaderDialSucceeds, HostInv
<1>2. ASSUME NEW t \in tasks, AttemptSucceeds(t)
      PROVE  controller # 0 /\ ~quitting /\ UNCHANGED holdVars
  BY <1>2, TaskFields DEF AttemptSucceeds, HostInv
<1>. QED
  BY <1>1, <1>2, OnlyADialConnects

(* However many SPAWNs, Connects, ATTACHs, restarts and stray timers are   *)
(* under way when beginQuit latches the hub, none of them connects the     *)
(* host.                                                                   *)
THEOREM QuitIsFinal == Spec => QuitAdoptsNothing
<1>1. HostInv /\ NothingReaches /\ [Next]_vars => [quitting => agent' \in {agent, 0}]_vars
  BY WhoConnects DEF NothingReaches
<1>. QED
  BY <1>1, HostTypeCorrect, NothingReachesHolds, PTL DEF Spec, QuitAdoptsNothing

(* However many are under way when a user disconnects the host, none of    *)
(* them connects it until someone acts on it.                              *)
THEOREM DisconnectIsKept == Spec => HoldIsKept
<1>1. HostInv /\ NothingReaches /\ [Next]_vars
        => [userDisconnected /\ userDisconnected' => agent' \in {agent, 0}]_vars
  BY WhoConnects DEF NothingReaches
<1>. QED
  BY <1>1, HostTypeCorrect, NothingReachesHolds, PTL DEF Spec, HoldIsKept

-----------------------------------------------------------------------------
(* The leases, and those who wait for an acquisition.                      *)

(* A task has a number that was given.                                     *)
Numbered == \A t \in tasks : t.n <= begun

(* An ATTACH, a restart and a timer take no lease.                         *)
AttemptsHoldNone ==
  \A t \in tasks : t.kind \in {"attach", "restart", "timer"}
                    => \A a \in Tasks : t.n \notin leases[a]

(* Who follows an acquisition follows one that was made.                   *)
FollowersFollow == \A t \in tasks : t.stage = "follow" => t.acq # 0

LeaseInv == Numbered /\ AttemptsHoldNone /\ NoLeaseLeaks
WaitInv == FollowersFollow /\ NobodyIsForgotten

(* The number of a task that begins is held by nobody.                     *)
LEMMA NewHoldsNone ==
  ASSUME TypeOK, LeaseInv
  PROVE  /\ \A a \in Tasks : n1 \notin leases[a]
         /\ \A t \in tasks : t.n # n1
<1>1. \A t \in tasks : t.n \in Nat /\ t.n <= begun /\ begun \in Nat
  BY TaskFields DEF LeaseInv, Numbered, Tasks, TypeOK, TaskTypeOK
<1>2. \A t \in tasks : t.n # n1
  BY <1>1 DEF n1
<1>. QED
  BY <1>2 DEF LeaseInv, NoLeaseLeaks

(* A task that ends without its lease leaves the others as they were.      *)
LEMMA LeaveReleases ==
  ASSUME TypeOK, LeaseInv, NEW t \in tasks, Leave(t), leases' = LeasesWithout(t)
  PROVE  LeaseInv'
<1>1. \A a \in Tasks : leases'[a] = IF a = t.acq THEN leases[a] \ {t.n} ELSE leases[a]
  <2>1. CASE t.acq = 0
    BY <2>1 DEF LeasesWithout, Tasks
  <2>2. CASE t.acq # 0
    BY <2>2 DEF LeasesWithout, TypeOK, AcqTypeOK
  <2>. QED
    BY <2>1, <2>2
<1>2. NoLeaseLeaks'
  <2>1. SUFFICES ASSUME NEW a \in Tasks, NEW n \in leases'[a]
                 PROVE  \E u \in tasks' : u.n = n /\ u.acq = a
    BY DEF NoLeaseLeaks
  <2>2. PICK u \in tasks : u.n = n /\ u.acq = a
    BY <1>1, <2>1 DEF LeaseInv, NoLeaseLeaks
  <2>3. u # t
    BY <1>1, <2>1, <2>2
  <2>. QED
    BY <2>2, <2>3 DEF Leave
<1>. QED
  BY <1>1, <1>2 DEF LeaseInv, Numbered, AttemptsHoldNone, Leave

(* An attempt that ends held no lease.                                     *)
LEMMA LeaveOfAttempt ==
  ASSUME TypeOK, LeaseInv, NEW t \in tasks, Leave(t), UNCHANGED leases,
         t.kind \in {"attach", "restart", "timer"}
  PROVE  LeaseInv'
BY DEF LeaseInv, Numbered, AttemptsHoldNone, NoLeaseLeaks, Leave

(* A task that goes on keeps its lease.                                    *)
LEMMA GoToKeepsLeases ==
  ASSUME TypeOK, LeaseInv, NEW t \in tasks, NEW stage, NEW c,
         GoTo(t, stage, c), UNCHANGED leases
  PROVE  LeaseInv'
<1>. DEFINE u == [t EXCEPT !.stage = stage, !.conn = c]
<1>1. u.n = t.n /\ u.acq = t.acq /\ u.kind = t.kind
  BY DEF TypeOK, TaskTypeOK, Task
<1>2. tasks' = (tasks \ {t}) \cup {u} /\ begun' = begun
  BY DEF GoTo
<1>. HIDE DEF u
<1>. QED
  BY <1>1, <1>2 DEF LeaseInv, Numbered, AttemptsHoldNone, NoLeaseLeaks

(* A task begins, with a lease of what it leads or follows or with none.   *)
LEMMA BeginKeepsLeases ==
  ASSUME TypeOK, LeaseInv, NEW kind, NEW stage, NEW a \in 0..MaxTasks, NEW s, NEW c,
         Begin(kind, stage, a, s, c), n1 \in Tasks,
         \/ UNCHANGED leases
         \/ /\ kind \in {"spawn", "connect"} /\ a \in Tasks
            /\ \E l \in {{}, leases[a]} : leases' = [leases EXCEPT ![a] = l \cup {n1}]
  PROVE  LeaseInv'
<1>. DEFINE u == [n |-> n1, kind |-> kind, stage |-> stage, acq |-> a, sess |-> s, conn |-> c]
<1>1. u.n = n1 /\ u.acq = a /\ u.kind = kind
  OBVIOUS
<1>2. tasks' = tasks \cup {u} /\ begun' = n1
  BY DEF Begin
<1>. HIDE DEF u
<1>3. Numbered'
  <2>1. \A t \in tasks : t.n <= n1
    BY TaskFields DEF LeaseInv, Numbered, n1, TypeOK, TaskTypeOK, Tasks
  <2>2. n1 <= n1
    BY DEF Tasks
  <2>. QED
    BY <1>1, <1>2, <2>1, <2>2 DEF Numbered
<1>4. \A b \in Tasks : \/ leases'[b] \subseteq leases[b]
                        \/ /\ kind \in {"spawn", "connect"} /\ b = a
                           /\ leases'[b] \subseteq leases[b] \cup {n1}
  BY DEF TypeOK, AcqTypeOK
<1>5. NoLeaseLeaks'
  BY <1>1, <1>2, <1>4 DEF NoLeaseLeaks, LeaseInv
<1>6. AttemptsHoldNone'
  BY <1>1, <1>2, <1>4, NewHoldsNone DEF AttemptsHoldNone, LeaseInv
<1>. QED
  BY <1>3, <1>5, <1>6 DEF LeaseInv

-----------------------------------------------------------------------------
(* What a SPAWN does with its lease as it goes on.                         *)
LEMMA SpawnGoesOnKeepsLeases ==
  ASSUME TypeOK, LeaseInv, NEW t \in tasks, NEW c, NEW reached \in BOOLEAN,
         SpawnGoesOn(t, c, reached)
  PROVE  LeaseInv'
<1>1. CASE Leave(t) /\ leases' = LeasesWithout(t)
  BY <1>1, LeaveReleases
<1>2. CASE GoTo(t, "spawn", c) /\ UNCHANGED leases
  BY <1>2, GoToKeepsLeases
<1>. QED
  BY <1>1, <1>2 DEF SpawnGoesOn, SpawnGivenUp, SpawnStarts, SpawnFenced, SpawnAbandoned

(* Every step keeps the leases true: each way out of handleSpawn and of    *)
(* reachHostOnRequest.                                                     *)
LEMMA LeasesAreKept ==
  ASSUME HostInv, LeaseInv, [Next]_vars
  PROVE  LeaseInv'
<1>. USE DEF HostInv
<1>0. acq \in 0..MaxTasks /\ agent \in 0..MaxTasks /\ session \in 0..MaxTasks /\ 0 \in 0..MaxTasks
      /\ (acq # 0 => acq \in Tasks)
  BY MaxTasksAssumption DEF TypeOK, AcqTypeOK, LinkTypeOK, SessionTypeOK, Tasks
<1>1. ASSUME NEW kind, NEW stage, NEW a, NEW s, NEW c, Begin(kind, stage, a, s, c)
      PROVE  n1 \in Tasks /\ n1 \in 0..MaxTasks
  BY <1>1, MaxTasksAssumption DEF Begin, n1, Tasks, TypeOK, TaskTypeOK
<1>2. CASE UNCHANGED <<taskVars, leases>>
  BY <1>2 DEF LeaseInv, Numbered, AttemptsHoldNone, NoLeaseLeaks, taskVars
<1>3. ASSUME NEW kind, NEW stage, NEW a \in {0, acq}, NEW s, NEW c,
             Begin(kind, stage, a, s, c), UNCHANGED leases
      PROVE  LeaseInv'
  <2>1. a \in 0..MaxTasks
    BY <1>0
  <2>. QED
    BY <1>1, <1>3, <2>1, BeginKeepsLeases
<1>4. ASSUME NEW kind \in {"spawn", "connect"}, NEW s, Begin(kind, "follow", acq, s, 0),
             acq # 0, join
      PROVE  LeaseInv'
  <2>1. \E l \in {{}, leases[acq]} : leases' = [leases EXCEPT ![acq] = l \cup {n1}]
    BY <1>4 DEF join
  <2>. QED
    BY <1>0, <1>1, <1>4, <2>1, BeginKeepsLeases
<1>5. ASSUME NEW kind \in {"spawn", "connect"}, NEW s, Begin(kind, "dial", n1, s, 0), acquire
      PROVE  LeaseInv'
  <2>1. n1 \in Tasks /\ n1 \in 0..MaxTasks
    BY <1>1, <1>5
  <2>2. \E l \in {{}, leases[n1]} : leases' = [leases EXCEPT ![n1] = l \cup {n1}]
    BY <1>5 DEF acquire
  <2>. QED
    BY <1>5, <2>1, <2>2, BeginKeepsLeases
<1>6. CASE SpawnOnConnected \/ SpawnFollows \/ SpawnLeads
  BY <1>3, <1>4, <1>5, <1>6 DEF SpawnOnConnected, SpawnFollows, SpawnLeads, acqVars
<1>7. CASE ConnectAsked \/ ReconnectAsked
  BY <1>4, <1>5, <1>7 DEF ConnectAsked, ReconnectAsked, ReachLeads, ReachFollows
<1>8. CASE AttachAsked \/ RestartAsked
  BY <1>3, <1>8 DEF AttachAsked, RestartAsked, ReconnectAgent, acqVars
<1>9. ASSUME NEW s \in Tasks, TimerFires(s)
      PROVE  LeaseInv'
  BY <1>2, <1>3, <1>9 DEF TimerFires, acqVars, taskVars
<1>10. CASE \/ LinkLost \/ (\E c \in Tasks : StrayEnds(c))
            \/ DisconnectAsked \/ CloseAsked \/ beginQuit
            \/ (\E n \in Tasks : TerminalEnds(n)) \/ AllDetached
  BY <1>2, <1>10
     DEF LinkLost, StrayEnds, DisconnectAsked, CloseAsked, beginQuit, TerminalEnds,
         AllDetached, closeAcquisition, acqVars
<1>11. ASSUME NEW t \in tasks, ClientLeaves(t)
       PROVE  LeaseInv'
  BY <1>11 DEF ClientLeaves, acqVars, LeaseInv, Numbered, AttemptsHoldNone, NoLeaseLeaks
<1>12. ASSUME NEW t \in tasks, \/ SpawnDialFails(t) \/ ConnectDialFails(t)
                               \/ ConnectAdopts(t) \/ ConnectResumes(t)
                               \/ SpawnAnswered(t) \/ SpawnFails(t)
       PROVE  LeaseInv'
  BY <1>12, LeaveReleases
     DEF SpawnDialFails, ConnectDialFails, ConnectAdopts, ConnectResumes, SpawnAnswered,
         SpawnFails, failConnectingAcq, release
<1>13. ASSUME NEW t \in tasks, SpawnAdopts(t) \/ SpawnResumes(t)
       PROVE  LeaseInv'
  BY <1>13, SpawnGoesOnKeepsLeases DEF SpawnAdopts, SpawnResumes
<1>14. ASSUME NEW t \in tasks, LeaderDialSucceeds(t) \/ AttemptSucceeds(t)
       PROVE  LeaseInv'
  BY <1>14, GoToKeepsLeases DEF LeaderDialSucceeds, AttemptSucceeds, acqVars
<1>15. ASSUME NEW t \in tasks, \/ AgentAwaited(t) \/ AgentDialFails(t) \/ AttemptAdopts(t)
                               \/ TimerGivesUp(t) \/ TimerDialFails(t)
                               \/ TimerRunsOut(t) \/ TimerFenced(t)
       PROVE  LeaseInv'
  BY <1>15, LeaveOfAttempt
     DEF AgentAwaited, AgentDialFails, AttemptAdopts, TimerGivesUp, TimerDialFails,
         TimerRunsOut, TimerFenced, Dialling, acqVars
<1>16. CASE UNCHANGED vars
  BY <1>2, <1>16 DEF vars, taskVars, acqVars
<1>. QED
  BY <1>6, <1>7, <1>8, <1>9, <1>10, <1>11, <1>12, <1>13, <1>14, <1>15, <1>16
     DEF Next, Step, Resume, TaskStep, Event

(* A lease is held by a task that is under way, however many SPAWNs and    *)
(* Connects cross and however they end.                                    *)
THEOREM LeasesComeBack == Spec => []NoLeaseLeaks
<1>1. Init => LeaseInv
  BY DEF Init, LeaseInv, Numbered, AttemptsHoldNone, NoLeaseLeaks
<1>2. LeaseInv => NoLeaseLeaks
  BY DEF LeaseInv
<1>. QED
  BY <1>1, <1>2, LeasesAreKept, HostTypeCorrect, PTL DEF Spec
-----------------------------------------------------------------------------
(* Those who wait.                                                         *)

(* An acquisition is the host's no more only once it is settled, and what  *)
(* is settled stays so.                                                    *)
SettledAsItGoes ==
  /\ \A a \in Tasks : promise'[a] = "pending" => promise[a] = "pending"
  /\ \A a \in Tasks : acq = a /\ acq' # a => promise'[a] # "pending"

(* An acquisition that is the host's no more is settled.                   *)
LEMMA AcquisitionsSettle ==
  ASSUME TypeOK
  PROVE  /\ closeAcquisition => SettledAsItGoes
         /\ \A t \in tasks : commit(t) => SettledAsItGoes
         /\ \A t \in tasks : failConnectingAcq(t) => SettledAsItGoes
         /\ \A t \in tasks : \A holds \in BOOLEAN : release(t, holds) => SettledAsItGoes
         /\ UNCHANGED <<acq, promise>> => SettledAsItGoes
<1>1. \A a, b \in Tasks : \A how \in {"resolved", "rejected"} :
        /\ Settled(a, how)[b] = "pending" => promise[b] = "pending"
        /\ Settled(a, how)[a] # "pending"
  BY DEF Settled, TypeOK, AcqTypeOK
<1>2. closeAcquisition => SettledAsItGoes
  BY <1>1 DEF closeAcquisition, SettledAsItGoes, TypeOK, AcqTypeOK, Tasks
<1>3. ASSUME NEW t \in tasks, commit(t) \/ failConnectingAcq(t)
      PROVE  SettledAsItGoes
  BY <1>1, <1>3, TaskFields DEF commit, failConnectingAcq, SettledAsItGoes
<1>4. ASSUME NEW t \in tasks, NEW holds \in BOOLEAN, release(t, holds)
      PROVE  SettledAsItGoes
  BY <1>1, <1>4 DEF release, SettledAsItGoes, TypeOK, AcqTypeOK, Tasks
<1>5. UNCHANGED <<acq, promise>> => SettledAsItGoes
  BY DEF SettledAsItGoes
<1>. QED
  BY <1>2, <1>3, <1>4, <1>5

(* Nobody begins to wait in such a step.                                   *)
LEMMA SettlingForgetsNobody ==
  ASSUME TypeOK, WaitInv, SettledAsItGoes,
         \A t \in tasks' : t.stage = "follow" => t \in tasks
  PROVE  WaitInv'
<1>1. \A t \in tasks : t.stage = "follow" => t.acq \in Tasks
  BY TaskFields DEF WaitInv, FollowersFollow, Tasks
<1>. QED
  BY <1>1 DEF WaitInv, FollowersFollow, NobodyIsForgotten, SettledAsItGoes

(* Who begins to follow follows the host's acquisition; while it has one   *)
(* no other is made.                                                       *)
LEMMA BeginForgetsNobody ==
  ASSUME TypeOK, WaitInv, NEW kind, NEW stage, NEW a, NEW s, NEW c,
         Begin(kind, stage, a, s, c), stage = "follow" => acq # 0 /\ a = acq,
         UNCHANGED promise, acq' = acq \/ (acq = 0 /\ stage # "follow")
  PROVE  WaitInv'
<1>. DEFINE u == [n |-> n1, kind |-> kind, stage |-> stage, acq |-> a, sess |-> s, conn |-> c]
<1>1. u.stage = stage /\ u.acq = a
  OBVIOUS
<1>2. tasks' = tasks \cup {u}
  BY DEF Begin
<1>. HIDE DEF u
<1>3. FollowersFollow'
  BY <1>1, <1>2 DEF WaitInv, FollowersFollow
<1>4. ASSUME NEW t \in tasks', t.stage = "follow", promise'[t.acq] = "pending"
      PROVE  acq' = t.acq
  <2>1. CASE t = u
    BY <1>1, <1>4, <2>1
  <2>2. CASE t \in tasks
    BY <1>4, <2>2 DEF WaitInv, FollowersFollow, NobodyIsForgotten
  <2>. QED
    BY <1>2, <2>1, <2>2
<1>. QED
  BY <1>3, <1>4 DEF WaitInv, NobodyIsForgotten

(* A task that goes on waits for no promise.                               *)
LEMMA GoToWaitsForNothing ==
  ASSUME TypeOK, NEW t \in tasks, NEW stage, NEW c, stage # "follow", GoTo(t, stage, c)
  PROVE  \A u \in tasks' : u.stage = "follow" => u \in tasks
<1>1. [t EXCEPT !.stage = stage, !.conn = c].stage = stage
  BY DEF TypeOK, TaskTypeOK, Task
<1>. QED
  BY <1>1 DEF GoTo

(* No step leaves somebody waiting for what nobody will settle.            *)
LEMMA WaitersAreKept ==
  ASSUME HostInv, WaitInv, [Next]_vars
  PROVE  WaitInv'
<1>. USE DEF HostInv
<1>0. 0 \in 0..MaxTasks
  BY MaxTasksAssumption
<1>1. CASE UNCHANGED tasks /\ SettledAsItGoes
  BY <1>1, SettlingForgetsNobody
<1>2. ASSUME NEW t \in tasks, Leave(t), SettledAsItGoes
      PROVE  WaitInv'
  BY <1>2, SettlingForgetsNobody DEF Leave
<1>3. ASSUME NEW t \in tasks, NEW stage \in {"adopt", "spawn"}, NEW c, GoTo(t, stage, c),
             SettledAsItGoes
      PROVE  WaitInv'
  BY <1>3, GoToWaitsForNothing, SettlingForgetsNobody
<1>4. ASSUME NEW kind, NEW s, NEW c,
             \/ \E st \in {"dial", "spawn"}, a \in 0..MaxTasks : Begin(kind, st, a, s, c)
             \/ Begin(kind, "follow", acq, s, c) /\ acq # 0,
             UNCHANGED <<acq, promise>>
      PROVE  WaitInv'
  BY <1>4, BeginForgetsNobody
<1>5. ASSUME NEW kind, NEW a, NEW s, NEW c, Begin(kind, "dial", a, s, c), acq = 0, acquire
      PROVE  WaitInv'
  BY <1>5, BeginForgetsNobody DEF acquire
<1>6. CASE \/ SpawnOnConnected \/ SpawnFollows \/ SpawnLeads
           \/ ConnectAsked \/ ReconnectAsked \/ AttachAsked \/ RestartAsked
  <2>1. CASE SpawnOnConnected
    BY <1>0, <1>4, <2>1 DEF SpawnOnConnected, acqVars
  <2>2. CASE SpawnFollows
    BY <1>4, <2>2 DEF SpawnFollows, join
  <2>3. CASE SpawnLeads
    BY <1>5, <2>3 DEF SpawnLeads
  <2>4. CASE ConnectAsked \/ ReconnectAsked
    <3>1. CASE ReachLeads
      BY <1>5, <3>1 DEF ReachLeads
    <3>2. CASE ReachFollows
      BY <1>4, <3>2 DEF ReachFollows, join
    <3>. QED
      BY <2>4, <3>1, <3>2 DEF ConnectAsked, ReconnectAsked
  <2>5. CASE AttachAsked \/ RestartAsked
    BY <1>0, <1>4, <2>5 DEF AttachAsked, RestartAsked, ReconnectAgent, acqVars
  <2>. QED
    BY <1>6, <2>1, <2>2, <2>3, <2>4, <2>5
<1>7. ASSUME NEW s \in Tasks, TimerFires(s)
      PROVE  WaitInv'
  BY <1>0, <1>1, <1>4, <1>7, AcquisitionsSettle DEF TimerFires, acqVars, taskVars
<1>8. CASE \/ LinkLost \/ (\E c \in Tasks : StrayEnds(c))
           \/ DisconnectAsked \/ CloseAsked \/ beginQuit
           \/ (\E n \in Tasks : TerminalEnds(n)) \/ AllDetached
  BY <1>1, <1>8, AcquisitionsSettle
     DEF LinkLost, StrayEnds, DisconnectAsked, CloseAsked, beginQuit, TerminalEnds,
         AllDetached, acqVars, taskVars
<1>9. ASSUME NEW t \in tasks, ClientLeaves(t)
      PROVE  WaitInv'
  BY <1>1, <1>9, AcquisitionsSettle DEF ClientLeaves, acqVars
<1>10. ASSUME NEW t \in tasks, SpawnDialFails(t) \/ ConnectDialFails(t)
       PROVE  WaitInv'
  BY <1>2, <1>10, AcquisitionsSettle DEF SpawnDialFails, ConnectDialFails
<1>11. ASSUME NEW t \in tasks, NEW holds \in BOOLEAN, release(t, holds), Leave(t)
       PROVE  WaitInv'
  BY <1>2, <1>11, AcquisitionsSettle
<1>12. ASSUME NEW t \in tasks, SpawnAnswered(t)
       PROVE  WaitInv'
  <2>1. (~quitting \/ hasChannels(t.sess)) \in BOOLEAN
    BY DEF hasChannels
  <2>. QED
    BY <1>11, <1>12, <2>1 DEF SpawnAnswered
<1>13. ASSUME NEW t \in tasks, SpawnFails(t)
       PROVE  WaitInv'
  <2>1. hasChannels(t.sess) \in BOOLEAN
    BY DEF hasChannels
  <2>. QED
    BY <1>11, <1>13, <2>1 DEF SpawnFails
<1>14. ASSUME NEW t \in tasks, ConnectAdopts(t) \/ ConnectResumes(t)
       PROVE  WaitInv'
  <2>1. holdsHost \in BOOLEAN
    BY DEF holdsHost
  <2>. QED
    BY <1>2, <1>11, <1>14, <2>1, AcquisitionsSettle DEF ConnectAdopts, ConnectResumes
<1>15. ASSUME NEW t \in tasks, SpawnAdopts(t) \/ SpawnResumes(t)
       PROVE  WaitInv'
  <2>1. SettledAsItGoes
    BY <1>15, AcquisitionsSettle DEF SpawnAdopts, SpawnResumes
  <2>2. Leave(t) \/ \E c : GoTo(t, "spawn", c)
    BY <1>15 DEF SpawnAdopts, SpawnResumes, SpawnGoesOn, SpawnGivenUp, SpawnStarts,
                 SpawnFenced, SpawnAbandoned
  <2>. QED
    BY <1>2, <1>3, <2>1, <2>2
<1>16. ASSUME NEW t \in tasks, LeaderDialSucceeds(t) \/ AttemptSucceeds(t)
       PROVE  WaitInv'
  BY <1>3, <1>16, AcquisitionsSettle DEF LeaderDialSucceeds, AttemptSucceeds, acqVars
<1>17. ASSUME NEW t \in tasks, \/ AgentAwaited(t) \/ AgentDialFails(t) \/ AttemptAdopts(t)
                               \/ TimerGivesUp(t) \/ TimerDialFails(t)
                               \/ TimerRunsOut(t) \/ TimerFenced(t)
       PROVE  WaitInv'
  BY <1>2, <1>17, AcquisitionsSettle
     DEF AgentAwaited, AgentDialFails, AttemptAdopts, TimerGivesUp, TimerDialFails,
         TimerRunsOut, TimerFenced, acqVars
<1>18. CASE UNCHANGED vars
  BY <1>1, <1>18, AcquisitionsSettle DEF vars, taskVars, acqVars
<1>. QED
  BY <1>6, <1>7, <1>8, <1>9, <1>10, <1>12, <1>13, <1>14, <1>15, <1>16, <1>17,
     <1>18 DEF Next, Step, Resume, TaskStep, Event

(* Whatever ends an acquisition frees those who wait for it: no SPAWN,     *)
(* Connect, ATTACH or restart waits for one the host has no more.          *)
THEOREM WaitersAreFreed == Spec => []NobodyIsForgotten
<1>1. Init => WaitInv
  BY DEF Init, WaitInv, FollowersFollow, NobodyIsForgotten
<1>2. WaitInv => NobodyIsForgotten
  BY DEF WaitInv
<1>. QED
  BY <1>1, <1>2, WaitersAreKept, HostTypeCorrect, PTL DEF Spec

-----------------------------------------------------------------------------
(* One connection, but where an ATTACH or a restart dials for itself.      *)

(* An ATTACH or a restart that is under way waits for an acquisition.      *)
NoOther == \A t \in tasks : t.kind \in {"attach", "restart"} => t.stage = "follow"

(* A SPAWN or a Connect dials; a timer's attempt that was not aborted does. *)
Leads(t) == t.stage = "dial" /\ t.kind \in {"spawn", "connect"}
Tries(t) == t.stage = "dial" /\ t.kind = "timer" /\ t.n \notin aborted

(* Every number in use was given, and no two tasks have the same.          *)
Given ==
  /\ acq <= begun /\ controller <= begun /\ session <= begun
  /\ \A n \in aborted : n <= begun
  /\ \A t \in tasks : t.n <= begun /\ t.sess <= begun
  /\ \A t, u \in tasks : t.n = u.n => t = u

(* Who leads holds a lease of its own acquisition, and has a session.      *)
LeaderHolds ==
  \A t \in tasks : Leads(t) => t.n \in leases[t.n] /\ t.sess # 0

(* Of the timers only the one that is kept is armed, once, and that is for *)
(* the host's session, which has lost its connection.                      *)
OneTimer ==
  /\ \A s \in Tasks : timers[s] = IF s = waiting THEN 1 ELSE 0
  /\ waiting # 0 => waiting = session /\ status[session] = "disconnected" /\ agent = 0

(* Of the attempts only one is not aborted, and only while no timer waits. *)
OneAttempt ==
  \A t \in tasks : Tries(t) =>
    /\ controller = t.n /\ session = t.sess /\ session # 0
    /\ status[session] = "disconnected" /\ agent = 0 /\ waiting = 0

(* Who leads and was not called off dials alone.                           *)
LeaderAlone ==
  \A t \in tasks : Leads(t) /\ acq = t.n =>
    agent = 0 /\ waiting = 0 /\ \A u \in tasks : ~Tries(u)

(* A Connect that dials for the session the host still has was not called  *)
(* off, but by a quit.                                                     *)
ConnectLeads ==
  \A t \in tasks : Leads(t) /\ t.kind = "connect" /\ t.sess = session =>
    /\ status[session] = "starting" /\ agent = 0 /\ (acq = t.n \/ quitting)
    /\ \A u \in tasks : Leads(u) /\ u.kind = "connect" /\ u.sess = session => u = t

(* A SPAWN that dials for a session that is starting dials for the host's. *)
SpawnLeadsIt ==
  \A t \in tasks : Leads(t) /\ t.kind = "spawn" /\ status[t.sess] = "starting" =>
    t.sess = session /\ agent = 0

(* A session that is starting without a connection is dialled for.         *)
StartingIsLed ==
  session # 0 /\ status[session] = "starting" /\ agent = 0 /\ ~quitting =>
    \E t \in tasks : Leads(t) /\ acq = t.n /\ t.sess = session

(* A connection whose task still asks the daemon is the host's, or down.   *)
AdoptedIsKept == \A t \in tasks : t.stage = "adopt" /\ t.n \in open => agent = t.n

(* A connection serves a session.                                          *)
Serves == agent # 0 => session # 0

DialInv ==
  /\ NoOther /\ Given /\ LeaderHolds /\ OneTimer /\ OneAttempt /\ LeaderAlone
  /\ ConnectLeads /\ SpawnLeadsIt /\ StartingIsLed /\ AdoptedIsKept
  /\ Serves

(* The numbers in use are natural numbers.                                 *)
LEMMA DialNumbers ==
  ASSUME TypeOK, DialInv
  PROVE  /\ begun \in Nat /\ acq \in Nat /\ controller \in Nat /\ session \in Nat
         /\ agent \in Nat /\ waiting \in Nat /\ aborted \subseteq Nat
         /\ (session # 0 => session \in Tasks) /\ (waiting # 0 => waiting \in Tasks)
         /\ (acq # 0 => acq \in Tasks)
         /\ \A t \in tasks : /\ t.n \in Nat /\ t.n \in Tasks /\ t.sess \in Nat /\ t.acq \in Nat
                             /\ (t.sess # 0 => t.sess \in Tasks)
                             /\ t.n <= begun /\ t.sess <= begun
         /\ n1 \in Nat /\ n1 > begun
<1>1. /\ begun \in 0..MaxTasks /\ acq \in 0..MaxTasks /\ controller \in 0..MaxTasks
      /\ session \in 0..MaxTasks /\ agent \in 0..MaxTasks /\ waiting \in 0..MaxTasks
      /\ aborted \subseteq Tasks
  BY DEF TypeOK, TaskTypeOK, AcqTypeOK, RetryTypeOK, SessionTypeOK, LinkTypeOK
<1>2. \A t \in tasks : t.n \in Tasks /\ t.sess \in 0..MaxTasks /\ t.acq \in 0..MaxTasks
  BY TaskFields
<1>3. \A t \in tasks : t.n <= begun /\ t.sess <= begun
  BY DEF DialInv, Given
<1>. QED
  BY <1>1, <1>2, <1>3 DEF Tasks, n1

(* What decides stays, and no task begins or leads anew.                   *)
Stays ==
  /\ UNCHANGED <<begun, session, status, agent, timers, waiting, aborted, quitting>>
  /\ open' \subseteq open

(* A step that ends no dial and changes none of what they look at.         *)
LEMMA DialsStay ==
  ASSUME TypeOK, DialInv, Stays, UNCHANGED <<tasks, acq, leases, controller>>
  PROVE  DialInv'
BY DEF DialInv, NoOther, Given, LeaderHolds, OneTimer, OneAttempt, LeaderAlone, ConnectLeads,
       SpawnLeadsIt, StartingIsLed, AdoptedIsKept, Serves, Leads, Tries, Stays

(* A task that does not dial for an acquisition ends.                      *)
LEMMA OtherEnds ==
  ASSUME TypeOK, DialInv, Stays, NEW t \in tasks, Leave(t), ~Leads(t),
         leases' = leases \/ leases' = LeasesWithout(t),
         acq' = acq \/ (acq' = 0 /\ \A u \in tasks : Leads(u) => acq # u.n),
         controller' = controller \/ (controller = t.n /\ controller' = 0)
  PROVE  DialInv'
<1>1. tasks' = tasks \ {t} /\ begun' = begun
  BY DEF Leave
<1>2. \A u \in tasks' : Leads(u) => u.n \in leases'[u.n]
  <2>1. SUFFICES ASSUME NEW u \in tasks', Leads(u) PROVE u.n \in leases'[u.n]
    OBVIOUS
  <2>2. u \in tasks /\ u.n # t.n /\ u.n \in leases[u.n] /\ u.n \in Tasks
    BY <1>1, <2>1, DialNumbers DEF DialInv, Given, LeaderHolds
  <2>. QED
    BY <2>2 DEF LeasesWithout, TypeOK, AcqTypeOK
<1>3. NoOther' /\ Given' /\ LeaderHolds'
  BY <1>1, <1>2, DialNumbers DEF DialInv, NoOther, Given, LeaderHolds, Leads, Stays
<1>4. OneTimer' /\ Serves' /\ AdoptedIsKept'
  BY <1>1 DEF DialInv, OneTimer, Serves, AdoptedIsKept, Stays
<1>5. OneAttempt'
  <2>1. \A u \in tasks' : u \in tasks /\ u.n # t.n
    BY <1>1 DEF DialInv, Given
  <2>. QED
    BY <2>1 DEF DialInv, OneAttempt, Tries, Stays
<1>6. LeaderAlone'
  <2>1. \A u \in tasks : Leads(u) /\ acq' = u.n => acq = u.n
    BY DialNumbers DEF Tasks
  <2>. QED
    BY <1>1, <2>1 DEF DialInv, LeaderAlone, Leads, Tries, Stays
<1>7. ConnectLeads' /\ SpawnLeadsIt' /\ StartingIsLed'
  BY <1>1 DEF DialInv, ConnectLeads, SpawnLeadsIt, StartingIsLed, Leads, Stays
<1>. QED
  BY <1>3, <1>4, <1>5, <1>6, <1>7 DEF DialInv

(* A task that begins has a new number.                                    *)
LEMMA DialBegins ==
  ASSUME TypeOK, DialInv, NEW kind, NEW stage, NEW a, NEW s, NEW c,
         Begin(kind, stage, a, s, c)
  PROVE  /\ begun' = n1 /\ n1 \in Tasks /\ n1 # 0 /\ \A t \in tasks : t.n # n1 /\ t.sess # n1
         /\ \E u : /\ tasks' = tasks \cup {u}
                   /\ u.n = n1 /\ u.kind = kind /\ u.stage = stage /\ u.sess = s /\ u.acq = a
<1>. DEFINE u == [n |-> n1, kind |-> kind, stage |-> stage, acq |-> a, sess |-> s, conn |-> c]
<1>1. tasks' = tasks \cup {u} /\ begun' = n1 /\ begun < MaxTasks
  BY DEF Begin
<1>2. u.n = n1 /\ u.kind = kind /\ u.stage = stage /\ u.sess = s /\ u.acq = a
  OBVIOUS
<1>. HIDE DEF u
<1>3. n1 \in Tasks /\ n1 # 0 /\ \A t \in tasks : t.n # n1 /\ t.sess # n1
  BY <1>1, DialNumbers, MaxTasksAssumption DEF Tasks, n1
<1>. QED
  BY <1>1, <1>2, <1>3

(* What cancelReconnect leaves: no timer, and no attempt that goes on.     *)
LEMMA Cancelled ==
  ASSUME TypeOK, DialInv, cancelReconnect
  PROVE  /\ \A s \in Tasks : timers'[s] = 0
         /\ waiting' = 0 /\ controller' = 0
         /\ \A n \in aborted' : n <= begun
         /\ \A t \in tasks : ~(t.stage = "dial" /\ t.kind = "timer" /\ t.n \notin aborted')
<1>1. \A s \in Tasks : timers'[s] = 0
  BY DEF cancelReconnect, DialInv, OneTimer
<1>2. waiting' = 0 /\ controller' = 0 /\ aborted' = aborted \cup ({controller} \ {0})
  BY DEF cancelReconnect
<1>3. \A n \in aborted' : n <= begun
  BY <1>2 DEF DialInv, Given
<1>4. \A t \in tasks : Tries(t) => t.n \in aborted'
  BY <1>2, DialNumbers DEF DialInv, OneAttempt, Tasks
<1>. QED
  BY <1>1, <1>2, <1>3, <1>4 DEF Tries

(* While the host has a connection nothing else reaches for it.            *)
LEMMA ConnectedIsAlone ==
  ASSUME DialInv, agent # 0
  PROVE  /\ waiting = 0 /\ session # 0
         /\ \A t \in tasks : /\ ~Tries(t)
                             /\ Leads(t) => acq # t.n
                             /\ Leads(t) /\ t.kind = "connect" => t.sess # session
                             /\ Leads(t) /\ t.kind = "spawn" => status[t.sess] # "starting"
BY DEF DialInv, OneTimer, OneAttempt, LeaderAlone, ConnectLeads, SpawnLeadsIt, Serves

(* Nor does it while nothing is under way: no dial is for a session that   *)
(* is starting.                                                            *)
LEMMA IdleIsAlone ==
  ASSUME TypeOK, DialInv, acq = 0, ~quitting
  PROVE  \A t \in tasks : /\ Leads(t) /\ t.kind = "connect" => t.sess # session
                          /\ Leads(t) /\ t.kind = "spawn" => status[t.sess] # "starting"
<1>1. \A t \in tasks : t.n # 0
  BY DialNumbers DEF Tasks
<1>2. \A t \in tasks : Leads(t) /\ t.kind = "connect" => t.sess # session
  BY <1>1 DEF DialInv, ConnectLeads
<1>3. ASSUME NEW t \in tasks, Leads(t), t.kind = "spawn", status[t.sess] = "starting"
      PROVE  FALSE
  <2>1. session = t.sess /\ agent = 0 /\ session # 0
    BY <1>3 DEF DialInv, SpawnLeadsIt, LeaderHolds
  <2>. QED
    BY <1>1, <1>3, <2>1 DEF DialInv, StartingIsLed
<1>. QED
  BY <1>2, <1>3

-----------------------------------------------------------------------------
(* What is asked.                                                          *)

(* A SPAWN over the connection there is dials for nothing.                 *)
LEMMA SpawnOnConnectedDials ==
  ASSUME TypeOK, DialInv, SpawnOnConnected
  PROVE  DialInv'
<1>1. PICK u : /\ tasks' = tasks \cup {u} /\ u.n = n1 /\ u.kind = "spawn" /\ u.stage = "spawn"
               /\ u.sess = SessionFor(n1)
  BY DialBegins DEF SpawnOnConnected
<1>2. begun' = n1 /\ n1 \in Tasks /\ \A t \in tasks : t.n # n1 /\ t.sess # n1
  BY DialBegins DEF SpawnOnConnected
<1>3. /\ agent # 0 /\ session' = SessionFor(n1) /\ session' \in {session, n1}
      /\ status' = [status EXCEPT ![session'] = IF session' = session THEN @ ELSE "starting"]
      /\ UNCHANGED <<agent, open, acq, leases, timers, waiting, controller, aborted, quitting>>
  BY DEF SpawnOnConnected, getOrCreateSession, SessionFor, linkVars, acqVars, retryVars
<1>4. n1 > begun /\ n1 \in Nat /\ begun \in Nat
  BY DialNumbers
<1>5. \A t \in tasks : status'[t.sess] = status[t.sess] \/ t.sess = session'
  BY <1>3 DEF TypeOK, SessionTypeOK
<1>6. NoOther' /\ Given'
  BY <1>1, <1>2, <1>3, <1>4, DialNumbers DEF DialInv, NoOther, Given
<1>7. LeaderHolds' /\ OneTimer' /\ OneAttempt' /\ LeaderAlone' /\ AdoptedIsKept' /\ Serves'
  BY <1>1, <1>2, <1>3, ConnectedIsAlone, DialNumbers
     DEF DialInv, LeaderHolds, OneTimer, OneAttempt, LeaderAlone, AdoptedIsKept,
         Serves, Leads, Tries
<1>8. ConnectLeads' /\ StartingIsLed'
  BY <1>1, <1>2, <1>3, ConnectedIsAlone DEF ConnectLeads, StartingIsLed, Leads
<1>9. SpawnLeadsIt'
  <2>1. ASSUME NEW t \in tasks, Leads(t), t.kind = "spawn" PROVE status'[t.sess] # "starting"
    BY <1>2, <1>3, <2>1, ConnectedIsAlone DEF TypeOK, SessionTypeOK
  <2>. QED
    BY <1>1, <2>1 DEF SpawnLeadsIt, Leads
<1>. QED
  BY <1>6, <1>7, <1>8, <1>9 DEF DialInv

(* Who begins to follow an acquisition dials for none.                     *)
LEMMA FollowerBegins ==
  ASSUME TypeOK, DialInv, NEW kind,
         Begin(kind, "follow", acq, LeaderSession, 0), acq # 0,
         join \/ UNCHANGED <<acq, leases>>,
         UNCHANGED <<session, status, agent, timers, waiting, controller, aborted, quitting>>,
         open' \subseteq open
  PROVE  DialInv'
<1>1. PICK u : /\ tasks' = tasks \cup {u} /\ u.n = n1 /\ u.kind = kind /\ u.stage = "follow"
               /\ u.sess = LeaderSession
  BY DialBegins
<1>2. begun' = n1 /\ n1 \in Tasks /\ \A t \in tasks : t.n # n1
  BY DialBegins
<1>3. acq' = acq /\ \A t \in tasks : t.n \in leases[t.n] => t.n \in leases'[t.n]
  BY DialNumbers DEF join, TypeOK, AcqTypeOK
<1>4. n1 > begun /\ n1 \in Nat /\ begun \in Nat
  BY DialNumbers
<1>5. LeaderSession \in Nat /\ LeaderSession <= n1
  <2>1. CASE \E t \in tasks : t.n = acq
    BY <2>1, <1>4, DialNumbers DEF LeaderSession
  <2>2. CASE ~\E t \in tasks : t.n = acq
    BY <2>2, <1>4 DEF LeaderSession
  <2>. QED
    BY <2>1, <2>2
<1>6. NoOther' /\ Given'
  BY <1>1, <1>2, <1>3, <1>4, <1>5, DialNumbers DEF DialInv, NoOther, Given
<1>7. LeaderHolds' /\ OneTimer' /\ OneAttempt' /\ LeaderAlone' /\ AdoptedIsKept' /\ Serves'
  BY <1>1, <1>3
     DEF DialInv, LeaderHolds, OneTimer, OneAttempt, LeaderAlone, AdoptedIsKept,
         Serves, Leads, Tries
<1>8. ConnectLeads' /\ SpawnLeadsIt' /\ StartingIsLed'
  BY <1>1, <1>3 DEF DialInv, ConnectLeads, SpawnLeadsIt, StartingIsLed, Leads
<1>. QED
  BY <1>6, <1>7, <1>8 DEF DialInv

(* A SPAWN that acquires the host is the only one that reaches for it.     *)
LEMMA SpawnLeadsDials ==
  ASSUME TypeOK, DialInv, SpawnLeads
  PROVE  DialInv'
<1>1. PICK u : /\ tasks' = tasks \cup {u} /\ u.n = n1 /\ u.kind = "spawn" /\ u.stage = "dial"
               /\ u.sess = SessionFor(n1)
  BY DialBegins DEF SpawnLeads
<1>2. begun' = n1 /\ n1 \in Tasks /\ n1 # 0 /\ \A t \in tasks : t.n # n1 /\ t.sess # n1
  BY DialBegins DEF SpawnLeads
<1>0. session # n1
  BY DialNumbers DEF DialInv, Given
<1>3. /\ agent = 0 /\ acq = 0 /\ ~quitting /\ ~hostReconnecting
      /\ session' = SessionFor(n1) /\ session' \in {session, n1} /\ session' # 0
      /\ session' = session => status[session] # "starting"
      /\ status' = [status EXCEPT ![session'] = IF session' = session THEN @ ELSE "starting"]
      /\ acq' = n1 /\ leases' = [leases EXCEPT ![n1] = {n1}]
      /\ UNCHANGED <<agent, open, timers, waiting, controller, aborted, quitting>>
  BY <1>0, <1>2 DEF SpawnLeads, getOrCreateSession, SessionFor, acquire, linkVars, retryVars
<1>4. n1 > begun /\ n1 \in Nat /\ begun \in Nat
  BY DialNumbers
<1>5. waiting = 0 /\ \A t \in tasks : ~Tries(t)
  <2>1. waiting = 0
    BY <1>3, DialNumbers DEF DialInv, OneTimer, hostReconnecting, Tasks
  <2>2. \A t \in tasks : ~Tries(t)
    BY <1>3, DialNumbers DEF DialInv, OneAttempt, hostReconnecting, Tasks
  <2>. QED
    BY <2>1, <2>2
<1>6. NoOther' /\ Given'
  BY <1>1, <1>2, <1>3, <1>4, DialNumbers DEF DialInv, NoOther, Given
<1>7. LeaderHolds'
  <2>1. \A t \in tasks : leases'[t.n] = leases[t.n]
    BY <1>2, <1>3, DialNumbers DEF TypeOK, AcqTypeOK
  <2>2. n1 \in leases'[n1]
    BY <1>2, <1>3 DEF TypeOK, AcqTypeOK
  <2>. QED
    BY <1>1, <1>3, <2>1, <2>2 DEF DialInv, LeaderHolds, Leads
<1>8. OneTimer' /\ OneAttempt' /\ LeaderAlone' /\ AdoptedIsKept' /\ Serves'
  BY <1>1, <1>2, <1>3, <1>5
     DEF DialInv, OneTimer, OneAttempt, LeaderAlone, AdoptedIsKept,
         Serves, Leads, Tries
<1>9. ConnectLeads' /\ StartingIsLed'
  BY <1>1, <1>2, <1>3, IdleIsAlone DEF ConnectLeads, StartingIsLed, Leads
<1>10. SpawnLeadsIt'
  <2>1. ASSUME NEW t \in tasks, Leads(t), t.kind = "spawn" PROVE status'[t.sess] # "starting"
    BY <1>2, <1>3, <2>1, IdleIsAlone DEF TypeOK, SessionTypeOK
  <2>. QED
    BY <1>1, <1>3, <2>1 DEF SpawnLeadsIt, Leads
<1>. QED
  BY <1>6, <1>7, <1>8, <1>9, <1>10 DEF DialInv

(* A Connect or a Reconnect leads: nothing else reaches for the host.      *)
LEMMA ReachLeadsDials ==
  ASSUME TypeOK, DialInv, ReachLeads, cancelReconnect, ~quitting, UNCHANGED quitting,
         agent' = 0, open' \subseteq open, agent = 0 \/ open' = open \ {agent}
  PROVE  DialInv'
<1>. DEFINE s == IF agent # 0 /\ session # 0 THEN session ELSE SessionFor(n1)
<1>1. PICK u : /\ tasks' = tasks \cup {u} /\ u.n = n1 /\ u.kind = "connect" /\ u.stage = "dial"
               /\ u.sess = s
  BY DialBegins DEF ReachLeads
<1>2. begun' = n1 /\ n1 \in Tasks /\ n1 # 0 /\ \A t \in tasks : t.n # n1 /\ t.sess # n1
  BY DialBegins DEF ReachLeads
<1>3. /\ acq = 0 /\ session' = s /\ s \in {session, n1} /\ s # 0 /\ s \in Tasks
      /\ status' = [status EXCEPT ![s] = "starting"]
      /\ acq' = n1 /\ leases' = [leases EXCEPT ![n1] = {n1}]
  BY <1>2, DialNumbers DEF ReachLeads, SessionFor, acquire
<1>. HIDE DEF s
<1>4. n1 > begun /\ n1 \in Nat /\ begun \in Nat
  BY DialNumbers
<1>5. /\ \A x \in Tasks : timers'[x] = 0
      /\ waiting' = 0 /\ controller' = 0
      /\ \A n \in aborted' : n <= begun
      /\ \A t \in tasks : ~(t.stage = "dial" /\ t.kind = "timer" /\ t.n \notin aborted')
      /\ aborted' \subseteq Nat
  <2>1. aborted' \subseteq Nat
    BY DialNumbers DEF cancelReconnect
  <2>. QED
    BY <2>1, Cancelled
<1>6. NoOther' /\ Given'
  BY <1>1, <1>2, <1>3, <1>4, <1>5, DialNumbers DEF DialInv, NoOther, Given
<1>7. LeaderHolds'
  <2>1. \A t \in tasks : leases'[t.n] = leases[t.n]
    BY <1>2, <1>3, DialNumbers DEF TypeOK, AcqTypeOK
  <2>2. n1 \in leases'[n1]
    BY <1>2, <1>3 DEF TypeOK, AcqTypeOK
  <2>. QED
    BY <1>1, <1>3, <2>1, <2>2 DEF DialInv, LeaderHolds, Leads
<1>8. OneTimer' /\ OneAttempt' /\ LeaderAlone' /\ Serves'
  BY <1>1, <1>2, <1>3, <1>5, DialNumbers
     DEF OneTimer, OneAttempt, LeaderAlone, Serves, Leads, Tries, Tasks
<1>9. AdoptedIsKept'
  BY <1>1, DialNumbers DEF DialInv, AdoptedIsKept, Tasks
<1>10. status'[s] = "starting"
  BY <1>3 DEF TypeOK, SessionTypeOK
<1>11. ConnectLeads' /\ StartingIsLed'
  BY <1>1, <1>2, <1>3, <1>10, IdleIsAlone DEF ConnectLeads, StartingIsLed, Leads
<1>12. SpawnLeadsIt'
  <2>1. ASSUME NEW t \in tasks, Leads(t), t.kind = "spawn", status'[t.sess] = "starting"
        PROVE  t.sess = s
    BY <1>2, <1>3, <2>1, IdleIsAlone DEF TypeOK, SessionTypeOK
  <2>. QED
    BY <1>1, <1>3, <2>1 DEF SpawnLeadsIt, Leads
<1>. QED
  BY <1>6, <1>7, <1>8, <1>9, <1>11, <1>12 DEF DialInv

(* A Connect or a Reconnect follows: the host is left without a connection *)
(* and without a timer.                                                    *)
LEMMA ReachFollowsDials ==
  ASSUME TypeOK, DialInv, ReachFollows, cancelReconnect, UNCHANGED <<session, quitting>>,
         agent' = 0, open' \subseteq open, agent = 0 \/ open' = open \ {agent},
         \/ agent = 0 /\ UNCHANGED status
         \/ /\ agent # 0
            /\ status' = [s \in Tasks |-> IF s = session THEN "disconnected" ELSE status[s]]
  PROVE  DialInv'
<1>1. PICK u : /\ tasks' = tasks \cup {u} /\ u.n = n1 /\ u.kind = "connect" /\ u.stage = "follow"
               /\ u.sess = LeaderSession
  BY DialBegins DEF ReachFollows
<1>2. begun' = n1 /\ n1 \in Tasks /\ \A t \in tasks : t.n # n1
  BY DialBegins DEF ReachFollows
<1>3. acq' = acq /\ \A t \in tasks : t.n \in leases[t.n] => t.n \in leases'[t.n]
  BY DialNumbers DEF ReachFollows, join, TypeOK, AcqTypeOK
<1>4. n1 > begun /\ n1 \in Nat /\ begun \in Nat
  BY DialNumbers
<1>5. LeaderSession \in Nat /\ LeaderSession <= n1
  <2>1. CASE \E t \in tasks : t.n = acq
    BY <2>1, <1>4, DialNumbers DEF LeaderSession
  <2>2. CASE ~\E t \in tasks : t.n = acq
    BY <2>2, <1>4 DEF LeaderSession
  <2>. QED
    BY <2>1, <2>2
<1>6. /\ \A x \in Tasks : timers'[x] = 0
      /\ waiting' = 0 /\ controller' = 0
      /\ \A n \in aborted' : n <= begun
      /\ \A t \in tasks : ~(t.stage = "dial" /\ t.kind = "timer" /\ t.n \notin aborted')
      /\ aborted' \subseteq Nat
  <2>1. aborted' \subseteq Nat
    BY DialNumbers DEF cancelReconnect
  <2>. QED
    BY <2>1, Cancelled
<1>7. NoOther' /\ Given'
  BY <1>1, <1>2, <1>3, <1>4, <1>5, <1>6, DialNumbers DEF DialInv, NoOther, Given
<1>8. LeaderHolds' /\ OneTimer' /\ OneAttempt' /\ LeaderAlone' /\ Serves'
  BY <1>1, <1>3, <1>6, DialNumbers
     DEF DialInv, LeaderHolds, OneTimer, OneAttempt, LeaderAlone, Serves, Leads, Tries, Tasks
<1>9. AdoptedIsKept'
  BY <1>1, DialNumbers DEF DialInv, AdoptedIsKept, Tasks
<1>10. CASE agent = 0
  <2>1. ConnectLeads' /\ SpawnLeadsIt' /\ StartingIsLed'
    BY <1>1, <1>3, <1>10 DEF DialInv, ConnectLeads, SpawnLeadsIt, StartingIsLed, Leads
  <2>. QED
    BY <1>7, <1>8, <1>9, <2>1 DEF DialInv
<1>11. CASE agent # 0
  <2>1. /\ session \in Tasks /\ status'[session] = "disconnected"
        /\ \A t \in tasks : Leads(t) => /\ t.kind = "connect" => t.sess # session
                                        /\ t.kind = "spawn" => status'[t.sess] # "starting"
    <3>1. session \in Tasks
      BY <1>11, ConnectedIsAlone, DialNumbers
    <3>2. \A t \in tasks : Leads(t) => t.sess \in Tasks
      BY DialNumbers DEF DialInv, LeaderHolds
    <3>. QED
      BY <1>11, <3>1, <3>2, ConnectedIsAlone
  <2>2. ConnectLeads' /\ SpawnLeadsIt' /\ StartingIsLed'
    BY <1>1, <2>1 DEF ConnectLeads, SpawnLeadsIt, StartingIsLed, Leads
  <2>. QED
    BY <1>7, <1>8, <1>9, <2>2 DEF DialInv
<1>. QED
  BY <1>10, <1>11

(* So is a Connect or a Reconnect, unless it follows another.              *)
LEMMA ReachDials ==
  ASSUME TypeOK, DialInv, ConnectAsked \/ ReconnectAsked
  PROVE  DialInv'
<1>1. /\ ~quitting /\ UNCHANGED quitting /\ cancelReconnect
      /\ agent' = 0 /\ open' \subseteq open /\ (agent = 0 \/ open' = open \ {agent})
  BY DEF ConnectAsked, ReconnectAsked, letGoOfConnection, linkVars
<1>2. CASE ReachLeads
  BY <1>1, <1>2, ReachLeadsDials
<1>3. CASE ReachFollows /\ ConnectAsked /\ UNCHANGED <<session, status>>
  BY <1>1, <1>3, ReachFollowsDials DEF ConnectAsked
<1>4. CASE ReachFollows /\ ReconnectAsked /\ UNCHANGED session
           /\ status' = [s \in Tasks |-> IF s = session THEN "disconnected" ELSE status[s]]
  BY <1>1, <1>4, ReachFollowsDials DEF ReconnectAsked
<1>. QED
  BY <1>2, <1>3, <1>4 DEF ConnectAsked, ReconnectAsked

-----------------------------------------------------------------------------
(* What comes of itself, and the ends.                                     *)

(* The link is lost, and a timer armed.                                    *)
LEMMA LinkLostDials ==
  ASSUME TypeOK, DialInv, LinkLost
  PROVE  DialInv'
<1>1. /\ agent # 0 /\ agent' = 0 /\ open' = open \ {agent} /\ session # 0 /\ session' = session
      /\ session \in Tasks /\ status' = [status EXCEPT ![session] = "disconnected"]
      /\ scheduleReconnect(session)
      /\ UNCHANGED <<begun, tasks, acq, leases, controller, aborted, quitting>>
  BY ConnectedIsAlone, DialNumbers
     DEF LinkLost, letGoOfConnection, updateSessionStatus, taskVars, acqVars, holdVars
<1>2. status'[session] = "disconnected" /\ \A x \in Tasks : x # session => status'[x] = status[x]
  BY <1>1 DEF TypeOK, SessionTypeOK
<1>3. OneTimer'
  <2>1. waiting = 0 /\ \A s \in Tasks : timers[s] = 0
    BY <1>1, ConnectedIsAlone DEF DialInv, OneTimer, Tasks
  <2>2. CASE quitting \/ userDisconnected
    BY <1>1, <2>1, <2>2 DEF scheduleReconnect, OneTimer, Tasks
  <2>3. CASE ~(quitting \/ userDisconnected)
    <3>1. timers' = [timers EXCEPT ![session] = 1] /\ waiting' = session
      BY <1>1, <2>1, <2>3 DEF scheduleReconnect
    <3>. QED
      BY <1>1, <1>2, <2>1, <3>1 DEF OneTimer, TypeOK, RetryTypeOK
  <2>. QED
    BY <2>2, <2>3
<1>4. \A t \in tasks : Leads(t) => /\ t.kind = "connect" => t.sess # session
                                   /\ t.kind = "spawn" => status'[t.sess] # "starting"
  <2>1. \A t \in tasks : Leads(t) => t.sess \in Tasks
    BY DialNumbers DEF DialInv, LeaderHolds
  <2>. QED
    BY <1>1, <1>2, <2>1, ConnectedIsAlone
<1>5. NoOther' /\ Given' /\ LeaderHolds' /\ Serves'
  BY <1>1 DEF DialInv, NoOther, Given, LeaderHolds, Serves, Leads
<1>6. OneAttempt' /\ LeaderAlone'
  BY <1>1, ConnectedIsAlone DEF OneAttempt, LeaderAlone, Leads, Tries
<1>7. AdoptedIsKept'
  BY <1>1, DialNumbers DEF DialInv, AdoptedIsKept
<1>8. ConnectLeads' /\ SpawnLeadsIt' /\ StartingIsLed'
  BY <1>1, <1>2, <1>4 DEF ConnectLeads, SpawnLeadsIt, StartingIsLed, Leads
<1>. QED
  BY <1>3, <1>5, <1>6, <1>7, <1>8 DEF DialInv

(* The timer fires: it was the one that is kept.                           *)
LEMMA TimerFiresDials ==
  ASSUME TypeOK, DialInv, NEW s \in Tasks, TimerFires(s)
  PROVE  DialInv'
<1>1. /\ s = waiting /\ s = session /\ status[session] = "disconnected" /\ agent = 0 /\ session # 0
      /\ \A t \in tasks : ~Tries(t) /\ ~(Leads(t) /\ acq = t.n)
  BY DEF TimerFires, DialInv, OneTimer, OneAttempt, LeaderAlone, Tasks
<1>2. waiting' = 0 /\ \A x \in Tasks : timers'[x] = 0
  BY <1>1 DEF TimerFires, DialInv, OneTimer, TypeOK, RetryTypeOK
<1>3. UNCHANGED <<session, status, agent, open, acq, leases, quitting>>
  BY DEF TimerFires, sessionVars, linkVars, acqVars, holdVars
<1>4. OneTimer' /\ Serves'
  BY <1>1, <1>2, <1>3 DEF DialInv, OneTimer, Serves, Tasks
<1>5. CASE UNCHANGED <<taskVars, controller, aborted>>
  <2>1. NoOther' /\ Given' /\ LeaderHolds' /\ AdoptedIsKept'
    BY <1>3, <1>5 DEF DialInv, NoOther, Given, LeaderHolds, AdoptedIsKept, Leads, taskVars
  <2>2. OneAttempt' /\ LeaderAlone' /\ ConnectLeads' /\ SpawnLeadsIt' /\ StartingIsLed'
    BY <1>1, <1>3, <1>5 DEF DialInv, OneAttempt, LeaderAlone, ConnectLeads, SpawnLeadsIt,
       StartingIsLed, Leads, Tries, taskVars
  <2>. QED
    BY <1>4, <2>1, <2>2 DEF DialInv
<1>6. CASE Begin("timer", "dial", 0, s, 0) /\ registerController(n1)
  <2>1. PICK u : /\ tasks' = tasks \cup {u} /\ u.n = n1 /\ u.kind = "timer" /\ u.stage = "dial"
                 /\ u.sess = s
    BY <1>6, DialBegins
  <2>2. begun' = n1 /\ n1 \in Tasks /\ n1 # 0 /\ \A t \in tasks : t.n # n1 /\ t.sess # n1
    BY <1>6, DialBegins
  <2>3. controller' = n1 /\ aborted' = aborted \cup ({controller} \ {0})
    BY <1>6 DEF registerController
  <2>4. n1 > begun /\ n1 \in Nat /\ begun \in Nat
    BY DialNumbers
  <2>5. NoOther' /\ Given'
    BY <1>1, <1>3, <2>1, <2>2, <2>3, <2>4, DialNumbers DEF DialInv, NoOther, Given
  <2>6. LeaderHolds' /\ AdoptedIsKept'
    BY <1>3, <2>1 DEF DialInv, LeaderHolds, AdoptedIsKept, Leads
  <2>7. \A t \in tasks : ~(t.stage = "dial" /\ t.kind = "timer" /\ t.n \notin aborted')
    BY <1>1, <2>3 DEF Tries
  <2>8. OneAttempt' /\ LeaderAlone'
    BY <1>1, <1>2, <1>3, <2>1, <2>3, <2>7 DEF OneAttempt, LeaderAlone, Leads, Tries
  <2>9. ConnectLeads' /\ SpawnLeadsIt' /\ StartingIsLed'
    BY <1>1, <1>3, <2>1 DEF DialInv, ConnectLeads, SpawnLeadsIt, StartingIsLed, Leads
  <2>. QED
    BY <1>4, <2>5, <2>6, <2>8, <2>9 DEF DialInv
<1>. QED
  BY <1>5, <1>6 DEF TimerFires

(* The host is given up, by a Disconnect, a DELETE or a quit: what dials   *)
(* was called off, and its session, if it is starting, is gone.            *)
LEMMA GivenUpDials ==
  ASSUME TypeOK, DialInv, cancelReconnect, closeAcquisition,
         UNCHANGED <<begun, tasks>>,
         \/ session' = 0 /\ agent' = 0 /\ open' = open \ {agent} /\ UNCHANGED quitting
            /\ status' = [s \in Tasks |-> IF s = session THEN "closed" ELSE status[s]]
         \/ session' = session /\ agent' = 0 /\ open' = open \ {agent} /\ UNCHANGED quitting
            /\ session # 0 /\ status[session] # "starting"
            /\ status' = [status EXCEPT ![session] = "disconnected"]
         \/ UNCHANGED <<session, status, agent, open>> /\ quitting'
  PROVE  DialInv'
<1>1. /\ \A x \in Tasks : timers'[x] = 0
      /\ waiting' = 0 /\ controller' = 0
      /\ \A n \in aborted' : n <= begun
      /\ \A t \in tasks : ~(t.stage = "dial" /\ t.kind = "timer" /\ t.n \notin aborted')
  BY Cancelled
<1>2. acq' = 0 /\ leases' = leases /\ \A t \in tasks : t.n # 0
  BY DialNumbers DEF closeAcquisition, Tasks
<1>3. NoOther' /\ Given' /\ LeaderHolds'
  BY <1>1, <1>2, DialNumbers DEF DialInv, NoOther, Given, LeaderHolds, Leads
<1>4. OneTimer' /\ OneAttempt' /\ LeaderAlone' /\ Serves'
  BY <1>1, <1>2 DEF DialInv, OneTimer, OneAttempt, LeaderAlone, Serves, Leads, Tries, Tasks
<1>5. AdoptedIsKept'
  BY <1>2 DEF DialInv, AdoptedIsKept
<1>6. \A t \in tasks : Leads(t) => t.sess \in Tasks
  BY DialNumbers DEF DialInv, LeaderHolds
<1>7. CASE session' = 0 /\ agent' = 0
            /\ status' = [s \in Tasks |-> IF s = session THEN "closed" ELSE status[s]]
  <2>1. ConnectLeads' /\ SpawnLeadsIt' /\ StartingIsLed'
    BY <1>6, <1>7, DialNumbers DEF DialInv, LeaderHolds, ConnectLeads, SpawnLeadsIt, StartingIsLed, Leads
  <2>. QED
    BY <1>3, <1>4, <1>5, <2>1 DEF DialInv
<1>8. CASE session' = session /\ agent' = 0 /\ session # 0 /\ status[session] # "starting"
            /\ status' = [status EXCEPT ![session] = "disconnected"]
  <2>1. /\ status'[session] = "disconnected" /\ session \in Tasks
        /\ \A x \in Tasks : x # session => status'[x] = status[x]
    BY <1>8, DialNumbers DEF TypeOK, SessionTypeOK
  <2>2. ConnectLeads' /\ SpawnLeadsIt' /\ StartingIsLed'
    BY <1>6, <1>8, <2>1 DEF DialInv, ConnectLeads, SpawnLeadsIt, StartingIsLed, Leads
  <2>. QED
    BY <1>3, <1>4, <1>5, <2>2 DEF DialInv
<1>9. CASE UNCHANGED <<session, status, agent, open>> /\ quitting'
  <2>1. ConnectLeads' /\ SpawnLeadsIt' /\ StartingIsLed'
    BY <1>9 DEF DialInv, ConnectLeads, SpawnLeadsIt, StartingIsLed, Leads
  <2>. QED
    BY <1>3, <1>4, <1>5, <2>1 DEF DialInv
<1>. QED
  BY <1>7, <1>8, <1>9

(* A Disconnect, a DELETE and a quit call off whatever dials.              *)
LEMMA EndsDial ==
  ASSUME TypeOK, DialInv, DisconnectAsked \/ CloseAsked \/ beginQuit
  PROVE  DialInv'
<1>1. CASE CloseAsked
  BY <1>1, GivenUpDials DEF CloseAsked, closeSession, letGoOfConnection, taskVars, holdVars
<1>2. CASE beginQuit
  BY <1>2, GivenUpDials DEF beginQuit, sessionVars, linkVars, taskVars
<1>3. CASE DisconnectAsked
  <2>0. closeAcquisition /\ letGoOfConnection /\ UNCHANGED <<begun, tasks, quitting>>
    BY <1>3 DEF DisconnectAsked, taskVars
  <2>1. CASE session # 0 /\ status[session] # "starting"
    <3>1. cancelReconnect /\ session' = session /\ status' = [status EXCEPT ![session] = "disconnected"]
      BY <1>3, <2>1 DEF DisconnectAsked, updateSessionStatus
    <3>. QED
      BY <2>0, <2>1, <3>1, GivenUpDials DEF letGoOfConnection
  <2>2. CASE session # 0 /\ status[session] = "starting"
    <3>1. closeSession
      BY <1>3, <2>2 DEF DisconnectAsked
    <3>. QED
      BY <2>0, <3>1, GivenUpDials DEF letGoOfConnection, closeSession
  <2>3. CASE session = 0
    <3>1. cancelReconnect /\ session' = 0 /\ status' = status
      BY <1>3, <2>3 DEF DisconnectAsked, sessionVars
    <3>2. status' = [s \in Tasks |-> IF s = session THEN "closed" ELSE status[s]]
      BY <2>3, <3>1 DEF TypeOK, SessionTypeOK, Tasks
    <3>. QED
      BY <2>0, <3>1, <3>2, GivenUpDials DEF letGoOfConnection
  <2>. QED
    BY <2>1, <2>2, <2>3
<1>. QED
  BY <1>1, <1>2, <1>3

(* A session is detached only while it is active: nothing dials for it.    *)
LEMMA DetachedDials ==
  ASSUME TypeOK, DialInv, AllDetached
  PROVE  DialInv'
<1>1. /\ session # 0 /\ status[session] = "active" /\ session' = session /\ session \in Tasks
      /\ status' = [status EXCEPT ![session] = "detached"]
      /\ UNCHANGED <<begun, tasks, agent, open, acq, leases, timers, waiting, controller, aborted, quitting>>
  BY DialNumbers DEF AllDetached, updateSessionStatus, taskVars, linkVars, acqVars, retryVars, holdVars
<1>2. /\ status'[session] = "detached"
      /\ \A x \in Tasks : x # session => status'[x] = status[x]
  BY <1>1 DEF TypeOK, SessionTypeOK
<1>3. NoOther' /\ Given' /\ LeaderHolds' /\ AdoptedIsKept' /\ Serves' /\ LeaderAlone'
  BY <1>1 DEF DialInv, NoOther, Given, LeaderHolds, AdoptedIsKept, Serves,
     LeaderAlone, Leads, Tries
<1>4. OneTimer' /\ OneAttempt' /\ ConnectLeads' /\ StartingIsLed'
  BY <1>1, <1>2 DEF DialInv, OneTimer, OneAttempt, ConnectLeads, StartingIsLed, Leads, Tries
<1>5. SpawnLeadsIt'
  <2>1. \A t \in tasks : Leads(t) => t.sess \in Tasks
    BY DialNumbers DEF DialInv, LeaderHolds
  <2>. QED
    BY <1>1, <1>2, <2>1 DEF DialInv, SpawnLeadsIt, Leads
<1>. QED
  BY <1>3, <1>4, <1>5 DEF DialInv

-----------------------------------------------------------------------------
(* What the tasks do.                                                      *)

(* Only a leader that dials holds its acquisition with a lease of its own: *)
(* a release of somebody else's reaps none that is dialled for.            *)
LEMMA ReleaseReapsNoDial ==
  ASSUME TypeOK, DialInv, NEW t \in tasks, ~Leads(t), NEW holds, release(t, holds)
  PROVE  /\ leases' = LeasesWithout(t)
         /\ acq' = acq \/ (acq' = 0 /\ \A u \in tasks : Leads(u) => acq # u.n)
<1>1. ASSUME acq' # acq, NEW u \in tasks, Leads(u), acq = u.n
      PROVE  FALSE
  <2>1. leases[acq] = {t.n} /\ u.n \in leases[acq]
    BY <1>1 DEF release, DialInv, LeaderHolds
  <2>2. u.n = t.n
    BY <2>1
  <2>. QED
    BY <1>1, <2>2 DEF DialInv, Given
<1>. QED
  BY <1>1 DEF release

(* The end of whoever commits does not take the acquisition of another.    *)
LEMMA CommitTakesItsOwn ==
  ASSUME TypeOK, DialInv, NEW t \in tasks, ~Leads(t), acq' = IF acq = t.n THEN 0 ELSE acq
  PROVE  acq' = acq \/ (acq' = 0 /\ \A u \in tasks : Leads(u) => acq # u.n)
BY DEF DialInv, Given

(* Those who followed, adopted or were aborted end without touching a dial. *)
LEMMA FollowersEnd ==
  ASSUME TypeOK, DialInv, NEW t \in tasks,
         \/ ConnectAdopts(t) \/ ConnectResumes(t) \/ SpawnAnswered(t) \/ SpawnFails(t)
         \/ AgentAwaited(t) \/ AttemptAdopts(t) \/ TimerGivesUp(t) \/ AgentDialFails(t)
  PROVE  DialInv'
<1>1. CASE \/ ConnectAdopts(t) /\ ~(acq = t.n /\ agent = t.n)
           \/ ConnectResumes(t) \/ SpawnAnswered(t) \/ SpawnFails(t)
  <2>1. /\ Leave(t) /\ ~Leads(t) /\ \E holds : release(t, holds)
        /\ UNCHANGED <<session, status, agent, open, timers, waiting, controller, aborted, quitting>>
    BY <1>1 DEF ConnectAdopts, ConnectResumes, SpawnAnswered, SpawnFails, Leads,
       sessionVars, linkVars, retryVars, holdVars
  <2>2. leases' = LeasesWithout(t) /\ (acq' = acq \/ (acq' = 0 /\ \A u \in tasks : Leads(u) => acq # u.n))
    BY <2>1, ReleaseReapsNoDial
  <2>3. Stays
    BY <2>1 DEF Stays, Leave
  <2>. QED
    BY <2>1, <2>2, <2>3, OtherEnds
<1>2. CASE ConnectAdopts(t) /\ acq = t.n /\ agent = t.n
  <2>1. /\ Leave(t) /\ ~Leads(t) /\ commit(t) /\ leases' = LeasesWithout(t)
        /\ UNCHANGED <<session, status, agent, open, timers, waiting, controller, aborted, quitting>>
    BY <1>2 DEF ConnectAdopts, Leads, linkVars, retryVars, holdVars
  <2>2. acq' = acq \/ (acq' = 0 /\ \A u \in tasks : Leads(u) => acq # u.n)
    BY <2>1, CommitTakesItsOwn DEF commit
  <2>3. Stays
    BY <2>1 DEF Stays, Leave
  <2>. QED
    BY <2>1, <2>2, <2>3, OtherEnds
<1>3. CASE AgentAwaited(t) \/ AttemptAdopts(t) \/ TimerGivesUp(t) \/ AgentDialFails(t)
  <2>1. /\ Leave(t) /\ ~Leads(t) /\ UNCHANGED <<acq, leases>>
        /\ UNCHANGED <<session, status, agent, open, timers, waiting, aborted, quitting>>
        /\ controller' = controller \/ (controller = t.n /\ controller' = 0)
    BY <1>3 DEF AgentAwaited, AttemptAdopts, TimerGivesUp, AgentDialFails, Leads, Dialling, clearController,
       sessionVars, linkVars, retryVars, holdVars, acqVars
  <2>2. Stays
    BY <2>1 DEF Stays, Leave
  <2>. QED
    BY <2>1, <2>2, OtherEnds
<1>. QED
  BY <1>1, <1>2, <1>3

(* A SPAWN's dial fails.  A session that is starting is the host's.        *)
LEMMA SpawnDialFailsDials ==
  ASSUME TypeOK, DialInv, NEW t \in tasks, SpawnDialFails(t)
  PROVE  DialInv'
<1>1. /\ tasks' = tasks \ {t} /\ begun' = begun /\ Leads(t) /\ t.kind = "spawn"
      /\ acq' = (IF acq = t.n THEN 0 ELSE acq) /\ leases' = LeasesWithout(t)
      /\ UNCHANGED <<agent, open, timers, waiting, controller, aborted, quitting>>
  BY DEF SpawnDialFails, Leave, Leads, Dialling, failConnectingAcq, linkVars, retryVars, holdVars
<1>2. \A u \in tasks' : u \in tasks /\ u.n # t.n /\ u.n # 0
  BY <1>1, DialNumbers DEF DialInv, Given, Tasks
<1>3. \A u \in tasks' : u.n \in leases[u.n] => u.n \in leases'[u.n]
  BY <1>1, <1>2, DialNumbers DEF LeasesWithout, TypeOK, AcqTypeOK
<1>4. \A u \in tasks' : acq' = u.n <=> acq = u.n
  BY <1>1, <1>2
<1>5. acq' <= begun /\ \A u \in tasks : Leads(u) => u.sess \in Tasks
  BY <1>1, DialNumbers DEF DialInv, Given, LeaderHolds
<1>6. CASE status[t.sess] = "starting"
  <2>1. /\ agent = 0 /\ session = t.sess /\ session' = 0
        /\ status' = [s \in Tasks |-> IF s = session THEN "closed" ELSE status[s]]
    BY <1>1, <1>6 DEF SpawnDialFails, removeSession, DialInv, SpawnLeadsIt
  <2>2. NoOther' /\ Given' /\ LeaderHolds' /\ AdoptedIsKept' /\ Serves'
    BY <1>1, <1>2, <1>3, <1>5, <2>1, DialNumbers
       DEF DialInv, NoOther, Given, LeaderHolds, AdoptedIsKept, Serves, Leads
  <2>3. OneTimer' /\ OneAttempt' /\ LeaderAlone'
    BY <1>1, <1>2, <1>4, <1>6, <2>1 DEF DialInv, OneTimer, OneAttempt, LeaderAlone, Leads, Tries
  <2>4. ConnectLeads' /\ StartingIsLed' /\ SpawnLeadsIt'
    BY <1>1, <1>2, <1>5, <2>1 DEF DialInv, LeaderHolds, ConnectLeads, StartingIsLed, SpawnLeadsIt, Leads
  <2>. QED
    BY <2>2, <2>3, <2>4 DEF DialInv
<1>7. CASE status[t.sess] # "starting"
  <2>1. session' = session /\ status' = status
    BY <1>7 DEF SpawnDialFails, sessionVars
  <2>2. NoOther' /\ Given' /\ LeaderHolds' /\ AdoptedIsKept' /\ Serves'
    BY <1>1, <1>2, <1>3, <1>5, <2>1, DialNumbers
       DEF DialInv, NoOther, Given, LeaderHolds, AdoptedIsKept, Serves, Leads
  <2>3. OneTimer' /\ OneAttempt' /\ LeaderAlone'
    BY <1>1, <1>2, <1>4, <2>1 DEF DialInv, OneTimer, OneAttempt, LeaderAlone, Leads, Tries
  <2>4. ConnectLeads' /\ SpawnLeadsIt'
    BY <1>1, <1>2, <1>4, <2>1 DEF DialInv, ConnectLeads, SpawnLeadsIt, Leads
  <2>5. StartingIsLed'
    BY <1>1, <1>7, <1>4, <2>1 DEF DialInv, StartingIsLed, Leads
  <2>. QED
    BY <2>2, <2>3, <2>4, <2>5 DEF DialInv
<1>. QED
  BY <1>6, <1>7

(* A Connect's dial fails.                                                 *)
LEMMA ConnectDialFailsDials ==
  ASSUME TypeOK, DialInv, NEW t \in tasks, ConnectDialFails(t)
  PROVE  DialInv'
<1>1. /\ tasks' = tasks \ {t} /\ begun' = begun /\ Leads(t) /\ t.kind = "connect"
      /\ acq' = (IF acq = t.n THEN 0 ELSE acq) /\ leases' = LeasesWithout(t)
      /\ UNCHANGED <<agent, open, timers, waiting, controller, aborted, quitting>>
  BY DEF ConnectDialFails, Leave, Leads, Dialling, failConnectingAcq, linkVars, retryVars, holdVars
<1>2. \A u \in tasks' : u \in tasks /\ u.n # t.n /\ u.n # 0
  BY <1>1, DialNumbers DEF DialInv, Given, Tasks
<1>3. \A u \in tasks' : u.n \in leases[u.n] => u.n \in leases'[u.n]
  BY <1>1, <1>2, DialNumbers DEF LeasesWithout, TypeOK, AcqTypeOK
<1>4. \A u \in tasks' : acq' = u.n <=> acq = u.n
  BY <1>1, <1>2
<1>5. acq' <= begun /\ \A u \in tasks : Leads(u) => u.sess \in Tasks
  BY <1>1, DialNumbers DEF DialInv, Given, LeaderHolds
<1>6. CASE session = t.sess
  <2>1. /\ agent = 0 /\ status[session] = "starting" /\ session \in Tasks /\ session # 0
        /\ \A u \in tasks' : ~(Leads(u) /\ u.kind = "connect" /\ u.sess = session)
        /\ waiting = 0 /\ \A u \in tasks : ~Tries(u)
    BY <1>1, <1>5, <1>6 DEF DialInv, ConnectLeads, OneTimer, OneAttempt, Tasks
  <2>2. /\ session' \in {0, session} /\ status'[session] \in {"closed", "disconnected"}
        /\ \A x \in Tasks : x # session => status'[x] = status[x]
    BY <1>6, <2>1 DEF ConnectDialFails, removeSession, updateSessionStatus, TypeOK, SessionTypeOK
  <2>3. NoOther' /\ Given' /\ LeaderHolds' /\ AdoptedIsKept' /\ Serves'
    BY <1>1, <1>2, <1>3, <1>5, <2>1, <2>2, DialNumbers
       DEF DialInv, NoOther, Given, LeaderHolds, AdoptedIsKept, Serves, Leads
  <2>4. OneTimer' /\ OneAttempt' /\ LeaderAlone'
    BY <1>1, <1>2, <1>4, <2>1 DEF DialInv, OneTimer, OneAttempt, LeaderAlone, Leads, Tries
  <2>5. ConnectLeads' /\ StartingIsLed' /\ SpawnLeadsIt'
    BY <1>1, <1>2, <1>5, <2>1, <2>2
       DEF DialInv, LeaderHolds, ConnectLeads, StartingIsLed, SpawnLeadsIt, Leads
  <2>. QED
    BY <2>3, <2>4, <2>5 DEF DialInv
<1>7. CASE session # t.sess
  <2>1. session' = session /\ status' = status
    BY <1>5, <1>7 DEF ConnectDialFails, updateSessionStatus, TypeOK, SessionTypeOK
  <2>2. NoOther' /\ Given' /\ LeaderHolds' /\ AdoptedIsKept' /\ Serves'
    BY <1>1, <1>2, <1>3, <1>5, <2>1, DialNumbers
       DEF DialInv, NoOther, Given, LeaderHolds, AdoptedIsKept, Serves, Leads
  <2>3. OneTimer' /\ OneAttempt' /\ LeaderAlone'
    BY <1>1, <1>2, <1>4, <2>1 DEF DialInv, OneTimer, OneAttempt, LeaderAlone, Leads, Tries
  <2>4. ConnectLeads' /\ SpawnLeadsIt'
    BY <1>1, <1>2, <1>4, <2>1 DEF DialInv, ConnectLeads, SpawnLeadsIt, Leads
  <2>5. StartingIsLed'
    BY <1>1, <1>7, <1>4, <2>1 DEF DialInv, StartingIsLed, Leads
  <2>. QED
    BY <2>2, <2>3, <2>4, <2>5 DEF DialInv
<1>. QED
  BY <1>6, <1>7

(* A task that goes on to another stage is the same in all else.           *)
LEMMA GoesOn ==
  ASSUME TypeOK, NEW t \in tasks, NEW stage, NEW c, GoTo(t, stage, c)
  PROVE  /\ begun' = begun
         /\ \E u : /\ tasks' = (tasks \ {t}) \cup {u}
                   /\ u.n = t.n /\ u.kind = t.kind /\ u.sess = t.sess /\ u.stage = stage
<1>. DEFINE u == [t EXCEPT !.stage = stage, !.conn = c]
<1>1. begun' = begun /\ tasks' = (tasks \ {t}) \cup {u}
  BY DEF GoTo
<1>2. u.n = t.n /\ u.kind = t.kind /\ u.sess = t.sess /\ u.stage = stage
  BY DEF TypeOK, TaskTypeOK, Task
<1>. HIDE DEF u
<1>. QED
  BY <1>1, <1>2

(* A dial that succeeds while no other is current leaves none.             *)
LEMMA HostReached ==
  ASSUME TypeOK, DialInv, NEW t \in tasks, t.stage = "dial",
         session = t.sess, session # 0, agent = 0, waiting = 0,
         \A u \in tasks : u # t => /\ ~Tries(u)
                                   /\ Leads(u) => acq # u.n
                                   /\ Leads(u) /\ u.kind = "connect" => u.sess # session,
         updateSessionStatus(t.sess, "active"), adoptAgent(t.n), GoTo(t, "adopt", t.n),
         UNCHANGED <<acqVars, retryVars, holdVars>>
  PROVE  DialInv'
<1>1. PICK v : /\ tasks' = (tasks \ {t}) \cup {v}
               /\ v.n = t.n /\ v.kind = t.kind /\ v.sess = t.sess /\ v.stage = "adopt"
  BY GoesOn
<1>2. /\ begun' = begun /\ session' = session /\ agent' = t.n /\ open' = open \cup {t.n}
      /\ UNCHANGED <<acq, leases, timers, waiting, controller, aborted, quitting>>
  BY GoesOn DEF updateSessionStatus, adoptAgent, acqVars, retryVars, holdVars
<1>3. session \in Tasks /\ t.n # 0 /\ \A u \in tasks : u # t => u.n # t.n
  BY DialNumbers DEF DialInv, Given, Tasks
<1>4. status'[session] = "active" /\ \A x \in Tasks : x # session => status'[x] = status[x]
  BY <1>3 DEF updateSessionStatus, TypeOK, SessionTypeOK
<1>5. NoOther' /\ Given' /\ LeaderHolds'
  BY <1>1, <1>2, <1>3, DialNumbers DEF DialInv, NoOther, Given, LeaderHolds, Leads
<1>6. OneTimer' /\ OneAttempt' /\ LeaderAlone' /\ Serves'
  BY <1>1, <1>2 DEF DialInv, OneTimer, OneAttempt, LeaderAlone, Serves, Leads, Tries
<1>7. ConnectLeads' /\ StartingIsLed'
  BY <1>1, <1>2, <1>4 DEF ConnectLeads, StartingIsLed, Leads
<1>8. SpawnLeadsIt'
  <2>1. \A u \in tasks : Leads(u) => u.sess \in Tasks
    BY DialNumbers DEF DialInv, LeaderHolds
  <2>2. ASSUME NEW u \in tasks, Leads(u), u.kind = "spawn", u # t PROVE status'[u.sess] # "starting"
    BY <1>3, <1>4, <2>1, <2>2 DEF DialInv, SpawnLeadsIt
  <2>. QED
    BY <1>1, <2>2 DEF SpawnLeadsIt, Leads
<1>9. AdoptedIsKept'
  <2>1. \A u \in tasks : u.n # 0
    BY DialNumbers DEF Tasks
  <2>. QED
    BY <1>1, <1>2, <1>3, <2>1 DEF DialInv, AdoptedIsKept
<1>. QED
  BY <1>5, <1>6, <1>7, <1>8, <1>9 DEF DialInv

(* A leader's dial succeeds: its acquisition is the host's, so nobody else *)
(* reaches the host.                                                       *)
LEMMA LeaderSucceedsDials ==
  ASSUME TypeOK, DialInv, NothingReaches, NEW t \in tasks, LeaderDialSucceeds(t)
  PROVE  DialInv' /\ agent = 0
<1>1. Leads(t) /\ acq = t.n /\ session = t.sess /\ t.stage = "dial"
  BY DEF LeaderDialSucceeds, Leads, Dialling
<1>2. t.n # 0 /\ ~quitting /\ \A u \in tasks : u # t => u.n # t.n
  BY <1>1, DialNumbers DEF DialInv, Given, NothingReaches, Tasks
<1>3. agent = 0 /\ waiting = 0 /\ session # 0 /\ \A u \in tasks : ~Tries(u)
  BY <1>1 DEF DialInv, LeaderAlone, LeaderHolds
<1>4. \A u \in tasks : u # t /\ Leads(u) /\ u.kind = "connect" => u.sess # session
  BY <1>1, <1>2 DEF DialInv, ConnectLeads
<1>. QED
  BY <1>1, <1>2, <1>3, <1>4, HostReached DEF LeaderDialSucceeds

(* A timer's attempt succeeds: it is the current one, and nobody leads.    *)
LEMMA AttemptSucceedsDials ==
  ASSUME TypeOK, DialInv, NEW t \in tasks, AttemptSucceeds(t)
  PROVE  DialInv' /\ agent = 0
<1>1. Tries(t) /\ session = t.sess /\ t.stage = "dial"
  BY DEF AttemptSucceeds, Tries, Dialling, DialInv, NoOther
<1>2. /\ controller = t.n /\ session # 0 /\ status[session] = "disconnected"
      /\ agent = 0 /\ waiting = 0
  BY <1>1 DEF DialInv, OneAttempt
<1>3. \A u \in tasks : u # t => ~Tries(u)
  BY <1>2 DEF DialInv, OneAttempt, Given
<1>4. \A u \in tasks : Leads(u) => acq # u.n
  BY <1>1 DEF DialInv, LeaderAlone
<1>5. \A u \in tasks : Leads(u) /\ u.kind = "connect" => u.sess # session
  BY <1>2 DEF DialInv, ConnectLeads
<1>. QED
  BY <1>1, <1>2, <1>3, <1>4, <1>5, HostReached DEF AttemptSucceeds

(* A task that does not dial starts its terminal: it still does not dial.  *)
LEMMA StartDials ==
  ASSUME TypeOK, DialInv, Stays, NEW t \in tasks, NEW c, GoTo(t, "spawn", c), t.kind = "spawn",
         ~Leads(t), ~Tries(t),
         UNCHANGED <<leases, controller>>,
         acq' = acq \/ (acq' = 0 /\ \A u \in tasks : Leads(u) => acq # u.n)
  PROVE  DialInv'
<1>1. PICK v : /\ tasks' = (tasks \ {t}) \cup {v}
               /\ v.n = t.n /\ v.kind = t.kind /\ v.sess = t.sess /\ v.stage = "spawn"
  BY GoesOn
<1>2. \A u \in tasks : u # t => u.n # t.n
  BY DEF DialInv, Given
<1>3. \A u \in tasks : Leads(u) => (acq' = u.n <=> acq = u.n)
  BY DialNumbers DEF Tasks
<1>4. NoOther' /\ Given' /\ LeaderHolds'
  BY <1>1, <1>2, DialNumbers DEF DialInv, NoOther, Given, LeaderHolds, Leads, Stays
<1>5. OneTimer' /\ Serves' /\ AdoptedIsKept' /\ OneAttempt'
  BY <1>1 DEF DialInv, OneTimer, Serves, AdoptedIsKept, OneAttempt, Tries, Stays
<1>6. LeaderAlone'
  BY <1>1, <1>3 DEF DialInv, LeaderAlone, Leads, Tries, Stays
<1>7. ConnectLeads' /\ SpawnLeadsIt'
  BY <1>1, <1>3 DEF DialInv, ConnectLeads, SpawnLeadsIt, Leads, Stays
<1>8. StartingIsLed'
  BY <1>1, <1>3 DEF DialInv, StartingIsLed, Leads, Stays
<1>. QED
  BY <1>4, <1>5, <1>6, <1>7, <1>8 DEF DialInv

(* The last that wanted the host lets go of its connection and session.    *)
LEMMA AbandonedDials ==
  ASSUME TypeOK, DialInv, NEW t \in tasks, Leave(t), ~Leads(t), agent # 0, session = t.sess,
         leases' = LeasesWithout(t), letGoOfConnection,
         session' = 0, status' = [status EXCEPT ![t.sess] = "closed"],
         acq' = acq \/ (acq' = 0 /\ \A u \in tasks : Leads(u) => acq # u.n),
         UNCHANGED <<timers, waiting, controller, aborted, quitting>>
  PROVE  DialInv'
<1>1. tasks' = tasks \ {t} /\ begun' = begun /\ agent' = 0 /\ open' = open \ {agent}
  BY DEF Leave, letGoOfConnection
<1>2. \A u \in tasks' : u \in tasks /\ u.n # t.n /\ u.n # 0
  BY <1>1, DialNumbers DEF DialInv, Given, Tasks
<1>3. \A u \in tasks' : u.n \in leases[u.n] => u.n \in leases'[u.n]
  BY <1>1, <1>2, DialNumbers DEF LeasesWithout, TypeOK, AcqTypeOK
<1>4. \A u \in tasks' : Leads(u) => acq' # u.n
  BY <1>2, ConnectedIsAlone
<1>5. \A u \in tasks : Leads(u) => u.sess \in Tasks /\ u.sess # 0
  BY DialNumbers DEF DialInv, LeaderHolds
<1>6. NoOther' /\ Given' /\ LeaderHolds'
  BY <1>1, <1>2, <1>3, DialNumbers DEF DialInv, NoOther, Given, LeaderHolds, Leads
<1>7. OneTimer' /\ OneAttempt' /\ LeaderAlone' /\ Serves' /\ AdoptedIsKept'
  BY <1>1, <1>2, <1>4, ConnectedIsAlone
     DEF DialInv, OneTimer, OneAttempt, LeaderAlone, Serves, AdoptedIsKept, Leads, Tries
<1>8. ConnectLeads' /\ StartingIsLed'
  BY <1>2, <1>5 DEF ConnectLeads, StartingIsLed, Leads
<1>9. SpawnLeadsIt'
  <2>1. ASSUME NEW u \in tasks, Leads(u), u.kind = "spawn" PROVE status'[u.sess] # "starting"
    BY <1>5, <2>1, ConnectedIsAlone DEF TypeOK, SessionTypeOK
  <2>. QED
    BY <1>2, <2>1 DEF SpawnLeadsIt, Leads
<1>. QED
  BY <1>6, <1>7, <1>8, <1>9 DEF DialInv

(* A SPAWN goes on once its acquisition is settled, as a leader that has   *)
(* adopted or as a follower.                                               *)
LEMMA SpawnGoesOnDials ==
  ASSUME TypeOK, DialInv, NEW t \in tasks, NEW c, NEW reached \in BOOLEAN,
         SpawnGoesOn(t, c, reached), t.kind = "spawn", t.stage \in {"adopt", "follow"}, reached => agent # 0,
         acq' = acq \/ (acq' = 0 /\ \A u \in tasks : Leads(u) => acq # u.n),
         UNCHANGED <<timers, waiting, controller, aborted, quitting>>
  PROVE  DialInv'
<1>1. ~Leads(t) /\ ~Tries(t)
  BY DEF Leads, Tries
<1>2. CASE /\ Leave(t) /\ leases' = LeasesWithout(t)
           /\ UNCHANGED <<session, status, linkVars>>
  <2>1. Stays
    BY <1>2 DEF Stays, Leave, linkVars
  <2>. QED
    BY <1>1, <1>2, <2>1, OtherEnds
<1>3. CASE SpawnStarts(t, c)
  <2>1. Stays /\ GoTo(t, "spawn", c) /\ leases' = leases
    BY <1>3 DEF Stays, SpawnStarts, GoTo, linkVars
  <2>. QED
    BY <1>1, <2>1, StartDials
<1>4. CASE /\ reached /\ SpawnAbandoned(t)
           /\ ~UNCHANGED <<session, status, linkVars>>
  <2>1. /\ Leave(t) /\ leases' = LeasesWithout(t) /\ session = t.sess /\ letGoOfConnection
        /\ session' = 0 /\ status' = [status EXCEPT ![t.sess] = "closed"]
    BY <1>4 DEF SpawnAbandoned
  <2>. QED
    BY <1>1, <1>4, <2>1, AbandonedDials
<1>. QED
  BY <1>2, <1>3, <1>4 DEF SpawnGoesOn, SpawnGivenUp, SpawnFenced, SpawnAbandoned

(* The leader of a SPAWN commits; a follower of it hears of it.            *)
LEMMA SpawnHeardDials ==
  ASSUME TypeOK, DialInv, NEW t \in tasks, SpawnAdopts(t) \/ SpawnResumes(t)
  PROVE  DialInv'
<1>1. CASE SpawnAdopts(t)
  <2>1. /\ t.stage = "adopt" /\ t.kind = "spawn" /\ commit(t)
        /\ SpawnGoesOn(t, t.n, session = t.sess /\ t.n \in open)
        /\ UNCHANGED <<timers, waiting, controller, aborted, quitting>>
    BY <1>1 DEF SpawnAdopts, retryVars, holdVars
  <2>2. t.n \in open => agent # 0
    BY <2>1, DialNumbers DEF DialInv, AdoptedIsKept, Tasks
  <2>3. acq' = acq \/ (acq' = 0 /\ \A u \in tasks : Leads(u) => acq # u.n)
    BY <2>1, CommitTakesItsOwn DEF commit, Leads
  <2>. QED
    BY <2>1, <2>2, <2>3, SpawnGoesOnDials
<1>2. CASE SpawnResumes(t)
  <2>1. /\ t.stage = "follow" /\ t.kind = "spawn"
        /\ SpawnGoesOn(t, agent, promise[t.acq] = "resolved" /\ session = t.sess /\ agent # 0)
        /\ UNCHANGED <<acq, timers, waiting, controller, aborted, quitting>>
    BY <1>2 DEF SpawnResumes, retryVars, holdVars
  <2>. QED
    BY <2>1, SpawnGoesOnDials
<1>. QED
  BY <1>1, <1>2

(* A timer's dial fails: the next timer is the only one.                   *)
LEMMA TimerDialFailsDials ==
  ASSUME TypeOK, DialInv, NEW t \in tasks, TimerDialFails(t)
  PROVE  DialInv'
<1>1. /\ tasks' = tasks \ {t} /\ begun' = begun /\ Tries(t) /\ ~Leads(t)
      /\ UNCHANGED <<session, status, agent, open, acq, leases, aborted, quitting>>
      /\ controller' = IF controller = t.n THEN 0 ELSE controller
  BY DEF TimerDialFails, Leave, Tries, Leads, Dialling, clearController,
         sessionVars, linkVars, acqVars, holdVars
<1>2. /\ controller = t.n /\ session = t.sess /\ session # 0 /\ session \in Tasks
      /\ status[session] = "disconnected" /\ agent = 0 /\ waiting = 0
  BY <1>1, DialNumbers DEF DialInv, OneAttempt
<1>3. \A u \in tasks' : u \in tasks /\ u.n # t.n /\ ~Tries(u)
  BY <1>1, <1>2 DEF DialInv, OneAttempt, Given
<1>4. \A u \in tasks : Leads(u) => acq # u.n
  BY <1>1 DEF DialInv, LeaderAlone
<1>5. OneTimer'
  <2>1. CASE quitting \/ userDisconnected
    BY <1>1, <1>2, <2>1 DEF TimerDialFails, scheduleReconnect, DialInv, OneTimer
  <2>2. CASE ~(quitting \/ userDisconnected)
    <3>1. timers' = [timers EXCEPT ![session] = @ + 1] /\ waiting' = session
      BY <1>2, <2>2 DEF TimerDialFails, scheduleReconnect
    <3>2. \A s \in Tasks : timers[s] = 0
      BY <1>2 DEF DialInv, OneTimer, Tasks
    <3>. QED
      BY <1>1, <1>2, <3>1, <3>2 DEF OneTimer, TypeOK, RetryTypeOK
  <2>. QED
    BY <2>1, <2>2
<1>6. NoOther' /\ Given' /\ LeaderHolds' /\ AdoptedIsKept' /\ Serves'
  BY <1>1, <1>3, DialNumbers
     DEF DialInv, NoOther, Given, LeaderHolds, AdoptedIsKept, Serves, Leads
<1>7. OneAttempt' /\ LeaderAlone'
  BY <1>1, <1>3, <1>4 DEF OneAttempt, LeaderAlone, Leads, Tries
<1>8. ConnectLeads' /\ SpawnLeadsIt' /\ StartingIsLed'
  BY <1>1, <1>2, <1>3 DEF DialInv, ConnectLeads, SpawnLeadsIt, StartingIsLed, Leads
<1>. QED
  BY <1>5, <1>6, <1>7, <1>8 DEF DialInv

(* The time of the reconnect is up: the session ends.                      *)
LEMMA TimerRunsOutDials ==
  ASSUME TypeOK, DialInv, NEW t \in tasks, TimerRunsOut(t)
  PROVE  DialInv'
<1>1. /\ tasks' = tasks \ {t} /\ begun' = begun /\ Tries(t) /\ ~Leads(t)
      /\ UNCHANGED <<agent, open, acq, leases, quitting>>
  BY DEF TimerRunsOut, Leave, Tries, Leads, Dialling, linkVars, acqVars, holdVars
<1>2. /\ session = t.sess /\ agent = 0 /\ session \in Tasks
  BY <1>1, DialNumbers DEF DialInv, OneAttempt
<1>3. cancelReconnect /\ session' = 0
      /\ status' = [s \in Tasks |-> IF s = session THEN "closed" ELSE status[s]]
  BY <1>2 DEF TimerRunsOut, closeSession
<1>4. /\ \A x \in Tasks : timers'[x] = 0
      /\ waiting' = 0 /\ controller' = 0
      /\ \A n \in aborted' : n <= begun
      /\ \A u \in tasks : ~(u.stage = "dial" /\ u.kind = "timer" /\ u.n \notin aborted')
  BY <1>3, Cancelled
<1>5. \A u \in tasks : Leads(u) => acq # u.n /\ u.sess \in Tasks /\ u.sess # 0
  BY <1>1, DialNumbers DEF DialInv, LeaderAlone, LeaderHolds
<1>6. NoOther' /\ Given' /\ LeaderHolds' /\ AdoptedIsKept' /\ Serves'
  BY <1>1, <1>2, <1>3, <1>4, DialNumbers
     DEF DialInv, NoOther, Given, LeaderHolds, AdoptedIsKept, Serves, Leads
<1>7. OneTimer' /\ OneAttempt' /\ LeaderAlone'
  BY <1>1, <1>4, <1>5 DEF OneTimer, OneAttempt, LeaderAlone, Leads, Tries, Tasks
<1>8. ConnectLeads' /\ SpawnLeadsIt' /\ StartingIsLed'
  BY <1>1, <1>2, <1>3, <1>5 DEF DialInv, ConnectLeads, SpawnLeadsIt, StartingIsLed, Leads
<1>. QED
  BY <1>6, <1>7, <1>8 DEF DialInv

(* A timer's dial succeeds while the hub quits: nobody's connection.       *)
LEMMA TimerFencedDials ==
  ASSUME TypeOK, DialInv, NEW t \in tasks, TimerFenced(t)
  PROVE  DialInv'
<1>1. /\ tasks' = tasks \ {t} /\ begun' = begun /\ Tries(t) /\ quitting /\ session = t.sess
      /\ session' = session /\ open' = open \cup {t.n}
      /\ UNCHANGED <<agent, acq, leases, timers, waiting, aborted, quitting>>
      /\ controller' = IF controller = t.n THEN 0 ELSE controller
  BY DEF TimerFenced, Leave, Tries, Dialling, clearController, updateSessionStatus, acqVars, holdVars
<1>2. /\ controller = t.n /\ session \in Tasks
      /\ status[session] = "disconnected" /\ agent = 0 /\ waiting = 0
  BY <1>1, DialNumbers DEF DialInv, OneAttempt
<1>3. \A u \in tasks' : u \in tasks /\ u.n # t.n /\ ~Tries(u)
  BY <1>1, <1>2 DEF DialInv, OneAttempt, Given
<1>4. \A u \in tasks : Leads(u) => acq # u.n /\ u.sess \in Tasks
  BY <1>1, DialNumbers DEF DialInv, LeaderAlone, LeaderHolds
<1>5. status'[session] = "active" /\ \A x \in Tasks : x # session => status'[x] = status[x]
  BY <1>1, <1>2 DEF TimerFenced, updateSessionStatus, TypeOK, SessionTypeOK
<1>6. NoOther' /\ Given' /\ LeaderHolds' /\ AdoptedIsKept' /\ Serves'
  BY <1>1, <1>3, DialNumbers
     DEF DialInv, NoOther, Given, LeaderHolds, AdoptedIsKept, Serves, Leads
<1>7. OneTimer' /\ OneAttempt' /\ LeaderAlone'
  BY <1>1, <1>2, <1>3, <1>4 DEF DialInv, OneTimer, OneAttempt, LeaderAlone, Leads, Tries
<1>8. ConnectLeads' /\ SpawnLeadsIt' /\ StartingIsLed'
  BY <1>1, <1>2, <1>3, <1>4, <1>5 DEF DialInv, ConnectLeads, SpawnLeadsIt, StartingIsLed, Leads
<1>. QED
  BY <1>6, <1>7, <1>8 DEF DialInv

-----------------------------------------------------------------------------
(* No step breaks it.                                                      *)

(* The steps of the tasks.                                                 *)
LEMMA TaskStepDials ==
  ASSUME TypeOK, DialInv, NothingReaches, NEW t \in tasks, Resume(t) \/ TaskStep(t)
  PROVE  DialInv'
<1>1. CASE ClientLeaves(t)
  BY <1>1, DialsStay DEF ClientLeaves, Stays, sessionVars, linkVars, acqVars, retryVars, holdVars
<1>2. CASE SpawnResumes(t) \/ SpawnAdopts(t)
  BY <1>2, SpawnHeardDials
<1>3. CASE \/ ConnectAdopts(t) \/ ConnectResumes(t) \/ SpawnAnswered(t) \/ SpawnFails(t)
           \/ AgentAwaited(t) \/ AttemptAdopts(t) \/ TimerGivesUp(t) \/ AgentDialFails(t)
  BY <1>3, FollowersEnd
<1>4. CASE SpawnDialFails(t) \/ ConnectDialFails(t)
  BY <1>4, SpawnDialFailsDials, ConnectDialFailsDials
<1>5. CASE LeaderDialSucceeds(t) \/ AttemptSucceeds(t)
  BY <1>5, LeaderSucceedsDials, AttemptSucceedsDials
<1>6. CASE TimerDialFails(t) \/ TimerRunsOut(t) \/ TimerFenced(t)
  BY <1>6, TimerDialFailsDials, TimerRunsOutDials, TimerFencedDials
<1>. QED
  BY <1>1, <1>2, <1>3, <1>4, <1>5, <1>6 DEF Resume, TaskStep

(* What happens to the hub.                                                *)
LEMMA EventDials ==
  ASSUME TypeOK, DialInv, Event, ~DialsBeside'
  PROVE  DialInv'
<1>1. CASE SpawnOnConnected \/ SpawnLeads \/ ConnectAsked \/ ReconnectAsked
  BY <1>1, SpawnOnConnectedDials, SpawnLeadsDials, ReachDials
<1>2. CASE SpawnFollows
  <2>1. /\ Begin("spawn", "follow", acq, LeaderSession, 0) /\ join /\ acq # 0
        /\ UNCHANGED <<session, status, agent, open, timers, waiting, controller, aborted, quitting>>
    BY <1>2 DEF SpawnFollows, sessionVars, linkVars, retryVars
  <2>. QED
    BY <2>1, FollowerBegins
<1>3. CASE AttachAsked \/ RestartAsked
  <2>1. PICK kind \in {"attach", "restart"} :
          /\ ReconnectAgent(kind)
          /\ UNCHANGED <<session, status, agent, open, acq, leases, quitting>>
    BY <1>3 DEF AttachAsked, RestartAsked, sessionVars, linkVars, acqVars, holdVars
  <2>2. ASSUME NEW s, Begin(kind, "dial", 0, s, 0) PROVE FALSE
    <3>1. PICK u : tasks' = tasks \cup {u} /\ u.kind = kind /\ u.stage = "dial"
      BY <2>2, DialBegins
    <3>. QED
      BY <2>1, <3>1 DEF DialsBeside
  <2>3. /\ Begin(kind, "follow", acq, LeaderSession, 0) /\ acq # 0
        /\ UNCHANGED <<timers, waiting, controller, aborted>>
    BY <2>1, <2>2 DEF ReconnectAgent, retryVars
  <2>. QED
    BY <2>1, <2>3, FollowerBegins
<1>4. CASE LinkLost \/ AllDetached
  BY <1>4, LinkLostDials, DetachedDials
<1>5. ASSUME NEW c \in Tasks, StrayEnds(c) PROVE DialInv'
  BY <1>5, DialsStay DEF StrayEnds, Stays, taskVars, sessionVars, acqVars, retryVars, holdVars
<1>6. ASSUME NEW s \in Tasks, TimerFires(s) PROVE DialInv'
  BY <1>6, TimerFiresDials
<1>7. ASSUME NEW n \in Tasks, TerminalEnds(n) PROVE DialInv'
  BY <1>7, DialsStay DEF TerminalEnds, Stays, taskVars, linkVars, acqVars, retryVars, holdVars
<1>8. CASE DisconnectAsked \/ CloseAsked \/ beginQuit
  BY <1>8, EndsDial
<1>. QED
  BY <1>1, <1>2, <1>3, <1>4, <1>5, <1>6, <1>7, <1>8 DEF Event

(* The numbers in use were given, whoever dials.                           *)
Counted ==
  /\ acq <= begun /\ controller <= begun /\ session <= begun
  /\ \A n \in aborted : n <= begun

(* A step uses a number it gives, or one that was in use.                  *)
LEMMA StepUses ==
  ASSUME Step
  PROVE  /\ begun' = begun \/ begun' = n1
         /\ acq' \in {acq, 0} \/ (acq' = n1 /\ begun' = n1)
         /\ session' \in {session, 0} \/ (session' = n1 /\ begun' = n1)
         /\ controller' \in {controller, 0} \/ (controller' = n1 /\ begun' = n1)
         /\ aborted' \subseteq aborted \cup ({controller} \ {0})
<1>1. CASE SpawnOnConnected \/ SpawnFollows \/ SpawnLeads
  BY <1>1 DEF SpawnOnConnected, SpawnFollows, SpawnLeads, Begin, getOrCreateSession, SessionFor,
     join, acquire, acqVars, retryVars, sessionVars
<1>2. CASE ConnectAsked \/ ReconnectAsked
  BY <1>2 DEF ConnectAsked, ReconnectAsked, ReachLeads, ReachFollows, Begin, SessionFor, join,
     acquire, cancelReconnect
<1>3. CASE AttachAsked \/ RestartAsked \/ \E s \in Tasks : TimerFires(s)
  BY <1>3 DEF AttachAsked, RestartAsked, TimerFires, ReconnectAgent, Begin, registerController,
     sessionVars, acqVars, retryVars, taskVars
<1>4. CASE DisconnectAsked \/ CloseAsked \/ beginQuit
  BY <1>4 DEF DisconnectAsked, CloseAsked, beginQuit, closeAcquisition, closeSession,
     cancelReconnect, updateSessionStatus, sessionVars, taskVars
<1>5. CASE \/ LinkLost \/ (\E c \in Tasks : StrayEnds(c))
           \/ (\E n \in Tasks : TerminalEnds(n)) \/ AllDetached
  BY <1>5 DEF LinkLost, StrayEnds, TerminalEnds, AllDetached, updateSessionStatus, sessionVars,
     acqVars, retryVars, taskVars
<1>6. ASSUME NEW t \in tasks, SpawnAdopts(t) \/ SpawnResumes(t)
      PROVE  /\ begun' = begun /\ acq' \in {acq, 0} /\ session' \in {session, 0}
             /\ UNCHANGED <<controller, aborted>>
  <2>1. begun' = begun /\ session' \in {session, 0}
    BY <1>6 DEF SpawnAdopts, SpawnResumes, SpawnGoesOn, SpawnGivenUp, SpawnStarts, SpawnFenced,
       SpawnAbandoned, Leave, GoTo
  <2>2. acq' \in {acq, 0} /\ UNCHANGED <<controller, aborted>>
    BY <1>6 DEF SpawnAdopts, SpawnResumes, commit, retryVars
  <2>. QED
    BY <2>1, <2>2
<1>7. ASSUME NEW t \in tasks, \/ ClientLeaves(t) \/ SpawnDialFails(t) \/ LeaderDialSucceeds(t)
                              \/ SpawnAnswered(t) \/ SpawnFails(t) \/ ConnectDialFails(t)
                              \/ ConnectAdopts(t) \/ ConnectResumes(t)
      PROVE  /\ begun' = begun /\ acq' \in {acq, 0} /\ session' \in {session, 0}
             /\ UNCHANGED <<controller, aborted>>
  BY <1>7 DEF ClientLeaves, SpawnDialFails, LeaderDialSucceeds, SpawnAnswered, SpawnFails,
     ConnectDialFails, ConnectAdopts, ConnectResumes, Leave, GoTo, removeSession,
     updateSessionStatus, failConnectingAcq, commit, release, sessionVars, acqVars, retryVars
<1>8. ASSUME NEW t \in tasks, \/ AgentAwaited(t) \/ AgentDialFails(t)
                              \/ AttemptSucceeds(t) \/ AttemptAdopts(t)
                              \/ TimerGivesUp(t) \/ TimerDialFails(t)
                              \/ TimerRunsOut(t) \/ TimerFenced(t)
      PROVE  /\ begun' = begun /\ acq' = acq /\ session' \in {session, 0}
             /\ controller' \in {controller, 0}
             /\ aborted' \subseteq aborted \cup ({controller} \ {0})
  BY <1>8 DEF AgentAwaited, AgentDialFails, AttemptSucceeds, AttemptAdopts, TimerGivesUp,
     TimerDialFails, TimerRunsOut, TimerFenced, Leave, GoTo, clearController, closeSession,
     cancelReconnect, updateSessionStatus, sessionVars, acqVars, retryVars
<1>. QED
  BY <1>1, <1>2, <1>3, <1>4, <1>5, <1>6, <1>7, <1>8 DEF Step, Resume, TaskStep, Event

(* So they stay given.                                                     *)
LEMMA CountedHolds == Spec => []Counted
<1>1. Init => Counted
  BY DEF Init, Counted
<1>2. HostInv /\ Counted /\ [Next]_vars => Counted'
  <2>1. SUFFICES ASSUME HostInv, Counted, [Next]_vars PROVE Counted'
    OBVIOUS
  <2>2. /\ begun \in Nat /\ acq \in Nat /\ session \in Nat /\ controller \in Nat
        /\ aborted \subseteq Nat /\ n1 = begun + 1
    BY <2>1, MaxTasksAssumption
       DEF HostInv, TypeOK, TaskTypeOK, AcqTypeOK, SessionTypeOK, RetryTypeOK, Tasks, n1
  <2>3. CASE Step
    <3>1. begun' \in Nat /\ begun <= begun' /\ (begun' = n1 => n1 <= begun')
      BY <2>2, <2>3, StepUses
    <3>2. acq' <= begun'
      BY <2>1, <2>2, <2>3, <3>1, StepUses DEF Counted
    <3>3. session' <= begun'
      BY <2>1, <2>2, <2>3, <3>1, StepUses DEF Counted
    <3>4. controller' <= begun'
      BY <2>1, <2>2, <2>3, <3>1, StepUses DEF Counted
    <3>5. \A n \in aborted' : n <= begun'
      <4>1. aborted' \subseteq aborted \cup {controller}
        BY <2>3, StepUses
      <4>2. \A n \in aborted \cup {controller} : n \in Nat /\ n <= begun
        BY <2>1, <2>2 DEF Counted
      <4>. QED
        BY <2>2, <3>1, <4>1, <4>2
    <3>. QED
      BY <3>2, <3>3, <3>4, <3>5 DEF Counted
  <2>4. CASE UNCHANGED vars
    BY <2>1, <2>4 DEF Counted, vars, taskVars, acqVars, sessionVars, retryVars
  <2>. QED
    BY <2>1, <2>3, <2>4 DEF Next
<1>. QED
  BY <1>1, <1>2, HostTypeCorrect, PTL DEF Spec

(* At rest, nothing that was mixed is left.                                *)
LEMMA RestIsClear ==
  ASSUME HostInv, Counted, AtRest
  PROVE  DialInv
<1>1. tasks = {} /\ acq = 0 /\ agent = 0 /\ \A s \in Tasks : timers[s] = 0
  BY DEF AtRest
<1>2. waiting = 0
  BY <1>1 DEF HostInv, KeptIsArmed, TypeOK, RetryTypeOK, Tasks
<1>3. OneTimer
  BY <1>1, <1>2 DEF OneTimer, Tasks
<1>4. Given
  BY <1>1 DEF Given, Counted
<1>. QED
  BY <1>1, <1>3, <1>4 DEF AtRest, DialInv, NoOther, LeaderHolds, OneAttempt, LeaderAlone,
     ConnectLeads, SpawnLeadsIt, StartingIsLed, AdoptedIsKept, Serves

(* The invariant holds of every reachable state that is not mixed.         *)
LEMMA DialInvHolds == Spec => [](mixed \/ DialInv)
<1>1. Init => DialInv
  BY DEF Init, DialInv, NoOther, Given, LeaderHolds, OneTimer, OneAttempt, LeaderAlone,
         ConnectLeads, SpawnLeadsIt, StartingIsLed, AdoptedIsKept, Serves, Tasks
<1>2. HostInv /\ NothingReaches /\ HostInv' /\ Counted' /\ (mixed \/ DialInv) /\ [Next]_vars
        => (mixed \/ DialInv)'
  <2>1. SUFFICES ASSUME HostInv, NothingReaches, HostInv', Counted', mixed \/ DialInv, [Next]_vars, ~mixed'
                 PROVE  DialInv'
    BY Zenon
  <2>2. CASE UNCHANGED vars
    <3>1. DialInv
      BY <2>1, <2>2 DEF vars
    <3>. QED
      BY <2>1, <2>2, <3>1, DialsStay DEF HostInv, Stays, vars, taskVars, sessionVars, linkVars,
         acqVars, retryVars, holdVars
  <2>3. CASE Next /\ AtRest'
    <3>. HIDE DEF HostInv, Counted, AtRest, DialInv
    <3>. QED
      BY <2>1, <2>3, RestIsClear, PTL
  <2>4. CASE Next /\ ~AtRest'
    <3>1. Step /\ ~mixed /\ ~DialsBeside'
      BY <2>1, <2>4, Zenon DEF Next
    <3>2. DialInv
      BY <2>1, <3>1
    <3>. QED
      BY <2>1, <3>1, <3>2, TaskStepDials, EventDials DEF HostInv, Step
  <2>. QED
    BY <2>1, <2>2, <2>3, <2>4
<1>. QED
  BY <1>1, <1>2, HostTypeCorrect, NothingReachesHolds, CountedHolds, PTL DEF Spec

(* However many SPAWNs, Connects, Reconnects, ATTACHs and restarts are     *)
(* under way and however links and dials are lost, the hub keeps no        *)
(* connection without a session, unless an ATTACH or a restart dialled for *)
(* itself since the host was last at rest: what ends the session           *)
(* (closeSession, the last client's leaving of handleSpawn, a dial that    *)
(* fails) ends the connection with it, or finds none.                      *)
THEOREM ConnectionServes == Spec => []AgentServesASession
<1>1. mixed \/ DialInv => AgentServesASession
  BY DEF DialInv, Serves, AgentServesASession
<1>. QED
  BY <1>1, DialInvHolds, PTL

(* However many are under way, no dial takes the place of a connection     *)
(* that is up, unless an ATTACH or a restart dialled for itself since the  *)
(* host was last at rest: hostReconnecting, the acquisition and            *)
(* cancelReconnect leave one that may succeed.                             *)
THEOREM OnlyOneConnection == Spec => OneConnection
<1>1. HostInv /\ NothingReaches /\ (mixed \/ DialInv) /\ [Next]_vars
        => [agent # 0 /\ ~mixed => agent' \in {agent, 0}]_vars
  <2>1. SUFFICES ASSUME HostInv, NothingReaches, DialInv, Next, agent # 0
                 PROVE  agent' \in {agent, 0}
    OBVIOUS
  <2>2. ASSUME NEW t \in tasks PROVE ~LeaderDialSucceeds(t) /\ ~AttemptSucceeds(t)
    BY <2>1, LeaderSucceedsDials, AttemptSucceedsDials DEF HostInv
  <2>. QED
    BY <2>1, <2>2, OnlyADialConnects
<1>. QED
  BY <1>1, DialInvHolds, HostTypeCorrect, NothingReachesHolds, PTL DEF Spec, OneConnection
=============================================================================
