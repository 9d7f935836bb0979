-------------------------- MODULE TerminalsProofs --------------------------
(***************************************************************************)
(* Theorems about Terminals, for any finite set of ids and any bounds.     *)
(***************************************************************************)
EXTENDS Terminals, FiniteSetTheorems, FunctionTheorems, SequenceTheorems, TLAPS

(* What goes on with its answer is a start under way, and goes on once:    *)
(* otherwise a claim given back could be one a later start has taken.      *)
AnsweredOnce ==
  /\ \A a \in answered : a.start \in starts
  /\ \A a, b \in answered : a.start = b.start => a = b

-----------------------------------------------------------------------------
(* Sequences of frames.                                                    *)

(* SetToSeq gives a finite set as a sequence.                              *)
LEMMA SetToSeqType ==
  ASSUME NEW S, IsFiniteSet(S)
  PROVE  SetToSeq(S) \in Seq(S)
<1>1. Cardinality(S) \in Nat /\ ExistsBijection(1..Cardinality(S), S)
  BY FS_CardinalityType
<1>2. PICK f \in [1..Cardinality(S) -> S] :
        \A a, b \in 1..Cardinality(S) : f[a] = f[b] => a = b
  BY <1>1, Zenon DEF ExistsBijection, Bijection, Injection, IsInjective
<1>3. IsInjective(f)
  BY <1>2 DEF IsInjective
<1>4. SetToSeq(S) \in [1..Cardinality(S) -> S]
  BY <1>2, <1>3, Zenon DEF SetToSeq
<1>. QED
  BY <1>1, <1>4, SMT

(* The frames the hub and the agent send are frames.                       *)
LEMMA FramesType ==
  /\ Auth \in ToAgentFrames
  /\ \A id \in Ids \cup {NoId}, req \in Nat \ {0} : Spawn(id, req) \in ToAgentFrames
  /\ \A id \in Ids, why \in {"restart", "kill", "orphan"} :
       Destroy(id, why) \in ToAgentFrames
  /\ \A id \in Ids, at \in Nat \ {0} : AttachTo(id, at) \in ToAgentFrames
  /\ \A id \in Ids, req \in Nat \ {0} : SpawnOk(id, req) \in ToHubFrames
  /\ \A req \in Nat \ {0} : SpawnErr(req) \in ToHubFrames
  /\ \A ids \in SUBSET Ids : States(ids) \in ToHubFrames
  /\ \A r \in Readers : Exit(r) \in ExitFrames
BY DEF Auth, Spawn, Destroy, AttachTo, SpawnOk, SpawnErr, States, Exit,
       ToAgentFrames, ToHubFrames, ExitFrames, Readers

LEMMA ExitFramesType == ExitFrames \subseteq ToHubFrames
BY DEF ToHubFrames

(* A frame the hub reads is a frame, and the rest is still in order.       *)
LEMMA HubReadsType ==
  ASSUME WireTypeOK, NEW type, HubReads(type)
  PROVE  /\ toHub' \in Seq(ToHubFrames)
         /\ Head(toHub) \in ToHubFrames /\ Head(toHub).type = type
BY DEF WireTypeOK, HubReads

LEMMA AgentReadsType ==
  ASSUME WireTypeOK, NEW type, AgentReads(type)
  PROVE  /\ toAgent' \in Seq(ToAgentFrames)
         /\ Head(toAgent) \in ToAgentFrames /\ Head(toAgent).type = type
BY DEF WireTypeOK, AgentReads

(* What the fields of a frame hold, by its type.                           *)
LEMMA ToHubFields ==
  ASSUME NEW m \in ToHubFrames
  PROVE  /\ m.type = "SPAWN_OK" => m.id \in Ids /\ m.req \in Nat \ {0}
         /\ m.type = "SPAWN_ERR" => m.req \in Nat \ {0}
         /\ m.type \in {"ATTACH_OK", "CHANNEL_NOT_FOUND"}
              => m.id \in Ids /\ m.at \in Nat \ {0}
         /\ m.type = "CHANNEL_STATES" => m.ids \in SUBSET Ids
         /\ m.type = "CHANNEL_EXIT" => m.id \in Ids
BY DEF ToHubFrames, ExitFrames

LEMMA ToAgentFields ==
  ASSUME NEW m \in ToAgentFrames
  PROVE  /\ m.type = "SPAWN" => m.id \in Ids \cup {NoId} /\ m.req \in Nat \ {0}
         /\ m.type = "DESTROY" => m.id \in Ids
         /\ m.type = "ATTACH" => m.id \in Ids /\ m.at \in Nat \ {0}
BY DEF ToAgentFrames

(* The DESTROYs of a list's orphans are a sequence of frames.              *)
LEMMA OrphansType ==
  ASSUME NEW reported \in SUBSET Ids
  PROVE  SetToSeq({Destroy(id, "orphan") : id \in Orphans(reported)})
           \in Seq(ToAgentFrames)
<1>. DEFINE D == {Destroy(id, "orphan") : id \in Orphans(reported)}
<1>1. Orphans(reported) \subseteq Ids
  BY DEF Orphans
<1>2. IsFiniteSet(Orphans(reported))
  BY <1>1, IdsAssumption, FS_Subset
<1>3. IsFiniteSet(D)
  <2>. DEFINE f == [id \in Orphans(reported) |-> Destroy(id, "orphan")]
  <2>1. f \in Surjection(Orphans(reported), D)
    BY DEF Surjection
  <2>. QED
    BY <1>2, <2>1, FS_Surjection DEF ExistsSurjection
<1>4. D \subseteq ToAgentFrames
  BY <1>1, FramesType
<1>5. SetToSeq(D) \in Seq(D)
  BY <1>3, SetToSeqType
<1>. QED
  BY <1>4, <1>5

-----------------------------------------------------------------------------
(* Type correctness.                                                       *)

(* The helpers of the hub keep its state well typed.                       *)
LEMMA StartedType ==
  ASSUME HubTypeOK, NEW id \in Ids, NEW shell \in Nat, Started(id, shell)
  PROVE  /\ tracked' \in [Ids -> {"none", "live", "dead"}]
         /\ record' \in [Ids -> {"none", "live", "dead"}]
         /\ clock' \in Nat
         /\ startedAt' \in [Ids -> Nat]
         /\ believed' \in [Ids -> Nat]
BY DEF HubTypeOK, Started

LEMMA ForgetType ==
  ASSUME HubTypeOK, NEW ids, Forget(ids)
  PROVE  /\ tracked' \in [Ids -> {"none", "live", "dead"}]
         /\ record' \in [Ids -> {"none", "live", "dead"}]
BY DEF HubTypeOK, Forget

LEMMA EndStartType ==
  ASSUME HubTypeOK, NEW s, EndStart(s)
  PROVE  starts' \in SUBSET Starts /\ starting' \in SUBSET Ids
BY DEF HubTypeOK, EndStart

LEMMA DisconnectedType ==
  ASSUME Disconnected
  PROVE  WireTypeOK' /\ listAsked' \in Nat /\ judged' \in BOOLEAN
<1>1. connected' \in BOOLEAN /\ judged' \in BOOLEAN
  BY Zenon DEF Disconnected
<1>. QED
  BY <1>1 DEF Disconnected, WireTypeOK

(* The hub's frames and what they resume keep the types.                   *)
LEMMA HubStepsType ==
  ASSUME TypeOK, HubSteps
  PROVE  TypeOK'
<1>. USE DEF TypeOK
<1>1. CASE HubSpawnOk
  <2>1. toHub' \in Seq(ToHubFrames) /\ Head(toHub).id \in Ids
          /\ Head(toHub).req \in Nat \ {0}
    BY <1>1, HubReadsType, ToHubFields DEF HubSpawnOk
  <2>2. Waiting \subseteq Starts
    BY DEF Waiting, HubTypeOK
  <2>3. HubTypeOK'
    <3>1. CASE \E s \in Waiting : Started(Head(toHub).id, Head(toHub).req)
               /\ answered' = answered \cup {[start |-> s, id |-> NoId]}
      BY <1>1, <2>1, <2>2, <3>1, StartedType DEF HubSpawnOk, HubTypeOK, askVars
    <3>2. CASE \E s \in Waiting :
               /\ answered' = answered \cup {[start |-> s, id |-> Head(toHub).id]}
               /\ UNCHANGED <<channelVars, clock, believed>>
      BY <1>1, <2>1, <2>2, <3>2 DEF HubSpawnOk, HubTypeOK, askVars, channelVars
    <3>3. CASE UNCHANGED <<channelVars, clock, answered, believed>>
      BY <1>1, <3>3 DEF HubSpawnOk, HubTypeOK, askVars, channelVars
    <3>. QED
      BY <1>1, <3>1, <3>2, <3>3 DEF HubSpawnOk
  <2>. QED
    BY <1>1, <2>1, <2>3 DEF HubSpawnOk, AgentTypeOK, WireTypeOK, BoundsTypeOK,
         agentVars, bounds
<1>2. CASE HubSpawnErr
  <2>1. toHub' \in Seq(ToHubFrames)
    BY <1>2, HubReadsType DEF HubSpawnErr
  <2>2. Waiting \subseteq Starts
    BY DEF Waiting, HubTypeOK
  <2>3. HubTypeOK'
    BY <1>2, <2>2 DEF HubSpawnErr, HubTypeOK, channelVars, askVars
  <2>. QED
    BY <1>2, <2>1, <2>3 DEF HubSpawnErr, AgentTypeOK, WireTypeOK, BoundsTypeOK,
         agentVars, bounds
<1>3. CASE HubExit
  <2>1. toHub' \in Seq(ToHubFrames) /\ Head(toHub).id \in Ids
    BY <1>3, HubReadsType, ToHubFields DEF HubExit
  <2>. QED
    BY <1>3, <2>1 DEF HubExit, HubTypeOK, AgentTypeOK, WireTypeOK, BoundsTypeOK,
         startVars, askVars, history, agentVars, bounds
<1>4. CASE HubAttachOk \/ HubNotFound
  <2>1. toHub' \in Seq(ToHubFrames) /\ Head(toHub).id \in Ids
    BY <1>4, HubReadsType, ToHubFields DEF HubAttachOk, HubNotFound
  <2>2. attachAsked' \in [Ids -> Nat] /\ notFound' \in SUBSET Ids
    <3>1. CASE HubAttachOk
      <4>1. attachAsked[Head(toHub).id] \in Nat
        BY <2>1 DEF HubTypeOK
      <4>. QED
        BY <2>1, <3>1, <4>1 DEF HubAttachOk, HubTypeOK
    <3>2. CASE HubNotFound
      BY <2>1, <3>2 DEF HubNotFound, HubTypeOK
    <3>. QED
      BY <1>4, <3>1, <3>2
  <2>3. UNCHANGED <<channelVars, clock, startVars, listAsked, listed, history,
                    agentVars, connected, toAgent, bounds>>
    BY <1>4 DEF HubAttachOk, HubNotFound
  <2>. QED
    BY <2>1, <2>2, <2>3 DEF HubTypeOK, AgentTypeOK, WireTypeOK, BoundsTypeOK,
         channelVars, startVars, history, agentVars, bounds
<1>5. CASE HubStates
  <2>1. toHub' \in Seq(ToHubFrames) /\ Head(toHub).ids \in SUBSET Ids
    BY <1>5, HubReadsType, ToHubFields DEF HubStates
  <2>. QED
    BY <1>5, <2>1 DEF HubStates, HubTypeOK, AgentTypeOK, WireTypeOK, BoundsTypeOK,
         channelVars, startVars, history, agentVars, bounds
<1>6. ASSUME NEW a \in answered, ResumeStart(a)
      PROVE  TypeOK'
  <2>1. a \in [start : Starts, id : Ids \cup {NoId}] /\ a.start.req \in Nat
    BY DEF HubTypeOK, Starts
  <2>2. starts' \in SUBSET Starts /\ starting' \in SUBSET Ids
    BY <1>6, EndStartType DEF ResumeStart
  <2>3. /\ tracked' \in [Ids -> {"none", "live", "dead"}]
        /\ record' \in [Ids -> {"none", "live", "dead"}]
        /\ clock' \in Nat
        /\ startedAt' \in [Ids -> Nat]
        /\ believed' \in [Ids -> Nat]
    <3>1. CASE a.id # NoId /\ Started(a.id, a.start.req)
      BY <2>1, <3>1, StartedType
    <3>2. CASE UNCHANGED <<channelVars, clock, believed>>
      BY <3>2 DEF HubTypeOK, channelVars
    <3>. QED
      BY <1>6, <3>1, <3>2 DEF ResumeStart
  <2>. QED
    BY <1>6, <2>2, <2>3 DEF ResumeStart, HubTypeOK, AgentTypeOK, WireTypeOK,
         BoundsTypeOK, askVars, agentVars, wires, bounds
<1>7. ASSUME NEW id \in notFound, ResumeAttach(id)
      PROVE  TypeOK'
  BY <1>7, ForgetType DEF ResumeAttach, HubTypeOK, AgentTypeOK, WireTypeOK,
       BoundsTypeOK, startVars, history, agentVars, wires, bounds
<1>8. ASSUME NEW reported \in listed, ResumeList(reported)
      PROVE  TypeOK'
  <2>1. toAgent' \in Seq(ToAgentFrames)
    <3>. DEFINE D == SetToSeq({Destroy(id, "orphan") : id \in Orphans(reported)})
    <3>1. D \in Seq(ToAgentFrames)
      BY OrphansType DEF HubTypeOK
    <3>2. toAgent' = toAgent \o D
      BY <1>8 DEF ResumeList
    <3>. HIDE DEF D
    <3>. QED
      BY <3>1, <3>2 DEF WireTypeOK
  <2>. QED
    BY <1>8, <2>1, ForgetType DEF ResumeList, HubTypeOK, AgentTypeOK, WireTypeOK,
         BoundsTypeOK, startVars, agentVars, bounds
<1>. QED
  BY <1>1, <1>2, <1>3, <1>4, <1>5, <1>6, <1>7, <1>8 DEF HubSteps

(* The hub's other tasks keep the types.                                   *)
LEMMA HubTasksType ==
  ASSUME TypeOK, HubTasks
  PROVE  TypeOK'
<1>. USE DEF TypeOK
<1>1. ASSUME NEW id \in Ids, NEW via \in {"restart", "spawn"}, Claim(id, via),
             toAgent' \in Seq(ToAgentFrames)
      PROVE  TypeOK'
  BY SMTT(30), <1>1 DEF Claim, Starts, HubTypeOK, AgentTypeOK, WireTypeOK, BoundsTypeOK,
       channelVars, askVars, history, agentVars, bounds
<1>2. ASSUME NEW id \in Ids, RestartClaim(id) \/ ReuseClaim(id)
      PROVE  TypeOK'
  <2>1. toAgent' \in Seq(ToAgentFrames)
    BY <1>2, FramesType DEF RestartClaim, ReuseClaim, WireTypeOK
  <2>. QED
    BY <1>1, <1>2, <2>1 DEF RestartClaim, ReuseClaim
<1>3. ASSUME NEW id \in Ids, Kill(id)
      PROVE  TypeOK'
  <2>1. toAgent' \in Seq(ToAgentFrames)
    BY <1>3, FramesType DEF Kill, WireTypeOK
  <2>. QED
    BY <1>3, <2>1, ForgetType DEF Kill, HubTypeOK, AgentTypeOK, WireTypeOK,
         BoundsTypeOK, startVars, askVars, history, agentVars, bounds
<1>4. ASSUME NEW id \in Ids, AskAttach(id)
      PROVE  TypeOK'
  <2>1. clock + 1 \in Nat \ {0}
    BY DEF HubTypeOK
  <2>2. toAgent' \in Seq(ToAgentFrames)
    BY <1>4, <2>1, FramesType DEF AskAttach, WireTypeOK
  <2>. QED
    BY <1>4, <2>1, <2>2 DEF AskAttach, HubTypeOK, AgentTypeOK, WireTypeOK,
         BoundsTypeOK, channelVars, startVars, history, agentVars, bounds
<1>5. ASSUME NEW id \in Ids, AttachTimeout(id)
      PROVE  TypeOK'
  BY <1>5 DEF AttachTimeout, HubTypeOK, AgentTypeOK, WireTypeOK, BoundsTypeOK,
       channelVars, startVars, history, agentVars, wires, bounds
<1>6. ASSUME NEW s \in starts, StartRefused(s)
      PROVE  TypeOK'
  BY <1>6, EndStartType DEF StartRefused, HubTypeOK, AgentTypeOK, WireTypeOK,
       BoundsTypeOK, channelVars, askVars, history, agentVars, wires, bounds
<1>7. ASSUME NEW s \in starts, SendStart(s)
      PROVE  TypeOK'
  <2>1. s \in Starts /\ s.id \in Ids \cup {NoId} /\ requests + 1 \in Nat \ {0}
    BY DEF HubTypeOK, BoundsTypeOK, Starts
  <2>2. [s EXCEPT !.req = requests + 1] \in Starts
    BY <2>1 DEF Starts
  <2>3. starts' \in SUBSET Starts
    BY <1>7, <2>2 DEF SendStart, HubTypeOK
  <2>4. toAgent' \in Seq(ToAgentFrames)
    <3>. DEFINE f == Spawn(s.id, requests + 1)
    <3>1. f \in ToAgentFrames
      BY <2>1, FramesType
    <3>2. toAgent' = Append(toAgent, f)
      BY <1>7, Zenon DEF SendStart
    <3>. HIDE DEF f
    <3>. QED
      BY <3>1, <3>2 DEF WireTypeOK
  <2>. QED
    BY <1>7, <2>1, <2>3, <2>4 DEF SendStart, HubTypeOK, AgentTypeOK, WireTypeOK,
         BoundsTypeOK, channelVars, askVars, history, agentVars
<1>8. ASSUME NEW s \in starts, StartTimeout(s)
      PROVE  TypeOK'
  <2>1. s.req \in Nat \ {0}
    BY <1>8 DEF StartTimeout, HubTypeOK, Starts
  <2>. QED
    BY <1>8, <2>1, EndStartType DEF StartTimeout, HubTypeOK, AgentTypeOK, WireTypeOK,
         BoundsTypeOK, channelVars, askVars, agentVars, wires, bounds
<1>9. CASE SendNew
  <2>1. requests + 1 \in Nat \ {0}
    BY DEF BoundsTypeOK
  <2>2. toAgent' \in Seq(ToAgentFrames)
    <3>1. Spawn(NoId, requests + 1) \in ToAgentFrames
      BY <2>1, FramesType
    <3>. QED
      BY <1>9, <3>1 DEF SendNew, WireTypeOK
  <2>3. starts' \in SUBSET Starts
    BY <1>9, <2>1 DEF SendNew, Starts, HubTypeOK
  <2>. QED
    BY <1>9, <2>1, <2>2, <2>3 DEF SendNew, HubTypeOK, AgentTypeOK, WireTypeOK,
         BoundsTypeOK, channelVars, askVars, history, agentVars
<1>10. CASE Connect
  <2>1. toAgent' \in Seq(ToAgentFrames)
    BY <1>10, FramesType DEF Connect
  <2>2. connected' \in BOOLEAN /\ judged' \in BOOLEAN
    BY <1>10, Zenon DEF Connect
  <2>. QED
    BY <1>10, <2>1, <2>2 DEF Connect, HubTypeOK, AgentTypeOK, WireTypeOK,
         BoundsTypeOK, channelVars, startVars, agentVars
<1>11. CASE Drop \/ ListTimeout
  <2>1. CASE Drop
    BY <2>1, DisconnectedType DEF Drop, HubTypeOK, AgentTypeOK, BoundsTypeOK,
         channelVars, startVars, agentVars, bounds
  <2>2. CASE ListTimeout
    BY <2>2 DEF ListTimeout, HubTypeOK, AgentTypeOK, WireTypeOK, BoundsTypeOK,
         channelVars, startVars, history, agentVars, wires, bounds
  <2>. QED
    BY <1>11, <2>1, <2>2
<1>12. CASE CloseSession
  BY <1>12, ForgetType DEF CloseSession, HubTypeOK, AgentTypeOK, WireTypeOK,
       BoundsTypeOK, startVars, askVars, history, agentVars, wires, bounds
<1>13. CASE DaemonDies
  BY <1>13, DisconnectedType DEF DaemonDies, HubTypeOK, AgentTypeOK, BoundsTypeOK,
       channelVars, startVars
<1>. QED
  BY <1>2, <1>3, <1>4, <1>5, <1>6, <1>7, <1>8, <1>9, <1>10, <1>11, <1>12, <1>13
     DEF HubTasks

(* A crash of the hub keeps the types.                                     *)
LEMMA HubRestartType ==
  ASSUME TypeOK, HubRestart
  PROVE  TypeOK'
BY DisconnectedType DEF TypeOK, HubRestart, HubTypeOK, AgentTypeOK, BoundsTypeOK,
     agentVars

(* The agent's steps keep the types.                                       *)
LEMMA AgentStepsType ==
  ASSUME TypeOK, AgentSteps
  PROVE  TypeOK'
<1>. USE DEF TypeOK
<1>1. ASSUME UNCHANGED <<hubVars, bounds>>, AgentTypeOK', WireTypeOK'
      PROVE  TypeOK'
  BY <1>1 DEF HubTypeOK, BoundsTypeOK, hubVars, channelVars, startVars, askVars,
       history, bounds
<1>2. CASE AgentSpawn
  <2>1. /\ toAgent' \in Seq(ToAgentFrames)
        /\ Head(toAgent).id \in Ids \cup {NoId} /\ Head(toAgent).req \in Nat \ {0}
    BY <1>2, AgentReadsType, ToAgentFields DEF AgentSpawn
  <2>2. PICK id \in Ids :
          /\ unused' = unused \ {id}
          /\ table' = [table EXCEPT ![id] = Head(toAgent).req]
          /\ running' = running \cup {Head(toAgent).req}
          /\ readers' = readers \cup {[id |-> id, shell |-> Head(toAgent).req]}
          /\ toHub' = Append(toHub, SpawnOk(id, Head(toAgent).req))
    BY <1>2, <2>1 DEF AgentSpawn, AgentTypeOK
  <2>3. SpawnOk(id, Head(toAgent).req) \in ToHubFrames
    BY <2>1, FramesType
  <2>4. WireTypeOK'
    BY <1>2, <2>1, <2>2, <2>3 DEF AgentSpawn, WireTypeOK
  <2>5. AgentTypeOK'
    <3>1. [id |-> id, shell |-> Head(toAgent).req] \in Readers
      BY <2>1 DEF Readers
    <3>2. UNCHANGED <<exiting, away>>
      BY <1>2 DEF AgentSpawn
    <3>. QED
      BY <2>1, <2>2, <3>1, <3>2 DEF AgentTypeOK
  <2>. QED
    BY <1>1, <1>2, <2>4, <2>5 DEF AgentSpawn
<1>3. CASE AgentSpawnFails
  <2>1. toAgent' \in Seq(ToAgentFrames) /\ Head(toAgent).req \in Nat \ {0}
    BY <1>3, AgentReadsType, ToAgentFields DEF AgentSpawnFails
  <2>2. SpawnErr(Head(toAgent).req) \in ToHubFrames
    BY <2>1, FramesType
  <2>3. AgentTypeOK' /\ WireTypeOK'
    BY <1>3, <2>1, <2>2 DEF AgentSpawnFails, AgentTypeOK, WireTypeOK, agentVars
  <2>. QED
    BY <1>1, <1>3, <2>3 DEF AgentSpawnFails
<1>4. CASE AgentDestroy
  <2>1. toAgent' \in Seq(ToAgentFrames) /\ Head(toAgent).id \in Ids
    BY <1>4, AgentReadsType, ToAgentFields DEF AgentDestroy
  <2>2. AgentTypeOK' /\ WireTypeOK'
    BY <1>4, <2>1 DEF AgentDestroy, AgentTypeOK, WireTypeOK
  <2>. QED
    BY <1>1, <1>4, <2>2 DEF AgentDestroy
<1>5. CASE AgentAttach
  <2>1. /\ toAgent' \in Seq(ToAgentFrames)
        /\ Head(toAgent).id \in Ids /\ Head(toAgent).at \in Nat \ {0}
    BY <1>5, AgentReadsType, ToAgentFields DEF AgentAttach
  <2>2. AttachOk(Head(toAgent)) \in ToHubFrames /\ NotFound(Head(toAgent)) \in ToHubFrames
    BY <2>1 DEF AttachOk, NotFound, ToHubFrames
  <2>. DEFINE ok == AttachOk(Head(toAgent))
              none == NotFound(Head(toAgent))
  <2>3. toHub' = Append(toHub, ok) \/ toHub' = Append(toHub, none)
    BY <1>5 DEF AgentAttach
  <2>4. ok \in ToHubFrames /\ none \in ToHubFrames
    BY <2>2
  <2>. HIDE DEF ok, none
  <2>5. toHub' \in Seq(ToHubFrames)
    BY <2>3, <2>4 DEF WireTypeOK
  <2>6. AgentTypeOK' /\ WireTypeOK'
    BY <1>5, <2>1, <2>5 DEF AgentAttach, AgentTypeOK, WireTypeOK, agentVars
  <2>. QED
    BY <1>1, <1>5, <2>6 DEF AgentAttach
<1>6. CASE AgentList
  <2>. DEFINE held == {id \in Ids : table[id] # 0}
  <2>1. toAgent' \in Seq(ToAgentFrames)
    BY <1>6, AgentReadsType DEF AgentList
  <2>2. States(held) \in ToHubFrames
    BY FramesType
  <2>3. away \in Seq(ToHubFrames)
    BY ExitFramesType DEF AgentTypeOK
  <2>4. toHub' = toHub \o away \o <<States(held)>>
    BY <1>6 DEF AgentList
  <2>. HIDE DEF held
  <2>5. toHub' \in Seq(ToHubFrames)
    BY <2>2, <2>3, <2>4 DEF WireTypeOK
  <2>6. AgentTypeOK' /\ WireTypeOK'
    BY <1>6, <2>1, <2>5 DEF AgentList, AgentTypeOK, WireTypeOK
  <2>. QED
    BY <1>1, <1>6, <2>6 DEF AgentList
<1>7. ASSUME NEW r \in readers, ReaderEnds(r)
      PROVE  TypeOK'
  <2>1. r \in Readers /\ r.id \in Ids
    BY DEF AgentTypeOK, Readers
  <2>2. AgentTypeOK' /\ WireTypeOK'
    BY <1>7, <2>1 DEF ReaderEnds, AgentTypeOK, WireTypeOK, wires
  <2>. QED
    BY <1>1, <1>7, <2>2 DEF ReaderEnds
<1>8. ASSUME NEW r \in exiting, RouteExit(r)
      PROVE  TypeOK'
  <2>1. Exit(r) \in ExitFrames /\ Exit(r) \in ToHubFrames
    BY FramesType, ExitFramesType DEF AgentTypeOK
  <2>. DEFINE e == Exit(r)
  <2>2. \/ toHub' = Append(toHub, e) /\ UNCHANGED away
        \/ away' = Append(away, e) /\ UNCHANGED toHub
    BY <1>8 DEF RouteExit
  <2>3. e \in ExitFrames /\ e \in ToHubFrames
    BY <2>1
  <2>. HIDE DEF e
  <2>4. toHub' \in Seq(ToHubFrames) /\ away' \in Seq(ExitFrames)
    <3>. HIDE DEF TypeOK
    <3>1. away \in Seq(ExitFrames) /\ toHub \in Seq(ToHubFrames)
      BY DEF TypeOK, AgentTypeOK, WireTypeOK
    <3>2. Append(toHub, e) \in Seq(ToHubFrames)
      BY <2>3, <3>1
    <3>3. Append(away, e) \in Seq(ExitFrames)
      BY <2>3, <3>1
    <3>. QED
      BY <2>2, <3>1, <3>2, <3>3
  <2>5. AgentTypeOK' /\ WireTypeOK'
    <3>1. /\ exiting' = exiting \ {r}
          /\ UNCHANGED <<unused, table, running, readers, connected, toAgent>>
      BY <1>8 DEF RouteExit
    <3>. QED
      BY <2>4, <3>1 DEF AgentTypeOK, WireTypeOK
  <2>. QED
    BY <1>1, <1>8, <2>5 DEF RouteExit
<1>9. ASSUME NEW shell \in running, ShellEnds(shell)
      PROVE  TypeOK'
  <2>1. AgentTypeOK' /\ WireTypeOK'
    BY <1>9 DEF ShellEnds, AgentTypeOK, WireTypeOK, wires
  <2>. QED
    BY <1>1, <1>9, <2>1 DEF ShellEnds
<1>. QED
  BY <1>2, <1>3, <1>4, <1>5, <1>6, <1>7, <1>8, <1>9 DEF AgentSteps

LEMMA InitType == Init => TypeOK
<1>. SUFFICES ASSUME Init PROVE TypeOK
  OBVIOUS
<1>1. connected \in BOOLEAN /\ judged \in BOOLEAN
  BY Zenon DEF Init
<1>. QED
  BY <1>1 DEF Init, TypeOK, HubTypeOK, AgentTypeOK, WireTypeOK, BoundsTypeOK

LEMMA StutterType == TypeOK /\ UNCHANGED vars => TypeOK'
BY DEF TypeOK, HubTypeOK, AgentTypeOK, WireTypeOK, BoundsTypeOK, vars, hubVars,
       channelVars, startVars, askVars, history, agentVars, wires, bounds

(* Every variable of the hub, of the agent and of the connection keeps its *)
(* type, and every frame under way is one its reader understands: a        *)
(* SPAWN_OK always names a terminal, and a restart always has an id.       *)
THEOREM TerminalsTypeCorrect == Spec => []TypeOK
<1>1. Init => TypeOK
  BY InitType
<1>2. TypeOK /\ [Next]_vars => TypeOK'
  BY HubStepsType, HubTasksType, HubRestartType, AgentStepsType, StutterType DEF Next
<1>. QED
  BY <1>1, <1>2, PTL DEF Spec

-----------------------------------------------------------------------------
(* One start at a time.                                                    *)

(* Ending a start under way leaves the others exclusive: the claim it gives *)
(* back is its own.                                                        *)
LEMMA EndStartExclusive ==
  ASSUME HubTypeOK, OneStartAtATime, NEW s \in starts, EndStart(s)
  PROVE  OneStartAtATime'
<1>1. starts' = starts \ {s} /\ starting' = starting \ {s.id}
  BY DEF EndStart
<1>2. \A t, u \in starts' : t.id = u.id /\ t.id # NoId => t = u
  BY <1>1 DEF OneStartAtATime
<1>3. starting' = {t.id : t \in starts'} \ {NoId}
  <2>1. starting = {t.id : t \in starts} \ {NoId}
    BY DEF OneStartAtATime
  <2>2. \A t \in starts : t.id = s.id /\ s.id # NoId => t = s
    BY DEF OneStartAtATime
  <2>. QED
    BY <1>1, <2>1, <2>2
<1>. QED
  BY <1>2, <1>3 DEF OneStartAtATime

(* The hub's frames and what they resume keep one start at a time.         *)
LEMMA HubStepsExclusive ==
  ASSUME TypeOK, OneStartAtATime, AnsweredOnce, HubSteps
  PROVE  OneStartAtATime' /\ AnsweredOnce'
<1>. USE DEF TypeOK
<1>1. ASSUME UNCHANGED startVars
      PROVE  OneStartAtATime' /\ AnsweredOnce'
  BY <1>1 DEF startVars, OneStartAtATime, AnsweredOnce
<1>2. ASSUME NEW s \in Waiting, NEW id, UNCHANGED <<starting, starts>>,
             answered' = answered \cup {[start |-> s, id |-> id]}
      PROVE  OneStartAtATime' /\ AnsweredOnce'
  <2>1. s \in starts /\ \A a \in answered : a.start # s
    BY DEF Waiting
  <2>2. [start |-> s, id |-> id].start = s
    OBVIOUS
  <2>. QED
    BY <1>2, <2>1, <2>2 DEF OneStartAtATime, AnsweredOnce
<1>3. CASE HubSpawnOk
  BY <1>1, <1>2, <1>3 DEF HubSpawnOk, startVars
<1>4. CASE HubSpawnErr
  BY <1>1, <1>2, <1>4 DEF HubSpawnErr, startVars
<1>5. CASE HubExit \/ HubAttachOk \/ HubNotFound \/ HubStates
  BY <1>1, <1>5 DEF HubExit, HubAttachOk, HubNotFound, HubStates
<1>6. ASSUME NEW a \in answered, ResumeStart(a)
      PROVE  OneStartAtATime' /\ AnsweredOnce'
  <2>1. a.start \in starts
    BY DEF AnsweredOnce
  <2>2. OneStartAtATime'
    BY <1>6, <2>1, EndStartExclusive DEF ResumeStart
  <2>3. AnsweredOnce'
    BY <1>6 DEF ResumeStart, EndStart, AnsweredOnce
  <2>. QED
    BY <2>2, <2>3
<1>7. ASSUME NEW id \in notFound, ResumeAttach(id)
      PROVE  OneStartAtATime' /\ AnsweredOnce'
  BY <1>1, <1>7 DEF ResumeAttach
<1>8. ASSUME NEW reported \in listed, ResumeList(reported)
      PROVE  OneStartAtATime' /\ AnsweredOnce'
  BY <1>1, <1>8 DEF ResumeList
<1>. QED
  BY <1>3, <1>4, <1>5, <1>6, <1>7, <1>8 DEF HubSteps

(* The hub's other tasks keep it: a claim is taken where none is held, and *)
(* a start that is sent keeps its id.  None has an answer meanwhile.       *)
LEMMA HubTasksExclusive ==
  ASSUME TypeOK, OneStartAtATime, AnsweredOnce, Settled, HubTasks
  PROVE  OneStartAtATime' /\ AnsweredOnce'
<1>. USE DEF TypeOK
<1>1. ASSUME answered' = answered
      PROVE  AnsweredOnce'
  BY <1>1 DEF Settled, AnsweredOnce
<1>2. ASSUME UNCHANGED startVars
      PROVE  OneStartAtATime' /\ AnsweredOnce'
  BY <1>2 DEF startVars, OneStartAtATime, AnsweredOnce
<1>3. ASSUME NEW id \in Ids, NEW via, id \notin starting, Claim(id, via)
      PROVE  OneStartAtATime' /\ AnsweredOnce'
  <2>. DEFINE s == [id |-> id, via |-> via, req |-> 0]
  <2>1. starts' = starts \cup {s} /\ starting' = starting \cup {id} /\ s.id = id
    BY <1>3 DEF Claim
  <2>2. answered' = answered
    BY <1>3 DEF Claim
  <2>3. \A t \in starts : t.id # id
    BY <1>3, NoIdAssumption DEF OneStartAtATime
  <2>. HIDE DEF s
  <2>4. \A t, u \in starts' : t.id = u.id /\ t.id # NoId => t = u
    BY <2>1, <2>3 DEF OneStartAtATime
  <2>5. starting' = {t.id : t \in starts'} \ {NoId}
    BY <2>1, NoIdAssumption DEF OneStartAtATime
  <2>. QED
    BY <1>1, <2>2, <2>4, <2>5 DEF OneStartAtATime
<1>4. ASSUME NEW id \in Ids,
             \/ RestartClaim(id) \/ ReuseClaim(id) \/ Kill(id) \/ AskAttach(id)
             \/ AttachTimeout(id)
      PROVE  OneStartAtATime' /\ AnsweredOnce'
  <2>1. CASE RestartClaim(id) \/ ReuseClaim(id)
    BY <1>3, <2>1 DEF RestartClaim, ReuseClaim
  <2>2. CASE Kill(id) \/ AskAttach(id) \/ AttachTimeout(id)
    BY <1>2, <2>2 DEF Kill, AskAttach, AttachTimeout
  <2>. QED
    BY <1>4, <2>1, <2>2
<1>5. ASSUME NEW s \in starts, StartRefused(s) \/ StartTimeout(s)
      PROVE  OneStartAtATime' /\ AnsweredOnce'
  <2>1. EndStart(s) /\ answered' = answered
    BY <1>5 DEF StartRefused, StartTimeout
  <2>. QED
    BY <1>1, <2>1, EndStartExclusive
<1>6. ASSUME NEW s \in starts, SendStart(s)
      PROVE  OneStartAtATime' /\ AnsweredOnce'
  <2>. DEFINE sent == [s EXCEPT !.req = requests + 1]
  <2>1. s \in Starts
    BY DEF HubTypeOK
  <2>2. sent.id = s.id
    BY <2>1 DEF Starts
  <2>3. starts' = (starts \ {s}) \cup {sent} /\ UNCHANGED <<starting, answered>>
    BY <1>6 DEF SendStart
  <2>. HIDE DEF sent
  <2>4. \A t, u \in starts' : t.id = u.id /\ t.id # NoId => t = u
    BY <2>2, <2>3 DEF OneStartAtATime
  <2>5. starting' = {t.id : t \in starts'} \ {NoId}
    BY <2>2, <2>3 DEF OneStartAtATime
  <2>. QED
    BY <1>1, <2>3, <2>4, <2>5 DEF OneStartAtATime
<1>7. CASE SendNew
  <2>. DEFINE s == [id |-> NoId, via |-> "spawn", req |-> requests + 1]
  <2>1. starts' = starts \cup {s} /\ UNCHANGED <<starting, answered>> /\ s.id = NoId
    BY <1>7 DEF SendNew
  <2>. HIDE DEF s
  <2>2. \A t, u \in starts' : t.id = u.id /\ t.id # NoId => t = u
    BY <2>1 DEF OneStartAtATime
  <2>3. starting' = {t.id : t \in starts'} \ {NoId}
    BY <2>1 DEF OneStartAtATime
  <2>. QED
    BY <1>1, <2>1, <2>2, <2>3 DEF OneStartAtATime
<1>8. CASE Connect \/ Drop \/ ListTimeout \/ CloseSession \/ DaemonDies
  BY <1>2, <1>8 DEF Connect, Drop, ListTimeout, CloseSession, DaemonDies
<1>. QED
  BY <1>4, <1>5, <1>6, <1>7, <1>8 DEF HubTasks

(* One start at a time, each answered once: the inductive invariant.       *)
LEMMA StartsAreApart == Spec => [](OneStartAtATime /\ AnsweredOnce)
<1>. DEFINE I == OneStartAtATime /\ AnsweredOnce
<1>1. Init => I
  BY DEF Init, OneStartAtATime, AnsweredOnce
<1>2. TypeOK /\ I /\ [Next]_vars => I'
  <2>. SUFFICES ASSUME TypeOK, I, [Next]_vars PROVE I'
    OBVIOUS
  <2>1. CASE HubSteps
    BY <2>1, HubStepsExclusive
  <2>2. CASE Settled /\ HubTasks
    BY <2>2, HubTasksExclusive
  <2>3. CASE HubRestart
    BY <2>3 DEF HubRestart, OneStartAtATime, AnsweredOnce
  <2>4. ASSUME UNCHANGED hubVars
        PROVE  I'
    BY <2>4 DEF hubVars, startVars, OneStartAtATime, AnsweredOnce
  <2>5. CASE AgentSteps
    BY <2>4, <2>5 DEF AgentSteps, AgentSpawn, AgentSpawnFails, AgentDestroy,
         AgentAttach, AgentList, ReaderEnds, RouteExit, ShellEnds
  <2>6. CASE UNCHANGED vars
    BY <2>4, <2>6 DEF vars
  <2>. QED
    BY <2>1, <2>2, <2>3, <2>5, <2>6 DEF Next
<1>. QED
  BY <1>1, <1>2, TerminalsTypeCorrect, PTL DEF Spec

(* However many windows restart a terminal or bring it back, one start of  *)
(* it is under way, it holds the claim, and no claim outlives its start    *)
(* (startingChannels, #592).  AnsweredOnce is what makes it inductive.     *)
THEOREM StartsExclude == Spec => []OneStartAtATime
BY StartsAreApart, PTL

-----------------------------------------------------------------------------
(* The record.                                                             *)

(* Telling a terminal live, or dead and forgotten, writes both.            *)
LEMMA StartedAgrees ==
  ASSUME HubTypeOK, RecordAgrees, NEW id \in Ids, NEW shell, Started(id, shell)
  PROVE  RecordAgrees'
BY DEF HubTypeOK, RecordAgrees, Started

LEMMA ForgetAgrees ==
  ASSUME HubTypeOK, RecordAgrees, NEW ids, Forget(ids)
  PROVE  RecordAgrees'
BY DEF HubTypeOK, RecordAgrees, Forget

(* Whatever ends, is judged, forgotten or brought back, and wherever the   *)
(* hub crashes, meta.db says of each terminal what the hub tracks of it,   *)
(* and nothing is recorded alive that the hub does not track: so that a    *)
(* hub that starts again tracks the terminals that were live.              *)
THEOREM RecordIsKept == Spec => []RecordAgrees
<1>1. Init => RecordAgrees
  BY DEF Init, RecordAgrees
<1>2. TypeOK /\ RecordAgrees /\ [Next]_vars => RecordAgrees'
  <2>. SUFFICES ASSUME TypeOK, RecordAgrees, [Next]_vars PROVE RecordAgrees'
    OBVIOUS
  <2>. USE DEF TypeOK
  <2>1. ASSUME UNCHANGED <<tracked, record>>
        PROVE  RecordAgrees'
    BY <2>1 DEF RecordAgrees
  <2>2. CASE HubSpawnOk
    <3>1. Head(toHub).id \in Ids
      BY <2>2, HubReadsType, ToHubFields DEF HubSpawnOk
    <3>. QED
      BY <2>1, <2>2, <3>1, StartedAgrees DEF HubSpawnOk, channelVars
  <2>3. CASE HubExit
    <3>1. Head(toHub).id \in Ids
      BY <2>3, HubReadsType, ToHubFields DEF HubExit
    <3>. QED
      BY <2>3, <3>1 DEF HubExit, HubTypeOK, RecordAgrees
  <2>4. ASSUME NEW a \in answered, ResumeStart(a)
        PROVE  RecordAgrees'
    <3>1. a.id \in Ids \cup {NoId}
      BY DEF HubTypeOK
    <3>. QED
      BY <2>1, <2>4, <3>1, StartedAgrees DEF ResumeStart, channelVars
  <2>5. CASE \/ \E id \in notFound : ResumeAttach(id)
             \/ \E reported \in listed : ResumeList(reported)
             \/ \E id \in Ids : Kill(id)
             \/ CloseSession
    BY <2>5, ForgetAgrees DEF ResumeAttach, ResumeList, Kill, CloseSession
  <2>6. CASE HubSpawnErr \/ HubAttachOk \/ HubNotFound \/ HubStates
    BY <2>1, <2>6 DEF HubSpawnErr, HubAttachOk, HubNotFound, HubStates, channelVars
  <2>7. CASE \/ \E id \in Ids : \/ RestartClaim(id) \/ ReuseClaim(id)
                                \/ AskAttach(id) \/ AttachTimeout(id)
             \/ \E s \in starts : StartRefused(s) \/ SendStart(s) \/ StartTimeout(s)
             \/ SendNew \/ Connect \/ Drop \/ ListTimeout \/ DaemonDies
    BY <2>1, <2>7 DEF RestartClaim, ReuseClaim, Claim, AskAttach, AttachTimeout,
         StartRefused, SendStart, StartTimeout, SendNew, Connect, Drop, ListTimeout,
         DaemonDies, channelVars
  <2>8. CASE HubRestart
    BY <2>8 DEF HubRestart, HubTypeOK, RecordAgrees
  <2>9. CASE AgentSteps
    BY <2>1, <2>9 DEF AgentSteps, AgentSpawn, AgentSpawnFails, AgentDestroy,
         AgentAttach, AgentList, ReaderEnds, RouteExit, ShellEnds, hubVars, channelVars
  <2>10. CASE UNCHANGED vars
    BY <2>1, <2>10 DEF vars, hubVars, channelVars
  <2>. QED
    BY <2>2, <2>3, <2>4, <2>5, <2>6, <2>7, <2>8, <2>9, <2>10
       DEF Next, HubSteps, HubTasks
<1>. QED
  BY <1>1, <1>2, TerminalsTypeCorrect, PTL DEF Spec

-----------------------------------------------------------------------------
(* What is under way.                                                      *)

(* The frames of a sequence.                                               *)
Frames(q) == {q[i] : i \in 1..Len(q)}

(* Frames that name a start.                                               *)
Tagged(m) == m.type \in {"SPAWN", "SPAWN_OK", "SPAWN_ERR"}

(* No two frames of q name the same start.                                 *)
Once(q) ==
  \A i, j \in 1..Len(q) : Tagged(q[i]) /\ Tagged(q[j]) /\ q[i].req = q[j].req => i = j

(* No frame of p names a start that one of q names.                        *)
Apart(P, Q) == \A m \in P, k \in Q : Tagged(m) /\ Tagged(k) => m.req # k.req

(* Nothing is under way without a connection, and no list outlives it.     *)
Closed ==
  /\ ~connected => toHub = <<>> /\ toAgent = <<>>
  /\ listed # {} => connected

(* The hub's clock is past every question.                                 *)
Asked ==
  /\ listAsked <= clock
  /\ \A id \in Ids : attachAsked[id] <= clock
  /\ \A m \in Frames(toAgent) : m.type = "ATTACH" => m.at <= clock
  /\ \A m \in Frames(toHub) : m.type = "CHANNEL_NOT_FOUND" => m.at <= clock

(* Starts are told apart by their requests.                                *)
Numbered ==
  /\ \A s \in starts : s.req <= requests
  /\ \A s, t \in starts : s.req = t.req /\ s.req # 0 => s = t
  /\ \A m \in Frames(toAgent) \cup Frames(toHub) : Tagged(m) => m.req <= requests
  /\ \A id \in Ids : table[id] <= requests

(* A SPAWN is answered once, and its shell is not there before.            *)
AskedOnce ==
  /\ Once(toAgent) /\ Once(toHub) /\ Apart(Frames(toAgent), Frames(toHub))
  /\ \A m \in Frames(toAgent) : Tagged(m) => \A id \in Ids : table[id] # m.req

(* Nobody knows an id that was never generated.                            *)
NewIsNew ==
  /\ \A id \in unused : record[id] = "none"
  /\ \A m \in Frames(toHub) : m.type = "SPAWN_OK" => m.id \notin unused
  /\ \A a \in answered : a.id \notin unused

(* A shell the agent holds has its reader.                                 *)
HeldIsRead == \A id \in Ids : table[id] # 0 => [id |-> id, shell |-> table[id]] \in readers

(* The start of a SPAWN under way waits for it, or timed out.              *)
SentIsAwaited ==
  \A m \in Frames(toAgent) :
    m.type = "SPAWN" => m.req \in gaveUp \/ \E s \in Waiting : s.req = m.req /\ s.id = m.id

(* The frames of a sequence once its first is read.                        *)
LEMMA ReadFrames ==
  ASSUME NEW S, NEW q \in Seq(S), q # <<>>
  PROVE  /\ Head(q) \in Frames(q) /\ Frames(Tail(q)) \subseteq Frames(q)
         /\ Frames(q) \subseteq Frames(Tail(q)) \cup {Head(q)}
         /\ Once(q) => Once(Tail(q)) /\ Apart({Head(q)}, Frames(Tail(q)))
<1>1. /\ Len(q) \in Nat \ {0} /\ Head(q) = q[1] /\ Len(Tail(q)) = Len(q) - 1
      /\ \A i \in 1..(Len(q) - 1) : Tail(q)[i] = q[i + 1]
  OBVIOUS
<1>2. Head(q) \in Frames(q) /\ Frames(Tail(q)) \subseteq Frames(q)
  BY <1>1 DEF Frames
<1>3. ASSUME NEW m \in Frames(q) PROVE m \in Frames(Tail(q)) \/ m = Head(q)
  <2>1. PICK i \in 1..Len(q) : m = q[i]
    BY DEF Frames
  <2>2. CASE i = 1
    BY <1>1, <2>1, <2>2
  <2>3. CASE i # 1
    <3>1. i - 1 \in 1..(Len(q) - 1) /\ Tail(q)[i - 1] = q[(i - 1) + 1] /\ (i - 1) + 1 = i
      BY <1>1, <2>3
    <3>. QED
      BY <1>1, <2>1, <3>1 DEF Frames
  <2>. QED
    BY <2>2, <2>3
<1>4. ASSUME Once(q) PROVE Once(Tail(q)) /\ Apart({Head(q)}, Frames(Tail(q)))
  <2>1. ASSUME NEW i \in 1..Len(Tail(q)), NEW j \in 1..Len(Tail(q)),
               Tagged(Tail(q)[i]), Tagged(Tail(q)[j]), Tail(q)[i].req = Tail(q)[j].req
        PROVE  i = j
    <3>1. i + 1 \in 1..Len(q) /\ j + 1 \in 1..Len(q)
      BY <1>1
    <3>2. Tail(q)[i] = q[i + 1] /\ Tail(q)[j] = q[j + 1]
      BY <1>1
    <3>3. i + 1 = j + 1
      BY <1>4, <2>1, <3>1, <3>2 DEF Once
    <3>. QED
      BY <1>1, <3>3
  <2>2. ASSUME NEW m \in Frames(Tail(q)), Tagged(m), Tagged(Head(q))
        PROVE  Head(q).req # m.req
    <3>1. PICK i \in 1..Len(Tail(q)) : m = Tail(q)[i]
      BY DEF Frames
    <3>2. i + 1 \in 1..Len(q) /\ m = q[i + 1] /\ 1 \in 1..Len(q) /\ i + 1 # 1
      BY <1>1, <3>1
    <3>. QED
      BY <1>1, <1>4, <2>2, <3>2 DEF Once
  <2>. QED
    BY <2>1, <2>2 DEF Once, Apart
<1>. QED
  BY <1>2, <1>3, <1>4

(* The frames of a sequence once more are sent.                            *)
LEMMA SendFrames ==
  ASSUME NEW S, NEW p \in Seq(S), NEW q \in Seq(S)
  PROVE  /\ Frames(p \o q) = Frames(p) \cup Frames(q)
         /\ Once(p) /\ Once(q) /\ Apart(Frames(p), Frames(q)) => Once(p \o q)
<1>1. /\ Len(p) \in Nat /\ Len(q) \in Nat /\ Len(p \o q) = Len(p) + Len(q)
      /\ \A i \in 1..(Len(p) + Len(q)) :
           (p \o q)[i] = IF i <= Len(p) THEN p[i] ELSE q[i - Len(p)]
  OBVIOUS
<1>2. Frames(p \o q) \subseteq Frames(p) \cup Frames(q)
  <2>1. ASSUME NEW i \in 1..(Len(p) + Len(q))
        PROVE  (p \o q)[i] \in Frames(p) \cup Frames(q)
    <3>1. CASE i <= Len(p)
      BY <1>1, <3>1 DEF Frames
    <3>2. CASE i > Len(p)
      <4>1. i - Len(p) \in 1..Len(q) /\ (p \o q)[i] = q[i - Len(p)]
        BY <1>1, <3>2
      <4>. QED
        BY <4>1 DEF Frames
    <3>. QED
      BY <1>1, <3>1, <3>2
  <2>. QED
    BY <1>1, <2>1 DEF Frames
<1>3. Frames(p) \cup Frames(q) \subseteq Frames(p \o q)
  <2>1. ASSUME NEW i \in 1..Len(p) PROVE p[i] \in Frames(p \o q)
    <3>1. i \in 1..(Len(p) + Len(q)) /\ (p \o q)[i] = p[i]
      BY <1>1
    <3>. QED
      BY <1>1, <3>1 DEF Frames
  <2>2. ASSUME NEW i \in 1..Len(q) PROVE q[i] \in Frames(p \o q)
    <3>1. /\ Len(p) + i \in 1..(Len(p) + Len(q)) /\ (Len(p) + i) - Len(p) = i
          /\ ~(Len(p) + i <= Len(p))
      BY <1>1
    <3>2. (p \o q)[Len(p) + i] = q[i]
      BY <1>1, <3>1
    <3>. QED
      BY <1>1, <3>1, <3>2 DEF Frames
  <2>. QED
    BY <2>1, <2>2 DEF Frames
<1>4. ASSUME Once(p), Once(q), Apart(Frames(p), Frames(q)) PROVE Once(p \o q)
  <2>. DEFINE n == Len(p)
  <2>1. ASSUME NEW i \in 1..(n + Len(q)), NEW j \in 1..(n + Len(q)),
               Tagged((p \o q)[i]), Tagged((p \o q)[j]), (p \o q)[i].req = (p \o q)[j].req
        PROVE  i = j
    <3>1. CASE i <= n /\ j <= n
      BY <1>1, <1>4, <2>1, <3>1 DEF Once
    <3>2. CASE i > n /\ j > n
      <4>1. i - n \in 1..Len(q) /\ j - n \in 1..Len(q) /\ (p \o q)[i] = q[i - n] /\ (p \o q)[j] = q[j - n]
        BY <1>1, <3>2
      <4>2. i - n = j - n
        BY <1>4, <2>1, <4>1 DEF Once
      <4>. QED
        BY <1>1, <4>2
    <3>3. ASSUME NEW k \in 1..(n + Len(q)), NEW l \in 1..(n + Len(q)), k <= n, l > n,
                 Tagged((p \o q)[k]), Tagged((p \o q)[l])
          PROVE  (p \o q)[k].req # (p \o q)[l].req
      <4>1. k \in 1..n /\ l - n \in 1..Len(q) /\ (p \o q)[k] = p[k] /\ (p \o q)[l] = q[l - n]
        BY <1>1, <3>3
      <4>2. p[k] \in Frames(p) /\ q[l - n] \in Frames(q)
        BY <4>1 DEF Frames
      <4>. QED
        BY <1>4, <3>3, <4>1, <4>2 DEF Apart
    <3>. QED
      BY <1>1, <2>1, <3>1, <3>2, <3>3
  <2>. QED
    BY <1>1, <2>1 DEF Once
<1>. QED
  BY <1>2, <1>3, <1>4

(* One frame is sent.                                                      *)
LEMMA AppendFrames ==
  ASSUME NEW S, NEW p \in Seq(S), NEW m \in S
  PROVE  /\ Frames(Append(p, m)) = Frames(p) \cup {m}
         /\ Once(p) /\ Apart(Frames(p), {m}) => Once(Append(p, m))
<1>. DEFINE q == <<m>>
<1>1. Append(p, m) = p \o q /\ q \in Seq(S) /\ Len(q) = 1 /\ q[1] = m
  OBVIOUS
<1>. HIDE DEF q
<1>2. Frames(q) = {m} /\ Once(q)
  BY <1>1 DEF Frames, Once
<1>3. /\ Frames(p \o q) = Frames(p) \cup Frames(q)
      /\ Once(p) /\ Once(q) /\ Apart(Frames(p), Frames(q)) => Once(p \o q)
  BY <1>1, SendFrames
<1>. QED
  BY <1>1, <1>2, <1>3, Zenon

(* Nothing is under way in an empty sequence.                              *)
LEMMA NoFrames == Frames(<<>>) = {} /\ Once(<<>>)
BY DEF Frames, Once

(* The hub reads one frame, and the others stay as they are.               *)
LEMMA HubReadsFrames ==
  ASSUME WireTypeOK, NEW type, HubReads(type)
  PROVE  /\ Head(toHub) \in Frames(toHub) /\ Head(toHub).type = type
         /\ Frames(toHub') \subseteq Frames(toHub)
         /\ Frames(toHub) \subseteq Frames(toHub') \cup {Head(toHub)}
         /\ Once(toHub) => Once(toHub') /\ Apart({Head(toHub)}, Frames(toHub'))
BY ReadFrames DEF WireTypeOK, HubReads

(* So does the agent.                                                      *)
LEMMA AgentReadsFrames ==
  ASSUME WireTypeOK, NEW type, AgentReads(type)
  PROVE  /\ Head(toAgent) \in Frames(toAgent) /\ Head(toAgent).type = type
         /\ Frames(toAgent') \subseteq Frames(toAgent)
         /\ Frames(toAgent) \subseteq Frames(toAgent') \cup {Head(toAgent)}
         /\ Once(toAgent) => Once(toAgent') /\ Apart({Head(toAgent)}, Frames(toAgent'))
BY ReadFrames DEF WireTypeOK, AgentReads

(* SetToSeq has every element.                                             *)
LEMMA SetToSeqFrames ==
  ASSUME NEW S, IsFiniteSet(S)
  PROVE  Frames(SetToSeq(S)) = S
<1>. DEFINE n == Cardinality(S)
            g == SetToSeq(S)
<1>1. n \in Nat /\ ExistsBijection(1..n, S)
  BY FS_CardinalityType
<1>2. \E f \in [1..n -> S] : IsInjective(f)
  BY <1>1, Zenon DEF ExistsBijection, Bijection, Injection
<1>3. g \in [1..n -> S] /\ IsInjective(g)
  BY <1>2, Zenon DEF SetToSeq
<1>4. IsFiniteSet(1..n) /\ Cardinality(1..n) = n
  <2>. HIDE DEF n
  <2>1. n >= 1 \/ n = 0
    BY <1>1
  <2>2. IsFiniteSet(1..n) /\ Cardinality(1..n) = IF 1 > n THEN 0 ELSE n - 1 + 1
    BY <1>1, FS_Interval
  <2>. QED
    BY <1>1, <2>1, <2>2
<1>5. g \in Injection(1..n, S)
  BY <1>3 DEF Injection
<1>. HIDE DEF g
<1>6. g \in Surjection(1..n, S)
  BY <1>4, <1>5, FS_Injection
<1>7. \A x \in S : \E i \in 1..n : g[i] = x
  BY <1>6 DEF Surjection
<1>. HIDE DEF n
<1>8. Len(g) = n
  BY <1>1, <1>3
<1>9. Frames(g) = S
  BY <1>3, <1>7, <1>8 DEF Frames
<1>. QED
  BY <1>9 DEF g

-----------------------------------------------------------------------------
(* What is under way stays in order.                                       *)

(* What is under way is what was asked, once, on the connection there is.  *)
Orderly ==
  /\ Closed /\ Asked /\ Numbered /\ AskedOnce /\ NewIsNew /\ HeldIsRead /\ SentIsAwaited

(* With what the other theorems establish.                                 *)
Ground ==
  /\ TypeOK /\ OneStartAtATime /\ AnsweredOnce /\ RecordAgrees /\ Orderly

(* What the fields of a start hold.                                        *)
LEMMA WaitingFields ==
  ASSUME TypeOK, NEW s \in starts
  PROVE  /\ s.req \in Nat /\ s.id \in Ids \cup {NoId} /\ s.via \in {"restart", "spawn"}
         /\ s.via = "restart" => s.id \in Ids
BY DEF TypeOK, HubTypeOK, Starts

(* The hub reads a frame that answers no start.                            *)
LEMMA HubReadsOrderly ==
  ASSUME Ground, HubExit \/ HubAttachOk \/ HubNotFound \/ HubStates
  PROVE  Orderly'
<1>. USE DEF Ground, Orderly
<1>1. /\ UNCHANGED <<clock, starts, answered, gaveUp, listAsked, unused, table, readers,
                     connected, toAgent, requests>>
      /\ HubReads(Head(toHub).type)
  BY DEF HubExit, HubAttachOk, HubNotFound, HubStates, HubReads, startVars, askVars, history,
         agentVars, bounds
<1>2. /\ toHub # <<>> /\ Frames(toHub') \subseteq Frames(toHub) /\ Once(toHub')
  BY <1>1, HubReadsFrames DEF TypeOK, AskedOnce, HubReads
<1>3. \A id \in Ids : record[id] = "none" => record'[id] = "none"
  <2>1. CASE HubExit
    BY <2>1 DEF HubExit, RecordAgrees, TypeOK, HubTypeOK
  <2>2. CASE HubAttachOk \/ HubNotFound \/ HubStates
    BY <2>2 DEF HubAttachOk, HubNotFound, HubStates, channelVars
  <2>. QED
    BY <2>1, <2>2
<1>4. \A id \in Ids : attachAsked'[id] <= clock
  <2>1. CASE HubAttachOk
    <3>. DEFINE i == Head(toHub).id
    <3>1. attachAsked' = [attachAsked EXCEPT ![i] = IF @ = Head(toHub).at THEN 0 ELSE @]
      BY <2>1 DEF HubAttachOk
    <3>2. attachAsked \in [Ids -> Nat] /\ clock \in Nat
      BY DEF TypeOK, HubTypeOK
    <3>3. \A id \in Ids : attachAsked'[id] = attachAsked[id] \/ attachAsked'[id] = 0
      BY <3>1, <3>2
    <3>. QED
      BY <3>2, <3>3 DEF Asked
  <2>2. CASE HubExit \/ HubNotFound \/ HubStates
    BY <2>2 DEF HubExit, HubNotFound, HubStates, Asked, askVars
  <2>. QED
    BY <2>1, <2>2
<1>5. Closed' /\ Asked'
  BY <1>1, <1>2, <1>4 DEF Closed, Asked
<1>6. Numbered' /\ AskedOnce'
  BY <1>1, <1>2 DEF Numbered, AskedOnce, Apart
<1>7. NewIsNew' /\ HeldIsRead' /\ SentIsAwaited'
  BY <1>1, <1>2, <1>3 DEF NewIsNew, HeldIsRead, SentIsAwaited, Waiting, TypeOK, AgentTypeOK
<1>. QED
  BY <1>5, <1>6, <1>7

(* The hub reads the answer of a start: no other SPAWN is answered by it.  *)
LEMMA HubAnswersOrderly ==
  ASSUME Ground, HubSpawnOk \/ HubSpawnErr
  PROVE  Orderly'
<1>. USE DEF Ground, Orderly
<1>. DEFINE m == Head(toHub)
<1>1. /\ UNCHANGED <<starts, gaveUp, listAsked, listed, attachAsked, unused, table, readers,
                     connected, toAgent, requests>>
      /\ HubReads(m.type) /\ m.type \in {"SPAWN_OK", "SPAWN_ERR"}
  BY DEF HubSpawnOk, HubSpawnErr, HubReads, askVars, agentVars, bounds
<1>2. /\ toHub # <<>> /\ Frames(toHub') \subseteq Frames(toHub) /\ Once(toHub')
      /\ m \in Frames(toHub)
  BY <1>1, HubReadsFrames DEF TypeOK, AskedOnce, HubReads
<1>3. m \in ToHubFrames /\ m.req \in Nat \ {0} /\ (m.type = "SPAWN_OK" => m.id \in Ids)
  BY <1>1, HubReadsType, ToHubFields DEF TypeOK
<1>4. /\ m.type = "SPAWN_OK" => m.id \notin unused
      /\ \A k \in Frames(toAgent) : Tagged(k) => k.req # m.req
  BY <1>1, <1>2 DEF NewIsNew, AskedOnce, Apart, Tagged
<1>5. clock \in Nat /\ clock' \in Nat /\ clock <= clock' /\ listAsked \in Nat
      /\ \A id \in Ids : attachAsked[id] \in Nat
  <2>1. clock' = clock \/ clock' = clock + 1
    BY DEF HubSpawnOk, HubSpawnErr, Started, channelVars
  <2>. QED
    BY <2>1 DEF TypeOK, HubTypeOK
<1>6. \A id \in unused : record[id] = "none" => record'[id] = "none"
  <2>1. CASE m.type = "SPAWN_OK" /\ Started(m.id, m.req)
    BY <1>3, <1>4, <2>1 DEF Started, TypeOK, HubTypeOK
  <2>2. CASE record' = record
    BY <2>2
  <2>. QED
    BY <2>1, <2>2 DEF HubSpawnOk, HubSpawnErr, HubReads, channelVars
<1>7. \/ answered' = answered
      \/ \E s \in Waiting : /\ s.req = m.req
                            /\ \/ answered' = answered \cup {[start |-> s, id |-> NoId]}
                               \/ /\ m.type = "SPAWN_OK"
                                  /\ answered' = answered \cup {[start |-> s, id |-> m.id]}
  BY DEF HubSpawnOk, HubSpawnErr, HubReads
<1>8. /\ \A a \in answered' : a.id \notin unused
      /\ \A s \in Waiting : s.req # m.req => s \in Waiting'
  <2>1. NoId \notin unused
    BY NoIdAssumption DEF TypeOK, AgentTypeOK
  <2>2. CASE answered' = answered
    BY <1>1, <2>2 DEF NewIsNew, Waiting
  <2>3. ASSUME NEW s \in Waiting, NEW id, s.req = m.req, id \notin unused,
               answered' = answered \cup {[start |-> s, id |-> id]}
        PROVE  /\ \A a \in answered' : a.id \notin unused
               /\ \A t \in Waiting : t.req # m.req => t \in Waiting'
    <3>. DEFINE b == [start |-> s, id |-> id]
    <3>1. b.start = s /\ b.id = id /\ answered' = answered \cup {b}
      BY <2>3
    <3>. HIDE DEF b, m
    <3>. QED
      BY <1>1, <2>3, <3>1 DEF NewIsNew, Waiting
  <2>. QED
    BY <1>4, <1>7, <2>1, <2>2, <2>3
<1>. HIDE DEF m
<1>9. Closed' /\ Asked'
  <2>1. Closed'
    BY <1>1, <1>2 DEF Closed
  <2>2. \A k \in Frames(toHub) : k.type = "CHANNEL_NOT_FOUND" => k.at \in Nat
    BY ToHubFields DEF TypeOK, WireTypeOK, Frames
  <2>3. \A k \in Frames(toAgent) : k.type = "ATTACH" => k.at \in Nat
    BY ToAgentFields DEF TypeOK, WireTypeOK, Frames
  <2>4. Asked'
    BY <1>1, <1>2, <1>5, <2>2, <2>3 DEF Asked
  <2>. QED
    BY <2>1, <2>4
<1>10. Numbered' /\ AskedOnce'
  BY <1>1, <1>2 DEF Numbered, AskedOnce, Apart
<1>11. NewIsNew' /\ HeldIsRead'
  BY <1>1, <1>2, <1>6, <1>8 DEF NewIsNew, HeldIsRead
<1>12. SentIsAwaited'
  BY <1>1, <1>4, <1>8 DEF SentIsAwaited, Tagged
<1>. QED
  BY <1>9, <1>10, <1>11, <1>12

(* The numbers in frames under way.                                        *)
LEMMA FrameNumbers ==
  ASSUME TypeOK
  PROVE  /\ \A k \in Frames(toHub) : k.type = "CHANNEL_NOT_FOUND" => k.at \in Nat \ {0}
         /\ \A k \in Frames(toHub) : Tagged(k) => k.req \in Nat \ {0}
         /\ \A k \in Frames(toAgent) : k.type = "ATTACH" => k.at \in Nat \ {0}
         /\ \A k \in Frames(toAgent) : Tagged(k) => k.type = "SPAWN" /\ k.req \in Nat \ {0}
<1>1. \A k \in Frames(toHub) : k \in ToHubFrames
  BY DEF TypeOK, WireTypeOK, Frames
<1>2. \A k \in Frames(toAgent) : k \in ToAgentFrames
  BY DEF TypeOK, WireTypeOK, Frames
<1>3. \A k \in ToHubFrames : Tagged(k) => k.type \in {"SPAWN_OK", "SPAWN_ERR"}
  BY DEF Tagged, ToHubFrames, ExitFrames
<1>4. \A k \in ToAgentFrames : Tagged(k) => k.type = "SPAWN"
  BY DEF Tagged, ToAgentFrames
<1>. QED
  BY <1>1, <1>2, <1>3, <1>4, ToHubFields, ToAgentFields

(* The hub asks, tells or forgets, and starts nothing.                     *)
LEMMA ToldOrderly ==
  ASSUME Ground,
         UNCHANGED <<starts, answered, gaveUp, unused, table, readers, connected, toHub, requests>>,
         Once(toAgent'), toAgent' # toAgent => connected, listed' # {} => connected,
         Frames(toAgent) \subseteq Frames(toAgent'),
         \A m \in Frames(toAgent') \ Frames(toAgent) :
           ~Tagged(m) /\ (m.type = "ATTACH" => m.at <= clock'),
         clock' \in Nat, clock <= clock', listAsked' <= clock',
         \A id \in Ids : attachAsked'[id] <= clock',
         \A id \in Ids : record[id] = "none" => record'[id] = "none"
  PROVE  Orderly'
<1>. USE DEF Ground, Orderly
<1>1. Closed'
  BY DEF Closed
<1>2. Asked'
  <2>1. clock \in Nat
    BY DEF TypeOK, HubTypeOK
  <2>. QED
    BY <2>1, FrameNumbers DEF Asked
<1>3. Numbered' /\ AskedOnce'
  BY DEF Numbered, AskedOnce, Apart
<1>4. NewIsNew' /\ HeldIsRead'
  BY DEF NewIsNew, HeldIsRead, TypeOK, AgentTypeOK
<1>5. SentIsAwaited'
  BY DEF SentIsAwaited, Waiting, Tagged
<1>. QED
  BY <1>1, <1>2, <1>3, <1>4, <1>5

(* What is forgotten was known.                                            *)
LEMMA ForgetKnown ==
  ASSUME HubTypeOK, RecordAgrees, NEW ids, Forget(ids),
         \A id \in Ids : id \in ids => tracked[id] # "none"
  PROVE  \A id \in Ids : record[id] = "none" => record'[id] = "none"
BY DEF HubTypeOK, RecordAgrees, Forget

(* The DESTROYs of a list's orphans.                                       *)
LEMMA OrphanFrames ==
  ASSUME NEW reported \in SUBSET Ids
  PROVE  LET D == SetToSeq({Destroy(id, "orphan") : id \in Orphans(reported)})
         IN  /\ D \in Seq(ToAgentFrames) /\ Once(D)
             /\ Frames(D) = {Destroy(id, "orphan") : id \in Orphans(reported)}
             /\ \A m \in Frames(D) : m.type = "DESTROY" /\ ~Tagged(m)
<1>. DEFINE D == {Destroy(id, "orphan") : id \in Orphans(reported)}
            q == SetToSeq(D)
<1>1. Orphans(reported) \subseteq Ids
  BY DEF Orphans
<1>2. IsFiniteSet(Orphans(reported))
  BY <1>1, IdsAssumption, FS_Subset
<1>3. IsFiniteSet(D)
  <2>. DEFINE f == [id \in Orphans(reported) |-> Destroy(id, "orphan")]
  <2>1. f \in Surjection(Orphans(reported), D)
    BY DEF Surjection
  <2>. QED
    BY <1>2, <2>1, FS_Surjection DEF ExistsSurjection
<1>4. q \in Seq(ToAgentFrames)
  BY OrphansType
<1>5. \A m \in D : m.type = "DESTROY" /\ ~Tagged(m)
  BY DEF Destroy, Tagged
<1>. HIDE DEF D
<1>6. Frames(q) = D
  BY <1>3, SetToSeqFrames
<1>. HIDE DEF q
<1>7. Once(q)
  BY <1>5, <1>6 DEF Once, Frames
<1>. QED
  BY <1>4, <1>5, <1>6, <1>7 DEF D, q

(* The hub judges, closes, asks, or gives a question up.                   *)
LEMMA HubTellsOrderly ==
  ASSUME Ground,
         \/ \E id \in notFound : ResumeAttach(id)
         \/ \E reported \in listed : ResumeList(reported)
         \/ \E id \in Ids : Kill(id) \/ AskAttach(id) \/ AttachTimeout(id)
         \/ ListTimeout \/ CloseSession
  PROVE  Orderly'
<1>. USE DEF Ground, Orderly
<1>0. /\ clock \in Nat /\ listAsked \in Nat /\ attachAsked \in [Ids -> Nat] /\ notFound \subseteq Ids
      /\ toAgent \in Seq(ToAgentFrames) /\ HubTypeOK
  BY DEF TypeOK, HubTypeOK, WireTypeOK
<1>1. ASSUME NEW id \in notFound, ResumeAttach(id) PROVE Orderly'
  <2>1. \A i \in Ids : record[i] = "none" => record'[i] = "none"
    BY <1>0, <1>1, ForgetKnown DEF ResumeAttach, answerStillApplies
  <2>2. \A i \in Ids : attachAsked'[i] = attachAsked[i] \/ attachAsked'[i] = 0
    BY <1>0, <1>1 DEF ResumeAttach
  <2>3. UNCHANGED <<starts, answered, gaveUp, unused, table, readers, wires, requests, clock, listAsked, listed>>
    BY <1>1 DEF ResumeAttach, startVars, history, agentVars, bounds
  <2>. QED
    BY <1>0, <2>1, <2>2, <2>3, ToldOrderly DEF Asked, AskedOnce, Closed, wires
<1>2. ASSUME NEW reported \in listed, ResumeList(reported) PROVE Orderly'
  <2>. DEFINE D == SetToSeq({Destroy(i, "orphan") : i \in Orphans(reported)})
  <2>1. \A i \in Ids : record[i] = "none" => record'[i] = "none"
    BY <1>0, <1>2, ForgetKnown DEF ResumeList, answerStillApplies
  <2>2. toAgent' = toAgent \o D
    BY <1>2 DEF ResumeList
  <2>3. D \in Seq(ToAgentFrames) /\ Once(D) /\ \A m \in Frames(D) : m.type = "DESTROY" /\ ~Tagged(m)
    BY OrphanFrames DEF TypeOK, HubTypeOK
  <2>. HIDE DEF D
  <2>4. Frames(toAgent') = Frames(toAgent) \cup Frames(D) /\ Once(toAgent')
    <3>1. Apart(Frames(toAgent), Frames(D))
      BY <2>3 DEF Apart
    <3>. QED
      BY <1>0, <2>2, <2>3, <3>1, SendFrames DEF AskedOnce
  <2>5. UNCHANGED <<starts, answered, gaveUp, unused, table, readers, connected, toHub, requests, clock, attachAsked>>
    BY <1>2 DEF ResumeList, startVars, agentVars, bounds
  <2>6. listAsked' = 0 /\ listed' = {} /\ connected
    BY <1>2 DEF ResumeList, Closed
  <2>. QED
    BY <1>0, <2>1, <2>3, <2>4, <2>5, <2>6, ToldOrderly DEF Asked
<1>3. ASSUME NEW id \in Ids, Kill(id) PROVE Orderly'
  <2>1. \A i \in Ids : record[i] = "none" => record'[i] = "none"
    BY <1>0, <1>3, ForgetKnown DEF Kill
  <2>. DEFINE d == Destroy(id, "kill")
  <2>2. d \in ToAgentFrames /\ ~Tagged(d) /\ d.type = "DESTROY"
    BY FramesType DEF Destroy, Tagged
  <2>3. toAgent' = IF connected THEN Append(toAgent, d) ELSE toAgent
    BY <1>3 DEF Kill
  <2>. HIDE DEF d
  <2>4. Frames(Append(toAgent, d)) = Frames(toAgent) \cup {d} /\ Once(Append(toAgent, d))
    BY <1>0, <2>2, AppendFrames DEF AskedOnce, Apart
  <2>5. UNCHANGED <<starts, answered, gaveUp, unused, table, readers, connected, toHub, requests,
                    clock, listAsked, listed, attachAsked>>
    BY <1>3 DEF Kill, startVars, askVars, history, agentVars, bounds
  <2>6. Once(toAgent') /\ (toAgent' # toAgent => connected) /\ Frames(toAgent) \subseteq Frames(toAgent')
        /\ \A m \in Frames(toAgent') \ Frames(toAgent) : m = d
    BY <2>3, <2>4 DEF AskedOnce
  <2>. QED
    BY <1>0, <2>1, <2>2, <2>5, <2>6, ToldOrderly DEF Asked, Closed
<1>4. ASSUME NEW id \in Ids, AskAttach(id) PROVE Orderly'
  <2>. DEFINE d == AttachTo(id, clock + 1)
  <2>1. d \in ToAgentFrames /\ ~Tagged(d) /\ d.at = clock + 1
    BY <1>0, FramesType DEF AttachTo, Tagged
  <2>2. toAgent' = Append(toAgent, d) /\ connected /\ clock' = clock + 1
    BY <1>4 DEF AskAttach
  <2>. HIDE DEF d
  <2>3. Frames(toAgent') = Frames(toAgent) \cup {d} /\ Once(toAgent')
    BY <1>0, <2>1, <2>2, AppendFrames DEF AskedOnce, Apart
  <2>4. UNCHANGED <<starts, answered, gaveUp, unused, table, readers, connected, toHub, requests, listAsked, listed, record>>
    BY <1>4 DEF AskAttach, channelVars, startVars, history, agentVars, bounds
  <2>5. \A i \in Ids : attachAsked'[i] = attachAsked[i] \/ attachAsked'[i] = clock + 1
    BY <1>0, <1>4 DEF AskAttach
  <2>6. \A i \in Ids : attachAsked'[i] <= clock'
    BY <1>0, <2>2, <2>5 DEF Asked
  <2>. QED
    BY <1>0, <2>1, <2>2, <2>3, <2>4, <2>6, ToldOrderly DEF Asked, Closed
<1>5. ASSUME \/ \E id \in Ids : AttachTimeout(id)
             \/ ListTimeout \/ CloseSession
      PROVE  Orderly'
  <2>1. UNCHANGED <<starts, answered, gaveUp, unused, table, readers, connected, toAgent, toHub, requests, listed, clock>>
    BY <1>5 DEF AttachTimeout, ListTimeout, CloseSession, startVars, askVars, history, agentVars, wires, bounds
  <2>2. \A i \in Ids : attachAsked'[i] = attachAsked[i] \/ attachAsked'[i] = 0
    BY <1>0, <1>5 DEF AttachTimeout, ListTimeout, CloseSession, askVars
  <2>3. listAsked' = listAsked \/ listAsked' = 0
    BY <1>5 DEF AttachTimeout, ListTimeout, CloseSession, askVars
  <2>4. \A i \in Ids : record[i] = "none" => record'[i] = "none"
    <3>1. CASE CloseSession
      BY <1>0, <3>1, ForgetKnown DEF CloseSession
    <3>2. CASE record' = record
      BY <3>2
    <3>. QED
      BY <1>5, <3>1, <3>2 DEF AttachTimeout, ListTimeout, channelVars
  <2>. QED
    BY <1>0, <2>1, <2>2, <2>3, <2>4, ToldOrderly DEF Asked, AskedOnce, Closed
<1>. QED
  BY <1>1, <1>2, <1>3, <1>4, <1>5

(* A start is claimed, refused or given up, or goes on with its answer.    *)
LEMMA StartsOrderly ==
  ASSUME Ground,
         \/ \E id \in Ids : RestartClaim(id) \/ ReuseClaim(id)
         \/ \E s \in starts : StartRefused(s) \/ StartTimeout(s)
         \/ \E a \in answered : ResumeStart(a)
  PROVE  Orderly'
<1>. USE DEF Ground, Orderly
<1>0. /\ clock \in Nat /\ listAsked \in Nat /\ attachAsked \in [Ids -> Nat] /\ requests \in Nat
      /\ unused \subseteq Ids
  BY DEF TypeOK, HubTypeOK, AgentTypeOK, BoundsTypeOK
<1>1. UNCHANGED <<listAsked, listed, attachAsked, unused, table, readers, connected, toHub, requests>>
  BY DEF RestartClaim, ReuseClaim, Claim, StartRefused, StartTimeout, ResumeStart, askVars,
         agentVars, wires, bounds
<1>10. /\ Once(toAgent') /\ Frames(toAgent) \subseteq Frames(toAgent')
       /\ toAgent' # toAgent => connected
       /\ \A m \in Frames(toAgent') \ Frames(toAgent) : m.type = "DESTROY" /\ ~Tagged(m)
  <2>1. CASE toAgent' = toAgent
    BY <2>1 DEF AskedOnce
  <2>2. ASSUME NEW id \in Ids, connected, toAgent' = Append(toAgent, Destroy(id, "restart"))
        PROVE  /\ Once(toAgent') /\ Frames(toAgent) \subseteq Frames(toAgent')
               /\ \A m \in Frames(toAgent') \ Frames(toAgent) : m.type = "DESTROY" /\ ~Tagged(m)
    <3>. DEFINE d == Destroy(id, "restart")
    <3>1. d \in ToAgentFrames /\ ~Tagged(d) /\ d.type = "DESTROY" /\ toAgent' = Append(toAgent, d)
      BY <2>2, FramesType DEF Destroy, Tagged
    <3>2. toAgent \in Seq(ToAgentFrames)
      BY DEF TypeOK, WireTypeOK
    <3>. HIDE DEF d
    <3>3. Frames(Append(toAgent, d)) = Frames(toAgent) \cup {d} /\ Once(Append(toAgent, d))
      BY <3>1, <3>2, AppendFrames DEF AskedOnce, Apart
    <3>. QED
      BY <3>1, <3>3
  <2>3. \/ toAgent' = toAgent
        \/ \E id \in Ids : connected /\ toAgent' = Append(toAgent, Destroy(id, "restart"))
    BY DEF RestartClaim, ReuseClaim, StartRefused, StartTimeout, ResumeStart, wires
  <2>. QED
    BY <2>1, <2>2, <2>3
<1>2. /\ \A s \in starts' : s \in starts \/ s.req = 0
      /\ \A s \in starts : s \in Waiting => s \in Waiting' \/ s.req \in gaveUp'
      /\ gaveUp \subseteq gaveUp' /\ answered' \subseteq answered
  <2>1. ASSUME NEW id \in Ids, NEW via, Claim(id, via)
        PROVE  /\ \A s \in starts' : s \in starts \/ s.req = 0
               /\ \A s \in starts : s \in Waiting => s \in Waiting'
               /\ gaveUp' = gaveUp /\ answered' = answered
    BY <2>1 DEF Claim, Waiting, history
  <2>2. ASSUME NEW s \in starts, StartRefused(s) \/ StartTimeout(s)
        PROVE  /\ starts' \subseteq starts /\ answered' = answered
               /\ \A u \in starts : u \in Waiting => u \in Waiting' \/ u.req \in gaveUp'
               /\ gaveUp \subseteq gaveUp'
    BY <2>2 DEF StartRefused, StartTimeout, EndStart, Waiting, history
  <2>3. ASSUME NEW a \in answered, ResumeStart(a)
        PROVE  /\ starts' \subseteq starts /\ answered' \subseteq answered /\ gaveUp' = gaveUp
               /\ \A u \in starts : u \in Waiting => u \in Waiting'
    BY <2>3 DEF ResumeStart, EndStart, Waiting
  <2>. QED
    BY <2>1, <2>2, <2>3 DEF RestartClaim, ReuseClaim
<1>3. clock' \in Nat /\ clock <= clock' /\ \A id \in unused : record'[id] = record[id]
  <2>1. CASE clock' = clock /\ record' = record
    BY <1>0, <2>1
  <2>2. ASSUME NEW a \in answered, a.id # NoId, Started(a.id, a.start.req)
        PROVE  clock' = clock + 1 /\ \A id \in unused : record'[id] = record[id]
    BY <2>2 DEF Started, NewIsNew, TypeOK, HubTypeOK, AgentTypeOK
  <2>. QED
    BY <1>0, <2>1, <2>2 DEF RestartClaim, ReuseClaim, Claim, StartRefused, StartTimeout,
         ResumeStart, channelVars
<1>4. Closed' /\ Asked'
  BY <1>0, <1>1, <1>3, <1>10, FrameNumbers DEF Closed, Asked
<1>5. Numbered'
  <2>1. \A s \in starts' : s.req <= requests
    BY <1>0, <1>2 DEF Numbered
  <2>2. \A s, u \in starts' : s.req = u.req /\ s.req # 0 => s = u
    BY <1>2 DEF Numbered
  <2>. QED
    BY <1>1, <1>10, <2>1, <2>2 DEF Numbered
<1>6. AskedOnce' /\ HeldIsRead'
  BY <1>1, <1>10 DEF AskedOnce, HeldIsRead, Apart
<1>7. NewIsNew'
  BY <1>1, <1>2, <1>3 DEF NewIsNew
<1>8. SentIsAwaited'
  <2>1. ASSUME NEW m \in Frames(toAgent), m.type = "SPAWN"
        PROVE  m.req \in gaveUp' \/ \E s \in Waiting' : s.req = m.req /\ s.id = m.id
    BY <1>2, <2>1 DEF SentIsAwaited, Waiting
  <2>. QED
    BY <1>1, <1>10, <2>1 DEF SentIsAwaited, Tagged
<1>. QED
  BY <1>4, <1>5, <1>6, <1>7, <1>8

(* A SPAWN is sent: its request is new.                                    *)
LEMMA SendsOrderly ==
  ASSUME Ground, Settled, (\E s \in starts : SendStart(s)) \/ SendNew
  PROVE  Orderly'
<1>. USE DEF Ground, Orderly
<1>. DEFINE r == requests + 1
<1>0. /\ requests \in Nat /\ r \in Nat \ {0} /\ toAgent \in Seq(ToAgentFrames)
      /\ answered = {} /\ \A id \in Ids : table[id] \in Nat
  BY DEF TypeOK, BoundsTypeOK, WireTypeOK, AgentTypeOK, Settled
<1>1. /\ UNCHANGED <<record, clock, answered, listAsked, listed, attachAsked, gaveUp, unused, table,
                     readers, connected, toHub>>
      /\ connected /\ requests' = r
  BY DEF SendStart, SendNew, channelVars, askVars, history, agentVars
<1>2. PICK n, i : /\ \A s \in starts' : s = n \/ (s \in starts /\ s # n)
                  /\ \A s \in starts : s.req # 0 => s \in starts'
                  /\ n \in starts' /\ n.req = r /\ n.id = i /\ i \in Ids \cup {NoId}
                  /\ toAgent' = Append(toAgent, Spawn(i, r))
  <2>1. ASSUME NEW s \in starts, SendStart(s)
        PROVE  \E n, i : /\ \A t \in starts' : t = n \/ (t \in starts /\ t # n)
                         /\ \A t \in starts : t.req # 0 => t \in starts'
                         /\ n \in starts' /\ n.req = r /\ n.id = i /\ i \in Ids \cup {NoId}
                         /\ toAgent' = Append(toAgent, Spawn(i, r))
    <3>. DEFINE n == [s EXCEPT !.req = r]
    <3>1. n.req = r /\ n.id = s.id /\ s.id \in Ids \cup {NoId}
      BY <1>0 DEF TypeOK, HubTypeOK, Starts
    <3>2. starts' = (starts \ {s}) \cup {n} /\ s.req = 0 /\ toAgent' = Append(toAgent, Spawn(s.id, r))
      BY <2>1 DEF SendStart
    <3>. HIDE DEF n, r
    <3>. QED
      BY <1>0, <3>1, <3>2
  <2>2. CASE SendNew
    <3>. DEFINE n == [id |-> NoId, via |-> "spawn", req |-> r]
    <3>1. n.req = r /\ n.id = NoId /\ starts' = starts \cup {n} /\ toAgent' = Append(toAgent, Spawn(NoId, r))
      BY <2>2 DEF SendNew
    <3>. HIDE DEF n, r
    <3>. QED
      BY <3>1
  <2>. QED
    BY <2>1, <2>2
<1>. DEFINE f == Spawn(i, r)
<1>3. f \in ToAgentFrames /\ Tagged(f) /\ f.type = "SPAWN" /\ f.req = r /\ f.id = i
  BY <1>0, <1>2, FramesType DEF Spawn, Tagged
<1>4. toAgent' = Append(toAgent, f)
  BY <1>2
<1>. HIDE DEF f
<1>5. \A m \in Frames(toAgent) \cup Frames(toHub) : Tagged(m) => m.req < r
  BY <1>0, FrameNumbers DEF Numbered
<1>6. /\ Frames(toAgent) \subseteq Frames(toAgent') /\ Once(toAgent') /\ f \in Frames(toAgent')
      /\ \A m \in Frames(toAgent') : m \in Frames(toAgent) \/ m = f
  <2>1. Apart(Frames(toAgent), {f})
    BY <1>0, <1>3, <1>5, FrameNumbers DEF Apart
  <2>. QED
    BY <1>0, <1>3, <1>4, <2>1, AppendFrames DEF AskedOnce
<1>7. Closed' /\ Asked'
  BY <1>1, <1>3, <1>6 DEF Closed, Asked
<1>8. Numbered'
  <2>1. \A s \in starts : s.req \in Nat /\ s.req < r
    BY <1>0, WaitingFields DEF Numbered
  <2>2. \A s \in starts' : s.req <= r
    BY <1>0, <1>2, <2>1
  <2>3. \A s, u \in starts' : s.req = u.req /\ s.req # 0 => s = u
    BY <1>0, <1>2, <2>1 DEF Numbered
  <2>4. \A m \in Frames(toAgent') \cup Frames(toHub) : Tagged(m) => m.req <= r
    BY <1>0, <1>3, <1>5, <1>6, FrameNumbers
  <2>5. \A id \in Ids : table[id] <= r
    BY <1>0 DEF Numbered
  <2>. QED
    BY <1>1, <2>2, <2>3, <2>4, <2>5 DEF Numbered
<1>9. AskedOnce'
  <2>1. Apart(Frames(toAgent'), Frames(toHub))
    BY <1>0, <1>3, <1>5, <1>6, FrameNumbers DEF AskedOnce, Apart
  <2>2. \A m \in Frames(toAgent') : Tagged(m) => \A id \in Ids : table[id] # m.req
    BY <1>0, <1>3, <1>6 DEF AskedOnce, Numbered
  <2>. QED
    BY <1>1, <1>6, <2>1, <2>2 DEF AskedOnce
<1>10. NewIsNew' /\ HeldIsRead'
  BY <1>1 DEF NewIsNew, HeldIsRead
<1>11. SentIsAwaited'
  <2>1. n \in Waiting' /\ \A s \in Waiting : s \in Waiting'
    BY <1>0, <1>1, <1>2 DEF Waiting
  <2>. QED
    BY <1>1, <1>2, <1>3, <1>6, <2>1 DEF SentIsAwaited
<1>. QED
  BY <1>7, <1>8, <1>9, <1>10, <1>11

(* A connection is opened or lost: nothing is under way but an AUTH.       *)
LEMMA ConnectionOrderly ==
  ASSUME Ground, (Settled /\ (Connect \/ Drop \/ DaemonDies)) \/ HubRestart
  PROVE  Orderly'
<1>. USE DEF Ground, Orderly
<1>1. /\ toHub' = <<>> /\ (connected' \/ toAgent' = <<>>)
      /\ Frames(toAgent') \subseteq {Auth} /\ Once(toAgent')
  <2>1. CASE Connect
    <3>. DEFINE q == <<Auth>>
    <3>1. toHub' = toHub /\ ~connected /\ connected' /\ toAgent' = q
      BY <2>1 DEF Connect
    <3>2. Len(q) = 1 /\ q[1] = Auth
      OBVIOUS
    <3>. HIDE DEF q
    <3>3. Frames(q) = {Auth} /\ Once(q)
      BY <3>2 DEF Frames, Once
    <3>. QED
      BY <3>1, <3>3 DEF Closed
  <2>2. CASE Drop \/ DaemonDies \/ HubRestart
    BY <2>2, NoFrames DEF Drop, DaemonDies, HubRestart, Disconnected
  <2>. QED
    BY <2>1, <2>2
<1>2. /\ listed' = {} /\ answered' = {} /\ UNCHANGED <<record, unused, requests>>
      /\ starts' \subseteq starts
  <2>1. CASE Settled /\ Connect
    BY <2>1 DEF Settled, Connect, channelVars, startVars, agentVars
  <2>2. CASE Settled /\ Drop
    BY <2>2 DEF Settled, Drop, channelVars, startVars, agentVars, bounds
  <2>3. CASE Settled /\ DaemonDies
    BY <2>3 DEF Settled, DaemonDies, channelVars, startVars
  <2>4. CASE HubRestart
    BY <2>4 DEF HubRestart, agentVars
  <2>. QED
    BY <2>1, <2>2, <2>3, <2>4
<1>3. \A id \in Ids : table'[id] \in {0, table[id]} /\ table[id] \in Nat
  BY DEF Connect, Drop, DaemonDies, HubRestart, agentVars, TypeOK, AgentTypeOK
<1>4. \A m \in Frames(toAgent') \cup Frames(toHub') : m.type = "AUTH" /\ ~Tagged(m)
  BY <1>1, NoFrames DEF Auth, Tagged
<1>5. Closed'
  BY <1>1, <1>2 DEF Closed
<1>6. Asked'
  <2>1. clock \in Nat /\ listAsked' <= clock' /\ \A id \in Ids : attachAsked'[id] <= clock'
    BY DEF Connect, Drop, DaemonDies, HubRestart, Disconnected, Asked, TypeOK, HubTypeOK
  <2>. QED
    BY <1>4, <2>1 DEF Asked
<1>7. Numbered'
  <2>1. requests \in Nat
    BY DEF TypeOK, BoundsTypeOK
  <2>. QED
    BY <1>2, <1>3, <1>4, <2>1 DEF Numbered
<1>8. AskedOnce'
  BY <1>1, <1>4, NoFrames DEF AskedOnce, Apart
<1>9. NewIsNew'
  BY <1>2, <1>4 DEF NewIsNew
<1>10. HeldIsRead'
  BY DEF HeldIsRead, Connect, Drop, DaemonDies, HubRestart, agentVars
<1>11. SentIsAwaited'
  BY <1>4 DEF SentIsAwaited
<1>. QED
  BY <1>5, <1>6, <1>7, <1>8, <1>9, <1>10, <1>11

(* What the agent sends, and what it holds, keeps the order.               *)
LEMMA AgentKeepsOrderly ==
  ASSUME Ground, UNCHANGED <<hubVars, requests, connected>>,
         Frames(toAgent') \subseteq Frames(toAgent), Once(toAgent'), Once(toHub'),
         toAgent' # toAgent \/ toHub' # toHub => connected,
         unused' \subseteq unused,
         \A k \in Frames(toHub) : k.type = "SPAWN_OK" => k.id \notin unused',
         \A k \in Frames(toHub') \ Frames(toHub) :
           /\ Tagged(k) => k.req <= requests /\ \A m \in Frames(toAgent') : Tagged(m) => m.req # k.req
           /\ k.type = "SPAWN_OK" => k.id \notin unused'
           /\ k.type = "CHANNEL_NOT_FOUND" => k.at <= clock,
         \A id \in Ids :
           \/ table'[id] \in {0, table[id]}
           \/ table'[id] <= requests /\ \A m \in Frames(toAgent') : Tagged(m) => m.req # table'[id],
         HeldIsRead'
  PROVE  Orderly'
<1>. USE DEF Ground, Orderly
<1>1. UNCHANGED <<record, clock, starts, answered, listAsked, listed, attachAsked, gaveUp>>
  BY DEF hubVars, channelVars, startVars, askVars, history
<1>2. Closed' /\ Asked'
  BY <1>1 DEF Closed, Asked
<1>3. Numbered'
  <2>1. \A id \in Ids : table'[id] <= requests
    <3>1. requests \in Nat
      BY DEF TypeOK, BoundsTypeOK
    <3>. QED
      BY <3>1 DEF Numbered
  <2>2. \A m \in Frames(toAgent') \cup Frames(toHub') : Tagged(m) => m.req <= requests
    BY DEF Numbered
  <2>. QED
    BY <1>1, <2>1, <2>2 DEF Numbered
<1>4. AskedOnce'
  <2>1. Apart(Frames(toAgent'), Frames(toHub'))
    BY DEF AskedOnce, Apart
  <2>2. \A m \in Frames(toAgent') : Tagged(m) => \A id \in Ids : table'[id] # m.req
    <3>1. \A m \in Frames(toAgent') : Tagged(m) => m.req # 0
      BY FrameNumbers
    <3>. QED
      BY <3>1 DEF AskedOnce
  <2>. QED
    BY <2>1, <2>2 DEF AskedOnce
<1>5. NewIsNew'
  BY <1>1 DEF NewIsNew
<1>6. SentIsAwaited'
  BY <1>1 DEF SentIsAwaited, Waiting
<1>. QED
  BY <1>2, <1>3, <1>4, <1>5, <1>6

(* Each step of the agent keeps what is under way in order.                *)
LEMMA AgentOrderly ==
  ASSUME Ground, AgentSteps
  PROVE  Orderly'
<1>. USE DEF Ground, Orderly
<1>0. /\ requests \in Nat /\ toHub \in Seq(ToHubFrames) /\ away \in Seq(ExitFrames)
      /\ toAgent \in Seq(ToAgentFrames) /\ table \in [Ids -> Nat] /\ readers \subseteq Readers
      /\ WireTypeOK /\ unused \subseteq Ids /\ exiting \subseteq Readers
      /\ \A k \in Frames(toHub) : k.type = "SPAWN_OK" => k.id \notin unused
  BY DEF TypeOK, BoundsTypeOK, WireTypeOK, AgentTypeOK, NewIsNew
<1>. DEFINE m == Head(toAgent)
<1>1. ASSUME NEW type, AgentReads(type)
      PROVE  /\ m \in Frames(toAgent) /\ m.type = type /\ m \in ToAgentFrames /\ connected
             /\ Frames(toAgent') \subseteq Frames(toAgent) /\ Once(toAgent')
             /\ Apart({m}, Frames(toAgent'))
  <2>1. toAgent # <<>>
    BY <1>1 DEF AgentReads
  <2>. QED
    BY <1>0, <1>1, <2>1, AgentReadsFrames, AgentReadsType DEF Closed, AskedOnce
<1>2. ASSUME NEW k \in ToHubFrames, Tagged(k) => Apart(Frames(toHub), {k})
      PROVE  Frames(Append(toHub, k)) = Frames(toHub) \cup {k} /\ Once(Append(toHub, k))
  <2>1. Apart(Frames(toHub), {k})
    BY <1>2 DEF Apart
  <2>2. /\ Frames(Append(toHub, k)) = Frames(toHub) \cup {k}
        /\ Once(toHub) /\ Apart(Frames(toHub), {k}) => Once(Append(toHub, k))
    BY <1>0, AppendFrames, ZenonT(30)
  <2>. QED
    BY <2>1, <2>2 DEF AskedOnce
<1>3. CASE AgentSpawn
  <2>1. AgentReads("SPAWN")
    BY <1>3 DEF AgentSpawn
  <2>2. /\ m.id \in Ids \cup {NoId} /\ m.req \in Nat \ {0} /\ Tagged(m)
        /\ \A k \in Frames(toHub) : Tagged(k) => k.req # m.req
    BY <1>1, <2>1, ToAgentFields DEF Tagged, AskedOnce, Apart
  <2>3. PICK id \in (IF m.id = NoId THEN unused ELSE {m.id}) :
          /\ table[id] = 0 /\ unused' = unused \ {id}
          /\ table' = [table EXCEPT ![id] = m.req]
          /\ readers' = readers \cup {[id |-> id, shell |-> m.req]}
          /\ toHub' = Append(toHub, SpawnOk(id, m.req))
    BY <1>3 DEF AgentSpawn
  <2>4. id \in Ids
    BY <1>0, <2>2, <2>3
  <2>. DEFINE k == SpawnOk(id, m.req)
  <2>5. k \in ToHubFrames /\ k.type = "SPAWN_OK" /\ k.req = m.req /\ k.id = id
    BY <2>2, <2>4, FramesType DEF SpawnOk
  <2>. HIDE DEF k
  <2>6. Frames(toHub') = Frames(toHub) \cup {k} /\ Once(toHub')
    <3>1. Apart(Frames(toHub), {k})
      BY <2>2, <2>5 DEF Apart
    <3>2. toHub' = Append(toHub, k)
      BY <2>3 DEF k
    <3>. QED
      BY <1>2, <2>5, <3>1, <3>2
  <2>7. m.req <= requests /\ \A j \in Frames(toAgent') : Tagged(j) => j.req # m.req
    BY <1>1, <2>1, <2>2 DEF Numbered, Apart
  <2>8. HeldIsRead'
    BY <1>0, <2>2, <2>3, <2>4 DEF HeldIsRead
  <2>9. UNCHANGED <<hubVars, requests, connected>>
    BY <1>3 DEF AgentSpawn, bounds
  <2>10. \A i \in Ids : table'[i] = table[i] \/ table'[i] = m.req
    BY <1>0, <2>2, <2>3, <2>4
  <2>. QED
    BY <1>0, <1>1, <2>1, <2>3, <2>5, <2>6, <2>7, <2>8, <2>9, <2>10, AgentKeepsOrderly
<1>4. CASE AgentSpawnFails
  <2>1. AgentReads("SPAWN")
    BY <1>4 DEF AgentSpawnFails
  <2>2. /\ m.req \in Nat \ {0} /\ Tagged(m)
        /\ \A k \in Frames(toHub) : Tagged(k) => k.req # m.req
    BY <1>1, <2>1, ToAgentFields DEF Tagged, AskedOnce, Apart
  <2>. DEFINE k == SpawnErr(m.req)
  <2>5. k \in ToHubFrames /\ k.type = "SPAWN_ERR" /\ k.req = m.req
    BY <2>2, FramesType DEF SpawnErr
  <2>6. toHub' = Append(toHub, k)
    BY <1>4 DEF AgentSpawnFails
  <2>. HIDE DEF k
  <2>7. Frames(toHub') = Frames(toHub) \cup {k} /\ Once(toHub')
    <3>1. Apart(Frames(toHub), {k})
      BY <2>2, <2>5 DEF Apart
    <3>. QED
      BY <1>2, <2>5, <2>6, <3>1
  <2>8. m.req <= requests /\ \A j \in Frames(toAgent') : Tagged(j) => j.req # m.req
    BY <1>1, <2>1, <2>2 DEF Numbered, Apart
  <2>9. UNCHANGED <<hubVars, requests, connected, table, unused, readers>>
    BY <1>4 DEF AgentSpawnFails, agentVars, bounds
  <2>10. HeldIsRead'
    BY <2>9 DEF HeldIsRead
  <2>. QED
    BY <1>0, <1>1, <2>1, <2>5, <2>7, <2>8, <2>9, <2>10, AgentKeepsOrderly
<1>5. CASE AgentDestroy
  <2>1. AgentReads("DESTROY")
    BY <1>5 DEF AgentDestroy
  <2>2. m.id \in Ids
    BY <1>1, <2>1, ToAgentFields
  <2>3. /\ UNCHANGED <<hubVars, requests, connected, unused, readers, toHub>>
        /\ table' = [table EXCEPT ![m.id] = 0]
    BY <1>5 DEF AgentDestroy, bounds
  <2>4. \A id \in Ids : table'[id] \in {0, table[id]}
    BY <1>0, <2>3
  <2>5. HeldIsRead'
    BY <1>0, <2>3, <2>4 DEF HeldIsRead
  <2>. QED
    BY <1>0, <1>1, <2>1, <2>3, <2>4, <2>5, AgentKeepsOrderly DEF AskedOnce
<1>6. CASE AgentAttach
  <2>1. AgentReads("ATTACH")
    BY <1>6 DEF AgentAttach
  <2>2. m.id \in Ids /\ m.at \in Nat \ {0} /\ m.at <= clock
    BY <1>1, <2>1, ToAgentFields DEF Asked
  <2>3. PICK k : /\ toHub' = Append(toHub, k) /\ k \in ToHubFrames /\ ~Tagged(k)
                 /\ k.type \in {"ATTACH_OK", "CHANNEL_NOT_FOUND"} /\ k.at = m.at
    <3>1. /\ AttachOk(m) \in ToHubFrames /\ NotFound(m) \in ToHubFrames
          /\ ~Tagged(AttachOk(m)) /\ ~Tagged(NotFound(m))
          /\ AttachOk(m).type = "ATTACH_OK" /\ AttachOk(m).at = m.at
          /\ NotFound(m).type = "CHANNEL_NOT_FOUND" /\ NotFound(m).at = m.at
      BY <2>2 DEF AttachOk, NotFound, ToHubFrames, Tagged
    <3>. QED
      BY <1>6, <3>1 DEF AgentAttach
  <2>4. Frames(toHub') = Frames(toHub) \cup {k} /\ Once(toHub')
    BY <1>2, <2>3
  <2>5. UNCHANGED <<hubVars, requests, connected, table, unused, readers>>
    BY <1>6 DEF AgentAttach, agentVars, bounds
  <2>6. HeldIsRead'
    BY <2>5 DEF HeldIsRead
  <2>. QED
    BY <1>0, <1>1, <2>1, <2>2, <2>3, <2>4, <2>5, <2>6, AgentKeepsOrderly
<1>7. CASE AgentList
  <2>1. AgentReads("AUTH")
    BY <1>7 DEF AgentList
  <2>. DEFINE k == States({id \in Ids : table[id] # 0})
              q == toHub \o away
  <2>2. k \in ToHubFrames /\ k.type = "CHANNEL_STATES" /\ ~Tagged(k)
    BY FramesType DEF States, Tagged
  <2>3. toHub' = q \o <<k>>
    BY <1>7 DEF AgentList
  <2>4. away \in Seq(ToHubFrames)
    BY <1>0, ExitFramesType
  <2>5. \A j \in Frames(away) : j.type = "CHANNEL_EXIT" /\ ~Tagged(j)
    <3>1. \A j \in ExitFrames : j.type = "CHANNEL_EXIT" /\ ~Tagged(j)
      BY DEF ExitFrames, Tagged
    <3>. QED
      BY <1>0, <3>1 DEF Frames
  <2>6. Once(away) /\ Apart(Frames(toHub), Frames(away))
    BY <2>5 DEF Once, Apart, Frames
  <2>7. q \in Seq(ToHubFrames) /\ Frames(q) = Frames(toHub) \cup Frames(away) /\ Once(q)
    <3>1. q \in Seq(ToHubFrames)
      BY <1>0, <2>4
    <3>2. /\ Frames(q) = Frames(toHub) \cup Frames(away)
          /\ Once(toHub) /\ Once(away) /\ Apart(Frames(toHub), Frames(away)) => Once(q)
      BY <1>0, <2>4, SendFrames
    <3>. QED
      BY <2>6, <3>1, <3>2 DEF AskedOnce
  <2>. HIDE DEF k, q
  <2>8. /\ toHub' = Append(q, k) /\ Apart(Frames(q), {k})
    BY <2>2, <2>3, <2>7 DEF Apart
  <2>9. /\ Frames(Append(q, k)) = Frames(q) \cup {k}
        /\ Once(q) /\ Apart(Frames(q), {k}) => Once(Append(q, k))
    BY <2>2, <2>7, AppendFrames
  <2>10. Frames(toHub') = Frames(q) \cup {k} /\ Once(toHub')
    BY <2>7, <2>8, <2>9, Zenon
  <2>11. \A j \in Frames(toHub') \ Frames(toHub) :
           ~Tagged(j) /\ j.type \in {"CHANNEL_EXIT", "CHANNEL_STATES"}
    BY <2>2, <2>5, <2>7, <2>10
  <2>12. UNCHANGED <<hubVars, requests, connected, table, unused, readers>>
    BY <1>7 DEF AgentList, bounds
  <2>13. HeldIsRead'
    BY <2>12 DEF HeldIsRead
  <2>. QED
    BY <1>0, <1>1, <2>1, <2>10, <2>11, <2>12, <2>13, AgentKeepsOrderly
<1>8. ASSUME NEW r \in readers, ReaderEnds(r)
      PROVE  Orderly'
  <2>1. /\ UNCHANGED <<hubVars, requests, connected, unused, toAgent, toHub>>
        /\ readers' = readers \ {r}
        /\ (table' = table /\ table[r.id] \notin {0, r.shell}) \/ table' = [table EXCEPT ![r.id] = 0]
    BY <1>8 DEF ReaderEnds, wires, bounds
  <2>2. r.id \in Ids
    BY <1>0 DEF Readers
  <2>3. \A id \in Ids : table'[id] \in {0, table[id]}
    BY <1>0, <2>1, <2>2
  <2>4. HeldIsRead'
    BY <1>0, <2>1, <2>2, <2>3 DEF HeldIsRead
  <2>. QED
    BY <1>0, <2>1, <2>3, <2>4, AgentKeepsOrderly DEF AskedOnce
<1>9. ASSUME NEW r \in exiting, RouteExit(r)
      PROVE  Orderly'
  <2>1. UNCHANGED <<hubVars, requests, connected, unused, toAgent, table, readers>>
    BY <1>9 DEF RouteExit, bounds
  <2>2. HeldIsRead'
    BY <2>1 DEF HeldIsRead
  <2>3. CASE toHub' = toHub
    BY <1>0, <2>1, <2>2, <2>3, AgentKeepsOrderly DEF AskedOnce
  <2>4. CASE toHub' # toHub
    <3>. DEFINE k == Exit(r)
    <3>1. toHub' = Append(toHub, k) /\ connected
      BY <1>9, <2>4 DEF RouteExit, Registered
    <3>2. k \in ToHubFrames /\ ~Tagged(k) /\ k.type = "CHANNEL_EXIT"
      BY <1>0, FramesType, ExitFramesType DEF Exit, Tagged
    <3>. HIDE DEF k
    <3>3. Frames(toHub') = Frames(toHub) \cup {k} /\ Once(toHub')
      BY <1>2, <3>1, <3>2
    <3>. QED
      BY <1>0, <2>1, <2>2, <3>1, <3>2, <3>3, AgentKeepsOrderly DEF AskedOnce
  <2>. QED
    BY <2>3, <2>4
<1>10. ASSUME NEW shell \in running, ShellEnds(shell)
       PROVE  Orderly'
  <2>1. UNCHANGED <<hubVars, requests, connected, unused, toAgent, toHub, table, readers>>
    BY <1>10 DEF ShellEnds, wires, bounds
  <2>2. HeldIsRead'
    BY <2>1 DEF HeldIsRead
  <2>. QED
    BY <1>0, <2>1, <2>2, AgentKeepsOrderly DEF AskedOnce
<1>. QED
  BY <1>3, <1>4, <1>5, <1>6, <1>7, <1>8, <1>9, <1>10 DEF AgentSteps

-----------------------------------------------------------------------------
(* Answers, and the shells that run.                                       *)

(* The shell the agent holds under id is one whose start the hub is about  *)
(* to learn of, and to track under id.                                     *)
Coming(id) ==
  \E s \in starts :
    /\ s.req = table[id]
    /\ \/ /\ s \in Waiting /\ SpawnOk(id, s.req) \in Frames(toHub)
          /\ s.id = id \/ (s.id = NoId /\ record[id] = "none")
       \/ s.id = id /\ [start |-> s, id |-> id] \in answered

(* A shell that runs under id was started since `at`, or is coming.        *)
Fresh(id, at) == table[id] \in running \ gaveUp => startedAt[id] > at \/ Coming(id)

(* The answer to the ATTACH under way says that id is gone.                *)
SaidGone(id) ==
  \/ id \in notFound
  \/ \E m \in Frames(toHub) : m.type = "CHANNEL_NOT_FOUND" /\ m.id = id /\ m.at = attachAsked[id]

(* What an answer says is gone is gone, or was started since it was asked. *)
AttachFresh == \A id \in Ids : SaidGone(id) => Fresh(id, attachAsked[id])

(* A list that was read or is under way does not have id.                  *)
LeftOut(id) ==
  \/ \E reported \in listed : id \notin reported
  \/ listAsked # 0 /\ \E m \in Frames(toHub) : m.type = "CHANNEL_STATES" /\ id \notin m.ids

(* So is what a list leaves out.                                           *)
ListFresh == \A id \in Ids : LeftOut(id) => Fresh(id, listAsked)

(* A list that is still to be judged has id.                               *)
ToBeListed(id) ==
  /\ ~judged
  /\ \A reported \in listed : id \in reported
  /\ \A m \in Frames(toHub) : m.type = "CHANNEL_STATES" => id \in m.ids

(* A DESTROY of id is under way.                                           *)
Doomed(id) == \E why \in {"restart", "kill", "orphan"} : Destroy(id, why) \in Frames(toAgent)

(* The hub knows of the shell that runs under id, or will.                 *)
Seen(id) ==
  \/ tracked[id] # "none"
  \/ table[id] \in gaveUp
  \/ Doomed(id)
  \/ ToBeListed(id)
  \/ Coming(id)

(* On a connection, the hub knows of every shell that runs, or will.       *)
AllSeen == connected => \A id \in Ids : table[id] \in running => Seen(id)

(* A connection is opened, lost or given up.                               *)
Connects == (Settled /\ (Connect \/ Drop \/ CloseSession \/ DaemonDies)) \/ HubRestart

(* What the hub does on a connection that leaves starts alone, and what    *)
(* sends them or ends one that was not sent.                               *)
Plain ==
  \/ HubExit \/ HubAttachOk \/ HubNotFound \/ HubStates
  \/ \E id \in notFound : ResumeAttach(id)
  \/ \E reported \in listed : ResumeList(reported)
  \/ Settled /\ \/ \E id \in Ids : RestartClaim(id) \/ ReuseClaim(id) \/ Kill(id)
                                     \/ AskAttach(id) \/ AttachTimeout(id)
                \/ \E s \in starts : StartRefused(s) \/ SendStart(s)
                \/ SendNew \/ ListTimeout

(* What answers a start or gives it up.                                    *)
Answers ==
  \/ HubSpawnOk \/ HubSpawnErr
  \/ \E a \in answered : ResumeStart(a)
  \/ Settled /\ \E s \in starts : StartTimeout(s)

(* Every step but those of the connection.                                 *)
Works == Plain \/ Answers \/ AgentSteps

(* Every step is one of these.                                             *)
LEMMA NextParts == Next => Works \/ Connects
BY Zenon DEF Next, HubSteps, HubTasks, Works, Connects, Plain, Answers

(* A shell that was coming still is, if its start and its answer stay.     *)
LEMMA ComingStays ==
  ASSUME NEW id \in Ids, Coming(id), table'[id] = table[id],
         \A s \in starts : s.req = table[id] => s \in starts',
         \A a \in answered' : a \in answered \/ a.start.req # table[id],
         \A a \in answered : a.start.req = table[id] => a \in answered',
         SpawnOk(id, table[id]) \in Frames(toHub) => SpawnOk(id, table[id]) \in Frames(toHub'),
         record[id] = "none" => record'[id] = "none",
         table[id] # 0
  PROVE  Coming(id)'
<1>1. PICK s \in starts :
        /\ s.req = table[id]
        /\ \/ /\ s \in Waiting /\ SpawnOk(id, s.req) \in Frames(toHub)
              /\ s.id = id \/ (s.id = NoId /\ record[id] = "none")
           \/ s.id = id /\ [start |-> s, id |-> id] \in answered
  BY DEF Coming
<1>2. s \in starts' /\ s.req = table'[id]
  BY <1>1
<1>3. CASE s \in Waiting /\ SpawnOk(id, s.req) \in Frames(toHub)
             /\ (s.id = id \/ (s.id = NoId /\ record[id] = "none"))
  <2>1. s \in Waiting'
    BY <1>1, <1>2, <1>3 DEF Waiting
  <2>2. SpawnOk(id, s.req) \in Frames(toHub') /\ (s.id = id \/ (s.id = NoId /\ record'[id] = "none"))
    BY <1>1, <1>3
  <2>. QED
    BY <1>2, <2>1, <2>2 DEF Coming
<1>4. CASE s.id = id /\ [start |-> s, id |-> id] \in answered
  <2>1. [start |-> s, id |-> id] \in answered'
    BY <1>1, <1>4
  <2>. QED
    BY <1>2, <1>4, <2>1 DEF Coming
<1>. QED
  BY <1>1, <1>3, <1>4

(* Nothing the hub reads but the answer itself takes a SPAWN_OK away.      *)
LEMMA OtherFrameRead ==
  ASSUME WireTypeOK, NEW type, HubReads(type), NEW k \in Frames(toHub), k.type # type
  PROVE  k \in Frames(toHub')
BY HubReadsFrames

(* A plain step forgets only what was known.                               *)
LEMMA PlainSteps ==
  ASSUME Ground, Plain
  PROVE  /\ UNCHANGED <<startedAt, gaveUp, agentVars, connected>>
         /\ \A id \in Ids : record[id] = "none" => record'[id] = "none"
         /\ \A k \in Frames(toHub) : k.type = "SPAWN_OK" => k \in Frames(toHub')
         /\ answered' = answered
         /\ \A s \in starts : s.req # 0 => s \in starts'
<1>. USE DEF Ground
<1>0. HubTypeOK /\ WireTypeOK
  BY DEF TypeOK
<1>1. CASE HubExit \/ HubAttachOk \/ HubNotFound \/ HubStates
  <2>1. /\ UNCHANGED <<startedAt, gaveUp, agentVars, connected, starts, answered>>
        /\ HubReads(Head(toHub).type) /\ Head(toHub).type # "SPAWN_OK"
    BY <1>1 DEF HubExit, HubAttachOk, HubNotFound, HubStates, HubReads, channelVars, startVars, history
  <2>2. \A id \in Ids : record[id] = "none" => record'[id] = "none"
    <3>1. CASE HubExit
      BY <1>0, <3>1 DEF HubExit, RecordAgrees, HubTypeOK
    <3>2. CASE HubAttachOk \/ HubNotFound \/ HubStates
      BY <3>2 DEF HubAttachOk, HubNotFound, HubStates, channelVars
    <3>. QED
      BY <1>1, <3>1, <3>2
  <2>. QED
    BY <1>0, <2>1, <2>2, OtherFrameRead
<1>2. CASE \/ \E id \in notFound : ResumeAttach(id)
           \/ \E reported \in listed : ResumeList(reported)
           \/ \E id \in Ids : Kill(id)
  <2>1. UNCHANGED <<startedAt, gaveUp, agentVars, connected, starts, answered, toHub>>
    BY <1>2 DEF ResumeAttach, ResumeList, Kill, startVars, history, wires
  <2>2. \A id \in Ids : record[id] = "none" => record'[id] = "none"
    BY <1>0, <1>2, ForgetKnown DEF ResumeAttach, ResumeList, Kill, answerStillApplies
  <2>. QED
    BY <2>1, <2>2
<1>3. CASE \E id \in Ids : RestartClaim(id) \/ ReuseClaim(id) \/ AskAttach(id) \/ AttachTimeout(id)
  BY <1>3 DEF RestartClaim, ReuseClaim, Claim, AskAttach, AttachTimeout, channelVars, startVars,
              history, wires
<1>4. CASE (\E s \in starts : StartRefused(s) \/ SendStart(s)) \/ SendNew \/ ListTimeout
  BY <1>4 DEF StartRefused, EndStart, SendStart, SendNew, ListTimeout, channelVars, startVars,
              history, wires
<1>. QED
  BY <1>1, <1>2, <1>3, <1>4 DEF Plain

(* An answer is learnt, and its terminal tracked, or the start gives up.   *)
LEMMA AnswersSteps ==
  ASSUME Ground, Answers, NEW id \in Ids, table[id] # 0, Coming(id)
  PROVE  \/ Coming(id)'
         \/ table[id] \in gaveUp'
         \/ tracked'[id] # "none" /\ startedAt'[id] > clock
<1>. USE DEF Ground, Orderly
<1>0. /\ HubTypeOK /\ WireTypeOK /\ clock \in Nat /\ clock + 1 > clock
      /\ tracked \in [Ids -> {"none", "live", "dead"}] /\ startedAt \in [Ids -> Nat]
      /\ record \in [Ids -> {"none", "live", "dead"}]
  BY DEF TypeOK, HubTypeOK
<1>1. PICK s \in starts :
        /\ s.req = table[id]
        /\ \/ /\ s \in Waiting /\ SpawnOk(id, s.req) \in Frames(toHub)
              /\ s.id = id \/ (s.id = NoId /\ record[id] = "none")
           \/ s.id = id /\ [start |-> s, id |-> id] \in answered
  BY DEF Coming
<1>2. ASSUME NEW shell, Started(id, shell)
      PROVE  tracked'[id] # "none" /\ startedAt'[id] > clock
  BY <1>0, <1>2 DEF Started
<1>3. ASSUME NEW i \in Ids, NEW shell, Started(i, shell), i # id
      PROVE  record'[id] = record[id]
  BY <1>0, <1>3 DEF Started
<1>. DEFINE m == Head(toHub)
            k == SpawnOk(id, s.req)
<1>4. k.type = "SPAWN_OK" /\ k.req = s.req /\ k.id = id
  BY DEF SpawnOk
<1>5. ASSUME NEW t \in Waiting, t.req = s.req
      PROVE  t = s
  BY <1>1, <1>5 DEF Waiting, Numbered
<1>6. ASSUME HubReads(m.type), m.type \in {"SPAWN_OK", "SPAWN_ERR"}, k \in Frames(toHub)
      PROVE  (m.req = s.req => m = k) /\ (m.req # s.req => k \in Frames(toHub'))
  BY <1>0, <1>4, <1>6, HubReadsFrames DEF AskedOnce, Apart, Tagged
<1>7. CASE HubSpawnOk
  <2>1. /\ HubReads(m.type) /\ m.type = "SPAWN_OK"
        /\ UNCHANGED <<starts, table, gaveUp>>
    BY <1>7 DEF HubSpawnOk, HubReads, agentVars
  <2>2. m.id \in Ids /\ m.req \in Nat \ {0}
    BY <1>0, <2>1, HubReadsType, ToHubFields
  <2>3. CASE s.id = id /\ [start |-> s, id |-> id] \in answered
    <3>1. answered \subseteq answered'
      BY <1>7 DEF HubSpawnOk
    <3>. QED
      BY <1>1, <2>1, <2>3, <3>1 DEF Coming
  <2>4. CASE /\ s \in Waiting /\ k \in Frames(toHub)
             /\ s.id = id \/ (s.id = NoId /\ record[id] = "none")
    <3>1. CASE m.req = s.req
      <4>1. m.id = id /\ m.req = s.req
        BY <1>4, <1>6, <2>1, <2>4, <3>1
      <4>2. CASE \E t \in Waiting : t.req = m.req /\ t.via = "spawn" /\ Started(m.id, m.req)
        BY <1>2, <4>1, <4>2
      <4>3. CASE \E t \in Waiting : /\ t.req = m.req /\ t.via = "restart"
                                    /\ answered' = answered \cup {[start |-> t, id |-> m.id]}
        <5>1. s.via = "restart" /\ [start |-> s, id |-> id] \in answered'
          BY <1>5, <3>1, <4>1, <4>3
        <5>2. s.id = id
          BY <2>4, <5>1, WaitingFields, NoIdAssumption
        <5>. QED
          BY <1>1, <2>1, <5>1, <5>2 DEF Coming
      <4>. QED
        BY <1>7, <2>4, <3>1, <4>2, <4>3 DEF HubSpawnOk
    <3>2. CASE m.req # s.req
      <4>1. k \in Frames(toHub')
        BY <1>6, <2>1, <2>4, <3>2
      <4>2. s \in Waiting'
        <5>1. \A a \in answered' : a \in answered \/ a.start.req = m.req
          BY <1>7 DEF HubSpawnOk
        <5>. QED
          BY <2>1, <2>4, <3>2, <5>1 DEF Waiting
      <4>3. CASE \E j : Started(id, j)
        BY <1>2, <4>3
      <4>4. CASE ~\E j : Started(id, j)
        <5>1. record'[id] = record[id]
          BY <1>3, <1>7, <2>2, <4>4 DEF HubSpawnOk, channelVars
        <5>. QED
          BY <1>1, <2>1, <2>4, <4>1, <4>2, <5>1 DEF Coming
      <4>. QED
        BY <4>3, <4>4
    <3>. QED
      BY <3>1, <3>2
  <2>. QED
    BY <1>1, <2>3, <2>4
<1>8. CASE HubSpawnErr
  <2>1. /\ HubReads(m.type) /\ m.type = "SPAWN_ERR"
        /\ UNCHANGED <<starts, table, gaveUp, record>>
        /\ answered \subseteq answered'
        /\ \A a \in answered' : a \in answered \/ a.start.req = m.req
    BY <1>8 DEF HubSpawnErr, HubReads, agentVars, channelVars
  <2>2. CASE s.id = id /\ [start |-> s, id |-> id] \in answered
    BY <1>1, <2>1, <2>2 DEF Coming
  <2>3. CASE /\ s \in Waiting /\ k \in Frames(toHub)
             /\ s.id = id \/ (s.id = NoId /\ record[id] = "none")
    <3>1. m.req # s.req /\ k \in Frames(toHub')
      BY <1>4, <1>6, <2>1, <2>3
    <3>2. s \in Waiting'
      BY <2>1, <2>3, <3>1 DEF Waiting
    <3>. QED
      BY <1>1, <2>1, <2>3, <3>1, <3>2 DEF Coming
  <2>. QED
    BY <1>1, <2>2, <2>3
<1>9. ASSUME NEW a \in answered, ResumeStart(a)
      PROVE  Coming(id)' \/ (tracked'[id] # "none" /\ startedAt'[id] > clock)
  <2>1. /\ UNCHANGED <<table, gaveUp, toHub>> /\ starts' = starts \ {a.start}
        /\ answered' = answered \ {a} /\ a.id \in Ids \cup {NoId}
    BY <1>0, <1>9 DEF ResumeStart, EndStart, agentVars, wires, HubTypeOK
  <2>2. CASE a.start = s
    <3>1. a.id = id
      BY <1>1, <2>2 DEF Waiting, AnsweredOnce
    <3>2. Started(id, a.start.req)
      BY <1>9, <3>1, NoIdAssumption DEF ResumeStart
    <3>. QED
      BY <1>2, <3>2
  <2>3. CASE a.start # s
    <3>1. CASE \E j : Started(id, j)
      BY <1>2, <3>1
    <3>2. CASE ~\E j : Started(id, j)
      <4>1. record'[id] = record[id]
        BY <1>3, <1>9, <2>1, <3>2, NoIdAssumption DEF ResumeStart, channelVars
      <4>2. s \in starts' /\ (s \in Waiting => s \in Waiting')
        BY <2>1, <2>3 DEF Waiting
      <4>3. [start |-> s, id |-> id] \in answered => [start |-> s, id |-> id] \in answered'
        BY <2>1, <2>3
      <4>. QED
        BY <1>1, <2>1, <4>1, <4>2, <4>3 DEF Coming
    <3>. QED
      BY <3>1, <3>2
  <2>. QED
    BY <2>2, <2>3
<1>10. ASSUME Settled, NEW t \in starts, StartTimeout(t)
       PROVE  Coming(id)' \/ table[id] \in gaveUp'
  <2>1. /\ UNCHANGED <<table, toHub, record, answered>> /\ starts' = starts \ {t}
        /\ gaveUp' = gaveUp \cup {t.req}
    BY <1>10 DEF StartTimeout, EndStart, agentVars, wires, channelVars
  <2>2. CASE t = s
    BY <1>1, <2>1, <2>2
  <2>3. CASE t # s
    <3>1. s \in starts' /\ (s \in Waiting => s \in Waiting')
      BY <2>1, <2>3 DEF Waiting
    <3>. QED
      BY <1>1, <2>1, <3>1 DEF Coming
  <2>. QED
    BY <2>2, <2>3
<1>. QED
  BY <1>7, <1>8, <1>9, <1>10 DEF Answers

(* What the agent says is true when it says it, and a shell it starts is   *)
(* one the hub waits for.                                                  *)
LEMMA AgentSends ==
  ASSUME Ground, AgentSteps
  PROVE  /\ UNCHANGED <<hubVars, connected>>
         /\ Frames(toHub) \subseteq Frames(toHub')
         /\ \A k \in Frames(toHub') \ Frames(toHub) :
              /\ k.type = "CHANNEL_NOT_FOUND" => table'[k.id] \notin running'
              /\ k.type = "CHANNEL_STATES" => \A id \in Ids : table'[id] # 0 => id \in k.ids
         /\ \A k \in Frames(toAgent) : k.type = "DESTROY" => k \in Frames(toAgent') \/ table'[k.id] = 0
         /\ \A id \in Ids : table'[id] \in running' =>
              \/ table'[id] = table[id] /\ table[id] \in running
              \/ table'[id] \in gaveUp
              \/ Coming(id)'
<1>. USE DEF Ground, Orderly
<1>0. /\ requests \in Nat /\ toHub \in Seq(ToHubFrames) /\ away \in Seq(ExitFrames)
      /\ table \in [Ids -> Nat] /\ readers \subseteq Readers /\ running \subseteq Nat \ {0}
      /\ WireTypeOK /\ unused \subseteq Ids /\ exiting \subseteq Readers
  BY DEF TypeOK, BoundsTypeOK, WireTypeOK, AgentTypeOK
<1>. DEFINE m == Head(toAgent)
<1>1. ASSUME NEW type, AgentReads(type)
      PROVE  /\ m \in Frames(toAgent) /\ m.type = type /\ m \in ToAgentFrames
             /\ \A k \in Frames(toAgent) : k \in Frames(toAgent') \/ k = m
  BY <1>0, <1>1, AgentReadsFrames, AgentReadsType
<1>2. ASSUME NEW k \in ToHubFrames
      PROVE  Frames(Append(toHub, k)) = Frames(toHub) \cup {k}
  BY <1>0, AppendFrames, ZenonT(30)
<1>3. UNCHANGED <<hubVars, connected>>
  BY DEF AgentSteps, AgentSpawn, AgentSpawnFails, AgentDestroy, AgentAttach, AgentList, ReaderEnds,
         RouteExit, ShellEnds, wires
<1>4. CASE AgentSpawn
  <2>1. AgentReads("SPAWN")
    BY <1>4 DEF AgentSpawn
  <2>2. /\ m.id \in Ids \cup {NoId} /\ m.req \in Nat \ {0} /\ Tagged(m)
        /\ \A k \in Frames(toAgent) : k.type = "DESTROY" => k \in Frames(toAgent')
    BY <1>1, <2>1, ToAgentFields DEF Tagged
  <2>3. PICK id \in (IF m.id = NoId THEN unused ELSE {m.id}) :
          /\ table' = [table EXCEPT ![id] = m.req]
          /\ running' = running \cup {m.req}
          /\ toHub' = Append(toHub, SpawnOk(id, m.req))
    BY <1>4 DEF AgentSpawn
  <2>4. id \in Ids
    BY <1>0, <2>2, <2>3
  <2>. DEFINE k == SpawnOk(id, m.req)
  <2>5. k \in ToHubFrames /\ k.type = "SPAWN_OK"
    BY <2>2, <2>4, FramesType DEF SpawnOk
  <2>6. Frames(toHub') = Frames(toHub) \cup {k}
    <3>. HIDE DEF k
    <3>1. toHub' = Append(toHub, k)
      BY <2>3 DEF k
    <3>. QED
      BY <1>2, <2>5, <3>1
  <2>7. ASSUME NEW i \in Ids, i # id, table'[i] \in running'
        PROVE  table'[i] = table[i] /\ table[i] \in running
    BY <1>0, <1>1, <2>1, <2>2, <2>3, <2>7 DEF AskedOnce
  <2>8. table'[id] \in gaveUp \/ Coming(id)'
    <3>1. table'[id] = m.req
      BY <1>0, <2>3, <2>4
    <3>2. CASE m.req \in gaveUp
      BY <3>1, <3>2
    <3>3. ASSUME NEW s \in Waiting, s.req = m.req, s.id = m.id
          PROVE  Coming(id)'
      <4>1. s \in starts' /\ s \in Waiting' /\ record' = record
        BY <1>3 DEF Waiting, hubVars, startVars, channelVars
      <4>2. s.id = id \/ (s.id = NoId /\ record[id] = "none")
        BY <2>3, <3>3 DEF NewIsNew
      <4>3. SpawnOk(id, s.req) \in Frames(toHub')
        BY <2>6, <3>3
      <4>. QED
        BY <3>1, <3>3, <4>1, <4>2, <4>3 DEF Coming
    <3>. QED
      BY <1>1, <2>1, <3>2, <3>3 DEF SentIsAwaited
  <2>. HIDE DEF k
  <2>. QED
    BY <1>3, <2>2, <2>5, <2>6, <2>7, <2>8
<1>5. CASE AgentSpawnFails
  <2>1. AgentReads("SPAWN") /\ UNCHANGED <<table, running>>
    BY <1>5 DEF AgentSpawnFails, agentVars
  <2>2. /\ m.req \in Nat \ {0}
        /\ \A k \in Frames(toAgent) : k.type = "DESTROY" => k \in Frames(toAgent')
    BY <1>1, <2>1, ToAgentFields
  <2>. DEFINE k == SpawnErr(m.req)
  <2>3. k \in ToHubFrames /\ k.type = "SPAWN_ERR" /\ toHub' = Append(toHub, k)
    BY <1>5, <2>2, FramesType DEF SpawnErr, AgentSpawnFails
  <2>. HIDE DEF k
  <2>4. Frames(toHub') = Frames(toHub) \cup {k}
    BY <1>2, <2>3
  <2>. QED
    BY <1>3, <2>1, <2>2, <2>3, <2>4
<1>6. CASE AgentDestroy
  <2>1. /\ AgentReads("DESTROY") /\ toHub' = toHub
        /\ table' = [table EXCEPT ![m.id] = 0] /\ running' \subseteq running
    BY <1>6 DEF AgentDestroy
  <2>2. m.id \in Ids /\ \A k \in Frames(toAgent) : k \in Frames(toAgent') \/ k = m
    BY <1>1, <2>1, ToAgentFields
  <2>3. table'[m.id] = 0 /\ \A id \in Ids : table'[id] \in {0, table[id]}
    BY <1>0, <2>1, <2>2
  <2>. QED
    BY <1>0, <1>3, <2>1, <2>2, <2>3
<1>7. CASE AgentAttach
  <2>1. AgentReads("ATTACH") /\ UNCHANGED <<table, running>>
    BY <1>7 DEF AgentAttach, agentVars
  <2>2. /\ m.id \in Ids /\ m.at \in Nat \ {0}
        /\ \A k \in Frames(toAgent) : k.type = "DESTROY" => k \in Frames(toAgent')
    BY <1>1, <2>1, ToAgentFields
  <2>3. PICK k : /\ toHub' = Append(toHub, k) /\ k \in ToHubFrames
                 /\ k.type \in {"ATTACH_OK", "CHANNEL_NOT_FOUND"}
                 /\ k.type = "CHANNEL_NOT_FOUND" => table[k.id] \notin running
    <3>1. /\ AttachOk(m) \in ToHubFrames /\ NotFound(m) \in ToHubFrames
          /\ AttachOk(m).type = "ATTACH_OK"
          /\ NotFound(m).type = "CHANNEL_NOT_FOUND" /\ NotFound(m).id = m.id
      BY <2>2 DEF AttachOk, NotFound, ToHubFrames
    <3>. QED
      BY <1>7, <3>1 DEF AgentAttach
  <2>4. Frames(toHub') = Frames(toHub) \cup {k}
    BY <1>2, <2>3
  <2>. QED
    BY <1>3, <2>1, <2>2, <2>3, <2>4
<1>8. CASE AgentList
  <2>1. AgentReads("AUTH") /\ UNCHANGED <<table, running>>
    BY <1>8 DEF AgentList
  <2>2. \A k \in Frames(toAgent) : k.type = "DESTROY" => k \in Frames(toAgent')
    BY <1>1, <2>1
  <2>. DEFINE k == States({id \in Ids : table[id] # 0})
              q == toHub \o away
  <2>3. /\ k \in ToHubFrames /\ k.type = "CHANNEL_STATES" /\ k.ids = {id \in Ids : table[id] # 0}
        /\ toHub' = q \o <<k>>
    BY <1>8, FramesType DEF States, AgentList
  <2>4. away \in Seq(ToHubFrames)
    BY <1>0, ExitFramesType
  <2>5. \A j \in Frames(away) : j.type = "CHANNEL_EXIT"
    <3>1. \A j \in ExitFrames : j.type = "CHANNEL_EXIT"
      BY DEF ExitFrames
    <3>. QED
      BY <1>0, <3>1 DEF Frames
  <2>6. q \in Seq(ToHubFrames) /\ Frames(q) = Frames(toHub) \cup Frames(away)
    BY <1>0, <2>4, SendFrames
  <2>. HIDE DEF k, q
  <2>7. toHub' = Append(q, k)
    BY <2>3, <2>6
  <2>8. Frames(toHub') = Frames(q) \cup {k}
    <3>1. /\ Frames(Append(q, k)) = Frames(q) \cup {k}
          /\ Once(q) /\ Apart(Frames(q), {k}) => Once(Append(q, k))
      BY <2>3, <2>6, AppendFrames
    <3>. QED
      BY <2>7, <3>1, Zenon
  <2>9. \A j \in Frames(toHub') \ Frames(toHub) : j.type = "CHANNEL_EXIT" \/ j = k
    BY <2>5, <2>6, <2>8
  <2>. QED
    BY <1>3, <2>1, <2>2, <2>3, <2>6, <2>8, <2>9
<1>9. ASSUME NEW r \in readers, ReaderEnds(r)
      PROVE  /\ toHub' = toHub /\ toAgent' = toAgent /\ running' = running
             /\ \A id \in Ids : table'[id] \in {0, table[id]}
  BY <1>0, <1>9 DEF ReaderEnds, wires, Readers
<1>10. ASSUME NEW r \in exiting, RouteExit(r)
       PROVE  /\ toAgent' = toAgent /\ running' = running /\ table' = table
              /\ Frames(toHub) \subseteq Frames(toHub')
              /\ \A k \in Frames(toHub') \ Frames(toHub) : k.type = "CHANNEL_EXIT"
  <2>. DEFINE k == Exit(r)
  <2>1. /\ UNCHANGED <<table, running, toAgent>>
        /\ toHub' = toHub \/ toHub' = Append(toHub, k)
    BY <1>10 DEF RouteExit
  <2>2. k \in ToHubFrames /\ k.type = "CHANNEL_EXIT"
    BY <1>0, FramesType, ExitFramesType DEF Exit
  <2>. HIDE DEF k
  <2>. QED
    BY <1>2, <2>1, <2>2
<1>11. ASSUME NEW shell \in running, ShellEnds(shell)
       PROVE  toHub' = toHub /\ toAgent' = toAgent /\ running' \subseteq running /\ table' = table
  BY <1>11 DEF ShellEnds, wires
<1>12. CASE (\E r \in readers : ReaderEnds(r)) \/ (\E r \in exiting : RouteExit(r))
              \/ (\E shell \in running : ShellEnds(shell))
  BY <1>0, <1>3, <1>9, <1>10, <1>11, <1>12
<1>. QED
  BY <1>4, <1>5, <1>6, <1>7, <1>8, <1>12 DEF AgentSteps

(* A shell that runs after a step, and whose start did not time out, is    *)
(* coming, was tracked by the step, or ran before it and was not coming.   *)
LEMMA Carried ==
  ASSUME Ground, Works, NEW id \in Ids, table'[id] \in running', table'[id] \notin gaveUp'
  PROVE  \/ Coming(id)'
         \/ tracked'[id] # "none" /\ startedAt'[id] > clock
         \/ /\ table'[id] = table[id] /\ table[id] \in running /\ table[id] \notin gaveUp
            /\ ~Coming(id)
            /\ startedAt'[id] = startedAt[id] \/ (startedAt'[id] > clock /\ tracked'[id] # "none")
<1>. USE DEF Ground
<1>0. running \subseteq Nat \ {0} /\ HubTypeOK /\ clock \in Nat
  BY DEF TypeOK, HubTypeOK, AgentTypeOK
<1>1. CASE Plain
  <2>1. /\ UNCHANGED <<startedAt, gaveUp, table, running>>
    BY <1>1, PlainSteps DEF agentVars
  <2>2. ASSUME Coming(id) PROVE Coming(id)'
    <3>1. table[id] # 0
      BY <1>0, <2>1
    <3>2. SpawnOk(id, table[id]) \in Frames(toHub) => SpawnOk(id, table[id]) \in Frames(toHub')
      BY <1>1, PlainSteps DEF SpawnOk
    <3>. QED
      BY <1>1, <2>1, <2>2, <3>1, <3>2, PlainSteps, ComingStays
  <2>. QED
    BY <2>1, <2>2
<1>2. CASE Answers
  <2>1. UNCHANGED <<table, running>> /\ gaveUp \subseteq gaveUp'
    BY <1>2 DEF Answers, HubSpawnOk, HubSpawnErr, ResumeStart, StartTimeout, agentVars
  <2>2. startedAt'[id] = startedAt[id] \/ (startedAt'[id] > clock /\ tracked'[id] # "none")
    <3>1. ASSUME NEW i \in Ids, NEW shell, Started(i, shell)
          PROVE  startedAt'[id] = startedAt[id] \/ (startedAt'[id] > clock /\ tracked'[id] # "none")
      BY <1>0, <3>1 DEF Started, HubTypeOK
    <3>2. HubSpawnOk => Head(toHub).id \in Ids
      BY HubReadsType, ToHubFields DEF HubSpawnOk, TypeOK
    <3>3. \A a \in answered : a.id \in Ids \cup {NoId}
      BY <1>0 DEF HubTypeOK
    <3>. QED
      BY <1>2, <3>1, <3>2, <3>3
         DEF Answers, HubSpawnOk, HubSpawnErr, ResumeStart, StartTimeout, channelVars
  <2>3. CASE Coming(id)
    BY <1>0, <1>2, <2>1, <2>3, AnswersSteps
  <2>. QED
    BY <2>1, <2>2, <2>3
<1>3. CASE AgentSteps
  <2>1. /\ UNCHANGED <<tracked, startedAt, record, gaveUp, starts, answered>>
    BY <1>3, AgentSends DEF hubVars, channelVars, startVars, history
  <2>2. ASSUME Coming(id), table'[id] = table[id], table[id] \in running PROVE Coming(id)'
    <3>1. table[id] # 0
      BY <1>0, <2>2
    <3>. QED
      BY <1>3, <2>1, <2>2, <3>1, AgentSends, ComingStays
  <2>. QED
    BY <1>3, <2>1, <2>2, AgentSends
<1>. QED
  BY <1>1, <1>2, <1>3 DEF Works

(* These steps keep the types.                                             *)
LEMMA WorksType ==
  ASSUME TypeOK, Works
  PROVE  TypeOK'
<1>1. Works => HubSteps \/ HubTasks \/ AgentSteps
  BY Zenon DEF HubSteps, HubTasks, Works, Plain, Answers
<1>. QED
  BY <1>1, HubStepsType, HubTasksType, AgentStepsType

(* A shell that was fresh stays fresh.                                     *)
LEMMA FreshStays ==
  ASSUME Ground, Works, NEW id \in Ids, NEW at \in Nat, at <= clock, Fresh(id, at)
  PROVE  Fresh(id, at)'
<1>. SUFFICES ASSUME table'[id] \in running', table'[id] \notin gaveUp'
              PROVE  startedAt'[id] > at \/ Coming(id)'
  BY DEF Fresh
<1>1. clock \in Nat /\ startedAt[id] \in Nat
  BY DEF Ground, TypeOK, HubTypeOK
<1>2. startedAt'[id] > clock => startedAt'[id] > at
  <2>1. startedAt'[id] \in Nat
    <3>1. startedAt' \in [Ids -> Nat]
      BY WorksType DEF Ground, TypeOK, HubTypeOK
    <3>. QED
      BY <3>1
  <2>. QED
    BY <1>1, <2>1
<1>. QED
  BY <1>1, <1>2, Carried DEF Fresh

(* The hub only reads what is under way to it.                             *)
LEMMA HubOnlyReads ==
  ASSUME WireTypeOK, Plain \/ Answers
  PROVE  Frames(toHub') \subseteq Frames(toHub) /\ connected' = connected
<1>1. CASE \E type : HubReads(type) /\ connected' = connected
  BY <1>1, HubReadsFrames
<1>2. CASE UNCHANGED <<toHub, connected>>
  BY <1>2
<1>3. \/ \E type : HubReads(type) /\ connected' = connected
      \/ UNCHANGED <<toHub, connected>>
  <2>1. HubExit \/ HubAttachOk \/ HubNotFound \/ HubStates \/ HubSpawnOk \/ HubSpawnErr
          => \E type : HubReads(type) /\ connected' = connected
    BY Zenon DEF HubExit, HubAttachOk, HubNotFound, HubStates, HubSpawnOk, HubSpawnErr
  <2>2. CASE \/ \E id \in notFound : ResumeAttach(id)
             \/ \E reported \in listed : ResumeList(reported)
             \/ \E a \in answered : ResumeStart(a)
    BY <2>2 DEF ResumeAttach, ResumeList, ResumeStart, wires
  <2>3. CASE \E id \in Ids : RestartClaim(id) \/ ReuseClaim(id) \/ Kill(id)
                               \/ AskAttach(id) \/ AttachTimeout(id)
    BY <2>3 DEF RestartClaim, ReuseClaim, Claim, Kill, AskAttach, AttachTimeout, wires
  <2>4. CASE (\E s \in starts : StartRefused(s) \/ SendStart(s) \/ StartTimeout(s))
               \/ SendNew \/ ListTimeout
    BY <2>4 DEF StartRefused, SendStart, StartTimeout, SendNew, ListTimeout, wires
  <2>. QED
    BY <2>1, <2>2, <2>3, <2>4 DEF Plain, Answers
<1>. QED
  BY <1>1, <1>2, <1>3

(* What is said gone after a step was so before, or has just been found.   *)
LEMMA SaidGoneStep ==
  ASSUME Ground, Works, NEW id \in Ids, SaidGone(id)'
  PROVE  \/ SaidGone(id) /\ attachAsked'[id] <= attachAsked[id]
         \/ table'[id] \notin running'
<1>. USE DEF Ground, Orderly
<1>0. /\ WireTypeOK /\ clock \in Nat /\ attachAsked \in [Ids -> Nat]
      /\ \A k \in Frames(toHub) : k.type = "CHANNEL_NOT_FOUND" => k.id \in Ids /\ k.at \in Nat \ {0}
                                                                  /\ k.at <= clock
  <2>1. \A k \in Frames(toHub) : k \in ToHubFrames
    BY DEF TypeOK, WireTypeOK, Frames
  <2>. QED
    BY <2>1, ToHubFields DEF TypeOK, HubTypeOK, Asked
<1>1. ASSUME UNCHANGED <<attachAsked, notFound>>, Frames(toHub') \subseteq Frames(toHub)
      PROVE  SaidGone(id) /\ attachAsked'[id] <= attachAsked[id]
  BY <1>0, <1>1 DEF SaidGone
<1>2. CASE HubAttachOk
  <2>. DEFINE m == Head(toHub)
  <2>1. /\ notFound' = notFound
        /\ attachAsked' = [attachAsked EXCEPT ![m.id] = IF @ = m.at THEN 0 ELSE @]
    BY <1>2 DEF HubAttachOk
  <2>2. attachAsked'[id] \in {0, attachAsked[id]}
    BY <1>0, <2>1
  <2>3. Frames(toHub') \subseteq Frames(toHub)
    BY <1>0, <1>2, HubOnlyReads DEF Plain
  <2>. QED
    BY <1>0, <2>1, <2>2, <2>3 DEF SaidGone
<1>3. CASE HubNotFound
  <2>. DEFINE m == Head(toHub)
  <2>1. /\ UNCHANGED attachAsked /\ m \in Frames(toHub) /\ m.type = "CHANNEL_NOT_FOUND"
        /\ Frames(toHub') \subseteq Frames(toHub)
        /\ notFound' = IF attachAsked[m.id] = m.at THEN notFound \cup {m.id} ELSE notFound
    BY <1>0, <1>3, HubReadsFrames DEF HubNotFound
  <2>. QED
    BY <1>0, <2>1 DEF SaidGone
<1>4. ASSUME NEW i \in notFound, ResumeAttach(i)
      PROVE  SaidGone(id) /\ attachAsked'[id] <= attachAsked[id]
  <2>1. /\ notFound' = notFound \ {i} /\ attachAsked' = [attachAsked EXCEPT ![i] = 0]
        /\ toHub' = toHub
    BY <1>4 DEF ResumeAttach, wires
  <2>. QED
    BY <1>0, <2>1 DEF SaidGone
<1>5. ASSUME Settled, NEW i \in Ids, AskAttach(i) \/ AttachTimeout(i)
      PROVE  SaidGone(id) /\ attachAsked'[id] <= attachAsked[id]
  <2>1. /\ notFound = {} /\ notFound' = {} /\ toHub' = toHub
        /\ \/ attachAsked' = [attachAsked EXCEPT ![i] = 0]
           \/ attachAsked' = [attachAsked EXCEPT ![i] = clock + 1]
    BY <1>5 DEF AskAttach, AttachTimeout, Settled, wires
  <2>2. id # i
    BY <1>0, <2>1 DEF SaidGone
  <2>3. attachAsked'[id] = attachAsked[id]
    BY <1>0, <2>1, <2>2
  <2>. QED
    BY <1>0, <2>1, <2>3 DEF SaidGone
<1>6. CASE AgentSteps
  <2>1. UNCHANGED <<attachAsked, notFound>>
    BY <1>6, AgentSends DEF hubVars, askVars
  <2>2. CASE SaidGone(id)
    BY <1>0, <2>1, <2>2
  <2>3. CASE ~SaidGone(id)
    <3>1. PICK k \in Frames(toHub') \ Frames(toHub) : k.type = "CHANNEL_NOT_FOUND" /\ k.id = id
      BY <2>1, <2>3 DEF SaidGone
    <3>. QED
      BY <1>6, <3>1, AgentSends
  <2>. QED
    BY <2>2, <2>3
<1>7. CASE \/ HubExit \/ HubStates \/ \E reported \in listed : ResumeList(reported)
           \/ \E i \in Ids : RestartClaim(i) \/ ReuseClaim(i) \/ Kill(i)
           \/ \E s \in starts : StartRefused(s) \/ SendStart(s)
           \/ SendNew \/ ListTimeout \/ Answers
  <2>1. UNCHANGED <<attachAsked, notFound>>
    BY <1>7 DEF HubExit, HubStates, ResumeList, RestartClaim, ReuseClaim, Claim, Kill, StartRefused,
         SendStart, SendNew, ListTimeout, Answers, HubSpawnOk, HubSpawnErr, ResumeStart, StartTimeout,
         askVars
  <2>2. CASE Plain \/ Answers
    BY <1>0, <1>1, <2>1, <2>2, HubOnlyReads
  <2>. QED
    BY <1>6, <2>2 DEF Works
<1>. QED
  BY <1>2, <1>3, <1>4, <1>5, <1>6, <1>7 DEF Works, Plain

(* What a list leaves out after a step was so before, or is not there.     *)
LEMMA LeftOutStep ==
  ASSUME Ground, Works, NEW id \in Ids, LeftOut(id)'
  PROVE  \/ LeftOut(id) /\ listAsked' = listAsked
         \/ table'[id] \notin running'
<1>. USE DEF Ground, Orderly
<1>0. WireTypeOK
  BY DEF TypeOK
<1>1. CASE HubStates
  <2>. DEFINE m == Head(toHub)
  <2>1. /\ listAsked' = listAsked /\ m \in Frames(toHub) /\ m.type = "CHANNEL_STATES"
        /\ Frames(toHub') \subseteq Frames(toHub)
        /\ listed' = IF listAsked = 0 THEN listed ELSE {m.ids}
    BY <1>0, <1>1, HubReadsFrames DEF HubStates
  <2>. QED
    BY <2>1 DEF LeftOut
<1>2. CASE \E reported \in listed : ResumeList(reported)
  BY <1>2 DEF ResumeList, LeftOut
<1>3. CASE Settled /\ ListTimeout
  BY <1>3 DEF ListTimeout, LeftOut, Settled
<1>4. CASE AgentSteps
  <2>1. UNCHANGED <<listAsked, listed>>
    BY <1>4, AgentSends DEF hubVars, askVars
  <2>2. CASE LeftOut(id)
    BY <2>1, <2>2
  <2>3. CASE ~LeftOut(id)
    <3>1. PICK k \in Frames(toHub') \ Frames(toHub) : k.type = "CHANNEL_STATES" /\ id \notin k.ids
      BY <2>1, <2>3 DEF LeftOut
    <3>2. table'[id] = 0
      BY <1>4, <3>1, AgentSends
    <3>3. running' \subseteq Nat \ {0}
      BY WorksType DEF TypeOK, AgentTypeOK
    <3>. QED
      BY <3>2, <3>3
  <2>. QED
    BY <2>2, <2>3
<1>5. CASE \/ HubExit \/ HubAttachOk \/ HubNotFound \/ \E i \in notFound : ResumeAttach(i)
           \/ \E i \in Ids : RestartClaim(i) \/ ReuseClaim(i) \/ Kill(i) \/ AskAttach(i)
                               \/ AttachTimeout(i)
           \/ \E s \in starts : StartRefused(s) \/ SendStart(s)
           \/ SendNew \/ Answers
  <2>1. UNCHANGED <<listAsked, listed>>
    BY <1>5 DEF HubExit, HubAttachOk, HubNotFound, ResumeAttach, RestartClaim, ReuseClaim, Claim, Kill,
         AskAttach, AttachTimeout, StartRefused, SendStart, SendNew, Answers, HubSpawnOk, HubSpawnErr,
         ResumeStart, StartTimeout, askVars
  <2>2. CASE Plain \/ Answers
    BY <1>0, <2>1, <2>2, HubOnlyReads DEF LeftOut
  <2>. QED
    BY <1>4, <2>2 DEF Works
<1>. QED
  BY <1>1, <1>2, <1>3, <1>4, <1>5 DEF Works, Plain

(* Answers stay true of what runs.                                         *)
LEMMA AnswersStayTrue ==
  ASSUME Ground, AttachFresh, ListFresh, Works
  PROVE  AttachFresh' /\ ListFresh'
<1>. USE DEF Ground, Orderly
<1>0. /\ clock \in Nat /\ attachAsked \in [Ids -> Nat] /\ attachAsked' \in [Ids -> Nat]
      /\ startedAt' \in [Ids -> Nat] /\ listAsked \in Nat /\ listAsked <= clock
      /\ \A id \in Ids : attachAsked[id] <= clock
  BY WorksType DEF TypeOK, HubTypeOK, Asked
<1>1. ASSUME NEW id \in Ids, SaidGone(id)' PROVE Fresh(id, attachAsked[id])'
  <2>1. CASE table'[id] \notin running'
    BY <2>1 DEF Fresh
  <2>2. CASE SaidGone(id) /\ attachAsked'[id] <= attachAsked[id]
    <3>. DEFINE at == attachAsked[id]
    <3>1. at \in Nat /\ at <= clock /\ Fresh(id, at)
      BY <1>0, <2>2 DEF AttachFresh
    <3>. HIDE DEF at
    <3>2. table'[id] \in running' \ gaveUp' => startedAt'[id] > at \/ Coming(id)'
      BY <3>1, FreshStays DEF Fresh
    <3>3. startedAt'[id] > at => startedAt'[id] > attachAsked'[id]
      BY <1>0, <2>2 DEF at
    <3>. QED
      BY <3>2, <3>3 DEF Fresh
  <2>. QED
    BY <1>1, <2>1, <2>2, SaidGoneStep
<1>2. ASSUME NEW id \in Ids, LeftOut(id)' PROVE Fresh(id, listAsked)'
  <2>1. CASE table'[id] \notin running'
    BY <2>1 DEF Fresh
  <2>2. CASE LeftOut(id) /\ listAsked' = listAsked
    <3>. DEFINE at == listAsked
    <3>1. at \in Nat /\ at <= clock /\ Fresh(id, at)
      BY <1>0, <2>2 DEF ListFresh
    <3>. HIDE DEF at
    <3>2. table'[id] \in running' \ gaveUp' => startedAt'[id] > at \/ Coming(id)'
      BY <3>1, FreshStays DEF Fresh
    <3>3. at = listAsked'
      BY <2>2 DEF at
    <3>. QED
      BY <3>2, <3>3 DEF Fresh
  <2>. QED
    BY <1>2, <2>1, <2>2, LeftOutStep
<1>. QED
  BY <1>1, <1>2 DEF AttachFresh, ListFresh

(* What a judgement forgets is not there, or is coming.                    *)
LEMMA ForgottenIsGone ==
  ASSUME Ground, AttachFresh, ListFresh, NEW id \in Ids,
         \/ \E i \in notFound : ResumeAttach(i)
         \/ \E reported \in listed : ResumeList(reported),
         tracked[id] # "none", tracked'[id] = "none"
  PROVE  table[id] \notin running \ gaveUp
<1>. USE DEF Ground
<1>0. startedAt[id] \in Nat /\ listAsked \in Nat /\ attachAsked[id] \in Nat
      /\ tracked \in [Ids -> {"none", "live", "dead"}]
  BY DEF TypeOK, HubTypeOK
<1>1. \E at \in Nat : answerStillApplies(id, at) /\ Fresh(id, at)
  <2>1. ASSUME NEW i \in notFound, ResumeAttach(i)
        PROVE  answerStillApplies(id, attachAsked[id]) /\ Fresh(id, attachAsked[id])
    <3>1. i = id /\ answerStillApplies(id, attachAsked[id])
      BY <1>0, <2>1 DEF ResumeAttach, Forget
    <3>. QED
      BY <2>1, <3>1 DEF AttachFresh, SaidGone
  <2>2. ASSUME NEW reported \in listed, ResumeList(reported)
        PROVE  answerStillApplies(id, listAsked) /\ Fresh(id, listAsked)
    <3>1. id \notin reported /\ answerStillApplies(id, listAsked)
      BY <1>0, <2>2 DEF ResumeList, Forget
    <3>. QED
      BY <2>2, <3>1 DEF ListFresh, LeftOut
  <2>. QED
    BY <1>0, <2>1, <2>2
<1>2. id \notin starting /\ (table[id] \in running \ gaveUp => Coming(id))
  BY <1>0, <1>1 DEF answerStillApplies, Fresh
<1>3. ~Coming(id)
  BY <1>2, NoIdAssumption DEF Coming, OneStartAtATime, RecordAgrees
<1>. QED
  BY <1>2, <1>3

(* The hub goes on knowing of what runs.                                   *)
LEMMA SeenStays ==
  ASSUME Ground, AttachFresh, ListFresh, AllSeen, Works, connected', NEW id \in Ids,
         table'[id] \in running'
  PROVE  Seen(id)'
<1>. USE DEF Ground, Orderly
<1>. SUFFICES ASSUME ~Seen(id)' PROVE FALSE
  OBVIOUS
<1>0. /\ HubTypeOK /\ WireTypeOK /\ running \subseteq Nat \ {0} /\ running' \subseteq Nat \ {0}
      /\ tracked \in [Ids -> {"none", "live", "dead"}]
  BY WorksType DEF TypeOK, HubTypeOK, AgentTypeOK
<1>1. /\ tracked'[id] = "none" /\ table'[id] \notin gaveUp' /\ ~Doomed(id)' /\ ~ToBeListed(id)'
      /\ ~Coming(id)'
  BY DEF Seen
<1>2. /\ table'[id] = table[id] /\ table[id] \in running /\ table[id] \notin gaveUp /\ ~Coming(id)
  BY <1>1, Carried
<1>3. connected' = connected
  BY <1>0, HubOnlyReads, AgentSends DEF Works
<1>4. tracked[id] # "none" \/ Doomed(id) \/ ToBeListed(id)
  BY <1>2, <1>3 DEF AllSeen, Seen
<1>5. CASE AgentSteps
  <2>1. UNCHANGED <<tracked, judged, listed>>
    BY <1>5, AgentSends DEF hubVars, channelVars, askVars, history
  <2>2. CASE Doomed(id)
    <3>1. PICK why \in {"restart", "kill", "orphan"} : Destroy(id, why) \in Frames(toAgent)
      BY <2>2 DEF Doomed
    <3>2. Destroy(id, why).type = "DESTROY" /\ Destroy(id, why).id = id
      BY DEF Destroy
    <3>3. Destroy(id, why) \notin Frames(toAgent') /\ table'[id] # 0
      BY <1>0, <1>1 DEF Doomed
    <3>. QED
      BY <1>5, <3>1, <3>2, <3>3, AgentSends
  <2>3. CASE ToBeListed(id)
    <3>1. \A k \in Frames(toHub') : k.type = "CHANNEL_STATES" => id \in k.ids
      BY <1>0, <1>5, <2>3, AgentSends DEF ToBeListed
    <3>. QED
      BY <1>1, <2>1, <2>3, <3>1 DEF ToBeListed
  <2>. QED
    BY <1>1, <1>4, <2>1, <2>2, <2>3
<1>6. ASSUME Plain \/ Answers PROVE Frames(toAgent) \subseteq Frames(toAgent')
  <2>1. CASE UNCHANGED toAgent
    BY <2>1
  <2>2. ASSUME NEW q \in Seq(ToAgentFrames), toAgent' = toAgent \o q
        PROVE  Frames(toAgent) \subseteq Frames(toAgent')
    BY <1>0, <2>2, SendFrames DEF WireTypeOK
  <2>3. ASSUME NEW m \in ToAgentFrames, toAgent' = Append(toAgent, m)
        PROVE  Frames(toAgent) \subseteq Frames(toAgent')
    <3>1. Frames(Append(toAgent, m)) = Frames(toAgent) \cup {m}
      BY <1>0, AppendFrames, ZenonT(30) DEF WireTypeOK
    <3>. QED
      BY <2>3, <3>1
  <2>4. CASE \E reported \in listed : ResumeList(reported)
    <3>1. PICK reported \in listed : ResumeList(reported)
      BY <2>4
    <3>2. reported \in SUBSET Ids
      BY <1>0 DEF HubTypeOK
    <3>. QED
      BY <2>2, <3>1, <3>2, OrphansType DEF ResumeList
  <2>5. ASSUME NEW i \in Ids, Kill(i) \/ RestartClaim(i)
        PROVE  Frames(toAgent) \subseteq Frames(toAgent')
    BY <2>1, <2>3, <2>5, FramesType DEF Kill, RestartClaim
  <2>6. ASSUME NEW i \in Ids, AskAttach(i) PROVE Frames(toAgent) \subseteq Frames(toAgent')
    <3>1. clock + 1 \in Nat \ {0}
      BY <1>0 DEF HubTypeOK
    <3>. QED
      BY <2>3, <2>6, <3>1, FramesType DEF AskAttach
  <2>7. ASSUME NEW s \in starts, SendStart(s) PROVE Frames(toAgent) \subseteq Frames(toAgent')
    <3>1. s.id \in Ids \cup {NoId} /\ requests + 1 \in Nat \ {0}
      BY WaitingFields DEF TypeOK, BoundsTypeOK
    <3>. QED
      BY <2>3, <2>7, <3>1, FramesType DEF SendStart
  <2>8. ASSUME SendNew PROVE Frames(toAgent) \subseteq Frames(toAgent')
    <3>1. requests + 1 \in Nat \ {0}
      BY DEF TypeOK, BoundsTypeOK
    <3>. QED
      BY <2>3, <2>8, <3>1, FramesType DEF SendNew
  <2>9. CASE \/ HubExit \/ HubAttachOk \/ HubNotFound \/ HubStates
             \/ \E i \in notFound : ResumeAttach(i)
             \/ \E i \in Ids : ReuseClaim(i) \/ AttachTimeout(i)
             \/ \E s \in starts : StartRefused(s)
             \/ ListTimeout \/ Answers
    <3>1. UNCHANGED toAgent
      BY <2>9 DEF HubExit, HubAttachOk, HubNotFound, HubStates, ResumeAttach, ReuseClaim,
           AttachTimeout, StartRefused, ListTimeout, Answers, HubSpawnOk, HubSpawnErr,
           ResumeStart, StartTimeout, wires
    <3>. QED
      BY <2>1, <3>1
  <2>. QED
    BY <1>6, <2>4, <2>5, <2>6, <2>7, <2>8, <2>9 DEF Plain
<1>7. CASE \E reported \in listed : ResumeList(reported)
  <2>1. PICK reported \in listed : ResumeList(reported)
    BY <1>7
  <2>2. ~Doomed(id)
    BY <1>1, <1>6, <1>7 DEF Doomed, Plain
  <2>3. tracked[id] = "none"
    BY <1>1, <1>2, <1>7, ForgottenIsGone
  <2>4. id \in Orphans(reported)
    BY <1>0, <1>4, <2>1, <2>2, <2>3 DEF Orphans, ToBeListed, RecordAgrees, HubTypeOK
  <2>. DEFINE q == SetToSeq({Destroy(i, "orphan") : i \in Orphans(reported)})
  <2>5. reported \in SUBSET Ids
    BY <1>0 DEF HubTypeOK
  <2>6. q \in Seq(ToAgentFrames) /\ Destroy(id, "orphan") \in Frames(q)
    BY <2>4, <2>5, OrphanFrames
  <2>7. toAgent' = toAgent \o q
    BY <2>1 DEF ResumeList
  <2>. HIDE DEF q
  <2>8. Destroy(id, "orphan") \in Frames(toAgent')
    BY <1>0, <2>6, <2>7, SendFrames DEF WireTypeOK
  <2>. QED
    BY <1>1, <2>8 DEF Doomed
<1>8. ASSUME Plain \/ Answers, ~\E reported \in listed : ResumeList(reported)
      PROVE  FALSE
  <2>1. ~Doomed(id)
    BY <1>1, <1>6, <1>8 DEF Doomed
  <2>2. ~ToBeListed(id)
    <3>1. Frames(toHub') \subseteq Frames(toHub)
      BY <1>0, <1>8, HubOnlyReads
    <3>2. judged' = judged
      BY <1>8 DEF Plain, Answers, HubExit, HubAttachOk, HubNotFound, HubStates, ResumeAttach,
           RestartClaim, ReuseClaim, Claim, Kill, AskAttach, AttachTimeout, StartRefused, SendStart,
           SendNew, ListTimeout, HubSpawnOk, HubSpawnErr, ResumeStart, StartTimeout, history
    <3>3. CASE HubStates
      <4>1. /\ Head(toHub) \in Frames(toHub) /\ Head(toHub).type = "CHANNEL_STATES"
            /\ listed' = IF listAsked = 0 THEN listed ELSE {Head(toHub).ids}
        BY <1>0, <3>3, HubReadsFrames DEF HubStates
      <4>. QED
        BY <1>1, <3>1, <3>2, <4>1 DEF ToBeListed
    <3>4. CASE ~HubStates
      <4>1. listed' = listed
        BY <1>8, <3>4 DEF Plain, Answers, HubExit, HubAttachOk, HubNotFound, ResumeAttach,
             RestartClaim, ReuseClaim, Claim, Kill, AskAttach, AttachTimeout, StartRefused, SendStart,
             SendNew, ListTimeout, HubSpawnOk, HubSpawnErr, ResumeStart, StartTimeout, askVars
      <4>. QED
        BY <1>1, <3>1, <3>2, <4>1 DEF ToBeListed
    <3>. QED
      BY <3>3, <3>4
  <2>3. tracked[id] # "none"
    BY <1>4, <2>1, <2>2
  <2>4. CASE \E i \in notFound : ResumeAttach(i)
    BY <1>1, <1>2, <2>3, <2>4, ForgottenIsGone
  <2>5. ASSUME NEW i \in Ids, Kill(i) PROVE FALSE
    <3>1. i = id
      BY <1>0, <1>1, <2>3, <2>5 DEF Kill, Forget
    <3>2. toAgent' = Append(toAgent, Destroy(id, "kill"))
      BY <1>3, <2>5, <3>1 DEF Kill
    <3>. DEFINE d == Destroy(id, "kill")
    <3>3. d \in ToAgentFrames
      BY FramesType
    <3>4. d \in Frames(toAgent')
      <4>. HIDE DEF d
      <4>1. toAgent' = Append(toAgent, d)
        BY <3>2 DEF d
      <4>2. Frames(Append(toAgent, d)) = Frames(toAgent) \cup {d}
        BY <1>0, <3>3, AppendFrames DEF WireTypeOK
      <4>. QED
        BY <4>1, <4>2
    <3>. QED
      BY <1>1, <3>4 DEF Doomed
  <2>6. CASE HubExit
    BY <1>0, <1>1, <2>3, <2>6 DEF HubExit
  <2>7. CASE Answers
    <3>1. ASSUME NEW i \in Ids, NEW shell, Started(i, shell) PROVE tracked'[id] # "none"
      BY <1>0, <2>3, <3>1 DEF Started
    <3>2. HubSpawnOk => Head(toHub).id \in Ids
      BY <1>0, HubReadsType, ToHubFields DEF HubSpawnOk
    <3>3. \A a \in answered : a.id \in Ids \cup {NoId}
      BY <1>0 DEF HubTypeOK
    <3>. QED
      BY <1>1, <2>3, <2>7, <3>1, <3>2, <3>3
         DEF Answers, HubSpawnOk, HubSpawnErr, ResumeStart, StartTimeout, channelVars
  <2>8. CASE \/ HubAttachOk \/ HubNotFound \/ HubStates
             \/ \E i \in Ids : RestartClaim(i) \/ ReuseClaim(i) \/ AskAttach(i) \/ AttachTimeout(i)
             \/ \E s \in starts : StartRefused(s) \/ SendStart(s)
             \/ SendNew \/ ListTimeout
    BY <1>1, <2>3, <2>8 DEF HubAttachOk, HubNotFound, HubStates, RestartClaim, ReuseClaim, Claim,
         AskAttach, AttachTimeout, StartRefused, SendStart, SendNew, ListTimeout, channelVars
  <2>. QED
    BY <1>8, <2>4, <2>5, <2>6, <2>7, <2>8 DEF Plain
<1>. QED
  BY <1>5, <1>7, <1>8 DEF Works

(* When a connection is opened or lost, no answer is under way, and a list *)
(* is to come.                                                             *)
LEMMA ConnectsFresh ==
  ASSUME Ground, Connects
  PROVE  AttachFresh' /\ ListFresh' /\ AllSeen'
<1>. USE DEF Ground, Orderly
<1>1. toHub' = <<>> /\ notFound' = {} /\ listed' = {}
  <2>1. CASE Settled /\ (Connect \/ CloseSession)
    <3>1. UNCHANGED <<toHub, notFound, listed>> /\ ~connected
      BY <2>1 DEF Connect, CloseSession, askVars, wires
    <3>. QED
      BY <2>1, <3>1 DEF Settled, Closed
  <2>2. CASE Settled /\ (Drop \/ DaemonDies)
    BY <2>2 DEF Settled, Drop, DaemonDies, Disconnected
  <2>3. CASE HubRestart
    BY <2>3 DEF HubRestart, Disconnected
  <2>. QED
    BY <2>1, <2>2, <2>3 DEF Connects
<1>2. Frames(toHub') = {}
  BY <1>1, NoFrames
<1>3. AttachFresh' /\ ListFresh'
  BY <1>1, <1>2 DEF AttachFresh, ListFresh, SaidGone, LeftOut
<1>4. ~connected' \/ ~judged'
  BY DEF Connects, Connect, Drop, CloseSession, DaemonDies, HubRestart, Disconnected, wires
<1>5. AllSeen'
  BY <1>1, <1>2, <1>4 DEF AllSeen, Seen, ToBeListed
<1>. QED
  BY <1>3, <1>5

(* Every step keeps what is under way in order.                            *)
LEMMA OrderlyStays ==
  ASSUME Ground, Next
  PROVE  Orderly'
<1>1. CASE HubSteps
  BY <1>1, HubReadsOrderly, HubAnswersOrderly, HubTellsOrderly, StartsOrderly DEF HubSteps
<1>2. CASE Settled /\ HubTasks
  BY <1>2, HubTellsOrderly, StartsOrderly, SendsOrderly, ConnectionOrderly DEF HubTasks
<1>. QED
  BY <1>1, <1>2, ConnectionOrderly, AgentOrderly DEF Next

-----------------------------------------------------------------------------
(* Nothing runs unseen, and what is judged is gone.                        *)

(* The inductive invariant.                                                *)
Sighted == Ground /\ AttachFresh /\ ListFresh /\ AllSeen

(* It holds at first, where nothing is under way and nothing runs.         *)
LEMMA InitSighted == Init => Orderly /\ AttachFresh /\ ListFresh /\ AllSeen
<1>. SUFFICES ASSUME Init PROVE Orderly /\ AttachFresh /\ ListFresh /\ AllSeen
  OBVIOUS
<1>. USE DEF Init
<1>1. Frames(toAgent) = {} /\ Frames(toHub) = {} /\ Once(toAgent) /\ Once(toHub)
  BY NoFrames
<1>2. Closed /\ Asked /\ Numbered /\ AskedOnce
  BY <1>1 DEF Closed, Asked, Numbered, AskedOnce, Apart
<1>3. NewIsNew /\ HeldIsRead /\ SentIsAwaited
  BY <1>1 DEF NewIsNew, HeldIsRead, SentIsAwaited
<1>4. AttachFresh /\ ListFresh /\ AllSeen
  BY <1>1 DEF AttachFresh, ListFresh, AllSeen, SaidGone, LeftOut
<1>. QED
  BY <1>2, <1>3, <1>4 DEF Orderly

(* Every step keeps it.                                                    *)
LEMMA SightedStays ==
  ASSUME Sighted, [Next]_vars
  PROVE  Orderly' /\ AttachFresh' /\ ListFresh' /\ AllSeen'
<1>. USE DEF Sighted
<1>1. CASE Next /\ Works
  <2>1. AllSeen'
    BY <1>1, SeenStays DEF AllSeen
  <2>. QED
    BY <1>1, <2>1, OrderlyStays, AnswersStayTrue
<1>2. CASE Next /\ Connects
  BY <1>2, OrderlyStays, ConnectsFresh
<1>3. CASE UNCHANGED vars
  <2>1. UNCHANGED <<tracked, startedAt, record, clock, starting, starts, answered, listAsked, listed,
                    attachAsked, notFound, gaveUp, judged, unused, table, running, readers, connected,
                    toAgent, toHub, requests>>
    BY <1>3 DEF vars, hubVars, channelVars, startVars, askVars, history, agentVars, wires, bounds
  <2>2. Orderly'
    BY <2>1 DEF Ground, Orderly, Closed, Asked, Numbered, AskedOnce, NewIsNew, HeldIsRead,
                SentIsAwaited, Waiting
  <2>3. \A id \in Ids : /\ Coming(id)' = Coming(id)
                        /\ SaidGone(id)' = SaidGone(id) /\ LeftOut(id)' = LeftOut(id)
                        /\ Doomed(id)' = Doomed(id) /\ ToBeListed(id)' = ToBeListed(id)
    BY <2>1 DEF Coming, Waiting, SaidGone, LeftOut, Doomed, ToBeListed
  <2>4. AttachFresh' /\ ListFresh' /\ AllSeen'
    BY <2>1, <2>3 DEF AttachFresh, ListFresh, AllSeen, Fresh, Seen
  <2>. QED
    BY <2>2, <2>4
<1>. QED
  BY <1>1, <1>2, <1>3, NextParts

(* The invariant holds in every behaviour.                                 *)
LEMMA AlwaysSighted == Spec => []Sighted
<1>. DEFINE J == Orderly /\ AttachFresh /\ ListFresh /\ AllSeen
            K == TypeOK /\ (OneStartAtATime /\ AnsweredOnce) /\ RecordAgrees
<1>1. Init => J
  BY InitSighted
<1>2. K /\ J /\ [Next]_vars => J'
  BY SightedStays DEF Sighted, Ground
<1>3. K /\ J => Sighted
  BY DEF Sighted, Ground
<1>4. Spec => []K
  BY TerminalsTypeCorrect, StartsAreApart, RecordIsKept, PTL
<1>. HIDE DEF J, K
<1>. QED
  BY <1>1, <1>2, <1>3, <1>4, PTL DEF Spec

(* Whatever connections dropped, starts timed out and whoever crashed, no  *)
(* shell runs on where nothing can see it: once both ends have done all    *)
(* they had to, each shell the daemon holds is of a terminal the hub       *)
(* tracks, or of a start that timed out (reconcileChannelState,            *)
(* destroyOrphans).  A shell is seen because its terminal is tracked, its  *)
(* start is being learnt of, its DESTROY is under way or a list that has   *)
(* it is still to be judged, and no step ends one of these alone.          *)
THEOREM NothingIsUnseen == Spec => []NothingRunsUnseen
<1>1. Sighted => NothingRunsUnseen
  <2>. SUFFICES ASSUME Sighted, Quiet, NEW id \in Ids, table[id] # 0, tracked[id] = "none"
                PROVE  table[id] \in gaveUp
    BY DEF NothingRunsUnseen
  <2>1. table[id] \in running
    <3>1. [id |-> id, shell |-> table[id]] \in readers
      BY DEF Sighted, Ground, Orderly, HeldIsRead
    <3>. QED
      BY <3>1 DEF Quiet
  <2>2. Frames(toAgent) = {}
    BY NoFrames DEF Quiet
  <2>3. Seen(id)
    BY <2>1 DEF Sighted, AllSeen, Quiet
  <2>. QED
    BY <2>2, <2>3 DEF Seen, Doomed, ToBeListed, Coming, Quiet
<1>. QED
  BY <1>1, AlwaysSighted, PTL

(* An answer about a terminal, however late, ends none that was started    *)
(* since: when a list or the answer to an ATTACH makes the hub forget a    *)
(* terminal, no shell runs under its id, but one whose start timed out     *)
(* (answerStillApplies, #599).                                             *)
THEOREM OnlyGoneIsForgotten == Spec => JudgedIsGone
<1>1. Sighted =>
        ((\E reported \in listed : ResumeList(reported)) \/ (\E id \in notFound : ResumeAttach(id))
           => \A id \in Ids : tracked[id] # "none" /\ tracked'[id] = "none"
                                => table[id] \notin running \ gaveUp)
  BY ForgottenIsGone DEF Sighted
<1>. QED
  BY <1>1, AlwaysSighted, PTL DEF JudgedIsGone
=============================================================================
