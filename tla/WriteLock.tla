----------------------------- MODULE WriteLock -----------------------------
(***************************************************************************)
(* The write lock of a terminal: the hub's WriteLockManager                *)
(* (packages/hub/src/session/write-lock.ts) with the WebSocket layer that  *)
(* drives it (ws/ws-handler.ts, ws/handlers/) and as much of the channel   *)
(* table (session-manager.ts) as decides who hears of a lock.              *)
(*                                                                         *)
(* A client is one authenticated socket; its id is never used again.  A    *)
(* window is what an AUTH names, under its token: a reload is the end of   *)
(* one client and the start of another of the same window.                 *)
(*                                                                         *)
(* Every handler runs to its end before the next one, so one handler is    *)
(* one action.  ATTACH and SPAWN wait for the agent: they are two actions, *)
(* what is done when the frame arrives and what is done when the agent has *)
(* answered, with anything in between.                                     *)
(***************************************************************************)
EXTENDS Naturals

CONSTANTS
  Clients,    \* client ids, one per socket
  Windows,    \* the windows an AUTH can name
  Channels,   \* channel ids (terminals)
  NoClient,   \* no holder
  NoWindow    \* no window: none named, or no reservation

ASSUME NoClientAssumption == NoClient \notin Clients
ASSUME NoWindowAssumption == NoWindow \notin Windows

VARIABLES
  sockets,      \* client -> "away" (before AUTH) | "open" | "gone"
  windows,      \* WriteLockManager.windows: client -> window or NoWindow
  attached,     \* WriteLockManager.attached: channel -> its attached clients
  holders,      \* WriteLockManager.holders: channel -> holder or NoClient
  reservations, \* WriteLockManager.reservations: channel -> window or NoWindow
  timers,       \* channel -> how many grace timers are armed on it
  stopped,      \* WriteLockManager.stopped
  channels,     \* channel table: "none" (not tracked) | "live" | "dead"
  clients,      \* ChannelState.clients: channel -> the clients its frames go to
  asking,       \* channel -> client -> its ATTACH: "no" | "asked" | "stale"
  spawning,     \* the clients whose SPAWN the agent has not answered
  told          \* channel -> client -> what it was last told of the lock

sessionVars == <<channels, clients, asking, spawning>>
lockVars    == <<attached, holders, reservations, timers>>
vars == <<sockets, windows, stopped, sessionVars, lockVars, told>>

-----------------------------------------------------------------------------
(* What a WRITE_LOCK says: the holder, and whether the lock is kept.       *)

View(holder, kept) == [holder |-> holder, kept |-> kept]
Nothing == View(NoClient, FALSE)
Views == [holder : Clients \cup {NoClient}, kept : BOOLEAN]

(* The lock of ch as it stands.                                            *)
LockView(ch) == View(holders[ch], reservations[ch] # NoWindow)

(* The types of the variables.                                             *)
TypeOK ==
  /\ sockets \in [Clients -> {"away", "open", "gone"}]
  /\ windows \in [Clients -> Windows \cup {NoWindow}]
  /\ attached \in [Channels -> SUBSET Clients]
  /\ holders \in [Channels -> Clients \cup {NoClient}]
  /\ reservations \in [Channels -> Windows \cup {NoWindow}]
  /\ timers \in [Channels -> Nat]
  /\ stopped \in BOOLEAN
  /\ channels \in [Channels -> {"none", "live", "dead"}]
  /\ clients \in [Channels -> SUBSET Clients]
  /\ asking \in [Channels -> [Clients -> {"no", "asked", "stale"}]]
  /\ spawning \in SUBSET Clients
  /\ told \in [Channels -> [Clients -> Views]]

Init ==
  /\ sockets = [c \in Clients |-> "away"]
  /\ windows = [c \in Clients |-> NoWindow]
  /\ attached = [ch \in Channels |-> {}]
  /\ holders = [ch \in Channels |-> NoClient]
  /\ reservations = [ch \in Channels |-> NoWindow]
  /\ timers = [ch \in Channels |-> 0]
  /\ stopped = FALSE
  /\ channels = [ch \in Channels |-> "none"]
  /\ clients = [ch \in Channels |-> {}]
  /\ asking = [ch \in Channels |-> [c \in Clients |-> "no"]]
  /\ spawning = {}
  /\ told = [ch \in Channels |-> [c \in Clients |-> Nothing]]

-----------------------------------------------------------------------------
(* Helpers of WriteLockManager.                                            *)

Open(c) == sockets[c] = "open"

isHolder(ch, c) == holders[ch] = c

isWriteLockHolder(ch, c) ==
  /\ reservations[ch] = NoWindow
  /\ holders[ch] \in {NoClient, c}

(* sendToClient and broadcastToChannel: what a set of clients is told of   *)
(* the lock of ch; only an open socket hears it.                           *)
Tell(ch, hearers, view) ==
  told' = [told EXCEPT ![ch] =
             [c \in Clients |-> IF c \in hearers /\ Open(c) THEN view ELSE @[c]]]

(* As if the timer were left armed.                                        *)
EndReservationLeavingTimer(ch) ==
  /\ reservations' = [reservations EXCEPT ![ch] = NoWindow]
  /\ UNCHANGED timers

(* _endReservation: no reservation on ch, and its timer cleared.           *)
EndReservation(ch) ==
  /\ reservations' = [reservations EXCEPT ![ch] = NoWindow]
  /\ timers' = [timers EXCEPT ![ch] =
                  IF reservations[ch] = NoWindow THEN @ ELSE @ - 1]

(* _grantToSoleAttachedClient: the one client of a set, if it has one.     *)
SoleClient(set) ==
  IF \E c \in Clients : set = {c}
  THEN CHOOSE c \in Clients : set = {c}
  ELSE NoClient

-----------------------------------------------------------------------------
(* Sockets.                                                                *)

(* AUTH accepted: identify, when it names a window, and addClient.         *)
Authenticate(c, w) ==
  /\ sockets[c] = "away"
  /\ sockets' = [sockets EXCEPT ![c] = "open"]
  /\ windows' = [windows EXCEPT ![c] = w]
  /\ UNCHANGED <<stopped, sessionVars, lockVars, told>>

(* As if no lock were kept for a window.                                   *)
MustWaitNever(ch, c) == FALSE

(* release() of a socket, run once however it ends: closed by its client,  *)
(* lost, or ended by the hub on a revoked token.  onClientDisconnect frees *)
(* its locks or keeps them for its window (_keepFor), then removeClient    *)
(* takes it out of every channel.  An ATTACH or SPAWN of it stays under    *)
(* way.                                                                    *)
MustWait(ch, c) ==
  /\ holders[ch] = c
  /\ windows[c] # NoWindow
  /\ ~stopped

Returned(ch, c) ==
  {other \in attached[ch] \ {c} : windows[other] = windows[c]}

KeptOnDisconnectThoughReturned(ch, c) == MustWait(ch, c)

KeptOnDisconnect(ch, c) == MustWait(ch, c) /\ Returned(ch, c) = {}

NextHolders(ch, c) ==
  IF holders[ch] # c THEN {holders[ch]}
  ELSE IF KeptOnDisconnect(ch, c) THEN {NoClient}
  ELSE IF MustWait(ch, c) THEN Returned(ch, c)
  ELSE {SoleClient(attached[ch] \ {c})}

Disconnect(c) ==
  /\ Open(c)
  /\ sockets' = [sockets EXCEPT ![c] = "gone"]
  /\ windows' = [windows EXCEPT ![c] = NoWindow]
  /\ \E next \in [Channels -> Clients \cup {NoClient}] :
       /\ \A ch \in Channels : next[ch] \in NextHolders(ch, c)
       /\ holders' = next
       /\ told' = [ch \in Channels |-> [o \in Clients |->
                    IF o = c THEN Nothing
                    ELSE IF holders[ch] = c /\ o \in clients[ch] /\ Open(o)
                    THEN View(next[ch], KeptOnDisconnect(ch, c))
                    ELSE told[ch][o]]]
  /\ attached' = [ch \in Channels |-> attached[ch] \ {c}]
  /\ reservations' = [ch \in Channels |->
       IF KeptOnDisconnect(ch, c) THEN windows[c] ELSE reservations[ch]]
  /\ timers' = [ch \in Channels |->
       IF KeptOnDisconnect(ch, c) THEN timers[ch] + 1 ELSE timers[ch]]
  /\ clients' = [ch \in Channels |-> clients[ch] \ {c}]
  /\ UNCHANGED <<stopped, channels, asking, spawning>>

(* _graceEnded: the timer of a kept lock fires.                            *)
GraceEndedForOne(ch) ==
  /\ timers[ch] > 0
  /\ timers' = [timers EXCEPT ![ch] = @ - 1]
  /\ SoleClient(attached[ch]) # NoClient
  /\ reservations' = [reservations EXCEPT ![ch] = NoWindow]
  /\ holders' = [holders EXCEPT ![ch] = SoleClient(attached[ch])]
  /\ Tell(ch, clients[ch], View(SoleClient(attached[ch]), FALSE))
  /\ UNCHANGED <<sockets, windows, stopped, sessionVars, attached>>

GraceEnded(ch) ==
  LET granted == IF holders[ch] = NoClient
                 THEN SoleClient(attached[ch]) ELSE NoClient
  IN /\ timers[ch] > 0
     /\ timers' = [timers EXCEPT ![ch] = @ - 1]
     /\ reservations' = [reservations EXCEPT ![ch] = NoWindow]
     /\ holders' = [holders EXCEPT ![ch] = IF @ = NoClient THEN granted ELSE @]
     /\ Tell(ch, clients[ch], View(granted, FALSE))
     /\ UNCHANGED <<sockets, windows, stopped, sessionVars, attached>>

(* shutdown: the server's onClose hook.                                    *)
Shutdown ==
  /\ ~stopped
  /\ stopped' = TRUE
  /\ reservations' = [ch \in Channels |-> NoWindow]
  /\ timers' = [ch \in Channels |->
       IF reservations[ch] = NoWindow THEN timers[ch] ELSE timers[ch] - 1]
  /\ holders' = [ch \in Channels |-> NoClient]
  /\ attached' = [ch \in Channels |-> {}]
  /\ windows' = [c \in Clients |-> NoWindow]
  /\ UNCHANGED <<sockets, sessionVars, told>>

-----------------------------------------------------------------------------
(* WriteLockManager.attach, once an ATTACH or a SPAWN is answered.         *)
(* `hearers` are the clients of the channel, who hear a broadcast.         *)

LockAttach(ch, c, hearers) ==
  /\ attached' = [attached EXCEPT ![ch] = @ \cup {c}]
  /\ \/ /\ reservations[ch] # NoWindow
        /\ windows[c] = reservations[ch]
        /\ EndReservation(ch)
        /\ holders' = [holders EXCEPT ![ch] = c]
        /\ Tell(ch, hearers, View(c, FALSE))
     \/ /\ reservations[ch] # NoWindow
        /\ windows[c] # reservations[ch]
        /\ Tell(ch, {c}, View(NoClient, TRUE))
        /\ UNCHANGED <<holders, reservations, timers>>
     \/ /\ reservations[ch] = NoWindow
        /\ holders[ch] = NoClient
        /\ holders' = [holders EXCEPT ![ch] = c]
        /\ Tell(ch, hearers, View(c, FALSE))
        /\ UNCHANGED <<reservations, timers>>
     \/ /\ reservations[ch] = NoWindow
        /\ holders[ch] # NoClient
        /\ Tell(ch, {c}, View(holders[ch], FALSE))
        /\ UNCHANGED <<holders, reservations, timers>>

-----------------------------------------------------------------------------
(* ATTACH and SPAWN.                                                       *)

(* SessionManager.handleAttach up to its first await: the client is one of *)
(* the channel's at once.  A channel that has ended refuses it.            *)
Attach(c, ch) ==
  /\ Open(c)
  /\ channels[ch] = "live"
  /\ clients' = [clients EXCEPT ![ch] = @ \cup {c}]
  /\ asking' = [asking EXCEPT ![ch][c] = "asked"]
  /\ UNCHANGED <<sockets, windows, stopped, channels, spawning, lockVars, told>>

(* It is answered, by the agent, from the spool or by a timeout: the       *)
(* handler attaches the client to the lock.                                *)
AttachAnswered(c, ch) ==
  /\ asking[ch][c] # "no"
  /\ asking' = [asking EXCEPT ![ch][c] = "no"]
  /\ LockAttach(ch, c, clients[ch])
  /\ UNCHANGED <<sockets, windows, stopped, channels, clients, spawning>>

(* The agent has no such terminal, and the channel asked about is still    *)
(* the one tracked: it is retired, and the ATTACH fails.                   *)
AttachNotFound(c, ch) ==
  /\ asking[ch][c] = "asked"
  /\ channels[ch] # "none"
  /\ channels' = [channels EXCEPT ![ch] = "none"]
  /\ clients' = [clients EXCEPT ![ch] = {}]
  /\ asking' = [asking EXCEPT ![ch] = [o \in Clients |->
                  IF o = c \/ @[o] = "no" THEN "no" ELSE "stale"]]
  /\ UNCHANGED <<sockets, windows, stopped, spawning, lockVars, told>>

(* The channel it asked about ended or was replaced meanwhile: the ATTACH  *)
(* starts over on what is tracked now (letGoOfStaleAttach).                *)
AttachStartsOver(c, ch) ==
  /\ \/ asking[ch][c] = "stale"
     \/ asking[ch][c] = "asked" /\ channels[ch] = "dead"
  /\ LET again == Open(c) /\ channels[ch] = "live"
     IN /\ asking' = [asking EXCEPT ![ch][c] = IF again THEN "asked" ELSE "no"]
        /\ clients' = [clients EXCEPT ![ch] =
             IF again THEN @ \cup {c}
             ELSE IF asking[ch][c] = "asked" THEN @ \ {c} ELSE @]
  /\ UNCHANGED <<sockets, windows, stopped, channels, spawning, lockVars, told>>

(* SessionManager.handleSpawn, up to the agent's answer.                   *)
Spawn(c) ==
  /\ Open(c)
  /\ spawning' = spawning \cup {c}
  /\ UNCHANGED <<sockets, windows, stopped, channels, clients, asking,
                 lockVars, told>>

(* SPAWN_OK: a new channel, or one brought back under its id, with the     *)
(* spawner as its only client, attached to the lock.                       *)
SpawnOk(c, ch) ==
  /\ c \in spawning
  /\ channels[ch] # "live"
  /\ spawning' = spawning \ {c}
  /\ channels' = [channels EXCEPT ![ch] = "live"]
  /\ clients' = [clients EXCEPT ![ch] = {c}]
  /\ asking' = [asking EXCEPT ![ch] = [o \in Clients |->
                  IF @[o] = "no" THEN "no" ELSE "stale"]]
  /\ LockAttach(ch, c, {c})
  /\ UNCHANGED <<sockets, windows, stopped>>

(* SPAWN_ERR, a timeout, or a host that could not be reached.              *)
SpawnFails(c) ==
  /\ c \in spawning
  /\ spawning' = spawning \ {c}
  /\ UNCHANGED <<sockets, windows, stopped, channels, clients, asking,
                 lockVars, told>>

(* CHANNEL_EXIT: the terminal ended, and is tracked until it is forgotten. *)
ChannelExit(ch) ==
  /\ channels[ch] = "live"
  /\ channels' = [channels EXCEPT ![ch] = "dead"]
  /\ UNCHANGED <<sockets, windows, stopped, clients, asking, spawning,
                 lockVars, told>>

(* destroyChannel, closeSession, reconcileChannelState: it is forgotten.   *)
(* Nothing tells the write lock.                                           *)
ChannelForgotten(ch) ==
  /\ channels[ch] # "none"
  /\ channels' = [channels EXCEPT ![ch] = "none"]
  /\ clients' = [clients EXCEPT ![ch] = {}]
  /\ asking' = [asking EXCEPT ![ch] = [o \in Clients |->
                  IF @[o] = "no" THEN "no" ELSE "stale"]]
  /\ UNCHANGED <<sockets, windows, stopped, spawning, lockVars, told>>

-----------------------------------------------------------------------------
(* The client's frames about a lock.                                       *)

(* DETACH: WriteLockManager.detach, then the channel lets the client go.   *)
Detach(c, ch) ==
  LET left    == attached[ch] \ {c}
      granted == SoleClient(left)
  IN /\ Open(c)
     /\ attached' = [attached EXCEPT ![ch] = left]
     /\ holders' = [holders EXCEPT ![ch] = IF @ = c THEN granted ELSE @]
     /\ told' = [told EXCEPT ![ch] = [o \in Clients |->
                   IF o = c THEN Nothing
                   ELSE IF holders[ch] = c /\ o \in clients[ch] /\ Open(o)
                   THEN View(granted, FALSE) ELSE @[o]]]
     /\ clients' = [clients EXCEPT ![ch] = @ \ {c}]
     /\ UNCHANGED <<sockets, windows, stopped, channels, asking, spawning,
                    reservations, timers>>

(* WRITE_CLAIM on a lock nobody holds, kept ones included.  On a lock that *)
(* is held it only forwards a WRITE_REQUEST, and changes nothing here.     *)
WriteClaimKeeping(c, ch) ==
  /\ Open(c)
  /\ holders[ch] = NoClient
  /\ holders' = [holders EXCEPT ![ch] = c]
  /\ Tell(ch, clients[ch], View(c, FALSE))
  /\ UNCHANGED <<sockets, windows, stopped, sessionVars, attached,
                 reservations, timers>>

WriteClaim(c, ch) ==
  /\ Open(c)
  /\ holders[ch] = NoClient
  /\ EndReservation(ch)
  /\ holders' = [holders EXCEPT ![ch] = c]
  /\ Tell(ch, clients[ch], View(c, FALSE))
  /\ UNCHANGED <<sockets, windows, stopped, sessionVars, attached>>

(* WRITE_GRANT by the holder, to a client that asked: nothing checks that  *)
(* it is still there.                                                      *)
WriteGrant(c, ch, to) ==
  /\ Open(c)
  /\ isHolder(ch, c)
  /\ sockets[to] # "away"
  /\ holders' = [holders EXCEPT ![ch] = to]
  /\ Tell(ch, clients[ch], View(to, FALSE))
  /\ UNCHANGED <<sockets, windows, stopped, sessionVars, attached,
                 reservations, timers>>

(* WRITE_FORCE, whoever holds the lock.                                    *)
WriteForce(c, ch) ==
  /\ Open(c)
  /\ EndReservation(ch)
  /\ holders' = [holders EXCEPT ![ch] = c]
  /\ Tell(ch, clients[ch], View(c, FALSE))
  /\ UNCHANGED <<sockets, windows, stopped, sessionVars, attached>>

(* WRITE_RELEASE by the holder: the lock is left free.                     *)
WriteReleaseUntold(c, ch) ==
  /\ Open(c)
  /\ isHolder(ch, c)
  /\ holders' = [holders EXCEPT ![ch] = NoClient]
  /\ UNCHANGED <<sockets, windows, stopped, sessionVars, attached,
                 reservations, timers, told>>

WriteRelease(c, ch) ==
  /\ Open(c)
  /\ isHolder(ch, c)
  /\ holders' = [holders EXCEPT ![ch] = NoClient]
  /\ Tell(ch, clients[ch], Nothing)
  /\ UNCHANGED <<sockets, windows, stopped, sessionVars, attached,
                 reservations, timers>>

-----------------------------------------------------------------------------
Next ==
  \/ \E c \in Clients :
       \/ \E w \in Windows \cup {NoWindow} : Authenticate(c, w)
       \/ Disconnect(c)
       \/ Spawn(c)
       \/ SpawnFails(c)
       \/ \E ch \in Channels :
            \/ Attach(c, ch)
            \/ AttachAnswered(c, ch)
            \/ AttachNotFound(c, ch)
            \/ AttachStartsOver(c, ch)
            \/ SpawnOk(c, ch)
            \/ Detach(c, ch)
            \/ WriteClaim(c, ch)
            \/ \E to \in Clients : WriteGrant(c, ch, to)
            \/ WriteForce(c, ch)
            \/ WriteRelease(c, ch)
  \/ \E ch \in Channels :
       \/ ChannelExit(ch)
       \/ ChannelForgotten(ch)
       \/ GraceEnded(ch)
  \/ Shutdown

Spec == Init /\ [][Next]_vars

(* A grace timer fires: setTimeout with WRITE_LOCK_GRACE_MS, as long as    *)
(* the hub runs.                                                           *)
FairSpec == Spec /\ \A ch \in Channels : WF_vars(GraceEnded(ch))

-----------------------------------------------------------------------------
(* Properties.                                                             *)

(* Whoever decides a terminal's size may type into it: a client isHolder   *)
(* accepts is one isWriteLockHolder accepts, whatever locks were kept,     *)
(* claimed, forced and given back before.  A lock held and kept at once    *)
(* would let its holder resize and refuse what it types.                   *)
WriterMayType ==
  \A ch \in Channels, c \in Clients :
    isHolder(ch, c) => isWriteLockHolder(ch, c)

(* A lock is never kept for a window that is there already: no attached    *)
(* client is of the window a reservation waits for, in whichever order the *)
(* old socket's close and the new one's attach were seen (_keepFor).       *)
KeptWindowIsAway ==
  \A ch \in Channels, c \in Clients :
    c \in attached[ch] /\ reservations[ch] # NoWindow
      => windows[c] # reservations[ch]

(* A kept lock has one grace timer, and no other lock has any: a timer     *)
(* left armed by _endReservation would cut a later grace short.            *)
OneTimerPerKeptLock ==
  \A ch \in Channels :
    timers[ch] = IF reservations[ch] = NoWindow THEN 0 ELSE 1

(* A hub that stops keeps no lock for anyone, though sockets close after   *)
(* shutdown and their locks are freed then (WriteLockManager.shutdown).    *)
StoppedKeepsNothing ==
  stopped => \A ch \in Channels : reservations[ch] = NoWindow

(* A client attached to a terminal, and one of those its frames go to, was *)
(* last told what its lock is, unless its ATTACH is still under way or the *)
(* hub is stopping: whatever changed the lock was broadcast, and an attach *)
(* that changed nothing was answered (WriteLockManager.attach).            *)
AttachedKnowTheLock ==
  \A ch \in Channels, c \in Clients :
    /\ c \in attached[ch] \cap clients[ch]
    /\ Open(c)
    /\ asking[ch][c] = "no"
    /\ ~stopped
    => told[ch][c] = LockView(ch)

(* The window a lock belongs to: its holder's, or the one it is kept for.  *)
Owner(ch) ==
  IF reservations[ch] # NoWindow THEN reservations[ch]
  ELSE IF holders[ch] # NoClient THEN windows[holders[ch]]
  ELSE NoWindow

(* Someone gave the lock of ch up, took it, or let its grace pass, or the   *)
(* hub is stopping.                                                        *)
GivesUp(ch) ==
  \/ GraceEnded(ch)
  \/ stopped'
  \/ \E c \in Clients :
       \/ WriteForce(c, ch)
       \/ WriteClaim(c, ch)
       \/ isHolder(ch, c) /\ (Detach(c, ch) \/ WriteRelease(c, ch))
       \/ \E to \in Clients : WriteGrant(c, ch, to)

(* A window does not lose its lock by reloading or losing its socket: it   *)
(* stays the window's until its holder gives it up, another client claims  *)
(* or forces it, the grace passes or the hub stops.  No disconnect, attach *)
(* or spawn of anyone takes it away (#846).                                *)
WindowKeepsItsLock ==
  [][\A ch \in Channels :
       Owner(ch) # NoWindow /\ Owner(ch)' # Owner(ch) => GivesUp(ch)]_vars

(* A lock is not kept for ever: under the timer's fairness every grace     *)
(* ends, by the window's return, a claim, a force or the timer, so that    *)
(* nobody is refused for good what isWriteLockHolder refuses meanwhile.    *)
KeptLockIsResolved ==
  \A ch \in Channels : reservations[ch] # NoWindow ~> reservations[ch] = NoWindow

(* What write-lock.ts says of onClientDisconnect: it releases all write    *)
(* locks held by the client that left, so that no lock is held by a client *)
(* that is gone.  An ATTACH or a SPAWN answered after its client left, and *)
(* a WRITE_GRANT to one that left, give the lock to it.                    *)
HolderIsConnected ==
  \A ch \in Channels : holders[ch] # NoClient => Open(holders[ch])
=============================================================================
