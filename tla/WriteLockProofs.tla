-------------------------- MODULE WriteLockProofs --------------------------
(***************************************************************************)
(* Theorems about WriteLock, for any sets of clients, windows and          *)
(* channels.                                                               *)
(***************************************************************************)
EXTENDS WriteLock, TLAPS

(* A client whose AUTH has not come is nowhere in the hub.                 *)
AwayIsNowhere ==
  \A c \in Clients : sockets[c] = "away" =>
    /\ windows[c] = NoWindow
    /\ c \notin spawning
    /\ \A ch \in Channels : c \notin attached[ch] /\ asking[ch][c] = "no"

(* The inductive invariant of the lock.                                    *)
LockInv ==
  /\ TypeOK
  /\ WriterMayType
  /\ KeptWindowIsAway
  /\ OneTimerPerKeptLock
  /\ StoppedKeepsNothing
  /\ AwayIsNowhere

-----------------------------------------------------------------------------
(* Every WRITE_LOCK the hub can send is a view.                            *)
LEMMA ViewType ==
  ASSUME NEW h \in Clients \cup {NoClient}, NEW k \in BOOLEAN
  PROVE  View(h, k) \in Views
BY DEF View, Views

(* _grantToSoleAttachedClient finds a client or nobody.                    *)
LEMMA SoleClientType ==
  ASSUME NEW S
  PROVE  SoleClient(S) \in Clients \cup {NoClient}
BY DEF SoleClient

(* Telling clients of a lock leaves `told` well typed.                     *)
LEMMA TellType ==
  ASSUME TypeOK, NEW ch \in Channels, NEW S, NEW v \in Views, Tell(ch, S, v)
  PROVE  told' \in [Channels -> [Clients -> Views]]
BY DEF Tell, TypeOK

(* The hub starts in the invariant.                                        *)
LEMMA InitLockInv == Init => LockInv
<1>. SUFFICES ASSUME Init PROVE LockInv
  OBVIOUS
<1>. USE NoClientAssumption, NoWindowAssumption DEF Init
<1>1. Nothing \in Views
  BY ViewType DEF Nothing
<1>2. TypeOK
  BY <1>1 DEF TypeOK
<1>3. WriterMayType
  BY DEF WriterMayType, isHolder
<1>4. KeptWindowIsAway /\ OneTimerPerKeptLock /\ StoppedKeepsNothing
  BY DEF KeptWindowIsAway, OneTimerPerKeptLock, StoppedKeepsNothing
<1>5. AwayIsNowhere
  BY DEF AwayIsNowhere
<1>. QED
  BY <1>2, <1>3, <1>4, <1>5 DEF LockInv

(* AUTH changes no lock: the client it opens is nowhere yet.               *)
LEMMA AuthenticateLockInv ==
  ASSUME LockInv, NEW c \in Clients, NEW w \in Windows \cup {NoWindow},
         Authenticate(c, w)
  PROVE  LockInv'
<1>. USE DEF LockInv, Authenticate, sessionVars, lockVars
<1>1. TypeOK'
  BY DEF TypeOK
<1>2. WriterMayType'
  BY DEF WriterMayType, isHolder, isWriteLockHolder
<1>3. KeptWindowIsAway'
  BY DEF KeptWindowIsAway, AwayIsNowhere, TypeOK
<1>4. OneTimerPerKeptLock' /\ StoppedKeepsNothing'
  BY DEF OneTimerPerKeptLock, StoppedKeepsNothing
<1>5. AwayIsNowhere'
  BY DEF AwayIsNowhere, TypeOK
<1>. QED
  BY <1>1, <1>2, <1>3, <1>4, <1>5

(* An action of the channel table alone disturbs no lock.                  *)
LEMMA SessionLockInv ==
  ASSUME LockInv, UNCHANGED <<sockets, windows, stopped, lockVars, told>>,
         TypeOK', AwayIsNowhere'
  PROVE  LockInv'
BY DEF LockInv, lockVars, WriterMayType, isHolder, isWriteLockHolder,
       KeptWindowIsAway, OneTimerPerKeptLock, StoppedKeepsNothing

(* The actions of the channel table keep the invariant: the client an      *)
(* ATTACH or a SPAWN is noted for has an open socket.                      *)
LEMMA ChannelTableLockInv ==
  ASSUME LockInv,
         \/ \E c \in Clients : Spawn(c) \/ SpawnFails(c)
         \/ \E c \in Clients, ch \in Channels :
              Attach(c, ch) \/ AttachNotFound(c, ch) \/ AttachStartsOver(c, ch)
         \/ \E ch \in Channels : ChannelExit(ch) \/ ChannelForgotten(ch)
  PROVE  LockInv'
<1>. USE DEF LockInv
<1>1. ASSUME NEW c \in Clients, Spawn(c) \/ SpawnFails(c)
      PROVE  LockInv'
  <2>. USE <1>1 DEF Spawn, SpawnFails, Open, lockVars
  <2>1. TypeOK'
    BY DEF TypeOK
  <2>2. AwayIsNowhere'
    BY DEF AwayIsNowhere
  <2>. QED
    BY <2>1, <2>2, SessionLockInv
<1>2. ASSUME NEW c \in Clients, NEW ch \in Channels, Attach(c, ch)
      PROVE  LockInv'
  <2>. USE <1>2 DEF Attach, Open, lockVars
  <2>1. TypeOK'
    BY DEF TypeOK
  <2>2. AwayIsNowhere'
    BY DEF AwayIsNowhere, TypeOK
  <2>. QED
    BY <2>1, <2>2, SessionLockInv
<1>3. ASSUME NEW c \in Clients, NEW ch \in Channels, AttachNotFound(c, ch)
      PROVE  LockInv'
  <2>. USE <1>3 DEF AttachNotFound, lockVars
  <2>1. TypeOK'
    BY DEF TypeOK
  <2>2. AwayIsNowhere'
    BY DEF AwayIsNowhere, TypeOK
  <2>. QED
    BY <2>1, <2>2, SessionLockInv
<1>4. ASSUME NEW c \in Clients, NEW ch \in Channels, AttachStartsOver(c, ch)
      PROVE  LockInv'
  <2>. USE <1>4 DEF AttachStartsOver, Open, lockVars
  <2>1. TypeOK'
    BY DEF TypeOK
  <2>2. AwayIsNowhere'
    BY DEF AwayIsNowhere, TypeOK
  <2>. QED
    BY <2>1, <2>2, SessionLockInv
<1>5. ASSUME NEW ch \in Channels, ChannelExit(ch)
      PROVE  LockInv'
  <2>1. TypeOK' /\ AwayIsNowhere'
    BY <1>5 DEF ChannelExit, TypeOK, AwayIsNowhere, lockVars
  <2>. QED
    BY <1>5, <2>1, SessionLockInv DEF ChannelExit, lockVars
<1>6. ASSUME NEW ch \in Channels, ChannelForgotten(ch)
      PROVE  LockInv'
  <2>. USE <1>6 DEF ChannelForgotten, lockVars
  <2>1. TypeOK'
    BY DEF TypeOK
  <2>2. AwayIsNowhere'
    BY DEF AwayIsNowhere, TypeOK
  <2>. QED
    BY <2>1, <2>2, SessionLockInv
<1>. QED
  BY <1>1, <1>2, <1>3, <1>4, <1>5, <1>6

(* A disconnect frees locks, hands them to a client of the same window or  *)
(* keeps them, and keeps none for a window that is there.                  *)
LEMMA DisconnectLockInv ==
  ASSUME LockInv, NEW c \in Clients, Disconnect(c)
  PROVE  LockInv'
<1>. USE NoClientAssumption, NoWindowAssumption DEF LockInv, Open
<1>1. PICK next \in [Channels -> Clients \cup {NoClient}] :
        /\ \A ch \in Channels : next[ch] \in NextHolders(ch, c)
        /\ holders' = next
        /\ told' = [ch \in Channels |-> [o \in Clients |->
                     IF o = c THEN Nothing
                     ELSE IF holders[ch] = c /\ o \in clients[ch] /\ Open(o)
                     THEN View(next[ch], KeptOnDisconnect(ch, c))
                     ELSE told[ch][o]]]
  BY DEF Disconnect
<1>2. \A ch \in Channels : KeptOnDisconnect(ch, c) \in BOOLEAN
  BY DEF KeptOnDisconnect, MustWait
<1>3. told' \in [Channels -> [Clients -> Views]]
  <2>1. Nothing \in Views
    BY ViewType DEF Nothing
  <2>2. \A ch \in Channels : View(next[ch], KeptOnDisconnect(ch, c)) \in Views
    BY <1>2, ViewType
  <2>. QED
    BY <1>1, <2>1, <2>2 DEF TypeOK
<1>4. TypeOK'
  BY <1>1, <1>3 DEF TypeOK, Disconnect
<1>5. WriterMayType'
  <2>. SUFFICES ASSUME NEW ch \in Channels, NEW o \in Clients, holders'[ch] = o
                PROVE  reservations'[ch] = NoWindow
    BY DEF WriterMayType, isHolder, isWriteLockHolder
  <2>1. o \in NextHolders(ch, c)
    BY <1>1
  <2>2. ~KeptOnDisconnect(ch, c)
    BY <2>1 DEF NextHolders, KeptOnDisconnect, MustWait
  <2>3. reservations'[ch] = reservations[ch]
    BY <2>2 DEF Disconnect
  <2>4. holders[ch] \in Clients
    BY <2>1 DEF NextHolders, TypeOK
  <2>. QED
    BY <2>3, <2>4 DEF WriterMayType, isHolder, isWriteLockHolder
<1>6. KeptWindowIsAway'
  <2>. SUFFICES ASSUME NEW ch \in Channels, NEW o \in Clients,
                       o \in attached'[ch], reservations'[ch] # NoWindow
                PROVE  windows'[o] # reservations'[ch]
    BY DEF KeptWindowIsAway
  <2>1. o \in attached[ch] /\ o # c /\ windows'[o] = windows[o]
    BY DEF Disconnect, TypeOK
  <2>2. CASE KeptOnDisconnect(ch, c)
    BY <2>1, <2>2 DEF Disconnect, KeptOnDisconnect, Returned
  <2>3. CASE ~KeptOnDisconnect(ch, c)
    BY <2>1, <2>3 DEF Disconnect, KeptWindowIsAway
  <2>. QED
    BY <2>2, <2>3
<1>7. OneTimerPerKeptLock'
  BY DEF Disconnect, OneTimerPerKeptLock, WriterMayType, isHolder,
     isWriteLockHolder, KeptOnDisconnect, MustWait, TypeOK
<1>8. StoppedKeepsNothing'
  BY DEF Disconnect, StoppedKeepsNothing, KeptOnDisconnect, MustWait, TypeOK
<1>9. AwayIsNowhere'
  BY DEF Disconnect, AwayIsNowhere, TypeOK
<1>. QED
  BY <1>4, <1>5, <1>6, <1>7, <1>8, <1>9

(* The grace of a kept lock ends: there was a reservation, so one timer.   *)
LEMMA GraceEndedLockInv ==
  ASSUME LockInv, NEW ch \in Channels, GraceEnded(ch)
  PROVE  LockInv'
<1>. DEFINE granted == IF holders[ch] = NoClient
                       THEN SoleClient(attached[ch]) ELSE NoClient
<1>. USE NoClientAssumption, NoWindowAssumption DEF LockInv, GraceEnded, sessionVars
<1>1. granted \in Clients \cup {NoClient}
  BY SoleClientType
<1>2. told' \in [Channels -> [Clients -> Views]]
  BY <1>1, ViewType, TellType
<1>3. timers[ch] - 1 \in Nat
  BY DEF TypeOK
<1>4. TypeOK'
  BY <1>1, <1>2, <1>3 DEF TypeOK
<1>5. WriterMayType' /\ KeptWindowIsAway' /\ StoppedKeepsNothing'
  BY <1>1 DEF WriterMayType, isHolder, isWriteLockHolder, KeptWindowIsAway,
     StoppedKeepsNothing, TypeOK
<1>6. OneTimerPerKeptLock'
  BY DEF OneTimerPerKeptLock, TypeOK
<1>7. AwayIsNowhere'
  BY DEF AwayIsNowhere, TypeOK
<1>. QED
  BY <1>4, <1>5, <1>6, <1>7

(* Shutdown clears every lock, and with each kept one its timer.           *)
LEMMA ShutdownLockInv ==
  ASSUME LockInv, Shutdown
  PROVE  LockInv'
<1>. USE NoClientAssumption, NoWindowAssumption DEF LockInv, Shutdown, sessionVars
<1>1. \A ch \in Channels : timers'[ch] = 0
  BY DEF OneTimerPerKeptLock, TypeOK
<1>2. TypeOK'
  BY <1>1 DEF TypeOK
<1>3. WriterMayType' /\ KeptWindowIsAway' /\ StoppedKeepsNothing'
  BY DEF WriterMayType, isHolder, isWriteLockHolder, KeptWindowIsAway,
     StoppedKeepsNothing, TypeOK
<1>4. OneTimerPerKeptLock'
  BY <1>1 DEF OneTimerPerKeptLock
<1>5. AwayIsNowhere'
  BY DEF AwayIsNowhere, TypeOK
<1>. QED
  BY <1>2, <1>3, <1>4, <1>5

-----------------------------------------------------------------------------
(* EndReservation leaves no reservation and no timer.                      *)
LEMMA EndReservationLock ==
  ASSUME LockInv, NEW ch \in Channels, EndReservation(ch)
  PROVE  /\ reservations' = [reservations EXCEPT ![ch] = NoWindow]
         /\ timers' = [timers EXCEPT ![ch] = 0]
         /\ reservations' \in [Channels -> Windows \cup {NoWindow}]
         /\ timers' \in [Channels -> Nat]
         /\ OneTimerPerKeptLock'
<1>. USE DEF LockInv, EndReservation
<1>1. timers' = [timers EXCEPT ![ch] = 0]
  <2>1. (IF reservations[ch] = NoWindow THEN timers[ch] ELSE timers[ch] - 1) = 0
    BY DEF OneTimerPerKeptLock
  <2>. QED
    BY <2>1, Zenon
<1>2. /\ reservations' \in [Channels -> Windows \cup {NoWindow}]
      /\ timers' \in [Channels -> Nat]
  BY <1>1 DEF TypeOK
<1>3. OneTimerPerKeptLock'
  BY <1>1 DEF OneTimerPerKeptLock, TypeOK
<1>. QED
  BY <1>1, <1>2, <1>3

(* Attaching a client to a lock keeps every property of it.                *)
LEMMA LockAttachInv ==
  ASSUME LockInv, NEW ch \in Channels, NEW c \in Clients, NEW S,
         LockAttach(ch, c, S), UNCHANGED <<sockets, windows, stopped>>
  PROVE  /\ attached' \in [Channels -> SUBSET Clients]
         /\ holders' \in [Channels -> Clients \cup {NoClient}]
         /\ reservations' \in [Channels -> Windows \cup {NoWindow}]
         /\ timers' \in [Channels -> Nat]
         /\ told' \in [Channels -> [Clients -> Views]]
         /\ WriterMayType' /\ KeptWindowIsAway'
         /\ OneTimerPerKeptLock' /\ StoppedKeepsNothing'
<1>. USE NoClientAssumption, NoWindowAssumption DEF LockInv
<1>1. attached' \in [Channels -> SUBSET Clients]
  BY DEF LockAttach, TypeOK
<1>2. CASE /\ reservations[ch] # NoWindow
           /\ windows[c] = reservations[ch]
           /\ EndReservation(ch)
           /\ holders' = [holders EXCEPT ![ch] = c]
           /\ Tell(ch, S, View(c, FALSE))
  <2>1. /\ reservations' = [reservations EXCEPT ![ch] = NoWindow]
        /\ reservations' \in [Channels -> Windows \cup {NoWindow}]
        /\ timers' \in [Channels -> Nat]
        /\ OneTimerPerKeptLock'
    BY <1>2, EndReservationLock
  <2>2. holders' \in [Channels -> Clients \cup {NoClient}]
    BY <1>2 DEF TypeOK
  <2>3. told' \in [Channels -> [Clients -> Views]]
    BY <1>2, ViewType, TellType
  <2>4. WriterMayType'
    BY <1>2, <2>1 DEF WriterMayType, isHolder, isWriteLockHolder, TypeOK
  <2>5. KeptWindowIsAway' /\ StoppedKeepsNothing'
    BY <2>1 DEF KeptWindowIsAway, StoppedKeepsNothing, LockAttach, TypeOK
  <2>. QED
    BY <1>1, <2>1, <2>2, <2>3, <2>4, <2>5
<1>3. CASE /\ reservations[ch] # NoWindow
           /\ windows[c] # reservations[ch]
           /\ Tell(ch, {c}, View(NoClient, TRUE))
           /\ UNCHANGED <<holders, reservations, timers>>
  <2>1. told' \in [Channels -> [Clients -> Views]]
    BY <1>3, ViewType, TellType
  <2>2. KeptWindowIsAway'
    BY <1>3 DEF KeptWindowIsAway, LockAttach, TypeOK
  <2>. QED
    BY <1>1, <1>3, <2>1, <2>2 DEF TypeOK, WriterMayType, isHolder,
       isWriteLockHolder, OneTimerPerKeptLock, StoppedKeepsNothing
<1>4. CASE /\ reservations[ch] = NoWindow
           /\ holders[ch] = NoClient
           /\ holders' = [holders EXCEPT ![ch] = c]
           /\ Tell(ch, S, View(c, FALSE))
           /\ UNCHANGED <<reservations, timers>>
  <2>1. told' \in [Channels -> [Clients -> Views]]
    BY <1>4, ViewType, TellType
  <2>2. holders' \in [Channels -> Clients \cup {NoClient}]
    BY <1>4 DEF TypeOK
  <2>3. WriterMayType'
    BY <1>4 DEF WriterMayType, isHolder, isWriteLockHolder, TypeOK
  <2>4. KeptWindowIsAway'
    BY <1>4 DEF KeptWindowIsAway, LockAttach, TypeOK
  <2>. QED
    BY <1>1, <1>4, <2>1, <2>2, <2>3, <2>4 DEF TypeOK, OneTimerPerKeptLock,
       StoppedKeepsNothing
<1>5. CASE /\ reservations[ch] = NoWindow
           /\ holders[ch] # NoClient
           /\ Tell(ch, {c}, View(holders[ch], FALSE))
           /\ UNCHANGED <<holders, reservations, timers>>
  <2>1. told' \in [Channels -> [Clients -> Views]]
    <3>1. View(holders[ch], FALSE) \in Views
      BY ViewType DEF TypeOK
    <3>. QED
      BY <1>5, <3>1, TellType
  <2>2. KeptWindowIsAway'
    BY <1>5 DEF KeptWindowIsAway, LockAttach, TypeOK
  <2>. QED
    BY <1>1, <1>5, <2>1, <2>2 DEF TypeOK, WriterMayType, isHolder,
       isWriteLockHolder, OneTimerPerKeptLock, StoppedKeepsNothing
<1>. QED
  BY <1>2, <1>3, <1>4, <1>5 DEF LockAttach

(* An ATTACH answered: the client that asked was authenticated.            *)
LEMMA AttachAnsweredLockInv ==
  ASSUME LockInv, NEW c \in Clients, NEW ch \in Channels, AttachAnswered(c, ch)
  PROVE  LockInv'
<1>. USE DEF LockInv, AttachAnswered
<1>1. LockAttach(ch, c, clients[ch]) /\ UNCHANGED <<sockets, windows, stopped>>
  OBVIOUS
<1>2. TypeOK'
  BY <1>1, LockAttachInv DEF TypeOK
<1>3. AwayIsNowhere'
  BY DEF AwayIsNowhere, LockAttach, TypeOK
<1>. QED
  BY <1>1, <1>2, <1>3, LockAttachInv

(* SPAWN_OK: the spawner was authenticated.                                *)
LEMMA SpawnOkLockInv ==
  ASSUME LockInv, NEW c \in Clients, NEW ch \in Channels, SpawnOk(c, ch)
  PROVE  LockInv'
<1>. USE DEF LockInv, SpawnOk
<1>1. LockAttach(ch, c, {c}) /\ UNCHANGED <<sockets, windows, stopped>>
  OBVIOUS
<1>2. TypeOK'
  BY <1>1, LockAttachInv DEF TypeOK
<1>3. AwayIsNowhere'
  BY DEF AwayIsNowhere, LockAttach, TypeOK
<1>. QED
  BY <1>1, <1>2, <1>3, LockAttachInv

(* DETACH frees the lock or leaves it, and never keeps it.                 *)
LEMMA DetachLockInv ==
  ASSUME LockInv, NEW c \in Clients, NEW ch \in Channels, Detach(c, ch)
  PROVE  LockInv'
<1>. DEFINE granted == SoleClient(attached[ch] \ {c})
<1>. USE NoClientAssumption, NoWindowAssumption DEF LockInv, Detach
<1>1. granted \in Clients \cup {NoClient}
  BY SoleClientType
<1>2. told' \in [Channels -> [Clients -> Views]]
  <2>1. Nothing \in Views /\ View(granted, FALSE) \in Views
    BY <1>1, ViewType DEF Nothing
  <2>. HIDE DEF granted
  <2>. QED
    BY <2>1 DEF TypeOK, granted
<1>3. TypeOK'
  BY <1>1, <1>2 DEF TypeOK
<1>4. WriterMayType'
  BY <1>1 DEF WriterMayType, isHolder, isWriteLockHolder, TypeOK
<1>5. KeptWindowIsAway' /\ StoppedKeepsNothing' /\ OneTimerPerKeptLock'
  BY DEF KeptWindowIsAway, StoppedKeepsNothing, OneTimerPerKeptLock, TypeOK
<1>6. AwayIsNowhere'
  BY DEF AwayIsNowhere, TypeOK
<1>. QED
  BY <1>3, <1>4, <1>5, <1>6

(* WRITE_CLAIM and WRITE_FORCE: the lock goes to a client, kept for nobody. *)
LEMMA TakeLockInv ==
  ASSUME LockInv, NEW c \in Clients, NEW ch \in Channels,
         WriteClaim(c, ch) \/ WriteForce(c, ch)
  PROVE  LockInv'
<1>. USE NoClientAssumption, NoWindowAssumption DEF LockInv
<1>1. /\ EndReservation(ch)
      /\ holders' = [holders EXCEPT ![ch] = c]
      /\ Tell(ch, clients[ch], View(c, FALSE))
      /\ UNCHANGED <<sockets, windows, stopped, sessionVars, attached>>
  BY DEF WriteClaim, WriteForce
<1>2. /\ reservations' = [reservations EXCEPT ![ch] = NoWindow]
      /\ reservations' \in [Channels -> Windows \cup {NoWindow}]
      /\ timers' \in [Channels -> Nat]
      /\ OneTimerPerKeptLock'
  BY <1>1, EndReservationLock
<1>3. told' \in [Channels -> [Clients -> Views]]
  BY <1>1, ViewType, TellType
<1>4. TypeOK'
  BY <1>1, <1>2, <1>3 DEF TypeOK, sessionVars
<1>5. WriterMayType'
  BY <1>1, <1>2 DEF WriterMayType, isHolder, isWriteLockHolder, TypeOK
<1>6. KeptWindowIsAway' /\ StoppedKeepsNothing'
  BY <1>1, <1>2 DEF KeptWindowIsAway, StoppedKeepsNothing, TypeOK
<1>7. AwayIsNowhere'
  BY <1>1 DEF AwayIsNowhere, TypeOK, sessionVars
<1>. QED
  BY <1>2, <1>4, <1>5, <1>6, <1>7

(* WRITE_GRANT and WRITE_RELEASE: a held lock, so not a kept one, gets     *)
(* another holder or none.                                                 *)
LEMMA HandOverLockInv ==
  ASSUME LockInv, NEW c \in Clients, NEW ch \in Channels,
         \/ \E to \in Clients : WriteGrant(c, ch, to)
         \/ WriteRelease(c, ch)
  PROVE  LockInv'
<1>. USE NoClientAssumption, NoWindowAssumption DEF LockInv
<1>1. PICK h \in Clients \cup {NoClient} :
        /\ isHolder(ch, c)
        /\ holders' = [holders EXCEPT ![ch] = h]
        /\ Tell(ch, clients[ch], View(h, FALSE))
        /\ UNCHANGED <<sockets, windows, stopped, sessionVars, attached,
                       reservations, timers>>
  BY DEF WriteGrant, WriteRelease, Nothing
<1>2. told' \in [Channels -> [Clients -> Views]]
  BY <1>1, ViewType, TellType
<1>3. TypeOK'
  BY <1>1, <1>2 DEF TypeOK, sessionVars
<1>4. WriterMayType'
  BY <1>1 DEF WriterMayType, isHolder, isWriteLockHolder, TypeOK
<1>5. KeptWindowIsAway' /\ StoppedKeepsNothing' /\ OneTimerPerKeptLock'
  BY <1>1 DEF KeptWindowIsAway, StoppedKeepsNothing, OneTimerPerKeptLock
<1>6. AwayIsNowhere'
  BY <1>1 DEF AwayIsNowhere, sessionVars
<1>. QED
  BY <1>3, <1>4, <1>5, <1>6

(* Every step of the hub keeps the invariant.                              *)
LEMMA NextLockInv == LockInv /\ [Next]_vars => LockInv'
<1>. SUFFICES ASSUME LockInv, [Next]_vars PROVE LockInv'
  OBVIOUS
<1>1. ASSUME NEW c \in Clients, NEW w \in Windows \cup {NoWindow}, Authenticate(c, w)
      PROVE  LockInv'
  BY <1>1, AuthenticateLockInv
<1>2. ASSUME NEW c \in Clients, Disconnect(c)
      PROVE  LockInv'
  BY <1>2, DisconnectLockInv
<1>3. ASSUME NEW c \in Clients, NEW ch \in Channels,
             \/ AttachAnswered(c, ch) \/ SpawnOk(c, ch) \/ Detach(c, ch)
             \/ WriteClaim(c, ch) \/ WriteForce(c, ch)
             \/ (\E to \in Clients : WriteGrant(c, ch, to)) \/ WriteRelease(c, ch)
      PROVE  LockInv'
  BY <1>3, AttachAnsweredLockInv, SpawnOkLockInv, DetachLockInv, TakeLockInv,
     HandOverLockInv
<1>4. ASSUME NEW ch \in Channels, GraceEnded(ch)
      PROVE  LockInv'
  BY <1>4, GraceEndedLockInv
<1>5. CASE Shutdown
  BY <1>5, ShutdownLockInv
<1>6. CASE UNCHANGED vars
  <2>. USE <1>6 DEF vars, sessionVars, lockVars, LockInv
  <2>1. TypeOK' /\ AwayIsNowhere'
    BY DEF TypeOK, AwayIsNowhere
  <2>. QED
    BY <2>1, SessionLockInv
<1>. QED
  BY <1>1, <1>2, <1>3, <1>4, <1>5, <1>6, ChannelTableLockInv DEF Next

(* The lock's state keeps its types, whatever clients come, go, attach and *)
(* claim.                                                                  *)
THEOREM TypeCorrect == Spec => []TypeOK
BY InitLockInv, NextLockInv, PTL DEF Spec, LockInv

(* For any number of clients, windows and terminals: a holder may always   *)
(* type, a lock is kept only for a window that is away, a kept lock has    *)
(* the one timer that ends it, and a stopping hub keeps none.              *)
THEOREM LockSafety ==
  Spec => [](/\ WriterMayType
             /\ KeptWindowIsAway
             /\ OneTimerPerKeptLock
             /\ StoppedKeepsNothing)
BY InitLockInv, NextLockInv, PTL DEF Spec, LockInv

(* A lock is kept only for a window none of whose sockets is attached, in  *)
(* whichever order the old socket's close and the new one's attach are     *)
(* seen (_keepFor).                                                        *)
THEOREM KeptForTheAway == Spec => []KeptWindowIsAway
BY LockSafety, PTL

(* A kept lock has exactly one grace timer and no other lock has any       *)
(* (_keepFor, _endReservation).                                            *)
THEOREM TimersAreKeptLocks == Spec => []OneTimerPerKeptLock
BY LockSafety, PTL

-----------------------------------------------------------------------------
(* What AttachedKnowTheLock needs to be inductive: an ATTACH that has to    *)
(* start over has told its client nothing wrong.                           *)
ToldUnlessAsked ==
  \A ch \in Channels, c \in Clients :
    /\ c \in attached[ch] \cap clients[ch]
    /\ Open(c)
    /\ asking[ch][c] # "asked"
    /\ ~stopped
    => told[ch][c] = LockView(ch)

(* A step that leaves the lock, what was said of it and the sockets alone, *)
(* and gives no channel a client that has not just asked, keeps it.        *)
LEMMA TableTold ==
  ASSUME ToldUnlessAsked, UNCHANGED <<sockets, stopped, lockVars, told>>,
         \A ch \in Channels, c \in Clients :
           c \in clients'[ch] /\ asking'[ch][c] # "asked"
             => c \in clients[ch] /\ asking[ch][c] # "asked"
  PROVE  ToldUnlessAsked'
BY DEF ToldUnlessAsked, Open, LockView, lockVars

(* A broadcast of the new lock to every client of the channel keeps it.    *)
LEMMA BroadcastTold ==
  ASSUME LockInv, ToldUnlessAsked, NEW ch \in Channels, NEW h, NEW k,
         Tell(ch, clients[ch], View(h, k)),
         LockView(ch)' = View(h, k),
         \A d \in Channels \ {ch} : LockView(d)' = LockView(d),
         \A d \in Channels : attached'[d] \subseteq attached[d] \/ d = ch,
         UNCHANGED <<sockets, stopped, clients>>,
         \A d \in Channels, c \in Clients :
           asking'[d][c] # "asked" => asking[d][c] # "asked" \/ d = ch
  PROVE  ToldUnlessAsked'
<1>. SUFFICES ASSUME NEW d \in Channels, NEW o \in Clients,
                     o \in attached'[d], o \in clients'[d], sockets'[o] = "open",
                     asking'[d][o] # "asked", ~stopped'
              PROVE  told'[d][o] = LockView(d)'
  BY DEF ToldUnlessAsked, Open
<1>1. CASE d = ch
  BY <1>1 DEF Tell, Open, LockInv, TypeOK
<1>2. CASE d # ch
  BY <1>2 DEF Tell, ToldUnlessAsked, Open, LockInv, TypeOK
<1>. QED
  BY <1>1, <1>2

(* Attaching a client to the lock leaves every attached client told.       *)
LEMMA LockAttachTold ==
  ASSUME LockInv, ToldUnlessAsked, NEW ch \in Channels, NEW c \in Clients,
         NEW S, LockAttach(ch, c, S), UNCHANGED <<sockets, stopped>>,
         clients'[ch] \subseteq S,
         \A o \in Clients \ {c} : o \in clients'[ch] => o \in clients[ch],
         \A d \in Channels \ {ch} : clients'[d] = clients[d],
         \A d \in Channels, o \in Clients :
           asking'[d][o] # "asked" /\ o \in clients'[d]
             => asking[d][o] # "asked" \/ (d = ch /\ o = c)
  PROVE  ToldUnlessAsked'
<1>. USE NoClientAssumption, NoWindowAssumption
<1>. SUFFICES ASSUME NEW d \in Channels, NEW o \in Clients,
                     o \in attached'[d], o \in clients'[d], sockets[o] = "open",
                     asking'[d][o] # "asked", ~stopped
              PROVE  told'[d][o] = LockView(d)'
  BY DEF ToldUnlessAsked, Open
<1>1. CASE d # ch
  <2>1. o \in attached[d] /\ o \in clients[d] /\ asking[d][o] # "asked"
    BY <1>1 DEF LockAttach, LockInv, TypeOK
  <2>2. told[d][o] = LockView(d)
    BY <2>1 DEF ToldUnlessAsked, Open
  <2>3. told'[d][o] = told[d][o] /\ LockView(d)' = LockView(d)
    BY <1>1 DEF LockAttach, EndReservation, Tell, LockView, LockInv, TypeOK
  <2>. QED
    BY <2>2, <2>3
<1>2. CASE d = ch /\ holders' = [holders EXCEPT ![ch] = c]
           /\ reservations'[ch] = NoWindow /\ Tell(ch, S, View(c, FALSE))
  BY <1>2 DEF Tell, Open, LockView, LockInv, TypeOK
<1>3. CASE d = ch /\ UNCHANGED <<holders, reservations>>
           /\ Tell(ch, {c}, LockView(ch))
  <2>1. CASE o = c
    BY <1>3, <2>1 DEF Tell, Open, LockView, LockInv, TypeOK
  <2>2. CASE o # c
    <3>1. told[d][o] = LockView(d)
      BY <1>3, <2>2 DEF LockAttach, ToldUnlessAsked, Open, LockInv, TypeOK
    <3>. QED
      BY <1>3, <2>2, <3>1 DEF Tell, LockView, LockInv, TypeOK
  <2>. QED
    BY <2>1, <2>2
<1>4. LockAttach(ch, c, S) =>
        \/ /\ holders' = [holders EXCEPT ![ch] = c]
           /\ reservations'[ch] = NoWindow
           /\ Tell(ch, S, View(c, FALSE))
        \/ UNCHANGED <<holders, reservations>> /\ Tell(ch, {c}, LockView(ch))
  <2>1. reservations[ch] # NoWindow => holders[ch] = NoClient
    BY DEF LockInv, WriterMayType, isHolder, isWriteLockHolder, TypeOK
  <2>. QED
    BY <2>1 DEF LockAttach, EndReservation, LockView, View, LockInv, TypeOK
<1>. QED
  BY <1>1, <1>2, <1>3, <1>4

(* A disconnect tells every client of a freed lock what became of it.      *)
LEMMA DisconnectTold ==
  ASSUME LockInv, ToldUnlessAsked, NEW c \in Clients, Disconnect(c)
  PROVE  ToldUnlessAsked'
<1>. USE NoClientAssumption, NoWindowAssumption
<1>1. PICK next \in [Channels -> Clients \cup {NoClient}] :
        /\ \A ch \in Channels : next[ch] \in NextHolders(ch, c)
        /\ holders' = next
        /\ told' = [ch \in Channels |-> [o \in Clients |->
                     IF o = c THEN Nothing
                     ELSE IF holders[ch] = c /\ o \in clients[ch] /\ Open(o)
                     THEN View(next[ch], KeptOnDisconnect(ch, c))
                     ELSE told[ch][o]]]
  BY DEF Disconnect
<1>. SUFFICES ASSUME NEW ch \in Channels, NEW o \in Clients,
                     o \in attached'[ch], o \in clients'[ch], sockets'[o] = "open",
                     asking'[ch][o] # "asked", ~stopped'
              PROVE  told'[ch][o] = LockView(ch)'
  BY DEF ToldUnlessAsked, Open
<1>2. /\ o # c /\ o \in attached[ch] /\ o \in clients[ch] /\ Open(o)
      /\ asking[ch][o] # "asked" /\ ~stopped
  BY DEF Disconnect, Open, LockInv, TypeOK
<1>3. reservations'[ch] = IF KeptOnDisconnect(ch, c) THEN windows[c]
                                                     ELSE reservations[ch]
  BY DEF Disconnect
<1>4. CASE holders[ch] = c
  <2>1. reservations[ch] = NoWindow
    BY <1>4 DEF LockInv, WriterMayType, isHolder, isWriteLockHolder
  <2>2. (reservations'[ch] # NoWindow) = KeptOnDisconnect(ch, c)
    BY <1>3, <2>1 DEF KeptOnDisconnect, MustWait
  <2>3. LockView(ch)' = View(next[ch], KeptOnDisconnect(ch, c))
    BY <1>1, <2>2 DEF LockView
  <2>4. told'[ch][o] = View(next[ch], KeptOnDisconnect(ch, c))
    BY <1>1, <1>2, <1>4
  <2>. QED
    BY <2>3, <2>4
<1>5. CASE holders[ch] # c
  <2>1. next[ch] = holders[ch] /\ reservations'[ch] = reservations[ch]
    BY <1>1, <1>3, <1>5 DEF NextHolders, KeptOnDisconnect, MustWait
  <2>2. LockView(ch)' = LockView(ch)
    BY <1>1, <2>1 DEF LockView
  <2>3. told'[ch][o] = told[ch][o]
    BY <1>1, <1>2, <1>5
  <2>. QED
    BY <1>2, <2>2, <2>3 DEF ToldUnlessAsked
<1>. QED
  BY <1>4, <1>5

(* DETACH tells the clients left; the one that detached is none of them.   *)
LEMMA DetachTold ==
  ASSUME LockInv, ToldUnlessAsked, NEW c \in Clients, NEW ch \in Channels,
         Detach(c, ch)
  PROVE  ToldUnlessAsked'
<1>. USE NoClientAssumption, NoWindowAssumption
<1>. SUFFICES ASSUME NEW d \in Channels, NEW o \in Clients,
                     o \in attached'[d], o \in clients'[d], sockets'[o] = "open",
                     asking'[d][o] # "asked", ~stopped'
              PROVE  told'[d][o] = LockView(d)'
  BY DEF ToldUnlessAsked, Open
<1>1. /\ o \in attached[d] /\ o \in clients[d] /\ Open(o)
      /\ asking[d][o] # "asked" /\ ~stopped
  BY DEF Detach, Open, LockInv, TypeOK
<1>2. told[d][o] = LockView(d)
  BY <1>1 DEF ToldUnlessAsked
<1>3. CASE d # ch
  BY <1>2, <1>3 DEF Detach, LockView, LockInv, TypeOK
<1>4. CASE d = ch /\ holders[ch] # c
  <2>1. o # c
    BY <1>4 DEF Detach, LockInv, TypeOK
  <2>2. told'[d][o] = told[d][o] /\ LockView(d)' = LockView(d)
    BY <1>4, <2>1 DEF Detach, LockView, LockInv, TypeOK
  <2>. QED
    BY <1>2, <2>2
<1>5. CASE d = ch /\ holders[ch] = c
  <2>1. o # c
    BY <1>5 DEF Detach, LockInv, TypeOK
  <2>2. reservations'[ch] = NoWindow
    BY <1>5 DEF Detach, LockInv, WriterMayType, isHolder, isWriteLockHolder
  <2>3. told'[d][o] = View(SoleClient(attached[ch] \ {c}), FALSE)
    BY <1>1, <1>5, <2>1 DEF Detach, LockInv, TypeOK
  <2>4. holders'[ch] = SoleClient(attached[ch] \ {c})
    BY <1>5 DEF Detach, LockInv, TypeOK
  <2>. QED
    BY <1>5, <2>2, <2>3, <2>4 DEF LockView
<1>. QED
  BY <1>3, <1>4, <1>5

(* The steps that broadcast: the end of a grace, a claim, a force, a grant *)
(* and a release.                                                          *)
LEMMA BroadcastsTold ==
  ASSUME LockInv, ToldUnlessAsked, NEW ch \in Channels,
         \/ GraceEnded(ch)
         \/ \E c \in Clients :
              \/ WriteClaim(c, ch)
              \/ \E to \in Clients : WriteGrant(c, ch, to)
              \/ WriteForce(c, ch)
              \/ WriteRelease(c, ch)
  PROVE  ToldUnlessAsked'
<1>. USE NoClientAssumption, NoWindowAssumption
<1>1. PICK h :
        /\ Tell(ch, clients[ch], View(h, FALSE))
        /\ holders' = [holders EXCEPT ![ch] = h]
        /\ reservations' = [reservations EXCEPT ![ch] = NoWindow]
        /\ UNCHANGED <<sockets, stopped, attached, sessionVars>>
  <2>1. CASE GraceEnded(ch)
    <3>1. reservations[ch] # NoWindow
      BY <2>1 DEF GraceEnded, LockInv, OneTimerPerKeptLock
    <3>2. holders[ch] = NoClient
      BY <3>1 DEF LockInv, WriterMayType, isHolder, isWriteLockHolder, TypeOK
    <3>. QED
      BY <2>1, <3>2 DEF GraceEnded
  <2>2. CASE \E c \in Clients : WriteClaim(c, ch) \/ WriteForce(c, ch)
    BY <2>2 DEF WriteClaim, WriteForce, EndReservation
  <2>3. CASE \E c \in Clients :
               (\E to \in Clients : WriteGrant(c, ch, to)) \/ WriteRelease(c, ch)
    <3>1. PICK c \in Clients :
            (\E to \in Clients : WriteGrant(c, ch, to)) \/ WriteRelease(c, ch)
      BY <2>3
    <3>2. reservations[ch] = NoWindow
      BY <3>1 DEF WriteGrant, WriteRelease, isHolder, LockInv, WriterMayType,
         isWriteLockHolder
    <3>3. [reservations EXCEPT ![ch] = NoWindow] = reservations
      BY <3>2 DEF LockInv, TypeOK
    <3>. QED
      BY <3>1, <3>3 DEF WriteGrant, WriteRelease, Nothing
  <2>. QED
    BY <2>1, <2>2, <2>3
<1>2. LockView(ch)' = View(h, FALSE)
  BY <1>1 DEF LockView, LockInv, TypeOK
<1>3. \A d \in Channels \ {ch} : LockView(d)' = LockView(d)
  BY <1>1 DEF LockView, LockInv, TypeOK
<1>. QED
  BY <1>1, <1>2, <1>3, BroadcastTold DEF sessionVars

(* Every step leaves the attached clients told.                            *)
LEMMA NextTold ==
  LockInv /\ ToldUnlessAsked /\ [Next]_vars => ToldUnlessAsked'
<1>. SUFFICES ASSUME LockInv, ToldUnlessAsked, [Next]_vars PROVE ToldUnlessAsked'
  OBVIOUS
<1>1. ASSUME NEW c \in Clients, NEW w \in Windows \cup {NoWindow}, Authenticate(c, w)
      PROVE  ToldUnlessAsked'
  BY <1>1 DEF Authenticate, ToldUnlessAsked, Open, LockView, sessionVars,
     lockVars, LockInv, TypeOK, AwayIsNowhere
<1>2. ASSUME NEW c \in Clients, Disconnect(c)
      PROVE  ToldUnlessAsked'
  BY <1>2, DisconnectTold
<1>3. ASSUME NEW c \in Clients, Spawn(c) \/ SpawnFails(c)
      PROVE  ToldUnlessAsked'
  BY <1>3, TableTold DEF Spawn, SpawnFails
<1>4. ASSUME NEW c \in Clients, NEW ch \in Channels,
             \/ Attach(c, ch) \/ AttachNotFound(c, ch) \/ AttachStartsOver(c, ch)
      PROVE  ToldUnlessAsked'
  <2>1. CASE Attach(c, ch)
    BY <2>1, TableTold DEF Attach, LockInv, TypeOK
  <2>2. CASE AttachNotFound(c, ch)
    BY <2>2, TableTold DEF AttachNotFound, LockInv, TypeOK
  <2>3. CASE AttachStartsOver(c, ch)
    BY <2>3, TableTold DEF AttachStartsOver, LockInv, TypeOK
  <2>. QED
    BY <1>4, <2>1, <2>2, <2>3
<1>5. ASSUME NEW c \in Clients, NEW ch \in Channels, AttachAnswered(c, ch)
      PROVE  ToldUnlessAsked'
  BY <1>5, LockAttachTold DEF AttachAnswered, LockInv, TypeOK
<1>6. ASSUME NEW c \in Clients, NEW ch \in Channels, SpawnOk(c, ch)
      PROVE  ToldUnlessAsked'
  BY <1>6, LockAttachTold DEF SpawnOk, LockInv, TypeOK
<1>7. ASSUME NEW c \in Clients, NEW ch \in Channels, Detach(c, ch)
      PROVE  ToldUnlessAsked'
  BY <1>7, DetachTold
<1>8. ASSUME NEW ch \in Channels, ChannelExit(ch) \/ ChannelForgotten(ch)
      PROVE  ToldUnlessAsked'
  <2>1. CASE ChannelExit(ch)
    BY <2>1, TableTold DEF ChannelExit
  <2>2. CASE ChannelForgotten(ch)
    BY <2>2, TableTold DEF ChannelForgotten, LockInv, TypeOK
  <2>. QED
    BY <1>8, <2>1, <2>2
<1>9. CASE Shutdown
  BY <1>9 DEF Shutdown, ToldUnlessAsked
<1>10. CASE UNCHANGED vars
  BY <1>10, TableTold DEF vars, sessionVars
<1>. QED
  BY <1>1, <1>2, <1>3, <1>4, <1>5, <1>6, <1>7, <1>8, <1>9, <1>10,
     BroadcastsTold DEF Next

(* For any number of clients: a client attached to a terminal, with no     *)
(* ATTACH of its own under way, was last told what the lock is.            *)
THEOREM LockIsKnown == Spec => []AttachedKnowTheLock
<1>1. Init => ToldUnlessAsked
  BY DEF Init, ToldUnlessAsked
<1>2. ToldUnlessAsked => AttachedKnowTheLock
  BY DEF ToldUnlessAsked, AttachedKnowTheLock
<1>. QED
  BY <1>1, <1>2, InitLockInv, NextLockInv, NextTold, PTL DEF Spec

-----------------------------------------------------------------------------
(* A lock whose holder, reservation and windows stay has the same owner.   *)
LEMMA SameOwner ==
  ASSUME NEW ch \in Channels, holders'[ch] = holders[ch],
         reservations'[ch] = reservations[ch],
         reservations[ch] = NoWindow /\ holders[ch] # NoClient
           => windows'[holders[ch]] = windows[holders[ch]]
  PROVE  Owner(ch)' = Owner(ch)
BY DEF Owner

(* A disconnect leaves each lock with the window it belonged to.           *)
LEMMA DisconnectOwner ==
  ASSUME LockInv, NEW c \in Clients, Disconnect(c), NEW ch \in Channels,
         Owner(ch) # NoWindow, ~stopped
  PROVE  Owner(ch)' = Owner(ch)
<1>. USE NoClientAssumption, NoWindowAssumption
<1>1. /\ holders' \in [Channels -> Clients \cup {NoClient}]
      /\ holders'[ch] \in NextHolders(ch, c)
      /\ reservations'[ch] = IF KeptOnDisconnect(ch, c) THEN windows[c]
                                                       ELSE reservations[ch]
      /\ \A o \in Clients : o # c => windows'[o] = windows[o]
  BY DEF Disconnect, LockInv, TypeOK
<1>2. CASE holders[ch] = c
  <2>1. reservations[ch] = NoWindow /\ Owner(ch) = windows[c]
    BY <1>2 DEF LockInv, WriterMayType, isHolder, isWriteLockHolder, Owner
  <2>2. MustWait(ch, c)
    BY <1>2, <2>1 DEF MustWait
  <2>3. CASE KeptOnDisconnect(ch, c)
    BY <1>1, <2>1, <2>3 DEF Owner
  <2>4. CASE ~KeptOnDisconnect(ch, c)
    <3>1. holders'[ch] \in Returned(ch, c)
      BY <1>1, <1>2, <2>2, <2>4 DEF NextHolders
    <3>2. holders'[ch] \in Clients /\ holders'[ch] # c
      BY <3>1 DEF Returned, LockInv, TypeOK
    <3>3. windows'[holders'[ch]] = windows[c]
      BY <1>1, <3>1, <3>2 DEF Returned
    <3>. QED
      BY <1>1, <2>1, <2>4, <3>2, <3>3 DEF Owner
  <2>. QED
    BY <2>3, <2>4
<1>3. CASE holders[ch] # c
  <2>1. holders'[ch] = holders[ch] /\ reservations'[ch] = reservations[ch]
    BY <1>1, <1>3 DEF NextHolders, KeptOnDisconnect, MustWait
  <2>2. holders[ch] # NoClient => windows'[holders[ch]] = windows[holders[ch]]
    BY <1>1, <1>3 DEF LockInv, TypeOK
  <2>. QED
    BY <2>1, <2>2, SameOwner
<1>. QED
  BY <1>2, <1>3

(* An attach gives a kept lock to the window it is kept for, or changes    *)
(* the owner of none.                                                      *)
LEMMA LockAttachOwner ==
  ASSUME LockInv, NEW d \in Channels, NEW c \in Clients, NEW S,
         LockAttach(d, c, S), UNCHANGED windows,
         NEW ch \in Channels, Owner(ch) # NoWindow
  PROVE  Owner(ch)' = Owner(ch)
<1>. USE NoClientAssumption, NoWindowAssumption
<1>1. CASE ch # d
  <2>1. holders'[ch] = holders[ch] /\ reservations'[ch] = reservations[ch]
    BY <1>1 DEF LockAttach, EndReservation, LockInv, TypeOK
  <2>. QED
    BY <2>1, SameOwner
<1>2. CASE ch = d
  BY <1>2 DEF LockAttach, EndReservation, Owner, LockInv, TypeOK
<1>. QED
  BY <1>1, <1>2

(* Each step either leaves a lock with its window or is one that gives it  *)
(* up.                                                                     *)
LEMMA NextOwner ==
  ASSUME LockInv, [Next]_vars, NEW ch \in Channels,
         Owner(ch) # NoWindow, Owner(ch)' # Owner(ch)
  PROVE  GivesUp(ch)
<1>. USE NoClientAssumption, NoWindowAssumption
<1>1. ASSUME NEW c \in Clients, NEW w \in Windows \cup {NoWindow}, Authenticate(c, w)
      PROVE  FALSE
  <2>1. reservations[ch] = NoWindow => holders[ch] # c
    BY <1>1 DEF Authenticate, Owner, LockInv, AwayIsNowhere
  <2>. QED
    BY <1>1, <2>1, SameOwner DEF Authenticate, lockVars, LockInv, TypeOK
<1>2. ASSUME NEW c \in Clients, Disconnect(c)
      PROVE  GivesUp(ch)
  <2>1. stopped
    BY <1>2, DisconnectOwner DEF LockInv, TypeOK
  <2>. QED
    BY <1>2, <2>1 DEF Disconnect, GivesUp
<1>3. ASSUME UNCHANGED <<windows, holders, reservations>>
      PROVE  FALSE
  BY <1>3, SameOwner
<1>4. ASSUME NEW c \in Clients, NEW d \in Channels,
             AttachAnswered(c, d) \/ SpawnOk(c, d)
      PROVE  FALSE
  BY <1>4, LockAttachOwner DEF AttachAnswered, SpawnOk
<1>5. ASSUME NEW c \in Clients, NEW d \in Channels,
             \/ Detach(c, d) \/ WriteClaim(c, d) \/ WriteForce(c, d)
             \/ (\E to \in Clients : WriteGrant(c, d, to)) \/ WriteRelease(c, d)
      PROVE  GivesUp(ch)
  <2>1. CASE d # ch
    <3>1. UNCHANGED windows /\ holders'[ch] = holders[ch]
          /\ reservations'[ch] = reservations[ch]
      BY <1>5, <2>1 DEF Detach, WriteClaim, WriteForce, WriteGrant,
         WriteRelease, EndReservation, LockInv, TypeOK
    <3>. QED
      BY <3>1, SameOwner
  <2>2. CASE d = ch /\ Detach(c, ch) /\ holders[ch] # c
    <3>1. UNCHANGED windows /\ holders'[ch] = holders[ch]
          /\ reservations'[ch] = reservations[ch]
      BY <2>2 DEF Detach, LockInv, TypeOK
    <3>. QED
      BY <3>1, SameOwner
  <2>3. CASE d = ch /\ ~(Detach(c, ch) /\ holders[ch] # c)
    BY <1>5, <2>3 DEF GivesUp, isHolder, WriteRelease
  <2>. QED
    BY <1>5, <2>1, <2>2, <2>3
<1>6. ASSUME NEW d \in Channels, GraceEnded(d)
      PROVE  GivesUp(ch)
  <2>1. CASE d = ch
    BY <1>6, <2>1 DEF GivesUp
  <2>2. CASE d # ch
    <3>1. UNCHANGED windows /\ holders'[ch] = holders[ch]
          /\ reservations'[ch] = reservations[ch]
      BY <1>6, <2>2 DEF GraceEnded, LockInv, TypeOK
    <3>. QED
      BY <3>1, SameOwner
  <2>. QED
    BY <2>1, <2>2
<1>7. CASE Shutdown
  BY <1>7 DEF Shutdown, GivesUp
<1>8. ASSUME \/ \E c \in Clients : Spawn(c) \/ SpawnFails(c)
             \/ \E c \in Clients, d \in Channels :
                  Attach(c, d) \/ AttachNotFound(c, d) \/ AttachStartsOver(c, d)
             \/ \E d \in Channels : ChannelExit(d) \/ ChannelForgotten(d)
      PROVE  FALSE
  BY <1>3, <1>8 DEF Spawn, SpawnFails, Attach, AttachNotFound, AttachStartsOver,
     ChannelExit, ChannelForgotten, lockVars
<1>9. CASE UNCHANGED vars
  BY <1>3, <1>9 DEF vars, lockVars
<1>. QED
  BY <1>1, <1>2, <1>4, <1>5, <1>6, <1>7, <1>8, <1>9 DEF Next

(* For any number of clients, windows and terminals: no reload, dropped    *)
(* socket, attach or spawn takes a window's lock from it.                  *)
THEOREM LockStaysWithItsWindow == Spec => WindowKeepsItsLock
<1>1. LockInv /\ [Next]_vars =>
        [\A ch \in Channels :
           Owner(ch) # NoWindow /\ Owner(ch)' # Owner(ch) => GivesUp(ch)]_vars
  BY NextOwner
<1>. QED
  BY <1>1, InitLockInv, NextLockInv, PTL DEF Spec, WindowKeepsItsLock
=============================================================================
