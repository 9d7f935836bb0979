# Lasterm: terminals, their locks, their hosts, their output and uploads, in TLA+

Lasterm is a terminal multiplexer. A **hub** (TypeScript, `packages/hub`) keeps the sessions; **agents** (Rust,
`crates/lasterm-agent`) run the shells, on the hub's machine or over SSH, often as a daemon that outlives the
connection; **clients** (web, desktop) attach to terminals through the hub's WebSocket. This project models the parts
that decide who may type, which shells run, which connection a host has, who is asked for a password, what a pane shows
and what arrives of an upload, because that is where many actors meet over state nobody locks.

Paths below are relative to the repository; `session/` stands for `packages/hub/src/session/`.

## 1. Inventory

| Component | State it keeps | Operations | What makes it correct |
|---|---|---|---|
| Write lock (`session/write-lock.ts`, `ws/`) | holder, attached clients, window of each client, kept locks and their timers | ATTACH, SPAWN, DETACH, WRITE_CLAIM / GRANT / FORCE / RELEASE, disconnect, grace, shutdown | one writer, who may type; a window that reloads keeps its lock; everyone attached knows it |
| Terminals of a host (`session/channel-lifecycle-manager.ts`, `agent-connection.ts`) | channel table, claims, clock, meta.db rows, requests under way | SPAWN, restart, bring back, close, ATTACH, judging the daemon's list, CHANNEL_EXIT, session end, restart of the hub | one start at a time; no shell unseen; no judgement older than the start it ends |
| Agent (`handler.rs`, `daemon.rs`) | table of shells, reader tasks, routes, what is kept while the hub is away | SPAWN, DESTROY, ATTACH, greeting with the list, exits | answers and exits mean the shell they are about |
| Connection of a host (`session/session-manager.ts`, `session-acquisition.ts`, `ssh-connection-manager.ts`, `host-reachability.ts`) | session, connection, acquisition and leases, reconnect timer, attempt, the user's hold, quit latch | SPAWN, Connect, Reconnect, Disconnect, ATTACH, restart, lost link, timer, session end, quit | one connection; nobody waits for nobody; Disconnect and quit are final |
| Session status (`session/state-broadcaster.ts`) | what every client was told | status changes, detach | status says what is |
| Prompts (`session/prompt-context.ts`) | contexts, routes, delivery epochs | ask, answer, cancel, put to another window | an answer goes to the question it was given to; every question ends |
| Output (`session/output-chunker.ts`, `snapshot-scheduler.ts`, `spool-gc.ts`, storage, the pane's `useTerminal.ts`) | sequence numbers, buffers, spool, snapshots under way | chunk, flush, snapshot, ATTACH and its replay, collect, purge | a pane shows the output in order, once; a stored replay with a hole becomes whole; nothing goes that was not meant to |
| Agent's output (`flow.rs`, `batch.rs`, `away.rs`, `daemon.rs`) | charges, batches, queues of connections, what is kept while the hub is away | read, hold back, batch, route, write, keep, drop | order; bounds hold; a reader held back goes on; last words and quiet terminals survive |
| Send queue (`session/send-queue.ts`) | one bounded queue to an agent | enqueue, drop the oldest | what is dropped is noticed |
| Retirement (`session/agent-retirement.ts`, `daemon-stop.ts`) | starts under way, stops under way | stop an outdated agent that holds nothing | no start lands on an agent that stops |
| Uploads (`transfers/transfer-service.ts`, `files/sftp-upload.ts`) | files and their states, temporaries, requests under way, rows in meta.db | start, chunk, place, resolve, cancel, retry, join, resume, discard, expire, lost link, restart of the hub | what is placed is whole; nothing is replaced unasked; what is said is so; every file comes to rest |
| Locks of the process and of the hub (`crates/lasterm-process-lock`, `lasterm-hub-lock`) | lock files | take, take over, release | one hub per state directory |
| Tokens and pairing (`auth.ts`, `api/pair.ts`, `api/tokens.ts`) | tokens, codes, limits | pair, revoke | a code works once; a revoked token has no socket |
| Deployment, SSH, files, storage, wire, REST, clients | mostly input and output | | see `PROJECT.json` |

**How they interact.** A client's frame runs a handler of the hub to its first `await`; what it waited for goes on
later, in a state others have changed meanwhile. Hub and agent exchange frames over one ordered connection that may
drop with frames under way, at which point a timer reaches for the host again. A daemon serves one connection of a hub,
and drops the older when a newer one comes. A dial may ask a person, through one window, and waits for as long as that
takes. Output flows from the shell through the agent's bounded queues to the hub, which shows it to panes and stores
it; an upload flows from a window through the hub to the host's SFTP server, one request after another. Components
share the maps of `SharedSessionContext` (`session/session-context.ts`): there are no locks, only checks before and
after each wait.

**What is hard.** Steps of two clients between two waits; answers that are older than what they are applied to; a
timer or an abort that crosses the end of what it guards; loss of a connection at any frame; a crash between what is
said and what is recorded. `PROJECT.json` lists these as hazards, each at its line.

## 2. Modules

| Module | Models |
|---|---|
| `WriteLock` | `WriteLockManager` with the socket handlers that drive it |
| `WriteLockProofs` | theorems about it |
| `Terminals` | the terminals of one host: hub, connection and daemon |
| `TerminalsProofs` | theorems about it |
| `HostConnection` | the connection of one SSH host that keeps a daemon |
| `HostConnectionProofs` | theorems about it |
| `Prompts` | the questions the hub puts to people, who asks, who answers, and the dialogs |
| `PromptsProofs` | theorems about it |
| `Replay` | what a pane shows of a terminal: screen, live output, stored replay |
| `ReplayProofs` | theorems about it |
| `Spool` | the rows of one channel in spool.db, their numbers, and the collector |
| `SpoolProofs` | theorems about it |
| `Stream` | abstract: what the agent promises of its terminals' output |
| `AgentOutput` | the way of output through the agent's daemon; implements `Stream` |
| `AgentOutputProofs` | theorems about it, the refinement among them |
| `Transfers` | one upload to a remote host: hub, window, host and meta.db |
| `TransfersInvariant` | the inductive invariant of `Transfers`, and the words of its proof |
| `TransfersProofs` | theorems about it |

A handler that runs without waiting is one action. A handler that waits is one action per stretch between two waits, and
everything else may happen while it waits. Names are the code's where TLA+ allows it. An operator whose comment starts
with "As if" or with "Mutant:" is a mutant: the definition next to it with one plausible mistake, which a property must
notice. No specification uses it.

### WriteLock

`holders`, `attached`, `windows` and `reservations` are the manager's maps, `timers` counts the grace timers armed per
terminal (the code keeps one handle per reservation, and an unbalanced clear would show as a wrong count), `clients` and
`channels` are the part of the channel table that decides who hears of a lock, and `told` is what each client was last
told. A client is one socket and its id is never used again: a reload is one client leaving and another of the same
window coming, in either order. ATTACH and SPAWN wait for the agent and are two actions each.

### Terminals

The hub's side is the channel table (`tracked`, `startedAt`), meta.db (`record`), the claims (`starting`), the starts
under way, and the questions put to the agent. The agent's side is its table of shells, the processes that run, one
reader per shell, and exits on their way through the batch loop and the output router. `toAgent` and `toHub` are the
ordered connection. Four variables, `believed`, `gaveUp`, `judged` and the request a shell is named by, are history.

Two facts of the code shape the model. Answers go straight to the connection while exits pass through the output
pipeline, so that they can overtake each other. And `AgentConnection.handleData` handles every frame of one read before
the code that awaits one of them goes on: `answered`, `listed` and `notFound` hold what has its answer and has not gone
on, more frames may be read in between, and no other task of the hub runs before (`Settled`).

A restart sends its DESTROY as it is claimed, when its terminal is live and the host connected, and then waits for its
host: the SPAWN comes later, over the connection there is then, or never (`StartRefused`). A start that waited for a
password while its host was connected again may in the model use the new connection too.

Abstracted: a terminal whose last client left (`orphan`) counts as live; one ATTACH of an id is under way at a time; a
daemon registers a connection and lists what it holds in one step; a shell that is signalled has ended; a daemon's
reading of a connection that was displaced ends with it. Not modelled: agents on stdio, elevation, STOP, the teardown of
a shell that fails.

### HostConnection

A **task** is whatever waits: a SPAWN, a Connect, a timer's attempt, the dial of an ATTACH or of a restart. It is
numbered as it begins, and what it makes (an acquisition, a session, a connection) carries its number, so that "still the
same one" in the code is an equality of numbers in the model. A dial is one wait, whatever it deploys or asks the user,
and ends in success or failure at any time. Between success and the end of the task the daemon is asked what it holds.

A task that waits for `connectPromise` goes on before anything else once it is settled (`Resuming`), as promise
continuations do. Clients are not modelled one by one: the client of a SPAWN may leave, and the session may become
`detached` while a terminal exists. `RECONNECT_TIMEOUT_MS` may have passed at any failed attempt.

`mixed` is history. The dial of an ATTACH or of a restart takes no acquisition and cancels no timer, so it may open a
connection beside another (section 3). It is true from such a dial on until the host is at rest again: no task, no armed
timer, no acquisition, no connection, no session that is starting. `OneConnection` and `AgentServesASession` say what
holds while it is false, with every request allowed.

Abstracted: `getOrCreateSession` never really waits, and is one step with the acquisition; a restart is its reconnect
only; the terminals a daemon reports are those that were begun before it was asked. Not modelled: hosts on stdio,
uploads, retirement and the stop of an agent, what follows `beginQuit`.

### Prompts

`contexts`, `prompts` and their epochs are `promptContexts` and `pendingPrompts` of `session/prompt-context.ts`; `ops`
are the operations that ask (an acquisition, a reconnect, a test of a host, an elevated shell); `acq`, `leases` and
`controller` are what decides who else may be asked. The handlers of the code call each other, so each is an operator
from one `World` to the next and an action is one composition of them (`Become`). `toClient`, `toHub` and `dialogs` are
the sockets and the queue of `usePromptQueue.ts`: messages about different questions touch different dialogs, and only
those of one question are ordered.

Abstracted: what is asked and answered; a password and a host's key differ only by their dialog. What a dial does between
two questions is one step. The code undoes a question whose `send` throws; that happens only for a client that is not
in `ctx.clients`, where `prompt` has just found it, so the model has no such step. Not modelled: `ask-again.ts`.

### Replay

Output is counted in units. The agent has `printed` them, its batch loop has `routed` a part; a screen is the number of
units it shows. `wire` is the ordered connection, which answers, events and output share. The hub has the chunker's
`buffer`, the newest snapshot `snap` and the `tail` stored after it, the scheduler's `changed`, `inFlight` and `timer`.
A pane is away, asks, was answered (its handler goes on after the rest of the read, as in `Terminals`), or shows the
agent's answer or the spool's. `overlooked` is history: what was lost that the scheduler cannot know of.

Abstracted: of the spool, only what an ATTACH reads; resizing is one action that makes the scheduler ask again. Not
modelled: a pane that attaches again while its earlier ATTACH is under way, and so subscribes twice
(`useTerminal.ts:520`); `PaneInOrder` says nothing of it.

### Spool

`rows` of one channel, each with its number, kind and, as history, the life of the terminal that wrote it; the chunker's
`nextSeq` and whether it `held` output; the collector's job `gc`, which takes one step of its slicer at a time, between
which the hub writes, closes, restarts and deletes. Sizes and ages are choices: where a pass stops fitting, how much a
batch takes, whether a dead channel is past its retention.

### Stream and AgentOutput

`AgentOutput` follows one read of a terminal (one unit) through the reader task, `pipe`, the batcher's `buf`,
`batched`, the router, and the queue `out[c]` of the hub's connection or the `away` queue. `flow` is what is charged,
split as the code does into what is in transit and what is queued to the current connection; `heldBack` are readers
that wait for it to drain. Connections break, go and are replaced while frames are queued. `away` has a queue per
terminal and ranks each frame among all the hub's, as `AwayQueue` does: the drops of `push` are what `WithinTerminal`
and `WithinHub` leave of the queues, and `Drained` puts what is left in the order of the ranks. Sums are cardinalities
(`Total`), not recursion, so that they can be reasoned about.

`Stream` says what this promises: a terminal's frames are heard in the order said, each at most once, over one connection
after another, and some may be lost. `TheStream` is the refinement: `said`, `over` and `heard` map to themselves, and
every step of the pipeline between them is a stutter or one of `Stream`'s.

### Transfers

The hub's part is one record, because its handlers call each other: each is an operator from that record to the next,
and an action is one composition. A loop of the code (the pump, a lost link, a start) is `Each`, which takes its files
one after another, and what an answer of the host does to the hub is one operator per request (`*Done`). `hub.wire` are
the requests to the host: an SFTP server runs and answers a session's requests in order, so the answer to a request and
its effect are one step while the link is up, and a lost link leaves any prefix of them done. `host` are the
temporaries, their bytes, and what has each file's name; `saved` are the rows of meta.db; `asked` is history: what
somebody said to replace. A chunk is known by its offset.

`writers` are the windows that may type into the upload's terminal: the pump starts the files of no other (a terminal
that ended lets all its windows). What a window asks is not guarded by it, because the code looks at that right before a
wait and not after. `again` are retries that wait for their host to be connected: which files go again is chosen before
the wait, and they are queued after it whatever they have become.

The host may refuse any request but a close. What follows differs by request: a look or a cut that is refused starts the
file again, a removal that is refused counts as done, an opening, a write, a check or a placement that is refused fails
the file; a placement whose hard link was made and whose temporary cannot be removed fails it too (`removeOn`). A lost
link interrupts instead, but for a look of `open`, whose error is swallowed, and for that last removal.

`Overlapped` is history: a file was asked for again while an earlier opening of it, or a look at the upload's
temporaries, was still under way, or after a wait in which it had become something else. The code allows it, and two runs
of `open` are then at work on one file. The properties below promise nothing from there on, except `ReplacedWhenAsked`;
`transfers_overlap` shows what may come of it.

Abstracted: a terminal's end counts as a change of the lock; removals left from a discard and the take-up of a dropped
link are asked in one step of `Reconnect`, while the code chains them, but one upload never has both; a replacement that
finds the connection gone before it names its temporary keeps none.

Not modelled: folders, direct placement of small files, the sweep of old temporaries, files that changed meanwhile,
several uploads at once, digests, the exec and the local transport.

## 3. Runs

Every passing run explores its whole state space. `Replay` and `Spool` also check for deadlock; the others say
`CHECK_DEADLOCK FALSE`, because people may stop asking, and the bounds on tasks, starts, sockets and events end every
behaviour. `TypeOK` is in no run: it is a theorem of every module (of `Transfers`, until a file is opened twice).

| Run | Question | Bounds |
|---|---|---|
| `write_lock` | Is the lock consistent, known to all, kept across reloads, and a kept one always resolved? | 2 sockets, 2 windows, 1 terminal |
| `terminals` | One start at a time, records that agree, no shell unseen, no late judgement, every claim given back once its SPAWN was sent? | 1 id, 2 starts, 2 connections, 1 crash, no restart asked for over more than 1 frame under way |
| `host` | Do leases, promises, the quit latch and a Disconnect hold against everything? But for what the dial of an ATTACH or a restart disturbs, is there ever a second connection, or one without a session? | 4 tasks, every request |
| `prompts` | Does anyone wait for an answer nobody can give? Is a dialog open for a question that is over? | 2 clients, 2 operations of any kind, 2 questions |
| `replay` | Does a pane show the output in order and once, and does the stored replay become whole again? | 2 units, 2 slots, tail of 1, 2 attaches, 1 fault |
| `spool` | Do numbers stay free, and does the collector delete only what it meant to? | 4 numbers, 2 lives, 2 snapshots under way, 1 restart |
| `agent_output` | Are counts true, bounds kept and readers resumed? Is it a `Stream`? | 2 terminals, 4 reads, 1 event, 2 connections |
| `transfers` | Is what is placed whole and what is said so, and is nothing replaced unasked? | 1 file of 2 chunks, policy `ask`, 4 temporaries, 2 faults, 2 asks, 3 of both |
| `transfers_rest` | Does every file come to rest, and is that said? | the same with 1 fault, 2 asks |

Why these are enough. *Write lock*: a holder and one more socket, of its window or of another, are what every handler
looks at; that more of them change nothing is what its theorems say. *Terminals*: a judgement that is too late takes a
start before the question and one after; two connections give a list of each and what was lost between; what is decided
of one id reads nothing of another. *Hosts*: a leader, a follower, a request that calls it off and the one that comes
after are four tasks. *Prompts*: an owner and another window to put the question to; an operation and one that takes
over or joins. *Replay*: a unit on each side of a snapshot, a second attach beside the first, and an answer after its
timeout beside the next request. *Spool*: the theorems are for any number of rows; the run adds the liveness. *Agent*:
a busy terminal and a quiet one, marks small enough that two reads fill them, an away queue that both together
overflow. *Transfers*: two chunks make a first, a last and a place to stop between; the third event is what meets the
state two others left; no behaviour within these bounds names a fifth temporary. That every file comes to rest takes
two asks (the lock goes and comes back, a window leaves and another resumes); with two faults and one ask it was
explored besides, and holds. Its safety theorems are for every policy and any number of files.

**Fairness.** `WriteLock!FairSpec` is fair to the grace timer alone. `Terminals!FairSpec` is fair to the timer of a
SPAWN that was sent and to continuations whose answer was read; nothing is asked of the connection, of the agent, or of
the wait for a host before the SPAWN, whose dial may ask a person and wait for good (`host_stranded` shows another way
it may not end). So `ClaimIsReleased` is about a start whose SPAWN was sent, and its claim comes back even when both
ends are silent. `HostConnection` and `Prompts` state no fairness: a dial may wait on a question no one answers, and
the code bounds that by nothing. `Replay` is fair to the agent's tasks, to the hub's reads and to the scheduler's
timers; nothing makes a terminal print, a pane attach or a connection come back. `Spool` is fair to the collector,
whose timer runs as long as the hub. `AgentOutput` is fair to the batch loop, to the router, to the writer of the
current connection and to a reader whose flow has drained: a connection either takes what is written to it, breaks, or
is replaced. `Transfers` is fair to the host's answers, to the pump's and the flush's timers, and to a window that is
there and was asked for bytes; `ComesToRest` supposes that from some time on the window and the host stay and the
window may type, and excepts refusals of which nothing is said (`transfers_refused`).

**Refinement.** `InOrderAtMostOnce` of `agent_output` is `Stream!Spec` under the mapping `TheStream`.

### Disagreements

Three runs look for a state that a comment rules out, and find it. Each is quoted in `PROJECT.json`.

| Run | What happens |
|---|---|
| `host_stranded` | A Connect that loses its link while the daemon is asked strands who joined it |
| `transfers_refused` | The host refuses a chunk, an opening or a check: the file fails, and nobody is told |
| `transfers_overlap` | A file asked for again while it is still being opened is opened twice, and placed with a hole |

The following are definitions of the modules that no run lists; TLC finds each violated when it is added to its module's
configuration.

| Definition | What happens | What rules it out |
|---|---|---|
| `WriteLock!HolderIsConnected` | A client that left while the agent was asked, or was granted the lock after it left, holds it | `session/write-lock.ts:331` |
| `Terminals!ExitIsItsOwn` | The exit of a closed shell is read against the one that took its id | `docs/PROTOCOL.md:269` |
| `Terminals!StartedIsNoOrphan` | A terminal brought back while the list was awaited is destroyed as an orphan | `session/channel-lifecycle-manager.ts:1307` |
| `HostConnection!DisconnectKeepsTerminals` | Disconnect during a Connect ends terminals the daemon keeps | `docs/SPEC.md:1248` |
| `HostConnection!LostIsFollowed` | An ATTACH's dial stops the reconnect loop, and both fail | `docs/SPEC.md:1189` |
| `Prompts!NewerIsNotClobbered` | An attempt that settles late clears the questions of the one that replaced it (`session/session-manager.ts:563`) | `session/session-manager.ts:501`: "so a concurrent newer attempt is not clobbered" |
| `Replay!AttachLeavesNoGap` | Output of the read that answered an ATTACH went by before its pane subscribed | `session/session-manager.ts:1906`: "There is no gap between the two to fill" |
| `Spool!JudgedIsAllThatGoes` | A terminal brought back after its channel was judged dead loses what it printed since | `session/spool-gc.ts:227` |
| `Transfers!CancelRemoves` | A cancel leaves a temporary: the backend is let go of before the write or the close was answered | `transfers/transfer-service.ts:709`: "and remove its temporaries" |

Further behaviours of the models that disagree with the repository's words, or that a reader of the code should know of:

- A restarted shell that ends in the same read as its SPAWN_OK is shown live for good: `applyRestartState` runs after the
  exit was handled (`session/channel-lifecycle-manager.ts:788`; `docs/SPEC.md:961`).
- A terminal that a list left to a start under way stays live without a shell when that start fails
  (`session/channel-lifecycle-manager.ts:503`; the comment at 492 says that start's answer decides).
- The connection is the host's while its acquisition is still there, for as long as the daemon takes to say what it
  holds (`session/session-manager.ts:1254`; the comment above it rules that out). A SPAWN meanwhile has no lease of a
  connection the leader may close.
- `scheduleReconnect` replaces the timer it keeps without clearing it (`session/ssh-connection-manager.ts:634`). An
  ATTACH that reconnects while one waits, and a second lost link, leave two armed: a Connect calls off one, and the
  other opens a connection beside it (`docs/SPEC.md:1256`). This is what `mixed` excepts.
- The dial of a SPAWN that a Disconnect called off, failing late, removes a session a newer Connect is using
  (`session/session-manager.ts:1231`; the comment at 1228 says only a session freshly started).
- `docs/SPEC.md:951` says an ATTACH makes a `detached` session `active`; nothing does.
- A snapshot asked for a second time replaces the first one's timeout: an answer that never comes then keeps its slot,
  and one that comes late frees it twice (`session/snapshot-scheduler.ts:164`). `SlotsComeBack` says what holds: slots
  do not run out for good.
- The continuation of an ATTACH may store an older screen over a newer one of the same read; output batched by the agent
  when a screen is taken is sent after it, and shown twice until the next one; a replay from the spool lacks what the
  chunker still holds.
- A connection of the agent that ends takes its queue with it: what was queued is charged no more, and not kept. Events
  are charged but never held back, and what a stuck connection that was replaced still holds is counted nowhere.
- A host that makes the hard link and refuses to remove the temporary has the file under its name, and the hub says it
  failed (`files/sftp-upload.ts:300`); `OutcomeIsTrue` excepts it. The same link lost at that removal says failed, not
  interrupted.
- A discard while a file is checked does not stop its placement (`finishFile` and `place` do not look again; the
  comment at `transfers/transfer-service.ts:2571` says a placement under way stops there). A placement whose answer was
  lost meets its own file as a conflict, or makes a second copy. A crash before the first save leaves a temporary to
  the sweep.

## 4. Proofs

TLC checks the instances above; TLAPS proves the following for every value of the constants, from the named assumptions
on them (`NoClient` is no client, ids are finite, bounds are natural numbers). Each is an induction over the actions, one
step per action.

- **WriteLockProofs.** `TypeCorrect`, `LockSafety`, `KeptForTheAway`, `TimersAreKeptLocks`, `LockIsKnown`,
  `LockStaysWithItsWindow`. The safety properties are not inductive alone: a client that has not authenticated could be
  attached. `LockInv` adds that it is nowhere (`AwayIsNowhere`). `LockIsKnown` adds that what a client was told can be
  out of date only while its ATTACH is under way.
- **TerminalsProofs.** `TerminalsTypeCorrect`, `StartsExclude`, `RecordIsKept`, `NothingIsUnseen`,
  `OnlyGoneIsForgotten`. For one start at a time, a claim must not be given back twice: `AnsweredOnce` says that what
  goes on with an answer is a start under way, and does so once. The last two rest on `Sighted`. `Orderly` says that a
  frame under way is of the connection there is, was asked once and is numbered no higher than what was asked.
  `AttachFresh` and `ListFresh` say that what the daemon answered is still so of every terminal not started since the
  question. `AllSeen` gives each shell that runs a reason why the hub will see it: its terminal is tracked, its start
  is being learnt of, its DESTROY is under way, or a list that has it is still to be judged; no step takes the last one
  away.
- **HostConnectionProofs.** `HostTypeCorrect`, `QuitIsFinal`, `DisconnectIsKept`. The count of armed timers is a
  natural number because the one that is kept is armed (`KeptIsArmed`). The two holds follow from `NothingReaches`: a
  hub that quits has no acquisition, and a host its user disconnected has neither an acquisition nor a current attempt;
  only a task with one of these gives the host a connection (`WhoConnects`). `LeasesComeBack`: whoever holds a lease is
  still under way. It needs that a new number is held by nobody, and that an ATTACH, a restart and a timer take none
  (`LeaseInv`). `WaitersAreFreed`: a promise that is pending is the host's acquisition's, because every way an
  acquisition goes settles it in the same step, and what is settled stays so (`SettledAsItGoes`). `ConnectionServes`
  and `OnlyOneConnection`, with every request allowed: `DialInv` holds or the host is `mixed`, and a host that comes to
  rest has it again. It says who may still succeed: one timer is armed, the one that is kept, and only for a session
  that lost its connection; one attempt is not aborted, and only while no timer waits; a leader whose acquisition is
  the host's dials while there is neither, nor a connection; a Connect that dials for the host's session was not called
  off; a session that is starting is dialled for by whoever holds the acquisition, so no SPAWN that fails late takes
  another's session (`SpawnLeadsIt`); and a connection whose task still asks the daemon is the host's or down
  (`AdoptedIsKept`), so the last client's leaving closes both together.
- **PromptsProofs.** `PromptsTypeCorrect`, `WaitersAreAsked`, `WaitersAreShown`, `DialogsAreLive`, `OwnQuestionsAreKept`.
  The invariant is a property of worlds (`Sound`), so that each operation of `prompt-context.ts` is shown to keep it once
  and the actions compose those: a context holds the questions that name it, who waits has one, routes lead to contexts
  that are there, an open dialog is of the current epoch or its end is on the way, and a question is shown once. Only a
  client that leaves is argued as a whole, because it breaks several parts at once before it restores them.
- **ReplayProofs.** `ReplayInOrder` (type correctness with the order), `PanesAreInOrder`, `SlotsAreFreed`,
  `StaleIsRetaken`. `OrderInv` says that what is on the wire or kept in the agent rises and is newer than all the hub has
  read, and that what the hub stored or a pane shows rises and is not. A stale stored replay is known to the scheduler
  (`StaleInv`): while it knows of no change, the last screen that comes shows all the hub has read, or has not been taken
  yet (`LastScreenIsNew`).
- **AgentOutputProofs.** `OutputTypeCorrect`, `PipelineIsAStream`, `LastWordsStay`, `CountsAreExact`,
  `OutputStaysBounded`. The refinement rests on four marks per terminal, how far it was sent, kept, flushed and
  accepted at least (`Ordered`): every stage lies between two of them, so a frame that is written is newer than all
  that was written before, over whichever connection. The marks are not variables; `OrderInv` says that some exist, and
  each action says which come next. Last words: what `push` leaves of a queue is an end of it, and never nothing of
  something (`EndOf`). Counts: sums are cardinalities of sets of cells, from which `TotalSplit` and `TotalOfSame` give
  every law needed; `CountInv` adds that only output is buffered, that whatever is queued was counted and that a kept
  frame's length is true. The bound: output that waits is charged, so whoever reads and is not held back has left it
  below the mark; whoever passes the mark is held back, or ended, before reading again (`BoundInv`).
- **SpoolProofs.** `SpoolTypeCorrect`, `NumbersAreFree`, `OnlyWhatWasReadGoes`, `ReplayIsKept`. `SpoolInv` adds that the
  numbers are bounded, without which there is no highest one (`LargestExists`, from the well-foundedness of the natural
  numbers). That a batch takes nothing written since its range was read needs `RangeIsHeld`: batches go from the oldest
  up, so a row at or above the end of the range is there until the whole range was deleted, and numbers given meanwhile
  are above it. `NewerIsThere` says the same of snapshots.
- **TransfersProofs.** `UploadsTyped`, `PrefixIsKept`, `OnlyWholeIsPlaced`, `OutcomeIsSo`, `OnlyAskedIsReplaced`, for
  any number of files, chunks, requests, refusals and faults, until a file is opened twice (`Overlapped`, which
  `UploadInv` has as its other case). Until then `UploadInv` says that the hub, the host and meta.db agree for some
  account of which file each temporary was named for and which files are under a name already. Per file it relates
  state, temporary, offset and what is placed (`ItemInv`); per request, what it may find (`ReqInv`); and per pair of
  requests under way, which may follow which (`PairInv`): nothing opens, writes to or closes what is being placed, and
  no opening follows one whose answer still counts. Because handlers call each other, each operator is shown to keep
  the invariant of a record while some files, those a handler is at work on, are exempt; an action ends with none
  exempt. The loops are argued over the trace of `Each`: a chain of records, each step of which keeps the invariant, by
  the well-foundedness of the natural numbers. A lost link leaves a prefix of the wire done, which is the same argument
  once per request.

Only model-checked: liveness (`KeptLockIsResolved`, `ClaimIsReleased`, `ReplayCatchesUp`, `OrphanIsEmptied`,
`HeldBackResumes`, `ComesToRest`), which needs fairness; `ReplacedWhenAsked` of a file that was opened twice; and
`QuietIsKept`, which is false for constants that make a single frame larger than a terminal's share of the hub's bound
(a frame that is its terminal's last is never dropped, so others pay for it; with the code's values that takes some
4000 terminals).

## 5. Plan and what is not modelled

Done: the modules above with their runs, and the theorems. In order of what matters:

1. Proofs: `QuietIsKept` where a frame is smaller than a share; `ReplacedWhenAsked` beyond an overlap.
2. `Retirement`, composed with the starts of `Terminals`, the sessions of `HostConnection` and the uploads of
`Transfers`, all of which it reads before it stops an agent.
3. The send queue: a second way for `Terminals` to lose a frame, in the middle and not at the end.
4. Folders and several uploads at once in `Transfers`.
5. An abstract lock, owned by windows and given up by their users, implemented by `WriteLock` (`Owner`).

Not planned. The locks of the process and of the hub are one lock of the kernel each; tokens and pairing are rows each
checked by one statement. Deployment of agents, SSH and SFTP, storage statements, the wire format, REST routes,
configuration, logs, elevation and user interfaces are input and output around the state modelled here; their outcomes
appear as nondeterministic results of a dial, a SPAWN or a request. They are most of the repository's lines (interfaces,
command line, forms, statements, configuration), which is why the mapped part is small beside the whole: it is the part
whose behaviour depends on the order of things.
