# Luxy: specifications of the job system and the private vault

Luxy lets a user start work on one of their own computers from Telegram or from
the desktop application (Studio). A gateway (a Cloudflare Worker over a Supabase
database) keeps a table of jobs; each computer runs an agent that claims jobs,
executes them with a language model and reports what happened. The desktop also
keeps a vault of private conversations, sealed with a key that only the user
has, in step between several computers. This directory specifies both in TLA+,
checks them with TLC on small instances, and proves with TLAPS, for any values of
the constants, the safety properties of the jobs, the approvals, the
synchronisation of the vault and its desktop half.

## 1. Inventory

| Part | State it keeps | Operations | What makes it correct |
|---|---|---|---|
| Jobs table and SQL functions (`supabase/migrations`) | one row per job: status, target and owner machine, lease, start, cancellation | claim, renew, sweep of expired leases, request of cancellation, row updates | one machine per job; a started job is never handed out again; a held job can always be reached by the sweep |
| Gateway handlers for agents (`handlers/api.ts`, `repository.ts`) | none between requests; several statements per request | claim, control, events, complete, fail, cancelled, approvals, registration, heartbeat | what a handler decides from the row it read still holds when it writes; repeated requests are harmless |
| Gateway handlers for users (`studio.ts`, `commands.ts`, `callbacks.ts`) | none | create, cancel, choose a machine, decide about changes | a cancelled job ends; a machine is chosen once |
| Agent (`agent.ts`, `job-runner.ts`) | active job, abort signal, three loops | poll, execute, control poll, flush, approvals, stop | one job at a time; an abort is for the job that runs; every result is delivered |
| Durable results (`outcome-queue.ts`) | `pending-outcomes.json` | replace, flush, restore | a result leaves only when the gateway has it |
| Durable events (`event-queue.ts`) | `pending-events.json`, sequence numbers | push, trim, flush, forget, restore | numbers are unique per job and order is kept, over restarts and second runs; nothing vanishes without a reason |
| Approvals (`approvals.ts`, `handlers/studio.ts`, `callbacks.ts`) | approvals table, consumed set and outcomes in memory | request, resolve, execute, complete | an approved action happens once; the job returns to completed |
| Vault synchronisation (`desktop/.../vault/sync.ts`, `gateway/.../vault-sync-v2.ts`) | records per conversation, base, tombstones, state and anchor | download, upload by batches over a base, freeze on conflict | replicas converge but for what cannot travel; nothing is overwritten; a deleted conversation stays deleted |
| Sync coordinator (`sync-coordinator.ts`) | running pass, one queued pass, holds and waiters | request, hold, settle | one pass at a time; each request is served by a pass that starts after it |
| Vault lock (`vault-lock-coordinator.ts`, `vault-service.ts`) | session, waits of the user, pending lock with two limits | lock screen, unlock, suspend, tick, window closed | the vault is open with a locked screen for a bounded time only, and what the user waits for is not taken away before |
| Private handlers of the desktop (`main/ipc/handlers.ts`) | marks of what is in flight per conversation | send, delete, forget the memory, change the owner | a handler that waited for the pass is alone with the conversation |
| Memories, relation and recap sync, image attempts (`desktop/.../vault`) | sealed envelopes, facts, attempts | derive, merge, upload, retry | not modelled, see section 5 |
| Remote desktop (`remote-protocol`, `remote-crypto`, `handlers/remote.ts`, `remote-host`) | sessions, pairings, replay windows | signalling, negotiation, control, expiry | no control outside a live session; no replay |
| Batch jobs (`agent/src/batch`) | output file and checkpoint | process, mark, append, resume | every row is answered once |
| Providers, tools, runtime process, user interface, shared schemas | - | calls to the outside, rendering, pure data | not a protocol of their own |

How they interact: agents and users call the gateway over HTTP; the gateway
calls the database, one statement per request, with no transaction around a
handler; the gateway's cron calls the sweep once a minute. Agents never talk to
each other. Inside an agent the poll, flush and approval loops, the control poll
of the active job and `stop()` share one event loop and interleave at every
`await`. Results and events survive a crash of the agent on disk.

What is hard: handlers that interleave between their read and their write;
requests given up by the client (30 s) that are carried out all the same;
answers that are lost; leases (120 s) that run out under a partition; crashes
between a change of state and its report; repeated results; numbering that has
to go on after a restart; queues and lists at their limit. In the vault: a
synchronisation pass that works from lists it read before an await, while sends,
deletions and other computers go on; requests that arrive after their pass is
over; locking in the middle of anything. `PROJECT.json` lists each hazard
at its line, with the property that covers it or the reason why none does.

## 2. Modules

| Module | Models | Notes |
|---|---|---|
| `JobTable` | the statements on a row of `jobs` | no variables: `Claimable`/`Claimed`, `Renewed`, `Swept`, `CancelAsked`, `ConversationCancelled`, `Begun`, `Closed`, `Picked`, and `AnswerTo`, what a result is answered |
| `JobLifecycle` | the gateway's handlers, the agents and their durable results, users, time and faults | EXTENDS `JobTable`; the main module |
| `JobAssignment` | the promise: who does a job | abstract; `JobLifecycle!Assignment` instantiates it |
| `JobLifecycleProofs` | theorems: types, who does a job, the refinement of `JobAssignment` | EXTENDS `JobLifecycle` and `TLAPS` |
| `JobResultProofs` | theorems: aborts, results, ends and leases | EXTENDS `JobLifecycleProofs` |
| `EventQueue` | the queue of events and the table it fills | independent of `JobLifecycle`; keeps of a job's row whether it began and whether it ended |
| `EventQueueProofs` | the theorems about `EventQueue` | EXTENDS `EventQueue` |
| `Approvals` | decisions about the changes of a completed job: the buttons, the agent's approval loop, the report | independent of `JobLifecycle`; begins where it ends, with a completed job |
| `ApprovalsProofs` | the theorems about `Approvals` | EXTENDS `Approvals` |
| `VaultSync` | one private conversation on several computers and the gateway: the pass, `records/push`, sends and the deletion | a state machine per await |
| `SharedLog` | the promise of the gateway's rows: added, never changed, no gap but behind what cannot travel | abstract; `VaultSync!SharedRows` instantiates it |
| `VaultSyncProofs` | lemmas about the operators on logs; theorem: types of `VaultSync`, and what a pass and a request look like | EXTENDS `VaultSync` and `TLAPS` |
| `VaultStoryProofs` | theorems: what the copies of a conversation hold, the refinement of `SharedLog` | EXTENDS `VaultSyncProofs` |
| `VaultForkProofs` | theorem: what it takes to freeze a conversation | EXTENDS `VaultStoryProofs` |
| `VaultLock` | the session of the vault, the waits that hold it open, the deferred lock | state and actions, no specification of its own |
| `SyncCoordinator` | single flight, the queued pass, the conversation held, the waiters | EXTENDS `VaultLock`; a closed vault cuts the pass |
| `VaultDesk` | the handlers of the private half between the two | EXTENDS `SyncCoordinator`; the composed specification |
| `VaultDeskProofs` | the theorems about `VaultDesk` | EXTENDS `VaultDesk` |
| `MCJobLifecycle`, `MCEventQueue`, `MCApprovals`, `MCVaultSync`, `MCVaultDesk` | instances for TLC | constants, symmetry sets |

### How `JobLifecycle` corresponds to the code

`jobs` is the table. A handler is not a transaction: one that has read the row
and still has to write is a record in `calls`, which carries what it decided from
the row it read, and what became of the client that sent the request (`waiting`;
`replaced` when the agent has put another result in its place; `gone` when it
timed out or died). Each handler is therefore a read action (`EventsRead`,
`ControlRead`, `OutcomeRead`, `PickRead`) and one or two write actions
(`EventsBegin` then `EventsRenew`, `ControlRenew`, `OutcomeWrite`, `PickWrite`);
handlers that end at the read (`EventsIgnored`, `ControlOfEnded`,
`OutcomeRepeated`) are one action. The SQL functions are one statement each and
one action: `Claim`, `Sweep`, `RequestCancel`. `mode`, `work`, `closing` and
`aborted` are the agent's process, `activeJob`, the stretch between the end of
`runJob` and the end of `executeJob`, and the AbortSignal; `outbox` and `evq` are
what is on disk.

Abstractions, all of them deliberate:

- A lease is null, live or lapsed. `Lapse` lets it run out at any time; while
  its owner's control poll works, that takes one of the `MaxFaults` faults (a
  partition), because the poll renews it every three seconds.
- `evq` says whether a job has undelivered events, not which; `EventQueue` has
  the events. Appending the events and deciding whether to begin are one read
  action, and only one batch of a machine is in flight, as in `flush`.
- Two pending calls that have given up their client and agree in everything
  are one member of `calls`. They do the same write.
- A result is sent as the outbox has it when the handler reads the row;
  `flush` may still send, from its snapshot, one that was replaced a moment ago.
- Writing to disk never fails. Priority, age, metadata, messages and the
  Telegram side of a handler are left out, and so is the machine registry: which
  machine may run which job is the constant `CanRun`.
- The status `waiting_for_approval` is in the type but no action reaches it.
  `Leased` names it because the SQL does.

### How `EventQueue` corresponds to the code

`pending` is the queue, in memory and on disk at once since every change is
persisted before anything else happens. It is a set: events are only ever put at
its end, so the identity of an event (`id`, its place among all that were ever
emitted, which only the model knows) says where it stands, and `Oldest` and
`Newest` are the slices of the array. `next` are the counters, which live in
memory only and are rebuilt by `Renumbered` after a restart. A flush
(`StartFlush`, `Sent`, `SendFails`, `EndFlush`) works on the snapshot `rest`, so
pushes, trims and `Forget` may happen meanwhile. It goes through the jobs in the
order they appear in the queue, each to its end: `Current` is the job a part of
whose events was delivered, or else the one with the oldest event left. A failed request may have been
carried out, not at all, later (`late`), or by half: the handler appends the
events and marks the start in two statements (`api.ts:331`, `:334`), so the table
may have events of a row that never began.

`row` and `begun` are what the queue can tell of the job's row: whether it ended,
and `started_at`. A job whose row never began is claimed again by its machine,
whatever the table has of it (`RunAgain`: the claim looks at nothing else), and its
events are then numbered from where the counter stands, 0 after `forget`. So are
those of an approved action (`Approve`). `stale` is history: at these two moments it
notes which events the numbering has fallen behind, those that the gateway has, or
may yet get, from that number on. `GiveUp` is the end of `executeJob` through its
`catch` (`agent.ts:813`), which forgets nothing; a `Restart` while a job runs leaves
its events too, and its numbering goes on from what is on disk.
`type` tells log lines (`log`, `provider_output`) from everything else. `Spec` has
all of it; `DecidedSpec` leaves second runs out, so that its counterexample shows one
of the two causes of a repeated number.

### How `Approvals` corresponds to the code

`orders` is the approvals table; `status` and `decision` are the two columns of
the job's row that matter (`metadata.studioDecision.state` is the second). The
three handlers make one statement at a time: a press creates the row, approves
it, notes the decision (Studio only) and moves the job to
`waiting_for_approval`; a report reads the row, notes the verdict, gives the job
back and only then settles the row. `presses`, `completions` and `results` are
the handlers between two statements, and each may be lost there. The agent lists
(`List`: of the oldest `PageSize` open orders of everybody, its own), then deals
with what it listed one by one, oldest first (`Due`): `Refuse` at a gate, or
`CarryOut`, and `Report` with the outcome it keeps until the report is answered.
`page`, `outcome` and `consumed` are in memory and go with a `Restart`.

- `mergeJobMetadata` reads and writes; it is one step here because the two
  callers about a completed job put their own key over whatever they read.
- Git is what it may do: a commit needs changes, everything needs the worktree,
  and any of it may fail. Policies are the constant `Forbidden`.
- The event of an executed action is flushed in the background with
  `renewLeaseSeconds` (`event-queue.ts:126`). If it finds the job waiting it gives
  the row a lease that only a result takes away; once that has run out the next
  sweep marks a finished job interrupted. Of all this `Sweep` keeps the
  possibility, for a waiting job with an order that was carried out, at the
  price of a fault of the bound: the lease itself has no variable.
- Left out: the audit file, the messages, and `handleApprovalResolve`, which no
  client calls.
- `past` is history: it names the ways in which the code does lose something, so
  that the properties can say that there are no others.

### How `VaultSync` corresponds to the code

One conversation. A turn is `<<device, n>>`, sealed and never opened; a file and
the server's rows are logs, a turn or none at each sequence. Each action of the
pass is the code between two awaits on the gateway, and its record (`pass`) is
what the code has in local variables across them: the list it read, the
manifest, what is left to fetch or push. `MayKeep` and `Occupied` are in the
same step as the write, as `write` and `appendRemote` have no await in between;
comparing, and starting to upload, read the
file again. `pushes` are the requests of `handleVaultV2RecordsPush`, one
statement per step: owner, ensure, base, insert, and the two reads with which
`classifyVaultRecords` tells repetitions from conflicts.
A request whose pass was cut (`CutPass`, `Crash`) may arrive all the same.

- The manifest and the list are read in pages; here they are one read. Rows are
  only added at the end, so a page read later can only show more, which the next
  action would be told by the gateway anyway.
- Roles (who is a replica) do not change: `Writer` is a constant. `born` and
  `retired` are history.
- The creator's file begins with one turn of the user's that a crash has left
  unanswered, so that there is something to synchronise from the first step.
- `Unfit` are the turns that cannot travel: in a form the contract refuses
  (`sync.ts:872-877`) or too large (`:837-840`; `:909-917` when only the gateway
  finds out). `ToUpload` leaves them out and the pass goes on to the later ones,
  over a base that lies before the hole. The gateway asks only for the base before
  a batch, so a hole may be filled later (`vault-sync-v2.ts:321-343`): a second
  computer, which never saw the turn, writes its own at that sequence. The copies
  then splice at one place, behind the turn that stayed at home; the writer's own
  computer sees two versions and freezes. `Story` says exactly this, and
  `Copied` says that such a turn is all the copies differ in.
- Left out: media, facts and memory envelopes, the purge, local duplicates, the
  halving of a batch answered with 413, the reset of an unreadable state.

### How `VaultLock`, `SyncCoordinator` and `VaultDesk` correspond to the code

Time is kept as what has run out: `idle`, the age of a wait (`old`) and the two
graces of `pending` elapse at any moment once they have begun, and `Tick` is the
interval that looks at them. `Close` is `lock` with its listeners; the one of
the coordinator aborts the pass (`SeesLock`). `Ask`, `Started` and `Ends` are
`request`, `start` and `execute`: one pass, and one request behind it that
every later call joins. A pass takes a conversation (`Take`, `hold`), asks the
gateway about it, writes if it still may (`Write`, where the code asks `isBusy`
and the signal before writing), and lets go (`LetGo`), which wakes
everyone in `settled`. What it writes is `VaultSync`.
`never` is the setting `autoLockMinutes` at 0, which the user may change while the
vault is open (`SetAutoLock`); the interval then looks at no inactivity. `sending`, `erasing` and
`owning` are the three marks of `handlers.ts`; a handler that has marked is
`waiting` for the pass or `alone`.
The waits of the user are the replies, the image of a turn and the images of the
panel, which differ in what they defer.

## 3. Runs

| Run | Instance | Question | Result |
|---|---|---|---|
| `job_races` | 1 job, 2 machines, conversation or Telegram, 3 interleaved handlers, 2 faults | can two agents run one job, a started job go back to the queue, a result be dropped, an end be undone, a row get out of the sweep's reach; is `JobAssignment` implemented | holds |
| `job_turns` | 2 conversations, 1 machine, 2 interleaved handlers | can a control answer abort the wrong job | holds |
| `job_serial` | 1 job of any of three kinds, 2 machines, no interleaving in a handler, 2 faults, fairness | does every job end | holds |
| `job_late_event` | 1 conversation, 2 interleaved handlers, no fault | does a late event leave an ended job alone, as `api.ts:324-326` says | violated |
| `job_pick_race` | 1 job that waits for a machine, 2 machines | does a started job stay out of the queue, as `0002_luxy_job_claim.sql:153` says | violated |
| `job_cancel` | 1 Telegram job, serialised, 1 fault, fairness | does a requested cancellation end the job, as `commands.ts:688` says | violated |
| `event_queue` | 2 jobs, queue of 2, one event per request, 3 events, 1 late request, second runs, decisions, restarts | are numbers unique, is order kept, does nothing vanish, but for what a numbering fell behind | holds |
| `event_numbers` | 1 job, one run, with decisions about it | are numbers unique, as `event-queue.ts:19-20` says | violated |
| `event_trim` | 1 job, queue of 2 | do phases outlive logs, as `event-queue.ts:92-93` says | violated |
| `approvals` | a Studio and a Telegram job, 1 machine, 2 presses, a list of 1, 1 fault, fairness | is an order carried out once, is its row true, is a job left waiting, is Studio told the truth, is every order served | holds |
| `vault_sync` | 2 computers that both write, 4 turns, one of which cannot travel, a deletion, batches of 2, 2 rounds, 1 fault, fairness | is there one story, does nothing local get lost, does a deletion stand, do the copies converge but for the hole; is `SharedLog` implemented | holds |
| `vault_desk` | 2 conversations, one in use, 3 calls of the button, a panel, fairness | is who waited alone, does a pass die with its session, who serves a call, are the graces kept, does the vault close, does everyone go on | holds |

Why `job_serial` forbids interleaving inside a handler: it asks only for the end of
every job, and with the interleaving that fails, since the write of `EventsBegin`
goes over whatever the row holds (`job_late_event`) and may leave a running job
without an owner or a lease. What becomes of ends and leases under free
interleaving is asked by `job_races`: those unconditional writes are the only cause.

What the violations show, step by step:

- `job_late_event`: the events handler reads a claimed conversation; Studio
  cancels it; the handler writes `running`.
- `job_pick_race`: the button's handler reads `waiting_for_machine`; another
  machine claims the job, which is claimable in that status, and its first event
  starts it; the handler writes `queued` and another target.
- `job_cancel`: a machine claims and crashes; the user cancels; the lease runs
  out and the sweep requeues the row with its cancellation flag, which the claim
  function excludes for ever.
- `event_numbers`: the run is over and `forget` has reset the counter; an approved
  action emits an event that gets number 0, which belongs to another event that
  the gateway has or is about to have.
- `event_trim`: a phase and two log lines in a queue of two: the phase goes.

What the new runs found on the way to holding. The properties name these as
their exceptions, and each is what the code does:

- A crash of the agent between git and the settled row makes it carry the order
  out again; a commit fails the second time, a push goes out twice. The consumed
  set of `approvals.ts:67-72` is in memory (`crashed`).
- `repository.ts:547` cuts the list at 20 orders of all machines before it drops
  those of other machines; a list that hides an order makes its agent forget the
  outcome it kept (`agent.ts:659-661` keeps it for the next list); shown again,
  the order is refused as consumed and settled as rejected though it was done
  (`unlisted`).
- An order can be listed, carried out and settled between the approval of the
  row and the last writes of its own press (`studio.ts:443-457`), which then leave
  the decision pending and the job waiting for ever; and a result repeated while
  the job waits rewrites the row with the metadata it read before (`raced`).
- When the events of a run are recorded and the statement that marks the start
  fails, the row was never begun and is handed out again; once the run is over and
  forgotten, the second run is numbered from 0: its first event is answered, dropped
  as a duplicate (`repository.ts:458-487`) and taken off the queue. `NothingVanishes`
  names this, and the same loss of an approved action's event (`stale`).
- A pass ends with "ok" although a turn that cannot travel is missing on the
  server: `sync.test.ts:573-581` expects it, while `ipc.ts:2352` says that both sides
  agree. `Converges` names the difference.
- A conversation frozen because of a turn that was in flight, and then taken
  back, stays frozen although nothing differs any more.
- A handler that changes the owner and one that deletes may both be alone with
  one conversation (`handlers.ts:3297`), so an owner event may be appended after
  the deletion.
- A key still being derived when Windows is locked opens the vault behind the
  locked screen; only inactivity closes it. `ClosesInTheEnd` names the exception:
  no limit of inactivity, and no lock deferred; `vault-lock-coordinator.ts:46-50`,
  which bounds the stay of the key by the graces, speaks of deferred locks only.

`NoJobLeftWaiting` also says what keeps the sweep over a decision harmless in the
end: a job it marked as interrupted still has an open order, and the report of
that order writes completed whatever it finds.

Bounds. One job is enough for what relates a job, its handlers and two machines; two
machines are what a wrong assignment takes. Three calls let a begin, a renewal and a
result overlap, and two faults let a crash follow a partition or a lost answer,
which is what a second run and a replaced result take. Two jobs in turn are what a
misdirected abort takes. A queue of two, requests of one event and three events
reach the limit, split batches, a restart with events on disk and the numbering
after it, for a second run and an approved action too. Two presses are what two
decisions about one job take, a list of one order what a full list takes, and one
fault every exception above. Two computers that write, four turns and one fault
reach two versions, a late request, a half download and a second batch; a second
`Retry` of one pass and a third computer are out of those bounds, and `SameBase`
alone can be broken within them without consequence: the unique keys catch what it
would have let by. The turn that cannot travel is the third of the creator: a
message with its reply after it, which is pushed past the hole, or a reply where an
earlier message was taken back; when the other computer writes first, nothing is
left behind. What a second computer writes into a hole takes more turns and is left
to the proofs, which hold for any set of such turns. Two conversations tell a pass
of one from a pass of everything, and three calls one that finds a pass running from
one that finds one queued too. `SYMMETRY` is used only where no temporal property of
liveness is checked. The bounds `MaxCalls`, `MaxFaults`, `MaxEmitted`, `MaxLate`,
`MaxPresses` and `MaxTurns` are in the guards of `Enter`, `Fault`, `Push`,
`SendFails`, `Entered` and `Appended` and nowhere else.
`CHECK_DEADLOCK FALSE`: a system whose jobs have all ended, whose events have all
been emitted and whose users ask for nothing may stop, and so may computers whose
conversation was deleted everywhere.

Fairness (`JobLifecycle!Fairness`). Handlers run to their end, a run ends (the
agent's timeouts), a run that ended is closed, a stopped agent exits and is
started again, an abandoned lease runs out: weak fairness. The polls of an agent
(`Claim`, delivery of a result) and the sweep are repeated for ever and only
compete with statements that happen to run: strong fairness. Users and faults
have none. That a stopped machine comes back is needed: an unstarted job is
pinned to the machine that claimed it and no other can take it.

The other fair specifications assume, all of it weak: in `Approvals`, that
handlers which are not lost end and that an agent polls (every five seconds); in
`VaultSync`, that every await ends, that requests are handled, and that each
computer is synchronised again and again, which the code leaves to its user; in
`VaultDesk`, that time passes, that the interval fires and that the awaits of a
pass end. Users, sends, deletions and the end of a wait have none: a reply that
never comes must not keep the vault open.

Mutation. Every property of a passing run is paired in `PROJECT.json` with a
plausible fault of the code that violates it; the faulty definitions stand beside
the right ones, marked as such, and no action uses them.

## 4. Proofs

Every theorem holds for all values of the constants that satisfy the named
assumptions of the modules (`...Assumption`), which TLC evaluates in every run.
Three theorems assume `NoChoice` besides, as said below. All of them let handlers,
requests and faults interleave freely.

| Module | Theorems |
|---|---|
| `JobLifecycleProofs` | `TypeCorrect`, `NoTwoExecutors`, `StartedNeverRequeued`, `ImplementsAssignment` |
| `JobResultProofs` | `AbortsTheRightJob`, `ResultsAreNotLost`, `EndsAreFinal`, `LeasesCanLapse` |
| `ApprovalsProofs` | `ApprovalsTypeCorrect`, `OrdersAreCarriedOutOnce`, `RowsTellTheTruth`, `WaitingJobsAreServed`, `StudioShowsWhatWasDone` |
| `EventQueueProofs` | `QueueTypeCorrect`, `NumbersStayDistinct`, `TableTellsTheOrder`, `EventsDoNotVanish` |
| `VaultSyncProofs` | `SyncTypeCorrect` |
| `VaultStoryProofs` | `CopiesAreOneStory`, `UnansweredTurnsStayHome`, `LocalLinesAreKept`, `DeletedNeverComesBack`, `ServerRowsStay` |
| `VaultForkProofs` | `FreezingNeedsTwoWriters` |
| `VaultDeskProofs` | `DeskTypeCorrect`, `WhoWaitedIsAlone`, `OldPassesWriteNothing`, `CallsGetALaterPass`, `GracesAreKept` |

### The jobs

`NoTwoExecutors`, `StartedNeverRequeued` and `ImplementsAssignment` assume
`NoChoice`: no job waits for its user to choose a machine. With such jobs they
are false, which is what `job_pick_race` shows. `OneExecutor` is not inductive:
that no second agent takes a job follows from the row's target, which a handler
in flight might still change. The invariant `AssignmentInv` has three parts:
`RowsSettled` (no row waits for a machine to be chosen, an owner is the row's
target, and a started row has a target and is running or has ended),
`WorkersAreTargets` (an agent works only on jobs that are bound to it) and
`BeginnersAreTargets` (no machine button is in flight, and a handler that is
about to begin a job serves the job's target, so that its write, which looks at
nothing, still begins a bound job). Every action either leaves what the abstract
state is made of alone (`QuietStep`), binds a job and perhaps gives it to an idle
agent (`TakingStep`, `SubmitStep`), or begins it (`BeginStep`); each of these
lemmas gives the invariant and the matching step of `JobAssignment`, and
`EveryStepGood` collects them.

An abort hits the right job because of the answer that carries it:
`AbortInv` adds that a control handler somebody still waits for is about the job
its agent works on, and that an answer which says cancel is about a row whose
cancellation was asked for, which is never taken back (`ControlHolds`). A result
is kept because of `ResultInv`: of the result handlers of a machine that may
still be heard, or that carry a result replaced since, there is one
(`OneResultAtATime`), and it carries what the outbox has (`CarriesOutbox`), so
that the acknowledgement of one result never removes the next.

`EndsAreFinal` and `LeasesCanLapse` are steps from `TypeOK` alone. A statement that
asks the row before it writes it leaves an end as it is (`EndedRow`) and a held row
an owner and a lease (`ReachableRow`); the others belong to a handler that is still
to write (`Writers`), and the guards of the read actions keep new ones from coming
to a row that ended (`ReaderEnters`). `RowsStand` has the three facts of a row, and
one lemma for each part of `Next` shows it.

### The events

One invariant, `QueueInv`, gives all four. `Seen` gathers where an event can still
come from: the queue, the flush under way, a request the gateway has not carried
out, the table. `Numbered` says that of two events seen of a job the one with the
lower number happened first, unless the numbering fell behind the other (`stale`),
and that a counter is beyond whatever is seen and was not fallen behind; it is
inductive because whatever is seen after a step was seen before or is the event
just emitted (`SeenFrom`). A counter that a restart has worked out again from the
queue may be below what the table has. That is why `stale` is noted when numbering
goes on, and not when it is reset: a job that is over emits nothing, and when it is
run again (`RunAgain`) or reported on (`Approve`) what lies beyond the counter is
what falls behind (`NumbersGoOn`, `BeyondOrBehind`). `Behind` says that what has
fallen behind had happened already and waits no more in the queue of that
numbering, so that it never stands for an event to come. `Answered` is for
`EventsDoNotVanish`: what a flush may take out is in the table, or the gateway was
right to drop it, or its number belongs to one the numbering fell behind; an event
whose number was taken otherwise is the event that took it (`RecordedFacts`).

### The approvals

Five layers, each proved over the ones before it.

1. `PressInv`: types, and that every order has a press of its own, so that the
   table never holds more orders than were pressed (`PressesCounted`).
2. `KnownInv`: lists, kept outcomes, consumed sets and reports name only orders
   that were approved, each at the machine that holds it.
3. `AccountInv`, for the verdicts. Whoever says what became of an order, a kept
   outcome, a report or the settled row, says what git did (`AnswerTrue`);
   an order that was run is in the consumed set, or its agent crashed, or it is
   settled and off the list (`Accounted`). The last alternative is what makes the
   consumed set, which is forgotten at a restart, enough.
4. `WaitingInv`, for the jobs. Each handler in the middle still owes a write to
   the row: a press that has not moved the job yet belongs to an order that
   awaits its report, or the two raced (`PressesOwe`, `ReportsRace`); with it a
   job that waits has an order that awaits the restoring of its row
   (`WaitsForAnOrder`), and a pending decision one that awaits its verdict
   (`PendingForAnOrder`).
5. `TruthInv`, for what Studio shows: Studio offers commit and discard, so the
   worktree of a job with one order shows whether it was done (`WorktreeShows`),
   and once a verdict has been noted nothing but a race writes over it
   (`StudioShows`).

### The synchronisation of the vault

`VaultSyncProofs` begins with what `Without`, `Joined`, `FirstOf`, `NextSequence` and
`Before` return. They choose least and greatest elements; that these exist is the
well-foundedness of the order on the numbers (`WFMin` of the library).

`SyncTypeCorrect` already needs more than the types: that a file has room for the
next turn follows from counting the turns ever written (`BornCounted`), and that a
request's answer fits its pass from there being one request for each pass that
waits (`WaitingPush`, `OneWaits`). `Typed` is this strengthening.

The four properties of the copies and the refinement rest on one invariant,
`StoreInv`:

- `PlacedInv`: a turn that can still be read from anywhere, the server, a file,
  what a pass has to do, a request, has one place, was not taken back, and is at 0
  exactly if nothing came before it. This is what makes "the turn its writer saw
  before it" determine the turn at the sequence before.
- `MineHome`: the unanswered turn is the last line of its file and nowhere else.
  This is why a send and a pass of the same conversation exclude each other.
- `StoryInv`: the server and the files are stories. A story has no gap but behind a
  turn that cannot travel, and the server has none of these.
- `ThereIsThere` and `PassKnows`: what a pass believes the server has, the server
  has, whatever happened since the manifest was read; what it fetches is there and
  fits what is here, unless the conversation was deleted meanwhile; what it
  pushes continues what is there (`Continues`) and takes no place of it.
- `PushKnows`: a request continues what is on the server, though it may be
  late, and the pass that waits for it has its turns first in its list.

Each part is proved to survive every step from two lemmas of the kind "where
does it come from": `ServerFrom`, `FilesFrom`, `TodoFrom`, `PushesFrom`,
`BornFrom` say which steps can put a turn into a place, so that the proofs go by
places and not by actions. `StepStory` needs all the parts together: an insertion
that `Fits` continues the server's story because the turn before the batch is
either in the batch or was on the server when the pass looked (`JoinedStory`).

`ServerRowsStay` maps the server's rows to `SharedLog`. A batch is put only where
nothing is, so rows stay; no turn has two places; and a story tells of each row that
follows none that the turn before it cannot travel, which is what `stray` is.

`FreezingNeedsTwoWriters` is about the time before a second computer has written
(`Sole`), for which `ForkInv` adds `OneVersion`: no sequence has two turns
(`OneAtAPlace`), the creator's file has whatever is anywhere until it deletes the
conversation (`WriterHasAll`), so that it has nothing to fetch, and the others have
nothing that the server has not (`Reads`), so that they send nothing. Then no
comparison finds two versions. The hard part is the gateway's answer, which says
"conflict" of a turn it finds at another place or finds nowhere: a request that
somebody waits for must have been refused because its own turns are there already,
and what is there must not change between the two reads that explain it
(`Repeats`). It does not, because no request, however late, begins beyond what the
waiting pass believes to be there (`WriterIsAhead`), and so each begins where the
server has turns already (`NothingElseFits`). `ChatInv` (a conversation without its
row has no turn on the server) is needed for the pass that found no row and
does not read the manifest.

### The desktop half

`DeskInv` is the types, `AloneMeansAlone` itself, which is inductive because every
mark is taken before the pass looks and the step that lets go is the one that
wakes, and five facts about passes and locks: a deferred lock belongs to a locked
screen (`DeferredIsLocked`), nobody waits for two passes (`OnePromise`), a pass
covers what the calls it answers asked for and none of them came late
(`RunningServes`, `QueuedServes`), and a pass that has seen the vault close is cut
(`StaleIsCut`).

### Model-checked only

Every invariant and action property that the passing runs check has a proof, and
so have the two refinements. `JobsEnd`, `OrdersAreServed`, `Converges`,
`NobodyWaitsForEver` and `ClosesInTheEnd` are liveness under fairness, out of the
prover's reach: the runs show them on their instances only. The runs that expect
a violation have nothing to prove, their counterexample is the result.

## 5. Not modelled, and the plan

The plan's modules are written: the job core, events, approvals, the vault's
synchronisation, and its desktop half; their safety properties are proved. What
the plan has left is below, the first of them being Studio's creation of jobs and
batch jobs, each small enough for a module with a proof.

Not modelled, by part:

- Batch jobs: one sequential loop over an output file and a checkpoint.
- Remote desktop: signalling, session, host and pairing. A protocol of its own
  whose safety rests on its cryptography and whose session is a small machine
  per side; it touches the job system only by the same gateway.
- Memories, relation and recap sync, image attempts: they use the pass and the
  sealed logs that `VaultSync` and `SyncCoordinator` have, and what they add is
  how facts and texts are merged.
- Studio's creation of jobs (the limit of one active evaluation,
  `studio.ts:126`), conversations and ratings: single check-then-write handlers
  over rows that `JobLifecycle` does not tell apart.
- `waiting_for_approval` in the job table's own runs: `Approvals` has it.

Left out for good: cryptography, providers and tools (calls to the outside whose
effect on a job is a result), the user interface, schemas and catalogues.
