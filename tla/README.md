# code-pact in TLA+

code-pact is a command line tool that keeps a project's plan, a progress ledger,
contract locks, the generated files of coding agents and an archive of finished
work, all as files of a git repository. There is no server and no database: a
command is a process that reads files, decides and writes files. Everything hard
about it comes from that. Commands of several authors run at once, most without
a lock; a command can be killed, or any of its file system calls can fail,
between any two steps; users edit the same files by hand; a power loss keeps any
part of what was not flushed.

This project models the parts of the program that change files and can be
interleaved or interrupted, checks them with TLC on small instances, and proves
the most important results for every instance with TLAPS. Paths below are those
of the repository; its TypeScript sources are under `src/`.

## Inventory

Modelled components (paths relative to `src/`):

| component | source | state | operations |
|---|---|---|---|
| write lock | `core/locks/write-lock.ts`, `withWriteLock` in `cli/util.ts` | one lock file, with the inode its creator recorded | acquire by exclusive create, release by its owner, removal by a user |
| phase creation | `core/services/createPhase.ts` | `design/roadmap.yaml`, `design/phases/*` | write a phase file, then append to the roadmap |
| adapter transaction | `core/adapters/staged-write.ts` | target files, their backups and temps, a journal | stage, commit, roll back, recover |
| adapter install, upgrade | `commands/adapter-install.ts`, `commands/adapter-upgrade.ts`, `core/adapters/file-state.ts` | generated files, the manifest of their hashes | classify, plan, recover, commit |
| task lifecycle | `commands/task-*.ts`, `core/progress`, `core/contract-lock.ts`, `core/finalize` | event files, phase files, contract locks | start, block, resume, complete, record-done, lock, finalize, cancel |
| delete-intent journal | `core/archive/delete-intent-journal.ts` | `delete-intent.json` | commit, complete, clear, recover; filters for readers |
| retention, compaction, maintenance | `core/archive/archive-retention.ts`, `retention-*-pair-delete.ts`, `bundle-member-removal.ts`, `archive-bundle-*.ts`, `archive-maintenance.ts` | archive files and bundles | plan, delete pairs, reduce bundles, fold, retire covered copies |
| phase archive, event packs, ledger readers | `commands/phase-archive.ts`, `core/archive/phase-snapshot.ts`, `core/archive/event-pack*.ts` | a phase's file and snapshot, its event files, its pack | archive, pack, verify, unlink, report, bundle; read the merged ledger |
| execute-once | `core/execute-once/*`, `commands/task-execute.ts` | one source file, git HEAD and status, the done event | snapshot, run an executor, replace, verify, complete, roll back |
| decision removal | `commands/decision-retire.ts`, `core/decisions/prune-*.ts` | a decision file, its record, `PRUNED.md`, linking documents | retire, prune, each with its comparisons and reports |
| bounded command | `core/process/bounded-command.ts` | a child, its process group, timers, an abort | supervise, terminate the tree, settle |
| verification and its ledger | `commands/verify.ts`, `core/verification-ledger.ts` | attempts per task, stage and tree | focused and full attempts, recording |
| plan writers | `commands/phase-import.ts`, `commands/plan-adopt.ts`, `commands/task-add.ts`, `commands/phase-reconcile.ts`, `core/plan/sync-paths.ts` | the roadmap, phase files, decision stubs | import and adopt, add a task, sync paths, reconcile |

Not modelled yet: loop memory and evidence (files named by their content), plan
analysis (pure functions on the plan). Out of scope: the context pack,
recommendations, runbooks, review bundles, reports, wizards, `spec import`,
rendering and argument parsing, which read once and format, and the path authority,
whose symbolic-link checks are about the file system: in the models each of its
uses may fail. `PROJECT.json` lists every component with its status.

How they interact. `withWriteLock` wraps the commands that change the plan or the
archive (`init`, `task add`, `task finalize --write`, `task lock`, `task execute`,
`phase add`, `phase import`, `phase archive`, `phase reconcile --write`,
`plan adopt`, `plan sync-paths --write`, `state ...`, `decision ...`). It does not
wrap the commands of the task loop (`task start`, `block`, `resume`, `complete`,
`record-done`, `cancel`), nor `verify`, `plan normalize`, `adapter install` and
`adapter upgrade`. So task commands interleave with each other and with everything
else; plan, archive and decision commands run one at a time but are interrupted,
and the files they read are edited under them; adapter commands rely on a recovery
that runs before they stage, and on nobody running two of them. `task complete` and
`task execute` call the verification, which runs the project's commands under the
bounded command.

Hard behaviours, and what would be correct:

- the lock file outlives a killed command; a user removes it by hand while others
  contend for it. Exclusion, and no roadmap update lost;
- a transaction over several files is torn between any two renames, and so is its
  recovery. All or nothing, the old content never lost, a user's edit never
  overwritten;
- an adapter plan is made from files the recovery that follows may put back. What
  a user wrote goes only with the option that says so;
- a task command decides from a ledger and a phase file it read earlier. What its
  gates established must still mean something when it writes;
- a pair of archive files, or two members of two bundles, must go both or neither
  across kills, failed flushes and power losses, with three commands that recover,
  refuse or compact in any order; and what stays must stay readable at every
  moment;
- event files are packed and unlinked while task commands still publish and readers
  merge files and packs without a lock. No event lost, no partial answer;
- `task execute` edits the user's source, runs arbitrary commands over it and may
  have to take the edit back. Nothing that someone else wrote is overwritten, and
  what it reports is what is there;
- a decision is removed in several writes with editors about. It is never gone
  without the record or row that stands for it;
- a child process outlives its root, its group or its kill. The verification ends,
  and its verdict is about the child and not about the race;
- the plan is written by commands that check first and write later, while tasks are
  cancelled and files are edited. Ids stay unique, and what people decided stands.

## Plan

Done, in this order: `WriteLock`, `FileTransaction`, `AdapterCommand`,
`TaskLifecycle`, `PairRetention`, `PhaseCompaction`, `ExecuteOnce`,
`DecisionRemoval`, `BoundedCommand` with `VerifyStages`, `PlanWrites`. Every safety
property the passing runs check is also proved, with the limits named under Proofs.
What would come next:

1. The proofs of `PairRetention` with power losses: its invariant would have to hold
   for every set of entries between `sure` and `sure` with `maybe`, in scenarios
   without aborts.
2. An abstract `PairArchive` (a set of pairs from which one step removes any set
   of old ones) and the statement that what readers resolve in `PairRetention`
   implements it.
3. `RetentionPlan`: which phases are old (`keep-latest` and the reference scan of
   `archive-retention.ts`), a constant in `PairRetention`.
4. `EpisodeStore`: loop memory and evidence.
5. `ProgressLedger` (`events-io.ts`): temp file, link without overwriting,
   re-reading on a collision, refining the set of events of `TaskLifecycle`.
6. `PhaseStatus` and `PlanGraph`: pure functions against reference definitions.

## Modules

### WriteLock, RoadmapSpec, WriteLockProofs

A process is a command. `owner`, `ino` and `stale` are the file at the lock path;
`pc` walks through `acquireWriteLock` (exclusive create, writing the record,
recording the inode), the body of `createPhase` (load, phase file, roadmap) and
the release, which unlinks only a file with the recorded inode. Inodes may be
reused. Kills and failing calls happen at any step; a user may become certain that
no command runs and then remove the file. `RoadmapSpec` is the promise: a set
that grows by one phase at a time. Not in it: the lock's metadata, which nothing
decides on.

### FileTransaction, AtomicFiles, AdapterProofs

One action per file system call of `staged-write.ts`, with the code around it.
`final`, `backup` and `temp` are the entries' files, `journal` the recovery
journal, `before`, `goal` and `seen` the command's memory. A commit writes the
journal, creates the temps, moves each target to its backup, installs each temp,
rewrites the journal as committed, and cleans up. A failure rolls back in the
process; a kill leaves it to the next command, which rolls back a prepared journal
and forward a committed one, comparing hashes before it touches a file. Users edit
between commands. `Visible` is the refinement mapping to `AtomicFiles`: what a
file reads as, or will once recovery is done.

### AdapterCommand, AdapterProofs

Extends `FileTransaction` with the commands that fill it: `DecideAction`,
`DynamicAction` and `OrphanAction` are the action matrices, `NewRecord` the
manifest the command will write; the manifest is the last entry of the
transaction. The plan is made before the recovery, as in the code. Texts are
compared where the code compares hashes. The model pin in the agent profile,
`--regen-skills` and `--check` are left out.

### TaskLifecycle, TaskLifecycleProofs

The eight commands as reads, gates and writes of any number of processes, on a
shared set of events, a design (status and declaration of each task), contract
locks and the write lock that only `lock` and `finalize` take. Each read and each
write is a step; nothing read is checked again, except by the compare before the
rename of a phase file. Events are ordered by time stamp and, within one, by the
order of their content ids (`HashBelow`), which is a parameter. `Legacy` are tasks
finalized before the project had a ledger, for which the code has exemptions. A
refusal, an error and a kill change nothing and are `Abandon`. `cancel` reads the
file back and may roll back; `finalize` does not. Verification, the decision gate
and the audit are refusals. Event publication is one step here.

### PairRetention, PairRetentionProofs

A directory entry is a tuple: a file of one record, a bundle named by its members,
or the journal. `disk` is what processes see; `sure`, `maybe` and `raw` say what a
power loss may do (see below). `run` holds the variables of the one running
command, `pc` its next step; each unlink, rename and flush is a step. `Recover`
to `FlushClear` complete a journal, `Fold` to `Uncover` compact, `Plan` to
`UnlinkFile` retain. The journal's intents carry, for a bundle pair, the bundles to
retire and the reduced bundle of each kind. `Resolves` is what a reader gets, with
the filters of a pending journal.

Abstractions: members are ids, since copies that diverge or fail validation are
skipped by all three commands; bundle names are member sets, as they are in the
code (the file name is a digest of the ids); `Old`, what the plan drops, is a
constant; decision records are left out. A kill, an error and a failed flush end
the run where it is and are one action, `Abort`; a failed unlink of a file that a
bundle covers, or of a packless snapshot's file, is counted as skipped and the run
goes on (`UnlinkFails`, `Skipping`).

Durability: a change is certain once its directory is flushed; of the changes no
flush followed, any subset survives a power loss. A bundle whose data was not
flushed (`raw`) is not certain either, whatever its directory's flush did.

### PhaseCompaction, PhaseCompactionProofs

One phase with one done task on its way into the archive. `yaml` and `snapshot` are
the phase's file and record, `loose` its event files, `pack` and `packAt` the pack
and the places where it is. `run` holds the variables of the command under the
lock: `phase archive` (record, read back, check, remove), `state compact` (each of
its repeated plans, the write, the gate before each unlink, the survivor check, the
report) and `state compact-archive` for the pack. `inflight` are events of task
commands that passed their checks and publish when they get to it; `reader` is a
strict reader of the merged ledger, one listing or read a step. An event is its
place in the merged order. Reading all inputs of one plan is one step. An event
that comes late makes the pack unbound, and strict readers then fail rather than
answer without it.

### ExecuteOnce, ExecutionProofs

`repo` and `project` are what a run of `task execute` reads; `pc` walks through
`run.ts`, with a git snapshot as three reads and a replacement as a comparison and a
rename. Everyone else (the user, the executor, the verification command, the task
commands that take no lock) moves between any two steps. The executor's answer is
a choice. `moved` and `littered` are not seen by the command; they name the cases
the properties except.

### DecisionRemoval, DecisionRemovalProofs

`md`, `record`, `ledger` and `docs` are the decision file, its archive record, its
row in `PRUNED.md` and the documents that link to it; `gates` and `dependant` are
how the plan refers to it. Retire and prune are one command each, re-run without
limit, killed or failing anywhere; `dirty` remembers what others changed since the
command last compared it. Loose record and bundled record are one record; reading
several documents is one step; the inode comparison is left out.

### BoundedCommand, VerifyStages, ExecutionProofs

`BoundedCommand` is `superviseBoundedProcess` on POSIX: the child, its process group
and what left it run freely, and close, timeout and abort race for `cause`; then
the group is killed and the close is awaited for a bounded time. `group` says
whether other members of the group live and whether one of them holds the pipes,
`stray` whether a process outside it does. The close event needs the root reaped and
the pipes free and nothing else: of `server >/dev/null 2>&1 &` the verification sees
an exit with zero while the server runs on, in the group. `Ok` therefore says how
the root ended and not who is left.

`VerifyStages` runs its commands under it and keeps the ledger of attempts that
`verify --stage` reads and writes back whole, without a lock. `pen` is what each of
two processes is about to record: the attempt, the copy of the ledger it read, and
whether it has opened the file, which empties it. A write puts down any prefix of
what it meant to: all of it, or what a kill, a full disk or an I/O error lets
through, and a cut inside a line makes the file unreadable (`legible`). `truth` is
what was completely recorded by anyone. `spoiled` is set when one process reads or
opens the ledger between another's read and the end of its write, when a cut takes
earlier attempts with it, and when a full attempt is recorded after one that ended
later. Each verification is a process of its own and may be killed at any step. The
actions are named `VerifyInit` and `VerifyNext` because `ExecutionProofs` extends
`ExecuteOnce` too.

### PlanWrites, PlanWritesProofs

The four writers of the plan under the lock, one at a time: `phase import` and
`plan adopt` (`Preflight` to `Scaffolded`), `task add` (`AddRead` to `AddRefuses`,
with the comparison before the rename, the readback and the rollback),
`plan sync-paths` and `phase reconcile`. A phase file is whether it parses, whether
it names an old path, and a status for each task. Between any two steps a task is
cancelled or completed, a decision is accepted, or a file is broken or mended by
hand; a command may be killed. A phase id comes with one name, so with one path;
fields of tasks and archived phases are left out. `excused` collects the ids that
the code lets in twice: `task add` by flags looks in one phase only, and an import
passes over a phase file it cannot read.

## Runs

| run | module, bounds | what it shows |
|---|---|---|
| `lock` | `WriteLock`: 3 commands, 2 phases, 1 inode number, 3 starts | exclusion, no lost roadmap update, the lock is given up |
| `tx` | `FileTransaction`: 2 files, 3 contents, 2 faults, 1 edit | atomicity by refinement, no orphan artifacts, old content kept, convergence |
| `adapter` | `AdapterCommand`: 3 commands, 3 generator versions, every option; two edits without faults, or one edit and two faults (`OptionsUninterrupted`: none in a command with options, and no such command over a torn transaction) | consent, a truthful manifest, only edits are refused, create-once, also with plans made from torn states |
| `adapter_force` | the same, 1 fault, every option | violated: see findings |
| `task` | `TaskLifecycle`, 2 tasks: one process with all eight commands, 6 of them and edits of a declaration; or two processes with start, complete, finalize and cancel, 5 of them (4 if one cancels) and a legacy task | what survives interleaving, and that accepted commands write a legal history |
| `pairs` | `PairRetention`: 3 pairs and a packless snapshot, 2 faults (an abort, a skipped unlink, a power loss) | both or neither, nothing kept is lost, recovery completes, maintenance converges |
| `pairs_uncommitted` | 1 archive, an abort and a power loss | violated: see findings |
| `phase` | `PhaseCompaction`: 3 events, 1 edit; readers without faults, or 2 faults without readers | no event lost, archived means recorded, true reports, complete answers, convergence |
| `execute` | `ExecuteOnce`: 4 foreign moves, 2 faults | honest results, done means verified, nothing foreign overwritten |
| `decisions` | `DecisionRemoval`: 2 documents, 2 moves, 2 faults | accounted removals, honest reports, nothing foreign overwritten, re-runs converge |
| `verify` | `VerifyStages`: 2 runs, 2 commands per full attempt, 1 edit, 2 attempts of another process (1 if the ledger is spoiled), kills, torn writes | true outcomes, authorized full attempts, termination |
| `plan` | `PlanWrites`: 2 phases, 2 tasks, 4 documents, 2 moves, 1 fault | unique ids, standing decisions, imports converge |

Why the bounds are enough. `lock`: a stale lock needs one command to die, one to
contend and one to start while the file is removed; one inode number makes every
new file look like the old one. `tx`: two files are what makes a transaction tear
between files, and the second fault strikes the recovery of the first. Three
contents distinguish old, new and edited. `adapter`: the versions change, add and
drop a static and a dynamic file; three commands are an install, an upgrade and
one more after either. `task`: a dependency needs two tasks; every hazard found
takes two processes; equal time stamps and an order of content ids that puts later
statuses first disorder most histories. `pairs`: two old pairs so that a bundle
shrinks twice or is shared, a kept pair that must survive every rebuild, five
bundlings of each kind (none, minimal, shared, redundant, already reduced) with
every placement of files, so every mix of sources occurs; two aborts are an
interrupted run and an interrupted recovery; the archives whose reduced bundles
were never flushed are what an aborted run leaves. `phase`: of a start and two
completions any may be late, packed, or the one that is damaged; the second fault
strikes the run that repairs the first. `execute`: four moves are enough to change
the source and change it back on both sides of a snapshot. `decisions`: one
document links and one begins to. `verify`: a full attempt needs a focused one
before it, and a lost update needs one attempt of another process; three action
constraints keep the instance small. While commands run, the other process and the
editor wait (`MCCommandsAlone`): the verifier neither reads nor writes what they
touch, so their steps can as well come before or after. The commands of the second
verification end by themselves (`MCPlainCommands`): the supervisor starts each
command from the same state. A spoiled ledger is looked at with one attempt of the
other process (`MCSpoiledByOne`): one copy suffices to overwrite an attempt, to
mix two writes or to be cut short. `plan`: an import of two phases tears between
them; the documents overlap in a phase, in a task, and with themselves. Each
property of a passing run has a mutant of the code that violates it.

Deadlock is checked in `pairs`, `decisions` and `plan`, where some command
can always start. In the other models a behaviour ends when the bounds on starts,
runs, clock, edits or events are used up, or with the one run that is modelled
(`execute`), so it is not.

Scenarios. In `pairs`, `Everything` has all commands and aborts;
`RetentionOnPower` has retention with power losses. Compaction is kept
apart from power losses because it flushes nothing: a bundle it wrote and the
files it unlinked are all pending, so a power loss may take the only copy at once.
No document promises durability for compaction, so this is recorded as a hazard
and not as a finding. Aborts together with power losses violate `PairIsWhole`:
`pairs_uncommitted`. In `adapter`, `task` and `phase` a scenario trades one source of
disorder for another to keep the instance small; each combination is named in the
table.

What the properties except, because the code does not promise it or cannot:

- `ResultIsHonest`: an executor error that is rethrown as `AGENT_NOT_ENABLED`, and an
  I/O error after the done event's link (`littered`);
- `DecisionsStand`: `plan sync-paths`, which writes back what it read; the window
  between a comparison and its rename (`raced`); a flip of a task that was
  cancelled after `phase reconcile` judged it and before it classified it;
- `IdsStayUnique`: the `excused` ids;
- `FullIsAuthorized`: on a `spoiled` ledger (attempts overwritten by a concurrent
  rewrite, attempts cut off by a write that did not end, full attempts recorded in
  another order than they ended) it asks for a real focused pass on the tree, and
  for neither the order nor the count;
- `OutcomeIsTrue`: an ok command may leave processes behind, in its group or out of
  it; only a termination reported as complete claims an empty group, and of who left
  the group nothing is claimed;
- `MaintainConverges`: a run that recovered a bundle pair, and one that reports files
  it could not unlink;
- `ConsentNeeded`: a command with options that a fault strikes, and one that starts
  over a torn transaction (`OptionsUninterrupted`, an action constraint of the run
  and the hypothesis of the theorem; see Findings for what happens otherwise);
- `RerunConverges`: after an interrupted retire whose decision file was edited since,
  retire refuses for ever (the record is stale and the command line passes no
  refresh), while prune still works;
- `CompactionConverges`: phases that were restored, and events that came late or
  were damaged or deleted by hand.

### Fairness

- `WriteLock`: weak fairness of each process's steps. A process that is not killed
  goes on; contending only ends in an error, so nothing waits.
- `FileTransaction`: weak fairness of the command's steps. Edits and faults are
  never forced, and `RecoveryConverges` speaks of recoveries after the last fault.
- `PairRetention`: weak fairness of a run's steps, and strong fairness of starting
  a command that recovers first: a pending journal makes the other command refuse
  with a message that asks for one (`docs/troubleshooting.md:355`), and the
  operator is assumed to follow it. Strong, because running other commands in
  between disables the start again and again.
- `PhaseCompaction`, `DecisionRemoval`, `PlanWrites`: weak fairness of the steps of a
  running command, and strong fairness of starting the one in question: a user
  repeats `state compact`, the removal, or the import with `--force`, which is what
  their messages ask for after a failure.
- `VerifyStages`: weak fairness of the verification and of the supervisor, whose
  timers fire. Nothing is assumed of the child, its descendants or the caller.
- `TaskLifecycle`, `AdapterCommand` and `ExecuteOnce` have no liveness property: a git
  command of `task execute` has no timeout, so the code promises none.

## Proofs

All are for any number of processes, tasks, phases, files and contents and without
the bounds of the runs, from the named assumptions of the modules only.

- `WriteLockProofs`: `MutualExclusionHolds`, `HeldByTheLivingHolds`,
  `RoadmapIsBackedHolds`, `RoadmapRefinement`. Exclusion is not inductive: the
  invariant `LockInv` adds that a holder's file is the one at the path
  (`HolderOwnsFile`), that a user who is certain faces a file nobody holds
  (`CertaintyHolds`: certainty ends with the removal) and, for the refinement, that
  a loaded roadmap is the one on disk. At most one holder follows, since one file
  has one creator.
- `AdapterProofs`, the transaction: `TypeCorrect`, `ArtifactsAreListed`,
  `OldContentSurvives`, `TransactionIsAtomic`. `TxInv` says which journal each
  phase of a command works on and that its memory agrees with it (`MemoryInv`), that
  a backup is the old content and a temp the new one (`ArtifactInv`), how far a
  commit is with each entry (`CommitInv`) and what a reconciliation knows of the
  entry it is at (`ReconcileInv`). The refinement goes action by action: every step
  leaves `Visible` alone, except the marker, which applies the plan.
- `AdapterProofs`, the commands: `CommandsAreConsistent`, `CommandsAreAtomic`,
  `DynamicNeverOverwrittenHolds`, `ManifestTellsTruthHolds`,
  `RefusesOnlyEditsHolds`, `ConsentNeededHolds`. `CommandInv` keeps `TxInv` under
  the commands' steps and adds that a transaction is the plan of the command that
  runs and that one that creates a dynamic file found none. On it stand three more
  invariants: without faults the plan stays true of what its transaction makes of
  the files (`CalmInv`), and without edits a tracked file is what the manifest
  records (`PristineInv`); a transaction that replaces a user's text has consent
  for it, and a torn one replaces none, so no recovery brings a user's text back
  behind a plan (`ConsentInv`). The last is inductive only under
  `[][OptionsUninterrupted]_allVars`. That hypothesis is about the environment and
  allows faults, recoveries and edits in every command without options; the proof
  attempt without it ended in the behaviours named under Findings. The manifest is
  an entry (`ManifestIsTarget`) and dynamic files are files (`DynamicAreFiles`).
- `TaskLifecycleProofs`: `TypeCorrect`, `DependenciesWereDoneHolds`,
  `FinalizedWasDoneHolds`, `EventsAreLockedHolds`. The argument is about stale
  knowledge: what a process read is a subset of the ledger (`Past`), events and done
  records never disappear, so a gate that passed on a stale ledger (`Gated`,
  `Locked`) still holds on the present one; and the done statuses in a stale copy
  of the design are backed by events already (`Backed`), so writing it back
  cannot finalize what was never done. Two action properties,
  `FreshCommandIsLegalHolds` and `BlindStartIsCaughtHolds`, need `HistoryInv`: what
  a gate allowed stands on the history that was read (`Informed`), a process has
  read its own events, and the ledger is finite. Then the status a gate saw is that
  of the last event of the merged order, a command nobody overtook appends behind
  it, and a started event the second author did not see has an unacceptable
  neighbour wherever it lands. The order of content ids is only assumed to be one
  (`HashesAreOrdered`).
- `DecisionRemovalProofs`: `ReportIsHonestHolds`, `ForeignKeptHolds`,
  `RemovalIsAccountedForHolds`. `RemovalInv` says at each step which of what the
  command read is still true unless it is marked dirty, so that the last
  comparison before each write covers the write, and that what a run believes it
  wrote (`appended`, `rewritten`) is what it wrote.
- `ExecutionProofs`, `ExecuteOnce`: `ResultIsHonestHolds`, `DoneMatchesTreeHolds`,
  `ForeignKeptHolds`. `ExecuteInv` is about knowledge: what a snapshot says is true
  unless someone moved since it began (`ShotIsFresh`, `ShotMatches`), the source is
  the command's edit while nobody moved (`EditIsOurs`), a rename follows its
  comparison (`Compared`), and a rollback knows what it restores (`RollbackKnows`).
- `ExecutionProofs`, `VerifyStages`: `OutcomeIsTrueHolds`, `FullIsAuthorizedHolds`.
  The first event of the race is remembered (`RaceIsRemembered`) and a process group
  that is empty stays empty (`GroupStaysEmpty`). For the attempts, `LedgerInv` says
  that the ledger and every copy of it hold only what was really recorded, whatever
  raced or was cut (`Genuine`), and, while nothing spoiled it, that it is all that
  was recorded or is being written by the only process with a copy, which is
  complete (`LedgerIsTrue`, `Writes`), with full attempts in the order they ended
  (`InOrder`), so that the last entry the code looks at is the latest.
- `PairRetentionProofs`: `PairsStayWhole`, `KeptPhasesStay`,
  `JournalsStayCompletable`, `ReportedPhasesStayGone`, `MaintenanceConverges`, in
  scenarios without power loss (`Unpowered`), for every archive that holds a
  snapshot of each kept phase and a pack beside each snapshot of a paired one
  (`StoresAreArchives`, which TLC evaluates on the archives of the runs). Between
  runs it is enough that pairs are whole up to the one pending journal, which can
  be completed (`Sound`). That is not inductive inside a run: `AtPc` says for each
  step what the run has established, from the choice of the pairs to the clearing
  of the journal, in particular that survivors are written before a journal that
  relies on them is committed, and that both sides are gone before it is cleared.
  A run that skipped an unlink (`Skips`) keeps all of this and gives up only what
  leads to `MaintainConverges`. Nothing is assumed of the run before: it may have
  ended at any step.
- `PlanWritesProofs`: `IdsStayUniqueHolds`, `DecisionsStandHolds`. While a command
  holds bytes of a phase file, only that command brings ids into it
  (`SeenHasIds`), so the checks of an import (`ImportIsFree`) and of `task add`
  (`AddIsFree`) hold until the write; what was compared is on disk unless it raced
  (`Compared`); and a phase that is not registered has no cancelled task to lose
  (`OrphansAreNew`).
- `PhaseCompactionProofs`: `TypeCorrect`, `NoEventIsLostHolds`,
  `ArchivedIsRecordedHolds`, `ReportIsTrueHolds`, `AnswerIsCompleteHolds`.
  `CompactionInv` has a part for each. Only the holder of the lock changes the pack,
  events under way are in no file and no pack, and an event that is about to be
  unlinked is packed (`PackInv`); a removal follows the check of the newest edition
  (`ArchiveInv`); what a reader was owed is in what it listed, in the pack or, if it
  missed the pack's file, in a bundle (`ReaderInv`); and a run's memory of its own
  writes agrees with the tree (`ReportInv`).

Only model-checked: everything temporal (`LockIsReleased`, `RecoveryConverges`,
`PendingIsCompleted`, `CompactionConverges`, `RerunConverges`, `VerificationEnds`,
`ImportConverges`), since liveness under fairness and ENABLED are out of the
prover's reach; and the five properties of `PairRetention` in scenarios with power
losses, where the run `pairs` checks them for retention without aborts.

## Findings

- `adapter_force`: a kill with the manifest moved to its backup leaves no manifest
  at its path. The next `adapter install --force` plans before it recovers, takes
  every file for unmanaged and overwrites a modified one, although the comment on
  `decideAction` says `--force` never overrides local modifications of a tracked
  file.
- `pairs_uncommitted`: recovery trusts a journal it can read, but a rename whose
  flush failed or never ran is not durable. The unlinks of that recovery may
  survive a power loss that takes the journal.

Seen while modelling and not kept as runs:

- `ConsentNeeded` fails without `OptionsUninterrupted`: `adapter upgrade
  --accept-modified` or `install --force` moves an edited file to its backup and is
  killed; the next command, without options, finds no file at the path and plans to
  write it, its recovery puts the edited text back, and the commit replaces it
  (`commands/adapter-install.ts:504` recovers after the plan of line 335);
- when two processes record full attempts in another order than they ended, the
  gate takes the older one for the last (`core/verification-ledger.ts:464` looks at
  positions, `commands/verify.ts:287` at times), so a focused pass between the two
  ends authorizes a further full attempt;
- a command that passed may leave members of its process group alive when their
  output is redirected: the supervisor waits for the pipes and looks at the group
  only after a timeout or an abort (`core/process/bounded-command.ts:466`);
- the verification ledger is rewritten by a plain `writeFile`
  (`core/project-fs/operations.ts:142`), which empties it first, not by
  `atomicWriteText`. A kill or a full disk in the middle leaves it empty or cut: at
  the end of a line the later attempts are forgotten, and with them the limit on
  full attempts; inside a line every later `verify --stage` fails with
  `VERIFICATION_LEDGER_INVALID` until someone repairs the file;
- a start that loaded the phase file before `task cancel --write` appends its event
  to a cancelled task (`commands/task-progress.ts:154`), though
  `core/task-cancellation.ts:25` calls cancelled tasks terminal by construction; two
  overlapping cancellations can leave a live task waiting for a cancelled one;
- two starts that both find no contract lock both write one, and the second
  replaces the first one's;
- `phase reconcile` flips a task to done that was cancelled between its first read
  and its classification (`commands/phase-reconcile.ts:163`);
- `task add` by flags looks for a duplicate id in its own phase only, while
  `docs/cli-contract.md:2735` says the check is global; the row of
  `TASK_REGISTRATION_ROUND_TRIP` there says "spec-file path only", and flags raise it
  too;
- an import swallows every error of loading a phase file, so an unreadable one lets
  it duplicate the file's ids (`commands/phase-import.ts:119`), and it does not look
  at archived snapshots; a killed import never writes its decision stubs when it is
  repeated with `--force`; the file names of two phases may collide (`P1` with slug
  `a-b`, `P1-a` with slug `b`), and `createPhase` does not look;
- `task execute` folds an edit that was restored among other changes into
  `rollback_failed` (`core/execute-once/run.ts:595`), so the `ROLLBACK_INCOMPLETE` of
  `docs/cli-contract.md:262` is not reached; its executor is not in a process group
  of its own, and its timeout does not reach the verification; with a verification
  policy it cannot pass, since a full attempt needs a focused pass for the edited
  tree;
- recovery of a delete-intent journal flushes the bundles' directory only if it
  unlinked a bundle itself, so unlinks of an earlier killed run may not be durable
  when the journal is cleared;
- after a kill, an adapter command that commits a plan made from torn files may
  record a hash that is not that of the file; the rename of a phase file can
  replace an edit made after the comparison (`core/finalize/safe-write.ts` names
  this limit); and two authors that interleave whole lifecycles of one task within
  equal stamps can write a history the conflict detector accepts, since planned to
  done is allowed.

## Limits

Not modelled, with the reason:

- two adapter commands at once, and edits during one: `SECURITY.md` excludes a
  separate concurrent writer. The temporary file of `atomicWriteText`, which a kill
  may leave and no journal names;
- the verification ledger's read, truncation and write are modelled, and what they
  lose is excepted rather than forbidden; repairing or deleting a ledger that no
  longer parses is not modelled; a tree edited while the commands run is identified
  after they ran, so a pass may be filed under it;
- the contract is compared before verification only, so an edit of the declaration
  during it is completed; a hazard without a property;
- compaction writes bundles without a flush: see the scenarios above;
- `plan normalize` writes phase files blindly and without the lock, as documented;
- reading the files of one plan, one document scan or one preflight is one step in
  `PhaseCompaction`, `DecisionRemoval` and `PlanWrites`; the readers of `PairRetention`
  are one step, those of `PhaseCompaction` are not. The unguarded windows between the
  last check and the removal of a phase file, and deletion of a pack by hand, are
  left out;
- clocks that run backwards, git merges of two branches' ledgers, symbolic links,
  file permissions and the Windows branches.
