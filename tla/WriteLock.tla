----------------------------- MODULE WriteLock -----------------------------
(***************************************************************************)
(* The advisory write lock (core/locks/write-lock.ts, cli/util.ts) around   *)
(* the body it protects most often: createPhase (core/services), which      *)
(* appends phases to the roadmap by a read, a phase-file write and a        *)
(* roadmap write.  A command is one process; it may be killed between any   *)
(* two file-system calls, any call may fail, and a user may remove a stale  *)
(* lock file by hand after verifying that no command is running.            *)
(*                                                                         *)
(* A roadmap is the set of phase ids it lists, a phase file is its id.      *)
(***************************************************************************)
EXTENDS Naturals, FiniteSets

CONSTANTS
    Proc,      \* command invocations that may run concurrently
    Nobody,    \* no process: there is no file at the lock path
    Inode,     \* inode numbers; the file system may reuse a freed one
    PhaseId,   \* phase ids commands may create
    MaxRuns    \* bound: commands started over a behaviour

ASSUME NobodyIsNoProcess == Nobody \notin Proc
ASSUME InodesExist == Inode # {}
ASSUME MaxRunsIsNat == MaxRuns \in Nat

VARIABLES
    owner,     \* creator of the file at the lock path, Nobody if there is none
    ino,       \* inode of that file
    stale,     \* TRUE when its creator is gone without releasing it (history)
    pc,        \* where each command is
    created,   \* the inode each command recorded as its own
    todo,      \* the phases a command has still to create
    snap,      \* the roadmap a command has loaded
    roadmap,   \* the phase ids in design/roadmap.yaml
    files,     \* the phase ids with a file under design/phases
    certain,   \* the user has verified that no command is running
    runs       \* commands started so far

lockFile == <<owner, ino, stale>>
design == <<roadmap, files>>
vars == <<owner, ino, stale, pc, created, todo, snap, roadmap,
          files, certain, runs>>

\* A command that has created the lock file and has not yet given it up.
Holding == {"created", "written", "locked", "loaded", "filed",
            "releasing", "unlinking"}

Init ==
    /\ owner = Nobody
    /\ ino \in Inode
    /\ stale = FALSE
    /\ pc = [p \in Proc |-> "idle"]
    /\ created \in [Proc -> Inode]
    /\ todo = [p \in Proc |-> {}]
    /\ snap = [p \in Proc |-> {}]
    /\ roadmap = {}
    /\ files = {}
    /\ certain = FALSE
    /\ runs = 0

Goto(p, label) == pc' = [pc EXCEPT ![p] = label]

-----------------------------------------------------------------------------
(* acquireWriteLock                                                        *)

\* A command starts with the phases its input names; the lock directory is
\* made (mkdir -p, idempotent) and the exclusive create comes next.
Start(p, phases) ==
    /\ pc[p] = "idle"
    /\ runs < MaxRuns
    /\ runs' = runs + 1
    /\ todo' = [todo EXCEPT ![p] = phases]
    /\ Goto(p, "acquiring")
    /\ UNCHANGED <<lockFile, created, snap, design, certain>>

\* Faulty variant: the create is not exclusive.
CreateNotExclusive(p, i) ==
    /\ pc[p] = "acquiring"
    /\ owner' = p
    /\ ino' = i
    /\ stale' = FALSE
    /\ Goto(p, "created")
    /\ UNCHANGED <<created, todo, snap, design, certain, runs>>

\* open(path, "wx") succeeds: the file exists, still empty.
Create(p, i) ==
    /\ pc[p] = "acquiring"
    /\ owner = Nobody
    /\ owner' = p
    /\ ino' = i
    /\ stale' = FALSE
    /\ Goto(p, "created")
    /\ UNCHANGED <<created, todo, snap, design, certain, runs>>

\* open fails with EEXIST.
CreateRefused(p) ==
    /\ pc[p] = "acquiring"
    /\ owner # Nobody
    /\ Goto(p, "contending")
    /\ UNCHANGED <<lockFile, created, todo, snap, design, certain, runs>>

\* The contender reads the holder for its message (null when the file is gone
\* or not yet parseable) and fails with LOCK_HELD at once: there is no waiting
\* and no retry, and withWriteLock never runs its body.
Refuse(p) ==
    /\ pc[p] = "contending"
    /\ Goto(p, "idle")
    /\ UNCHANGED <<lockFile, created, todo, snap, design, certain, runs>>

\* The holder's JSON is written into the created file ...
WriteHolder(p) ==
    /\ pc[p] = "created"
    /\ Goto(p, "written")
    /\ UNCHANGED <<lockFile, created, todo, snap, design, certain, runs>>

\* ... the file is stat'ed to remember which inode is ours ...
RecordInode(p) ==
    /\ pc[p] = "written"
    /\ owner # Nobody
    /\ created' = [created EXCEPT ![p] = ino]
    /\ Goto(p, "locked")
    /\ UNCHANGED <<lockFile, todo, snap, design, certain, runs>>

\* ... and either call may fail: the error propagates, there is no handle to
\* release, and the lock file stays.
AcquireFails(p) ==
    /\ pc[p] \in {"created", "written"}
    /\ stale' = (stale \/ owner = p)
    /\ Goto(p, "idle")
    /\ UNCHANGED <<owner, ino, created, todo, snap, design, certain, runs>>

-----------------------------------------------------------------------------
(* The body: createPhase, once for each phase of the command                *)

\* Faulty variant: the roadmap a command read in an earlier run is reused.
LoadCachedRoadmap(p) ==
    /\ pc[p] = "locked"
    /\ todo[p] # {}
    /\ Goto(p, "loaded")
    /\ UNCHANGED <<lockFile, created, todo, snap, design, certain, runs>>

LoadRoadmap(p) ==
    /\ pc[p] = "locked"
    /\ todo[p] # {}
    /\ snap' = [snap EXCEPT ![p] = roadmap]
    /\ Goto(p, "loaded")
    /\ UNCHANGED <<lockFile, created, todo, design, certain, runs>>

\* The id-collision check is made on the loaded roadmap, then the phase file
\* is written (it replaces an orphan a killed command may have left).
WritePhaseFile(p, id) ==
    /\ pc[p] = "loaded"
    /\ id \in todo[p] \ snap[p]
    /\ files' = files \cup {id}
    /\ todo' = [todo EXCEPT ![p] = @ \ {id}]
    /\ snap' = [snap EXCEPT ![p] = @ \cup {id}]
    /\ Goto(p, "filed")
    /\ UNCHANGED <<lockFile, created, roadmap, certain, runs>>

SaveRoadmap(p) ==
    /\ pc[p] = "filed"
    /\ roadmap' = snap[p]
    /\ Goto(p, "locked")
    /\ UNCHANGED <<lockFile, created, todo, snap, files, certain, runs>>

\* Faulty variant: the lock is released only when the body returns normally.
LeaveBodyWithoutFinally(p) ==
    /\ pc[p] \in {"locked", "loaded", "filed"}
    /\ Goto(p, IF pc[p] = "locked" THEN "releasing" ELSE "idle")
    /\ UNCHANGED <<lockFile, created, todo, snap, design, certain, runs>>

\* The body returns, or throws (duplicate id, or any failed call): the
\* finally clause of withWriteLock runs in both cases.
LeaveBody(p) ==
    /\ \/ pc[p] = "locked"
       \/ pc[p] \in {"loaded", "filed"}
    /\ Goto(p, "releasing")
    /\ UNCHANGED <<lockFile, created, todo, snap, design, certain, runs>>

-----------------------------------------------------------------------------
(* release: stat again, unlink only the inode recorded at acquisition       *)

ReleaseStat(p) ==
    /\ pc[p] = "releasing"
    /\ owner # Nobody
    /\ ino = created[p]
    /\ Goto(p, "unlinking")
    /\ UNCHANGED <<lockFile, created, todo, snap, design, certain, runs>>

ReleaseUnlink(p) ==
    /\ pc[p] = "unlinking"
    /\ owner' = Nobody
    /\ stale' = FALSE
    /\ Goto(p, "idle")
    /\ UNCHANGED <<ino, created, todo, snap, design, certain, runs>>

\* The file is absent, another inode, or a call fails: swallowed either way.
ReleaseGivesUp(p) ==
    /\ pc[p] \in {"releasing", "unlinking"}
    /\ stale' = (stale \/ owner = p)
    /\ Goto(p, "idle")
    /\ UNCHANGED <<owner, ino, created, todo, snap, design, certain, runs>>

-----------------------------------------------------------------------------
(* The environment                                                          *)

\* SIGKILL or a power cut between two file-system calls.
Crash(p) ==
    /\ pc[p] # "idle"
    /\ stale' = (stale \/ (pc[p] \in Holding /\ owner = p))
    /\ Goto(p, "idle")
    /\ UNCHANGED <<owner, ino, created, todo, snap, design, certain, runs>>

\* Stale lock recovery is manual: the user first verifies that no command
\* is running (one being refused does not count: it will not mutate) ...
UserVerifies ==
    /\ ~certain
    /\ owner # Nobody
    /\ \A p \in Proc : pc[p] \notin Holding
    /\ certain' = TRUE
    /\ UNCHANGED <<lockFile, pc, created, todo, snap, design, runs>>

\* ... and then deletes the file, which takes a while.
UserRemoves ==
    /\ certain
    /\ certain' = FALSE
    /\ owner' = Nobody
    /\ stale' = FALSE
    /\ UNCHANGED <<ino, pc, created, todo, snap, design, runs>>

Step(p) ==
    \/ \E i \in Inode : Create(p, i)
    \/ CreateRefused(p)
    \/ Refuse(p)
    \/ WriteHolder(p)
    \/ RecordInode(p)
    \/ LoadRoadmap(p)
    \/ \E id \in PhaseId : WritePhaseFile(p, id)
    \/ SaveRoadmap(p)
    \/ LeaveBody(p)
    \/ ReleaseStat(p)
    \/ ReleaseUnlink(p)

Fault(p) == AcquireFails(p) \/ ReleaseGivesUp(p) \/ Crash(p)

Next ==
    \/ \E p \in Proc : \/ \E phases \in SUBSET PhaseId : phases # {} /\ Start(p, phases)
                       \/ Step(p)
                       \/ Fault(p)
    \/ UserVerifies
    \/ UserRemoves

Spec == Init /\ [][Next]_vars

\* A running command keeps taking its own steps; nothing is assumed of
\* faults, of new commands or of the user.
Fairness == \A p \in Proc : WF_vars(Step(p))

FairSpec == Spec /\ Fairness

-----------------------------------------------------------------------------
(* Properties                                                               *)

TypeOK ==
    /\ owner \in Proc \cup {Nobody}
    /\ ino \in Inode
    /\ stale \in BOOLEAN
    /\ pc \in [Proc -> {"idle", "acquiring", "contending"} \cup Holding]
    /\ created \in [Proc -> Inode]
    /\ todo \in [Proc -> SUBSET PhaseId]
    /\ snap \in [Proc -> SUBSET PhaseId]
    /\ roadmap \subseteq PhaseId
    /\ files \subseteq PhaseId
    /\ certain \in BOOLEAN
    /\ runs \in Nat

\* At most one command is between its lock's creation and its release, even
\* when killed commands leave stale locks that users remove while new commands
\* start (withWriteLock runs its body only under the lock).
MutualExclusion ==
    \A p, q \in Proc : pc[p] \in Holding /\ pc[q] \in Holding => p = q

\* A lock file that nobody abandoned belongs to a command that still runs, so
\* LOCK_HELD is transient unless a command died (the docs call it retryable).
HeldByTheLiving ==
    owner # Nobody /\ ~stale => pc[owner] \in Holding

\* Every phase the roadmap lists has its file: createPhase writes the file
\* first, and a kill between the two writes leaves only an unlisted file.
RoadmapIsBacked == roadmap \subseteq files

\* The commands together implement a roadmap to which one phase is added at a
\* time: no interleaving of two read-modify-writes, and no kill, drops a phase
\* another command listed or lists two at once.
Listing == INSTANCE RoadmapSpec
ImplementsRoadmap == Listing!Spec

\* A command that takes the lock and is not struck by a fault gives it up.
LockIsReleased ==
    \A p \in Proc : owner = p ~> (owner # p \/ stale)

(* The inductive strengthening the proofs in WriteLockProofs use.           *)

\* Whoever holds the lock created the file that is at the path.
HolderOwnsFile == \A p \in Proc : pc[p] \in Holding => owner = p

\* While the user is certain, there is a file and nobody holds it, so no
\* command can get past its exclusive create.
CertaintyHolds ==
    certain => owner # Nobody /\ \A p \in Proc : pc[p] \notin Holding

\* What a command has loaded is what is on disk; what it is about to write
\* adds one phase to it.
SnapshotIsFresh ==
    \A p \in Proc :
        /\ pc[p] = "loaded" => snap[p] = roadmap
        /\ pc[p] = "filed" => \E id \in PhaseId \ roadmap : snap[p] = roadmap \cup {id}

\* The phases a command is about to list have their files already.
SnapshotIsBacked ==
    \A p \in Proc : pc[p] \in {"loaded", "filed"} => snap[p] \subseteq files

LockInv ==
    /\ TypeOK
    /\ HolderOwnsFile
    /\ CertaintyHolds
    /\ HeldByTheLiving
    /\ RoadmapIsBacked
    /\ SnapshotIsFresh
    /\ SnapshotIsBacked
=============================================================================
