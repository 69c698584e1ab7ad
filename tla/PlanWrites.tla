----------------------------- MODULE PlanWrites -----------------------------
(***************************************************************************)
(* The commands that write the plan under the write lock: phase import and *)
(* plan adopt, task add, plan sync-paths --write and phase reconcile       *)
(* --write.  The lock keeps them apart from each other.  It does not bind  *)
(* task cancel, task complete or an editor, which change phase files, the  *)
(* ledger and decisions between any two of their steps (Others), and each  *)
(* command may be killed between any two steps.                            *)
(***************************************************************************)
EXTENDS Naturals, FiniteSets

CONSTANTS
    Phases, Tasks,   \* ids
    Docs,            \* import documents: the task ids of each phase they list
    Gated,           \* tasks that require a decision
    MaxMoves,        \* bound on the steps of Others
    MaxFaults,       \* bound on kills and failing calls
    None

ASSUME DocsAssumption == \A d \in Docs : \E S \in SUBSET Phases : d \in [S -> SUBSET Tasks]
ASSUME BoundsAssumption == MaxMoves \in Nat /\ MaxFaults \in Nat

VARIABLES
    roadmap,   \* the registered phases
    file,      \* per phase: None, or the content of its phase file
    adr,       \* per task: None, "proposed" or "accepted"
    done,      \* the tasks whose last event is done
    pc, job,   \* the running command: its next step, what it was asked for
    todo,      \* the phases it has still to visit
    owed,      \* the tasks it has still to visit
    planned,   \* reconcile: the flips it will apply, with the status each expects
    seen,      \* the bytes of the phase file it read last
    excused,   \* ids that task add by flags, or an unreadable phase file, let in twice
    raced,     \* someone saved the phase file between its comparison and its rename
    moves, faults

disk == <<roadmap, file, adr, done>>
command == <<pc, job, todo, owed, planned, seen>>
marks == <<excused, raced>>
vars == <<disk, command, marks, moves, faults>>

(* A phase file: it parses, it names paths plan sync-paths is asked to     *)
(* rename, and each task has a status.                                     *)
Status == {"planned", "done", "cancelled"}
Content == [parses : BOOLEAN, oldPaths : BOOLEAN,
            status : UNION {[S -> Status] : S \in SUBSET Tasks}]
ASSUME NoneAssumption == None \notin Content /\ None \notin {"proposed", "accepted"}
IdsIn(c) == IF c = None THEN {} ELSE DOMAIN c.status
Ids(p) == IdsIn(file[p])
Parses(p) == file[p] # None /\ file[p].parses

NewPhase(S) == [parses |-> TRUE, oldPaths |-> TRUE, status |-> [t \in S |-> "planned"]]
WithTask(c, t) == [c EXCEPT !.status = [u \in DOMAIN c.status \cup {t} |->
                                            IF u = t THEN "planned" ELSE c.status[u]]]
Flipped(c, t) == [c EXCEPT !.status[t] = "done"]
Synced(c) == [c EXCEPT !.oldPaths = FALSE]

NoJob == [cmd |-> "none", doc |-> None, phase |-> None, task |-> None, spec |-> FALSE]
Goto(l) == pc' = l
Finish ==
    /\ pc' = "idle" /\ job' = NoJob /\ todo' = {} /\ owed' = {}
    /\ planned' = {} /\ seen' = None /\ raced' = FALSE

-----------------------------------------------------------------------------
(* phase import, plan adopt: all checks first, then one createPhase for    *)
(* each phase that is not registered yet, then the decision stubs.         *)

Targets(d) == DOMAIN d \ roadmap

\* The ids of registered phases; a phase file that does not load is passed over.
KnownIds == UNION {Ids(p) : p \in {q \in roadmap : Parses(q)}}
UnseenIds == UNION {Ids(p) : p \in {q \in roadmap : ~ Parses(q)}}

\* Faulty variant: the targets are compared with the registered phases only.
IdsCollideWithKnown(d) == \E p \in Targets(d) : d[p] \cap KnownIds # {}

IdsCollide(d) ==
    \E p \in Targets(d) :
        \/ d[p] \cap KnownIds # {}
        \/ \E q \in Targets(d) \ {p} : d[p] \cap d[q] # {}

Preflight(d, force) ==
    /\ pc = "idle"
    /\ force \/ DOMAIN d \cap roadmap = {}
    /\ Targets(d) # {}
    /\ ~ IdsCollide(d)
    /\ job' = [NoJob EXCEPT !.cmd = "import", !.doc = d]
    /\ todo' = Targets(d)
    /\ excused' = excused \cup (UnseenIds \cap UNION {d[p] : p \in Targets(d)})
    /\ Goto("create")
    /\ UNCHANGED <<disk, owed, planned, seen, raced, moves, faults>>

\* Faulty variant: a file in the way is an error.
CreateFileExclusively(p) ==
    /\ pc = "create" /\ p \in todo
    /\ file[p] = None
    /\ file' = [file EXCEPT ![p] = NewPhase(job.doc[p])]
    /\ job' = [job EXCEPT !.phase = p]
    /\ Goto("register")
    /\ UNCHANGED <<roadmap, adr, done, todo, owed, planned, seen, marks, moves, faults>>

\* createPhase overwrites a file that is not registered: a killed import left it.
CreateFile(p) ==
    /\ pc = "create" /\ p \in todo
    /\ file' = [file EXCEPT ![p] = NewPhase(job.doc[p])]
    /\ job' = [job EXCEPT !.phase = p]
    /\ Goto("register")
    /\ UNCHANGED <<roadmap, adr, done, todo, owed, planned, seen, marks, moves, faults>>

\* The stubs are owed for the phases this run imports, and only for those.
Register ==
    /\ pc = "register"
    /\ roadmap' = roadmap \cup {job.phase}
    /\ owed' = owed \cup (job.doc[job.phase] \cap Gated)
    /\ todo' = todo \ {job.phase}
    /\ Goto(IF todo = {job.phase} THEN "scaffold" ELSE "create")
    /\ UNCHANGED <<file, adr, done, job, planned, seen, marks, moves, faults>>

Scaffold(t) ==
    /\ pc = "scaffold" /\ t \in owed
    /\ adr' = [adr EXCEPT ![t] = IF @ = None THEN "proposed" ELSE @]
    /\ owed' = owed \ {t}
    /\ UNCHANGED <<roadmap, file, done, pc, job, todo, planned, seen, marks, moves, faults>>

Scaffolded ==
    /\ pc = "scaffold" /\ owed = {}
    /\ Finish
    /\ UNCHANGED <<disk, excused, moves, faults>>

-----------------------------------------------------------------------------
(* task add.  With --spec-file the id is looked for in every registered    *)
(* phase; with flags or the wizard in its own phase only.                  *)

AddRead(p, t, spec) ==
    /\ pc = "idle"
    /\ p \in roadmap /\ Parses(p)
    /\ seen' = file[p]
    /\ job' = [NoJob EXCEPT !.cmd = "add", !.phase = p, !.task = t, !.spec = spec]
    /\ Goto("addCheck")
    /\ UNCHANGED <<disk, todo, owed, planned, marks, moves, faults>>

UsedElsewhere == \E q \in roadmap \ {job.phase} : job.task \in Ids(q)

IdIsFree ==
    /\ job.task \notin IdsIn(seen)
    /\ job.spec => \A q \in roadmap : Parses(q) /\ job.task \notin Ids(q)

AddCheck ==
    /\ pc = "addCheck" /\ IdIsFree
    /\ excused' = IF UsedElsewhere THEN excused \cup {job.task} ELSE excused
    /\ Goto("addCompare")
    /\ UNCHANGED <<disk, job, todo, owed, planned, seen, raced, moves, faults>>

AddCompare ==
    /\ pc = "addCompare"
    /\ file[job.phase] = seen
    /\ Goto("addRename")
    /\ raced' = FALSE
    /\ UNCHANGED <<disk, job, todo, owed, planned, seen, excused, moves, faults>>

Candidate == WithTask(seen, job.task)

AddRename ==
    /\ pc = "addRename"
    /\ file' = [file EXCEPT ![job.phase] = Candidate]
    /\ Goto("confirm")
    /\ UNCHANGED <<roadmap, adr, done, job, todo, owed, planned, seen, marks, moves, faults>>

\* The file is loaded again and must hold the task as it was given.
Stored ==
    /\ Parses(job.phase) /\ job.task \in Ids(job.phase)
    /\ file[job.phase].status[job.task] = "planned"

AddConfirm ==
    /\ pc = "confirm" /\ Stored
    /\ Finish
    /\ UNCHANGED <<disk, excused, moves, faults>>

\* The load fails, or finds something else: roll back if the file is still ours.
ConfirmFails ==
    /\ pc = "confirm"
    /\ \/ ~ Stored /\ faults' = faults
       \/ faults < MaxFaults /\ faults' = faults + 1
    /\ Goto("undoCompare")
    /\ UNCHANGED <<disk, job, todo, owed, planned, seen, marks, moves>>

UndoCompare ==
    /\ pc = "undoCompare"
    /\ file[job.phase] = Candidate
    /\ Goto("undo")
    /\ raced' = FALSE
    /\ UNCHANGED <<disk, job, todo, owed, planned, seen, excused, moves, faults>>

Undo ==
    /\ pc = "undo"
    /\ file' = [file EXCEPT ![job.phase] = seen]
    /\ Finish
    /\ UNCHANGED <<roadmap, adr, done, excused, moves, faults>>

\* task add gives up where one of its guards does not hold.
AddRefuses ==
    /\ \/ pc = "addCheck" /\ ~ IdIsFree
       \/ pc = "addCompare" /\ file[job.phase] # seen
       \/ pc = "undoCompare" /\ file[job.phase] # Candidate
    /\ Finish
    /\ UNCHANGED <<disk, excused, moves, faults>>

-----------------------------------------------------------------------------
(* plan sync-paths --write: each phase file of the directory, registered   *)
(* or not, is read and, if it names an old path, written without a second  *)
(* look.  A file that does not parse is skipped.                           *)

SyncList ==
    /\ pc = "idle"
    /\ \E p \in Phases : file[p] # None
    /\ todo' = {p \in Phases : file[p] # None}
    /\ job' = [NoJob EXCEPT !.cmd = "sync"]
    /\ Goto("syncRead")
    /\ UNCHANGED <<disk, owed, planned, seen, marks, moves, faults>>

SyncRead(p) ==
    /\ pc = "syncRead" /\ p \in todo
    /\ IF Parses(p) /\ file[p].oldPaths
         THEN /\ seen' = file[p]
              /\ job' = [job EXCEPT !.phase = p]
              /\ Goto("syncWrite")
              /\ UNCHANGED todo
         ELSE /\ todo' = todo \ {p}
              /\ UNCHANGED <<pc, job, seen>>
    /\ UNCHANGED <<disk, owed, planned, marks, moves, faults>>

SyncWrite ==
    /\ pc = "syncWrite"
    /\ file' = [file EXCEPT ![job.phase] = Synced(seen)]
    /\ todo' = todo \ {job.phase}
    /\ Goto("syncRead")
    /\ UNCHANGED <<roadmap, adr, done, job, owed, planned, seen, marks, moves, faults>>

SyncDone ==
    /\ pc = "syncRead" /\ todo = {}
    /\ Finish
    /\ UNCHANGED <<disk, excused, moves, faults>>

-----------------------------------------------------------------------------
(* phase reconcile --write: the phase file is read, then the ledger, then  *)
(* each flip is classified on a new read and applied on another, which the *)
(* rename compares.  What fails for one task is skipped.                   *)

ReconcileRead(p) ==
    /\ pc = "idle"
    /\ p \in roadmap /\ Parses(p)
    /\ seen' = file[p]
    /\ job' = [NoJob EXCEPT !.cmd = "reconcile", !.phase = p]
    /\ Goto("judge")
    /\ UNCHANGED <<disk, todo, owed, planned, marks, moves, faults>>

Flips == {t \in IdsIn(seen) : seen.status[t] = "planned" /\ t \in done}

Judge ==
    /\ pc = "judge" /\ Flips # {}
    /\ owed' = Flips
    /\ Goto("classify")
    /\ UNCHANGED <<disk, job, todo, planned, seen, marks, moves, faults>>

NothingToFlip ==
    /\ pc = "judge" /\ Flips = {}
    /\ Finish
    /\ UNCHANGED <<disk, excused, moves, faults>>

\* The status a flip expects is the one of this read, not of the one judged.
Classify(t) ==
    /\ pc = "classify" /\ t \in owed
    /\ owed' = owed \ {t}
    /\ \/ /\ Parses(job.phase) /\ file[job.phase].status[t] # "done"
          /\ planned' = planned \cup {[task |-> t, before |-> file[job.phase].status[t]]}
          /\ UNCHANGED faults
       \/ /\ ~ Parses(job.phase) \/ file[job.phase].status[t] = "done"
          /\ UNCHANGED <<planned, faults>>
       \/ /\ faults < MaxFaults /\ faults' = faults + 1
          /\ UNCHANGED planned
    /\ Goto(IF owed = {t} THEN "apply" ELSE "classify")
    /\ UNCHANGED <<disk, job, todo, seen, marks, moves>>

\* Faulty variant: the flip does not look at the status again.
ApplyAsPlanned(w) ==
    /\ pc = "apply" /\ w \in planned
    /\ Parses(job.phase)
    /\ seen' = file[job.phase]
    /\ job' = [job EXCEPT !.task = w.task]
    /\ Goto("flipCompare")
    /\ UNCHANGED <<disk, todo, owed, planned, marks, moves, faults>>

Apply(w) ==
    /\ pc = "apply" /\ w \in planned
    /\ Parses(job.phase) /\ file[job.phase].status[w.task] = w.before
    /\ seen' = file[job.phase]
    /\ job' = [job EXCEPT !.task = w.task]
    /\ Goto("flipCompare")
    /\ UNCHANGED <<disk, todo, owed, planned, marks, moves, faults>>

FlipCompare ==
    /\ pc = "flipCompare"
    /\ file[job.phase] = seen
    /\ Goto("flip")
    /\ raced' = FALSE
    /\ UNCHANGED <<disk, job, todo, owed, planned, seen, excused, moves, faults>>

OtherFlips == {w \in planned : w.task # job.task}

Flip ==
    /\ pc = "flip"
    /\ file' = [file EXCEPT ![job.phase] = Flipped(seen, job.task)]
    /\ planned' = OtherFlips
    /\ Goto("apply")
    /\ UNCHANGED <<roadmap, adr, done, job, todo, owed, seen, marks, moves, faults>>

\* A flip that cannot be applied is reported and skipped.
SkipFlip ==
    /\ \/ /\ pc = "apply"
          /\ \E w \in planned :
              /\ planned' = planned \ {w}
              /\ \/ ~ Parses(job.phase) /\ UNCHANGED faults
                 \/ /\ Parses(job.phase) /\ file[job.phase].status[w.task] # w.before
                    /\ UNCHANGED faults
                 \/ faults < MaxFaults /\ faults' = faults + 1
       \/ /\ pc = "flipCompare" /\ file[job.phase] # seen
          /\ planned' = OtherFlips /\ UNCHANGED faults
       \/ /\ pc = "flip" /\ faults < MaxFaults /\ faults' = faults + 1
          /\ planned' = OtherFlips
    /\ Goto("apply")
    /\ UNCHANGED <<disk, job, todo, owed, seen, marks, moves>>

Reconciled ==
    /\ pc = "apply" /\ planned = {}
    /\ Finish
    /\ UNCHANGED <<disk, excused, moves, faults>>

-----------------------------------------------------------------------------
(* What the lock does not keep out.                                        *)

Move ==
    /\ moves < MaxMoves /\ moves' = moves + 1
    /\ UNCHANGED <<roadmap, command, excused, faults>>

Saved(p) == raced' = (raced \/ (p = job.phase /\ pc \in {"addRename", "undo", "flip"}))

\* task cancel, or an edit by hand.
Cancel(p, t) ==
    /\ Move
    /\ p \in roadmap /\ Parses(p) /\ t \in Ids(p)
    /\ file[p].status[t] = "planned"
    /\ file' = [file EXCEPT ![p].status[t] = "cancelled"]
    /\ Saved(p)
    /\ UNCHANGED <<adr, done>>

\* A user saves a file that does not parse, or repairs it.
BreakOrMend(p) ==
    /\ Move
    /\ file[p] # None
    /\ file' = [file EXCEPT ![p].parses = ~ @]
    /\ Saved(p)
    /\ UNCHANGED <<adr, done>>

\* task complete.
Complete(t) ==
    /\ Move
    /\ \E p \in roadmap : Parses(p) /\ t \in Ids(p) /\ file[p].status[t] # "cancelled"
    /\ t \notin done
    /\ done' = done \cup {t}
    /\ UNCHANGED <<file, adr, raced>>

\* A decision is written, or a stub is accepted.
Accept(t) ==
    /\ Move
    /\ t \in Gated /\ adr[t] # "accepted"
    /\ adr' = [adr EXCEPT ![t] = "accepted"]
    /\ UNCHANGED <<file, done, raced>>

Others ==
    \/ \E p \in Phases : BreakOrMend(p) \/ \E t \in Tasks : Cancel(p, t)
    \/ \E t \in Tasks : Complete(t) \/ Accept(t)

\* A kill, or an error that ends the command.
Kill ==
    /\ pc # "idle" /\ faults < MaxFaults /\ faults' = faults + 1
    /\ Finish
    /\ UNCHANGED <<disk, excused, moves>>

-----------------------------------------------------------------------------
Start ==
    \/ \E d \in Docs, force \in BOOLEAN : Preflight(d, force)
    \/ \E p \in Phases, t \in Tasks, spec \in BOOLEAN : AddRead(p, t, spec)
    \/ SyncList
    \/ \E p \in Phases : ReconcileRead(p)

Import ==
    \/ \E p \in todo : CreateFile(p)
    \/ Register
    \/ \E t \in owed : Scaffold(t)
    \/ Scaffolded

Add ==
    \/ AddCheck \/ AddCompare \/ AddRename \/ AddConfirm
    \/ ConfirmFails \/ UndoCompare \/ Undo \/ AddRefuses

Sync ==
    \/ \E p \in todo : SyncRead(p)
    \/ SyncWrite \/ SyncDone

Reconcile ==
    \/ Judge \/ NothingToFlip
    \/ \E t \in owed : Classify(t)
    \/ \E w \in planned : Apply(w)
    \/ FlipCompare \/ Flip \/ SkipFlip \/ Reconciled

Command == Import \/ Add \/ Sync \/ Reconcile

Init ==
    /\ roadmap = {} /\ file = [p \in Phases |-> None]
    /\ adr = [t \in Tasks |-> None] /\ done = {}
    /\ pc = "idle" /\ job = NoJob /\ todo = {} /\ owed = {} /\ planned = {} /\ seen = None
    /\ excused = {} /\ raced = FALSE /\ moves = 0 /\ faults = 0

Next == Start \/ Command \/ Others \/ Kill

Spec == Init /\ [][Next]_vars

\* A command that runs goes on; an import is repeated until it is let through.
FairSpec ==
    /\ Spec
    /\ WF_vars(Command)
    /\ \A d \in Docs : SF_vars(Preflight(d, TRUE))

-----------------------------------------------------------------------------
Job == [cmd : {"none", "import", "add", "sync", "reconcile"}, doc : Docs \cup {None},
        phase : Phases \cup {None}, task : Tasks \cup {None}, spec : BOOLEAN]

TypeOK ==
    /\ job \in Job
    /\ roadmap \in SUBSET Phases
    /\ file \in [Phases -> Content \cup {None}]
    /\ adr \in [Tasks -> {None, "proposed", "accepted"}]
    /\ done \in SUBSET Tasks
    /\ todo \in SUBSET Phases /\ owed \in SUBSET Tasks
    /\ planned \in SUBSET [task : Tasks, before : Status]
    /\ seen \in Content \cup {None}
    /\ excused \in SUBSET Tasks /\ raced \in BOOLEAN

\* No two registered phases hold the same task id, whatever kills and edits come
\* between the checks of an import or of task add --spec-file and their writes:
\* except ids that task add by flags, which looks in one phase only, or a phase
\* file that an import could not read, let in.
IdsStayUnique ==
    \A p, q \in roadmap : p # q => Ids(p) \cap Ids(q) \subseteq excused

Cancelled(p, t) == t \in Ids(p) /\ file[p].status[t] = "cancelled"

\* What people decide beside the commands stands: a cancelled task stays
\* cancelled and an accepted decision accepted, except under plan sync-paths,
\* which writes what it read, under a rename that an edit slipped in before
\* after the comparison, and where reconcile classified a task that had been
\* cancelled since it was judged.
DecisionsStand ==
    [][/\ \A p \in Phases, t \in Tasks :
            (Cancelled(p, t) /\ ~ Cancelled(p, t)') =>
                \/ pc = "syncWrite"
                \/ pc \in {"addRename", "undo", "flip"} /\ raced
                \/ pc = "flip" /\ [task |-> t, before |-> "cancelled"] \in planned
       /\ \A t \in Tasks : adr[t] = "accepted" => adr'[t] = "accepted"]_vars

\* An import that is repeated with --force after kills and beside other commands
\* registers every phase of its document in the end, unless ids collide.
ImportConverges ==
    \A d \in Docs : <>(DOMAIN d \subseteq roadmap \/ IdsCollide(d))
=============================================================================
