-------------------------- MODULE PlanWritesProofs --------------------------
(***************************************************************************)
(* The plan's writers for any phases, tasks, import documents, foreign     *)
(* steps and faults.  PlanInv is inductive: the checks of an import or of  *)
(* task add still hold when it writes, since the lock keeps every other    *)
(* writer of ids out, and what a command has compared is still on disk     *)
(* unless someone saved the file since.                                    *)
(***************************************************************************)
EXTENDS PlanWrites, TLAPS

-----------------------------------------------------------------------------
(* What the writers do to the content of a phase file.                     *)

CancelledIn(c) == {t \in IdsIn(c) : c.status[t] = "cancelled"}
Toggled(c) == [c EXCEPT !.parses = ~ @]
WithCancelled(c, t) == [c EXCEPT !.status[t] = "cancelled"]

LEMMA ContentFacts ==
  ASSUME NEW c \in Content
  PROVE  /\ c # None /\ IdsIn(c) = DOMAIN c.status /\ IdsIn(c) \in SUBSET Tasks
         /\ c.status \in [IdsIn(c) -> Status]
         /\ c.parses \in BOOLEAN /\ c.oldPaths \in BOOLEAN
         /\ c = [parses |-> c.parses, oldPaths |-> c.oldPaths, status |-> c.status]
<1>1. c # None
  BY NoneAssumption
<1>2. c.status \in UNION {[S -> Status] : S \in SUBSET Tasks}
  BY DEF Content
<1>3. PICK S \in SUBSET Tasks : c.status \in [S -> Status]
  BY <1>2
<1>4. QED
  BY <1>1, <1>3 DEF IdsIn, Content

\* The three fields as a record.
Fields(b, o, f) == [parses |-> b, oldPaths |-> o, status |-> f]

\* A record with a status function over some tasks is a content with their ids.
LEMMA ContentOf ==
  ASSUME NEW b \in BOOLEAN, NEW o \in BOOLEAN, NEW S \in SUBSET Tasks, NEW f \in [S -> Status]
  PROVE  /\ Fields(b, o, f) \in Content
         /\ IdsIn(Fields(b, o, f)) = S
         /\ CancelledIn(Fields(b, o, f)) = {t \in S : f[t] = "cancelled"}
<1> DEFINE c == Fields(b, o, f)
<1>1. f \in UNION {[T -> Status] : T \in SUBSET Tasks}
  OBVIOUS
<1>2. c \in Content
  BY <1>1 DEF Content, Fields
<1>3. IdsIn(c) = S
  BY <1>2, NoneAssumption DEF IdsIn, Fields
<1>4. QED
  BY <1>2, <1>3 DEF CancelledIn, Fields

LEMMA NewPhaseFacts ==
  ASSUME NEW S \in SUBSET Tasks
  PROVE  NewPhase(S) \in Content /\ IdsIn(NewPhase(S)) = S /\ CancelledIn(NewPhase(S)) = {}
<1> DEFINE f == [t \in S |-> "planned"]
           y == TRUE
<1>1. f \in [S -> Status] /\ y \in BOOLEAN
  BY DEF Status
<1>2. NewPhase(S) = Fields(y, y, f)
  BY DEF NewPhase, Fields
<1>3. {t \in S : f[t] = "cancelled"} = {}
  OBVIOUS
<1> HIDE DEF f, y
<1>4. /\ Fields(y, y, f) \in Content
      /\ IdsIn(Fields(y, y, f)) = S
      /\ CancelledIn(Fields(y, y, f)) = {t \in S : f[t] = "cancelled"}
  BY <1>1, ContentOf
<1>5. QED
  BY <1>2, <1>3, <1>4

LEMMA WithTaskFacts ==
  ASSUME NEW c \in Content, NEW t \in Tasks
  PROVE  /\ WithTask(c, t) \in Content
         /\ IdsIn(WithTask(c, t)) = IdsIn(c) \cup {t}
         /\ CancelledIn(WithTask(c, t)) = CancelledIn(c) \ {t}
<1> DEFINE S == IdsIn(c) \cup {t}
           f == [u \in S |-> IF u = t THEN "planned" ELSE c.status[u]]
<1>1. f \in [S -> Status] /\ S \in SUBSET Tasks
  BY ContentFacts DEF Status
<1>2. WithTask(c, t) = Fields(c.parses, c.oldPaths, f)
  BY ContentFacts DEF WithTask, Fields
<1>3. {u \in S : f[u] = "cancelled"} = CancelledIn(c) \ {t}
  BY DEF CancelledIn
<1>4. c.parses \in BOOLEAN /\ c.oldPaths \in BOOLEAN
  BY ContentFacts
<1> HIDE DEF f, S
<1>5. QED
  BY <1>1, <1>2, <1>3, <1>4, ContentOf DEF S

\* One status is replaced.
LEMMA StatusReplaced ==
  ASSUME NEW c \in Content, NEW t, NEW s \in Status
  PROVE  LET d == [c EXCEPT !.status[t] = s]
         IN  /\ d \in Content /\ IdsIn(d) = IdsIn(c)
             /\ CancelledIn(c) \ {t} \subseteq CancelledIn(d)
             /\ CancelledIn(d) \subseteq CancelledIn(c) \cup {t}
<1> DEFINE f == [c.status EXCEPT ![t] = s]
           d == [c EXCEPT !.status[t] = s]
<1>1. f \in [IdsIn(c) -> Status] /\ IdsIn(c) \in SUBSET Tasks
  BY ContentFacts
<1>2. d = Fields(c.parses, c.oldPaths, f)
  BY ContentFacts DEF Fields
<1>3. /\ CancelledIn(c) \ {t} \subseteq {u \in IdsIn(c) : f[u] = "cancelled"}
      /\ {u \in IdsIn(c) : f[u] = "cancelled"} \subseteq CancelledIn(c) \cup {t}
  BY ContentFacts DEF CancelledIn
<1>4. c.parses \in BOOLEAN /\ c.oldPaths \in BOOLEAN
  BY ContentFacts
<1> HIDE DEF f, d
<1>5. QED
  BY <1>1, <1>2, <1>3, <1>4, ContentOf DEF d

LEMMA SyncedFacts ==
  ASSUME NEW c \in Content
  PROVE  /\ Synced(c) \in Content /\ IdsIn(Synced(c)) = IdsIn(c)
         /\ CancelledIn(Synced(c)) = CancelledIn(c)
<1> DEFINE n == FALSE
<1>1. n \in BOOLEAN /\ Synced(c) = [c EXCEPT !.oldPaths = n]
  BY DEF Synced
<1> HIDE DEF n
<1>2. Synced(c) = Fields(c.parses, n, c.status)
  BY <1>1, ContentFacts DEF Fields
<1>3. c.parses \in BOOLEAN /\ IdsIn(c) \in SUBSET Tasks /\ c.status \in [IdsIn(c) -> Status]
  BY ContentFacts
<1>4. /\ Synced(c) \in Content /\ IdsIn(Synced(c)) = IdsIn(c)
      /\ CancelledIn(Synced(c)) = {t \in IdsIn(c) : c.status[t] = "cancelled"}
  BY <1>1, <1>2, <1>3, ContentOf
<1>5. QED
  BY <1>4 DEF CancelledIn

LEMMA ToggledFacts ==
  ASSUME NEW c \in Content
  PROVE  /\ Toggled(c) \in Content /\ IdsIn(Toggled(c)) = IdsIn(c)
         /\ CancelledIn(Toggled(c)) = CancelledIn(c)
<1> DEFINE b == ~ c.parses
<1>1. Toggled(c) = Fields(b, c.oldPaths, c.status)
  BY ContentFacts DEF Toggled, Fields
<1>2. /\ b \in BOOLEAN /\ c.oldPaths \in BOOLEAN
      /\ IdsIn(c) \in SUBSET Tasks
      /\ c.status \in [IdsIn(c) -> Status]
  BY ContentFacts
<1> HIDE DEF b
<1>3. /\ Toggled(c) \in Content /\ IdsIn(Toggled(c)) = IdsIn(c)
      /\ CancelledIn(Toggled(c)) = {t \in IdsIn(c) : c.status[t] = "cancelled"}
  BY <1>1, <1>2, ContentOf
<1>4. QED
  BY <1>3 DEF CancelledIn

-----------------------------------------------------------------------------
(* The inductive invariant.                                                *)

AddSteps == {"addCheck", "addCompare", "addRename", "confirm", "undoCompare", "undo"}
ReconcileSteps == {"judge", "classify", "apply", "flipCompare", "flip"}
Looking == {"addCheck", "addCompare", "addRename", "syncWrite", "judge", "flipCompare", "flip"}
Undoing == {"confirm", "undoCompare", "undo"}

\* A registered phase has a file; so has the phase a command is at.
PhaseIsThere ==
    /\ \A p \in roadmap : file[p] \in Content
    /\ pc \in AddSteps \cup ReconcileSteps => job.phase \in roadmap
    /\ pc \in AddSteps => job.task \in Tasks
    /\ pc \in {"register", "syncWrite"} => job.phase \in Phases /\ file[job.phase] \in Content

\* plan sync-paths visits phase files that exist.
SyncQueue == pc \in {"syncRead", "syncWrite"} => \A p \in todo : file[p] \in Content

\* While a command holds bytes of a phase file, ids only come by that command.
SeenHasIds ==
    /\ pc \in Looking \cup Undoing => seen \in Content
    /\ pc \in Looking => Ids(job.phase) = IdsIn(seen)
    /\ pc \in Undoing => IdsIn(seen) \subseteq Ids(job.phase)
    /\ pc = "classify" => owed \subseteq Ids(job.phase)
    /\ pc \in {"addCompare", "addRename", "confirm", "undoCompare", "undo"} =>
           job.task \notin IdsIn(seen)

\* What was compared is on disk, unless someone saved the file since.
Compared ==
    /\ pc \in {"addRename", "flip"} => raced \/ file[job.phase] = seen
    /\ pc = "undo" => raced \/ file[job.phase] = Candidate

FlipIsPlanned ==
    pc \in {"flipCompare", "flip"} =>
        [task |-> job.task, before |-> seen.status[job.task]] \in planned

\* The phases of an import that are still to come collide with nothing.
ImportIsFree ==
    pc \in {"create", "register"} =>
        /\ job.doc \in Docs /\ todo \subseteq DOMAIN job.doc /\ todo \cap roadmap = {}
        /\ \A p \in todo, q \in roadmap : job.doc[p] \cap Ids(q) \subseteq excused
        /\ \A p, q \in todo : p # q => job.doc[p] \cap job.doc[q] = {}
        /\ pc = "register" => job.phase \in todo /\ Ids(job.phase) = job.doc[job.phase]

\* A task that is about to be added is in no other phase, or is excused.
AddIsFree ==
    pc \in {"addCompare", "addRename"} => (UsedElsewhere => job.task \in excused)

\* Nobody cancels a task of a phase that is not registered.
OrphansAreNew ==
    /\ \A p \in Phases \ roadmap : CancelledIn(file[p]) = {}
    /\ pc = "syncWrite" /\ job.phase \notin roadmap => CancelledIn(seen) = {}

CommandInv ==
    /\ PhaseIsThere /\ SyncQueue /\ SeenHasIds /\ Compared /\ FlipIsPlanned
    /\ ImportIsFree /\ AddIsFree

DiskInv == OrphansAreNew /\ IdsStayUnique

PlanInv == TypeOK /\ CommandInv /\ DiskInv

-----------------------------------------------------------------------------
(* Each step keeps it.  Steps that end a command leave nothing to keep but *)
(* what holds of the disk.                                                 *)

USE DEF Goto, disk, marks, AddSteps, ReconcileSteps, Looking, Undoing

LEMMA FinishKeepsPlan ==
  ASSUME PlanInv, Finish, UNCHANGED <<disk, excused>>
  PROVE  PlanInv'
<1>1. TypeOK'
  BY DEF PlanInv, TypeOK, Finish, NoJob, Job
<1>2. CommandInv'
  BY DEF PlanInv, Finish, CommandInv, PhaseIsThere, SyncQueue, SeenHasIds, Compared,
         FlipIsPlanned, ImportIsFree, AddIsFree
<1>3. DiskInv'
  BY DEF PlanInv, Finish, DiskInv, OrphansAreNew, IdsStayUnique, Ids
<1>4. QED
  BY <1>1, <1>2, <1>3 DEF PlanInv

LEMMA AddReadKeepsPlan ==
  ASSUME PlanInv, NEW p \in Phases, NEW t \in Tasks, NEW spec \in BOOLEAN, AddRead(p, t, spec)
  PROVE  PlanInv'
<1>1. job' = [cmd |-> "add", doc |-> None, phase |-> p, task |-> t, spec |-> spec]
  BY DEF AddRead, NoJob
<1>2. file[p] \in Content
  BY DEF AddRead, PlanInv, CommandInv, PhaseIsThere
<1>3. TypeOK'
  BY <1>1, <1>2 DEF PlanInv, TypeOK, AddRead, Job
<1>4. CommandInv'
  BY <1>1, <1>2 DEF PlanInv, AddRead, CommandInv, PhaseIsThere, SyncQueue, SeenHasIds, Compared,
                    FlipIsPlanned, ImportIsFree, AddIsFree, Ids
<1>5. DiskInv'
  BY <1>1, <1>2 DEF PlanInv, AddRead, DiskInv, OrphansAreNew, IdsStayUnique, Ids
<1>6. QED
  BY <1>3, <1>4, <1>5 DEF PlanInv

LEMMA AddCheckKeepsPlan ==
  ASSUME PlanInv, AddCheck
  PROVE  PlanInv'
<1>1. job.task \in Tasks
  BY DEF PlanInv, CommandInv, PhaseIsThere, AddCheck
<1>2. TypeOK'
  BY <1>1 DEF PlanInv, TypeOK, AddCheck, Job, PhaseIsThere
<1>3. CommandInv'
  BY <1>1 DEF PlanInv, AddCheck, CommandInv, PhaseIsThere, SyncQueue, SeenHasIds, Compared,
              FlipIsPlanned, ImportIsFree, AddIsFree, Ids, IdIsFree, UsedElsewhere
<1>4. DiskInv'
  BY <1>1 DEF PlanInv, AddCheck, DiskInv, OrphansAreNew, IdsStayUnique, Ids
<1>5. QED
  BY <1>2, <1>3, <1>4 DEF PlanInv

LEMMA AddCompareKeepsPlan ==
  ASSUME PlanInv, AddCompare
  PROVE  PlanInv'
<1>1. TypeOK'
  BY DEF PlanInv, TypeOK, AddCompare, Job
<1>2. CommandInv'
  BY DEF PlanInv, AddCompare, CommandInv, PhaseIsThere, SyncQueue, SeenHasIds, Compared,
         FlipIsPlanned, ImportIsFree, AddIsFree, Ids, UsedElsewhere
<1>3. DiskInv'
  BY DEF PlanInv, AddCompare, DiskInv, OrphansAreNew, IdsStayUnique, Ids
<1>4. QED
  BY <1>1, <1>2, <1>3 DEF PlanInv

LEMMA ConfirmFailsKeepsPlan ==
  ASSUME PlanInv, ConfirmFails
  PROVE  PlanInv'
<1>1. TypeOK'
  BY DEF PlanInv, TypeOK, ConfirmFails, Job
<1>2. CommandInv'
  BY DEF PlanInv, ConfirmFails, CommandInv, PhaseIsThere, SyncQueue, SeenHasIds, Compared,
         FlipIsPlanned, ImportIsFree, AddIsFree, Ids
<1>3. DiskInv'
  BY DEF PlanInv, ConfirmFails, DiskInv, OrphansAreNew, IdsStayUnique, Ids
<1>4. QED
  BY <1>1, <1>2, <1>3 DEF PlanInv

LEMMA UndoCompareKeepsPlan ==
  ASSUME PlanInv, UndoCompare
  PROVE  PlanInv'
<1>1. TypeOK'
  BY DEF PlanInv, TypeOK, UndoCompare, Job
<1>2. CommandInv'
  BY DEF PlanInv, UndoCompare, CommandInv, PhaseIsThere, SyncQueue, SeenHasIds, Compared,
         FlipIsPlanned, ImportIsFree, AddIsFree, Ids, Candidate
<1>3. DiskInv'
  BY DEF PlanInv, UndoCompare, DiskInv, OrphansAreNew, IdsStayUnique, Ids
<1>4. QED
  BY <1>1, <1>2, <1>3 DEF PlanInv

LEMMA SyncListKeepsPlan ==
  ASSUME PlanInv, SyncList
  PROVE  PlanInv'
<1>1. job' = [cmd |-> "sync", doc |-> None, phase |-> None, task |-> None, spec |-> FALSE]
  BY DEF SyncList, NoJob
<1>2. job' \in Job
  BY <1>1, Zenon DEF Job
<1>3. \A p \in todo' : file[p] \in Content
  BY DEF SyncList, PlanInv, TypeOK
<1>4. TypeOK'
  BY <1>1, <1>2, <1>3 DEF PlanInv, TypeOK, SyncList, Job
<1>5. CommandInv'
  BY <1>1, <1>2, <1>3 DEF PlanInv, SyncList, CommandInv, PhaseIsThere, SyncQueue, SeenHasIds,
                          Compared, FlipIsPlanned, ImportIsFree, AddIsFree, Ids
<1>6. DiskInv'
  BY <1>1, <1>2, <1>3 DEF PlanInv, SyncList, DiskInv, OrphansAreNew, IdsStayUnique, Ids
<1>7. QED
  BY <1>4, <1>5, <1>6 DEF PlanInv

LEMMA SyncReadKeepsPlan ==
  ASSUME PlanInv, NEW p \in todo, SyncRead(p)
  PROVE  PlanInv'
<1>1. p \in Phases /\ file[p] \in Content
  BY DEF SyncRead, PlanInv, TypeOK, CommandInv, SyncQueue
<1>2. job' # job => job' \in Job /\ job'.phase = p
  BY <1>1 DEF SyncRead, PlanInv, TypeOK, Job
<1>3. pc' = "syncWrite" => job'.phase = p
  BY <1>1 DEF SyncRead, PlanInv, TypeOK, Job
<1>4. TypeOK'
  BY <1>1, <1>2, <1>3 DEF PlanInv, TypeOK, SyncRead, Job
<1>5. CommandInv'
  BY <1>1, <1>2, <1>3 DEF PlanInv, SyncRead, CommandInv, PhaseIsThere, SyncQueue, SeenHasIds,
                          Compared, FlipIsPlanned, ImportIsFree, AddIsFree, Ids
<1>6. DiskInv'
  BY <1>1, <1>2, <1>3 DEF PlanInv, SyncRead, DiskInv, OrphansAreNew, IdsStayUnique, Ids
<1>7. QED
  BY <1>4, <1>5, <1>6 DEF PlanInv

LEMMA ReconcileReadKeepsPlan ==
  ASSUME PlanInv, NEW p \in Phases, ReconcileRead(p)
  PROVE  PlanInv'
<1>1. job' = [cmd |-> "reconcile", doc |-> None, phase |-> p, task |-> None, spec |-> FALSE]
  BY DEF ReconcileRead, NoJob
<1>2. job' \in Job
  BY <1>1, Zenon DEF Job
<1>3. file[p] \in Content
  BY DEF ReconcileRead, PlanInv, CommandInv, PhaseIsThere
<1>4. TypeOK'
  BY <1>1, <1>2, <1>3 DEF PlanInv, TypeOK, ReconcileRead, Job
<1>5. CommandInv'
  BY <1>1, <1>2, <1>3 DEF PlanInv, ReconcileRead, CommandInv, PhaseIsThere, SyncQueue,
                          SeenHasIds, Compared, FlipIsPlanned, ImportIsFree, AddIsFree, Ids
<1>6. DiskInv'
  BY <1>1, <1>2, <1>3 DEF PlanInv, ReconcileRead, DiskInv, OrphansAreNew, IdsStayUnique, Ids
<1>7. QED
  BY <1>4, <1>5, <1>6 DEF PlanInv

LEMMA JudgeKeepsPlan ==
  ASSUME PlanInv, Judge
  PROVE  PlanInv'
<1>1. seen \in Content /\ IdsIn(seen) \in SUBSET Tasks /\ owed' \subseteq IdsIn(seen)
  BY ContentFacts DEF Judge, Flips, PlanInv, CommandInv, SeenHasIds
<1>2. TypeOK'
  BY <1>1 DEF PlanInv, TypeOK, Judge, Job
<1>3. CommandInv'
  BY <1>1 DEF PlanInv, Judge, CommandInv, PhaseIsThere, SyncQueue, SeenHasIds, Compared,
              FlipIsPlanned, ImportIsFree, AddIsFree, Ids
<1>4. DiskInv'
  BY <1>1 DEF PlanInv, Judge, DiskInv, OrphansAreNew, IdsStayUnique, Ids
<1>5. QED
  BY <1>2, <1>3, <1>4 DEF PlanInv

LEMMA ClassifyKeepsPlan ==
  ASSUME PlanInv, NEW t \in owed, Classify(t)
  PROVE  PlanInv'
<1>1. file[job.phase] \in Content
  BY DEF Classify, PlanInv, CommandInv, PhaseIsThere
<1>2. t \in Tasks /\ file[job.phase].status[t] \in Status
  BY <1>1, ContentFacts DEF Classify, PlanInv, TypeOK, CommandInv, SeenHasIds, Ids
<1>3. TypeOK'
  BY <1>1, <1>2 DEF PlanInv, TypeOK, Classify, Job
<1>4. CommandInv'
  BY <1>1, <1>2 DEF PlanInv, Classify, CommandInv, PhaseIsThere, SyncQueue, SeenHasIds,
                    Compared, FlipIsPlanned, ImportIsFree, AddIsFree, Ids
<1>5. DiskInv'
  BY <1>1, <1>2 DEF PlanInv, Classify, DiskInv, OrphansAreNew, IdsStayUnique, Ids
<1>6. QED
  BY <1>3, <1>4, <1>5 DEF PlanInv

LEMMA ApplyKeepsPlan ==
  ASSUME PlanInv, NEW w \in planned, Apply(w)
  PROVE  PlanInv'
<1>1. file[job.phase] \in Content
  BY DEF Apply, PlanInv, CommandInv, PhaseIsThere
<1>2. w.task \in Tasks /\ w = [task |-> w.task, before |-> w.before]
  BY DEF PlanInv, TypeOK
<1>3. job' \in Job /\ job'.phase = job.phase /\ job'.task = w.task
  BY <1>2 DEF Apply, PlanInv, TypeOK, Job
<1>4. TypeOK'
  BY <1>1, <1>2, <1>3 DEF PlanInv, TypeOK, Apply, Job
<1>5. CommandInv'
  BY <1>1, <1>2, <1>3 DEF PlanInv, Apply, CommandInv, PhaseIsThere, SyncQueue, SeenHasIds,
                          Compared, FlipIsPlanned, ImportIsFree, AddIsFree, Ids
<1>6. DiskInv'
  BY <1>1, <1>2, <1>3 DEF PlanInv, Apply, DiskInv, OrphansAreNew, IdsStayUnique, Ids
<1>7. QED
  BY <1>4, <1>5, <1>6 DEF PlanInv

LEMMA FlipCompareKeepsPlan ==
  ASSUME PlanInv, FlipCompare
  PROVE  PlanInv'
<1>1. TypeOK'
  BY DEF PlanInv, TypeOK, FlipCompare, Job
<1>2. CommandInv'
  BY DEF PlanInv, FlipCompare, CommandInv, PhaseIsThere, SyncQueue, SeenHasIds, Compared,
         FlipIsPlanned, ImportIsFree, AddIsFree, Ids
<1>3. DiskInv'
  BY DEF PlanInv, FlipCompare, DiskInv, OrphansAreNew, IdsStayUnique, Ids
<1>4. QED
  BY <1>1, <1>2, <1>3 DEF PlanInv

LEMMA SkipFlipKeepsPlan ==
  ASSUME PlanInv, SkipFlip
  PROVE  PlanInv'
<1>1. /\ pc' = "apply" /\ planned' \subseteq planned /\ pc \in {"apply", "flipCompare", "flip"}
      /\ UNCHANGED <<disk, job, todo, owed, seen, marks>>
  BY DEF SkipFlip, OtherFlips
<1>2. TypeOK'
  BY <1>1 DEF PlanInv, TypeOK
<1>3. CommandInv'
  BY <1>1 DEF PlanInv, CommandInv, PhaseIsThere, SyncQueue, SeenHasIds, Compared, FlipIsPlanned,
              ImportIsFree, AddIsFree, Ids
<1>4. DiskInv'
  BY <1>1 DEF PlanInv, DiskInv, OrphansAreNew, IdsStayUnique, Ids
<1>5. QED
  BY <1>2, <1>3, <1>4 DEF PlanInv

LEMMA ScaffoldKeepsPlan ==
  ASSUME PlanInv, NEW t \in owed, Scaffold(t)
  PROVE  PlanInv'
<1>1. adr' \in [Tasks -> {None, "proposed", "accepted"}]
  BY DEF Scaffold, PlanInv, TypeOK
<1>2. TypeOK'
  BY <1>1 DEF PlanInv, TypeOK, Scaffold, Job
<1>3. CommandInv'
  BY <1>1 DEF PlanInv, Scaffold, CommandInv, PhaseIsThere, SyncQueue, SeenHasIds, Compared,
              FlipIsPlanned, ImportIsFree, AddIsFree, Ids
<1>4. DiskInv'
  BY <1>1 DEF PlanInv, Scaffold, DiskInv, OrphansAreNew, IdsStayUnique, Ids
<1>5. QED
  BY <1>2, <1>3, <1>4 DEF PlanInv

LEMMA CreateFileKeepsPlan ==
  ASSUME PlanInv, NEW p \in todo, CreateFile(p)
  PROVE  PlanInv'
<1> DEFINE n == NewPhase(job.doc[p])
<1>1. p \in Phases /\ p \notin roadmap /\ job.doc[p] \in SUBSET Tasks
  BY DocsAssumption DEF CreateFile, PlanInv, TypeOK, CommandInv, ImportIsFree
<1>2. n \in Content /\ IdsIn(n) = job.doc[p] /\ CancelledIn(n) = {}
  BY <1>1, NewPhaseFacts
<1>3. /\ pc = "create" /\ pc' = "register" /\ file' = [file EXCEPT ![p] = n]
      /\ job' = [job EXCEPT !.phase = p]
      /\ UNCHANGED <<roadmap, adr, done, todo, owed, planned, seen, marks>>
  BY DEF CreateFile
<1>4. job' \in Job /\ job'.doc = job.doc /\ job'.phase = p
  BY <1>1, <1>3 DEF PlanInv, TypeOK, Job
<1> HIDE DEF n
<1>5. TypeOK'
  BY <1>1, <1>2, <1>3, <1>4 DEF PlanInv, TypeOK
<1>6. CommandInv'
  BY <1>1, <1>2, <1>3, <1>4
     DEF PlanInv, CommandInv, PhaseIsThere, SyncQueue, SeenHasIds, Compared, FlipIsPlanned,
         ImportIsFree, AddIsFree, Ids, TypeOK
<1>7. DiskInv'
  BY <1>1, <1>2, <1>3, <1>4 DEF PlanInv, DiskInv, OrphansAreNew, IdsStayUnique, Ids
<1>8. QED
  BY <1>5, <1>6, <1>7 DEF PlanInv

LEMMA RegisterKeepsPlan ==
  ASSUME PlanInv, Register
  PROVE  PlanInv'
<1>1. job.phase \in todo /\ job.phase \in Phases /\ job.doc[job.phase] \in SUBSET Tasks
  BY DocsAssumption DEF Register, PlanInv, TypeOK, CommandInv, ImportIsFree
<1>2. file[job.phase] \in Content
  BY DEF Register, PlanInv, CommandInv, PhaseIsThere
<1>3. TypeOK'
  BY <1>1, <1>2 DEF PlanInv, TypeOK, Register, Job
<1>4. CommandInv'
  BY <1>1, <1>2 DEF PlanInv, Register, CommandInv, PhaseIsThere, SyncQueue, SeenHasIds,
                    Compared, FlipIsPlanned, ImportIsFree, AddIsFree, Ids
<1>5. DiskInv'
  BY <1>1, <1>2 DEF PlanInv, Register, DiskInv, OrphansAreNew, IdsStayUnique, Ids, CommandInv,
                    ImportIsFree
<1>6. QED
  BY <1>3, <1>4, <1>5 DEF PlanInv

LEMMA AddRenameKeepsPlan ==
  ASSUME PlanInv, AddRename
  PROVE  PlanInv'
<1> DEFINE n == Candidate
<1>1. /\ job.phase \in Phases /\ job.phase \in roadmap /\ job.task \in Tasks
      /\ seen \in Content /\ Ids(job.phase) = IdsIn(seen)
  BY DEF AddRename, PlanInv, TypeOK, CommandInv, PhaseIsThere, SeenHasIds
<1>2. /\ n \in Content /\ IdsIn(n) = IdsIn(seen) \cup {job.task}
      /\ CancelledIn(n) = CancelledIn(seen) \ {job.task}
  BY <1>1, WithTaskFacts DEF Candidate
<1>3. /\ pc = "addRename" /\ pc' = "confirm" /\ file' = [file EXCEPT ![job.phase] = n]
      /\ UNCHANGED <<roadmap, adr, done, job, todo, owed, planned, seen, marks>>
  BY DEF AddRename
<1>4. \A q \in roadmap \ {job.phase} : job.task \in Ids(q) => job.task \in excused
  BY <1>3 DEF PlanInv, CommandInv, AddIsFree, UsedElsewhere
<1> HIDE DEF n
<1>5. TypeOK'
  BY <1>1, <1>2, <1>3, <1>4 DEF PlanInv, TypeOK
<1>6. CommandInv'
  BY <1>1, <1>2, <1>3, <1>4
     DEF PlanInv, CommandInv, PhaseIsThere, SyncQueue, SeenHasIds, Compared, FlipIsPlanned,
         ImportIsFree, AddIsFree, Ids
<1>7. DiskInv'
  BY <1>1, <1>2, <1>3, <1>4 DEF PlanInv, DiskInv, OrphansAreNew, IdsStayUnique, Ids
<1>8. QED
  BY <1>5, <1>6, <1>7 DEF PlanInv

LEMMA SyncWriteKeepsPlan ==
  ASSUME PlanInv, SyncWrite
  PROVE  PlanInv'
<1> DEFINE n == Synced(seen)
<1>1. /\ job.phase \in Phases /\ seen \in Content /\ Ids(job.phase) = IdsIn(seen)
      /\ job.phase \notin roadmap => CancelledIn(seen) = {}
  BY DEF SyncWrite, PlanInv, CommandInv, DiskInv, PhaseIsThere, SeenHasIds, OrphansAreNew
<1>2. /\ n \in Content /\ IdsIn(n) = IdsIn(seen) /\ CancelledIn(n) = CancelledIn(seen)
  BY <1>1, SyncedFacts
<1>3. /\ pc = "syncWrite" /\ pc' = "syncRead" /\ file' = [file EXCEPT ![job.phase] = n]
      /\ todo' = todo \ {job.phase}
      /\ UNCHANGED <<roadmap, adr, done, job, owed, planned, seen, marks>>
  BY DEF SyncWrite
<1>4. \A q \in todo' : file'[q] \in Content
  BY <1>1, <1>2, <1>3 DEF PlanInv, TypeOK, CommandInv, SyncQueue
<1> HIDE DEF n
<1>5. TypeOK'
  BY <1>1, <1>2, <1>3, <1>4 DEF PlanInv, TypeOK
<1>6. CommandInv'
  BY <1>1, <1>2, <1>3, <1>4
     DEF PlanInv, CommandInv, PhaseIsThere, SyncQueue, SeenHasIds, Compared, FlipIsPlanned,
         ImportIsFree, AddIsFree, Ids
<1>7. DiskInv'
  BY <1>1, <1>2, <1>3, <1>4 DEF PlanInv, DiskInv, OrphansAreNew, IdsStayUnique, Ids
<1>8. QED
  BY <1>5, <1>6, <1>7 DEF PlanInv

LEMMA FlipKeepsPlan ==
  ASSUME PlanInv, Flip
  PROVE  PlanInv'
<1> DEFINE n == Flipped(seen, job.task)
<1>1. /\ job.phase \in Phases /\ job.phase \in roadmap
      /\ seen \in Content /\ Ids(job.phase) = IdsIn(seen)
  BY DEF Flip, PlanInv, TypeOK, CommandInv, PhaseIsThere, SeenHasIds
<1>2. n \in Content /\ IdsIn(n) = IdsIn(seen)
  BY <1>1, StatusReplaced DEF Flipped, Status
<1>3. /\ pc = "flip" /\ pc' = "apply" /\ file' = [file EXCEPT ![job.phase] = n]
      /\ planned' \subseteq planned
      /\ UNCHANGED <<roadmap, adr, done, job, todo, owed, seen, marks>>
  BY DEF Flip, OtherFlips
<1> HIDE DEF n
<1>4. TypeOK'
  BY <1>1, <1>2, <1>3 DEF PlanInv, TypeOK
<1>5. CommandInv'
  BY <1>1, <1>2, <1>3 DEF PlanInv, CommandInv, PhaseIsThere, SyncQueue, SeenHasIds, Compared,
                          FlipIsPlanned, ImportIsFree, AddIsFree, Ids
<1>6. DiskInv'
  BY <1>1, <1>2, <1>3 DEF PlanInv, DiskInv, OrphansAreNew, IdsStayUnique, Ids
<1>7. QED
  BY <1>4, <1>5, <1>6 DEF PlanInv

LEMMA UndoKeepsPlan ==
  ASSUME PlanInv, Undo
  PROVE  PlanInv'
<1>1. /\ job.phase \in Phases /\ job.phase \in roadmap
      /\ seen \in Content /\ IdsIn(seen) \subseteq Ids(job.phase)
  BY DEF Undo, PlanInv, TypeOK, CommandInv, PhaseIsThere, SeenHasIds
<1>2. /\ file' = [file EXCEPT ![job.phase] = seen] /\ pc' = "idle" /\ job' = NoJob /\ job' \in Job
      /\ todo' = {} /\ owed' = {} /\ planned' = {} /\ seen' = None /\ raced' = FALSE
      /\ UNCHANGED <<roadmap, adr, done, excused>>
  BY Zenon DEF Undo, Finish, NoJob, Job
<1>3. TypeOK'
  BY <1>1, <1>2 DEF PlanInv, TypeOK
<1>4. CommandInv'
  BY <1>1, <1>2 DEF PlanInv, CommandInv, PhaseIsThere, SyncQueue, SeenHasIds, Compared,
                    FlipIsPlanned, ImportIsFree, AddIsFree, Ids
<1>5. DiskInv'
  BY <1>1, <1>2 DEF PlanInv, DiskInv, OrphansAreNew, IdsStayUnique, Ids
<1>6. QED
  BY <1>3, <1>4, <1>5 DEF PlanInv

\* Someone else saves a registered phase file with the same tasks.
LEMMA SaveKeepsPlan ==
  ASSUME PlanInv, NEW p \in Phases, NEW n \in Content, IdsIn(n) = Ids(p),
         file[p] \in Content, p \notin roadmap => CancelledIn(n) = CancelledIn(file[p]),
         Saved(p), UNCHANGED <<roadmap, adr, done, command, excused>>,
         file' = [file EXCEPT ![p] = n]
  PROVE  PlanInv'
<1>1. /\ raced' = (raced \/ (p = job.phase /\ pc \in {"addRename", "undo", "flip"}))
      /\ UNCHANGED <<roadmap, adr, done, pc, job, todo, owed, planned, seen, excused>>
  BY DEF Saved, command
<1>2. raced' \in BOOLEAN
  BY <1>1 DEF PlanInv, TypeOK
<1>3. TypeOK'
  BY <1>1, <1>2 DEF PlanInv, TypeOK
<1>4. CommandInv'
  BY <1>1, <1>2 DEF PlanInv, CommandInv, PhaseIsThere, SyncQueue, SeenHasIds, Compared,
                    FlipIsPlanned, ImportIsFree, AddIsFree, Ids, TypeOK, UsedElsewhere,
                    Candidate
<1>5. DiskInv'
  BY <1>1, <1>2 DEF PlanInv, DiskInv, OrphansAreNew, IdsStayUnique, Ids
<1>6. QED
  BY <1>3, <1>4, <1>5 DEF PlanInv

LEMMA CancelKeepsPlan ==
  ASSUME PlanInv, NEW p \in Phases, NEW t \in Tasks, Cancel(p, t)
  PROVE  PlanInv'
<1> DEFINE n == WithCancelled(file[p], t)
<1>1. p \in roadmap /\ file[p] \in Content
  BY DEF Cancel, PlanInv, CommandInv, PhaseIsThere
<1>2. n \in Content /\ IdsIn(n) = Ids(p)
  BY <1>1, StatusReplaced DEF WithCancelled, Status, Ids
<1>3. file' = [file EXCEPT ![p] = n]
  BY DEF Cancel, WithCancelled
<1>4. Saved(p) /\ UNCHANGED <<roadmap, adr, done, command, excused>>
  BY DEF Cancel, Move
<1> HIDE DEF n
<1>5. QED
  BY <1>1, <1>2, <1>3, <1>4, SaveKeepsPlan

LEMMA BreakOrMendKeepsPlan ==
  ASSUME PlanInv, NEW p \in Phases, BreakOrMend(p)
  PROVE  PlanInv'
<1> DEFINE n == Toggled(file[p])
<1>1. file[p] \in Content
  BY DEF BreakOrMend, PlanInv, TypeOK
<1>2. n \in Content /\ IdsIn(n) = Ids(p) /\ CancelledIn(n) = CancelledIn(file[p])
  BY <1>1, ToggledFacts DEF Ids
<1>3. file' = [file EXCEPT ![p] = n]
  BY DEF BreakOrMend, Toggled
<1>4. Saved(p) /\ UNCHANGED <<roadmap, adr, done, command, excused>>
  BY DEF BreakOrMend, Move
<1> HIDE DEF n
<1>5. QED
  BY <1>1, <1>2, <1>3, <1>4, SaveKeepsPlan

\* What only touches the ledger or a decision keeps it.
LEMMA ElsewhereKeepsPlan ==
  ASSUME PlanInv, done' \in SUBSET Tasks,
         adr' \in [Tasks -> {None, "proposed", "accepted"}],
         UNCHANGED <<roadmap, file, command, marks>>
  PROVE  PlanInv'
<1>1. UNCHANGED <<roadmap, file, pc, job, todo, owed, planned, seen, excused, raced>>
  BY DEF command
<1>2. TypeOK'
  BY <1>1 DEF PlanInv, TypeOK
<1>3. CommandInv'
  BY <1>1 DEF PlanInv, CommandInv, PhaseIsThere, SyncQueue, SeenHasIds, Compared, FlipIsPlanned,
              ImportIsFree, AddIsFree, Ids, UsedElsewhere, Candidate
<1>4. DiskInv'
  BY <1>1 DEF PlanInv, DiskInv, OrphansAreNew, IdsStayUnique, Ids
<1>5. QED
  BY <1>2, <1>3, <1>4 DEF PlanInv

LEMMA OthersKeepPlan ==
  ASSUME PlanInv, Others
  PROVE  PlanInv'
<1>1. ASSUME NEW p \in Phases, BreakOrMend(p)
      PROVE  PlanInv'
  BY <1>1, BreakOrMendKeepsPlan
<1>2. ASSUME NEW p \in Phases, NEW t \in Tasks, Cancel(p, t)
      PROVE  PlanInv'
  BY <1>2, CancelKeepsPlan
<1>3. ASSUME NEW t \in Tasks, Complete(t)
      PROVE  PlanInv'
  BY <1>3, ElsewhereKeepsPlan DEF Complete, Move, PlanInv, TypeOK
<1>4. ASSUME NEW t \in Tasks, Accept(t)
      PROVE  PlanInv'
  <2>1. /\ adr' \in [Tasks -> {None, "proposed", "accepted"}]
        /\ done' \in SUBSET Tasks /\ UNCHANGED <<roadmap, file, command, marks>>
    BY <1>4 DEF Accept, Move, PlanInv, TypeOK
  <2>2. QED
    BY <2>1, ElsewhereKeepsPlan
<1>5. QED
  BY <1>1, <1>2, <1>3, <1>4 DEF Others

LEMMA PreflightKeepsPlan ==
  ASSUME PlanInv, NEW d \in Docs, NEW force \in BOOLEAN, Preflight(d, force)
  PROVE  PlanInv'
<1>1. DOMAIN d \in SUBSET Phases /\ \A p \in DOMAIN d : d[p] \in SUBSET Tasks
  BY DocsAssumption
<1>2. /\ pc' = "create" /\ todo' = Targets(d)
      /\ excused' = excused \cup (UnseenIds \cap UNION {d[p] : p \in Targets(d)})
      /\ UNCHANGED <<roadmap, file, adr, done, owed, planned, seen, raced>>
  BY DEF Preflight
<1>3. job' = [cmd |-> "import", doc |-> d, phase |-> None, task |-> None, spec |-> FALSE]
  BY DEF Preflight, NoJob
<1>4. job' \in Job
  BY <1>3, Zenon DEF Job
<1>5. todo' \subseteq DOMAIN d /\ todo' \cap roadmap = {}
  BY <1>2 DEF Targets
<1>6. excused \subseteq excused' /\ excused' \in SUBSET Tasks
  BY <1>1, <1>2, <1>5 DEF PlanInv, TypeOK
<1>7. \A p, q \in todo' : p # q => d[p] \cap d[q] = {}
  BY <1>2 DEF Preflight, IdsCollide
<1>8. ASSUME NEW p \in todo', NEW q \in roadmap
      PROVE  d[p] \cap Ids(q) \subseteq excused'
  <2>1. CASE Parses(q)
    BY <1>2, <2>1 DEF Preflight, IdsCollide, KnownIds
  <2>2. CASE ~ Parses(q)
    BY <1>2, <2>2 DEF UnseenIds
  <2>3. QED
    BY <2>1, <2>2
<1>9. TypeOK'
  BY <1>1, <1>2, <1>3, <1>4, <1>5, <1>6, <1>7, <1>8 DEF PlanInv, TypeOK
<1>10. CommandInv'
  BY <1>1, <1>2, <1>3, <1>4, <1>5, <1>6, <1>7, <1>8
     DEF PlanInv, CommandInv, PhaseIsThere, SyncQueue, SeenHasIds, Compared, FlipIsPlanned,
         ImportIsFree, AddIsFree, Ids
<1>11. DiskInv'
  BY <1>1, <1>2, <1>3, <1>4, <1>5, <1>6, <1>7, <1>8
     DEF PlanInv, DiskInv, OrphansAreNew, IdsStayUnique, Ids
<1>12. QED
  BY <1>9, <1>10, <1>11 DEF PlanInv

LEMMA InitIsPlanned == Init => PlanInv
<1> SUFFICES ASSUME Init
             PROVE  PlanInv
  OBVIOUS
<1>1. job \in Job
  BY Zenon DEF Init, NoJob, Job
<1>2. TypeOK
  BY <1>1 DEF Init, TypeOK
<1>3. CommandInv
  BY DEF Init, CommandInv, PhaseIsThere, SyncQueue, SeenHasIds, Compared, FlipIsPlanned,
         ImportIsFree, AddIsFree
<1>4. DiskInv
  BY DEF Init, DiskInv, OrphansAreNew, IdsStayUnique, CancelledIn, IdsIn
<1>5. QED
  BY <1>2, <1>3, <1>4 DEF PlanInv

LEMMA NextKeepsPlan == PlanInv /\ [Next]_vars => PlanInv'
<1> SUFFICES ASSUME PlanInv, [Next]_vars
             PROVE  PlanInv'
  OBVIOUS
<1>1. CASE Start
  BY <1>1, PreflightKeepsPlan, AddReadKeepsPlan, SyncListKeepsPlan, ReconcileReadKeepsPlan
     DEF Start
<1>2. CASE Import
  BY <1>2, CreateFileKeepsPlan, RegisterKeepsPlan, ScaffoldKeepsPlan, FinishKeepsPlan
     DEF Import, Scaffolded
<1>3. CASE Add
  BY <1>3, AddCheckKeepsPlan, AddCompareKeepsPlan, AddRenameKeepsPlan, ConfirmFailsKeepsPlan,
     UndoCompareKeepsPlan, UndoKeepsPlan, FinishKeepsPlan
     DEF Add, AddConfirm, AddRefuses
<1>4. CASE Sync
  BY <1>4, SyncReadKeepsPlan, SyncWriteKeepsPlan, FinishKeepsPlan DEF Sync, SyncDone
<1>5. CASE Reconcile
  BY <1>5, JudgeKeepsPlan, ClassifyKeepsPlan, ApplyKeepsPlan, FlipCompareKeepsPlan, FlipKeepsPlan,
     SkipFlipKeepsPlan, FinishKeepsPlan
     DEF Reconcile, NothingToFlip, Reconciled
<1>6. CASE Others
  BY <1>6, OthersKeepPlan
<1>7. CASE Kill
  BY <1>7, FinishKeepsPlan DEF Kill
<1>8. CASE UNCHANGED vars
  <2>1. /\ UNCHANGED <<roadmap, file, command, marks>> /\ UNCHANGED <<done, adr>>
    BY <1>8 DEF vars
  <2>2. done' \in SUBSET Tasks /\ adr' \in [Tasks -> {None, "proposed", "accepted"}]
    BY <2>1 DEF PlanInv, TypeOK
  <2>3. QED
    BY <2>1, <2>2, ElsewhereKeepsPlan
<1>9. QED
  BY <1>1, <1>2, <1>3, <1>4, <1>5, <1>6, <1>7, <1>8 DEF Next, Command

LEMMA PlanInvHolds == Spec => []PlanInv
<1>1. QED
  BY InitIsPlanned, NextKeepsPlan, PTL DEF Spec

\* What the type invariant says of the commands' variables and the files.
THEOREM TypeCorrect == Spec => []TypeOK
<1>1. PlanInv => TypeOK
  BY DEF PlanInv
<1>2. QED
  BY <1>1, PlanInvHolds, PTL

\* No two registered phases hold the same task id, except the excused ids: the
\* checks of phase import and of task add --spec-file are enough, however many
\* steps lie between them and the writes they guard.
THEOREM IdsStayUniqueHolds == Spec => []IdsStayUnique
<1>1. PlanInv => IdsStayUnique
  BY DEF PlanInv, DiskInv
<1>2. QED
  BY <1>1, PlanInvHolds, PTL

-----------------------------------------------------------------------------
(* What people decide stands.  A step that loses the cancellation of task  *)
(* t in phase p writes p's file, so only the writers need an argument.     *)

Excepted(p, t) ==
    \/ pc = "syncWrite"
    \/ pc \in {"addRename", "undo", "flip"} /\ raced
    \/ pc = "flip" /\ [task |-> t, before |-> "cancelled"] \in planned

Lost(p, t) == t \in CancelledIn(file[p]) /\ t \notin CancelledIn(file'[p])

LEMMA CreateFileStands ==
  ASSUME PlanInv, NEW q \in todo, CreateFile(q), NEW p \in Phases, NEW t, Lost(p, t)
  PROVE  FALSE
<1>1. q \in Phases \ roadmap
  BY DEF CreateFile, PlanInv, TypeOK, CommandInv, ImportIsFree
<1>2. CancelledIn(file[q]) = {}
  BY <1>1 DEF PlanInv, DiskInv, OrphansAreNew
<1>3. p # q => file'[p] = file[p]
  BY DEF CreateFile, PlanInv, TypeOK
<1>4. QED
  BY <1>2, <1>3 DEF Lost

LEMMA AddRenameStands ==
  ASSUME PlanInv, AddRename, NEW p \in Phases, NEW t, Lost(p, t)
  PROVE  Excepted(p, t)
<1>1. /\ job.phase \in Phases /\ job.task \in Tasks /\ seen \in Content
      /\ job.task \notin IdsIn(seen) /\ (raced \/ file[job.phase] = seen)
  BY DEF AddRename, PlanInv, TypeOK, CommandInv, PhaseIsThere, SeenHasIds, Compared
<1>2. CancelledIn(Candidate) = CancelledIn(seen) \ {job.task}
  BY <1>1, WithTaskFacts DEF Candidate
<1>3. job.task \notin CancelledIn(seen)
  BY <1>1 DEF CancelledIn
<1>4. file'[p] = IF p = job.phase THEN Candidate ELSE file[p]
  BY DEF AddRename, PlanInv, TypeOK
<1>5. QED
  BY <1>1, <1>2, <1>3, <1>4 DEF Lost, Excepted, AddRename

LEMMA UndoStands ==
  ASSUME PlanInv, Undo, NEW p \in Phases, NEW t, Lost(p, t)
  PROVE  Excepted(p, t)
<1>1. /\ job.phase \in Phases /\ job.task \in Tasks /\ seen \in Content
      /\ (raced \/ file[job.phase] = Candidate)
  BY DEF Undo, PlanInv, TypeOK, CommandInv, PhaseIsThere, SeenHasIds, Compared
<1>2. CancelledIn(Candidate) \subseteq CancelledIn(seen)
  BY <1>1, WithTaskFacts DEF Candidate
<1>3. file'[p] = IF p = job.phase THEN seen ELSE file[p]
  BY DEF Undo, PlanInv, TypeOK
<1>4. QED
  BY <1>1, <1>2, <1>3 DEF Lost, Excepted, Undo

LEMMA FlipStands ==
  ASSUME PlanInv, Flip, NEW p \in Phases, NEW t, Lost(p, t)
  PROVE  Excepted(p, t)
<1> DEFINE n == Flipped(seen, job.task)
<1>1. /\ job.phase \in Phases /\ seen \in Content /\ (raced \/ file[job.phase] = seen)
      /\ [task |-> job.task, before |-> seen.status[job.task]] \in planned
  BY DEF Flip, PlanInv, TypeOK, CommandInv, PhaseIsThere, SeenHasIds, Compared, FlipIsPlanned
<1>2. CancelledIn(seen) \ {job.task} \subseteq CancelledIn(n)
  BY <1>1, StatusReplaced DEF Flipped, Status
<1>3. file'[p] = IF p = job.phase THEN n ELSE file[p]
  BY DEF Flip, PlanInv, TypeOK
<1>4. pc = "flip"
  BY DEF Flip
<1> HIDE DEF n
<1>5. CASE raced
  BY <1>4, <1>5 DEF Excepted
<1>6. CASE ~ raced
  <2>1. t = job.task /\ t \in CancelledIn(seen)
    BY <1>1, <1>2, <1>3, <1>6 DEF Lost
  <2>2. seen.status[job.task] = "cancelled"
    BY <2>1 DEF CancelledIn
  <2>3. QED
    BY <1>1, <1>4, <2>1, <2>2 DEF Excepted
<1>7. QED
  BY <1>5, <1>6

LEMMA OthersStand ==
  ASSUME PlanInv, Others, NEW p \in Phases, NEW t, Lost(p, t)
  PROVE  FALSE
<1>1. ASSUME NEW q \in Phases, BreakOrMend(q)
      PROVE  FALSE
  <2>1. file[q] \in Content
    BY <1>1 DEF BreakOrMend, PlanInv, TypeOK
  <2>2. CancelledIn(Toggled(file[q])) = CancelledIn(file[q])
    BY <2>1, ToggledFacts
  <2>3. file'[p] = IF p = q THEN Toggled(file[q]) ELSE file[p]
    BY <1>1 DEF BreakOrMend, Toggled, PlanInv, TypeOK
  <2>4. QED
    BY <2>2, <2>3 DEF Lost
<1>2. ASSUME NEW q \in Phases, NEW u \in Tasks, Cancel(q, u)
      PROVE  FALSE
  <2> DEFINE n == WithCancelled(file[q], u)
  <2>1. file[q] \in Content /\ u \notin CancelledIn(file[q])
    BY <1>2 DEF Cancel, PlanInv, CommandInv, PhaseIsThere, CancelledIn
  <2>2. CancelledIn(file[q]) \ {u} \subseteq CancelledIn(n)
    BY <2>1, StatusReplaced DEF WithCancelled, Status
  <2>3. file'[p] = IF p = q THEN n ELSE file[p]
    BY <1>2 DEF Cancel, WithCancelled, PlanInv, TypeOK
  <2> HIDE DEF n
  <2>4. QED
    BY <2>1, <2>2, <2>3 DEF Lost
<1>3. ASSUME NEW u \in Tasks, Complete(u) \/ Accept(u)
      PROVE  FALSE
  BY <1>3 DEF Complete, Accept, Lost
<1>4. QED
  BY <1>1, <1>2, <1>3 DEF Others

LEMMA CancelledStands ==
  ASSUME PlanInv, [Next]_vars, NEW p \in Phases, NEW t, Lost(p, t)
  PROVE  Excepted(p, t)
<1>1. CASE Start
  BY <1>1 DEF Start, Preflight, AddRead, SyncList, ReconcileRead, Lost
<1>2. CASE Import
  BY <1>2, CreateFileStands DEF Import, Register, Scaffold, Scaffolded, Lost
<1>3. CASE Add
  BY <1>3, AddRenameStands, UndoStands
     DEF Add, AddCheck, AddCompare, AddConfirm, ConfirmFails, UndoCompare, AddRefuses, Lost
<1>4. CASE Sync
  BY <1>4 DEF Sync, SyncRead, SyncWrite, SyncDone, Lost, Excepted
<1>5. CASE Reconcile
  BY <1>5, FlipStands
     DEF Reconcile, Judge, NothingToFlip, Classify, Apply, FlipCompare, SkipFlip, Reconciled, Lost
<1>6. CASE Others
  BY <1>6, OthersStand
<1>7. CASE Kill \/ UNCHANGED vars
  BY <1>7 DEF Kill, vars, Lost
<1>8. QED
  BY <1>1, <1>2, <1>3, <1>4, <1>5, <1>6, <1>7 DEF Next, Command

LEMMA AcceptedStands ==
  ASSUME PlanInv, [Next]_vars, NEW t \in Tasks, adr[t] = "accepted"
  PROVE  adr'[t] = "accepted"
<1>1. adr' = adr => adr'[t] = "accepted"
  OBVIOUS
<1>2. ASSUME NEW u \in owed, Scaffold(u)
      PROVE  adr'[t] = "accepted"
  BY <1>2, NoneAssumption DEF Scaffold, PlanInv, TypeOK
<1>3. ASSUME NEW u \in Tasks, Accept(u)
      PROVE  adr'[t] = "accepted"
  BY <1>3 DEF Accept, PlanInv, TypeOK
<1>4. CASE Start
  BY <1>1, <1>4 DEF Start, Preflight, AddRead, SyncList, ReconcileRead
<1>5. CASE Import
  BY <1>1, <1>2, <1>5 DEF Import, CreateFile, Register, Scaffolded
<1>6. CASE Add
  BY <1>1, <1>6 DEF Add, AddCheck, AddCompare, AddRename, AddConfirm, ConfirmFails, UndoCompare,
                    Undo, AddRefuses
<1>7. CASE Sync
  BY <1>1, <1>7 DEF Sync, SyncRead, SyncWrite, SyncDone
<1>8. CASE Reconcile
  BY <1>1, <1>8 DEF Reconcile, Judge, NothingToFlip, Classify, Apply, FlipCompare, Flip,
                    SkipFlip,
                    Reconciled
<1>9. CASE Others
  BY <1>1, <1>3, <1>9 DEF Others, BreakOrMend, Cancel, Complete
<1>10. CASE Kill \/ UNCHANGED vars
  BY <1>1, <1>10 DEF Kill, vars
<1>11. QED
  BY <1>4, <1>5, <1>6, <1>7, <1>8, <1>9, <1>10 DEF Next, Command

\* A cancelled task stays cancelled and an accepted decision accepted, with the
\* exceptions that DecisionsStand names: the writers compare before they rename,
\* and what they write keeps the cancellations of what they compared.
THEOREM DecisionsStandHolds == Spec => DecisionsStand
<1> DEFINE Stands == /\ \A p \in Phases, t \in Tasks :
                          (Cancelled(p, t) /\ ~ Cancelled(p, t)') =>
                              \/ pc = "syncWrite"
                              \/ pc \in {"addRename", "undo", "flip"} /\ raced
                              \/ pc = "flip" /\ [task |-> t, before |-> "cancelled"] \in planned
                     /\ \A t \in Tasks : adr[t] = "accepted" => adr'[t] = "accepted"
<1>1. ASSUME PlanInv, [Next]_vars
      PROVE  Stands
  <2>1. ASSUME NEW p \in Phases, NEW t \in Tasks, Cancelled(p, t), ~ Cancelled(p, t)'
        PROVE  Excepted(p, t)
    <3>1. Lost(p, t)
      BY <2>1 DEF Cancelled, Lost, CancelledIn, Ids
    <3>2. QED
      BY <1>1, <3>1, CancelledStands
  <2>2. QED
    BY <1>1, <2>1, AcceptedStands DEF Excepted
<1>2. PlanInv /\ [Next]_vars => [Stands]_vars
  BY <1>1
<1>3. QED
  BY <1>2, PlanInvHolds, PTL DEF Spec, DecisionsStand
=============================================================================
