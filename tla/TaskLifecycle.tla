--------------------------- MODULE TaskLifecycle ---------------------------
(***************************************************************************)
(* The task commands and the three things they share: the progress ledger   *)
(* (one immutable file per event), the design (a status and a declaration   *)
(* per task, in one YAML file per phase) and the contract locks.            *)
(*                                                                         *)
(* A command reads, decides from what it read, and writes: nothing it read  *)
(* is checked again before an event is appended, and of the commands here   *)
(* only task lock and task finalize take the write lock.  Each action is    *)
(* one read or one write with the code around it.  A refusal, an error and  *)
(* a kill all leave the shared state as it is: they are Abandon.            *)
(*                                                                         *)
(* A declaration is a version number; locking a contract records it.        *)
(***************************************************************************)
EXTENDS Naturals

CONSTANTS
    Procs,             \* processes running commands, each by one author
    Tasks,
    DependsOn,         \* the tasks each task depends on
    PhaseOf,           \* the phase file that holds each task
    Commands,          \* the commands a run of the model uses
    Legacy,            \* tasks finalized before there was a ledger
    None,
    MaxClock,          \* bound: clock, and with it the number of commands
    MaxDecl,           \* bound: edits of a declaration
    HashBelow(_, _)    \* the order of two events' content ids

ASSUME DependenciesAreTasks == DependsOn \in [Tasks -> SUBSET Tasks]
ASSUME BoundsAreNat == MaxClock \in Nat /\ MaxDecl \in Nat
ASSUME NoneIsNoTask == None \notin Tasks /\ None \notin Procs
ASSUME NoneIsNoVersion == None \notin Nat
ASSUME LegacyAreTasks == Legacy \subseteq Tasks

TransitionCommands == {"start", "block", "resume"}
CompletionCommands == {"complete", "record-done"}
LockedCommands == {"lock", "finalize"}
DesignCommands == {"finalize", "cancel"}
AllCommands == TransitionCommands \cup CompletionCommands \cup LockedCommands \cup {"cancel"}

ASSUME CommandsExist == Commands \subseteq AllCommands

State == {"planned", "started", "blocked", "resumed", "done", "failed"}
Status == State \ {"planned"}
Event == [task : Tasks, status : Status, at : Nat, author : Procs]

\* The events of a task at one time are ordered by their content ids, and two
\* events with one id are one event.
ASSUME HashesAreOrdered ==
    \A t \in Tasks, n \in 0 .. MaxClock :
        LET Tied == [task : {t}, status : Status, at : {n}, author : Procs]
        IN  \A e, f \in Tied :
              /\ e # f => HashBelow(e, f) \/ HashBelow(f, e)
              /\ HashBelow(e, f) => ~ HashBelow(f, e)
              /\ \A g \in Tied : HashBelow(e, f) /\ HashBelow(f, g) => HashBelow(e, g)

DesignStatus == {"planned", "done", "cancelled"}
DesignEntry == [status : DesignStatus, decl : Nat]
Design == [Tasks -> DesignEntry]
Label == {"idle", "plan", "phase", "ledger", "gate", "contract", "create", "lock",
          "stamp", "publish", "reread", "compare", "rename", "confirm",
          "compare undo", "undo"}

VARIABLES
    events,      \* the ledger
    design,      \* what the phase files say of each task
    contract,    \* the declaration each contract lock pins, or None
    writeLock,   \* the holder of the advisory write lock, or None
    clock,
    pc, cmd, task,   \* what each process runs, and how far it is
    ledger, phases,  \* what each process read of the ledger and the phase files
    stamp            \* the time each process put on its event

shared == <<events, design, contract, writeLock, clock>>
local == <<pc, cmd, task, ledger, phases, stamp>>
vars == <<events, design, contract, writeLock, clock, pc, cmd, task, ledger,
          phases, stamp>>

-----------------------------------------------------------------------------
(* The state of a task: the last event in the merged order.                 *)

History(S, t) == {e \in S : e.task = t}
Before(e, f) == e.at < f.at \/ (e.at = f.at /\ HashBelow(e, f))
IsLast(e, S) == \A f \in S \ {e} : Before(f, e)

InState(S, t, s) ==
    \/ s = "planned" /\ History(S, t) = {}
    \/ \E e \in History(S, t) : e.status = s /\ IsLast(e, History(S, t))

Allowed == [planned |-> {"started"},
            started |-> {"blocked", "done", "failed"},
            blocked |-> {"resumed", "failed"},
            resumed |-> {"blocked", "done", "failed"},
            done    |-> {},
            failed  |-> {"started"}]

\* The status a command appends.
Recorded == [c \in TransitionCommands \cup CompletionCommands |->
                CASE c = "start" -> "started"
                  [] c = "block" -> "blocked"
                  [] c = "resume" -> "resumed"
                  [] OTHER -> "done"]

\* Faulty variant: any event of the task may precede, not the last one.
CanTransitionFromAny(S, t, next) == \E s \in State :
    /\ (s = "planned" /\ History(S, t) = {}) \/ (\E e \in History(S, t) : e.status = s)
    /\ next \in Allowed[s]

CanTransition(S, t, next) == \E s \in State : InState(S, t, s) /\ next \in Allowed[s]
\* Faulty variant: a dependency that has begun counts.
DependenciesBegun(S, t) == \A d \in DependsOn[t] : ~ InState(S, d, "planned")

DependenciesDone(S, t) == \A d \in DependsOn[t] : InState(S, d, "done")

-----------------------------------------------------------------------------
InitialDesign ==
    [t \in Tasks |-> [status |-> IF t \in Legacy THEN "done" ELSE "planned", decl |-> 0]]

Init ==
    /\ events = {}
    /\ design = InitialDesign
    /\ contract = [t \in Tasks |-> None]
    /\ writeLock = None
    /\ clock = 0
    /\ pc = [p \in Procs |-> "idle"]
    /\ cmd = [p \in Procs |-> None]
    /\ task = [p \in Procs |-> None]
    /\ ledger = [p \in Procs |-> {}]
    /\ phases = [p \in Procs |-> InitialDesign]
    /\ stamp = [p \in Procs |-> 0]

Goto(p, label) == pc' = [pc EXCEPT ![p] = label]

\* The command of p is over: its memory is gone and the write lock is free.
Finish(p) ==
    /\ Goto(p, "idle")
    /\ cmd' = [cmd EXCEPT ![p] = None]
    /\ task' = [task EXCEPT ![p] = None]
    /\ ledger' = [ledger EXCEPT ![p] = {}]
    /\ phases' = [phases EXCEPT ![p] = InitialDesign]
    /\ stamp' = [stamp EXCEPT ![p] = 0]
    /\ writeLock' = IF writeLock = p THEN None ELSE writeLock

Siblings(t) == {u \in Tasks : PhaseOf[u] = PhaseOf[t]}
\* d with the phase file of t as f has it.
WithPhase(d, t, f) == [u \in Tasks |-> IF u \in Siblings(t) THEN f[u] ELSE d[u]]
SamePhase(d, t, f) == \A u \in Siblings(t) : d[u] = f[u]
\* The phase file p is about to install.
Candidate(p) == LET t == task[p] IN
    [phases[p] EXCEPT ![t] = [status |-> IF cmd[p] = "cancel" THEN "cancelled" ELSE "done",
                              decl |-> phases[p][t].decl]]

-----------------------------------------------------------------------------
(* Starting and reading.  Starting a process takes longer than a clock tick. *)

Begin(p, c, t) ==
    /\ pc[p] = "idle"
    /\ clock < MaxClock
    /\ c \in LockedCommands => writeLock = None
    /\ clock' = clock + 1
    /\ cmd' = [cmd EXCEPT ![p] = c]
    /\ task' = [task EXCEPT ![p] = t]
    /\ Goto(p, CASE c \in CompletionCommands -> "phase"
                 [] c = "lock" -> "create"
                 [] c = "cancel" -> "plan"
                 [] OTHER -> "ledger")
    /\ writeLock' = IF c \in LockedCommands THEN p ELSE writeLock
    /\ UNCHANGED <<events, design, contract, ledger, phases, stamp>>

\* task cancel loads the whole plan to find the dependents.
ReadPlan(p) ==
    /\ pc[p] = "plan"
    /\ phases' = [phases EXCEPT ![p] = design]
    /\ Goto(p, "phase")
    /\ UNCHANGED <<shared, cmd, task, ledger, stamp>>

ReadPhase(p) ==
    /\ pc[p] = "phase"
    /\ phases' = [phases EXCEPT ![p] = WithPhase(phases[p], task[p], design)]
    /\ Goto(p, IF cmd[p] \in CompletionCommands \cup {"cancel"} THEN "ledger" ELSE "gate")
    /\ UNCHANGED <<shared, cmd, task, ledger, stamp>>

ReadLedger(p) ==
    /\ pc[p] = "ledger"
    /\ ledger' = [ledger EXCEPT ![p] = events]
    /\ Goto(p, IF cmd[p] \in CompletionCommands \cup {"cancel"} THEN "gate" ELSE "phase")
    /\ UNCHANGED <<shared, cmd, task, phases, stamp>>

-----------------------------------------------------------------------------
(* The gates: each decides on what the command read, in the code's order.   *)

NotCancelled(p) == phases[p][task[p]].status # "cancelled"

GateTransition(p) ==
    /\ pc[p] = "gate" /\ cmd[p] \in TransitionCommands
    /\ NotCancelled(p)
    /\ CanTransition(ledger[p], task[p], Recorded[cmd[p]])
    /\ cmd[p] = "start" => DependenciesDone(ledger[p], task[p])
    /\ Goto(p, IF cmd[p] = "start" THEN "contract" ELSE "stamp")
    /\ UNCHANGED <<shared, cmd, task, ledger, phases, stamp>>

\* From planned and failed too: the transition table is not consulted.
GateCompletion(p) ==
    /\ pc[p] = "gate" /\ cmd[p] \in CompletionCommands
    /\ NotCancelled(p)
    /\ ~ InState(ledger[p], task[p], "done")
    /\ ~ InState(ledger[p], task[p], "blocked")
    /\ DependenciesDone(ledger[p], task[p])
    /\ Goto(p, "contract")
    /\ UNCHANGED <<shared, cmd, task, ledger, phases, stamp>>

ContractCurrent(t) == contract[t] # None /\ contract[t] = design[t].decl

\* Faulty variant: the derived state is not consulted.
GateFinalizeByDesign(p) ==
    /\ pc[p] = "gate" /\ cmd[p] = "finalize"
    /\ phases[p][task[p]].status = "planned"
    /\ ContractCurrent(task[p])
    /\ Goto(p, "reread")
    /\ UNCHANGED <<shared, cmd, task, ledger, phases, stamp>>

GateFinalize(p) ==
    /\ pc[p] = "gate" /\ cmd[p] = "finalize"
    /\ InState(ledger[p], task[p], "done")
    /\ phases[p][task[p]].status = "planned"
    /\ ContractCurrent(task[p])
    /\ Goto(p, "reread")
    /\ UNCHANGED <<shared, cmd, task, ledger, phases, stamp>>

GateCancel(p) ==
    /\ pc[p] = "gate" /\ cmd[p] = "cancel"
    /\ phases[p][task[p]].status = "planned"
    /\ ~ InState(ledger[p], task[p], "done")
    /\ \A u \in Tasks : task[p] \in DependsOn[u] => phases[p][u].status = "cancelled"
    /\ Goto(p, "compare")
    /\ UNCHANGED <<shared, cmd, task, ledger, phases, stamp>>

-----------------------------------------------------------------------------
(* The contract lock.                                                       *)

ContractHolds(p) ==
    /\ pc[p] = "contract"
    /\ ContractCurrent(task[p])
    /\ Goto(p, "stamp")
    /\ UNCHANGED <<shared, cmd, task, ledger, phases, stamp>>

\* A finalized task that was never locked may still be completed.
NoContractNeeded(p) ==
    /\ pc[p] = "contract" /\ cmd[p] \in CompletionCommands
    /\ contract[task[p]] = None /\ design[task[p]].status = "done"
    /\ Goto(p, "stamp")
    /\ UNCHANGED <<shared, cmd, task, ledger, phases, stamp>>

\* Faulty variant: start records its event and leaves the lock to task lock.
StartUnlocked(p) ==
    /\ pc[p] = "contract" /\ cmd[p] = "start"
    /\ contract[task[p]] = None
    /\ Goto(p, "stamp")
    /\ UNCHANGED <<shared, cmd, task, ledger, phases, stamp>>

StartWithoutContract(p) ==
    /\ pc[p] = "contract" /\ cmd[p] = "start"
    /\ contract[task[p]] = None
    /\ Goto(p, "create")
    /\ UNCHANGED <<shared, cmd, task, ledger, phases, stamp>>

\* createTaskContractLock reads everything again and looks for a lock.
ReadContract(p) ==
    /\ pc[p] = "create"
    /\ phases' = [phases EXCEPT ![p] = WithPhase(phases[p], task[p], design)]
    /\ design[task[p]].status # "cancelled"
    /\ ~ InState(events, task[p], "done")
    /\ contract[task[p]] = None
    /\ Goto(p, "lock")
    /\ UNCHANGED <<shared, cmd, task, ledger, stamp>>

\* The lock file is a plain write: it replaces one that appeared meanwhile.
WriteContract(p) ==
    /\ pc[p] = "lock"
    /\ contract' = [contract EXCEPT ![task[p]] = phases[p][task[p]].decl]
    /\ \/ /\ cmd[p] = "start"
          /\ Goto(p, "stamp")
          /\ UNCHANGED <<writeLock, cmd, task, ledger, phases, stamp>>
       \/ /\ cmd[p] = "lock"
          /\ Finish(p)
    /\ UNCHANGED <<events, design, clock>>

-----------------------------------------------------------------------------
(* Appending an event: stamped with the time, published with a link that    *)
(* creates its file or finds the same event there.                          *)

Stamp(p) ==
    /\ pc[p] = "stamp"
    /\ stamp' = [stamp EXCEPT ![p] = clock]
    /\ Goto(p, "publish")
    /\ UNCHANGED <<shared, cmd, task, ledger, phases>>

\* Faulty variant: the author is not part of the event.
AnonymousEvent(p) == [task |-> task[p], status |-> Recorded[cmd[p]], at |-> stamp[p],
                      author |-> CHOOSE q \in Procs : TRUE]

NewEvent(p) == [task |-> task[p], status |-> Recorded[cmd[p]], at |-> stamp[p], author |-> p]

Publish(p) ==
    /\ pc[p] = "publish"
    /\ events' = events \cup {NewEvent(p)}
    /\ Finish(p)
    /\ UNCHANGED <<design, contract, clock>>

-----------------------------------------------------------------------------
(* Replacing a phase file: compare with what was read, then rename.         *)

\* The planned write reads the file again and starts from those bytes.
Reread(p) ==
    /\ pc[p] = "reread"
    /\ design[task[p]].status = phases[p][task[p]].status
    /\ phases' = [phases EXCEPT ![p] = WithPhase(phases[p], task[p], design)]
    /\ Goto(p, "compare")
    /\ UNCHANGED <<shared, cmd, task, ledger, stamp>>

Compare(p) ==
    /\ pc[p] = "compare"
    /\ SamePhase(design, task[p], phases[p])
    /\ Goto(p, "rename")
    /\ UNCHANGED <<shared, cmd, task, ledger, phases, stamp>>

Rename(p) ==
    /\ pc[p] = "rename"
    /\ design' = WithPhase(design, task[p], Candidate(p))
    /\ \/ /\ cmd[p] = "cancel"
          /\ Goto(p, "confirm")
          /\ UNCHANGED <<writeLock, cmd, task, ledger, phases, stamp>>
       \/ /\ cmd[p] = "finalize"
          /\ Finish(p)
    /\ UNCHANGED <<events, contract, clock>>

\* task cancel reads its file back.
Confirm(p) ==
    /\ pc[p] = "confirm"
    /\ SamePhase(design, task[p], Candidate(p))
    /\ Finish(p)
    /\ UNCHANGED <<events, design, contract, clock>>

\* The file differs, or it cannot be read back.
ConfirmFails(p) ==
    /\ pc[p] = "confirm"
    /\ Goto(p, "compare undo")
    /\ UNCHANGED <<shared, cmd, task, ledger, phases, stamp>>

CompareUndo(p) ==
    /\ pc[p] = "compare undo"
    /\ SamePhase(design, task[p], Candidate(p))
    /\ Goto(p, "undo")
    /\ UNCHANGED <<shared, cmd, task, ledger, phases, stamp>>

Undo(p) ==
    /\ pc[p] = "undo"
    /\ design' = WithPhase(design, task[p], phases[p])
    /\ Finish(p)
    /\ UNCHANGED <<events, contract, clock>>

-----------------------------------------------------------------------------
\* A refusal, an error, an aborted verification, a kill.
Abandon(p) ==
    /\ pc[p] # "idle"
    /\ Finish(p)
    /\ UNCHANGED <<events, design, contract, clock>>

\* A user edits the declaration of a task and commits the phase file.
Edit(t) ==
    /\ design[t].decl < MaxDecl
    /\ design' = [design EXCEPT ![t] = [status |-> @.status, decl |-> @.decl + 1]]
    /\ UNCHANGED <<events, contract, writeLock, clock, local>>

Step(p) ==
    \/ \E c \in Commands, t \in Tasks : Begin(p, c, t)
    \/ ReadPlan(p) \/ ReadPhase(p) \/ ReadLedger(p)
    \/ GateTransition(p) \/ GateCompletion(p) \/ GateFinalize(p) \/ GateCancel(p)
    \/ ContractHolds(p) \/ NoContractNeeded(p) \/ StartWithoutContract(p)
    \/ ReadContract(p) \/ WriteContract(p)
    \/ Stamp(p) \/ Publish(p)
    \/ Reread(p) \/ Compare(p) \/ Rename(p)
    \/ Confirm(p) \/ ConfirmFails(p) \/ CompareUndo(p) \/ Undo(p)
    \/ Abandon(p)

Next == (\E p \in Procs : Step(p)) \/ (\E t \in Tasks : Edit(t))

Spec == Init /\ [][Next]_vars

-----------------------------------------------------------------------------
(* What the conflict detector of plan analyze, doctor and status reports:   *)
(* two neighbours in the merged history, or its first event, that no single *)
(* writer would have put there.                                             *)

Neighbours(e, f, S) == Before(e, f) /\ ~ \E g \in S \ {e, f} : Before(e, g) /\ Before(g, f)
Acceptable(s, next) == next \in Allowed[s] \/ (s = "planned" /\ next = "done")

Conflict(t) == LET S == History(events, t) IN
    \/ \E e \in S : (\A f \in S \ {e} : Before(e, f)) /\ ~ Acceptable("planned", e.status)
    \/ \E e, f \in S : Neighbours(e, f, S) /\ ~ Acceptable(e.status, f.status)

-----------------------------------------------------------------------------
(* Properties.                                                              *)

TypeOK ==
    /\ events \subseteq Event
    /\ design \in Design
    /\ contract \in [Tasks -> Nat \cup {None}]
    /\ writeLock \in Procs \cup {None}
    /\ clock \in Nat
    /\ pc \in [Procs -> Label]
    /\ cmd \in [Procs -> AllCommands \cup {None}]
    /\ task \in [Procs -> Tasks \cup {None}]
    /\ ledger \in [Procs -> SUBSET Event]
    /\ phases \in [Procs -> Design]
    /\ stamp \in [Procs -> Nat]

\* However commands interleave, a task was started or completed only after each
\* task it depends on had recorded done: the gate works on a stale ledger, and a
\* stale ledger is a subset of the present one.
DependenciesWereDone ==
    \A e \in events : e.status \in {"started", "done"} =>
        \A d \in DependsOn[e.task] :
            \E f \in events : f.task = d /\ f.status = "done" /\ f.at <= e.at

\* However commands interleave, the design calls a task done only if the ledger
\* holds a done event for it, whatever a stale rename or a rollback wrote.
FinalizedWasDone ==
    \A t \in Tasks \ Legacy : design[t].status = "done" =>
        \E e \in events : e.task = t /\ e.status = "done"

\* No event is recorded for a task that has no contract lock.
EventsAreLocked ==
    \A e \in events : e.task \in Legacy \/ contract[e.task] # None

\* Two starts of one task by different authors, the second blind to the first,
\* never merge into one event: the detector reports them.
BlindStartIsCaught ==
    [][\A p \in Procs, t \in Tasks :
        (/\ Publish(p) /\ task[p] = t /\ cmd[p] = "start"
         /\ \E e \in events \ ledger[p] : e.task = t /\ e.status = "started")
        => Conflict(t)']_vars

\* A command that no event of its task overtook, and whose clock is past theirs,
\* leaves a history the detector accepts if it found one, whatever other
\* commands did meanwhile to the design, the locks and the other tasks.
FreshCommandIsLegal ==
    [][\A p \in Procs, t \in Tasks :
        (/\ Publish(p) /\ task[p] = t
         /\ History(events, t) = History(ledger[p], t)
         /\ \A e \in History(events, t) : e.at < stamp[p])
        => (Conflict(t)' => Conflict(t))]_vars
=============================================================================
