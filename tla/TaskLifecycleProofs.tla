------------------------ MODULE TaskLifecycleProofs ------------------------
(***************************************************************************)
(* The task commands for any number of processes, tasks and commands and    *)
(* any dependency relation: what a stale read cannot break.  SafeInv is     *)
(* inductive; the state of a task is never computed in the proofs, only     *)
(* that being in a state other than planned takes an event.                 *)
(***************************************************************************)
EXTENDS TaskLifecycle, FiniteSetTheorems, WellFoundedInduction, TLAPS

USE DependenciesAreTasks, BoundsAreNat, NoneIsNoTask, LegacyAreTasks, CommandsExist
    DEF shared, local, Goto, AllCommands, TransitionCommands, CompletionCommands,
        LockedCommands, DesignCommands

-----------------------------------------------------------------------------
(* The inductive invariant.                                                 *)

DoneIn(S, t) == \E e \in S : e.task = t /\ e.status = "done"

\* A process works on a task, and only the commands that get to a step are there.
Shape(p) ==
    /\ pc[p] # "idle" => task[p] \in Tasks
    /\ pc[p] = "contract" => cmd[p] \in CompletionCommands \cup {"start"}
    /\ pc[p] \in {"create", "lock"} => cmd[p] \in {"start", "lock"}
    /\ pc[p] \in {"stamp", "publish"} => cmd[p] \in TransitionCommands \cup CompletionCommands
    /\ pc[p] \in {"compare", "rename"} => cmd[p] \in DesignCommands
    /\ pc[p] = "reread" => cmd[p] = "finalize"
    /\ pc[p] \in {"confirm", "compare undo", "undo"} => cmd[p] = "cancel"

\* What a process read of the ledger is still there, and older than its stamp.
Past(p) ==
    /\ ledger[p] \subseteq events
    /\ stamp[p] <= clock
    /\ pc[p] = "publish" => \A e \in ledger[p] : e.at <= stamp[p]

\* A process past the gate saw the dependencies done.
Gated(p) ==
    pc[p] \in {"contract", "create", "lock", "stamp", "publish"} /\ cmd[p] \in CompletionCommands \cup {"start"} =>
        \A d \in DependsOn[task[p]] : DoneIn(ledger[p], d)

\* A process about to publish has a contract lock for its task.
Locked(p) == pc[p] \in {"stamp", "publish"} => task[p] \in Legacy \/ contract[task[p]] # None

\* A phase file that calls a task done, in memory or to be written, has its event.
Backed(p) ==
    /\ \A t \in Tasks \ Legacy : phases[p][t].status = "done" => DoneIn(events, t)
    /\ pc[p] \in {"reread", "compare", "rename"} /\ cmd[p] = "finalize" => DoneIn(events, task[p])

EventsArePast == \A e \in events : e.at <= clock

Own(p) == Shape(p) /\ Past(p) /\ Gated(p) /\ Locked(p) /\ Backed(p)

SafeInv ==
    /\ TypeOK /\ EventsArePast /\ DependenciesWereDone /\ FinalizedWasDone /\ EventsAreLocked
    /\ \A p \in Procs : Own(p)

-----------------------------------------------------------------------------
(* Lemmas.                                                                  *)

LEMMA InitialDesignType == InitialDesign \in Design
  BY DEF InitialDesign, Design, DesignEntry, DesignStatus

\* Replacing one phase file in a plan by that of another plan gives a plan.
LEMMA WithPhaseType ==
  ASSUME NEW d \in Design, NEW f \in Design, NEW t
  PROVE  WithPhase(d, t, f) \in Design
  BY DEF WithPhase, Design

LEMMA EntryFields ==
  ASSUME NEW d \in Design, NEW t \in Tasks
  PROVE  d[t].status \in DesignStatus /\ d[t].decl \in Nat
<1>1. d[t] \in DesignEntry
  BY DEF Design
<1> QED
  BY <1>1 DEF DesignEntry

LEMMA CandidateType ==
  ASSUME NEW p \in Procs, TypeOK, task[p] \in Tasks
  PROVE  Candidate(p) \in Design
<1>1. phases[p] \in Design
  BY DEF TypeOK
<1>2. phases[p][task[p]].decl \in Nat
  BY <1>1, EntryFields
<1>3. \A s \in {"cancelled", "done"} :
          [status |-> s, decl |-> phases[p][task[p]].decl] \in DesignEntry
  BY <1>2 DEF DesignEntry, DesignStatus
<1> QED
  BY <1>1, <1>3 DEF Candidate, Design

\* A state other than planned takes an event that is in that state.
LEMMA StateTakesEvent ==
  ASSUME NEW S, NEW t, NEW s, InState(S, t, s), s # "planned"
  PROVE  \E e \in S : e.task = t /\ e.status = s
  BY DEF InState, History

LEMMA DoneTakesEvent ==
  ASSUME NEW S, NEW t, InState(S, t, "done")
  PROVE  DoneIn(S, t)
  BY StateTakesEvent DEF DoneIn

\* Block and resume are allowed only where something was recorded.
LEMMA TransitionTakesEvent ==
  ASSUME NEW S, NEW t, NEW next \in {"blocked", "resumed"}, CanTransition(S, t, next)
  PROVE  \E e \in S : e.task = t
<1>1. PICK s \in State : InState(S, t, s) /\ next \in Allowed[s]
  BY DEF CanTransition
<1>2. s # "planned"
  BY <1>1 DEF Allowed
<1> QED
  BY <1>1, <1>2, StateTakesEvent

\* A larger ledger holds the done events of a smaller one.
LEMMA DoneGrows ==
  ASSUME NEW S, NEW T, S \subseteq T, NEW t, DoneIn(S, t)
  PROVE  DoneIn(T, t)
  BY DEF DoneIn

-----------------------------------------------------------------------------
(* Types.                                                                   *)

\* A command that ends leaves its memory well typed.
LEMMA FinishTypes ==
  ASSUME TypeOK, NEW p \in Procs, Finish(p)
  PROVE  /\ pc' \in [Procs -> Label]
         /\ writeLock' \in Procs \cup {None}
         /\ cmd' \in [Procs -> AllCommands \cup {None}]
         /\ task' \in [Procs -> Tasks \cup {None}]
         /\ ledger' \in [Procs -> SUBSET Event]
         /\ phases' \in [Procs -> Design]
         /\ stamp' \in [Procs -> Nat]
  BY InitialDesignType DEF Finish, TypeOK, Label

LEMMA TypeStep ==
  ASSUME TypeOK, \A p \in Procs : Shape(p), [Next]_vars
  PROVE  TypeOK'
<1> USE DEF TypeOK
<1>1. ASSUME NEW p \in Procs, NEW c \in Commands, NEW t \in Tasks, Begin(p, c, t)
      PROVE  TypeOK'
  <2>1. pc' \in [Procs -> Label]
    BY <1>1 DEF Begin, Label
  <2>2. cmd' \in [Procs -> AllCommands \cup {None}]
    BY <1>1 DEF Begin
  <2>3. task' \in [Procs -> Tasks \cup {None}] /\ writeLock' \in Procs \cup {None}
    BY <1>1 DEF Begin
  <2>4. clock' \in Nat /\ UNCHANGED <<events, design, contract, ledger, phases, stamp>>
    BY <1>1 DEF Begin
  <2> QED
    BY <2>1, <2>2, <2>3, <2>4
<1>2. ASSUME NEW p \in Procs, ReadPlan(p) PROVE TypeOK'
  BY <1>2 DEF ReadPlan, Label
<1>3. ASSUME NEW p \in Procs, ReadPhase(p) PROVE TypeOK'
  <2>1. WithPhase(phases[p], task[p], design) \in Design
    BY WithPhaseType
  <2> QED
    BY <1>3, <2>1 DEF ReadPhase, Label
<1>4. ASSUME NEW p \in Procs, ReadLedger(p) PROVE TypeOK'
  BY <1>4 DEF ReadLedger, Label
<1>5. ASSUME NEW p \in Procs,
             GateTransition(p) \/ GateCompletion(p) \/ GateFinalize(p) \/ GateCancel(p)
      PROVE  TypeOK'
  <2>1. UNCHANGED <<shared, cmd, task, ledger, phases, stamp>>
    BY <1>5 DEF GateTransition, GateCompletion, GateFinalize, GateCancel
  <2>2. \E l \in Label : pc' = [pc EXCEPT ![p] = l]
    BY <1>5 DEF GateTransition, GateCompletion, GateFinalize, GateCancel, Label
  <2> QED
    BY <2>1, <2>2
<1>6. ASSUME NEW p \in Procs,
             ContractHolds(p) \/ NoContractNeeded(p) \/ StartWithoutContract(p)
      PROVE  TypeOK'
  BY <1>6 DEF ContractHolds, NoContractNeeded, StartWithoutContract, Label
<1>7. ASSUME NEW p \in Procs, ReadContract(p) PROVE TypeOK'
  <2>1. WithPhase(phases[p], task[p], design) \in Design
    BY WithPhaseType
  <2> QED
    BY <1>7, <2>1 DEF ReadContract, Label
<1>8. ASSUME NEW p \in Procs, WriteContract(p) PROVE TypeOK'
  <2>1. pc[p] # "idle" /\ task[p] \in Tasks
    BY <1>8 DEF WriteContract, Shape
  <2>2. phases[p][task[p]].decl \in Nat
    BY <2>1, EntryFields
  <2>3. contract' \in [Tasks -> Nat \cup {None}]
    BY <1>8, <2>1, <2>2 DEF WriteContract
  <2>4. CASE cmd[p] = "start" /\ Goto(p, "stamp")
               /\ UNCHANGED <<writeLock, cmd, task, ledger, phases, stamp>>
    BY <1>8, <2>3, <2>4 DEF WriteContract, Label
  <2>5. CASE Finish(p)
    BY <1>8, <2>3, <2>5, FinishTypes DEF WriteContract
  <2> QED
    BY <1>8, <2>4, <2>5 DEF WriteContract
<1>9. ASSUME NEW p \in Procs, Stamp(p) PROVE TypeOK'
  BY <1>9 DEF Stamp, Label
<1>10. ASSUME NEW p \in Procs, Publish(p) PROVE TypeOK'
  <2>1. task[p] \in Tasks /\ cmd[p] \in TransitionCommands \cup CompletionCommands
    BY <1>10 DEF Publish, Shape
  <2>2. Recorded[cmd[p]] \in Status
    BY <2>1 DEF Recorded, Status, State
  <2>3. NewEvent(p) \in Event
    BY <2>1, <2>2 DEF NewEvent, Event
  <2> QED
    BY <1>10, <2>3, FinishTypes DEF Publish
<1>11. ASSUME NEW p \in Procs, Reread(p) PROVE TypeOK'
  <2>1. WithPhase(phases[p], task[p], design) \in Design
    BY WithPhaseType
  <2> QED
    BY <1>11, <2>1 DEF Reread, Label
<1>12. ASSUME NEW p \in Procs, Compare(p) \/ ConfirmFails(p) \/ CompareUndo(p)
       PROVE  TypeOK'
  BY <1>12 DEF Compare, ConfirmFails, CompareUndo, Label
<1>13. ASSUME NEW p \in Procs, Rename(p) PROVE TypeOK'
  <2>1. Candidate(p) \in Design
    BY <1>13, CandidateType DEF Rename, Shape
  <2>2. design' \in Design
    BY <1>13, <2>1, WithPhaseType DEF Rename
  <2>3. CASE Goto(p, "confirm") /\ UNCHANGED <<writeLock, cmd, task, ledger, phases, stamp>>
    BY <1>13, <2>2, <2>3 DEF Rename, Label
  <2>4. CASE Finish(p)
    BY <1>13, <2>2, <2>4, FinishTypes DEF Rename
  <2> QED
    BY <1>13, <2>3, <2>4 DEF Rename
<1>14. ASSUME NEW p \in Procs, Undo(p) PROVE TypeOK'
  <2>1. design' \in Design
    BY <1>14, WithPhaseType DEF Undo
  <2> QED
    BY <1>14, <2>1, FinishTypes DEF Undo
<1>15. ASSUME NEW p \in Procs, Confirm(p) \/ Abandon(p) PROVE TypeOK'
  BY <1>15, FinishTypes DEF Confirm, Abandon
<1>16. ASSUME NEW t \in Tasks, Edit(t) PROVE TypeOK'
  <2>1. [status |-> design[t].status, decl |-> design[t].decl + 1] \in DesignEntry
    BY EntryFields DEF DesignEntry
  <2>2. design' \in Design
    BY <1>16, <2>1 DEF Edit, Design
  <2> QED
    BY <1>16, <2>2 DEF Edit
<1>17. CASE UNCHANGED vars
  BY <1>17 DEF vars
<1> QED
  BY <1>1, <1>2, <1>3, <1>4, <1>5, <1>6, <1>7, <1>8, <1>9, <1>10, <1>11, <1>12,
     <1>13, <1>14, <1>15, <1>16, <1>17 DEF Next, Step

-----------------------------------------------------------------------------
(* What a step leaves alone.                                                *)

\* The reading and deciding steps of a command.
Reads(p) ==
    \/ ReadPlan(p) \/ ReadPhase(p) \/ ReadLedger(p) \/ GateTransition(p)
    \/ GateCompletion(p) \/ GateFinalize(p) \/ GateCancel(p)
    \/ ContractHolds(p) \/ NoContractNeeded(p) \/ StartWithoutContract(p)
    \/ ReadContract(p) \/ Stamp(p) \/ Reread(p) \/ Compare(p)
    \/ ConfirmFails(p) \/ CompareUndo(p)

LEMMA ReadsOnly == ASSUME NEW p, Reads(p) PROVE UNCHANGED shared
  BY DEF Reads, ReadPlan, ReadPhase, ReadLedger, GateTransition, GateCompletion, GateFinalize, GateCancel, ContractHolds,
            NoContractNeeded, StartWithoutContract, ReadContract, Stamp, Reread, Compare, ConfirmFails, CompareUndo

\* No step touches the memory of another process.
LEMMA OthersUntouched ==
  ASSUME TypeOK, NEW p \in Procs, Step(p), NEW q \in Procs \ {p}
  PROVE  /\ pc'[q] = pc[q] /\ cmd'[q] = cmd[q] /\ task'[q] = task[q]
         /\ ledger'[q] = ledger[q] /\ phases'[q] = phases[q] /\ stamp'[q] = stamp[q]
<1> DEFINE Same == /\ pc'[q] = pc[q] /\ cmd'[q] = cmd[q] /\ task'[q] = task[q]
                   /\ ledger'[q] = ledger[q] /\ phases'[q] = phases[q]
                   /\ stamp'[q] = stamp[q]
<1>1. ASSUME NEW c \in Commands, NEW t \in Tasks, Begin(p, c, t) PROVE Same
  BY <1>1 DEF Begin, TypeOK
<1>2. CASE Finish(p)
  BY <1>2 DEF Finish, TypeOK
<1>3. CASE ReadPlan(p) \/ ReadPhase(p) \/ ReadLedger(p) \/ ReadContract(p)
          \/ Reread(p) \/ Stamp(p)
  BY <1>3 DEF TypeOK, ReadPlan, ReadPhase, ReadLedger, ReadContract, Reread, Stamp
<1>4. CASE \/ GateTransition(p) \/ GateCompletion(p) \/ GateFinalize(p)
          \/ GateCancel(p) \/ ContractHolds(p) \/ NoContractNeeded(p)
          \/ StartWithoutContract(p) \/ Compare(p) \/ ConfirmFails(p)
          \/ CompareUndo(p)
  <2>1. \E l : Goto(p, l)
    BY <1>4 DEF GateTransition, GateCompletion, GateFinalize, GateCancel, ContractHolds,
              NoContractNeeded, StartWithoutContract, Compare, ConfirmFails, CompareUndo
  <2>2. UNCHANGED <<cmd, task, ledger, phases, stamp>>
    BY <1>4 DEF GateTransition, GateCompletion, GateFinalize, GateCancel, ContractHolds,
              NoContractNeeded, StartWithoutContract, Compare, ConfirmFails, CompareUndo
  <2> QED
    BY <2>1, <2>2 DEF TypeOK
<1>5. CASE WriteContract(p) \/ Rename(p)
  BY <1>2, <1>5 DEF TypeOK, WriteContract, Rename
<1>6. CASE Publish(p) \/ Confirm(p) \/ Undo(p) \/ Abandon(p)
  BY <1>2, <1>6 DEF Publish, Confirm, Undo, Abandon
<1> QED
  BY <1>1, <1>3, <1>4, <1>5, <1>6 DEF Step

\* The ledger only grows, time only passes, a lock once there stays there.
LEMMA SharedGrows ==
  ASSUME TypeOK, \A p \in Procs : Shape(p), [Next]_vars
  PROVE  /\ events \subseteq events' /\ clock <= clock'
         /\ \A t \in Tasks : contract[t] # None => contract'[t] # None
<1> DEFINE Grows == /\ events \subseteq events' /\ clock <= clock'
                    /\ \A t \in Tasks : contract[t] # None => contract'[t] # None
<1>1. ASSUME NEW p \in Procs, NEW c \in Commands, NEW t \in Tasks, Begin(p, c, t)
      PROVE  Grows
  BY <1>1 DEF Begin, TypeOK
<1>2. ASSUME NEW p \in Procs, Reads(p) PROVE Grows
  BY <1>2, ReadsOnly DEF TypeOK
<1>3. ASSUME NEW p \in Procs, WriteContract(p) PROVE Grows
  <2>1. phases[p] \in Design /\ task[p] \in Tasks
    BY <1>3 DEF TypeOK, Shape, WriteContract
  <2>2. phases[p][task[p]].decl # None
    BY <2>1, EntryFields, NoneIsNoVersion
  <2> QED
    BY <1>3, <2>2 DEF WriteContract, TypeOK
<1>4. ASSUME NEW p \in Procs,
             Publish(p) \/ Rename(p) \/ Confirm(p) \/ Undo(p) \/ Abandon(p)
      PROVE  Grows
  BY <1>4 DEF Publish, Rename, Confirm, Undo, Abandon, TypeOK
<1>5. ASSUME NEW t \in Tasks, Edit(t) PROVE Grows
  BY <1>5 DEF Edit, TypeOK
<1>6. CASE UNCHANGED vars
  BY <1>6 DEF vars, TypeOK
<1> QED
  BY <1>1, <1>2, <1>3, <1>4, <1>5, <1>6 DEF Next, Step, Reads

-----------------------------------------------------------------------------
(* What a process knows stays true.                                         *)

\* Nothing another process does, and no edit, takes away what q knows.
LEMMA KnowledgeLasts ==
  ASSUME SafeInv, NEW q \in Procs, clock' \in Nat,
         events \subseteq events', clock <= clock',
         \A t \in Tasks : contract[t] # None => contract'[t] # None,
         pc'[q] = pc[q], cmd'[q] = cmd[q], task'[q] = task[q],
         ledger'[q] = ledger[q], phases'[q] = phases[q], stamp'[q] = stamp[q]
  PROVE  Own(q)'
<1> USE DEF SafeInv, Own
<1>1. Shape(q)'
  BY DEF Shape
<1>2. Past(q)'
  <2>1. stamp[q] \in Nat /\ clock \in Nat
    BY DEF TypeOK
  <2> QED
    BY <2>1 DEF Past
<1>3. Gated(q)'
  BY DEF Gated, DoneIn
<1>4. Locked(q)'
  BY DEF Locked, Shape
<1>5. Backed(q)'
  BY DEF Backed, DoneIn
<1> QED
  BY <1>1, <1>2, <1>3, <1>4, <1>5

\* A process whose command ended knows nothing.
LEMMA EndedKnows ==
  ASSUME SafeInv, clock' \in Nat, NEW p \in Procs, Finish(p)
  PROVE  Own(p)'
<1>1. pc'[p] = "idle" /\ ledger'[p] = {} /\ phases'[p] = InitialDesign /\ stamp'[p] = 0
  BY DEF Finish, SafeInv, TypeOK
<1>2. \A t \in Tasks \ Legacy : InitialDesign[t].status # "done"
  BY DEF InitialDesign
<1> QED
  BY <1>1, <1>2 DEF Own, Shape, Past, Gated, Locked, Backed

\* A phase file read into a plan that is backed leaves it backed.
LEMMA ReadIsBacked ==
  ASSUME SafeInv, NEW p \in Procs, NEW u, NEW t \in Tasks \ Legacy,
         WithPhase(phases[p], u, design)[t].status = "done"
  PROVE  DoneIn(events, t)
<1>1. WithPhase(phases[p], u, design)[t] \in {design[t], phases[p][t]}
  BY DEF WithPhase
<1> QED
  BY <1>1 DEF SafeInv, FinalizedWasDone, Own, Backed, DoneIn

\* A step that only moves p to its next label: what the new label asks for is all
\* there is to show.
Moves(p, from, to) ==
    /\ pc[p] = from /\ pc'[p] = to
    /\ UNCHANGED <<shared, cmd, task, ledger, phases, stamp>>

LEMMA MoveKnows ==
  ASSUME SafeInv, NEW p \in Procs, NEW from, NEW to, Moves(p, from, to),
         from # "idle", to # "publish", Shape(p)',
         to \in {"contract", "create", "lock", "stamp"}
            /\ cmd[p] \in CompletionCommands \cup {"start"} =>
                \A d \in DependsOn[task[p]] : DoneIn(ledger[p], d),
         to = "stamp" => task[p] \in Legacy \/ contract[task[p]] # None,
         to \in {"reread", "compare", "rename"} /\ cmd[p] = "finalize" =>
            DoneIn(events, task[p])
  PROVE  Own(p)'
<1> USE DEF SafeInv, Own, Moves
<1>1. Past(p)'
  BY DEF Past
<1>2. Gated(p)'
  BY DEF Gated
<1>3. Locked(p)'
  BY DEF Locked
<1>4. Backed(p)'
  BY DEF Backed, DoneIn
<1> QED
  BY <1>1, <1>2, <1>3, <1>4

\* The gates.
LEMMA GateKnows ==
  ASSUME SafeInv, NEW p \in Procs,
         GateTransition(p) \/ GateCompletion(p) \/ GateFinalize(p) \/ GateCancel(p)
  PROVE  Own(p)'
<1>1. CASE GateTransition(p) /\ cmd[p] = "start"
  <2>1. Moves(p, "gate", "contract")
    BY <1>1 DEF GateTransition, Moves, SafeInv, TypeOK
  <2>2. Shape(p)'
    BY <1>1, <2>1 DEF Moves, Shape, SafeInv, Own
  <2>3. DependenciesDone(ledger[p], task[p])
    BY <1>1 DEF GateTransition
  <2>4. \A d \in DependsOn[task[p]] : DoneIn(ledger[p], d)
    BY <2>3, DoneTakesEvent DEF DependenciesDone
  <2> QED
    BY <2>1, <2>2, <2>4, MoveKnows
<1>2. CASE GateTransition(p) /\ cmd[p] # "start"
  <2>1. Moves(p, "gate", "stamp") /\ cmd[p] \in {"block", "resume"}
    BY <1>2 DEF GateTransition, Moves, SafeInv, TypeOK
  <2>2. Shape(p)'
    BY <2>1 DEF Moves, Shape, SafeInv, Own
  <2>3. Recorded[cmd[p]] \in {"blocked", "resumed"}
    BY <2>1 DEF Recorded
  <2>4. CanTransition(ledger[p], task[p], Recorded[cmd[p]])
    BY <1>2 DEF GateTransition
  <2>5. \E e \in ledger[p] : e.task = task[p]
    BY <2>3, <2>4, TransitionTakesEvent
  <2>6. task[p] \in Legacy \/ contract[task[p]] # None
    BY <2>5 DEF SafeInv, Own, Past, EventsAreLocked
  <2> QED
    BY <2>1, <2>2, <2>6, MoveKnows
<1>3. CASE GateCompletion(p)
  <2>1. Moves(p, "gate", "contract")
    BY <1>3 DEF GateCompletion, Moves, SafeInv, TypeOK
  <2>2. Shape(p)'
    BY <1>3, <2>1 DEF GateCompletion, Moves, Shape, SafeInv, Own
  <2>3. \A d \in DependsOn[task[p]] : DoneIn(ledger[p], d)
    BY <1>3, DoneTakesEvent DEF GateCompletion, DependenciesDone
  <2> QED
    BY <2>1, <2>2, <2>3, MoveKnows
<1>4. CASE GateFinalize(p)
  <2>1. Moves(p, "gate", "reread")
    BY <1>4 DEF GateFinalize, Moves, SafeInv, TypeOK
  <2>2. Shape(p)'
    BY <1>4, <2>1 DEF GateFinalize, Moves, Shape, SafeInv, Own
  <2>3. DoneIn(events, task[p])
    BY <1>4, DoneTakesEvent, DoneGrows DEF GateFinalize, SafeInv, Own, Past
  <2> QED
    BY <2>1, <2>2, <2>3, MoveKnows
<1>5. CASE GateCancel(p)
  <2>1. Moves(p, "gate", "compare") /\ cmd[p] = "cancel"
    BY <1>5 DEF GateCancel, Moves, SafeInv, TypeOK
  <2>2. Shape(p)'
    BY <2>1 DEF Moves, Shape, SafeInv, Own
  <2> QED
    BY <2>1, <2>2, MoveKnows
<1> QED
  BY <1>1, <1>2, <1>3, <1>4, <1>5

\* The contract lock found there, not needed or to be created.
LEMMA ContractKnows ==
  ASSUME SafeInv, NEW p \in Procs,
         ContractHolds(p) \/ NoContractNeeded(p) \/ StartWithoutContract(p)
  PROVE  Own(p)'
<1>1. pc[p] = "contract" /\ pc'[p] \in {"stamp", "create"}
      /\ Moves(p, "contract", pc'[p])
  BY DEF ContractHolds, NoContractNeeded, StartWithoutContract, Moves, SafeInv, TypeOK
<1>2. pc'[p] = "create" => cmd[p] = "start"
  BY <1>1 DEF ContractHolds, NoContractNeeded, StartWithoutContract, Moves, SafeInv, TypeOK
<1>3. cmd[p] \in CompletionCommands \cup {"start"} /\ task[p] \in Tasks
  BY <1>1 DEF SafeInv, Own, Shape
<1>4. Shape(p)'
  BY <1>1, <1>2, <1>3 DEF Moves, Shape
<1>5. \A d \in DependsOn[task[p]] : DoneIn(ledger[p], d)
  BY <1>1, <1>3 DEF SafeInv, Own, Gated
<1>6. pc'[p] = "stamp" => task[p] \in Legacy \/ contract[task[p]] # None
  <2>1. CASE ContractHolds(p)
    BY <2>1 DEF ContractHolds, ContractCurrent
  <2>2. CASE NoContractNeeded(p)
    BY <2>2, <1>3 DEF NoContractNeeded, SafeInv, FinalizedWasDone, EventsAreLocked
  <2>3. CASE StartWithoutContract(p)
    BY <2>3 DEF StartWithoutContract, SafeInv, TypeOK
  <2> QED
    BY <2>1, <2>2, <2>3
<1> QED
  BY <1>1, <1>4, <1>5, <1>6, MoveKnows

\* Comparing, and finding a written file changed.
LEMMA CompareKnows ==
  ASSUME SafeInv, NEW p \in Procs, Compare(p) \/ ConfirmFails(p) \/ CompareUndo(p)
  PROVE  Own(p)'
<1>1. CASE Compare(p)
  <2>1. Moves(p, "compare", "rename")
    BY <1>1 DEF Compare, Moves, SafeInv, TypeOK
  <2>2. Shape(p)'
    BY <2>1 DEF Moves, Shape, SafeInv, Own
  <2>3. cmd[p] = "finalize" => DoneIn(events, task[p])
    BY <2>1 DEF Moves, SafeInv, Own, Backed
  <2> QED
    BY <2>1, <2>2, <2>3, MoveKnows
<1>2. CASE ConfirmFails(p)
  <2>1. Moves(p, "confirm", "compare undo")
    BY <1>2 DEF ConfirmFails, Moves, SafeInv, TypeOK
  <2>2. Shape(p)'
    BY <2>1 DEF Moves, Shape, SafeInv, Own
  <2> QED
    BY <2>1, <2>2, MoveKnows
<1>3. CASE CompareUndo(p)
  <2>1. Moves(p, "compare undo", "undo")
    BY <1>3 DEF CompareUndo, Moves, SafeInv, TypeOK
  <2>2. Shape(p)'
    BY <2>1 DEF Moves, Shape, SafeInv, Own
  <2> QED
    BY <2>1, <2>2, MoveKnows
<1> QED
  BY <1>1, <1>2, <1>3

\* Reading phase files.
LEMMA PhasesKnow ==
  ASSUME SafeInv, NEW p \in Procs,
         ReadPlan(p) \/ ReadPhase(p) \/ ReadContract(p) \/ Reread(p)
  PROVE  Own(p)'
<1> USE DEF SafeInv, Own
<1>1. UNCHANGED <<shared, cmd, task, ledger, stamp>>
  BY DEF ReadPlan, ReadPhase, ReadContract, Reread
<1>2. \/ pc[p] = "plan" /\ pc'[p] = "phase"
      \/ pc[p] = "phase" /\ pc'[p] \in {"ledger", "gate"}
      \/ pc[p] = "create" /\ pc'[p] = "lock"
      \/ pc[p] = "reread" /\ pc'[p] = "compare"
  <2>1. CASE ReadPlan(p)
    BY <2>1 DEF ReadPlan, TypeOK
  <2>2. CASE ReadPhase(p)
    BY <2>2 DEF ReadPhase, TypeOK
  <2>3. CASE ReadContract(p)
    BY <2>3 DEF ReadContract, TypeOK
  <2>4. CASE Reread(p)
    BY <2>4 DEF Reread, TypeOK
  <2> QED
    BY <2>1, <2>2, <2>3, <2>4
<1>3. phases'[p] = design \/ phases'[p] = WithPhase(phases[p], task[p], design)
  <2>1. \E f : phases' = [phases EXCEPT ![p] = f]
                /\ (f = design \/ f = WithPhase(phases[p], task[p], design))
    BY DEF ReadPlan, ReadPhase, ReadContract, Reread
  <2> QED
    BY <2>1 DEF TypeOK
<1>4. Shape(p)'
  BY <1>1, <1>2 DEF Shape
<1>5. Past(p)'
  BY <1>1, <1>2 DEF Past
<1>6. Gated(p)'
  BY <1>1, <1>2 DEF Gated
<1>7. Locked(p)'
  BY <1>2 DEF Locked
<1>8. Backed(p)'
  <2>1. \A t \in Tasks \ Legacy : phases'[p][t].status = "done" => DoneIn(events, t)
    <3>1. CASE phases'[p] = design
      BY <3>1 DEF FinalizedWasDone, DoneIn
    <3>2. CASE phases'[p] = WithPhase(phases[p], task[p], design)
      BY <3>2, ReadIsBacked
    <3> QED
      BY <1>3, <3>1, <3>2
  <2> QED
    BY <1>1, <1>2, <2>1 DEF Backed, DoneIn
<1> QED
  BY <1>4, <1>5, <1>6, <1>7, <1>8

\* Reading the ledger.
LEMMA LedgerKnows ==
  ASSUME SafeInv, NEW p \in Procs, ReadLedger(p)
  PROVE  Own(p)'
<1> USE DEF SafeInv, Own
<1>1. /\ UNCHANGED <<shared, cmd, task, phases, stamp>>
      /\ pc[p] = "ledger" /\ pc'[p] \in {"phase", "gate"} /\ ledger'[p] = events
  BY DEF ReadLedger, TypeOK
<1>2. Shape(p)'
  BY <1>1 DEF Shape
<1>3. Past(p)' /\ Gated(p)' /\ Locked(p)'
  BY <1>1 DEF Past, Gated, Locked
<1>4. Backed(p)'
  BY <1>1 DEF Backed, DoneIn
<1> QED
  BY <1>2, <1>3, <1>4

\* The event is stamped after everything the command read.
LEMMA StampKnows ==
  ASSUME SafeInv, NEW p \in Procs, Stamp(p)
  PROVE  Own(p)'
<1> USE DEF SafeInv, Own
<1>1. /\ UNCHANGED <<shared, cmd, task, ledger, phases>>
      /\ pc[p] = "stamp" /\ pc'[p] = "publish" /\ stamp'[p] = clock
  BY DEF Stamp, TypeOK
<1>2. Shape(p)'
  BY <1>1 DEF Shape
<1>3. Past(p)'
  <2>1. clock \in Nat
    BY DEF TypeOK
  <2> QED
    BY <1>1, <2>1 DEF Past, EventsArePast
<1>4. Gated(p)'
  BY <1>1 DEF Gated
<1>5. Locked(p)'
  BY <1>1 DEF Locked
<1>6. Backed(p)'
  BY <1>1 DEF Backed, DoneIn
<1> QED
  BY <1>2, <1>3, <1>4, <1>5, <1>6

\* A command that begins has not read anything.
LEMMA BeginKnows ==
  ASSUME SafeInv, NEW p \in Procs, NEW c \in Commands, NEW t \in Tasks, Begin(p, c, t)
  PROVE  Own(p)'
<1> USE DEF SafeInv, Own
<1>1. cmd'[p] = c /\ task'[p] = t /\ clock' = clock + 1
      /\ UNCHANGED <<events, ledger, phases, stamp>>
  BY DEF Begin, TypeOK
<1>2. pc'[p] \in {"phase", "create", "plan", "ledger"} /\ (pc'[p] = "create" => c = "lock")
  BY DEF Begin, TypeOK
<1>3. Shape(p)'
  BY <1>1, <1>2 DEF Shape
<1>4. Past(p)'
  <2>1. stamp[p] \in Nat /\ clock \in Nat
    BY DEF TypeOK
  <2> QED
    BY <1>1, <1>2, <2>1 DEF Past
<1>5. Gated(p)' /\ Locked(p)'
  BY <1>1, <1>2 DEF Gated, Locked
<1>6. Backed(p)'
  BY <1>1, <1>2 DEF Backed, DoneIn
<1> QED
  BY <1>3, <1>4, <1>5, <1>6

\* A lock written for a start lets it go on; one written by task lock ends it.
LEMMA LockKnows ==
  ASSUME SafeInv, TypeOK', NEW p \in Procs, WriteContract(p)
  PROVE  Own(p)'
<1> USE DEF SafeInv, Own
<1>1. CASE Finish(p)
  BY <1>1, EndedKnows DEF TypeOK
<1>2. CASE cmd[p] = "start" /\ Goto(p, "stamp")
           /\ UNCHANGED <<writeLock, cmd, task, ledger, phases, stamp>>
  <2>1. /\ UNCHANGED <<events, clock, cmd, task, ledger, phases, stamp>>
        /\ pc[p] = "lock" /\ pc'[p] = "stamp"
    BY <1>2 DEF WriteContract, TypeOK
  <2>2. task[p] \in Tasks /\ Shape(p)'
    BY <1>2, <2>1 DEF Shape
  <2>3. Past(p)'
    BY <2>1 DEF Past
  <2>4. Gated(p)'
    BY <1>2, <2>1 DEF Gated
  <2>5. Locked(p)'
    <3>1. phases[p] \in Design
      BY DEF TypeOK
    <3>2. phases[p][task[p]].decl # None
      BY <2>2, <3>1, EntryFields, NoneIsNoVersion
    <3>3. contract'[task[p]] # None
      BY <2>2, <3>2 DEF WriteContract, TypeOK
    <3> QED
      BY <2>1, <3>3 DEF Locked
  <2>6. Backed(p)'
    BY <2>1 DEF Backed, DoneIn
  <2> QED
    BY <2>2, <2>3, <2>4, <2>5, <2>6
<1> QED
  BY <1>1, <1>2 DEF WriteContract

\* A rename ends task finalize and leaves task cancel with what it knew.
LEMMA RenameKnows ==
  ASSUME SafeInv, TypeOK', NEW p \in Procs, Rename(p)
  PROVE  Own(p)'
<1> USE DEF SafeInv, Own
<1>1. CASE Finish(p)
  BY <1>1, EndedKnows DEF TypeOK
<1>2. CASE cmd[p] = "cancel" /\ Goto(p, "confirm")
           /\ UNCHANGED <<writeLock, cmd, task, ledger, phases, stamp>>
  <2>1. /\ UNCHANGED <<events, clock, cmd, task, ledger, phases, stamp>>
        /\ pc[p] = "rename" /\ pc'[p] = "confirm"
    BY <1>2 DEF Rename, TypeOK
  <2>2. Shape(p)'
    BY <1>2, <2>1 DEF Shape
  <2>3. Past(p)' /\ Gated(p)' /\ Locked(p)'
    BY <2>1 DEF Past, Gated, Locked
  <2>4. Backed(p)'
    BY <2>1 DEF Backed, DoneIn
  <2> QED
    BY <2>2, <2>3, <2>4
<1> QED
  BY <1>1, <1>2 DEF Rename

\* The steps of p itself.
LEMMA OwnStep ==
  ASSUME SafeInv, TypeOK', NEW p \in Procs, Step(p)
  PROVE  Own(p)'
<1>1. clock' \in Nat
  BY DEF TypeOK
<1>2. CASE Publish(p) \/ Confirm(p) \/ Undo(p) \/ Abandon(p)
  BY <1>1, <1>2, EndedKnows DEF Publish, Confirm, Undo, Abandon
<1> QED
  BY <1>2, BeginKnows, PhasesKnow, LedgerKnows, GateKnows, ContractKnows, LockKnows,
     StampKnows, CompareKnows, RenameKnows DEF Step

-----------------------------------------------------------------------------
(* The safety properties.                                                   *)

\* Only Publish adds to the ledger.
LEMMA EventsStep ==
  ASSUME [Next]_vars, events' # events
  PROVE  \E p \in Procs : Publish(p)
<1>1. \A p \in Procs : Reads(p) => events' = events
  BY ReadsOnly
<1>2. \A p \in Procs : (\E c \in Commands, t \in Tasks : Begin(p, c, t)) => events' = events
  BY DEF Begin
<1>3. \A p \in Procs : WriteContract(p) \/ Rename(p) \/ Confirm(p) \/ Undo(p) \/ Abandon(p) =>
        events' = events
  BY DEF WriteContract, Rename, Confirm, Undo, Abandon
<1>4. \A t \in Tasks : Edit(t) => events' = events
  BY DEF Edit
<1> QED
  BY <1>1, <1>2, <1>3, <1>4 DEF Next, Step, Reads, vars

\* What the published event looks like, and what its publisher saw.
LEMMA PublishFacts ==
  ASSUME SafeInv, NEW p \in Procs, Publish(p)
  PROVE  /\ events' = events \cup {NewEvent(p)} /\ UNCHANGED <<contract, clock, design>>
         /\ NewEvent(p).task = task[p] /\ NewEvent(p).at = stamp[p]
         /\ NewEvent(p).status = Recorded[cmd[p]]
         /\ task[p] \in Tasks /\ stamp[p] <= clock
         /\ cmd[p] \in TransitionCommands \cup CompletionCommands
         /\ task[p] \in Legacy \/ contract[task[p]] # None
         /\ cmd[p] \in CompletionCommands \cup {"start"} =>
                \A d \in DependsOn[task[p]] :
                    \E f \in events : f.task = d /\ f.status = "done" /\ f.at <= stamp[p]
<1>1. pc[p] = "publish"
  BY DEF Publish
<1>2. Own(p)
  BY DEF SafeInv
<1>3. events' = events \cup {NewEvent(p)} /\ UNCHANGED <<contract, clock, design>>
  BY DEF Publish
<1>4. /\ NewEvent(p).task = task[p] /\ NewEvent(p).at = stamp[p]
      /\ NewEvent(p).status = Recorded[cmd[p]]
  BY DEF NewEvent
<1>5. /\ task[p] \in Tasks /\ stamp[p] <= clock
      /\ cmd[p] \in TransitionCommands \cup CompletionCommands
      /\ task[p] \in Legacy \/ contract[task[p]] # None
  BY <1>1, <1>2 DEF Own, Shape, Past, Locked
<1>6. ASSUME cmd[p] \in CompletionCommands \cup {"start"}, NEW d \in DependsOn[task[p]]
      PROVE  \E f \in events : f.task = d /\ f.status = "done" /\ f.at <= stamp[p]
  <2>1. DoneIn(ledger[p], d)
    BY <1>1, <1>2, <1>6 DEF Own, Gated
  <2> QED
    BY <1>1, <1>2, <2>1 DEF Own, Past, DoneIn
<1> QED
  BY <1>3, <1>4, <1>5, <1>6

LEMMA EventsArePastStep ==
  ASSUME SafeInv, [Next]_vars, TypeOK', clock <= clock' PROVE EventsArePast'
<1>1. CASE events' = events
  <2>1. \A e \in events : e.at \in Nat
    BY DEF SafeInv, TypeOK, Event
  <2> QED
    BY <1>1, <2>1 DEF SafeInv, EventsArePast, TypeOK
<1>2. ASSUME NEW p \in Procs, Publish(p) PROVE EventsArePast'
  BY <1>2, PublishFacts DEF SafeInv, EventsArePast
<1> QED
  BY <1>1, <1>2, EventsStep

LEMMA DependenciesStep ==
  ASSUME SafeInv, [Next]_vars PROVE DependenciesWereDone'
<1> USE DEF SafeInv, DependenciesWereDone
<1>1. CASE events' = events
  BY <1>1
<1>2. ASSUME NEW p \in Procs, Publish(p) PROVE DependenciesWereDone'
  <2>1. SUFFICES ASSUME NEW e \in events', e.status \in {"started", "done"},
                        NEW d \in DependsOn[e.task]
                 PROVE  \E f \in events' : f.task = d /\ f.status = "done" /\ f.at <= e.at
    OBVIOUS
  <2>2. CASE e \in events
    BY <1>2, <2>1, <2>2, PublishFacts
  <2>3. CASE e = NewEvent(p)
    <3>1. cmd[p] \in CompletionCommands \cup {"start"}
      BY <1>2, <2>1, <2>3, PublishFacts DEF Recorded
    <3> QED
      BY <1>2, <2>1, <2>3, <3>1, PublishFacts
  <2> QED
    BY <1>2, <2>2, <2>3, PublishFacts
<1> QED
  BY <1>1, <1>2, EventsStep

LEMMA LockedStep ==
  ASSUME SafeInv, [Next]_vars,
         \A t \in Tasks : contract[t] # None => contract'[t] # None
  PROVE  EventsAreLocked'
<1>1. \A e \in events : e.task \in Tasks
  BY DEF SafeInv, TypeOK, Event
<1>2. \A e \in events : e.task \in Legacy \/ contract'[e.task] # None
  BY <1>1 DEF SafeInv, EventsAreLocked
<1>3. CASE events' = events
  BY <1>2, <1>3 DEF EventsAreLocked
<1>4. ASSUME NEW p \in Procs, Publish(p) PROVE EventsAreLocked'
  BY <1>2, <1>4, PublishFacts DEF EventsAreLocked
<1> QED
  BY <1>3, <1>4, EventsStep

\* Only a rename, a rollback and an edit change a phase file, and each writes
\* statuses that are backed.
LEMMA FinalizedStep ==
  ASSUME SafeInv, [Next]_vars, TypeOK', events \subseteq events'
  PROVE  FinalizedWasDone'
<1> USE DEF SafeInv
<1>1. SUFFICES ASSUME NEW t \in Tasks \ Legacy, design'[t].status = "done"
               PROVE  DoneIn(events, t)
  BY DEF FinalizedWasDone, DoneIn
<1>2. CASE design'[t] = design[t]
  BY <1>1, <1>2 DEF FinalizedWasDone, DoneIn
<1>3. ASSUME NEW p \in Procs, design'[t] = phases[p][t] PROVE DoneIn(events, t)
  BY <1>1, <1>3 DEF Own, Backed
<1>4. ASSUME NEW p \in Procs, Rename(p), design'[t] = Candidate(p)[t]
      PROVE  DoneIn(events, t)
  <2>1. pc[p] = "rename" /\ task[p] \in Tasks /\ cmd[p] \in DesignCommands
    BY <1>4 DEF Rename, Own, Shape
  <2>2. CASE t # task[p]
    <3>1. phases[p] \in Design
      BY DEF TypeOK
    <3>2. Candidate(p)[t] = phases[p][t]
      BY <2>2, <3>1 DEF Candidate, Design
    <3> QED
      BY <1>3, <1>4, <3>2
  <2>3. CASE t = task[p]
    <3>1. phases[p] \in Design
      BY DEF TypeOK
    <3>2. Candidate(p)[t].status = IF cmd[p] = "cancel" THEN "cancelled" ELSE "done"
      BY <2>3, <3>1 DEF Candidate, Design
    <3>3. cmd[p] = "finalize"
      BY <1>1, <1>4, <2>1, <3>2
    <3> QED
      BY <2>1, <2>3, <3>3 DEF Own, Backed
  <2> QED
    BY <2>2, <2>3
<1>5. ASSUME NEW p \in Procs, Step(p) PROVE DoneIn(events, t)
  <2>1. CASE Rename(p)
    <3>1. design'[t] = design[t] \/ design'[t] = Candidate(p)[t]
      BY <2>1 DEF Rename, WithPhase
    <3> QED
      BY <1>2, <1>4, <2>1, <3>1
  <2>2. CASE Undo(p)
    <3>1. design'[t] = design[t] \/ design'[t] = phases[p][t]
      BY <2>2 DEF Undo, WithPhase
    <3> QED
      BY <1>2, <1>3, <3>1
  <2>3. CASE Reads(p)
    BY <1>2, <2>3, ReadsOnly
  <2>4. CASE \E c \in Commands, u \in Tasks : Begin(p, c, u)
    BY <1>2, <2>4 DEF Begin
  <2>5. CASE WriteContract(p) \/ Publish(p) \/ Confirm(p) \/ Abandon(p)
    BY <1>2, <2>5 DEF WriteContract, Publish, Confirm, Abandon
  <2> QED
    BY <1>5, <2>1, <2>2, <2>3, <2>4, <2>5 DEF Step, Reads
<1>6. ASSUME NEW u \in Tasks, Edit(u) PROVE DoneIn(events, t)
  <2>1. design \in Design
    BY DEF TypeOK
  <2>2. design'[t].status = design[t].status
    BY <1>6, <2>1 DEF Edit, Design
  <2> QED
    BY <1>1, <2>2 DEF FinalizedWasDone, DoneIn
<1> QED
  BY <1>2, <1>5, <1>6 DEF Next, vars

-----------------------------------------------------------------------------
(* The theorems.                                                            *)

\* Nothing is started, recorded or known at the start.
LEMMA InitSafe == ASSUME Init PROVE SafeInv
<1>1. TypeOK
  BY InitialDesignType DEF Init, TypeOK, Label
<1>2. EventsArePast /\ DependenciesWereDone /\ EventsAreLocked
  BY DEF Init, EventsArePast, DependenciesWereDone, EventsAreLocked
<1>3. \A t \in Tasks \ Legacy : InitialDesign[t].status # "done"
  BY DEF InitialDesign
<1>4. FinalizedWasDone
  BY <1>3 DEF Init, FinalizedWasDone
<1>5. ASSUME NEW p \in Procs PROVE Own(p)
  <2>1. pc[p] = "idle" /\ ledger[p] = {} /\ phases[p] = InitialDesign
        /\ stamp[p] = 0 /\ clock = 0
    BY DEF Init
  <2>2. Shape(p) /\ Past(p) /\ Gated(p) /\ Locked(p)
    BY <2>1 DEF Shape, Past, Gated, Locked
  <2>3. Backed(p)
    BY <1>3, <2>1 DEF Backed
  <2> QED
    BY <2>2, <2>3 DEF Own
<1> QED
  BY <1>1, <1>2, <1>4, <1>5 DEF SafeInv

\* SafeInv is inductive.
LEMMA SafeStep == ASSUME SafeInv, [Next]_vars PROVE SafeInv'
<1>1. TypeOK /\ \A p \in Procs : Shape(p)
  BY DEF SafeInv, Own
<1>2. TypeOK'
  BY <1>1, TypeStep
<1>3. /\ events \subseteq events' /\ clock <= clock'
      /\ \A t \in Tasks : contract[t] # None => contract'[t] # None
  BY <1>1, SharedGrows
<1>4. clock' \in Nat
  BY <1>2 DEF TypeOK
<1>5. ASSUME NEW q \in Procs PROVE Own(q)'
  <2>1. ASSUME NEW p \in Procs, Step(p) PROVE Own(q)'
    <3>1. CASE q = p
      BY <1>2, <2>1, <3>1, OwnStep
    <3>2. CASE q # p
      BY <1>1, <1>3, <1>4, <2>1, <3>2, OthersUntouched, KnowledgeLasts
    <3> QED
      BY <3>1, <3>2
  <2>2. CASE UNCHANGED local
    <3>1. /\ pc'[q] = pc[q] /\ cmd'[q] = cmd[q] /\ task'[q] = task[q]
          /\ ledger'[q] = ledger[q] /\ phases'[q] = phases[q] /\ stamp'[q] = stamp[q]
      BY <2>2
    <3> QED
      BY <1>3, <1>4, <3>1, KnowledgeLasts
  <2> QED
    BY <2>1, <2>2 DEF Next, Edit, vars
<1> QED
  BY <1>2, <1>3, <1>5, EventsArePastStep, DependenciesStep, LockedStep, FinalizedStep
     DEF SafeInv

LEMMA AlwaysSafe == Spec => []SafeInv
  BY InitSafe, SafeStep, PTL DEF Spec

-----------------------------------------------------------------------------
(* The order of a history.                                                  *)

LEMMA LeastNumber ==
  ASSUME NEW T \in SUBSET Nat, T # {}
  PROVE  \E n \in T : \A m \in T : n <= m
<1> DEFINE R == OpToRel(<, Nat)
<1>1. IsWellFoundedOn(R, Nat)
  BY NatLessThanWellFounded
<1>2. \A m, n \in Nat : <<m, n>> \in R <=> m < n
  BY DEF OpToRel
<1> HIDE DEF R
<1>3. PICK n \in T : \A m \in T : ~ (<<m, n>> \in R)
  BY <1>1, WFMin
<1>4. ASSUME NEW m \in T PROVE n <= m
  <2>1. n \in Nat /\ m \in Nat
    OBVIOUS
  <2>2. ~ (m < n)
    BY <1>2, <1>3, <2>1
  <2> QED
    BY <2>1, <2>2
<1> QED
  BY <1>4

\* A set of events of one task, in the time the model has.
IsHistory(S, t) == S \subseteq Event /\ \A e \in S : e.task = t /\ e.at <= MaxClock

\* Before is a strict total order of the events of a task.
LEMMA HistoryIsOrdered ==
  ASSUME NEW t \in Tasks, NEW S, IsHistory(S, t), NEW e \in S, NEW f \in S
  PROVE  /\ e # f => Before(e, f) \/ Before(f, e)
         /\ Before(e, f) => ~ Before(f, e)
         /\ ~ Before(e, e)
         /\ \A g \in S : Before(e, f) /\ Before(f, g) => Before(e, g)
<1> DEFINE Tied(n) == [task : {t}, status : Status, at : {n}, author : Procs]
<1>1. ASSUME NEW g \in S PROVE g \in Tied(g.at) /\ g.at \in 0 .. MaxClock
  <2>1. g \in Event /\ g.task = t /\ g.at <= MaxClock
    BY DEF IsHistory
  <2> QED
    BY <2>1 DEF Event
<1>2. ASSUME NEW n \in 0 .. MaxClock, NEW a \in Tied(n), NEW b \in Tied(n)
      PROVE  /\ a # b => HashBelow(a, b) \/ HashBelow(b, a)
             /\ HashBelow(a, b) => ~ HashBelow(b, a)
             /\ \A c \in Tied(n) : HashBelow(a, b) /\ HashBelow(b, c) => HashBelow(a, c)
  BY HashesAreOrdered
<1> HIDE DEF Tied
<1>3. \A g \in S : g.at \in Nat
  BY <1>1
<1>4. e.at = f.at =>
        /\ e # f => HashBelow(e, f) \/ HashBelow(f, e)
        /\ HashBelow(e, f) => ~ HashBelow(f, e)
  BY <1>1, <1>2
<1>5. ~ HashBelow(e, e)
  BY <1>1, <1>2
<1>6. ASSUME NEW g \in S, Before(e, f), Before(f, g) PROVE Before(e, g)
  <2>1. CASE e.at = f.at /\ f.at = g.at
    <3>1. HashBelow(e, f) /\ HashBelow(f, g)
      BY <1>3, <1>6, <2>1 DEF Before
    <3>2. e.at \in 0 .. MaxClock /\ e \in Tied(e.at) /\ f \in Tied(e.at) /\ g \in Tied(e.at)
      BY <1>1, <2>1
    <3>3. HashBelow(e, g)
      BY <1>2, <3>1, <3>2
    <3> QED
      BY <2>1, <3>3 DEF Before
  <2>2. CASE ~ (e.at = f.at /\ f.at = g.at)
    BY <1>3, <1>6, <2>2 DEF Before
  <2> QED
    BY <2>1, <2>2
<1> QED
  BY <1>3, <1>4, <1>5, <1>6 DEF Before

\* Whatever is not the first of a finite history follows one immediately.
LEMMA HasPredecessor ==
  ASSUME NEW t \in Tasks, NEW S, IsHistory(S, t), IsFiniteSet(S),
         NEW x \in S, NEW y \in S, Before(y, x)
  PROVE  \E e \in S : Neighbours(e, x, S)
<1> DEFINE Between(e) == {g \in S : Before(e, g) /\ Before(g, x)}
           Earlier == {e \in S : Before(e, x)}
           Ranks == {Cardinality(Between(e)) : e \in Earlier}
<1>1. \A e \in S : IsFiniteSet(Between(e)) /\ Cardinality(Between(e)) \in Nat
  BY FS_Subset, FS_CardinalityType
<1>2. Ranks \in SUBSET Nat /\ Ranks # {}
  <2>1. y \in Earlier /\ \A e \in Earlier : e \in S
    OBVIOUS
  <2> HIDE DEF Between, Earlier
  <2> QED
    BY <1>1, <2>1
<1>3. PICK n \in Ranks : \A m \in Ranks : n <= m
  BY <1>2, LeastNumber
<1>4. PICK e \in Earlier : n = Cardinality(Between(e))
  BY <1>3
<1>5. ASSUME NEW g \in S, Before(e, g), Before(g, x) PROVE FALSE
  <2>1. e \in S /\ g \in Earlier
    BY <1>5
  <2>2. Between(g) \subseteq Between(e)
    BY <1>5, <2>1, HistoryIsOrdered
  <2>3. g \in Between(e) /\ g \notin Between(g)
    BY <1>5, <2>1, HistoryIsOrdered
  <2>4. Cardinality(Between(g)) <= Cardinality(Between(e))
        /\ Cardinality(Between(g)) # Cardinality(Between(e))
    BY <1>1, <2>1, <2>2, <2>3, FS_Subset
  <2>5. Cardinality(Between(g)) \in Ranks
    BY <2>1
  <2>6. Cardinality(Between(e)) <= Cardinality(Between(g))
    BY <1>3, <1>4, <2>5
  <2> HIDE DEF Between
  <2> QED
    BY <1>1, <2>1, <2>4, <2>6
<1> QED
  BY <1>4, <1>5 DEF Neighbours

-----------------------------------------------------------------------------
(* What a publisher knows of the histories.                                 *)

\* A command that appends an event, and what it may append from what it read.
Appends(p) == cmd[p] \in TransitionCommands \cup CompletionCommands

Permitted(p) ==
    IF cmd[p] \in TransitionCommands
    THEN CanTransition(ledger[p], task[p], Recorded[cmd[p]])
    ELSE ~ InState(ledger[p], task[p], "done") /\ ~ InState(ledger[p], task[p], "blocked")

Decided == {"contract", "create", "lock", "stamp", "publish"}

HasRead(p) ==
    \/ pc[p] \in Decided \cup {"gate"}
    \/ pc[p] = "phase" /\ cmd[p] \in TransitionCommands

\* The gate's answer stands, and a process has read its own events.
Informed(p) ==
    Appends(p) =>
        /\ pc[p] # "plan"
        /\ pc[p] \in Decided => Permitted(p)
        /\ HasRead(p) => \A e \in events : e.author = p => e \in ledger[p]

\* Nobody records a failure.
HistoryInv ==
    /\ IsFiniteSet(events) /\ clock <= MaxClock
    /\ \A e \in events : e.status # "failed"
    /\ \A p \in Procs : Informed(p)

\* Only Begin lets time pass.
LEMMA ClockStep ==
  ASSUME [Next]_vars
  PROVE  clock' = clock \/ (clock < MaxClock /\ clock' = clock + 1)
<1>1. \A p \in Procs : Reads(p) => clock' = clock
  BY ReadsOnly
<1>2. \A p \in Procs : WriteContract(p) \/ Publish(p) \/ Rename(p) \/ Confirm(p) \/ Undo(p) \/ Abandon(p) =>
        clock' = clock
  BY DEF WriteContract, Publish, Rename, Confirm, Undo, Abandon
<1>3. \A p \in Procs, c \in Commands, t \in Tasks : Begin(p, c, t) => clock < MaxClock /\ clock' = clock + 1
  BY DEF Begin
<1>4. \A t \in Tasks : Edit(t) => clock' = clock
  BY DEF Edit
<1> QED
  BY <1>1, <1>2, <1>3, <1>4 DEF Next, Step, Reads, vars

\* A process that another one's step leaves alone stays informed.
LEMMA InformedLasts ==
  ASSUME HistoryInv, NEW q \in Procs, \A e \in events' \ events : e.author # q,
         pc'[q] = pc[q], cmd'[q] = cmd[q], task'[q] = task[q], ledger'[q] = ledger[q]
  PROVE  Informed(q)'
<1>1. Informed(q)
  BY DEF HistoryInv
<1>2. Appends(q)' = Appends(q) /\ HasRead(q)' = HasRead(q)
  BY DEF Appends, HasRead
<1>3. Permitted(q)' = Permitted(q)
  BY DEF Permitted
<1> QED
  BY <1>1, <1>2, <1>3 DEF Informed

LEMMA InformedStep ==
  ASSUME SafeInv, HistoryInv, NEW p \in Procs, Step(p)
  PROVE  Informed(p)'
<1> USE DEF SafeInv
<1>0. Informed(p) /\ Shape(p)
  BY DEF HistoryInv, Own
<1>1. CASE Finish(p)
  <2>1. pc'[p] = "idle"
    BY <1>1 DEF Finish, TypeOK
  <2> QED
    BY <2>1 DEF Informed, HasRead, Decided
<1>2. ASSUME NEW c \in Commands, NEW t \in Tasks, Begin(p, c, t) PROVE Informed(p)'
  <2>1. cmd'[p] = c /\ pc'[p] \in {"phase", "create", "plan", "ledger"}
    BY <1>2 DEF Begin, TypeOK
  <2>2. pc'[p] = "create" => c = "lock"
    BY <1>2 DEF Begin, TypeOK
  <2>3. /\ pc'[p] = "phase" => c \in CompletionCommands
        /\ pc'[p] = "plan" => c = "cancel"
    BY <1>2 DEF Begin, TypeOK
  <2> QED
    BY <2>1, <2>2, <2>3 DEF Informed, HasRead, Decided, Appends
<1>3. CASE ReadLedger(p)
  BY <1>3 DEF ReadLedger, TypeOK, Informed, HasRead, Decided
<1>4. CASE ReadPlan(p)
  <2>1. pc'[p] = "phase" /\ cmd'[p] = cmd[p] /\ ledger'[p] = ledger[p] /\ events' = events
        /\ pc[p] = "plan" /\ task'[p] = task[p]
    BY <1>4 DEF ReadPlan, TypeOK
  <2>2. ~ Appends(p)
    BY <1>0, <2>1 DEF Informed
  <2> QED
    BY <2>1, <2>2 DEF Informed, Appends
<1>5. CASE ReadPhase(p)
  <2>1. /\ pc[p] = "phase" /\ pc'[p] \in {"ledger", "gate"} /\ cmd'[p] = cmd[p]
        /\ ledger'[p] = ledger[p] /\ events' = events
        /\ pc'[p] = "gate" => cmd[p] \notin CompletionCommands
    BY <1>5 DEF ReadPhase, TypeOK
  <2> QED
    BY <1>0, <2>1 DEF Informed, HasRead, Decided, Appends
<1>6. CASE GateTransition(p) \/ GateCompletion(p)
  <2>1. /\ pc[p] = "gate" /\ pc'[p] \in {"contract", "stamp"}
        /\ UNCHANGED <<events, cmd, task, ledger>>
    BY <1>6 DEF GateTransition, GateCompletion, TypeOK
  <2>2. Permitted(p)
    BY <1>6 DEF GateTransition, GateCompletion, Permitted
  <2>3. Permitted(p)'
    BY <2>1, <2>2 DEF Permitted
  <2>4. \A e \in events : Appends(p) /\ e.author = p => e \in ledger[p]
    BY <1>0, <2>1 DEF Informed, HasRead
  <2> QED
    BY <2>1, <2>3, <2>4 DEF Informed, Appends
<1>7. CASE \/ ContractHolds(p) \/ NoContractNeeded(p) \/ StartWithoutContract(p)
           \/ ReadContract(p) \/ Stamp(p) \/ (WriteContract(p) /\ ~ Finish(p))
  <2>1. pc[p] \in Decided /\ pc'[p] \in Decided /\ UNCHANGED <<events, cmd, task, ledger>>
    BY <1>7 DEF ContractHolds, NoContractNeeded, StartWithoutContract, ReadContract, Stamp,
                WriteContract, Decided, TypeOK
  <2>2. Permitted(p)' = Permitted(p)
    BY <2>1 DEF Permitted
  <2>3. pc'[p] # "plan"
    BY <2>1 DEF Decided
  <2> QED
    BY <1>0, <2>1, <2>2, <2>3 DEF Informed, HasRead, Appends
<1>8. CASE \/ GateFinalize(p) \/ GateCancel(p) \/ Reread(p) \/ Compare(p) \/ ConfirmFails(p)
           \/ CompareUndo(p) \/ (Rename(p) /\ ~ Finish(p))
  <2>1. pc'[p] \in {"reread", "compare", "rename", "confirm", "compare undo", "undo"}
    BY <1>8 DEF GateFinalize, GateCancel, Reread, Compare, ConfirmFails, CompareUndo, Rename, TypeOK
  <2> QED
    BY <2>1 DEF Informed, HasRead, Decided
<1>9. Publish(p) \/ Confirm(p) \/ Undo(p) \/ Abandon(p) => Finish(p)
  BY DEF Publish, Confirm, Undo, Abandon
<1> QED
  BY <1>1, <1>2, <1>3, <1>4, <1>5, <1>6, <1>7, <1>8, <1>9 DEF Step

LEMMA HistoryStep ==
  ASSUME SafeInv, HistoryInv, [Next]_vars
  PROVE  HistoryInv'
<1>1. clock' <= MaxClock
  <2>1. clock \in Nat
    BY DEF SafeInv, TypeOK
  <2> QED
    BY <2>1, ClockStep DEF HistoryInv
<1>2. IsFiniteSet(events') /\ \A e \in events' : e.status # "failed"
  <2>1. CASE events' = events
    BY <2>1 DEF HistoryInv
  <2>2. ASSUME NEW p \in Procs, Publish(p)
        PROVE  IsFiniteSet(events') /\ \A e \in events' : e.status # "failed"
    <3>1. events' = events \cup {NewEvent(p)}
      BY <2>2, PublishFacts
    <3>2. NewEvent(p).status # "failed"
      BY <2>2, PublishFacts DEF Recorded
    <3>3. IsFiniteSet(events \cup {NewEvent(p)})
      BY FS_AddElement DEF HistoryInv
    <3> QED
      BY <3>1, <3>2, <3>3 DEF HistoryInv
  <2> QED
    BY <2>1, <2>2, EventsStep
<1>3. ASSUME NEW q \in Procs PROVE Informed(q)'
  <2>1. ASSUME NEW p \in Procs, Step(p) PROVE Informed(q)'
    <3>1. CASE q = p
      BY <2>1, <3>1, InformedStep
    <3>2. CASE q # p
      <4>1. \A e \in events' \ events : e.author = p
        <5>1. CASE events' = events
          BY <5>1
        <5>2. CASE Publish(p)
          BY <5>2, PublishFacts DEF NewEvent
        <5>3. events' = events \/ Publish(p)
          BY <2>1, ReadsOnly DEF Step, Reads, Begin, WriteContract, Rename, Confirm, Undo, Abandon
        <5> QED
          BY <5>1, <5>2, <5>3
      <4>2. /\ pc'[q] = pc[q] /\ cmd'[q] = cmd[q] /\ task'[q] = task[q] /\ ledger'[q] = ledger[q]
        BY <2>1, <3>2, OthersUntouched DEF SafeInv
      <4> QED
        BY <3>2, <4>1, <4>2, InformedLasts
    <3> QED
      BY <3>1, <3>2
  <2>2. CASE UNCHANGED <<events, local>>
    BY <2>2, InformedLasts
  <2> QED
    BY <2>1, <2>2 DEF Next, Edit, vars
<1> QED
  BY <1>1, <1>2, <1>3 DEF HistoryInv

LEMMA AlwaysHistory == Spec => [](SafeInv /\ HistoryInv)
<1>1. Init => HistoryInv
  <2>1. ASSUME Init PROVE HistoryInv
    <3>1. IsFiniteSet({})
      BY FS_EmptySet
    <3> QED
      BY <2>1, <3>1 DEF Init, HistoryInv, Informed, HasRead, Decided
  <2> QED
    BY <2>1
<1>2. SafeInv /\ HistoryInv /\ [Next]_vars => (SafeInv /\ HistoryInv)'
  BY SafeStep, HistoryStep
<1>3. Init => SafeInv
  BY InitSafe
<1> QED
  BY <1>1, <1>2, <1>3, PTL DEF Spec

-----------------------------------------------------------------------------
(* What an appended event does to the history of its task.                  *)

\* A task is in one state: the status of its last event.
LEMMA StateIsLast ==
  ASSUME NEW t \in Tasks, NEW S, IsHistory(History(S, t), t), NEW s,
         NEW e \in History(S, t), IsLast(e, History(S, t)), InState(S, t, s)
  PROVE  s = e.status
<1>1. PICK f \in History(S, t) : f.status = s /\ IsLast(f, History(S, t))
  BY DEF InState
<1>2. e # f => Before(e, f) /\ Before(f, e)
  BY <1>1 DEF IsLast
<1>3. e = f
  BY <1>2, HistoryIsOrdered
<1> QED
  BY <1>1, <1>3

\* What is so when a command appends its event.
LEMMA PublisherKnows ==
  ASSUME SafeInv, HistoryInv, NEW p \in Procs, Publish(p),
         NEW t \in Tasks, task[p] = t
  PROVE  /\ Permitted(p)
         /\ \A e \in events : e.author = p => e \in ledger[p]
         /\ History(events', t) = History(events, t) \cup {NewEvent(p)}
         /\ IsHistory(History(events', t), t)
         /\ IsFiniteSet(History(events', t))
         /\ \A e \in History(events', t) : e.status \in Status \ {"failed"}
<1>1. /\ events' = events \cup {NewEvent(p)} /\ NewEvent(p).task = t
      /\ cmd[p] \in TransitionCommands \cup CompletionCommands
  BY PublishFacts
<1>2. pc[p] = "publish" /\ Informed(p)
  BY DEF Publish, HistoryInv
<1>3. Permitted(p) /\ \A e \in events : e.author = p => e \in ledger[p]
  BY <1>1, <1>2 DEF Informed, HasRead, Decided, Appends
<1>4. SafeInv' /\ HistoryInv'
  <2>1. Next
    BY DEF Next, Step
  <2> QED
    BY <2>1, SafeStep, HistoryStep
<1>5. /\ events' \subseteq Event /\ clock' \in Nat /\ IsFiniteSet(events') /\ clock' <= MaxClock
      /\ \A e \in events' : e.status # "failed" /\ e.at <= clock'
  BY <1>4 DEF SafeInv, TypeOK, EventsArePast, HistoryInv
<1>6. \A e \in events' : e.at \in Nat /\ e.at <= MaxClock /\ e.status \in Status
  <2>1. \A e \in Event : e.at \in Nat /\ e.status \in Status
    BY DEF Event
  <2> QED
    BY <1>5, <2>1, BoundsAreNat
<1>7. History(events', t) \subseteq events' /\ \A e \in History(events', t) : e.task = t
  BY DEF History
<1>8. IsFiniteSet(History(events', t))
  BY <1>5, <1>7, FS_Subset
<1>9. History(events', t) = History(events, t) \cup {NewEvent(p)}
  BY <1>1 DEF History
<1>10. IsHistory(History(events', t), t)
  BY <1>5, <1>6, <1>7 DEF IsHistory
<1> QED
  BY <1>3, <1>5, <1>6, <1>7, <1>8, <1>9, <1>10

\* A command that read the whole history of its task appends a status that may
\* follow the last one, and may come first in an empty history.
LEMMA PermittedIsAcceptable ==
  ASSUME HistoryInv, NEW p \in Procs, Permitted(p), task[p] \in Tasks, Appends(p),
         NEW H, H = History(ledger[p], task[p]), IsHistory(H, task[p]),
         \A e \in H : e.status \in Status \ {"failed"}
  PROVE  /\ H = {} => Acceptable("planned", Recorded[cmd[p]])
         /\ \A e \in H : IsLast(e, H) => Acceptable(e.status, Recorded[cmd[p]])
<1>1. CASE cmd[p] \in TransitionCommands
  <2>1. PICK s \in State : InState(ledger[p], task[p], s) /\ Recorded[cmd[p]] \in Allowed[s]
    BY <1>1 DEF Permitted, CanTransition
  <2>2. H = {} => s = "planned"
    BY <2>1 DEF InState
  <2>3. \A e \in H : IsLast(e, H) => s = e.status
    BY <2>1, StateIsLast
  <2> QED
    BY <2>1, <2>2, <2>3 DEF Acceptable
<1>2. CASE cmd[p] \notin TransitionCommands
  <2>1. Recorded[cmd[p]] = "done"
    BY <1>2 DEF Recorded, Appends, TransitionCommands, CompletionCommands
  <2>2. ASSUME NEW e \in H, IsLast(e, H) PROVE e.status \in {"started", "resumed"}
    <3>1. InState(ledger[p], task[p], e.status)
      BY <2>2 DEF InState
    <3>2. e.status # "done" /\ e.status # "blocked"
      BY <1>2, <3>1 DEF Permitted
    <3> QED
      BY <3>2 DEF Status, State
  <2> QED
    BY <2>1, <2>2 DEF Acceptable, Allowed
<1> QED
  BY <1>1, <1>2

LEMMA FreshStep ==
  ASSUME SafeInv, HistoryInv, NEW p \in Procs, NEW t \in Tasks, Publish(p), task[p] = t,
         History(events, t) = History(ledger[p], t),
         \A e \in History(events, t) : e.at < stamp[p],
         Conflict(t)'
  PROVE  Conflict(t)
<1> DEFINE H == History(events, t)
           K == History(events', t)
           n == NewEvent(p)
<1>1. /\ Permitted(p) /\ K = H \cup {n} /\ IsHistory(K, t)
      /\ \A e \in K : e.status \in Status \ {"failed"}
  BY PublisherKnows
<1>2. n.at = stamp[p] /\ n.status = Recorded[cmd[p]] /\ Appends(p)
  BY PublishFacts DEF Appends
<1>3. \A e \in K : e.at \in Nat
  BY <1>1 DEF IsHistory, Event
<1>4. \A e \in H : Before(e, n) /\ ~ Before(n, e) /\ e # n
  BY <1>1, <1>2, <1>3 DEF Before
<1>5. IsHistory(H, t) /\ H = History(ledger[p], task[p])
  BY <1>1 DEF IsHistory
<1>6. /\ H = {} => Acceptable("planned", n.status)
      /\ \A e \in H : IsLast(e, H) => Acceptable(e.status, n.status)
  BY <1>1, <1>2, <1>5, PermittedIsAcceptable
<1>7. \/ \E e \in K : (\A f \in K \ {e} : Before(e, f)) /\ ~ Acceptable("planned", e.status)
      \/ \E e, f \in K : Neighbours(e, f, K) /\ ~ Acceptable(e.status, f.status)
  BY DEF Conflict
<1>8. SUFFICES \/ \E e \in H : (\A f \in H \ {e} : Before(e, f)) /\ ~ Acceptable("planned", e.status)
               \/ \E e, f \in H : Neighbours(e, f, H) /\ ~ Acceptable(e.status, f.status)
  BY DEF Conflict
<1> HIDE DEF H, K, n
<1>9. ASSUME NEW e \in K, \A f \in K \ {e} : Before(e, f), ~ Acceptable("planned", e.status)
      PROVE  \E f \in H : (\A g \in H \ {f} : Before(f, g)) /\ ~ Acceptable("planned", f.status)
  <2>1. CASE e = n
    <3>1. \A f \in H : Before(n, f)
      BY <1>1, <1>4, <1>9, <2>1
    <3>2. H = {}
      BY <1>4, <3>1
    <3> QED
      BY <1>6, <1>9, <2>1, <3>2
  <2>2. CASE e # n
    BY <1>1, <1>9, <2>2
  <2> QED
    BY <2>1, <2>2
<1>10. ASSUME NEW e \in K, NEW f \in K, Neighbours(e, f, K), ~ Acceptable(e.status, f.status)
       PROVE  e \in H /\ f \in H /\ Neighbours(e, f, H)
  <2>1. Before(e, f) /\ e # f
    BY <1>1, <1>10, HistoryIsOrdered DEF Neighbours
  <2>2. e \in H
    BY <1>1, <1>4, <2>1
  <2>3. f # n
    <3>1. SUFFICES ASSUME f = n PROVE FALSE
      OBVIOUS
    <3>2. ASSUME NEW g \in H \ {e} PROVE Before(g, e)
      <4>1. ~ Before(e, g)
        BY <1>1, <1>4, <1>10, <3>1, <3>2 DEF Neighbours
      <4> QED
        BY <1>1, <2>2, <3>2, <4>1, HistoryIsOrdered
    <3> QED
      BY <1>6, <1>10, <2>2, <3>1, <3>2 DEF IsLast
  <2>4. f \in H
    BY <1>1, <2>3
  <2> QED
    BY <1>1, <1>10, <2>2, <2>4 DEF Neighbours
<1> QED
  BY <1>7, <1>9, <1>10

\* Nothing a task records may be followed by a start.
LEMMA LaterStartConflicts ==
  ASSUME NEW t \in Tasks, NEW S, IsHistory(S, t), IsFiniteSet(S),
         \A e \in S : e.status \in Status \ {"failed"},
         NEW x \in S, NEW y \in S, x.status = "started", Before(y, x)
  PROVE  \E e, f \in S : Neighbours(e, f, S) /\ ~ Acceptable(e.status, f.status)
<1>1. PICK e \in S : Neighbours(e, x, S)
  BY HasPredecessor
<1>2. ~ Acceptable(e.status, x.status)
  BY DEF Acceptable, Allowed, Status, State
<1> QED
  BY <1>1, <1>2

LEMMA BlindStep ==
  ASSUME SafeInv, HistoryInv, NEW p \in Procs, NEW t \in Tasks, Publish(p), task[p] = t,
         cmd[p] = "start", NEW e \in events \ ledger[p], e.task = t, e.status = "started"
  PROVE  Conflict(t)'
<1> DEFINE K == History(events', t)
           n == NewEvent(p)
<1>1. /\ e.author # p /\ K = History(events, t) \cup {n}
      /\ IsHistory(K, t) /\ IsFiniteSet(K) /\ \A f \in K : f.status \in Status \ {"failed"}
  BY PublisherKnows
<1>2. e \in K /\ n \in K
  BY <1>1 DEF History
<1>3. n.status = "started" /\ n.author = p
  BY DEF NewEvent, Recorded, TransitionCommands, CompletionCommands
<1>4. SUFFICES \E f, g \in K : Neighbours(f, g, K) /\ ~ Acceptable(f.status, g.status)
  BY DEF Conflict
<1> HIDE DEF K, n
<1>5. Before(e, n) \/ Before(n, e)
  BY <1>1, <1>2, <1>3, HistoryIsOrdered
<1> QED
  BY <1>1, <1>2, <1>3, <1>5, LaterStartConflicts

-----------------------------------------------------------------------------
\* The commands keep their types.
THEOREM TypeCorrect == Spec => []TypeOK
<1>1. SafeInv => TypeOK
  BY DEF SafeInv
<1> QED
  BY <1>1, AlwaysSafe, PTL

\* However many commands interleave, a task starts or is done only after each of
\* its dependencies recorded done: no stale ledger opens the gate early.
THEOREM DependenciesWereDoneHolds == Spec => []DependenciesWereDone
<1>1. SafeInv => DependenciesWereDone
  BY DEF SafeInv
<1> QED
  BY <1>1, AlwaysSafe, PTL

\* The design never calls a task done that the ledger does not, whatever a stale
\* rename or a rollback of a phase file writes.
THEOREM FinalizedWasDoneHolds == Spec => []FinalizedWasDone
<1>1. SafeInv => FinalizedWasDone
  BY DEF SafeInv
<1> QED
  BY <1>1, AlwaysSafe, PTL

\* No command records an event for a task without a contract lock.
THEOREM EventsAreLockedHolds == Spec => []EventsAreLocked
<1>1. SafeInv => EventsAreLocked
  BY DEF SafeInv
<1> QED
  BY <1>1, AlwaysSafe, PTL

\* A command that no event of its task overtook, and whose clock is past theirs,
\* leaves a history the detector accepts if it found one.
THEOREM FreshCommandIsLegalHolds == Spec => FreshCommandIsLegal
<1> DEFINE Legal == \A p \in Procs, t \in Tasks :
        (/\ Publish(p) /\ task[p] = t
         /\ History(events, t) = History(ledger[p], t)
         /\ \A e \in History(events, t) : e.at < stamp[p])
        => (Conflict(t)' => Conflict(t))
<1>1. SafeInv /\ HistoryInv => Legal
  BY FreshStep
<1>2. SafeInv /\ HistoryInv /\ [Next]_vars => [Legal]_vars
  BY <1>1
<1> QED
  BY <1>2, AlwaysHistory, PTL DEF Spec, FreshCommandIsLegal

\* Two starts of one task by different authors, the second blind to the first,
\* are reported by the detector.
THEOREM BlindStartIsCaughtHolds == Spec => BlindStartIsCaught
<1> DEFINE Caught == \A p \in Procs, t \in Tasks :
        (/\ Publish(p) /\ task[p] = t /\ cmd[p] = "start"
         /\ \E e \in events \ ledger[p] : e.task = t /\ e.status = "started")
        => Conflict(t)'
<1>1. SafeInv /\ HistoryInv => Caught
  BY BlindStep
<1>2. SafeInv /\ HistoryInv /\ [Next]_vars => [Caught]_vars
  BY <1>1
<1> QED
  BY <1>2, AlwaysHistory, PTL DEF Spec, BlindStartIsCaught

=============================================================================
