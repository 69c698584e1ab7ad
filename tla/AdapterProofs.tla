--------------------------- MODULE AdapterProofs ---------------------------
(***************************************************************************)
(* Safety of the journaled transaction for any number of files and          *)
(* contents, any number of faults and any number of user edits: TxInv is    *)
(* inductive; no step loses old content before the commit marker; and the   *)
(* command implements AtomicFiles.  Then what install and upgrade promise   *)
(* on top of it: whose text a plan may replace, and what the manifest tells. *)
(***************************************************************************)
EXTENDS AdapterCommand, TLAPS

USE AbsentAndKeep, BoundsAreNat
    DEF disk, budget, local, CommitStep, OldStep, NewStep, FileState, Goal,
        Targets, Writes, Marked

\* NoState, NoGoal, NoJournal and NothingSeen are of the types of what they
\* initialise.
LEMMA EmptyValues ==
  /\ NoState \in [Entry -> FileState]
  /\ NoGoal \in [Entry -> Goal]
  /\ NoJournal \in [status : {"none", "prepared", "committed", "cleanup_pending"},
                    pre : [Entry -> FileState],
                    post : [Entry -> Goal]]
  /\ NothingSeen \in [final : FileState, backup : FileState, temp : FileState]
  BY DEF NoState, NoGoal, NoJournal, NothingSeen

\* A command that ends leaves its memory well typed.
LEMMA FinishTypes ==
  ASSUME Finish
  PROVE  /\ pc' = "idle" /\ todo' \subseteq Entry
         /\ before' \in [Entry -> FileState]
         /\ goal' \in [Entry -> Goal]
         /\ seen' \in [final : FileState, backup : FileState, temp : FileState]
         /\ aborting' \in BOOLEAN /\ failures' \in BOOLEAN
  BY EmptyValues DEF Finish

\* Every step preserves the types.
LEMMA TypeStep == ASSUME TypeOK, MemoryInv, [Next]_vars PROVE TypeOK'
<1> USE EmptyValues DEF TypeOK
<1>1. CASE Start \/ NothingPending
  BY <1>1 DEF Start, NothingPending
<1>2. CASE LoadJournal
  BY <1>2 DEF LoadJournal
<1>3. ASSUME NEW g \in [Entry -> Goal], Stage(g) PROVE TypeOK'
  BY <1>3 DEF Stage
<1>4. CASE Prepare
  BY <1>4 DEF Prepare
<1>5. CASE WriteJournal
  BY <1>5 DEF WriteJournal
<1>6. CASE TempsCreated
  BY <1>6 DEF TempsCreated
<1>7. CASE MarkCommitted
  BY <1>7 DEF MarkCommitted
<1>8. CASE CloseCommit
  BY <1>8, FinishTypes DEF CloseCommit
<1>9. CASE CloseRecovery
  BY <1>9 DEF CloseRecovery, Finish
<1>10. CASE GiveUp
  BY <1>10, FinishTypes DEF GiveUp
<1>11. ASSUME NEW i \in Entry, CreateTemp(i) PROVE TypeOK'
  BY <1>11 DEF CreateTemp, First, MemoryInv
<1>12. ASSUME NEW i \in Entry, MoveToBackup(i) PROVE TypeOK'
  BY <1>12 DEF MoveToBackup
<1>13. ASSUME NEW i \in Entry, Install(i) PROVE TypeOK'
  BY <1>13 DEF Install
<1>14. ASSUME NEW i \in Entry, CleanEntry(i) PROVE TypeOK'
  BY <1>14 DEF CleanEntry
<1>15. ASSUME NEW i \in Entry, HashEntry(i) PROVE TypeOK'
  BY <1>15 DEF HashEntry
<1>16. ASSUME NEW i \in Entry, RemoveInstalled(i) PROVE TypeOK'
  BY <1>16 DEF RemoveInstalled, AfterFinal
<1>17. ASSUME NEW i \in Entry, NothingToRemove(i) PROVE TypeOK'
  BY <1>17 DEF NothingToRemove, AfterFinal
<1>18. ASSUME NEW i \in Entry, RestoreBackup(i) PROVE TypeOK'
  BY <1>18 DEF RestoreBackup
<1>19. ASSUME NEW i \in Entry, RemoveBackup(i) PROVE TypeOK'
  BY <1>19 DEF RemoveBackup
<1>20. ASSUME NEW i \in Entry, SweepTemp(i) PROVE TypeOK'
  BY <1>20 DEF SweepTemp, NextEntry
<1>21. ASSUME NEW i \in Entry, RefuseEntry(i) PROVE TypeOK'
  BY <1>21 DEF RefuseEntry, NextEntry
<1>22. CASE CommitFails
  <2>1. Targets(goal) \subseteq Entry /\ faults' \in Nat
    BY <1>22 DEF CommitFails, Fault
  <2> QED
    BY <1>22, <2>1 DEF CommitFails
<1>23. CASE CloseFails
  BY <1>23, FinishTypes DEF CloseFails, Fault
<1>24. CASE Crash
  BY <1>24, FinishTypes DEF Crash, Fault
<1>25. ASSUME NEW i \in Entry, CleanFails(i) PROVE TypeOK'
  BY <1>25 DEF CleanFails, Fault
<1>26. ASSUME NEW i \in Entry, EntryFails(i) PROVE TypeOK'
  BY <1>26 DEF EntryFails, Fault, NextEntry
<1>27. ASSUME NEW i \in Entry, NEW c \in FileState, UserEdit(i, c) PROVE TypeOK'
  BY <1>27 DEF UserEdit
<1>28. CASE UNCHANGED vars
  BY <1>28 DEF vars
<1> QED
  BY <1>1, <1>2, <1>3, <1>4, <1>5, <1>6, <1>7, <1>8, <1>9, <1>10, <1>11, <1>12,
     <1>13, <1>14, <1>15, <1>16, <1>17, <1>18, <1>19, <1>20, <1>21, <1>22, <1>23,
     <1>24, <1>25, <1>26, <1>27, <1>28 DEF Next, Step, Failure

-----------------------------------------------------------------------------
\* Each phase keeps working on its own journal: only WriteJournal, MarkCommitted
\* and the steps that end a command or a recovery change it.
LEMMA MemoryStep == ASSUME TypeOK, MemoryInv, [Next]_vars PROVE MemoryInv'
<1> USE DEF TypeOK, MemoryInv, Remembers
<1>1. CASE Start \/ NothingPending
  BY <1>1 DEF Start, NothingPending
<1>2. CASE LoadJournal
  BY <1>2 DEF LoadJournal
<1>3. ASSUME NEW g \in [Entry -> Goal], Stage(g) PROVE MemoryInv'
  BY <1>3 DEF Stage
<1>4. CASE Prepare
  BY <1>4 DEF Prepare
<1>5. CASE WriteJournal
  BY <1>5 DEF WriteJournal
<1>6. CASE TempsCreated \/ MarkCommitted
  BY <1>6 DEF TempsCreated, MarkCommitted
<1>7. CASE CloseCommit \/ GiveUp \/ CloseFails \/ Crash
  BY <1>7 DEF CloseCommit, GiveUp, CloseFails, Crash, Finish, Fault
<1>8. CASE CloseRecovery
  BY <1>8 DEF CloseRecovery, Finish
<1>9. ASSUME NEW i \in Entry, CreateTemp(i) \/ MoveToBackup(i) \/ Install(i) PROVE MemoryInv'
  BY <1>9 DEF CreateTemp, MoveToBackup, Install
<1>10. ASSUME NEW i \in Entry, CleanEntry(i) \/ CleanFails(i) PROVE MemoryInv'
  BY <1>10 DEF CleanEntry, CleanFails, Fault
<1>11. ASSUME NEW i \in Entry,
              HashEntry(i) \/ RemoveInstalled(i) \/ NothingToRemove(i) PROVE MemoryInv'
  BY <1>11 DEF HashEntry, RemoveInstalled, NothingToRemove, AfterFinal
<1>12. ASSUME NEW i \in Entry, RestoreBackup(i) \/ RemoveBackup(i) PROVE MemoryInv'
  BY <1>12 DEF RestoreBackup, RemoveBackup
<1>13. ASSUME NEW i \in Entry, SweepTemp(i) \/ RefuseEntry(i) \/ EntryFails(i) PROVE MemoryInv'
  BY <1>13 DEF SweepTemp, RefuseEntry, EntryFails, Fault, NextEntry
<1>14. CASE CommitFails
  BY <1>14 DEF CommitFails, Fault
<1>15. ASSUME NEW i \in Entry, NEW c \in FileState, UserEdit(i, c) PROVE MemoryInv'
  BY <1>15 DEF UserEdit
<1>16. CASE UNCHANGED vars
  BY <1>16 DEF vars
<1> QED
  BY <1>1, <1>2, <1>3, <1>4, <1>5, <1>6, <1>7, <1>8, <1>9, <1>10, <1>11, <1>12,
     <1>13, <1>14, <1>15, <1>16 DEF Next, Step, Failure

-----------------------------------------------------------------------------
\* A journal whose entries have all been cleaned leaves no artifact behind:
\* what is not a target never had one.
LEMMA AllClean ==
  ASSUME TypeOK, ArtifactInv, Remembers, todo = {}, ~failures,
         \A i \in Entry : Done(i) => Clean(i)
  PROVE  backup = NoState /\ temp = NoState
<1>1. ASSUME NEW i \in Entry PROVE backup[i] = Absent /\ temp[i] = Absent
  BY <1>1 DEF TypeOK, ArtifactInv, Remembers, Done, Clean
<1> QED
  BY <1>1 DEF TypeOK, NoState

\* Artifacts are always accounted for by the journal: MoveToBackup moves what
\* was hashed, CreateTemp writes what was planned, and the journal goes only
\* when they are gone.
LEMMA ArtifactStep ==
  ASSUME TypeOK, MemoryInv, ArtifactInv, CommitInv, ReconcileInv, [Next]_vars
  PROVE  ArtifactInv'
<1> USE DEF TypeOK, ArtifactInv, NoOrphanArtifacts
<1>1. CASE Start \/ NothingPending
  BY <1>1 DEF Start, NothingPending
<1>2. CASE LoadJournal \/ Prepare \/ TempsCreated
  BY <1>2 DEF LoadJournal, Prepare, TempsCreated
<1>3. ASSUME NEW g \in [Entry -> Goal], Stage(g) PROVE ArtifactInv'
  BY <1>3 DEF Stage
<1>4. CASE WriteJournal
  BY <1>4 DEF WriteJournal, CommitInv, MemoryInv, NoState
<1>5. CASE MarkCommitted
  BY <1>5 DEF MarkCommitted, MemoryInv
<1>6. CASE CloseCommit
  <2>1. CASE failures
    BY <1>6, <2>1 DEF CloseCommit, MemoryInv
  <2>2. CASE ~failures
    BY <1>6, <2>2, AllClean DEF CloseCommit, MemoryInv, ReconcileInv, NoState, NoJournal, NoGoal
  <2> QED BY <2>1, <2>2
<1>7. CASE CloseRecovery
  <2>1. backup = NoState /\ temp = NoState
    BY <1>7, AllClean DEF CloseRecovery, MemoryInv, ReconcileInv
  <2> QED
    BY <1>7, <2>1 DEF CloseRecovery, NoState, NoJournal, NoGoal
<1>8. CASE GiveUp \/ CloseFails \/ Crash \/ CommitFails
  BY <1>8 DEF GiveUp, CloseFails, Crash, CommitFails, MemoryInv
<1>9. ASSUME NEW i \in Entry, CreateTemp(i) PROVE ArtifactInv'
  BY <1>9 DEF CreateTemp, MemoryInv, Remembers
<1>10. ASSUME NEW i \in Entry, MoveToBackup(i) PROVE ArtifactInv'
  BY <1>10 DEF MoveToBackup, MemoryInv, Remembers, CommitInv, Intact, First
<1>11. ASSUME NEW i \in Entry, Install(i) PROVE ArtifactInv'
  BY <1>11 DEF Install, MemoryInv
<1>12. ASSUME NEW i \in Entry, CleanEntry(i) PROVE ArtifactInv'
  BY <1>12 DEF CleanEntry, MemoryInv
<1>13. ASSUME NEW i \in Entry,
              HashEntry(i) \/ RemoveInstalled(i) \/ NothingToRemove(i) PROVE ArtifactInv'
  BY <1>13 DEF HashEntry, RemoveInstalled, NothingToRemove
<1>14. ASSUME NEW i \in Entry, RestoreBackup(i) \/ RemoveBackup(i) PROVE ArtifactInv'
  BY <1>14 DEF RestoreBackup, RemoveBackup, MemoryInv
<1>15. ASSUME NEW i \in Entry, SweepTemp(i) PROVE ArtifactInv'
  BY <1>15 DEF SweepTemp, MemoryInv
<1>16. ASSUME NEW i \in Entry, RefuseEntry(i) \/ EntryFails(i) \/ CleanFails(i)
       PROVE ArtifactInv'
  BY <1>16 DEF RefuseEntry, EntryFails, CleanFails
<1>17. ASSUME NEW i \in Entry, NEW c \in FileState, UserEdit(i, c) PROVE ArtifactInv'
  BY <1>17 DEF UserEdit
<1>18. CASE UNCHANGED vars
  BY <1>18 DEF vars
<1> QED
  BY <1>1, <1>2, <1>3, <1>4, <1>5, <1>6, <1>7, <1>8, <1>9, <1>10, <1>11, <1>12,
     <1>13, <1>14, <1>15, <1>16, <1>17, <1>18 DEF Next, Step, Failure

-----------------------------------------------------------------------------
\* The loops visit one entry at a time.
LEMMA OneAtATime ==
  ASSUME TypeOK, NEW i \in Entry, NEW j \in Entry
  PROVE  /\ First(i) /\ First(j) => i = j
         /\ Last(i) /\ Last(j) => i = j
         /\ Current(i) /\ Current(j) => i = j
<1>1. i \in Nat /\ j \in Nat
  BY DEF Entry
<1>2. First(i) /\ First(j) => i = j
  BY <1>1 DEF First
<1>3. Last(i) /\ Last(j) => i = j
  BY <1>1 DEF Last
<1> QED
  BY <1>2, <1>3 DEF Current

\* Outside a commit CommitInv says nothing.
LEMMA NotCommitting ==
  ASSUME pc' \notin {"journal", "temps", "swap", "install"} PROVE CommitInv'
  BY DEF CommitInv

\* A commit takes its entries, one at a time, from Intact through Moved to
\* Installed; nobody else changes the files meanwhile.
LEMMA CommitInvStep ==
  ASSUME TypeOK, MemoryInv, ArtifactInv, CommitInv, [Next]_vars PROVE CommitInv'
<1> USE DEF TypeOK
<1>1. CASE Prepare
  BY <1>1 DEF Prepare, CommitInv
<1>2. CASE WriteJournal
  <2>1. backup = NoState
    BY <1>2 DEF WriteJournal, MemoryInv, ArtifactInv, NoOrphanArtifacts
  <2> QED
    BY <1>2, <2>1 DEF WriteJournal, CommitInv, Intact, Ready, NoState
<1>3. ASSUME NEW i \in Entry, CreateTemp(i) PROVE CommitInv'
  BY <1>3 DEF CreateTemp, CommitInv, Intact, Ready
<1>4. CASE TempsCreated
  BY <1>4 DEF TempsCreated, CommitInv, Intact, Ready
<1>5. ASSUME NEW i \in Entry, MoveToBackup(i) PROVE CommitInv'
  <2>1. \A j \in Entry : First(j) => j = i
    BY <1>5, OneAtATime DEF MoveToBackup
  <2> QED
    BY <1>5, <2>1 DEF MoveToBackup, CommitInv, Intact, Ready, Moved, Installed, First
<1>6. ASSUME NEW i \in Entry, Install(i) PROVE CommitInv'
  <2>1. \A j \in Entry : First(j) => j = i
    BY <1>6, OneAtATime DEF Install
  <2>2. i \in Targets(goal) /\ i \in todo
    BY <1>6 DEF Install, First, MemoryInv
  <2>3. Installed(i)'
    BY <1>6, <2>2 DEF Install, CommitInv, Intact, Ready, Moved, Installed
  <2>4. ASSUME NEW j \in Targets(goal), j # i
        PROVE  IF j \notin todo THEN Installed(j)' ELSE Ready(j)' /\ Intact(j)'
    BY <1>6, <2>1, <2>4 DEF Install, CommitInv, Intact, Ready, Installed
  <2> QED
    BY <1>6, <2>2, <2>3, <2>4 DEF Install, CommitInv
<1>7. CASE Start \/ NothingPending \/ LoadJournal \/ MarkCommitted
  BY <1>7, NotCommitting DEF Start, NothingPending, LoadJournal, MarkCommitted
<1>8. ASSUME NEW g \in [Entry -> Goal], Stage(g) PROVE CommitInv'
  BY <1>8, NotCommitting DEF Stage
<1>9. CASE CloseCommit \/ GiveUp \/ CloseFails \/ Crash \/ CommitFails
  BY <1>9, NotCommitting DEF CloseCommit, GiveUp, CloseFails, Crash, CommitFails, Finish
<1>10. CASE CloseRecovery
  BY <1>10, NotCommitting DEF CloseRecovery, Finish
<1>11. ASSUME NEW i \in Entry, CleanEntry(i) \/ CleanFails(i) PROVE CommitInv'
  BY <1>11, NotCommitting DEF CleanEntry, CleanFails
<1>12. ASSUME NEW i \in Entry,
              HashEntry(i) \/ RemoveInstalled(i) \/ NothingToRemove(i) PROVE CommitInv'
  BY <1>12, NotCommitting DEF HashEntry, RemoveInstalled, NothingToRemove, AfterFinal
<1>13. ASSUME NEW i \in Entry, RestoreBackup(i) \/ RemoveBackup(i) PROVE CommitInv'
  BY <1>13, NotCommitting DEF RestoreBackup, RemoveBackup
<1>14. ASSUME NEW i \in Entry, SweepTemp(i) \/ RefuseEntry(i) \/ EntryFails(i)
       PROVE CommitInv'
  BY <1>14, NotCommitting DEF SweepTemp, RefuseEntry, EntryFails, NextEntry
<1>15. ASSUME NEW i \in Entry, NEW c \in FileState, UserEdit(i, c) PROVE CommitInv'
  BY <1>15, NotCommitting DEF UserEdit
<1>16. CASE UNCHANGED vars
  BY <1>16 DEF vars, CommitInv, Intact, Ready, Moved, Installed, First
<1> QED
  BY <1>1, <1>2, <1>3, <1>4, <1>5, <1>6, <1>7, <1>8, <1>9, <1>10, <1>11, <1>12,
     <1>13, <1>14, <1>15, <1>16 DEF Next, Step, Failure

-----------------------------------------------------------------------------
\* ReconcileInv is about a reconciliation and the cleanup of a commit.
LEMMA NotReconciling ==
  ASSUME pc' \notin OldStep \cup NewStep \cup {"clean"} PROVE ReconcileInv'
  BY DEF ReconcileInv

\* It holds when a loop over all targets begins.
LEMMA LoopBegins ==
  ASSUME pc' \in {"old", "new", "clean"}, todo' = Targets(goal)' PROVE ReconcileInv'
  BY DEF ReconcileInv, Done

\* A failure in the loop is all the invariant asks of it.
LEMMA LoopFails ==
  ASSUME pc' \in {"old", "new", "clean"}, failures' PROVE ReconcileInv'
  BY DEF ReconcileInv, Done

\* Every entry a loop is done with is clean, and one it is at is as it was
\* hashed: each disk step follows from the states seen just before.
LEMMA ReconcileInvStep ==
  ASSUME TypeOK, MemoryInv, ArtifactInv, CommitInv, ReconcileInv, [Next]_vars
  PROVE  ReconcileInv'
<1> USE DEF TypeOK
<1>1. CASE LoadJournal \/ MarkCommitted \/ CommitFails
  BY <1>1, LoopBegins DEF LoadJournal, MarkCommitted, CommitFails
<1>2. ASSUME NEW i \in Entry, CleanEntry(i) PROVE ReconcileInv'
  BY <1>2 DEF CleanEntry, ReconcileInv, Done, Clean
<1>3. ASSUME NEW i \in Entry, HashEntry(i) PROVE ReconcileInv'
  <2>1. Current(i) /\ Current(i)' /\ todo # {}
    BY <1>3 DEF HashEntry, Current, First, Last
  <2>2. \A j \in Entry : Current(j)' => j = i
    BY <1>3, OneAtATime DEF HashEntry, Current, First, Last
  <2> QED
    BY <1>3, <2>1, <2>2 DEF HashEntry, ReconcileInv, Done, Clean
<1>4. ASSUME NEW i \in Entry, RemoveInstalled(i) \/ NothingToRemove(i) PROVE ReconcileInv'
  <2>1. i \in todo /\ Last(i) /\ Current(i) /\ \A j \in Entry : Current(j)' => j = i
    BY <1>4, OneAtATime DEF RemoveInstalled, NothingToRemove, AfterFinal, Current, Last
  <2>2. seen = [final |-> final[i], backup |-> backup[i], temp |-> temp[i]]
    BY <1>4, <2>1 DEF RemoveInstalled, NothingToRemove, ReconcileInv
  <2>3. backup[i] \in {Absent, before[i]} /\ UNCHANGED <<backup, temp, todo, before, goal, seen, failures>>
    BY <1>4 DEF RemoveInstalled, NothingToRemove, MemoryInv, Remembers, ArtifactInv
  <2>4. \A j \in Entry : j # i => final'[j] = final[j]
    BY <1>4 DEF RemoveInstalled, NothingToRemove
  <2>5. pc' = "oldRestore" =>
            before[i] # Absent /\ backup[i] = before[i] /\ final'[i] \in {Absent, before[i]}
    BY <1>4, <2>2, <2>3 DEF RemoveInstalled, NothingToRemove, AfterFinal, Removes, Restores
  <2>6. pc' = "oldTemp" => backup[i] = Absent /\ (before[i] = Absent => final'[i] = Absent)
    BY <1>4, <2>2, <2>3
    DEF RemoveInstalled, NothingToRemove, AfterFinal, Removes, Restores, Unreached
  <2>7. \A j \in Entry : Done(j)' => Done(j) /\ j # i
    BY <2>1, <2>3 DEF Done
  <2>8. pc = "oldFinal" /\ pc' \in {"oldRestore", "oldTemp"}
    BY <1>4 DEF RemoveInstalled, NothingToRemove, AfterFinal
  <2> QED
    BY <2>1, <2>2, <2>3, <2>4, <2>5, <2>6, <2>7, <2>8 DEF ReconcileInv, Clean
<1>5. ASSUME NEW i \in Entry, RestoreBackup(i) PROVE ReconcileInv'
  <2>1. i \in todo /\ Current(i) /\ \A j \in Entry : Current(j)' => j = i
    BY <1>5, OneAtATime DEF RestoreBackup, Current, Last
  <2> QED
    BY <1>5, <2>1 DEF RestoreBackup, ReconcileInv, Done, Clean
<1>6. ASSUME NEW i \in Entry, RemoveBackup(i) PROVE ReconcileInv'
  <2>1. i \in todo /\ Current(i) /\ \A j \in Entry : Current(j)' => j = i
    BY <1>6, OneAtATime DEF RemoveBackup, Current, First
  <2>2. backup'[i] = Absent
    BY <1>6 DEF RemoveBackup, MemoryInv, Remembers, ArtifactInv
  <2> QED
    BY <1>6, <2>1, <2>2 DEF RemoveBackup, ReconcileInv, Done, Clean
<1>7. ASSUME NEW i \in Entry, SweepTemp(i) PROVE ReconcileInv'
  BY <1>7 DEF SweepTemp, NextEntry, ReconcileInv, Done, Clean
<1>8. ASSUME NEW i \in Entry, RefuseEntry(i) \/ EntryFails(i) \/ CleanFails(i)
      PROVE ReconcileInv'
  BY <1>8, LoopFails DEF RefuseEntry, EntryFails, CleanFails, NextEntry
<1>9. CASE Start \/ NothingPending \/ Prepare \/ WriteJournal \/ TempsCreated
  BY <1>9, NotReconciling DEF Start, NothingPending, Prepare, WriteJournal, TempsCreated
<1>10. ASSUME NEW g \in [Entry -> Goal], Stage(g) PROVE ReconcileInv'
  BY <1>10, NotReconciling DEF Stage
<1>11. ASSUME NEW i \in Entry, CreateTemp(i) \/ MoveToBackup(i) \/ Install(i)
       PROVE ReconcileInv'
  BY <1>11, NotReconciling DEF CreateTemp, MoveToBackup, Install
<1>12. CASE CloseCommit \/ GiveUp \/ CloseFails \/ Crash
  BY <1>12, NotReconciling DEF CloseCommit, GiveUp, CloseFails, Crash, Finish
<1>13. CASE CloseRecovery
  BY <1>13, NotReconciling DEF CloseRecovery, Finish
<1>14. ASSUME NEW i \in Entry, NEW c \in FileState, UserEdit(i, c) PROVE ReconcileInv'
  BY <1>14, NotReconciling DEF UserEdit
<1>15. CASE UNCHANGED vars
  BY <1>15 DEF vars, ReconcileInv, Done, Clean, Current, First, Last
<1> QED
  BY <1>1, <1>2, <1>3, <1>4, <1>5, <1>6, <1>7, <1>8, <1>9, <1>10, <1>11, <1>12,
     <1>13, <1>14, <1>15 DEF Next, Step, Failure

-----------------------------------------------------------------------------
\* The initial state satisfies the invariant.
LEMMA InitEstablishes == Init => TxInv
<1> SUFFICES ASSUME Init PROVE TxInv
  OBVIOUS
<1>1. TypeOK
  BY EmptyValues DEF Init, TypeOK
<1>2. MemoryInv /\ CommitInv /\ ReconcileInv
  BY DEF Init, MemoryInv, CommitInv, ReconcileInv
<1>3. ArtifactInv
  BY DEF Init, ArtifactInv, NoOrphanArtifacts, NoState, NoJournal, NoGoal
<1> QED
  BY <1>1, <1>2, <1>3 DEF TxInv

\* TxInv holds in every reachable state, whatever the number of files and
\* contents, of faults and of user edits.
THEOREM TxInvariant == Spec => []TxInv
<1>1. ASSUME TxInv, [Next]_vars PROVE TxInv'
  BY <1>1, TypeStep, MemoryStep, ArtifactStep, CommitInvStep, ReconcileInvStep DEF TxInv
<1> QED
  BY InitEstablishes, <1>1, PTL DEF Spec

\* The variables keep their types.
THEOREM TypeCorrect == Spec => []TypeOK
<1>1. TxInv => TypeOK
  BY DEF TxInv
<1> QED
  BY TxInvariant, <1>1, PTL

\* No backup or temp outlives the journal that lists it, whatever fails.
THEOREM ArtifactsAreListed == Spec => []NoOrphanArtifacts
<1>1. TxInv => NoOrphanArtifacts
  BY DEF TxInv, ArtifactInv
<1> QED
  BY TxInvariant, <1>1, PTL

-----------------------------------------------------------------------------
\* One step of OldContentKept, for an entry whose old content is held.
StillHeld(i) == journal.pre[i] \in {Absent, final'[i], backup'[i]}

\* The steps that touch a target or its backup while the journal is prepared
\* leave the old content in the other of the two.
LEMMA OldContentStep ==
  ASSUME TxInv, Next, journal.status = "prepared", edits' = edits,
         NEW k \in Entry, OldContentHeld(k)
  PROVE  StillHeld(k)
<1> USE DEF TxInv, TypeOK, StillHeld, OldContentHeld
<1>1. CASE UNCHANGED <<final, backup>>
  BY <1>1
<1>2. ASSUME NEW i \in Entry, MoveToBackup(i) PROVE StillHeld(k)
  <2>1. backup[i] = Absent
    BY <1>2 DEF MoveToBackup, MemoryInv, CommitInv, Intact, First
  <2> QED
    BY <1>2, <2>1 DEF MoveToBackup
<1>3. ASSUME NEW i \in Entry, Install(i) PROVE StillHeld(k)
  <2>1. journal.pre[i] \in {Absent, backup[i]}
    BY <1>3 DEF Install, MemoryInv, Remembers, CommitInv, Moved, First
  <2> QED
    BY <1>3, <2>1 DEF Install
<1>4. ASSUME NEW i \in Entry, RemoveInstalled(i) PROVE StillHeld(k)
  <2>1. journal.pre[i] \in {Absent, backup[i]}
    BY <1>4 DEF RemoveInstalled, Removes, MemoryInv, Remembers, ReconcileInv, Current
  <2> QED
    BY <1>4, <2>1 DEF RemoveInstalled
<1>5. ASSUME NEW i \in Entry, RestoreBackup(i) PROVE StillHeld(k)
  <2>1. journal.pre[i] = backup[i]
    BY <1>5 DEF RestoreBackup, MemoryInv, Remembers, ReconcileInv, Current
  <2> QED
    BY <1>5, <2>1 DEF RestoreBackup
<1>6. ASSUME NEW i \in Entry, CleanEntry(i) \/ RemoveBackup(i) PROVE FALSE
  BY <1>6 DEF CleanEntry, RemoveBackup, MemoryInv
<1>7. ASSUME NEW i \in Entry, NEW c \in FileState, UserEdit(i, c) PROVE FALSE
  BY <1>7 DEF UserEdit
<1>8. CASE Start \/ NothingPending \/ LoadJournal \/ Prepare \/ WriteJournal \/ TempsCreated
  BY <1>8, <1>1
  DEF Start, NothingPending, LoadJournal, Prepare, WriteJournal, TempsCreated
<1>9. ASSUME NEW g \in [Entry -> Goal], Stage(g) PROVE StillHeld(k)
  BY <1>9, <1>1 DEF Stage
<1>10. CASE MarkCommitted \/ CloseCommit \/ CloseRecovery \/ GiveUp
            \/ CommitFails \/ CloseFails \/ Crash
  BY <1>10, <1>1
  DEF MarkCommitted, CloseCommit, CloseRecovery, GiveUp, CommitFails, CloseFails, Crash
<1>11. ASSUME NEW i \in Entry,
              \/ CreateTemp(i) \/ HashEntry(i) \/ NothingToRemove(i) \/ SweepTemp(i)
              \/ RefuseEntry(i) \/ CleanFails(i) \/ EntryFails(i)
       PROVE  StillHeld(k)
  BY <1>11, <1>1
  DEF CreateTemp, HashEntry, NothingToRemove, SweepTemp, RefuseEntry, CleanFails, EntryFails
<1> QED
  BY <1>2, <1>3, <1>4, <1>5, <1>6, <1>7, <1>8, <1>9, <1>10, <1>11 DEF Next, Step, Failure

\* Before the commit marker no step of a command, its rollback or a recovery
\* destroys the last copy of a file's old content.
THEOREM OldContentSurvives == Spec => OldContentKept
<1> DEFINE Kept == journal.status = "prepared" /\ edits' = edits =>
            \A i \in Entry :
              OldContentHeld(i) => journal.pre[i] \in {Absent, final'[i], backup'[i]}
<1>1. ASSUME TxInv, [Next]_vars PROVE [Kept]_vars
  BY <1>1, OldContentStep DEF StillHeld
<1> QED
  BY TxInvariant, <1>1, PTL DEF Spec, OldContentKept

-----------------------------------------------------------------------------
\* What a user reads depends on the file, its backup and the journal only.
LEMMA SameVisible ==
  ASSUME UNCHANGED journal,
         \A i \in Entry : Visible'[i] = Visible[i] \/ (final'[i] = final[i] /\ backup'[i] = backup[i])
  PROVE  Visible' = Visible
  BY DEF Visible

\* One entry of the refinement mapping.
LEMMA VisibleAt ==
  ASSUME NEW i \in Entry
  PROVE  Visible[i] =
            IF journal.status # "prepared" \/ journal.post[i] = Keep THEN final[i]
            ELSE IF journal.pre[i] = Absent
                 THEN IF final[i] = journal.post[i] THEN Absent ELSE final[i]
                 ELSE IF /\ backup[i] = journal.pre[i]
                         /\ final[i] \in {Absent, journal.pre[i], journal.post[i]}
                      THEN journal.pre[i]
                      ELSE final[i]
  BY DEF Visible

LEMMA VisibleType == ASSUME TypeOK PROVE Visible \in [Entry -> FileState]
  BY DEF TypeOK, Visible

\* The renames of a commit change nothing a user can see: what left a target
\* is in its backup, and what reached it is not committed yet.
LEMMA CommitIsInvisible ==
  ASSUME TxInv, NEW i \in Entry, MoveToBackup(i) \/ Install(i)
  PROVE  Visible' = Visible
<1> USE DEF TxInv, TypeOK
<1>1. /\ UNCHANGED journal
      /\ \A j \in Entry : j # i => final'[j] = final[j] /\ backup'[j] = backup[j]
  BY DEF MoveToBackup, Install
<1>2. journal.status = "prepared" /\ Remembers /\ journal.post[i] # Keep
  BY DEF MoveToBackup, Install, First, MemoryInv, Remembers
<1>3. Visible[i] = before[i]
  BY <1>2, VisibleAt
  DEF MoveToBackup, Install, Remembers, CommitInv, Intact, Moved, First
<1>4. CASE MoveToBackup(i)
  <2>1. final'[i] = Absent /\ backup'[i] = before[i] /\ before[i] # Absent
    BY <1>2, <1>4 DEF MoveToBackup, Remembers, CommitInv, Intact, First
  <2> QED
    BY <1>1, <1>2, <1>3, <2>1, SameVisible DEF Visible, Remembers
<1>5. CASE Install(i)
  <2>1. final'[i] = goal[i] /\ backup'[i] = before[i]
    BY <1>2, <1>5 DEF Install, Remembers, CommitInv, Intact, Moved, Ready, First
  <2> QED
    BY <1>1, <1>2, <1>3, <2>1, SameVisible DEF Visible, Remembers
<1> QED
  BY <1>4, <1>5

\* Nor do the steps that undo them, which go back to what was seen.
LEMMA RollbackIsInvisible ==
  ASSUME TxInv, NEW i \in Entry, RemoveInstalled(i) \/ RestoreBackup(i)
  PROVE  Visible' = Visible
<1> USE DEF TxInv, TypeOK
<1>1. /\ UNCHANGED journal
      /\ \A j \in Entry : j # i => final'[j] = final[j] /\ backup'[j] = backup[j]
  BY DEF RemoveInstalled, RestoreBackup
<1>2. journal.status = "prepared" /\ Remembers /\ journal.post[i] # Keep
  BY DEF RemoveInstalled, RestoreBackup, Last, MemoryInv, Remembers
<1>3. CASE RemoveInstalled(i)
  <2>1. final[i] = goal[i] /\ (before[i] = Absent \/ backup[i] = before[i])
    BY <1>3 DEF RemoveInstalled, Removes, ReconcileInv, Current
  <2>2. final'[i] = Absent /\ backup'[i] = backup[i]
    BY <1>3 DEF RemoveInstalled
  <2> QED
    BY <1>1, <1>2, <2>1, <2>2, SameVisible DEF Visible, Remembers
<1>4. CASE RestoreBackup(i)
  <2>1. before[i] # Absent /\ backup[i] = before[i] /\ final[i] \in {Absent, before[i]}
    BY <1>4 DEF RestoreBackup, ReconcileInv, Current
  <2>2. final'[i] = before[i] /\ backup'[i] = Absent
    BY <1>4, <2>1 DEF RestoreBackup
  <2> QED
    BY <1>1, <1>2, <2>1, <2>2, SameVisible DEF Visible, Remembers
<1> QED
  BY <1>3, <1>4

\* A prepared journal promises to change what is there.
LEMMA PreparingIsInvisible ==
  ASSUME TxInv, WriteJournal PROVE Visible' = Visible
<1> USE DEF TxInv, TypeOK
<1>1. ASSUME NEW i \in Entry PROVE Visible'[i] = Visible[i]
  <2>1. journal.status = "none" /\ backup[i] = Absent
    BY DEF WriteJournal, MemoryInv, ArtifactInv, NoOrphanArtifacts, NoState
  <2>2. Visible[i] = final[i]
    BY <2>1, VisibleAt
  <2>3. goal[i] # Keep => before[i] = final[i]
    BY DEF WriteJournal, CommitInv
  <2> QED
    BY <2>1, <2>2, <2>3 DEF WriteJournal, Visible
<1> QED
  BY <1>1 DEF Visible

\* When a journal goes, every target is what a user saw.
LEMMA ClosingIsInvisible ==
  ASSUME TxInv, CloseCommit \/ CloseFails \/ CloseRecovery PROVE Visible' = Visible
<1> USE DEF TxInv, TypeOK
<1>1. UNCHANGED final /\ journal'.status # "prepared"
  BY DEF CloseCommit, CloseFails, CloseRecovery, NoJournal, MemoryInv
<1>2. ASSUME NEW i \in Entry PROVE Visible[i] = final[i]
  <2>1. CASE journal.status # "prepared"
    BY <2>1, VisibleAt
  <2>2. CASE journal.status = "prepared"
    <3>1. pc = "old" /\ todo = {} /\ ~failures /\ Remembers
      BY <2>2 DEF CloseCommit, CloseFails, CloseRecovery, MemoryInv
    <3>2. goal[i] # Keep => backup[i] = Absent /\ (before[i] = Absent => final[i] = Absent)
      BY <3>1 DEF ReconcileInv, Done, Clean
    <3> QED
      BY <2>2, <3>1, <3>2, VisibleAt DEF Remembers
  <2> QED
    BY <2>1, <2>2
<1> QED
  BY <1>1, <1>2 DEF Visible

\* The marker makes the whole plan visible at once.
LEMMA MarkerApplies ==
  ASSUME TxInv, MarkCommitted
  PROVE  Visible' = [i \in Entry |->
                        IF journal.post[i] = Keep THEN Visible[i] ELSE journal.post[i]]
<1> USE DEF TxInv, TypeOK
<1>1. ASSUME NEW i \in Entry
      PROVE  Visible'[i] = IF journal.post[i] = Keep THEN Visible[i] ELSE journal.post[i]
  <2>1. goal[i] # Keep => final[i] = goal[i]
    BY DEF MarkCommitted, CommitInv, Installed
  <2> QED
    BY <2>1, VisibleAt DEF MarkCommitted, Visible, MemoryInv, Remembers
<1> QED
  BY <1>1 DEF Visible

\* Every step is a proposal, the application of one, a user's edit or nothing.
LEMMA StepRefines == ASSUME TxInv, TxInv', Next PROVE [Atomic!Next]_<<Visible, journal.post, edits>>
<1> DEFINE Stutter == UNCHANGED <<Visible, journal.post, edits>>
<1> USE DEF TxInv
<1>1. CASE UNCHANGED <<final, backup, journal, edits>>
  BY <1>1, SameVisible
<1>2. CASE WriteJournal
  <2>1. journal'.post \in [Entry -> FileState \cup {Keep}] /\ UNCHANGED edits
    BY <1>2 DEF WriteJournal, TypeOK
  <2> QED
    BY <1>2, <2>1, PreparingIsInvisible DEF Atomic!Next, Atomic!Propose
<1>3. CASE CloseCommit \/ CloseFails \/ CloseRecovery
  <2>1. journal'.post \in [Entry -> FileState \cup {Keep}] /\ UNCHANGED edits
    BY <1>3 DEF CloseCommit, CloseFails, CloseRecovery, TypeOK
  <2> QED
    BY <1>3, <2>1, ClosingIsInvisible DEF Atomic!Next, Atomic!Propose
<1>4. CASE MarkCommitted
  BY <1>4, MarkerApplies DEF MarkCommitted, Atomic!Next, Atomic!Apply
<1>5. ASSUME NEW i \in Entry, MoveToBackup(i) \/ Install(i) PROVE Stutter
  BY <1>5, CommitIsInvisible DEF MoveToBackup, Install
<1>6. ASSUME NEW i \in Entry, RemoveInstalled(i) \/ RestoreBackup(i) PROVE Stutter
  BY <1>6, RollbackIsInvisible DEF RemoveInstalled, RestoreBackup
<1>7. ASSUME NEW i \in Entry, CleanEntry(i) \/ RemoveBackup(i) PROVE Stutter
  <2>1. journal.status # "prepared" /\ UNCHANGED <<final, journal, edits>>
    BY <1>7 DEF CleanEntry, RemoveBackup, MemoryInv
  <2> QED
    BY <2>1 DEF Visible
<1>8. ASSUME NEW i \in Entry, NEW c \in FileState, UserEdit(i, c) PROVE Atomic!Next
  <2>1. Visible' \in [Entry -> FileState] /\ Visible \in [Entry -> FileState]
    BY DEF TypeOK, Visible
  <2>2. \A j \in Entry : j # i => Visible'[j] = Visible[j]
    BY <1>8 DEF UserEdit, TypeOK, Visible
  <2>3. Visible' = [Visible EXCEPT ![i] = Visible'[i]] /\ Visible'[i] \in FileState
    BY <2>1, <2>2
  <2>4. edits' = edits + 1 /\ UNCHANGED journal.post
    BY <1>8 DEF UserEdit
  <2> QED
    BY <2>3, <2>4 DEF Atomic!Next, Atomic!Edit
<1>9. CASE Start \/ NothingPending \/ LoadJournal \/ Prepare \/ TempsCreated
  BY <1>9, <1>1 DEF Start, NothingPending, LoadJournal, Prepare, TempsCreated
<1>10. ASSUME NEW g \in [Entry -> Goal], Stage(g) PROVE Stutter
  BY <1>10, SameVisible DEF Stage
<1>11. CASE GiveUp \/ CommitFails \/ Crash
  BY <1>11, <1>1 DEF GiveUp, CommitFails, Crash
<1>12. ASSUME NEW i \in Entry,
              \/ CreateTemp(i) \/ HashEntry(i) \/ NothingToRemove(i) \/ SweepTemp(i)
              \/ RefuseEntry(i) \/ CleanFails(i) \/ EntryFails(i)
       PROVE  Stutter
  BY <1>12, SameVisible
  DEF CreateTemp, HashEntry, NothingToRemove, SweepTemp, RefuseEntry, CleanFails, EntryFails
<1> QED
  BY <1>2, <1>3, <1>4, <1>5, <1>6, <1>7, <1>8, <1>9, <1>10, <1>11, <1>12 DEF Next, Step, Failure

\* A transaction of any number of files is atomic: recovery and rollback make
\* journal, backups and renames look like one step, and keep users' edits.
THEOREM TransactionIsAtomic == Spec => ImplementsAtomicFiles
<1>1. Init => Atomic!Init
  BY VisibleType, InitEstablishes
  DEF Init, Atomic!Init, TxInv, NoJournal, NoGoal
<1>2. ASSUME TxInv, TxInv', [Next]_vars PROVE [Atomic!Next]_<<Visible, journal.post, edits>>
  <2>1. CASE UNCHANGED vars
    BY <2>1, SameVisible DEF vars
  <2> QED
    BY <1>2, <2>1, StepRefines
<1> QED
  BY <1>1, <1>2, TxInvariant, PTL DEF Spec, ImplementsAtomicFiles, Atomic!Spec
-----------------------------------------------------------------------------
(* The commands on top of the transaction.                                  *)

Records == [File -> Generated \cup {Nothing}]

\* The plan stages generated texts and a manifest.
PlanOK ==
    /\ plan.gen \in Records /\ plan.manifest \in Records
    /\ \A f \in File : plan.action[f] \in Written => plan.gen[f] \in Generated

\* A transaction is the plan of the command that runs.
RunsPlan ==
    /\ pc # "idle" => outcome = "running"
    /\ aborting => pc \in OldStep
    /\ runs \in Nat
    /\ pc \in {"prepare", "journal", "clean"} \cup CommitStep => goal = PlannedGoal

\* Only manifests are ever in the manifest's place, only texts in that of a file.
StatesAt(i) == (IF i = Manifest THEN Records ELSE Text) \cup {Absent}

PlacesOK == \A i \in Entry :
    /\ {final[i], before[i], journal.pre[i]} \subseteq StatesAt(i)
    /\ {goal[i], journal.post[i]} \subseteq StatesAt(i) \cup {Keep}

\* A transaction that creates a dynamic file found none.
DynamicInv ==
    /\ pc = "journal" => \A f \in Dynamic : goal[f] \in Content => before[f] = Absent
    /\ \A f \in Dynamic : journal.post[f] \in Content => journal.pre[f] = Absent

CommandInv == TxInv /\ PlanOK /\ RunsPlan /\ PlacesOK /\ DynamicInv

\* What the options allow for a user's text, given the manifest it is found with.
Justified(f, manifest) ==
    IF manifest # Absent /\ manifest[f] # Nothing
    THEN AcceptsModified ELSE "force" \in plan.flags

Consented(pre, post) ==
    \A f \in File : pre[f] \in UserText /\ post[f] # Keep => Justified(f, pre[Manifest])

Planned == {"idle", "recover", "stage", "prepare"} \cup OldStep \cup NewStep

\* A transaction that replaces a user's text has consent for it, and one that is
\* torn replaces none: then recovery puts no user's text back behind a plan.
ConsentInv ==
    /\ pc = "journal" => Consented(before, goal)
    /\ pc \in CommitStep => Consented(journal.pre, journal.post)
    /\ journal.status = "prepared" /\ pc \notin CommitStep =>
        \A f \in File : journal.post[f] # Keep => journal.pre[f] \notin UserText
    /\ outcome = "running" /\ pc \in Planned /\ ~ aborting =>
        /\ plan.flags # {} => journal.status # "prepared"
        /\ Consented(final, PlannedGoal)

\* What a file will be when the plan has been applied.
After(f) == IF PlannedGoal[f] = Keep THEN final[f] ELSE PlannedGoal[f]

\* Without faults nothing is pending between commands, and the plan of the
\* running one is true of what its transaction makes of the files.
CalmInv == faults = 0 =>
    /\ ~ failures /\ pc \notin OldStep \cup NewStep
    /\ pc \in {"idle", "recover"} => journal.status = "none"
    /\ pc = "clean" => \A i \in Entry : goal[i] # Keep => final[i] = goal[i]
    /\ outcome = "running" => \A f \in File :
        plan.action[f] \in Refreshed => plan.manifest[f] = After(f)
    /\ ManifestTellsTruth

\* Without edits either, a tracked file is what the manifest records.
PristineInv == faults = 0 /\ edits = 0 =>
    /\ pc \in {"idle", "recover", "stage", "prepare", "journal"} =>
        \A f \in File : Recorded(f) \in {Nothing, final[f]}
    /\ outcome = "running" => \A f \in File : plan.manifest[f] \in {Nothing, After(f)}
    /\ outcome # "refused"

-----------------------------------------------------------------------------
(* What is planned.                                                         *)

LEMMA ManifestAndFiles == Manifest \in Entry /\ File = Entry \ {Manifest}
  BY ManifestIsTarget DEF Manifest, File, Entry

\* Texts and manifests are contents, and neither stands for a missing file.
LEMMA ContentsDiffer ==
  /\ Generated \subseteq Content /\ Records \subseteq Content
  /\ Absent \notin Text /\ Nothing \notin Text \cup UserText
  /\ Generated \cap UserText = {}
  BY TextsDiffer, TextsAndManifestsAreContent DEF Text, Records

\* decideAction, one arm at a time.
LEMMA DecideCases ==
  ASSUME NEW f \in File, NEW mode, NEW flags, NEW want,
         NEW a, a = DecideAction(f, mode, flags, want)
  PROVE  /\ final[f] = Absent => a = "write"
         /\ final[f] # Absent /\ Recorded(f) = Nothing /\ final[f] # Nothing =>
                a = IF "force" \notin flags THEN "skip"
                    ELSE IF final[f] = want THEN "adopt" ELSE "replace_unmanaged"
         /\ final[f] # Absent /\ Recorded(f) # Nothing /\ Recorded(f) = final[f] =>
                a = IF final[f] = want THEN "skip" ELSE "update"
         /\ final[f] # Absent /\ Recorded(f) # Nothing /\ Recorded(f) # final[f] =>
                a = IF final[f] = want
                    THEN IF mode = "install" THEN "skip" ELSE "update_manifest"
                    ELSE IF mode = "upgrade" /\ "acceptModified" \in flags
                         THEN "update" ELSE "refuse"
<1>1. ASSUME final[f] = Absent PROVE a = "write"
  BY <1>1, Zenon DEF DecideAction
<1>2. ASSUME final[f] # Absent, Recorded(f) = Nothing, final[f] # Nothing
      PROVE  a = IF "force" \notin flags THEN "skip"
                 ELSE IF final[f] = want THEN "adopt" ELSE "replace_unmanaged"
  BY <1>2, Zenon DEF DecideAction
<1>3. ASSUME final[f] # Absent, Recorded(f) # Nothing, Recorded(f) = final[f]
      PROVE  a = IF final[f] = want THEN "skip" ELSE "update"
  BY <1>3, Zenon DEF DecideAction
<1>4. ASSUME final[f] # Absent, Recorded(f) # Nothing, Recorded(f) # final[f]
      PROVE  a = IF final[f] = want
                 THEN IF mode = "install" THEN "skip" ELSE "update_manifest"
                 ELSE IF mode = "upgrade" /\ "acceptModified" \in flags
                      THEN "update" ELSE "refuse"
  BY <1>4, Zenon DEF DecideAction
<1> QED
  BY <1>1, <1>2, <1>3, <1>4

LEMMA RecordCases ==
  ASSUME NEW f \in File, NEW a, NEW want
  PROVE  /\ a \in Refreshed => NewRecord(f, a, want) = want
         /\ a \in {"skip", "warn"} => NewRecord(f, a, want) = Recorded(f)
         /\ a \notin Refreshed \cup {"skip", "warn"} => NewRecord(f, a, want) = Nothing
<1>1. "skip" \notin Refreshed /\ "warn" \notin Refreshed
  BY DEF Refreshed, Written
<1>2. ASSUME a \in Refreshed, a \notin {"skip", "warn"} PROVE NewRecord(f, a, want) = want
  BY <1>2, Zenon DEF NewRecord
<1>3. ASSUME a \notin Refreshed, a \in {"skip", "warn"} PROVE NewRecord(f, a, want) = Recorded(f)
  BY <1>3, Zenon DEF NewRecord
<1>4. ASSUME a \notin Refreshed, a \notin {"skip", "warn"} PROVE NewRecord(f, a, want) = Nothing
  BY <1>4, Zenon DEF NewRecord
<1> QED
  BY <1>1, <1>2, <1>3, <1>4

\* A manifest records generated texts only, so never one a user wrote.
LEMMA RecordedType ==
  ASSUME PlacesOK, NEW f \in File PROVE Recorded(f) \in Generated \cup {Nothing}
  BY ManifestAndFiles DEF PlacesOK, StatesAt, Records, Recorded

\* What the planner decides for one file.
LEMMA PlannerFacts ==
  ASSUME PlacesOK, NEW f \in File,
         NEW mode, NEW flags, NEW want \in Generated \cup {Nothing},
         NEW a, a = PlannedAction(f, mode, flags, want)
  PROVE  /\ a \in Written => want \in Generated
         /\ a \in {"adopt", "update_manifest"} => final[f] = want
         /\ a \in Written \cup {"prune"} /\ final[f] \in UserText =>
                IF Recorded(f) # Nothing THEN mode = "upgrade" /\ "acceptModified" \in flags
                ELSE "force" \in flags
         /\ Recorded(f) \in {Nothing, final[f]} =>
                /\ a # "refuse"
                /\ a \in {"skip", "warn"} => Recorded(f) \in {Nothing, final[f]}
<1> USE DEF Written
<1>1. Recorded(f) \in Generated \cup {Nothing}
  BY RecordedType
<1>0. final[f] \in Text \cup {Absent} /\ (final[f] # Absent => final[f] # Nothing)
  BY ManifestAndFiles, ContentsDiffer DEF PlacesOK, StatesAt
<1>2. CASE want = Nothing
  <2>1. a = OrphanAction(f, mode)
    BY <1>2 DEF PlannedAction
  <2> QED
    BY <1>1, <2>1, ContentsDiffer DEF OrphanAction
<1>3. CASE want # Nothing /\ f \in Dynamic
  <2>1. a = DynamicAction(f, want)
    BY <1>3 DEF PlannedAction
  <2> QED
    BY <1>3, <2>1, ContentsDiffer DEF DynamicAction, Text
<1>4. CASE want # Nothing /\ f \notin Dynamic
  <2>1. a = DecideAction(f, mode, flags, want)
    BY <1>4 DEF PlannedAction
  <2>2. CASE final[f] = Absent
    BY <1>4, <2>1, <2>2, DecideCases, ContentsDiffer DEF Text
  <2>3. CASE final[f] # Absent /\ Recorded(f) = Nothing
    BY <1>0, <1>4, <2>1, <2>3, DecideCases
  <2>4. CASE final[f] # Absent /\ Recorded(f) # Nothing /\ Recorded(f) = final[f]
    BY <1>1, <1>4, <2>1, <2>4, DecideCases, ContentsDiffer
  <2>5. CASE final[f] # Absent /\ Recorded(f) # Nothing /\ Recorded(f) # final[f]
    BY <1>4, <2>1, <2>5, DecideCases
  <2> QED
    BY <2>2, <2>3, <2>4, <2>5
<1> QED
  BY <1>2, <1>3, <1>4

\* What a plan stages for a file and for the manifest.
LEMMA PlannedGoalFacts ==
  ASSUME PlanOK
  PROVE  /\ PlannedGoal \in [Entry -> Goal]
         /\ PlannedGoal[Manifest] = plan.manifest /\ plan.manifest \in Content
         /\ \A f \in File : PlannedGoal[f] =
                IF plan.action[f] \in Written THEN plan.gen[f]
                ELSE IF plan.action[f] = "prune" THEN Absent ELSE Keep
<1>1. plan.manifest \in Content
  BY ContentsDiffer DEF PlanOK
<1>2. \A f \in File : plan.action[f] \in Written => plan.gen[f] \in Content
  BY ContentsDiffer DEF PlanOK
<1>3. \A f \in File : f \in Entry /\ f # Manifest
  BY ManifestAndFiles
<1>4. \A i \in Entry : i = Manifest \/ i \in File
  BY ManifestAndFiles
<1>5. \A f \in File : PlannedGoal[f] =
        IF plan.action[f] \in Written THEN plan.gen[f]
        ELSE IF plan.action[f] = "prune" THEN Absent ELSE Keep
  BY <1>3 DEF PlannedGoal
<1>6. PlannedGoal[Manifest] = plan.manifest
  BY ManifestAndFiles DEF PlannedGoal
<1>7. \A i \in Entry : PlannedGoal[i] \in Goal
  BY <1>1, <1>2, <1>4, <1>5, <1>6
<1>8. PlannedGoal = [i \in Entry |-> PlannedGoal[i]]
  BY DEF PlannedGoal
<1> QED
  BY <1>1, <1>5, <1>6, <1>7, <1>8

-----------------------------------------------------------------------------
(* What a step of the transaction may do.                                   *)

\* Only a commit and a rollback change a target, each to what it is to become.
FilesMove == \A i \in Entry :
    \/ final'[i] = final[i]
    \/ pc \in CommitStep /\ i \in todo /\ final'[i] \in {Absent, goal[i]} /\ pc' \in CommitStep
    \/ pc \in OldStep /\ i \in todo /\ final'[i] \in {Absent, journal.pre[i]}
       /\ pc' \in OldStep

JournalMoves ==
    \/ journal' = journal /\ (pc = "journal" => pc' = "idle")
        /\ ~ (pc = "swap" /\ pc' = "clean")
    \/ journal' = NoJournal /\ pc \in {"old", "new", "clean"}
    \/ /\ journal' = [status |-> "prepared", pre |-> before, post |-> goal]
       /\ pc = "journal" /\ pc' = "temps"
    \/ journal' = Marked("committed") /\ pc = "swap" /\ pc' = "clean"
    \/ journal' = Marked("cleanup_pending") /\ pc = "clean" /\ pc' = "idle"

MemoryMoves ==
    \/ goal' = goal /\ before' = before
    \/ goal' = NoGoal /\ before' = NoState
    \/ goal' = journal.post /\ before' = journal.pre /\ pc = "recover" /\ pc' \in {"old", "new"}

ControlMoves ==
    /\ pc # "idle"
    /\ pc' \notin {"journal", "prepare"}
    /\ pc' \in CommitStep => pc \in CommitStep \cup {"journal"} /\ UNCHANGED <<goal, before>>
    /\ pc' = "clean" => pc \in {"clean", "swap"} /\ UNCHANGED <<goal, before, final>>
    /\ pc' = "clean" /\ pc = "swap" => todo = {}
    /\ pc' \in {"recover", "stage"} => pc \in {"recover", "old", "new"} /\ UNCHANGED aborting
    /\ pc' \in OldStep => pc \in OldStep \cup {"recover"} \/ aborting'
    /\ pc' \in NewStep => pc \in NewStep \cup {"recover"}
    /\ aborting' => pc' \in OldStep
    /\ pc' \in OldStep /\ ~ aborting' => ~ aborting

\* Without a fault a commit runs to its end.
CalmMoves == faults' = faults =>
    /\ pc' \in OldStep \cup NewStep =>
        pc \in OldStep \cup NewStep \/ (pc = "recover" /\ journal.status # "none")
    /\ failures' => failures \/ pc \in OldStep \cup NewStep
    /\ pc' = "idle" => pc \in {"old", "new", "clean"} /\ UNCHANGED final
    /\ pc' = "idle" /\ pc = "clean" => failures \/ journal' = NoJournal
    /\ pc' = "recover" => pc \in {"old", "new"}
    /\ pc \in CommitStep => pc' \in CommitStep \cup {"clean"}

TransactionMoves ==
    /\ FilesMove /\ JournalMoves /\ MemoryMoves /\ ControlMoves /\ CalmMoves
    /\ UNCHANGED edits /\ faults' \in {faults, faults + 1}

LEMMA TransactionFacts ==
  ASSUME TxInv, aborting => pc \in OldStep, (Step /\ pc # "prepare") \/ Failure
  PROVE  TransactionMoves
<1> USE DEF TxInv, TypeOK, TransactionMoves, FilesMove, JournalMoves, MemoryMoves,
            ControlMoves, CalmMoves
<1>1. CASE NothingPending
  BY <1>1 DEF NothingPending
<1>2. CASE LoadJournal
  BY <1>2 DEF LoadJournal
<1>3. CASE WriteJournal
  BY <1>3 DEF WriteJournal
<1>4. CASE TempsCreated
  BY <1>4 DEF TempsCreated
<1>5. CASE MarkCommitted
  BY <1>5 DEF MarkCommitted
<1>6. CASE CloseCommit
  BY <1>6 DEF CloseCommit, Finish
<1>7. CASE CloseRecovery
  BY <1>7 DEF CloseRecovery, Finish
<1>8. CASE GiveUp
  BY <1>8 DEF GiveUp, Finish
<1>9. ASSUME NEW i \in Entry, CreateTemp(i) PROVE TransactionMoves
  BY <1>9 DEF CreateTemp
<1>10. ASSUME NEW i \in Entry, MoveToBackup(i) PROVE TransactionMoves
  BY <1>10 DEF MoveToBackup, First
<1>11. ASSUME NEW i \in Entry, Install(i) PROVE TransactionMoves
  <2>1. temp[i] \in {Absent, goal[i]} /\ i \in todo
    BY <1>11 DEF Install, First, MemoryInv, ArtifactInv, Remembers
  <2> QED
    BY <1>11, <2>1 DEF Install
<1>12. ASSUME NEW i \in Entry, CleanEntry(i) PROVE TransactionMoves
  BY <1>12 DEF CleanEntry
<1>13. ASSUME NEW i \in Entry, HashEntry(i) PROVE TransactionMoves
  BY <1>13 DEF HashEntry
<1>14. ASSUME NEW i \in Entry, RemoveInstalled(i) PROVE TransactionMoves
  BY <1>14 DEF RemoveInstalled, AfterFinal, Last
<1>15. ASSUME NEW i \in Entry, NothingToRemove(i) PROVE TransactionMoves
  BY <1>15 DEF NothingToRemove, AfterFinal
<1>16. ASSUME NEW i \in Entry, RestoreBackup(i) PROVE TransactionMoves
  <2>1. backup[i] = journal.pre[i] /\ i \in todo
    BY <1>16 DEF RestoreBackup, Last, ArtifactInv
  <2> QED
    BY <1>16, <2>1 DEF RestoreBackup
<1>17. ASSUME NEW i \in Entry, RemoveBackup(i) PROVE TransactionMoves
  BY <1>17 DEF RemoveBackup
<1>18. ASSUME NEW i \in Entry, SweepTemp(i) PROVE TransactionMoves
  BY <1>18 DEF SweepTemp, NextEntry
<1>19. ASSUME NEW i \in Entry, RefuseEntry(i) PROVE TransactionMoves
  BY <1>19 DEF RefuseEntry, NextEntry
<1>20. CASE CommitFails
  BY <1>20 DEF CommitFails, Fault
<1>21. CASE CloseFails
  BY <1>21 DEF CloseFails, Fault, Finish
<1>22. CASE Crash
  BY <1>22 DEF Crash, Fault, Finish
<1>23. ASSUME NEW i \in Entry, CleanFails(i) PROVE TransactionMoves
  BY <1>23 DEF CleanFails, Fault
<1>24. ASSUME NEW i \in Entry, EntryFails(i) PROVE TransactionMoves
  BY <1>24 DEF EntryFails, Fault, NextEntry
<1>25. Prepare => pc = "prepare"
  BY DEF Prepare
<1> QED
  BY <1>1, <1>2, <1>3, <1>4, <1>5, <1>6, <1>7, <1>8, <1>9, <1>10, <1>11, <1>12,
     <1>13, <1>14, <1>15, <1>16, <1>17, <1>18, <1>19, <1>20, <1>21, <1>22, <1>23,
     <1>24, <1>25 DEF Step, Failure

-----------------------------------------------------------------------------
(* The commands keep CommandInv.                                            *)

\* Every step of a command is one of the transaction, but for the refusal to
\* create a dynamic file over another.
LEMMA CommandSteps ==
  ASSUME CommandInv, [CommandNext]_allVars
  PROVE  [Next]_vars \/ PrepareRefuses
<1>1. ASSUME StagePlan PROVE Next
  <2>1. Stage(PlannedGoal) /\ PlannedGoal \in [Entry -> Goal]
    BY <1>1, PlannedGoalFacts DEF StagePlan, CommandInv
  <2>2. Manifest \in Targets(PlannedGoal)
    BY ManifestAndFiles, PlannedGoalFacts DEF CommandInv
  <2> QED
    BY <2>1, <2>2 DEF Next
<1>2. ASSUME NEW f \in File, NEW c \in Text \cup {Absent}, LocalEdit(f, c) PROVE Next
  <2>1. f \in Entry /\ c \in FileState
    BY ManifestAndFiles, TextsAndManifestsAreContent
  <2> QED
    BY <1>2, <2>1 DEF LocalEdit, Next
<1>3. ASSUME NEW m, NEW o, NEW g, Plan(m, o, g) PROVE UNCHANGED vars
  BY <1>3 DEF Plan
<1>4. BeginRecovery \/ PrepareEntries \/ Transaction => Next
  BY DEF BeginRecovery, PrepareEntries, Transaction, Next, Step
<1>5. UNCHANGED allVars => UNCHANGED vars
  BY DEF allVars
<1> QED
  BY <1>1, <1>2, <1>3, <1>4, <1>5 DEF CommandNext

LEMMA CommandTxStep == ASSUME CommandInv, [CommandNext]_allVars PROVE TxInv'
<1>1. TxInv
  BY DEF CommandInv
<1>2. ASSUME [Next]_vars PROVE TxInv'
  BY <1>1, <1>2, TypeStep, MemoryStep, ArtifactStep, CommitInvStep, ReconcileInvStep DEF TxInv
<1>3. ASSUME PrepareRefuses PROVE TxInv'
  <2>1. Finish /\ UNCHANGED <<final, backup, temp, journal, edits, faults>> /\ pc' = "idle"
    BY <1>3 DEF PrepareRefuses, Finish
  <2>2. TypeOK'
    BY <1>1, <2>1, FinishTypes DEF TxInv, TypeOK
  <2>3. MemoryInv' /\ CommitInv' /\ ReconcileInv'
    BY <2>1 DEF MemoryInv, CommitInv, ReconcileInv
  <2>4. ArtifactInv'
    BY <1>1, <2>1 DEF TxInv, ArtifactInv, NoOrphanArtifacts
  <2> QED
    BY <2>2, <2>3, <2>4 DEF TxInv
<1> QED
  BY <1>2, <1>3, CommandSteps

\* What one plans is a plan.
LEMMA PlanStep ==
  ASSUME PlacesOK, NEW mode, NEW flags, NEW gen \in Generations, Plan(mode, flags, gen)
  PROVE  PlanOK'
<1>1. gen \in Records
  BY GenerationsEmitFiles DEF Records
<1>2. /\ plan'.gen = gen
      /\ plan'.action = [f \in File |-> PlannedAction(f, mode, flags, gen[f])]
      /\ plan'.manifest = [f \in File |-> NewRecord(f, PlannedAction(f, mode, flags, gen[f]), gen[f])]
  BY DEF Plan
<1>3. ASSUME NEW f \in File
      PROVE  NewRecord(f, PlannedAction(f, mode, flags, gen[f]), gen[f]) \in Generated \cup {Nothing}
  <2>1. gen[f] \in Generated \cup {Nothing} /\ Recorded(f) \in Generated \cup {Nothing}
    BY <1>1, RecordedType DEF Records
  <2> QED
    BY <2>1, RecordCases
<1>4. plan'.manifest \in Records
  BY <1>2, <1>3 DEF Records
<1>5. ASSUME NEW f \in File, plan'.action[f] \in Written PROVE plan'.gen[f] \in Generated
  <2>1. gen[f] \in Generated \cup {Nothing}
    BY <1>1 DEF Records
  <2>2. PlannedAction(f, mode, flags, gen[f]) \in Written
    BY <1>2, <1>5
  <2> QED
    BY <1>2, <2>1, <2>2, PlannerFacts
<1> QED
  BY <1>1, <1>2, <1>4, <1>5 DEF PlanOK

\* A command keeps its plan.
LEMMA PlanLasts ==
  ASSUME UNCHANGED plan
  PROVE  /\ PlannedGoal' = PlannedGoal /\ PlanOK' = PlanOK
         /\ \A f \in File : \A m : Justified(f, m)' = Justified(f, m)
  BY DEF PlannedGoal, PlanOK, Justified, AcceptsModified

LEMMA RunsPlanStep == ASSUME CommandInv, [CommandNext]_allVars PROVE RunsPlan'
<1> USE DEF CommandInv, RunsPlan
<1>1. ASSUME NEW m, NEW o, NEW g, Plan(m, o, g) PROVE RunsPlan'
  BY <1>1 DEF Plan, vars
<1>2. CASE BeginRecovery
  BY <1>2, PlanLasts DEF BeginRecovery, Start, commandVars
<1>3. CASE StagePlan
  BY <1>3, PlanLasts DEF StagePlan, Stage, commandVars
<1>4. CASE PrepareEntries
  BY <1>4, PlanLasts DEF PrepareEntries, Prepare, commandVars
<1>5. CASE PrepareRefuses
  BY <1>5 DEF PrepareRefuses, Finish
<1>6. CASE Transaction
  <2>1. TransactionMoves /\ PlannedGoal' = PlannedGoal
    BY <1>6, TransactionFacts, PlanLasts DEF Transaction
  <2>2. pc # "idle"
    BY <2>1 DEF TransactionMoves, ControlMoves
  <2>3. pc' # "idle" => outcome' = "running"
    BY <1>6, <2>2 DEF Transaction
  <2>4. aborting' => pc' \in OldStep
    BY <2>1 DEF TransactionMoves, ControlMoves
  <2>5. pc' \in {"prepare", "journal", "clean"} \cup CommitStep => goal' = PlannedGoal
    BY <2>1 DEF TransactionMoves, ControlMoves
  <2> QED
    BY <1>6, <2>1, <2>3, <2>4, <2>5 DEF Transaction
<1>7. ASSUME NEW f \in File, NEW c, LocalEdit(f, c) PROVE RunsPlan'
  BY <1>7 DEF LocalEdit, UserEdit
<1>8. CASE UNCHANGED allVars
  BY <1>8, PlanLasts DEF allVars, vars, commandVars
<1> QED
  BY <1>1, <1>2, <1>3, <1>4, <1>5, <1>6, <1>7, <1>8 DEF CommandNext

LEMMA PlacesStep == ASSUME CommandInv, [CommandNext]_allVars PROVE PlacesOK'
<1> USE DEF CommandInv, TxInv, TypeOK
<1>1. \A i : Absent \in StatesAt(i)
  BY DEF StatesAt
<1>2. \A i \in Entry : NoState[i] \in StatesAt(i) /\ NoGoal[i] = Keep
  BY <1>1 DEF NoState, NoGoal
<1>3. ASSUME UNCHANGED <<final, journal>>, UNCHANGED <<before, goal>> \/ (before' = NoState /\ goal' = NoGoal)
      PROVE  PlacesOK'
  BY <1>2, <1>3 DEF PlacesOK
<1>4. ASSUME NEW m, NEW o, NEW g, Plan(m, o, g) PROVE PlacesOK'
  BY <1>3, <1>4 DEF Plan, vars
<1>5. CASE BeginRecovery
  BY <1>3, <1>5 DEF BeginRecovery, Start
<1>6. CASE StagePlan
  <2>1. goal' = PlannedGoal /\ UNCHANGED <<final, journal, before>>
    BY <1>6 DEF StagePlan, Stage
  <2>2. ASSUME NEW i \in Entry PROVE PlannedGoal[i] \in StatesAt(i) \cup {Keep}
    <3>1. CASE i = Manifest
      BY <3>1, PlannedGoalFacts DEF StatesAt, PlanOK
    <3>2. CASE i \in File /\ i # Manifest
      BY <3>2, PlannedGoalFacts DEF StatesAt, PlanOK, Text
    <3> QED
      BY <3>1, <3>2, ManifestAndFiles
  <2> QED
    BY <2>1, <2>2 DEF PlacesOK
<1>7. CASE PrepareEntries
  <2>1. /\ before' = [i \in Entry |-> IF goal[i] = Keep THEN Absent ELSE final[i]]
        /\ UNCHANGED <<final, journal, goal>>
    BY <1>7 DEF PrepareEntries, Prepare
  <2> QED
    BY <1>1, <2>1 DEF PlacesOK
<1>8. CASE PrepareRefuses
  BY <1>3, <1>8 DEF PrepareRefuses, Finish
<1>9. CASE Transaction
  <2>1. TransactionMoves
    BY <1>9, TransactionFacts DEF Transaction, RunsPlan
  <2>2. ASSUME NEW i \in Entry PROVE final'[i] \in StatesAt(i)
    <3>1. pc \in CommitStep /\ i \in todo => goal[i] # Keep
      BY DEF MemoryInv
    <3> QED
      BY <1>1, <2>1, <3>1 DEF TransactionMoves, FilesMove, PlacesOK
  <2>3. ASSUME NEW i \in Entry
        PROVE  journal'.pre[i] \in StatesAt(i) /\ journal'.post[i] \in StatesAt(i) \cup {Keep}
    BY <1>2, <2>1 DEF TransactionMoves, JournalMoves, PlacesOK, NoJournal
  <2>4. ASSUME NEW i \in Entry PROVE before'[i] \in StatesAt(i) /\ goal'[i] \in StatesAt(i) \cup {Keep}
    BY <1>2, <2>1 DEF TransactionMoves, MemoryMoves, PlacesOK
  <2>5. \A i : StatesAt(i)' = StatesAt(i)
    BY DEF StatesAt
  <2> QED
    BY <2>2, <2>3, <2>4, <2>5 DEF PlacesOK
<1>10. ASSUME NEW f \in File, NEW c \in Text \cup {Absent}, LocalEdit(f, c) PROVE PlacesOK'
  <2>1. UNCHANGED <<journal, before, goal>> /\ final' = [final EXCEPT ![f] = c]
    BY <1>10 DEF LocalEdit, UserEdit
  <2>2. c \in StatesAt(f)
    BY ManifestAndFiles DEF StatesAt
  <2> QED
    BY <2>1, <2>2 DEF PlacesOK
<1>11. CASE UNCHANGED allVars
  BY <1>3, <1>11 DEF allVars, vars
<1> QED
  BY <1>4, <1>5, <1>6, <1>7, <1>8, <1>9, <1>10, <1>11 DEF CommandNext

LEMMA DynamicStep == ASSUME CommandInv, [CommandNext]_allVars PROVE DynamicInv'
<1> USE DEF CommandInv, DynamicInv
<1>1. \A f \in Dynamic : f \in Entry
  BY DynamicAreFiles, ManifestAndFiles
<1>2. ASSUME UNCHANGED journal, pc' # "journal" PROVE DynamicInv'
  BY <1>2
<1>3. ASSUME NEW m, NEW o, NEW g, Plan(m, o, g) PROVE DynamicInv'
  BY <1>3 DEF Plan, vars
<1>4. CASE BeginRecovery
  BY <1>2, <1>4 DEF BeginRecovery, Start
<1>5. CASE StagePlan
  BY <1>2, <1>5 DEF StagePlan, Stage
<1>6. CASE PrepareEntries
  <2>1. /\ before' = [i \in Entry |-> IF goal[i] = Keep THEN Absent ELSE final[i]]
        /\ UNCHANGED <<journal, goal>>
    BY <1>6 DEF PrepareEntries, Prepare
  <2>2. \A f \in Dynamic : goal[f] \in Content => final[f] = Absent
    BY <1>6 DEF PrepareEntries, CreatesOverDynamic
  <2> QED
    BY <1>1, <2>1, <2>2
<1>7. CASE PrepareRefuses
  BY <1>2, <1>7 DEF PrepareRefuses, Finish
<1>8. CASE Transaction
  <2>1. TransactionMoves
    BY <1>8, TransactionFacts DEF Transaction, RunsPlan
  <2>2. \A f \in Dynamic : journal'.post[f] \in Content => journal'.pre[f] = Absent
    BY <1>1, <2>1 DEF TransactionMoves, JournalMoves, NoJournal, NoState, NoGoal
  <2> QED
    BY <2>1, <2>2 DEF TransactionMoves, ControlMoves
<1>9. ASSUME NEW f \in File, NEW c, LocalEdit(f, c) PROVE DynamicInv'
  BY <1>9 DEF LocalEdit, UserEdit
<1>10. CASE UNCHANGED allVars
  BY <1>10 DEF allVars, vars
<1> QED
  BY <1>3, <1>4, <1>5, <1>6, <1>7, <1>8, <1>9, <1>10 DEF CommandNext

LEMMA CommandInitEstablishes == ASSUME CommandInit PROVE CommandInv
<1>1. Init /\ final[Manifest] = Absent /\ \A f \in File : final[f] \in Text \cup {Absent}
  BY DEF CommandInit
<1>2. TxInv
  BY <1>1, InitEstablishes
<1>3. PlanOK
  <2>1. NoRecord \in Records
    BY DEF NoRecord, Records
  <2>2. \A f \in File : NoPlan.action[f] \notin Written
    BY DEF NoPlan, Written
  <2> QED
    BY <2>1, <2>2 DEF CommandInit, PlanOK, NoPlan
<1>4. RunsPlan
  BY <1>1 DEF Init, CommandInit, RunsPlan
<1>5. PlacesOK
  <2>1. /\ before = NoState /\ goal = NoGoal /\ journal = NoJournal
    BY <1>1 DEF Init
  <2>2. \A i \in Entry : NoState[i] = Absent /\ NoGoal[i] = Keep /\ Absent \in StatesAt(i)
    BY DEF NoState, NoGoal, StatesAt
  <2>3. \A i \in Entry : final[i] \in StatesAt(i)
    BY <1>1, ManifestAndFiles DEF StatesAt
  <2> QED
    BY <2>1, <2>2, <2>3 DEF PlacesOK, NoJournal
<1>6. DynamicInv
  <2>1. \A f \in Dynamic : NoGoal[f] = Keep
    BY DynamicAreFiles, ManifestAndFiles DEF NoGoal
  <2> QED
    BY <1>1, <2>1 DEF Init, DynamicInv, NoJournal
<1> QED
  BY <1>2, <1>3, <1>4, <1>5, <1>6 DEF CommandInv

LEMMA CommandInvStep == ASSUME CommandInv, [CommandNext]_allVars PROVE CommandInv'
<1>1. PlanOK'
  <2>1. ASSUME NEW m, NEW o, NEW g \in Generations, Plan(m, o, g) PROVE PlanOK'
    BY <2>1, PlanStep DEF CommandInv
  <2>2. CASE UNCHANGED plan
    BY <2>2, PlanLasts DEF CommandInv
  <2>3. BeginRecovery \/ StagePlan \/ PrepareEntries \/ PrepareRefuses \/ Transaction => UNCHANGED plan
    BY DEF BeginRecovery, StagePlan, PrepareEntries, PrepareRefuses, Transaction, commandVars
  <2>4. \A f \in File, c \in Text \cup {Absent} : LocalEdit(f, c) => UNCHANGED plan
    BY DEF LocalEdit
  <2> QED
    BY <2>1, <2>2, <2>3, <2>4 DEF CommandNext, allVars, commandVars
<1> QED
  BY <1>1, CommandTxStep, RunsPlanStep, PlacesStep, DynamicStep DEF CommandInv

LEMMA CommandInvariant == CommandSpec => []CommandInv
<1>1. CommandInit => CommandInv
  BY CommandInitEstablishes
<1>2. CommandInv /\ [CommandNext]_allVars => CommandInv'
  BY CommandInvStep
<1> QED
  BY <1>1, <1>2, PTL DEF CommandSpec

-----------------------------------------------------------------------------
(* Consent.                                                                 *)

\* A user's text in the way of a plan has consent when the plan is made, and a
\* plan made without options is in no user's way.
LEMMA PlanHasConsent ==
  ASSUME CommandInv, NEW mode, NEW flags, NEW gen \in Generations, Plan(mode, flags, gen)
  PROVE  Consented(final, PlannedGoal)'
<1>1. /\ plan'.mode = mode /\ plan'.flags = flags /\ plan'.gen = gen
      /\ plan'.action = [f \in File |-> PlannedAction(f, mode, flags, gen[f])]
      /\ final' = final
  BY DEF Plan, vars
<1>2. ASSUME NEW f \in File, final'[f] \in UserText, PlannedGoal'[f] # Keep
      PROVE  Justified(f, final[Manifest])'
  <2>1. plan'.action[f] \in Written \cup {"prune"}
    <3>1. f \in Entry /\ f # Manifest
      BY ManifestAndFiles
    <3> QED
      BY <1>2, <3>1 DEF PlannedGoal
  <2>2. gen[f] \in Generated \cup {Nothing}
    BY GenerationsEmitFiles
  <2>3. PlannedAction(f, mode, flags, gen[f]) \in Written \cup {"prune"}
    BY <1>1, <2>1
  <2>4. IF Recorded(f) # Nothing THEN mode = "upgrade" /\ "acceptModified" \in flags
        ELSE "force" \in flags
    BY <1>1, <1>2, <2>2, <2>3, PlannerFacts DEF CommandInv
  <2> QED
    BY <1>1, <2>4 DEF Recorded, Justified, AcceptsModified
<1> QED
  BY <1>2 DEF Consented

\* A plan without options has no consent to give.
LEMMA NoOptionsNoConsent ==
  ASSUME plan.flags = {}, NEW f, NEW m PROVE ~ Justified(f, m)
  BY DEF Justified, AcceptsModified

LEMMA ConsentStep ==
  ASSUME CommandInv, ConsentInv, [CommandNext]_allVars, [OptionsUninterrupted]_allVars
  PROVE  ConsentInv'
<1> USE DEF CommandInv, TxInv, TypeOK, ConsentInv, Planned
<1>1. ASSUME NEW m, NEW o, NEW g \in Generations, Plan(m, o, g) PROVE ConsentInv'
  <2>1. UNCHANGED vars /\ pc = "idle" /\ runs' = runs + 1
    BY <1>1 DEF Plan
  <2>2. runs' # runs
    BY <2>1 DEF RunsPlan
  <2>3. plan'.flags # {} => journal.status # "prepared"
    BY <2>2 DEF OptionsUninterrupted, allVars, commandVars
  <2>4. Consented(final, PlannedGoal)'
    BY <1>1, PlanHasConsent
  <2> QED
    BY <2>1, <2>3, <2>4 DEF vars
<1>2. CASE BeginRecovery
  <2>1. /\ UNCHANGED <<plan, outcome, final, journal, before, goal, aborting>>
        /\ pc = "idle" /\ pc' = "recover" /\ outcome = "running"
    BY <1>2 DEF BeginRecovery, Start, commandVars
  <2>2. Consented(final, PlannedGoal)' = Consented(final, PlannedGoal)
    BY <2>1, PlanLasts DEF Consented, Justified, AcceptsModified
  <2> QED
    BY <2>1, <2>2
<1>3. CASE StagePlan
  <2>1. /\ UNCHANGED <<plan, outcome, final, journal, before, aborting>>
        /\ pc = "stage" /\ pc' = "prepare"
    BY <1>3 DEF StagePlan, Stage, commandVars
  <2>2. Consented(final, PlannedGoal)' = Consented(final, PlannedGoal)
    BY <2>1, PlanLasts DEF Consented, Justified, AcceptsModified
  <2> QED
    BY <2>1, <2>2
<1>4. CASE PrepareEntries
  <2>1. /\ UNCHANGED <<plan, goal, journal>> /\ pc = "prepare" /\ pc' = "journal"
        /\ before' = [i \in Entry |-> IF goal[i] = Keep THEN Absent ELSE final[i]]
    BY <1>4 DEF PrepareEntries, Prepare, commandVars
  <2>2. goal = PlannedGoal /\ Consented(final, goal) /\ journal.status = "none"
    BY <2>1 DEF RunsPlan, MemoryInv
  <2>3. before'[Manifest] = final[Manifest]
    BY <2>1, <2>2, PlannedGoalFacts, ManifestAndFiles
  <2>4. Consented(before, goal)'
    BY <2>1, <2>2, <2>3, ManifestAndFiles DEF Consented, Justified, AcceptsModified
  <2> QED
    BY <2>1, <2>2, <2>4
<1>5. CASE PrepareRefuses
  BY <1>5 DEF PrepareRefuses, Finish, MemoryInv
<1>6. CASE Transaction
  <2>1. TransactionMoves /\ UNCHANGED plan /\ outcome = "running"
    BY <1>6, TransactionFacts DEF Transaction, RunsPlan, TransactionMoves, ControlMoves
  <2>2. faults' # faults => plan.flags = {}
    BY DEF OptionsUninterrupted, allVars, vars
  <2>3. pc' \in CommitStep => Consented(journal.pre, journal.post)'
    <3>1. CASE pc' \in CommitStep /\ pc \in CommitStep
      <4>1. journal' = journal
        BY <2>1, <3>1 DEF TransactionMoves, JournalMoves
      <4> QED
        BY <2>1, <3>1, <4>1 DEF Consented, Justified, AcceptsModified
    <3>2. CASE pc' \in CommitStep /\ pc = "journal"
      <4>1. journal'.pre = before /\ journal'.post = goal
        BY <2>1, <3>2 DEF TransactionMoves, JournalMoves
      <4> QED
        BY <2>1, <3>2, <4>1 DEF Consented, Justified, AcceptsModified
    <3> QED
      BY <2>1, <3>1, <3>2 DEF TransactionMoves, ControlMoves
  <2>4. ASSUME journal'.status = "prepared", pc' \notin CommitStep,
               NEW f \in File, journal'.post[f] # Keep
        PROVE  journal'.pre[f] \notin UserText
    <3>1. journal' = journal
      BY <2>1, <2>4 DEF TransactionMoves, JournalMoves, NoJournal
    <3>2. CASE pc \notin CommitStep
      BY <2>4, <3>1, <3>2
    <3>3. CASE pc \in CommitStep
      <4>1. faults' # faults
        BY <2>1, <2>4, <3>1, <3>3 DEF TransactionMoves, JournalMoves, ControlMoves, CalmMoves, NoJournal
      <4>2. \A m : ~ Justified(f, m)
        BY <2>2, <4>1, NoOptionsNoConsent
      <4> QED
        BY <2>4, <3>1, <3>3, <4>2 DEF Consented
    <3> QED
      BY <3>2, <3>3
  <2>5. ASSUME outcome' = "running", pc' \in Planned, ~ aborting'
        PROVE  /\ plan'.flags # {} => journal'.status # "prepared"
               /\ Consented(final, PlannedGoal)'
    <3>1. pc' # "idle" /\ pc' # "prepare"
      BY <1>6, <2>1, <2>5 DEF Transaction, TransactionMoves, ControlMoves
    <3>2. pc \in {"recover"} \cup OldStep \cup NewStep /\ ~ aborting
      BY <2>1, <2>5, <3>1 DEF TransactionMoves, ControlMoves, RunsPlan
    <3>3. /\ plan.flags # {} => journal.status # "prepared"
          /\ Consented(final, PlannedGoal)
      BY <2>1, <3>2
    <3>4. plan.flags # {} => journal'.status # "prepared"
      BY <2>1, <3>2, <3>3 DEF TransactionMoves, JournalMoves, NoJournal
    <3>5. CASE plan.flags # {}
      <4>1. pc \notin OldStep
        BY <3>3, <3>5 DEF MemoryInv
      <4>2. \A i \in Entry : final'[i] = final[i]
        BY <2>1, <3>2, <4>1 DEF TransactionMoves, FilesMove
      <4>3. PlannedGoal' = PlannedGoal
        BY <2>1, PlanLasts
      <4>4. Consented(final, PlannedGoal)'
        BY <2>1, <3>3, <4>2, <4>3, ManifestAndFiles DEF Consented, Justified, AcceptsModified
      <4> QED
        BY <2>1, <3>4, <4>4
    <3>6. CASE plan.flags = {}
      <4>1. \A f \in File : final[f] \in UserText => PlannedGoal[f] = Keep
        BY <3>3, <3>6, NoOptionsNoConsent DEF Consented
      <4>2. ASSUME NEW f \in File, final'[f] \in UserText PROVE final'[f] = final[f]
        <5>1. f \in Entry /\ Absent \notin UserText
          BY ManifestAndFiles, ContentsDiffer DEF Text
        <5>2. CASE pc \in OldStep /\ f \in todo /\ final'[f] \in {Absent, journal.pre[f]}
          <6>1. journal.status = "prepared" /\ journal.post[f] # Keep
            BY <5>2 DEF MemoryInv, Remembers
          <6>2. journal.pre[f] \notin UserText
            BY <5>2, <6>1
          <6> QED
            BY <4>2, <5>1, <5>2, <6>2
        <5> QED
          BY <2>1, <3>2, <5>1, <5>2 DEF TransactionMoves, FilesMove
      <4>3. PlannedGoal' = PlannedGoal
        BY <2>1, PlanLasts
      <4>4. Consented(final, PlannedGoal)'
        BY <4>1, <4>2, <4>3 DEF Consented
      <4> QED
        BY <2>1, <3>4, <4>4
    <3> QED
      BY <3>5, <3>6
  <2>6. pc' # "journal"
    BY <2>1 DEF TransactionMoves, ControlMoves
  <2> QED
    BY <2>3, <2>4, <2>5, <2>6
<1>7. ASSUME NEW f \in File, NEW c, LocalEdit(f, c) PROVE ConsentInv'
  BY <1>7 DEF LocalEdit, UserEdit
<1>8. CASE UNCHANGED allVars
  <2>1. UNCHANGED <<plan, outcome, final, journal, before, goal, aborting, pc>>
    BY <1>8 DEF allVars, vars, commandVars
  <2>2. /\ Consented(final, PlannedGoal)' = Consented(final, PlannedGoal)
        /\ Consented(before, goal)' = Consented(before, goal)
        /\ Consented(journal.pre, journal.post)' = Consented(journal.pre, journal.post)
    BY <2>1, PlanLasts DEF Consented, Justified, AcceptsModified
  <2> QED
    BY <2>1, <2>2
<1> QED
  BY <1>1, <1>2, <1>3, <1>4, <1>5, <1>6, <1>7, <1>8 DEF CommandNext
-----------------------------------------------------------------------------
(* Commands that nothing interrupts.                                        *)

\* A plan is true of what its transaction will make of the files; where every
\* tracked file is as recorded, nothing is refused and it stays so.
LEMMA PlanIsTrue ==
  ASSUME CommandInv, NEW mode, NEW flags, NEW gen \in Generations, Plan(mode, flags, gen)
  PROVE  /\ \A f \in File : plan'.action[f] \in Refreshed => plan'.manifest[f] = After(f)'
         /\ (\A f \in File : Recorded(f) \in {Nothing, final[f]}) =>
                /\ outcome' = "running"
                /\ \A f \in File : plan'.manifest[f] \in {Nothing, After(f)'}
<1>1. /\ plan'.gen = gen /\ final' = final
      /\ plan'.action = [f \in File |-> PlannedAction(f, mode, flags, gen[f])]
      /\ plan'.manifest = [f \in File |-> NewRecord(f, PlannedAction(f, mode, flags, gen[f]), gen[f])]
      /\ (\A f \in File : PlannedAction(f, mode, flags, gen[f]) # "refuse") => outcome' = "running"
  BY DEF Plan, vars
<1>2. ASSUME NEW f \in File
      PROVE  /\ plan'.action[f] \in Refreshed => plan'.manifest[f] = After(f)'
             /\ Recorded(f) \in {Nothing, final[f]} =>
                    /\ PlannedAction(f, mode, flags, gen[f]) # "refuse"
                    /\ plan'.manifest[f] \in {Nothing, After(f)'}
  <2> DEFINE a == PlannedAction(f, mode, flags, gen[f])
  <2>1. gen[f] \in Generated \cup {Nothing}
    BY GenerationsEmitFiles
  <2>2. /\ a \in Written => gen[f] \in Generated
        /\ a \in {"adopt", "update_manifest"} => final[f] = gen[f]
        /\ Recorded(f) \in {Nothing, final[f]} => a # "refuse"
    BY <2>1, PlannerFacts DEF CommandInv
  <2>3. plan'.action[f] = a /\ plan'.manifest[f] = NewRecord(f, a, gen[f])
    BY <1>1
  <2>4. f \in Entry /\ f # Manifest
    BY ManifestAndFiles
  <2>5. PlannedGoal'[f] = IF a \in Written THEN gen[f] ELSE IF a = "prune" THEN Absent ELSE Keep
    BY <1>1, <2>3, <2>4 DEF PlannedGoal
  <2>6. /\ a \in Refreshed => NewRecord(f, a, gen[f]) = gen[f]
        /\ a \in {"skip", "warn"} => NewRecord(f, a, gen[f]) = Recorded(f)
        /\ a \notin Refreshed \cup {"skip", "warn"} => NewRecord(f, a, gen[f]) = Nothing
    BY RecordCases
  <2> HIDE DEF a
  <2>7. After(f)' = IF a \in Written THEN gen[f] ELSE IF a = "prune" THEN Absent ELSE final[f]
    <3>1. a \in Written => gen[f] # Keep
      BY <2>2, ContentsDiffer
    <3> QED
      BY <1>1, <2>5, <3>1 DEF After
  <2>8. /\ a \in Refreshed <=> a \in Written \/ a \in {"adopt", "update_manifest"}
        /\ a \in {"skip", "warn"} => a \notin Written /\ a # "prune"
        /\ a \in {"adopt", "update_manifest"} => a \notin Written /\ a # "prune"
    BY DEF Refreshed, Written
  <2> QED
    BY <2>2, <2>3, <2>6, <2>7, <2>8 DEF a
<1> QED
  BY <1>1, <1>2

LEMMA AfterLasts ==
  ASSUME UNCHANGED plan, NEW f \in File, final'[f] = final[f] \/ PlannedGoal[f] # Keep
  PROVE  After(f)' = After(f)
  BY PlanLasts DEF After

\* What a step of the transaction does when it meets no fault.
LEMMA CalmTransaction ==
  ASSUME CommandInv, CalmInv, Transaction, faults' = 0
  PROVE  /\ TransactionMoves /\ UNCHANGED plan /\ outcome = "running" /\ faults = 0
         /\ pc \notin OldStep \cup NewStep
         /\ \A i \in Entry : final'[i] = final[i] \/ (PlannedGoal[i] # Keep /\ pc' \in CommitStep)
         /\ \A f \in File : After(f)' = After(f)
         /\ pc' # "idle" => outcome' = "running"
         /\ pc' = "idle" => outcome' = "committed" /\ pc = "clean"
<1> USE DEF CommandInv, TxInv, TypeOK
<1>1. TransactionMoves /\ UNCHANGED plan /\ outcome = "running"
  BY TransactionFacts DEF Transaction, RunsPlan, TransactionMoves, ControlMoves
<1>2. faults = 0
  BY <1>1 DEF TransactionMoves
<1>3. pc \notin OldStep \cup NewStep
  BY <1>2 DEF CalmInv
<1>4. \A i \in Entry : final'[i] = final[i] \/ (PlannedGoal[i] # Keep /\ pc' \in CommitStep)
  BY <1>1, <1>3 DEF TransactionMoves, FilesMove, MemoryInv, RunsPlan
<1>5. \A f \in File : After(f)' = After(f)
  BY <1>1, <1>4, AfterLasts, ManifestAndFiles
<1>6. pc' = "idle" => pc = "clean"
  BY <1>1, <1>2, <1>3 DEF TransactionMoves, CalmMoves
<1>7. /\ pc' # "idle" => outcome' = "running"
      /\ pc' = "idle" => outcome' = "committed"
  BY <1>1, <1>6 DEF Transaction
<1> QED
  BY <1>1, <1>2, <1>3, <1>4, <1>5, <1>6, <1>7

\* Once everything is in place, a file is what the plan made of it and the
\* manifest is the planned one.
LEMMA PlanInForce ==
  ASSUME CommandInv, CalmInv, faults = 0, pc = "clean"
  PROVE  /\ \A f \in File : After(f) = final[f]
         /\ final[Manifest] = plan.manifest /\ plan.manifest # Absent
         /\ \A f \in File : Recorded(f) = plan.manifest[f]
<1>1. goal = PlannedGoal /\ \A i \in Entry : goal[i] # Keep => final[i] = goal[i]
  BY DEF CommandInv, RunsPlan, CalmInv
<1>2. PlannedGoal[Manifest] = plan.manifest /\ plan.manifest \in Content
  BY PlannedGoalFacts DEF CommandInv
<1>3. final[Manifest] = plan.manifest /\ plan.manifest # Absent
  BY <1>1, <1>2, ManifestAndFiles
<1> QED
  BY <1>1, <1>3, ManifestAndFiles DEF After, Recorded

LEMMA CalmStep ==
  ASSUME CommandInv, CalmInv, [CommandNext]_allVars
  PROVE  CalmInv'
<1> USE DEF CommandInv, TxInv, TypeOK
<1>1. ASSUME NEW m, NEW o, NEW g \in Generations, Plan(m, o, g) PROVE CalmInv'
  <2>1. UNCHANGED vars /\ pc = "idle" /\ outcome' # "committed"
    BY <1>1 DEF Plan
  <2>2. \A f \in File : plan'.action[f] \in Refreshed => plan'.manifest[f] = After(f)'
    BY <1>1, PlanIsTrue
  <2> QED
    BY <2>1, <2>2 DEF CalmInv, ManifestTellsTruth, vars
<1>2. CASE BeginRecovery \/ StagePlan \/ PrepareEntries
  <2>1. /\ UNCHANGED <<plan, outcome, final, journal, failures, faults>> /\ outcome = "running"
        /\ pc' \in {"recover", "prepare", "journal"} /\ (pc' = "recover" => pc = "idle")
    BY <1>2 DEF BeginRecovery, Start, StagePlan, Stage, PrepareEntries, Prepare, commandVars, RunsPlan
  <2>2. \A f \in File : After(f)' = After(f)
    BY <2>1, AfterLasts
  <2> QED
    BY <2>1, <2>2 DEF CalmInv, ManifestTellsTruth
<1>3. CASE PrepareRefuses
  BY <1>3 DEF PrepareRefuses, Finish, MemoryInv, CalmInv, ManifestTellsTruth
<1>4. CASE Transaction
  <2> SUFFICES ASSUME faults' = 0 PROVE CalmInv'
    BY DEF CalmInv
  <2>1. /\ TransactionMoves /\ UNCHANGED plan /\ outcome = "running" /\ faults = 0
        /\ pc \notin OldStep \cup NewStep
        /\ \A f \in File : After(f)' = After(f)
        /\ pc' # "idle" => outcome' = "running"
        /\ pc' = "idle" => outcome' = "committed" /\ pc = "clean"
    BY <1>4, CalmTransaction
  <2>2. ~ failures' /\ pc' \notin OldStep \cup NewStep
    BY <2>1 DEF CalmInv, TransactionMoves, CalmMoves
  <2>3. pc' \in {"idle", "recover"} => journal'.status = "none"
    BY <2>1 DEF CalmInv, TransactionMoves, CalmMoves, NoJournal
  <2>4. ASSUME pc' = "clean", NEW i \in Entry, goal'[i] # Keep PROVE final'[i] = goal'[i]
    <3>1. UNCHANGED <<goal, final>>
      BY <2>1, <2>4 DEF TransactionMoves, ControlMoves
    <3>2. CASE pc = "clean"
      BY <2>1, <2>4, <3>1, <3>2 DEF CalmInv
    <3>3. CASE pc = "swap" /\ todo = {}
      BY <2>4, <3>1, <3>3 DEF CommitInv, Installed
    <3> QED
      BY <2>1, <2>4, <3>2, <3>3 DEF TransactionMoves, ControlMoves
  <2>5. \A f \in File : plan'.action[f] \in Refreshed => plan'.manifest[f] = After(f)'
    BY <2>1 DEF CalmInv
  <2>6. ASSUME pc' = "idle", NEW f \in File, plan'.action[f] \in Refreshed
        PROVE  final'[Manifest] # Absent /\ final'[Manifest][f] = final'[f]
    <3>1. UNCHANGED final
      BY <2>1, <2>6 DEF TransactionMoves, CalmMoves
    <3>2. /\ After(f) = final[f]
          /\ final[Manifest] = plan.manifest /\ plan.manifest # Absent
      BY <2>1, <2>6, PlanInForce
    <3> QED
      BY <2>1, <2>5, <2>6, <3>1, <3>2
  <2>7. ManifestTellsTruth'
    BY <2>1, <2>6 DEF ManifestTellsTruth
  <2> QED
    BY <2>2, <2>3, <2>4, <2>5, <2>7 DEF CalmInv
<1>5. ASSUME NEW f \in File, NEW c, LocalEdit(f, c) PROVE CalmInv'
  BY <1>5 DEF LocalEdit, UserEdit, CalmInv, ManifestTellsTruth
<1>6. CASE UNCHANGED allVars
  <2>1. UNCHANGED <<plan, outcome, final, journal, goal, failures, faults, pc>>
    BY <1>6 DEF allVars, vars, commandVars
  <2>2. \A f \in File : After(f)' = After(f)
    BY <2>1, AfterLasts
  <2> QED
    BY <2>1, <2>2 DEF CalmInv, ManifestTellsTruth
<1> QED
  BY <1>1, <1>2, <1>3, <1>4, <1>5, <1>6 DEF CommandNext

LEMMA PristineStep ==
  ASSUME CommandInv, CalmInv, PristineInv, [CommandNext]_allVars
  PROVE  PristineInv'
<1> USE DEF CommandInv, TxInv, TypeOK
<1>0. ASSUME UNCHANGED final PROVE \A f \in File : Recorded(f)' = Recorded(f)
  BY <1>0 DEF Recorded
<1>1. ASSUME NEW m, NEW o, NEW g \in Generations, Plan(m, o, g) PROVE PristineInv'
  <2>1. UNCHANGED vars /\ pc = "idle"
    BY <1>1 DEF Plan
  <2>2. (\A f \in File : Recorded(f) \in {Nothing, final[f]}) =>
            outcome' = "running" /\ \A f \in File : plan'.manifest[f] \in {Nothing, After(f)'}
    BY <1>1, PlanIsTrue
  <2> QED
    BY <1>0, <2>1, <2>2 DEF PristineInv, vars
<1>2. CASE BeginRecovery \/ StagePlan \/ PrepareEntries
  <2>1. /\ UNCHANGED <<plan, outcome, final, edits, faults>> /\ outcome = "running"
        /\ pc \in {"idle", "stage", "prepare"}
    BY <1>2 DEF BeginRecovery, Start, StagePlan, Stage, PrepareEntries, Prepare, commandVars, RunsPlan
  <2>2. \A f \in File : After(f)' = After(f)
    BY <2>1, AfterLasts
  <2> QED
    BY <1>0, <2>1, <2>2 DEF PristineInv
<1>3. CASE PrepareRefuses
  BY <1>0, <1>3 DEF PrepareRefuses, Finish, PristineInv
<1>4. CASE Transaction
  <2> SUFFICES ASSUME faults' = 0, edits' = 0 PROVE PristineInv'
    BY DEF PristineInv
  <2>1. /\ TransactionMoves /\ UNCHANGED plan /\ outcome = "running" /\ faults = 0
        /\ pc \notin OldStep \cup NewStep
        /\ \A i \in Entry : final'[i] = final[i] \/ (PlannedGoal[i] # Keep /\ pc' \in CommitStep)
        /\ \A f \in File : After(f)' = After(f)
        /\ pc' # "idle" => outcome' = "running"
        /\ pc' = "idle" => outcome' = "committed" /\ pc = "clean"
    BY <1>4, CalmTransaction
  <2>2. edits = 0
    BY <2>1 DEF TransactionMoves
  <2>3. \A f \in File : plan.manifest[f] \in {Nothing, After(f)}
    BY <2>1, <2>2 DEF PristineInv
  <2>4. ASSUME pc' \in {"idle", "recover", "stage", "prepare", "journal"}, NEW f \in File
        PROVE  Recorded(f)' \in {Nothing, final'[f]}
    <3>1. final' = final
      <4>1. final' \in [Entry -> FileState] /\ \A i \in Entry : final'[i] = final[i]
        BY <2>1, <2>4, CommandTxStep
      <4> QED
        BY <4>1
    <3>2. CASE pc = "clean"
      BY <1>0, <2>1, <2>3, <3>1, <3>2, PlanInForce
    <3>3. CASE pc = "recover"
      BY <1>0, <2>1, <2>2, <3>1, <3>3 DEF PristineInv
    <3>4. pc \in {"clean", "recover"}
      BY <2>1, <2>4 DEF TransactionMoves, ControlMoves
    <3> QED
      BY <3>2, <3>3, <3>4
  <2> QED
    BY <2>1, <2>3, <2>4 DEF PristineInv
<1>5. ASSUME NEW f \in File, NEW c, LocalEdit(f, c) PROVE PristineInv'
  <2>1. edits' # 0
    BY <1>5 DEF LocalEdit, UserEdit
  <2> QED
    BY <2>1 DEF PristineInv
<1>6. CASE UNCHANGED allVars
  <2>1. UNCHANGED <<plan, outcome, final, edits, faults, pc>>
    BY <1>6 DEF allVars, vars, commandVars
  <2>2. \A f \in File : After(f)' = After(f)
    BY <2>1, AfterLasts
  <2> QED
    BY <1>0, <2>1, <2>2 DEF PristineInv
<1> QED
  BY <1>1, <1>2, <1>3, <1>4, <1>5, <1>6 DEF CommandNext
-----------------------------------------------------------------------------
(* The theorems about the commands.                                         *)

LEMMA CommandsStayCalm == CommandSpec => [](CommandInv /\ CalmInv /\ PristineInv)
<1>1. ASSUME CommandInit PROVE CommandInv /\ CalmInv /\ PristineInv
  <2>1. CommandInv
    BY <1>1, CommandInitEstablishes
  <2>2. /\ pc = "idle" /\ journal.status = "none" /\ ~ failures /\ outcome = "none"
        /\ final[Manifest] = Absent
    BY <1>1 DEF CommandInit, Init, NoJournal
  <2>3. CalmInv
    BY <2>2 DEF CalmInv, ManifestTellsTruth
  <2>4. PristineInv
    BY <2>2 DEF PristineInv, Recorded
  <2> QED
    BY <2>1, <2>3, <2>4
<1>2. ASSUME CommandInv /\ CalmInv /\ PristineInv, [CommandNext]_allVars
      PROVE  (CommandInv /\ CalmInv /\ PristineInv)'
  BY <1>2, CommandInvStep, CalmStep, PristineStep
<1> QED
  BY <1>1, <1>2, PTL DEF CommandSpec

\* The transaction's invariant holds under install and upgrade, and so does the
\* commands' own: what is staged is the plan, what is in the manifest's place is
\* a manifest.
THEOREM CommandsAreConsistent == CommandSpec => []CommandInv
  BY CommandInvariant

\* Install and upgrade of any number of files are atomic, whatever fails.
THEOREM CommandsAreAtomic == CommandSpec => ImplementsAtomicFiles
<1>1. CommandInit => Atomic!Init
  BY VisibleType, InitEstablishes
  DEF CommandInit, Init, Atomic!Init, TxInv, NoJournal, NoGoal
<1>2. ASSUME CommandInv, CommandInv', [CommandNext]_allVars
      PROVE  [Atomic!Next]_<<Visible, journal.post, edits>>
  <2>1. TxInv /\ TxInv'
    BY <1>2 DEF CommandInv
  <2>2. CASE PrepareRefuses
    BY <2>2, SameVisible DEF PrepareRefuses
  <2>3. CASE UNCHANGED vars
    BY <2>3, SameVisible DEF vars
  <2>4. CASE Next
    BY <2>1, <2>4, StepRefines
  <2> QED
    BY <1>2, <2>2, <2>3, <2>4, CommandSteps
<1> QED
  BY <1>1, <1>2, CommandInvariant, PTL DEF CommandSpec, ImplementsAtomicFiles, Atomic!Spec

\* A dynamic file is created where none is, never replaced, whatever recovery
\* puts back after the plan was made.
THEOREM DynamicNeverOverwrittenHolds == CommandSpec => DynamicNeverOverwritten
<1>1. CommandInv => (CommitsNow => \A f \in Dynamic :
        journal.post[f] \in Content => journal.pre[f] = Absent)
  BY DEF CommandInv, DynamicInv
<1> QED
  BY <1>1, CommandInvariant, PTL DEF CommandSpec, DynamicNeverOverwritten

\* A command that nothing interrupted leaves the hash of what is on disk for all
\* it wrote, adopted or refreshed, whatever users edited before.
THEOREM ManifestTellsTruthHolds == CommandSpec => []ManifestTellsTruth
<1>1. CommandInv /\ CalmInv /\ PristineInv => ManifestTellsTruth
  BY DEF CalmInv, ManifestTellsTruth
<1> QED
  BY <1>1, CommandsStayCalm, PTL

\* Without edits and faults no sequence of installs and upgrades is refused.
THEOREM RefusesOnlyEditsHolds == CommandSpec => []RefusesOnlyEdits
<1>1. CommandInv /\ CalmInv /\ PristineInv => RefusesOnlyEdits
  BY DEF PristineInv, RefusesOnlyEdits
<1> QED
  BY <1>1, CommandsStayCalm, PTL

\* What a user wrote is given up only with the option that says so, as long as
\* no command that has an option is interrupted or starts over a torn one.
THEOREM ConsentNeededHolds ==
  CommandSpec /\ [][OptionsUninterrupted]_allVars => ConsentNeeded
<1> DEFINE Consent == CommitsNow => \A f \in File : LosesUserText(f) =>
        IF WasTracked(f) THEN AcceptsModified ELSE "force" \in plan.flags
<1>1. ASSUME CommandInit PROVE ConsentInv
  <2>1. pc = "idle" /\ journal.status = "none" /\ outcome = "none"
    BY <1>1 DEF CommandInit, Init, NoJournal
  <2> QED
    BY <2>1 DEF ConsentInv
<1>2. ASSUME CommandInv, ConsentInv, [CommandNext]_allVars, [OptionsUninterrupted]_allVars
      PROVE  ConsentInv'
  BY <1>2, ConsentStep
<1>3. ASSUME CommandInv, ConsentInv, [CommandNext]_allVars PROVE [Consent]_allVars
  <2>1. ASSUME CommitsNow, ~ UNCHANGED allVars PROVE pc \in CommitStep
    <3>1. CASE Transaction
      <4>1. TransactionMoves
        BY <1>3, <3>1, TransactionFacts DEF Transaction, CommandInv, RunsPlan
      <4> QED
        BY <2>1, <4>1 DEF CommitsNow, TransactionMoves, JournalMoves, NoJournal
    <3>2. CASE BeginRecovery \/ StagePlan \/ PrepareEntries \/ PrepareRefuses
      BY <2>1, <3>2 DEF CommitsNow, BeginRecovery, Start, StagePlan, Stage, PrepareEntries,
                        Prepare, PrepareRefuses
    <3>3. ASSUME NEW m, NEW o, NEW g, Plan(m, o, g) PROVE FALSE
      BY <2>1, <3>3 DEF CommitsNow, Plan, vars
    <3>4. ASSUME NEW f, NEW c, LocalEdit(f, c) PROVE FALSE
      BY <2>1, <3>4 DEF CommitsNow, LocalEdit, UserEdit
    <3> QED
      BY <1>3, <2>1, <3>1, <3>2, <3>3, <3>4 DEF CommandNext, CommitsNow
  <2>2. ASSUME pc \in CommitStep, NEW f \in File, LosesUserText(f)
        PROVE  IF WasTracked(f) THEN AcceptsModified ELSE "force" \in plan.flags
    BY <1>3, <2>2 DEF ConsentInv, Consented, Justified, LosesUserText, WasTracked
  <2> QED
    BY <2>1, <2>2
<1> QED
  BY <1>1, <1>2, <1>3, CommandInvariant, PTL DEF CommandSpec, ConsentNeeded
=============================================================================
