-------------------------- MODULE FileTransaction --------------------------
(***************************************************************************)
(* The journaled multi-file transaction behind adapter install and upgrade  *)
(* (core/adapters/staged-write.ts).  One adapter command at a time recovers *)
(* what an earlier one left, stages a new transaction and commits it.  Each *)
(* action is one file-system call with the code around it; any call may     *)
(* fail and the process may be killed between any two.  Between commands    *)
(* users edit, create and delete the same files.                            *)
(*                                                                         *)
(* A file's state is its content (the code compares SHA-256 digests) or     *)
(* Absent.  Artifact names carry the transaction's UUID, so the backup and  *)
(* temp of an entry belong to the one transaction whose journal exists.     *)
(***************************************************************************)
EXTENDS Naturals, FiniteSets

CONSTANTS
    N,          \* number of files a transaction may touch
    Content,    \* file contents
    Absent,     \* the state of a file that does not exist
    Keep,       \* goal of a file that is not a target of the transaction
    MaxEdits,   \* bound: edits by users
    MaxFaults   \* bound: failed calls and kills

ASSUME AbsentAndKeep == Absent \notin Content /\ Keep \notin Content /\ Keep # Absent
ASSUME BoundsAreNat == N \in Nat /\ MaxEdits \in Nat /\ MaxFaults \in Nat

Entry == 1 .. N
FileState == Content \cup {Absent}
Goal == FileState \cup {Keep}

VARIABLES
    final, backup, temp,   \* the target of each entry and its two artifacts
    journal,               \* the private recovery journal
    pc,                    \* what the command does next
    todo,                  \* the entries the current loop has still to visit
    before, goal,          \* pre- and post-states the command works from
    seen,                  \* the states it last hashed for an entry
    aborting,              \* TRUE in the rollback of a failed commit
    failures,              \* TRUE when the current loop recorded a failure
    edits, faults          \* edits and faults so far

disk == <<final, backup, temp>>
budget == <<edits, faults>>
local == <<pc, todo, before, goal, seen, aborting, failures>>
vars == <<final, backup, temp, journal, pc, todo, before, goal, seen,
          aborting, failures, edits, faults>>

NoState == [i \in Entry |-> Absent]
NoGoal == [i \in Entry |-> Keep]
NoJournal == [status |-> "none", pre |-> NoState, post |-> NoGoal]
\* The journal rewritten with another status.
Marked(status) == [status |-> status, pre |-> journal.pre, post |-> journal.post]
NothingSeen == [final |-> Absent, backup |-> Absent, temp |-> Absent]

Targets(g) == {i \in Entry : g[i] # Keep}
Writes(g) == {i \in Entry : g[i] \in Content}

First(i) == i \in todo /\ \A j \in todo : i <= j
Last(i) == i \in todo /\ \A j \in todo : j <= i

\* The command is over; its memory is gone.
Finish ==
    /\ pc' = "idle"
    /\ todo' = {}
    /\ before' = NoState
    /\ goal' = NoGoal
    /\ seen' = NothingSeen
    /\ aborting' = FALSE
    /\ failures' = FALSE

Init ==
    /\ final \in [Entry -> FileState]
    /\ backup = NoState
    /\ temp = NoState
    /\ journal = NoJournal
    /\ pc = "idle"
    /\ todo = {}
    /\ before = NoState
    /\ goal = NoGoal
    /\ seen = NothingSeen
    /\ aborting = FALSE
    /\ failures = FALSE
    /\ edits = 0
    /\ faults = 0

-----------------------------------------------------------------------------
(* recoverPendingAdapterTransactions                                        *)

Start ==
    /\ pc = "idle"
    /\ pc' = "recover"
    /\ UNCHANGED <<disk, journal, todo, before, goal, seen, aborting, failures, budget>>

NothingPending ==
    /\ pc = "recover"
    /\ journal.status = "none"
    /\ pc' = "stage"
    /\ UNCHANGED <<disk, journal, todo, before, goal, seen, aborting, failures, budget>>

\* A prepared journal is rolled back; a committed one is cleaned up.
LoadJournal ==
    /\ pc = "recover"
    /\ journal.status # "none"
    /\ before' = journal.pre
    /\ goal' = journal.post
    /\ todo' = Targets(journal.post)
    /\ pc' = IF journal.status = "prepared" THEN "old" ELSE "new"
    /\ failures' = FALSE
    /\ UNCHANGED <<disk, journal, seen, aborting, budget>>

-----------------------------------------------------------------------------
(* commit: prepared journal, temps, renames, commit marker                  *)

\* addWrite and addDelete only record the plan.
Stage(g) ==
    /\ pc = "stage"
    /\ goal' = g
    /\ pc' = "prepare"
    /\ UNCHANGED <<disk, journal, todo, before, seen, aborting, failures, budget>>

\* prepareEntries hashes every target's current state.
Prepare ==
    /\ pc = "prepare"
    /\ before' = [i \in Entry |-> IF goal[i] = Keep THEN Absent ELSE final[i]]
    /\ pc' = "journal"
    /\ UNCHANGED <<disk, journal, todo, goal, seen, aborting, failures, budget>>

WriteJournal ==
    /\ pc = "journal"
    /\ journal' = [status |-> "prepared", pre |-> before, post |-> goal]
    /\ todo' = Writes(goal)
    /\ pc' = "temps"
    /\ UNCHANGED <<disk, before, goal, seen, aborting, failures, budget>>

CreateTemp(i) ==
    /\ pc = "temps"
    /\ First(i)
    /\ temp' = [temp EXCEPT ![i] = goal[i]]
    /\ todo' = todo \ {i}
    /\ UNCHANGED <<final, backup, journal, pc, before, goal, seen, aborting, failures, budget>>

TempsCreated ==
    /\ pc = "temps"
    /\ todo = {}
    /\ todo' = Targets(goal)
    /\ pc' = "swap"
    /\ UNCHANGED <<disk, journal, before, goal, seen, aborting, failures, budget>>

\* rename(final, backup) for an entry whose file existed ...
MoveToBackup(i) ==
    /\ pc = "swap"
    /\ First(i)
    /\ before[i] # Absent
    /\ final[i] # Absent
    /\ backup' = [backup EXCEPT ![i] = final[i]]
    /\ final' = [final EXCEPT ![i] = Absent]
    /\ pc' = "install"
    /\ UNCHANGED <<temp, journal, todo, before, goal, seen, aborting, failures, budget>>

\* Faulty variant: the backup is dropped as soon as the new file is there.
InstallDroppingBackup(i) ==
    /\ First(i)
    /\ pc = "install" \/ (pc = "swap" /\ before[i] = Absent)
    /\ final' = [final EXCEPT ![i] = goal[i]]
    /\ backup' = [backup EXCEPT ![i] = Absent]
    /\ temp' = [temp EXCEPT ![i] = Absent]
    /\ todo' = todo \ {i}
    /\ pc' = "swap"
    /\ UNCHANGED <<journal, before, goal, seen, aborting, failures, budget>>

\* ... then rename(temp, final) for a write, nothing more for a delete.
Install(i) ==
    /\ First(i)
    /\ pc = "install" \/ (pc = "swap" /\ before[i] = Absent)
    /\ IF goal[i] = Absent
       THEN UNCHANGED <<final, temp>>
       ELSE /\ temp[i] # Absent
            /\ final' = [final EXCEPT ![i] = temp[i]]
            /\ temp' = [temp EXCEPT ![i] = Absent]
    /\ todo' = todo \ {i}
    /\ pc' = "swap"
    /\ UNCHANGED <<backup, journal, before, goal, seen, aborting, failures, budget>>

\* The durable commit marker.
MarkCommitted ==
    /\ pc = "swap"
    /\ todo = {}
    /\ journal' = Marked("committed")
    /\ todo' = Targets(goal)
    /\ pc' = "clean"
    /\ UNCHANGED <<disk, before, goal, seen, aborting, failures, budget>>

\* cleanupCommittedArtifacts; a temp was renamed away when it was installed.
CleanEntry(i) ==
    /\ pc = "clean"
    /\ First(i)
    /\ backup' = [backup EXCEPT ![i] = Absent]
    /\ temp' = [temp EXCEPT ![i] = Absent]
    /\ todo' = todo \ {i}
    /\ UNCHANGED <<final, journal, pc, before, goal, seen, aborting, failures, budget>>

\* Faulty variant: the journal is removed although a cleanup failed.
CloseRegardless ==
    /\ pc = "clean"
    /\ todo = {}
    /\ journal' = NoJournal
    /\ Finish
    /\ UNCHANGED <<disk, budget>>

\* All artifacts are gone: the journal is removed.  Otherwise it is rewritten
\* as cleanup_pending and TRANSACTION_CLEANUP_PENDING is thrown.
CloseCommit ==
    /\ pc = "clean"
    /\ todo = {}
    /\ journal' = IF failures THEN Marked("cleanup_pending")
                              ELSE NoJournal
    /\ Finish
    /\ UNCHANGED <<disk, budget>>

-----------------------------------------------------------------------------
(* reconcileEntryToOldState: entries in reverse order, each hashed once and *)
(* then changed on the strength of what was seen                            *)

\* Both reconciliations begin an entry by hashing its three paths.
HashEntry(i) ==
    /\ \/ pc = "old" /\ Last(i) /\ pc' = "oldFinal"
       \/ pc = "new" /\ First(i) /\ pc' = "newFinal"
    /\ seen' = [final |-> final[i], backup |-> backup[i], temp |-> temp[i]]
    /\ UNCHANGED <<disk, journal, todo, before, goal, aborting, failures, budget>>

\* Faulty variant: the backup is restored over whatever is there.
RestoresBlindly(i) == before[i] # Absent /\ seen.backup = before[i]

\* Faulty variant: a kill between the two renames of an entry is forgotten.
RestoresInstalledOnly(i) ==
    /\ before[i] # Absent
    /\ seen.backup = before[i]
    /\ seen.final \in {goal[i], before[i]} \ {Absent}

\* The backup holds the pre-state and the target is ours to replace.
Restores(i) ==
    /\ before[i] # Absent
    /\ seen.backup = before[i]
    /\ seen.final \in {goal[i], Absent, before[i]}

\* The target holds what the transaction put there.
Removes(i) ==
    /\ seen.final = goal[i]
    /\ before[i] = Absent \/ seen.backup = before[i]

\* The transaction had not reached this entry.
Unreached(i) ==
    /\ seen.final = before[i]
    /\ before[i] # Absent => seen.backup # before[i]

AfterFinal(i) == IF Restores(i) THEN "oldRestore" ELSE "oldTemp"

RemoveInstalled(i) ==
    /\ pc = "oldFinal"
    /\ Last(i)
    /\ Removes(i)
    /\ final' = [final EXCEPT ![i] = Absent]
    /\ pc' = AfterFinal(i)
    /\ UNCHANGED <<backup, temp, journal, todo, before, goal, seen, aborting, failures, budget>>

NothingToRemove(i) ==
    /\ pc = "oldFinal"
    /\ Last(i)
    /\ ~Removes(i)
    /\ Restores(i) \/ Unreached(i)
    /\ pc' = AfterFinal(i)
    /\ UNCHANGED <<disk, journal, todo, before, goal, seen, aborting, failures, budget>>

RestoreBackup(i) ==
    /\ pc = "oldRestore"
    /\ Last(i)
    /\ backup[i] # Absent
    /\ final' = [final EXCEPT ![i] = backup[i]]
    /\ backup' = [backup EXCEPT ![i] = Absent]
    /\ pc' = "oldTemp"
    /\ UNCHANGED <<temp, journal, todo, before, goal, seen, aborting, failures, budget>>

-----------------------------------------------------------------------------
(* reconcileEntryToNewState                                                 *)

\* Only a target that holds the committed content lets its backup go.
Cleanable(i) ==
    /\ seen.final = goal[i]
    /\ before[i] # Absent => seen.backup \in {before[i], Absent}

RemoveBackup(i) ==
    /\ pc = "newFinal"
    /\ First(i)
    /\ Cleanable(i)
    /\ backup' = IF before[i] # Absent THEN [backup EXCEPT ![i] = Absent] ELSE backup
    /\ pc' = "newTemp"
    /\ UNCHANGED <<final, temp, journal, todo, before, goal, seen, aborting, failures, budget>>

-----------------------------------------------------------------------------
(* Both reconciliations                                                     *)

OldStep == {"old", "oldFinal", "oldRestore", "oldTemp"}
NewStep == {"new", "newFinal", "newTemp"}

NextEntry(i) ==
    /\ todo' = todo \ {i}
    /\ pc' = IF pc \in OldStep THEN "old" ELSE "new"

\* The entry the current reconciliation is at.
Current(i) == IF pc \in OldStep THEN Last(i) ELSE First(i)

\* A temp is removed only if it holds what the transaction wrote.
SweepTemp(i) ==
    /\ pc \in {"oldTemp", "newTemp"}
    /\ Current(i)
    /\ seen.temp \in {goal[i], Absent}
    /\ temp' = [temp EXCEPT ![i] = Absent]
    /\ NextEntry(i)
    /\ UNCHANGED <<final, backup, journal, before, goal, seen, aborting, failures, budget>>

\* A state the transaction cannot have produced is left alone.
RefuseEntry(i) ==
    /\ Current(i)
    /\ \/ pc = "oldFinal" /\ ~Removes(i) /\ ~Restores(i) /\ ~Unreached(i)
       \/ pc = "newFinal" /\ ~Cleanable(i)
    /\ failures' = TRUE
    /\ NextEntry(i)
    /\ UNCHANGED <<disk, journal, before, goal, seen, aborting, budget>>

\* Every entry reconciled: the journal is removed.  A rollback of a failed
\* commit then ends the command; a recovery looks for the next journal.
CloseRecovery ==
    /\ pc \in {"old", "new"}
    /\ todo = {}
    /\ ~failures
    /\ journal' = NoJournal
    /\ IF aborting
       THEN Finish
       ELSE /\ pc' = "recover"
            /\ before' = NoState
            /\ goal' = NoGoal
            /\ seen' = NothingSeen
            /\ UNCHANGED <<todo, aborting, failures>>
    /\ UNCHANGED <<disk, budget>>

\* Some entry failed: the journal and what it needs stay for the next command.
GiveUp ==
    /\ pc \in {"old", "new"}
    /\ todo = {}
    /\ failures
    /\ Finish
    /\ UNCHANGED <<disk, journal, budget>>

-----------------------------------------------------------------------------
(* Faults and users                                                         *)

CommitStep == {"temps", "swap", "install"}

Fault == faults < MaxFaults /\ faults' = faults + 1

\* A call of commit fails before the marker: roll back in process.
CommitFails ==
    /\ Fault
    /\ pc \in CommitStep
    /\ pc' = "old"
    /\ todo' = Targets(goal)
    /\ aborting' = TRUE
    /\ failures' = FALSE
    /\ UNCHANGED <<disk, journal, before, goal, seen, edits>>

\* An unlink fails while cleaning up: recorded, the loop goes on.
CleanFails(i) ==
    /\ Fault
    /\ pc = "clean"
    /\ First(i)
    /\ failures' = TRUE
    /\ todo' = todo \ {i}
    /\ UNCHANGED <<disk, journal, pc, before, goal, seen, aborting, edits>>

\* The journal cannot be removed, or the cleanup_pending rewrite fails too.
CloseFails ==
    /\ Fault
    /\ pc = "clean"
    /\ todo = {}
    /\ \/ UNCHANGED journal
       \/ journal' = Marked("cleanup_pending")
    /\ Finish
    /\ UNCHANGED <<disk, edits>>

\* A call on one entry fails while reconciling: recorded, the loop goes on.
EntryFails(i) ==
    /\ Fault
    /\ pc \in (OldStep \cup NewStep)
    /\ Current(i)
    /\ failures' = TRUE
    /\ NextEntry(i)
    /\ UNCHANGED <<disk, journal, before, goal, seen, aborting, edits>>

\* A kill; also the failure of a call whose error ends the command with
\* nothing more done (reading or writing the first journal, removing it).
Crash ==
    /\ Fault
    /\ pc # "idle"
    /\ Finish
    /\ UNCHANGED <<disk, journal, edits>>

\* Users change the targets between commands.
UserEdit(i, c) ==
    /\ pc = "idle"
    /\ edits < MaxEdits
    /\ c # final[i]
    /\ edits' = edits + 1
    /\ final' = [final EXCEPT ![i] = c]
    /\ UNCHANGED <<backup, temp, journal, local, faults>>

Step ==
    \/ NothingPending
    \/ LoadJournal
    \/ Prepare
    \/ WriteJournal
    \/ TempsCreated
    \/ MarkCommitted
    \/ CloseCommit
    \/ CloseRecovery
    \/ GiveUp
    \/ \E i \in Entry :
        \/ CreateTemp(i)
        \/ MoveToBackup(i)
        \/ Install(i)
        \/ CleanEntry(i)
        \/ HashEntry(i)
        \/ RemoveInstalled(i)
        \/ NothingToRemove(i)
        \/ RestoreBackup(i)
        \/ RemoveBackup(i)
        \/ SweepTemp(i)
        \/ RefuseEntry(i)

Failure ==
    \/ CommitFails
    \/ CloseFails
    \/ Crash
    \/ \E i \in Entry : CleanFails(i) \/ EntryFails(i)

Next ==
    \/ Start
    \/ \E g \in [Entry -> Goal] : Targets(g) # {} /\ Stage(g)
    \/ Step
    \/ Failure
    \/ \E i \in Entry, c \in FileState : UserEdit(i, c)

Spec == Init /\ [][Next]_vars

\* A running command keeps making its calls.
FairSpec == Spec /\ WF_vars(Step)

-----------------------------------------------------------------------------
(* Properties                                                               *)

TypeOK ==
    /\ final \in [Entry -> FileState]
    /\ backup \in [Entry -> FileState]
    /\ temp \in [Entry -> FileState]
    /\ journal \in [status : {"none", "prepared", "committed", "cleanup_pending"},
                    pre : [Entry -> FileState],
                    post : [Entry -> Goal]]
    /\ pc \in {"idle", "recover", "stage", "prepare", "journal", "clean"}
                \cup CommitStep \cup OldStep \cup NewStep
    /\ todo \subseteq Entry
    /\ before \in [Entry -> FileState]
    /\ goal \in [Entry -> Goal]
    /\ seen \in [final : FileState, backup : FileState, temp : FileState]
    /\ aborting \in BOOLEAN
    /\ failures \in BOOLEAN
    /\ edits \in Nat
    /\ faults \in Nat

\* Once no journal is left, no backup or temp is left either: what a command
\* leaves behind is always listed by a journal a later command will find.
NoOrphanArtifacts ==
    journal.status = "none" => backup = NoState /\ temp = NoState

\* Until the commit marker is durable, no step of a command destroys the last
\* copy of a file's old content, a failing or repeated recovery included; the
\* user's own edits are the only steps that may.
OldContentHeld(i) == journal.pre[i] \in {Absent, final[i], backup[i]}

OldContentKept ==
    [][journal.status = "prepared" /\ edits' = edits =>
        \A i \in Entry :
            OldContentHeld(i) => journal.pre[i] \in {Absent, final'[i], backup'[i]}]_vars

\* What a user reads, or will read once recovery is done: old content until
\* the marker, the target itself afterwards and where the user has edited.
Visible ==
    [i \in Entry |->
        IF journal.status # "prepared" \/ journal.post[i] = Keep THEN final[i]
        ELSE IF journal.pre[i] = Absent
             THEN IF final[i] = journal.post[i] THEN Absent ELSE final[i]
             ELSE IF /\ backup[i] = journal.pre[i]
                     /\ final[i] \in {Absent, journal.pre[i], journal.post[i]}
                  THEN journal.pre[i]
                  ELSE final[i]]

\* The transaction is atomic: seen through Visible, every step of the command,
\* its rollback and its recovery changes nothing, except the commit marker,
\* which applies the whole plan; a user's edit between a kill and the recovery
\* is never overwritten.
Atomic == INSTANCE AtomicFiles WITH files <- Visible, plan <- journal.post
ImplementsAtomicFiles == Atomic!Spec

\* When users leave the files alone, a recovery that meets no fault removes
\* the journal: no sequence of earlier faults leaves a state it refuses.
RecoveryConverges ==
    (pc = "recover" /\ edits = 0 /\ faults = MaxFaults) ~> journal.status = "none"

-----------------------------------------------------------------------------
(* The inductive strengthening the proofs in AdapterProofs use              *)

\* Each phase of a command works on the journal it should, from memory that
\* agrees with it.
Remembers == before = journal.pre /\ goal = journal.post

MemoryInv ==
    /\ pc \in CommitStep \cup OldStep => journal.status = "prepared" /\ Remembers
    /\ pc = "clean" => journal.status = "committed" /\ Remembers
    /\ pc \in NewStep => journal.status \in {"committed", "cleanup_pending"} /\ Remembers
    /\ pc \in {"stage", "prepare", "journal"} => journal.status = "none"
    /\ pc \in CommitStep \cup OldStep \cup NewStep \cup {"clean"} => todo \subseteq Targets(goal)

\* A journal accounts for every artifact: a backup is the old content, a temp
\* the new one, and there are none without a journal.
ArtifactInv ==
    /\ NoOrphanArtifacts
    /\ \A i \in Entry :
        /\ backup[i] \in {Absent, journal.pre[i]}
        /\ temp[i] \in {Absent, journal.post[i]}
        /\ journal.post[i] = Keep => journal.pre[i] = Absent

\* How far a commit has come with each entry.
Intact(i) ==
    /\ final[i] = before[i]
    /\ backup[i] = Absent
Moved(i) ==
    /\ before[i] # Absent
    /\ final[i] = Absent
    /\ backup[i] = before[i]
Installed(i) ==
    /\ final[i] = goal[i]
    /\ backup[i] = before[i]
Ready(i) == goal[i] # Absent => temp[i] = goal[i]
Clean(i) == backup[i] = Absent /\ temp[i] = Absent

CommitInv ==
    /\ pc = "journal" =>
        before = [i \in Entry |-> IF goal[i] = Keep THEN Absent ELSE final[i]]
    /\ pc = "temps" => \A i \in Targets(goal) :
        Intact(i) /\ (i \notin todo => Ready(i))
    /\ pc \in {"swap", "install"} => \A i \in Targets(goal) :
        IF i \notin todo THEN Installed(i)
        ELSE /\ Ready(i)
             /\ IF pc = "install" /\ First(i) THEN Moved(i) ELSE Intact(i)
    /\ pc = "install" => todo # {}

\* What a reconciliation knows about the entry it is at and has achieved for
\* those it is done with.
Done(i) == i \in Targets(goal) \ todo /\ ~failures

ReconcileInv ==
    /\ pc \in OldStep \cup NewStep \cup {"clean"} =>
        \A i \in Entry : Done(i) => Clean(i)
    /\ pc \in OldStep =>
        \A i \in Entry : Done(i) /\ before[i] = Absent => final[i] = Absent
    /\ \A i \in Entry : Current(i) =>
        /\ pc \in {"oldFinal", "newFinal"} =>
            seen = [final |-> final[i], backup |-> backup[i], temp |-> temp[i]]
        /\ pc = "oldRestore" =>
            /\ before[i] # Absent
            /\ backup[i] = before[i]
            /\ final[i] \in {Absent, before[i]}
            /\ seen.temp = temp[i]
        /\ pc \in {"oldTemp", "newTemp"} => backup[i] = Absent /\ seen.temp = temp[i]
        /\ pc = "oldTemp" /\ before[i] = Absent => final[i] = Absent
    /\ pc \in {"oldFinal", "oldRestore", "oldTemp", "newFinal", "newTemp"} => todo # {}

TxInv == TypeOK /\ MemoryInv /\ ArtifactInv /\ CommitInv /\ ReconcileInv
=============================================================================
