-------------------------- MODULE WriteLockProofs --------------------------
(***************************************************************************)
(* Safety of the advisory write lock for every set of commands, phases and  *)
(* inodes: LockInv is inductive, mutual exclusion follows from it, and so   *)
(* does the refinement of RoadmapSpec.                                      *)
(***************************************************************************)
EXTENDS WriteLock, TLAPS

\* The user-facing half of every step leaves the design files alone, so the
\* steps of the lock and of its users share one list of definitions.
USE NobodyIsNoProcess DEF Holding, Goto, lockFile, design

\* The initial state satisfies the inductive invariant.
LEMMA InitEstablishes == Init => LockInv
<1> SUFFICES ASSUME Init PROVE LockInv
  OBVIOUS
<1>1. TypeOK
  BY DEF Init, TypeOK
<1>2. HolderOwnsFile /\ CertaintyHolds /\ HeldByTheLiving
  BY DEF Init, HolderOwnsFile, CertaintyHolds, HeldByTheLiving
<1>3. RoadmapIsBacked /\ SnapshotIsFresh /\ SnapshotIsBacked
  BY DEF Init, RoadmapIsBacked, SnapshotIsFresh, SnapshotIsBacked
<1> QED
  BY <1>1, <1>2, <1>3 DEF LockInv

\* Types are preserved by every step.
LEMMA StepPreservesTypes == ASSUME TypeOK, Next PROVE TypeOK'
<1> USE DEF TypeOK
<1>1. ASSUME NEW p \in Proc, NEW phases \in SUBSET PhaseId, Start(p, phases) PROVE TypeOK'
  BY <1>1 DEF Start
<1>2. ASSUME NEW p \in Proc, NEW i \in Inode, Create(p, i) PROVE TypeOK'
  BY <1>2 DEF Create
<1>3. ASSUME NEW p \in Proc, CreateRefused(p) PROVE TypeOK'
  BY <1>3 DEF CreateRefused
<1>4. ASSUME NEW p \in Proc, Refuse(p) PROVE TypeOK'
  BY <1>4 DEF Refuse
<1>5. ASSUME NEW p \in Proc, WriteHolder(p) PROVE TypeOK'
  BY <1>5 DEF WriteHolder
<1>6. ASSUME NEW p \in Proc, RecordInode(p) PROVE TypeOK'
  BY <1>6 DEF RecordInode
<1>7. ASSUME NEW p \in Proc, AcquireFails(p) PROVE TypeOK'
  BY <1>7 DEF AcquireFails
<1>8. ASSUME NEW p \in Proc, LoadRoadmap(p) PROVE TypeOK'
  BY <1>8 DEF LoadRoadmap
<1>9. ASSUME NEW p \in Proc, NEW id \in PhaseId, WritePhaseFile(p, id) PROVE TypeOK'
  BY <1>9 DEF WritePhaseFile
<1>10. ASSUME NEW p \in Proc, SaveRoadmap(p) PROVE TypeOK'
  BY <1>10 DEF SaveRoadmap
<1>11. ASSUME NEW p \in Proc, LeaveBody(p) PROVE TypeOK'
  BY <1>11 DEF LeaveBody
<1>12. ASSUME NEW p \in Proc, ReleaseStat(p) PROVE TypeOK'
  BY <1>12 DEF ReleaseStat
<1>13. ASSUME NEW p \in Proc, ReleaseUnlink(p) PROVE TypeOK'
  BY <1>13 DEF ReleaseUnlink
<1>14. ASSUME NEW p \in Proc, ReleaseGivesUp(p) PROVE TypeOK'
  BY <1>14 DEF ReleaseGivesUp
<1>15. ASSUME NEW p \in Proc, Crash(p) PROVE TypeOK'
  BY <1>15 DEF Crash
<1>16. CASE UserVerifies
  BY <1>16 DEF UserVerifies
<1>17. CASE UserRemoves
  BY <1>17 DEF UserRemoves
<1> QED
  BY <1>1, <1>2, <1>3, <1>4, <1>5, <1>6, <1>7, <1>8, <1>9, <1>10, <1>11, <1>12,
     <1>13, <1>14, <1>15, <1>16, <1>17 DEF Next, Step, Fault

\* The lock half of the invariant: whoever holds the lock owns the file, and
\* a user who is certain sees a file nobody holds.  Only Create makes a holder,
\* and it needs the path to be free.
LockHalf == HolderOwnsFile /\ CertaintyHolds /\ HeldByTheLiving

\* Every step preserves the lock half.
LEMMA StepPreservesLock == ASSUME TypeOK, LockHalf, Next PROVE LockHalf'
<1> USE DEF TypeOK, LockHalf, HolderOwnsFile, CertaintyHolds, HeldByTheLiving
<1>1. ASSUME NEW p \in Proc, NEW phases \in SUBSET PhaseId, Start(p, phases) PROVE LockHalf'
  BY <1>1 DEF Start
<1>2. ASSUME NEW p \in Proc, NEW i \in Inode, Create(p, i) PROVE LockHalf'
  BY <1>2 DEF Create
<1>3. ASSUME NEW p \in Proc, CreateRefused(p) \/ Refuse(p) PROVE LockHalf'
  BY <1>3 DEF CreateRefused, Refuse
<1>4. ASSUME NEW p \in Proc, WriteHolder(p) \/ RecordInode(p) PROVE LockHalf'
  BY <1>4 DEF WriteHolder, RecordInode
<1>5. ASSUME NEW p \in Proc, AcquireFails(p) PROVE LockHalf'
  BY <1>5 DEF AcquireFails
<1>6. ASSUME NEW p \in Proc, NEW id \in PhaseId,
             LoadRoadmap(p) \/ WritePhaseFile(p, id) \/ SaveRoadmap(p) \/ LeaveBody(p)
      PROVE LockHalf'
  BY <1>6 DEF LoadRoadmap, WritePhaseFile, SaveRoadmap, LeaveBody
<1>7. ASSUME NEW p \in Proc, ReleaseStat(p) \/ ReleaseUnlink(p) PROVE LockHalf'
  BY <1>7 DEF ReleaseStat, ReleaseUnlink
<1>8. ASSUME NEW p \in Proc, ReleaseGivesUp(p) PROVE LockHalf'
  BY <1>8 DEF ReleaseGivesUp
<1>9. ASSUME NEW p \in Proc, Crash(p) PROVE LockHalf'
  BY <1>9 DEF Crash
<1>10. CASE UserVerifies
  BY <1>10 DEF UserVerifies
<1>11. CASE UserRemoves
  BY <1>11 DEF UserRemoves
<1>12. ASSUME NEW p \in Proc, LoadRoadmap(p) \/ SaveRoadmap(p) \/ LeaveBody(p) PROVE LockHalf'
  BY <1>12 DEF LoadRoadmap, SaveRoadmap, LeaveBody
<1> QED
  BY <1>1, <1>2, <1>3, <1>4, <1>5, <1>6, <1>7, <1>8, <1>9, <1>10, <1>11, <1>12
  DEF Next, Step, Fault

\* The design half: loaded snapshots are fresh and backed by files.  It needs
\* the lock half, which rules out a second command inside the body.
DesignHalf == RoadmapIsBacked /\ SnapshotIsFresh /\ SnapshotIsBacked

\* A step that moves no command into the body and leaves the design files and
\* the snapshots alone preserves the design half.
LEMMA OutsideBody ==
  ASSUME DesignHalf, UNCHANGED <<roadmap, files, snap>>,
         \A q \in Proc : pc'[q] \in {"loaded", "filed"} => pc'[q] = pc[q]
  PROVE  DesignHalf'
  BY DEF DesignHalf, RoadmapIsBacked, SnapshotIsFresh, SnapshotIsBacked

\* Every step preserves the design half.
LEMMA StepPreservesDesign ==
  ASSUME TypeOK, LockHalf, DesignHalf, Next PROVE DesignHalf'
<1> USE DEF TypeOK
<1>1. ASSUME NEW p \in Proc, LoadRoadmap(p) PROVE DesignHalf'
  BY <1>1 DEF LoadRoadmap, DesignHalf, RoadmapIsBacked, SnapshotIsFresh, SnapshotIsBacked
<1>2. ASSUME NEW p \in Proc, NEW id \in PhaseId, WritePhaseFile(p, id) PROVE DesignHalf'
  <2>1. \A q \in Proc : pc[q] \in {"loaded", "filed"} => q = p
    BY <1>2 DEF WritePhaseFile, LockHalf, HolderOwnsFile
  <2>2. id \in PhaseId \ roadmap /\ snap'[p] = roadmap \cup {id}
    BY <1>2 DEF WritePhaseFile, DesignHalf, SnapshotIsFresh
  <2> QED
    BY <1>2, <2>1, <2>2
    DEF WritePhaseFile, DesignHalf, RoadmapIsBacked, SnapshotIsFresh, SnapshotIsBacked
<1>3. ASSUME NEW p \in Proc, SaveRoadmap(p) PROVE DesignHalf'
  <2>1. \A q \in Proc : pc[q] \in {"loaded", "filed"} => q = p
    BY <1>3 DEF SaveRoadmap, LockHalf, HolderOwnsFile
  <2> QED
    BY <1>3, <2>1
    DEF SaveRoadmap, DesignHalf, RoadmapIsBacked, SnapshotIsFresh, SnapshotIsBacked
<1>4. ASSUME NEW p \in Proc, NEW phases \in SUBSET PhaseId, Start(p, phases) PROVE DesignHalf'
  BY <1>4, OutsideBody DEF Start
<1>5. ASSUME NEW p \in Proc, NEW i \in Inode, Create(p, i) PROVE DesignHalf'
  BY <1>5, OutsideBody DEF Create
<1>6. ASSUME NEW p \in Proc, CreateRefused(p) \/ Refuse(p) \/ WriteHolder(p) PROVE DesignHalf'
  BY <1>6, OutsideBody DEF CreateRefused, Refuse, WriteHolder
<1>7. ASSUME NEW p \in Proc, RecordInode(p) \/ AcquireFails(p) \/ LeaveBody(p) PROVE DesignHalf'
  BY <1>7, OutsideBody DEF RecordInode, AcquireFails, LeaveBody
<1>8. ASSUME NEW p \in Proc, ReleaseStat(p) \/ ReleaseUnlink(p) \/ ReleaseGivesUp(p)
      PROVE DesignHalf'
  BY <1>8, OutsideBody DEF ReleaseStat, ReleaseUnlink, ReleaseGivesUp
<1>9. ASSUME NEW p \in Proc, Crash(p) PROVE DesignHalf'
  BY <1>9, OutsideBody DEF Crash
<1>10. CASE UserVerifies \/ UserRemoves
  BY <1>10, OutsideBody DEF UserVerifies, UserRemoves
<1> QED
  BY <1>1, <1>2, <1>3, <1>4, <1>5, <1>6, <1>7, <1>8, <1>9, <1>10 DEF Next, Step, Fault

\* LockInv is preserved by every step, and by stuttering.
LEMMA StepPreserves == LockInv /\ [Next]_vars => LockInv'
<1> SUFFICES ASSUME LockInv, [Next]_vars PROVE LockInv'
  OBVIOUS
<1>1. CASE Next
  BY <1>1, StepPreservesTypes, StepPreservesLock, StepPreservesDesign
  DEF LockInv, LockHalf, DesignHalf
<1>2. CASE UNCHANGED vars
  BY <1>2 DEF vars, LockInv, TypeOK, HolderOwnsFile, CertaintyHolds, HeldByTheLiving,
              RoadmapIsBacked, SnapshotIsFresh, SnapshotIsBacked
<1> QED
  BY <1>1, <1>2

\* LockInv holds in every reachable state.
THEOREM LockInvariance == Spec => []LockInv
  BY InitEstablishes, StepPreserves, PTL DEF Spec

\* Variables keep their types.
THEOREM TypeCorrect == Spec => []TypeOK
  BY LockInvariance, PTL DEF LockInv

\* No two commands are ever between the creation of the lock and its release:
\* the guarantee withWriteLock gives its body, stale locks and their manual
\* removal included.
THEOREM MutualExclusionHolds == Spec => []MutualExclusion
<1>1. LockInv => MutualExclusion
  BY DEF LockInv, HolderOwnsFile, MutualExclusion
<1> QED
  BY <1>1, LockInvariance, PTL

\* A lock file that was not abandoned belongs to a running command.
THEOREM HeldByTheLivingHolds == Spec => []HeldByTheLiving
  BY LockInvariance, PTL DEF LockInv

\* The roadmap never lists a phase that has no file.
THEOREM RoadmapIsBackedHolds == Spec => []RoadmapIsBacked
  BY LockInvariance, PTL DEF LockInv

\* The commands implement the roadmap that grows one phase at a time: only
\* SaveRoadmap changes it, and it writes a snapshot that is one phase ahead.
THEOREM RoadmapRefinement == Spec => ImplementsRoadmap
<1>1. Init => Listing!Init
  BY DEF Init, Listing!Init
<1>2. LockInv /\ [Next]_vars => [Listing!Next]_roadmap
  <2> SUFFICES ASSUME LockInv, [Next]_vars, roadmap' # roadmap PROVE Listing!Next
    OBVIOUS
  <2>1. PICK p \in Proc : SaveRoadmap(p)
    BY DEF Next, Step, Fault, vars, Start, Create, CreateRefused, Refuse, WriteHolder,
           RecordInode, AcquireFails, LoadRoadmap, WritePhaseFile, LeaveBody,
           ReleaseStat, ReleaseUnlink, ReleaseGivesUp, Crash, UserVerifies, UserRemoves
  <2>2. PICK id \in PhaseId \ roadmap : snap[p] = roadmap \cup {id}
    BY <2>1 DEF SaveRoadmap, LockInv, SnapshotIsFresh
  <2> QED
    BY <2>1, <2>2 DEF SaveRoadmap, Listing!Next, Listing!Add
<1> QED
  BY <1>1, <1>2, LockInvariance, PTL DEF Spec, ImplementsRoadmap, Listing!Spec
=============================================================================
