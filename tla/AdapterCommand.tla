--------------------------- MODULE AdapterCommand ---------------------------
(***************************************************************************)
(* `adapter install` and `adapter upgrade --write` on top of the journaled  *)
(* transaction: a command reads the manifest and the generated files, works *)
(* out one action per file, recovers what an earlier command left, and only *)
(* then stages its plan, the manifest last.                                 *)
(*                                                                         *)
(* Entries 1 .. N-1 are the generated files and entry N is the manifest,    *)
(* whose content is the hash recorded for each file.  Equal hashes stand    *)
(* for equal contents.  The model pin in the agent profile, one more target *)
(* of the same transaction, is left out.                                    *)
(***************************************************************************)
EXTENDS FileTransaction

CONSTANTS
    Generated,     \* texts some generator version emits
    UserText,      \* texts only users write
    Nothing,       \* no manifest entry; no file emitted
    Generations,   \* what a generator version emits for each file, or Nothing
    Dynamic,       \* files in the reserved create-once namespace
    Flags,         \* the options --force and --accept-modified users may give
    MaxRuns        \* bound: commands

Manifest == N
File == 1 .. N - 1
Text == Generated \cup UserText

ASSUME TextsDiffer == Generated \cap UserText = {} /\ Nothing \notin Text
ASSUME TextsAndManifestsAreContent ==
    Text \cup [File -> Generated \cup {Nothing}] \subseteq Content
ASSUME GenerationsEmitFiles == Generations \subseteq [File -> Generated \cup {Nothing}]
ASSUME FlagsAreOptions == Flags \subseteq SUBSET {"force", "acceptModified"}
ASSUME DynamicAreFiles == Dynamic \subseteq File
ASSUME ManifestIsTarget == N # 0

VARIABLES
    plan,      \* the command's inputs and its action for each file
    outcome,   \* how the command ended
    runs       \* commands started so far

commandVars == <<plan, outcome, runs>>
allVars == <<vars, commandVars>>

NoRecord == [f \in File |-> Nothing]
NoPlan == [mode |-> "install", flags |-> {}, gen |-> NoRecord,
           action |-> [f \in File |-> "none"], manifest |-> NoRecord]

CommandInit ==
    /\ Init
    /\ final[Manifest] = Absent
    /\ \A f \in File : final[f] \in Text \cup {Absent}
    /\ plan = NoPlan
    /\ outcome = "none"
    /\ runs = 0

-----------------------------------------------------------------------------
(* Planning                                                                 *)

\* The manifest on disk; without one nothing is tracked.
Recorded(f) ==
    IF final[Manifest] = Absent THEN Nothing ELSE final[Manifest][f]

\* decideAction over classifyFileState, for a file the generator emits.
DecideAction(f, mode, flags, want) ==
    CASE final[f] = Absent -> "write"
      [] final[f] # Absent /\ Recorded(f) = Nothing ->
            IF "force" \notin flags THEN "skip"
            ELSE IF final[f] = want THEN "adopt" ELSE "replace_unmanaged"
      [] final[f] # Absent /\ Recorded(f) = final[f] ->
            IF final[f] = want THEN "skip" ELSE "update"
      [] final[f] # Absent /\ Recorded(f) \notin {Nothing, final[f]} ->
            IF final[f] = want
            THEN IF mode = "install" THEN "skip" ELSE "update_manifest"
            ELSE IF mode = "upgrade" /\ "acceptModified" \in flags
                 THEN "update" ELSE "refuse"

\* A dynamic file is created once; an existing one is never read.
DynamicAction(f, want) ==
    IF final[f] = Absent THEN "write"
    ELSE IF Recorded(f) = want THEN "skip" ELSE "warn"

\* Faulty variant: a dropped file is pruned without comparing its hash.
PrunesEdited(f, mode) ==
    IF mode = "install" \/ Recorded(f) = Nothing \/ final[f] = Absent THEN "none"
    ELSE "prune"

\* A tracked file the generator dropped; only upgrade looks at it.
OrphanAction(f, mode) ==
    IF mode = "install" \/ Recorded(f) = Nothing \/ final[f] = Absent THEN "none"
    ELSE IF final[f] = Recorded(f) THEN "prune" ELSE "refuse"

PlannedAction(f, mode, flags, want) ==
    IF want = Nothing THEN OrphanAction(f, mode)
    ELSE IF f \in Dynamic THEN DynamicAction(f, want)
    ELSE DecideAction(f, mode, flags, want)

Written == {"write", "replace_unmanaged", "update"}
Refreshed == Written \cup {"adopt", "update_manifest"}

\* Faulty variant: an update keeps the hash of the text it replaced.
RecordBeforeUpdate(f, action, want) ==
    CASE action \in Refreshed \ {"update"} -> want
      [] action \in {"skip", "warn", "update"} -> Recorded(f)
      [] OTHER -> Nothing

\* The hash the new manifest records.
NewRecord(f, action, want) ==
    CASE action \in Refreshed -> want
      [] action \in {"skip", "warn"} -> Recorded(f)
      [] OTHER -> Nothing

\* Read the manifest and every file, decide; a refusal ends the command here.
Plan(mode, flags, gen) ==
    /\ outcome # "running"
    /\ pc = "idle"
    /\ runs < MaxRuns
    /\ mode = "upgrade" => final[Manifest] # Absent
    /\ LET action == [f \in File |-> PlannedAction(f, mode, flags, gen[f])]
       IN  /\ plan' = [mode |-> mode, flags |-> flags, gen |-> gen, action |-> action,
                       manifest |-> [f \in File |-> NewRecord(f, action[f], gen[f])]]
           /\ outcome' = IF \E f \in File : action[f] = "refuse" THEN "refused" ELSE "running"
    /\ runs' = runs + 1
    /\ UNCHANGED vars

-----------------------------------------------------------------------------
(* Running the plan                                                         *)

BeginRecovery ==
    /\ outcome = "running"
    /\ Start
    /\ UNCHANGED commandVars

\* The post-state staged for each entry.
PlannedGoal ==
    [i \in Entry |->
        IF i = Manifest THEN plan.manifest
        ELSE IF plan.action[i] \in Written THEN plan.gen[i]
        ELSE IF plan.action[i] = "prune" THEN Absent
        ELSE Keep]

StagePlan ==
    /\ Stage(PlannedGoal)
    /\ UNCHANGED commandVars

CreatesOverDynamic == \E f \in Dynamic : goal[f] \in Content /\ final[f] # Absent

\* Faulty variant: a dynamic target that exists by now is replaced.
PrepareOver ==
    /\ Prepare
    /\ UNCHANGED commandVars

\* prepareEntries hashes the targets; a dynamic one must still be absent.
PrepareEntries ==
    /\ ~CreatesOverDynamic
    /\ Prepare
    /\ UNCHANGED commandVars

PrepareRefuses ==
    /\ pc = "prepare"
    /\ CreatesOverDynamic
    /\ Finish
    /\ outcome' = "failed"
    /\ UNCHANGED <<disk, journal, budget, plan, runs>>

\* The other steps of the transaction.  Past the marker the plan is in force,
\* whatever becomes of the cleanup.
Transaction ==
    /\ (Step /\ pc # "prepare") \/ Failure
    /\ outcome' = IF pc' # "idle" THEN outcome
                  ELSE IF pc = "clean" THEN "committed" ELSE "failed"
    /\ UNCHANGED <<plan, runs>>

\* Between commands users edit, add, delete and check out generated files.
LocalEdit(f, c) ==
    /\ outcome # "running"
    /\ UserEdit(f, c)
    /\ outcome' = "none"
    /\ UNCHANGED <<plan, runs>>

CommandNext ==
    \/ \E mode \in {"install", "upgrade"}, flags \in Flags, gen \in Generations :
        Plan(mode, flags, gen)
    \/ BeginRecovery
    \/ StagePlan
    \/ PrepareEntries
    \/ PrepareRefuses
    \/ Transaction
    \/ \E f \in File, c \in Text \cup {Absent} : LocalEdit(f, c)

CommandSpec == CommandInit /\ [][CommandNext]_allVars

-----------------------------------------------------------------------------
(* Properties                                                               *)

CommitsNow == journal.status = "prepared" /\ journal'.status = "committed"

\* The commit replaces or deletes a text a user wrote.
LosesUserText(f) ==
    journal.pre[f] \in UserText /\ journal.post[f] \notin {Keep, journal.pre[f]}

WasTracked(f) ==
    journal.pre[Manifest] # Absent /\ journal.pre[Manifest][f] # Nothing

AcceptsModified == plan.mode = "upgrade" /\ "acceptModified" \in plan.flags

\* What a user wrote is given up only with the option that says so: --force for
\* a file no manifest tracks, upgrade --accept-modified for one that is tracked.
ConsentNeeded ==
    [][CommitsNow => \A f \in File : LosesUserText(f) =>
        IF WasTracked(f) THEN AcceptsModified ELSE "force" \in plan.flags]_allVars

\* No fault strikes a command with options, and none starts over a transaction
\* that an earlier one left torn.
OptionsUninterrupted ==
    /\ faults' # faults => plan.flags = {}
    /\ runs' # runs /\ plan'.flags # {} => journal.status # "prepared"

\* The comment on decideAction: --force "NEVER overrides managed-modified".
ForceNeverOverridesModified ==
    [][CommitsNow /\ plan.flags = {"force"} =>
        \A f \in File : LosesUserText(f) => ~WasTracked(f)]_allVars

\* A dynamic file is created where none is, never replaced, although the plan
\* was made before recovery put files back.
DynamicNeverOverwritten ==
    [][CommitsNow => \A f \in Dynamic :
        journal.post[f] \in Content => journal.pre[f] = Absent]_allVars

\* The manifest reflects the post-write state: as long as no command was killed
\* or failed, one that has committed leaves the hash of what is on disk for all
\* it wrote, adopted or refreshed.
ManifestTellsTruth ==
    faults = 0 /\ outcome = "committed" => \A f \in File :
        plan.action[f] \in Refreshed =>
            final[Manifest] # Absent /\ final[Manifest][f] = final[f]

\* A refusal means local modifications or an interrupted command: without either
\* no sequence of installs and upgrades across generator versions is refused.
RefusesOnlyEdits == edits = 0 /\ faults = 0 => outcome # "refused"
=============================================================================
