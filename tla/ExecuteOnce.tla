---------------------------- MODULE ExecuteOnce ----------------------------
(***************************************************************************)
(* task execute: one external executor proposes one replacement in one     *)
(* source file; the command applies it, runs the task's verification and   *)
(* records `done`, or takes its own edit back.  The command holds the      *)
(* write lock, but the lock binds neither the user, nor the executor and   *)
(* the verification command (both run with the user's rights), nor         *)
(* `task complete`, `task block` and `task resume`, which do not take it.  *)
(* All of them are the steps of Others: each may come between any two      *)
(* reads of the command.                                                   *)
(*                                                                         *)
(* A git snapshot is three processes (HEAD, status, HEAD), a replacement   *)
(* is a comparison and a later rename; each is a step of its own.          *)
(***************************************************************************)
EXTENDS Naturals

CONSTANTS
    MaxMoves,      \* bound on the steps of Others
    MaxFaults      \* bound on git failures and I/O errors

ASSUME BoundsAssumption == MaxMoves \in Nat /\ MaxFaults \in Nat

VARIABLES
    repo,      \* head, committed source, source in the tree, index and other paths touched
    project,   \* the task's state, its agent, its dependencies, its locked contract
    pc,        \* the next step of the command
    shot,      \* the snapshot being taken: the step it has reached, the HEAD and status read
    before,    \* the HEAD of snapshotBefore
    text,      \* the content read for the executor, and later the content the edit replaced
    output,    \* the executor's answer
    why,       \* the error that started the rollback
    restore,   \* what the rollback did to the source
    result,    \* what the command returns
    recorded,  \* this command published a done event
    littered,  \* ... and then failed to remove the event's temporary file
    moved,     \* Others stepped since the last mark (the command does not see this)
    moves, faults

command == <<pc, shot, before, text, output, why, restore, result, recorded, littered>>
vars == <<repo, project, command, moved, moves, faults>>

Sources == {"base", "user", "baseEdited", "userEdited", "gone"}
Edited == [base |-> "baseEdited", user |-> "userEdited"]
applied == Edited[text]

ClaimsUntouched ==
    {"ineligible", "contract", "worktree_not_clean", "blocked", "edit_rejected",
     "executor_mutated_worktree", "executor_failed", "verification_failed"}

NoResult == [kind |-> "none", rollback |-> "none"]
Result(k) == [kind |-> k, rollback |-> "none"]
ResultWith(k, r) == [kind |-> k, rollback |-> r]

NoShot == [at |-> 0, head |-> 0, ok |-> TRUE, modified |-> "no", staged |-> FALSE, other |-> FALSE]

Init ==
    /\ repo = [head |-> 0, committed |-> "base", source |-> "base",
               staged |-> FALSE, other |-> FALSE]
    /\ project = [task |-> "open", agent |-> TRUE, deps |-> TRUE, contract |-> TRUE]
    /\ pc = "resolve" /\ shot = NoShot /\ before = 0
    /\ text = "base" /\ output = "none" /\ why = "none" /\ restore = "none"
    /\ result = NoResult /\ recorded = FALSE /\ littered = FALSE
    /\ moved = FALSE /\ moves = 0 /\ faults = 0

-----------------------------------------------------------------------------
(* Everyone else.  project.yaml, the phase files and the event files are   *)
(* tracked by git, so an edit of the project shows as another path.        *)

OtherStep ==
    /\ pc # "end" /\ moves < MaxMoves
    /\ moves' = moves + 1 /\ moved' = TRUE
    /\ UNCHANGED <<command, faults>>

WriteSource ==
    /\ OtherStep
    /\ \E c \in {"user", "gone", repo.committed} :
          repo.source # c /\ repo' = [repo EXCEPT !.source = c]
    /\ UNCHANGED project

TouchTree ==       \* another file, or the index, or everything else put back
    /\ OtherStep
    /\ \E o \in BOOLEAN, s \in BOOLEAN :
          /\ <<o, s>> # <<repo.other, repo.staged>>
          /\ repo' = [repo EXCEPT !.other = o, !.staged = s]
    /\ UNCHANGED project

Commit ==
    /\ OtherStep
    /\ repo.source # "gone"
    /\ repo' = [repo EXCEPT !.head = @ + 1, !.committed = repo.source,
                            !.staged = FALSE, !.other = FALSE]
    /\ UNCHANGED project

EditProject ==
    /\ OtherStep
    /\ \/ project.agent /\ project' = [project EXCEPT !.agent = FALSE]
       \/ project.deps /\ project' = [project EXCEPT !.deps = FALSE]
       \/ project.contract /\ project' = [project EXCEPT !.contract = FALSE]
    /\ repo' = [repo EXCEPT !.other = TRUE]

OtherCommand ==    \* task complete, record-done, block or resume in another process
    /\ OtherStep
    /\ \/ project.task = "open" /\ \E t \in {"blocked", "done"} :
             project' = [project EXCEPT !.task = t]
       \/ project.task = "blocked" /\ project' = [project EXCEPT !.task = "open"]
    /\ repo' = [repo EXCEPT !.other = TRUE]

Others == WriteSource \/ TouchTree \/ Commit \/ EditProject \/ OtherCommand

-----------------------------------------------------------------------------
(* Building blocks of the command                                          *)

Unmarked == UNCHANGED <<repo, project, moved, moves>>

End(r) ==
    /\ pc' = "end" /\ result' = r
    /\ UNCHANGED <<shot, before, text, output, why, restore, recorded, littered, faults>>

Step(next) ==
    /\ pc' = next
    /\ UNCHANGED <<shot, before, text, output, why, restore, result, recorded, littered, faults>>

Rollback(error) ==
    /\ pc' = "restore" /\ why' = error
    /\ UNCHANGED <<shot, before, text, output, restore, result, recorded, littered, faults>>

Faulty == faults < MaxFaults /\ faults' = faults + 1

(* getExecutionGitSnapshot: HEAD, git status, HEAD again; two different    *)
(* HEADs, or a git command that fails, make it a git error.                *)
SnapshotPcs == {"before", "after", "edited", "hook", "final"}

TakeSnapshot ==
    /\ pc \in SnapshotPcs /\ shot.at < 3
    /\ \/ /\ shot.at = 0
          /\ shot' = [NoShot EXCEPT !.at = 1, !.head = repo.head]
          /\ moved' = (moved /\ pc # "hook")
          /\ UNCHANGED faults
       \/ /\ shot.at = 1
          /\ shot' = [shot EXCEPT !.at = 2, !.staged = repo.staged, !.other = repo.other,
                        !.modified = IF repo.source = repo.committed THEN "no"
                                     ELSE IF repo.source = "gone" THEN "D" ELSE "M"]
          /\ UNCHANGED <<moved, faults>>
       \/ /\ shot.at = 2
          /\ shot' = [shot EXCEPT !.at = 3, !.ok = (shot.head = repo.head)]
          /\ UNCHANGED <<moved, faults>>
       \/ Faulty /\ shot' = [shot EXCEPT !.at = 3, !.ok = FALSE] /\ UNCHANGED moved
    /\ UNCHANGED <<repo, project, moves, pc, before, text, output, why, restore,
                   result, recorded, littered>>

Taken(p) == pc = p /\ shot.at = 3
Clean == shot.modified = "no" /\ ~shot.staged /\ ~shot.other
OnlySourceModified == shot.modified = "M" /\ ~shot.staged /\ ~shot.other
HeadChanged == shot.head # before

(* A handler of a snapshot goes on with the snapshot slot empty again.     *)
Go(next) ==
    /\ pc' = next /\ shot' = NoShot
    /\ UNCHANGED <<before, text, output, why, restore, result, recorded, littered, faults>>

GoRollback(error) ==
    /\ pc' = "restore" /\ shot' = NoShot /\ why' = error
    /\ UNCHANGED <<before, text, output, restore, result, recorded, littered, faults>>

-----------------------------------------------------------------------------
(* Before the edit                                                         *)

Resolve ==
    /\ pc = "resolve"
    /\ IF project.task = "open" /\ project.deps /\ repo.source # "gone"
         THEN Step("contract") ELSE End(Result("ineligible"))
    /\ Unmarked

CheckContract ==
    /\ pc = "contract"
    /\ IF project.contract THEN Step("before") ELSE End(Result("contract"))
    /\ Unmarked

JudgeBefore ==
    /\ Taken("before")
    /\ \/ ~shot.ok /\ End(ResultWith("git_state_unavailable", "not_needed"))
       \/ shot.ok /\ ~Clean /\ End(Result("worktree_not_clean"))
       \/ /\ shot.ok /\ Clean
          /\ pc' = "agent" /\ before' = shot.head /\ shot' = NoShot
          /\ UNCHANGED <<text, output, why, restore, result, recorded, littered, faults>>
    /\ Unmarked

ResolveAgent ==
    /\ pc = "agent"
    /\ IF project.agent THEN Step("read") ELSE End(Result("agent"))
    /\ Unmarked

ReadSource ==
    /\ pc = "read"
    /\ \/ repo.source = "gone" /\ End(Result("executor_failed"))
       \/ /\ repo.source \in DOMAIN Edited
          /\ text' = repo.source /\ pc' = "invoke"
          /\ UNCHANGED <<shot, before, output, why, restore, result, recorded, littered, faults>>
    /\ Unmarked

(* The executor throws (it fails, times out, is aborted), or answers: an   *)
(* output that is no valid answer, a refusal, or a replacement expecting   *)
(* the content it was given or some other content.                         *)
Invoke ==
    /\ pc = "invoke"
    /\ \/ End(Result("executor_failed"))
       \/ /\ output' \in {"malformed", "blocked", "replace", "replaceStale"}
          /\ pc' = "after"
          /\ UNCHANGED <<shot, before, text, why, restore, result, recorded, littered, faults>>
    /\ Unmarked

JudgeAfter ==
    /\ Taken("after")
    /\ \/ ~shot.ok /\ End(ResultWith("git_state_unavailable", "not_needed"))
       \/ /\ shot.ok /\ (~Clean \/ HeadChanged)
          /\ End(ResultWith("executor_mutated_worktree", "not_attempted"))
       \/ /\ shot.ok /\ Clean /\ ~HeadChanged
          /\ \/ output = "malformed" /\ End(Result("executor_failed"))
             \/ output = "blocked" /\ End(Result("blocked"))
             \/ output \in {"replace", "replaceStale"} /\ Go("apply")
    /\ Unmarked

(* applyExactReplacement: the file as it is now must have the expected     *)
(* digest and hold the old text exactly once.                              *)
ReadForEdit ==
    /\ pc = "apply"
    /\ \/ End(Result("edit_rejected"))       \* old text missing, repeated, no-op, too large
       \/ output = "replace" /\ repo.source = text /\ Step("compare")
    /\ Unmarked

(* atomicReplaceExistingText: compare once more, then rename over it.      *)
CompareForEdit ==
    /\ pc = "compare"
    /\ IF repo.source = text THEN Step("rename") ELSE End(Result("edit_rejected"))
    /\ moved' = FALSE
    /\ UNCHANGED <<repo, project, moves>>

RenameEdit ==
    /\ pc = "rename"
    /\ \/ repo' = [repo EXCEPT !.source = applied] /\ Step("edited")
       \/ /\ Faulty /\ pc' = "end" /\ result' = Result("edit_rejected")
          /\ UNCHANGED <<repo, shot, before, text, output, why, restore, recorded, littered>>
    /\ UNCHANGED <<project, moved, moves>>

-----------------------------------------------------------------------------
(* The edit is in the source                                               *)

JudgeEdited ==
    /\ Taken("edited")
    /\ \/ ~shot.ok /\ GoRollback("GIT")
       \/ shot.ok /\ ~OnlySourceModified /\ GoRollback("SCOPE")
       \/ shot.ok /\ OnlySourceModified /\ Go("intact")
    /\ Unmarked

AssertIntact ==
    /\ pc = "intact"
    /\ IF repo.source = applied THEN Step("complete") ELSE Rollback("SCOPE")
    /\ Unmarked

(* runTaskComplete up to the verification.  An agent that is gone is       *)
(* rethrown by the caller; a task that is done already is no error.        *)
\* Faulty variant: "done already" is a result and forgets the rollback.
CheckCompletionForgetful ==
    /\ pc = "complete"
    /\ \/ ~project.agent /\ End(Result("agent"))
       \/ project.agent /\ project.task = "done" /\ End(Result("executor_failed"))
       \/ /\ project.agent /\ project.task # "done"
          /\ IF project.task = "open" /\ project.deps /\ project.contract
               THEN Step("verify") ELSE Rollback("OTHER")
    /\ Unmarked

CheckCompletion ==
    /\ pc = "complete"
    /\ \/ ~project.agent /\ End(Result("agent"))
       \/ /\ project.agent
          /\ IF project.task = "open" /\ project.deps /\ project.contract
               THEN Step("verify") ELSE Rollback("OTHER")
    /\ Unmarked

Verify ==
    /\ pc = "verify"
    /\ \/ Step("hook")
       \/ Rollback("VERIFICATION")
       \/ Faulty /\ pc' = "restore" /\ why' = "OTHER"
          /\ UNCHANGED <<shot, before, text, output, restore, result, recorded, littered>>
    /\ Unmarked

JudgeHook ==
    /\ Taken("hook")
    /\ \/ ~shot.ok /\ GoRollback("GIT")
       \/ shot.ok /\ (HeadChanged \/ ~OnlySourceModified) /\ GoRollback("SCOPE")
       \/ shot.ok /\ ~HeadChanged /\ OnlySourceModified /\ Go("hookread")
    /\ Unmarked

\* Faulty variant: the source is modified and nothing else, so it is ours.
TrustTheSnapshot == pc = "hookread" /\ Step("record") /\ Unmarked

AssertIntactBeforeDone ==
    /\ pc = "hookread"
    /\ IF repo.source = applied THEN Step("record") ELSE Rollback("SCOPE")
    /\ Unmarked

(* storeEvidenceArtifact, then writeEventFile: an error before the link    *)
(* publishes nothing; the removal of the temporary file comes after it.    *)
RecordDone ==
    /\ pc = "record"
    /\ \/ /\ recorded' = TRUE
          /\ project' = [project EXCEPT !.task = "done"]
          /\ repo' = [repo EXCEPT !.other = TRUE]
          /\ \/ pc' = "end" /\ result' = Result("done") /\ UNCHANGED <<why, littered, faults>>
             \/ Faulty /\ littered' = TRUE /\ pc' = "restore" /\ why' = "OTHER" /\ UNCHANGED result
       \/ /\ Faulty /\ pc' = "restore" /\ why' = "OTHER"
          /\ UNCHANGED <<recorded, project, repo, result, littered>>
    /\ UNCHANGED <<shot, before, text, output, restore, moved, moves>>

-----------------------------------------------------------------------------
(* rollbackKnownEdit and what its outcome is called                        *)

Restored(how, next) ==
    /\ restore' = how /\ pc' = next
    /\ UNCHANGED <<shot, before, text, output, why, result, recorded, littered>>

\* Faulty variant: writes the original back without looking.
RestoreAnyway ==
    /\ pc = "restore"
    /\ Restored("none", "putback") /\ moved' = FALSE
    /\ UNCHANGED <<repo, project, moves, faults>>

CompareForRestore ==
    /\ pc = "restore"
    /\ \/ repo.source = applied /\ Restored("none", "putback") /\ moved' = FALSE /\ UNCHANGED faults
       \/ repo.source \notin {applied, "gone"} /\ Restored("stale", "final") /\ UNCHANGED <<moved, faults>>
       \/ repo.source = "gone" /\ Restored("failed", "final") /\ UNCHANGED <<moved, faults>>
       \/ Faulty /\ Restored("failed", "final") /\ UNCHANGED moved
    /\ UNCHANGED <<repo, project, moves>>

RenameRestore ==
    /\ pc = "putback"
    /\ \/ repo' = [repo EXCEPT !.source = text] /\ Restored("complete", "final") /\ UNCHANGED faults
       \/ Faulty /\ Restored("failed", "final") /\ UNCHANGED repo
    /\ UNCHANGED <<project, moved, moves>>

(* toRollbackResult *)
RollbackResult ==
    IF HeadChanged THEN "incomplete"
    ELSE IF restore = "stale" THEN "stale"
    ELSE IF restore = "complete" /\ Clean THEN "complete" ELSE "incomplete"

(* The branch that answers rollback_incomplete asks for a complete         *)
(* rollback with an unclean tree, which toRollbackResult never returns.    *)
Conclude ==
    /\ Taken("final")
    /\ End(CASE why = "GIT" \/ ~shot.ok ->
                  ResultWith("git_state_unavailable", restore)
             [] why # "GIT" /\ shot.ok /\ (why = "SCOPE" \/ (why = "VERIFICATION" /\ RollbackResult # "complete")) ->
                  ResultWith("execution_scope_violation", RollbackResult)
             [] why = "VERIFICATION" /\ shot.ok /\ RollbackResult = "complete" ->
                  ResultWith("verification_failed", "complete")
             [] why = "OTHER" /\ shot.ok ->
                  IF RollbackResult = "stale" THEN Result("rollback_stale_file")
                  ELSE IF RollbackResult # "complete" THEN Result("rollback_failed")
                  ELSE ResultWith("executor_failed", "complete"))
    /\ Unmarked

Command ==
    \/ Resolve \/ CheckContract \/ JudgeBefore \/ ResolveAgent \/ ReadSource \/ Invoke
    \/ JudgeAfter \/ ReadForEdit \/ CompareForEdit \/ RenameEdit \/ JudgeEdited
    \/ AssertIntact \/ CheckCompletion \/ Verify \/ JudgeHook \/ AssertIntactBeforeDone
    \/ RecordDone \/ CompareForRestore \/ RenameRestore \/ Conclude \/ TakeSnapshot

Next == Command \/ Others

Spec == Init /\ [][Next]_vars

-----------------------------------------------------------------------------
(* Properties                                                              *)

(* A done event is published over exactly the edit that was verified: the  *)
(* same HEAD, nothing staged, no other path changed, the source as the     *)
(* command wrote it.  Others can break this only after the last checks     *)
(* have begun (agent-contract: records `done` only when HEAD, the index    *)
(* and the working tree contain exactly the expected change).              *)
DoneMatchesTree ==
    [][ recorded' /\ ~recorded =>
          \/ moved
          \/ /\ repo.source = applied /\ repo.head = before
             /\ ~repo.staged /\ ~repo.other ]_vars

(* The command renames over the source only what it has itself compared:   *)
(* the content it read (applying) or its own edit (taking it back).  A     *)
(* foreign version is lost only when it was written after the comparison.  *)
ForeignKept ==
    [][ repo'.source # repo.source /\ moves' = moves =>
          \/ moved
          \/ repo.source = text /\ repo'.source = applied
          \/ repo.source = applied /\ repo'.source = text ]_vars

(* A result that says nothing of a file left behind leaves none: while the *)
(* command's edit is in the source (and no one has committed it) it        *)
(* answers done, a scope violation, a failed or stale rollback, or an      *)
(* unavailable git state with what became of the source.  And a published  *)
(* done is answered with done.  Two exits are excepted: the rethrown agent *)
(* error, which leaves the edit, and an I/O error after the event's link,  *)
(* which takes the edit back under a published done.                       *)
ResultIsHonest ==
    pc = "end" =>
        /\ repo.source \in {"baseEdited", "userEdited"} /\ repo.committed # repo.source =>
              result.kind \notin ClaimsUntouched /\ result.rollback \notin {"complete", "not_needed"}
        /\ recorded /\ ~littered => result.kind = "done"

=============================================================================
