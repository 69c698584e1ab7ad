--------------------------- MODULE DecisionRemoval ---------------------------
(***************************************************************************)
(* decision retire --write and decision prune --write on one decision      *)
(* file.  Retire leaves an archive record behind that releases the gates   *)
(* the file released; prune leaves a ledger row and rewrites the links     *)
(* that pointed at the file.  Both write before they remove, so that a     *)
(* failure or a kill leaves a state the next run can finish.               *)
(*                                                                         *)
(* The commands hold the write lock and exclude each other; the lock binds *)
(* no editor, so the file, the ledger, the linking documents and the plan  *)
(* may change between any two reads (Others).                              *)
(***************************************************************************)
EXTENDS Naturals

CONSTANTS
    NumDocs,       \* the documents that may link to the decision
    MaxMoves,      \* bound on the steps of Others
    MaxFaults      \* bound on kills and I/O errors

ASSUME BoundsAssumption == NumDocs \in Nat /\ MaxMoves \in Nat /\ MaxFaults \in Nat

VARIABLES
    md,        \* the decision file: its text, or "gone"
    record,    \* the text the archive record was built from, or "none"
    ledger,    \* PRUNED.md: absent, rows of other decisions, this decision's row, both
    docs,      \* per document: does it link to the decision, does it hold the user's edit
    gates,     \* how the tasks that are not done refer to the decision
    dependant, \* a live decision links to this one
    mode, pc,  \* the running command and its next step
    seen,      \* what the command has read
    pending,   \* documents still to be rewritten
    appended, rewritten,   \* what prune believes it has written
    result,
    wrote,     \* what this run has really written
    dirty,     \* what Others changed since the command last compared it
    dirtyDocs, \* ... and which documents
    moves, faults

command == <<mode, pc, seen, pending, appended, rewritten, result, wrote>>
world == <<md, record, ledger, docs, gates, dependant>>
marks == <<dirty, dirtyDocs>>
vars == <<world, command, marks, moves, faults>>

Docs == 1..NumDocs
Texts == {"accepted", "reworded", "proposed", "open"}  \* open: accepted, with open commitments
Accepted == {"accepted", "reworded", "open"}
Ways == {"decision_refs", "acceptance_refs", "filename_scan"}

WithRow == {"row", "rowAndOthers"}
AppendRow == [absent |-> "row", others |-> "rowAndOthers"]

(* How the readers of a gate see the decision: the file while it is there, *)
(* the record once it is truly absent.  A scan of filenames needs the file.*)
Holds(way) ==
    CASE way = "decision_refs"   -> IF md # "gone" THEN md \in Accepted ELSE record \in Accepted
      [] way = "filename_scan"   -> md \in Accepted
      [] way = "acceptance_refs" -> md # "gone" \/ record # "none"

Nothing == [text |-> "gone", gates |-> {}, links |-> {}, ledger |-> "absent",
            docs |-> [d \in Docs |-> [link |-> FALSE, user |-> FALSE]]]
NoResult == [kind |-> "none", partial |-> FALSE]

Init ==
    /\ md \in {"accepted", "proposed"} /\ record = "none"
    /\ ledger \in {"absent", "others"}
    /\ docs = [d \in Docs |-> [link |-> d = 1, user |-> FALSE]]
    /\ gates \in {{}, {"decision_refs"}} /\ dependant = FALSE
    /\ mode = "none" /\ pc = "idle" /\ seen = Nothing /\ pending = {}
    /\ appended = FALSE /\ rewritten = {} /\ result = NoResult /\ wrote = {}
    /\ dirty = {} /\ dirtyDocs = {} /\ moves = 0 /\ faults = 0

-----------------------------------------------------------------------------
(* Everyone else: an editor, git, a hand that changes the plan             *)

Touch(part) ==
    /\ moves < MaxMoves /\ moves' = moves + 1
    /\ dirty' = dirty \union part
    /\ UNCHANGED <<record, command, faults>>

EditDecision ==
    /\ Touch({"md"}) /\ UNCHANGED dirtyDocs /\ md' \in (Texts \union {"gone"}) \ {md}
    /\ UNCHANGED <<ledger, docs, gates, dependant>>

EditLedger ==
    /\ Touch({"ledger"}) /\ UNCHANGED dirtyDocs /\ ledger' \in {"absent", "others", "row", "rowAndOthers"} \ {ledger}
    /\ UNCHANGED <<md, docs, gates, dependant>>

EditDoc(d) ==
    /\ Touch({}) /\ dirtyDocs' = dirtyDocs \union {d}
    /\ docs' \in {[docs EXCEPT ![d] = [link |-> l, user |-> TRUE]] : l \in BOOLEAN} \ {docs}
    /\ UNCHANGED <<md, ledger, gates, dependant>>

EditPlan ==
    /\ Touch({"gates"}) /\ UNCHANGED dirtyDocs
    /\ \E w \in Ways : gates' \in {gates \union {w}, gates \ {w}} \ {gates}
    /\ UNCHANGED <<md, ledger, docs, dependant>>

EditDependant ==
    /\ Touch({"dependant"}) /\ UNCHANGED dirtyDocs /\ dependant' = ~dependant
    /\ UNCHANGED <<md, ledger, docs, gates>>

Others ==
    \/ EditDecision \/ EditLedger \/ EditPlan \/ EditDependant
    \/ \E d \in Docs : EditDoc(d)

-----------------------------------------------------------------------------
(* Building blocks                                                         *)

At(m, p) == mode = m /\ pc = p

(* What the command reads it also compares: Others' earlier changes of the *)
(* part are known to it.                                                   *)
Reads(parts) == dirty' = dirty \ parts /\ UNCHANGED dirtyDocs
ReadsDocs(ds) == dirtyDocs' = dirtyDocs \ ds /\ UNCHANGED dirty

Quiet == UNCHANGED <<world, moves, faults>>

Step(next) ==
    /\ pc' = next
    /\ UNCHANGED <<mode, seen, pending, appended, rewritten, result, wrote>>

Remember(next, now) ==
    /\ pc' = next /\ seen' = now
    /\ UNCHANGED <<mode, pending, appended, rewritten, result, wrote>>

Done(kind, partial) ==
    /\ pc' = "idle" /\ result' = [kind |-> kind, partial |-> partial]
    /\ seen' = Nothing /\ pending' = {}
    /\ UNCHANGED <<mode, appended, rewritten, wrote>>

End(kind) == Done(kind, FALSE)

(* The command's view of its own writes, for the failure envelope.         *)
\* Faulty variant: the ledger row is not counted.
OnlyRewrites == rewritten # {}

MutationLanded == appended \/ rewritten # {}

WriteFailed == Done("write_failed", MutationLanded)

(* A read or write error, answered as the step at hand answers it.         *)
FailsAs(kind) ==
    /\ faults < MaxFaults /\ faults' = faults + 1
    /\ Done(kind, kind = "write_failed" /\ MutationLanded)
    /\ UNCHANGED <<world, moves, marks>>

Start(m) ==
    /\ pc = "idle" /\ md # "gone"
    /\ mode' = m /\ pc' = "plan" /\ seen' = Nothing /\ pending' = {}
    /\ appended' = FALSE /\ rewritten' = {} /\ result' = NoResult /\ wrote' = {}
    /\ Quiet /\ UNCHANGED marks

StartOnAbsent ==    \* the file is gone: does a record resolve it?
    /\ pc = "idle" /\ md = "gone"
    /\ mode' = "retire" /\ wrote' = {}
    /\ result' = [kind |-> IF record = "none" THEN "not_retired" ELSE "already_retired",
                  partial |-> FALSE]
    /\ UNCHANGED <<pc, seen, pending, appended, rewritten, marks>> /\ Quiet

Kill ==
    /\ pc # "idle" /\ faults < MaxFaults /\ faults' = faults + 1
    /\ pc' = "idle" /\ result' = [kind |-> "killed", partial |-> FALSE]
    /\ seen' = Nothing /\ pending' = {}
    /\ UNCHANGED <<world, mode, appended, rewritten, wrote, marks, moves>>

(* collectPlanArtifacts: the roadmap and the phases.                       *)
ReadPlan ==
    /\ pc = "plan"
    /\ \/ Remember("judge", [seen EXCEPT !.gates = gates]) /\ Reads({"gates"}) /\ Quiet
       \/ FailsAs("ineligible")

(* An active task's reference that the record will still answer.           *)
Carried(way, accepted) == way = "acceptance_refs" \/ (way = "decision_refs" /\ accepted)

RetireAllowed(text, refs, accepted) ==
    /\ text \notin {"gone", "open"} /\ ~dependant
    /\ \A w \in refs : Carried(w, accepted)

PruneAllowed(text, refs) ==
    /\ text \in Accepted \ {"open"} /\ ~dependant
    /\ refs \intersect {"decision_refs", "filename_scan"} = {}

-----------------------------------------------------------------------------
(* decision retire --write                                                 *)

JudgeRetire ==
    /\ At("retire", "judge")
    /\ \/ /\ IF RetireAllowed(md, seen.gates, md \in Accepted)
               THEN Step("baseline") ELSE End("ineligible")
          /\ Reads({"md", "dependant"}) /\ Quiet
       \/ FailsAs("ineligible")

Baseline ==
    /\ At("retire", "baseline")
    /\ \/ md = "gone" /\ End("stale") /\ UNCHANGED marks /\ Quiet
       \/ md # "gone" /\ Remember("record", [seen EXCEPT !.text = md]) /\ Reads({"md"}) /\ Quiet
       \/ FailsAs("stale")

(* writeDecisionRecord: plan again from the file as it is now, then write. *)
(* A record built from other bytes is refused, an equal one is kept; a     *)
(* file that is gone leaves an existing record alone.                      *)
WriteRecord ==
    /\ At("retire", "record")
    /\ \/ /\ record = "none" /\ md # "gone"
          /\ record' = md /\ pc' = "verify" /\ wrote' = wrote \union {"record"}
          /\ UNCHANGED <<md, ledger, docs, gates, dependant, mode, seen, pending, appended,
                         rewritten, result, marks, moves, faults>>
       \/ record # "none" /\ md \in {record, "gone"} /\ Step("verify") /\ UNCHANGED marks /\ Quiet
       \/ record # "none" /\ md \notin {record, "gone"} /\ End("stale") /\ UNCHANGED marks /\ Quiet
       \/ record = "none" /\ md = "gone" /\ End("stale") /\ UNCHANGED marks /\ Quiet
       \/ FailsAs("stale")

VerifyRecord ==
    /\ At("retire", "verify")
    /\ \/ record = seen.text /\ Step("replan") /\ UNCHANGED marks /\ Quiet
       \/ record # seen.text /\ End("stale") /\ UNCHANGED marks /\ Quiet
       \/ FailsAs("stale")

RecheckPlan ==
    /\ At("retire", "replan")
    /\ \/ Remember("recheck", [seen EXCEPT !.gates = gates]) /\ Reads({"gates"}) /\ Quiet
       \/ FailsAs("stale")

Recheck ==
    /\ At("retire", "recheck")
    /\ \/ /\ IF RetireAllowed(md, seen.gates, record \in Accepted)
               THEN Step("guard") ELSE End("stale")
          /\ Reads({"dependant"}) /\ Quiet
       \/ FailsAs("stale")

Guard ==
    /\ At("retire", "guard")
    /\ \/ md = seen.text /\ Step("unlink") /\ Reads({"md"}) /\ Quiet
       \/ md # seen.text /\ End("stale") /\ UNCHANGED marks /\ Quiet
       \/ FailsAs("stale")

Retire == JudgeRetire \/ Baseline \/ WriteRecord \/ VerifyRecord \/ RecheckPlan \/ Recheck \/ Guard

-----------------------------------------------------------------------------
(* decision prune --write                                                  *)

LinkingDocs == {d \in Docs : docs[d].link}

JudgePrune ==
    /\ At("prune", "judge")
    /\ \/ /\ IF PruneAllowed(md, seen.gates)
               THEN Remember("collect", [seen EXCEPT !.text = md]) ELSE End("ineligible")
          /\ Reads({"md", "dependant"}) /\ Quiet
       \/ FailsAs("ineligible")

Collect ==
    /\ At("prune", "collect")
    /\ \/ Remember("inspect", [seen EXCEPT !.links = LinkingDocs]) /\ UNCHANGED marks /\ Quiet
       \/ FailsAs("ineligible")

(* applyPrune's preflight (1a, 1b, 1c, 1d): nothing is written yet, and    *)
(* whatever no longer matches the plan is a stale plan.                    *)
Inspect ==
    /\ At("prune", "inspect")
    /\ \/ md = seen.text /\ Step("recollect") /\ Reads({"md"}) /\ Quiet
       \/ md # seen.text /\ End("plan_stale") /\ UNCHANGED marks /\ Quiet
       \/ FailsAs("plan_stale")

\* Faulty variant: only the planned links are looked for, not new ones.
RecollectPlanned ==
    /\ At("prune", "recollect")
    /\ \/ seen.links \subseteq LinkingDocs /\ Step("originals") /\ ReadsDocs(Docs) /\ Quiet
       \/ ~(seen.links \subseteq LinkingDocs) /\ End("plan_stale") /\ UNCHANGED marks /\ Quiet
       \/ FailsAs("plan_stale")

Recollect ==
    /\ At("prune", "recollect")
    /\ \/ seen.links = LinkingDocs /\ Step("originals") /\ ReadsDocs(Docs) /\ Quiet
       \/ seen.links # LinkingDocs /\ End("plan_stale") /\ UNCHANGED marks /\ Quiet
       \/ FailsAs("plan_stale")

ReadOriginals ==
    /\ At("prune", "originals")
    /\ \/ /\ seen.links \subseteq LinkingDocs
          /\ pc' = "prepare" /\ seen' = [seen EXCEPT !.docs = docs] /\ pending' = seen.links
          /\ UNCHANGED <<mode, appended, rewritten, result, wrote, marks>> /\ Quiet
       \/ ~(seen.links \subseteq LinkingDocs) /\ End("plan_stale") /\ UNCHANGED marks /\ Quiet
       \/ FailsAs("plan_stale")

PrepareLedger ==
    /\ At("prune", "prepare")
    /\ \/ Remember("preguard", [seen EXCEPT !.ledger = ledger]) /\ UNCHANGED marks /\ Quiet
       \/ FailsAs("write_failed")

InspectBeforeWrite ==
    /\ At("prune", "preguard")
    /\ \/ md = seen.text /\ Step("ledger") /\ Reads({"md"}) /\ Quiet
       \/ md # seen.text /\ End("plan_stale") /\ UNCHANGED marks /\ Quiet
       \/ FailsAs("plan_stale")

(* 2a.  A row that is there already is kept but must still be there; else  *)
(* the ledger must be as it was read, and is replaced by a rename.         *)
\* Faulty variant: a row left by an earlier run is a conflict.
CompareLedgerFresh ==
    /\ At("prune", "ledger")
    /\ \/ /\ seen.ledger \notin WithRow /\ ledger = seen.ledger
          /\ Step("append") /\ Reads({"ledger"}) /\ Quiet
       \/ /\ ~(seen.ledger \notin WithRow /\ ledger = seen.ledger)
          /\ WriteFailed /\ UNCHANGED marks /\ Quiet
       \/ FailsAs("write_failed")

\* Faulty variant: writes what it prepared without comparing again.
AppendBlindly ==
    /\ At("prune", "ledger")
    /\ \/ /\ seen.ledger \in WithRow /\ ledger \in WithRow
          /\ Step("rewrite") /\ Reads({"ledger"}) /\ Quiet
       \/ /\ seen.ledger \notin WithRow
          /\ Step("append") /\ Reads({"ledger"}) /\ Quiet
       \/ /\ seen.ledger \in WithRow /\ ledger \notin WithRow
          /\ WriteFailed /\ UNCHANGED marks /\ Quiet
       \/ FailsAs("write_failed")

CompareLedger ==
    /\ At("prune", "ledger")
    /\ \/ /\ seen.ledger \in WithRow /\ ledger \in WithRow
          /\ Step("rewrite") /\ Reads({"ledger"}) /\ Quiet
       \/ /\ seen.ledger \notin WithRow /\ ledger = seen.ledger
          /\ Step("append") /\ Reads({"ledger"}) /\ Quiet
       \/ /\ IF seen.ledger \in WithRow THEN ledger \notin WithRow ELSE ledger # seen.ledger
          /\ WriteFailed /\ UNCHANGED marks /\ Quiet
       \/ FailsAs("write_failed")

RenameLedger ==
    /\ At("prune", "append")
    /\ \/ /\ ledger' = AppendRow[seen.ledger]
          /\ appended' = TRUE /\ wrote' = wrote \union {"ledger"} /\ pc' = "rewrite"
          /\ UNCHANGED <<md, record, docs, gates, dependant, mode, seen, pending, rewritten,
                         result, marks, moves, faults>>
       \/ FailsAs("write_failed")

(* 2b.  One document after the other, in the order of their names.         *)
Current == CHOOSE d \in pending : \A e \in pending : d <= e

CompareDoc ==
    /\ At("prune", "rewrite") /\ pending # {}
    /\ \/ docs[Current] = seen.docs[Current] /\ Step("replace") /\ ReadsDocs({Current}) /\ Quiet
       \/ docs[Current] # seen.docs[Current] /\ WriteFailed /\ UNCHANGED marks /\ Quiet
       \/ FailsAs("write_failed")

RenameDoc ==
    /\ At("prune", "replace")
    /\ \/ /\ docs' = [docs EXCEPT ![Current] = [seen.docs[Current] EXCEPT !.link = FALSE]]
          /\ rewritten' = rewritten \union {Current} /\ wrote' = wrote \union {"docs"}
          /\ pending' = pending \ {Current} /\ pc' = "rewrite"
          /\ UNCHANGED <<md, record, ledger, gates, dependant, mode, seen, appended, result,
                         marks, moves, faults>>
       \/ FailsAs("write_failed")

(* 2c.  The file last.                                                     *)
InspectBeforeUnlink ==
    /\ At("prune", "rewrite") /\ pending = {}
    /\ \/ md = seen.text /\ Step("unlink") /\ Reads({"md"}) /\ Quiet
       \/ md # seen.text /\ WriteFailed /\ UNCHANGED marks /\ Quiet
       \/ FailsAs("write_failed")

Prune ==
    \/ JudgePrune \/ Collect \/ Inspect \/ Recollect \/ ReadOriginals \/ PrepareLedger
    \/ InspectBeforeWrite \/ CompareLedger \/ RenameLedger \/ CompareDoc \/ RenameDoc
    \/ InspectBeforeUnlink

-----------------------------------------------------------------------------
Unlink ==
    /\ pc = "unlink"
    /\ \/ /\ md # "gone" /\ md' = "gone"
          /\ pc' = "idle" /\ wrote' = wrote \union {"md"}
          /\ result' = [kind |-> IF mode = "retire" THEN "retired" ELSE "applied", partial |-> FALSE]
          /\ seen' = Nothing /\ pending' = {}
          /\ UNCHANGED <<record, ledger, docs, gates, dependant, mode, appended, rewritten,
                         marks, moves, faults>>
       \/ /\ md = "gone" /\ UNCHANGED marks /\ Quiet
          /\ IF mode = "retire" THEN End("error") ELSE WriteFailed
       \/ mode = "retire" /\ FailsAs("error")
       \/ mode = "prune" /\ FailsAs("write_failed")

Command == ReadPlan \/ Retire \/ Prune \/ Unlink

Next == Command \/ (\E m \in {"retire", "prune"} : Start(m)) \/ StartOnAbsent \/ Kill \/ Others

(* A started command runs on unless it is killed, and the operator runs a  *)
(* command again that has not done its work.  Moves and faults are bounded,*)
(* so the world is eventually still.                                       *)
Fairness == WF_vars(Command) /\ \A m \in {"retire", "prune"} : SF_vars(Start(m))

Spec == Init /\ [][Next]_vars /\ Fairness

-----------------------------------------------------------------------------
(* Properties                                                              *)

RemovedBy(m) == mode = m /\ md # "gone" /\ md' = "gone" /\ moves' = moves

(* A command that removes the file leaves behind what stands for it.       *)
(* After retire the record was built from the very bytes removed and every *)
(* active reference the file answered is still answered; after prune the   *)
(* removed bytes are a settled decision no live decision builds on, its    *)
(* row is in the ledger and no document links to it.  Each part is excused *)
(* only by a foreign change made after the command last compared it        *)
(* (retire's recheck before the delete; prune's write-before-remove order).*)
RemovalIsAccountedFor ==
    [][ /\ RemovedBy("retire") =>
              /\ "md" \in dirty \/ record = md
              /\ dirty \intersect {"md", "gates"} # {} \/ \A w \in gates : Holds(w) => Holds(w)'
              /\ "dependant" \in dirty \/ ~dependant
        /\ RemovedBy("prune") =>
              /\ "md" \in dirty \/ md \in {"accepted", "reworded"}
              /\ "ledger" \in dirty \/ ledger \in WithRow
              /\ "dependant" \in dirty \/ ~dependant
              /\ \A d \in Docs : d \in dirtyDocs \/ ~docs[d].link ]_vars

(* No command overwrites what it has not compared: a foreign version of    *)
(* the file, the ledger or a document is lost only when it was written in  *)
(* the gap between the last comparison and the rename or unlink.           *)
ForeignKept ==
    [][ moves' = moves =>
          /\ md' # md => "md" \in dirty \/ md = seen.text
          /\ ledger' # ledger => "ledger" \in dirty \/ ledger' = AppendRow[ledger]
          /\ \A d \in Docs : docs'[d] # docs[d] =>
                d \in dirtyDocs \/ docs'[d] = [docs[d] EXCEPT !.link = FALSE] ]_vars

(* What a run says it did is what it did: a refusal (ineligible, a stale   *)
(* plan) wrote nothing, a stale retirement removed nothing, partial_applied*)
(* tells whether this run wrote, and a removal is never claimed or denied  *)
(* wrongly (cli-contract, DECISION_PRUNE_WRITE_FAILED).                    *)
ReportIsHonest ==
    /\ result.kind \in {"ineligible", "plan_stale", "not_retired", "already_retired"} => wrote = {}
    /\ result.kind = "write_failed" => result.partial = (wrote # {})
    /\ result.kind \in {"retired", "applied"} <=> pc = "idle" /\ "md" \in wrote

(* Whatever a kill, an error or an edit left behind, running again         *)
(* finishes: a decision that may be pruned is removed or stops being so,   *)
(* likewise one that may be retired and whose record, if any, is its own.  *)
Prunable == PruneAllowed(md, gates)
Retirable == RetireAllowed(md, gates, md \in Accepted) /\ record \in {"none", md}
RerunConverges == (Prunable ~> ~Prunable) /\ (Retirable ~> ~Retirable)

=============================================================================
