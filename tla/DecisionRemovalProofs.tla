----------------------- MODULE DecisionRemovalProofs -----------------------
(***************************************************************************)
(* Retire and prune for any number of linking documents, foreign moves and *)
(* faults.  RemovalInv is inductive: what a command has compared still     *)
(* holds, or the foreign change that spoiled it is marked, and what it     *)
(* believes it has written is what it wrote.                               *)
(***************************************************************************)
EXTENDS DecisionRemoval, WellFoundedInduction, TLAPS

USE BoundsAssumption

-----------------------------------------------------------------------------
(* The inductive invariant.                                                *)

Ledgers == {"absent", "others", "row", "rowAndOthers"}
DocStates == [Docs -> [link : BOOLEAN, user : BOOLEAN]]
Memory == [text : Texts \union {"gone"}, gates : SUBSET Ways, links : SUBSET Docs,
           ledger : Ledgers, docs : DocStates]

RetireSteps == {"plan", "judge", "baseline", "record", "verify", "replan", "recheck", "guard", "unlink"}
Unwritten == {"plan", "judge", "collect", "inspect", "recollect", "originals", "prepare",
              "preguard", "ledger", "append"}
PruneSteps == Unwritten \union {"rewrite", "replace", "unlink"}

Kinds == {"none", "ineligible", "stale", "plan_stale", "write_failed", "error", "killed",
          "retired", "applied", "not_retired", "already_retired"}
Refusals == {"ineligible", "plan_stale", "not_retired", "already_retired"}

TypeOK ==
    /\ md \in Texts \union {"gone"} /\ record \in Texts \union {"none"}
    /\ ledger \in Ledgers /\ docs \in DocStates
    /\ gates \in SUBSET Ways /\ dependant \in BOOLEAN
    /\ \/ pc = "idle" /\ mode \in {"none", "retire", "prune"}
       \/ mode = "retire" /\ pc \in RetireSteps
       \/ mode = "prune" /\ pc \in PruneSteps
    /\ seen \in Memory /\ pending \in SUBSET Docs
    /\ appended \in BOOLEAN /\ rewritten \in SUBSET Docs
    /\ result \in [kind : Kinds, partial : BOOLEAN]
    /\ wrote \in SUBSET {"record", "ledger", "docs", "md"}
    /\ dirty \in SUBSET {"md", "ledger", "gates", "dependant"} /\ dirtyDocs \in SUBSET Docs
    /\ moves \in Nat /\ faults \in Nat

\* A running command has reported nothing and removed nothing, and prune's
\* flags tell what it wrote.
Running ==
    pc # "idle" =>
        /\ result = NoResult /\ "md" \notin wrote
        /\ mode = "prune" => (MutationLanded <=> wrote # {})
        /\ mode = "prune" /\ pc \in Unwritten => wrote = {}
        /\ pc \in {"plan", "judge", "baseline"} => wrote = {}

\* Before it replaces or removes a file, a command has compared it.
Compared ==
    /\ pc = "unlink" => "md" \in dirty \/ md = seen.text
    /\ pc = "append" => seen.ledger \notin WithRow /\ ("ledger" \in dirty \/ ledger = seen.ledger)
    /\ pc = "replace" => /\ pending # {}
                         /\ Current \in dirtyDocs \/ docs[Current] = seen.docs[Current]

\* What retire leaves behind stands for the file it is about to remove.
Carries ==
    mode = "retire" =>
        /\ pc \in {"replan", "recheck", "guard", "unlink"} => record = seen.text
        /\ pc \in {"recheck", "guard", "unlink"} => "gates" \in dirty \/ gates = seen.gates
        /\ pc \in {"guard", "unlink"} =>
              /\ \A w \in seen.gates : Carried(w, record \in Accepted)
              /\ "dependant" \in dirty \/ ~dependant

\* What prune has put in place of the file it is about to remove.
Settled ==
    mode = "prune" =>
        /\ pc \in PruneSteps \ {"plan", "judge"} =>
              /\ seen.text \in {"accepted", "reworded"}
              /\ "dependant" \in dirty \/ ~dependant
        /\ pc \in {"rewrite", "replace", "unlink"} => "ledger" \in dirty \/ ledger \in WithRow
        /\ pc = "originals" => \A d \in Docs : d \in dirtyDocs \/ ~docs[d].link \/ d \in seen.links
        /\ pc \in {"prepare", "preguard", "ledger", "append", "rewrite", "replace", "unlink"} =>
              \A d \in Docs : d \in dirtyDocs \/ ~docs[d].link \/ d \in pending
        /\ pc = "unlink" => pending = {}

RemovalInv == TypeOK /\ ReportIsHonest /\ Running /\ Compared /\ Carries /\ Settled

-----------------------------------------------------------------------------
(* Lemmas.                                                                 *)

Below == {s \in Nat \X Nat : s[1] < s[2]}

\* The document at hand is one of those that are left.
LEMMA CurrentIsPending ==
  ASSUME pending \in SUBSET Docs, pending # {}
  PROVE  Current \in pending
<1>1. Below = OpToRel(<, Nat)
  BY Zenon DEF OpToRel, Below
<1>2. IsWellFoundedOn(Below, Nat)
  BY Zenon, <1>1, NatLessThanWellFounded
<1>3. pending \subseteq Nat
  BY DEF Docs
<1>4. PICK d \in pending : \A e \in pending : ~(<<e, d>> \in Below)
  BY <1>2, <1>3, WFMin
<1>5. ASSUME NEW e \in pending PROVE d <= e
  <2>1. <<e, d>> \notin Below /\ e \in Nat /\ d \in Nat
    BY <1>3, <1>4
  <2>2. ~(e < d)
    BY <2>1 DEF Below
  <2> QED
    BY <2>1, <2>2
<1> QED
  BY <1>4, <1>5 DEF Current

LEMMA NothingIsMemory == Nothing \in Memory
  BY DEF Nothing, Memory, Texts, Ledgers, DocStates

\* However a command ends without having removed the file: what it reports
\* is so, and the next command starts from nothing.
LEMMA EndKeeps ==
  ASSUME RemovalInv, pc # "idle", UNCHANGED <<world, marks, moves>>, faults' \in Nat,
         NEW kind \in Kinds \ {"none", "retired", "applied", "not_retired", "already_retired"},
         NEW partial \in BOOLEAN, Done(kind, partial),
         kind \in Refusals => wrote = {},
         kind = "write_failed" => partial = (wrote # {})
  PROVE  RemovalInv'
<1>1. TypeOK'
  BY NothingIsMemory DEF RemovalInv, TypeOK, Done, world, marks
<1>2. ReportIsHonest'
  BY DEF RemovalInv, Running, ReportIsHonest, Done, Refusals, Kinds
<1>3. pc' = "idle"
  BY DEF Done
<1> QED
  BY <1>1, <1>2, <1>3 DEF RemovalInv, Running, Compared, Carries, Settled, PruneSteps, Unwritten

\* A failed call, answered as the step at hand answers it.
LEMMA FailureKeeps ==
  ASSUME RemovalInv, pc # "idle",
         NEW kind \in {"ineligible", "stale", "plan_stale", "write_failed", "error"}, FailsAs(kind),
         kind \in Refusals => wrote = {},
         kind = "write_failed" => mode = "prune"
  PROVE  RemovalInv'
<1>1. UNCHANGED <<world, marks, moves>> /\ faults' \in Nat
  BY DEF FailsAs, RemovalInv, TypeOK, world, marks
<1>2. Done(kind, kind = "write_failed" /\ MutationLanded)
  BY DEF FailsAs
<1>3. MutationLanded \in BOOLEAN
  BY DEF MutationLanded, RemovalInv, TypeOK
<1>4. kind = "write_failed" => (kind = "write_failed" /\ MutationLanded) = (wrote # {})
  BY DEF RemovalInv, Running, MutationLanded
<1> QED
  BY <1>1, <1>2, <1>3, <1>4, EndKeeps DEF Kinds

LEMMA RefusalKeeps ==
  ASSUME RemovalInv, pc # "idle", NEW kind \in {"ineligible", "stale", "plan_stale", "error"},
         End(kind), Quiet, UNCHANGED marks, kind \in Refusals => wrote = {}
  PROVE  RemovalInv'
<1>1. UNCHANGED <<world, marks, moves>> /\ faults' \in Nat /\ Done(kind, FALSE)
  BY DEF Quiet, End, RemovalInv, TypeOK
<1> QED
  BY <1>1, EndKeeps DEF Kinds

LEMMA WriteFailureKeeps ==
  ASSUME RemovalInv, pc # "idle", mode = "prune", WriteFailed, Quiet, UNCHANGED marks
  PROVE  RemovalInv'
<1>1. UNCHANGED <<world, marks, moves>> /\ faults' \in Nat /\ Done("write_failed", MutationLanded)
  BY DEF Quiet, WriteFailed, RemovalInv, TypeOK
<1>2. MutationLanded \in BOOLEAN /\ (MutationLanded = (wrote # {}))
  BY DEF RemovalInv, TypeOK, Running, MutationLanded
<1> QED
  BY <1>1, <1>2, EndKeeps DEF Kinds, Refusals

-----------------------------------------------------------------------------
(* Everyone else.                                                          *)

\* A foreign change leaves the command alone and is marked.
LEMMA OthersKeep ==
  ASSUME RemovalInv, Others
  PROVE  RemovalInv'
<1>1. UNCHANGED <<record, mode, pc, seen, pending, appended, rewritten, result, wrote, faults>>
  BY DEF Others, EditDecision, EditLedger, EditDoc, EditPlan, EditDependant, Touch, command
<1>2. moves' \in Nat
  BY DEF Others, EditDecision, EditLedger, EditDoc, EditPlan, EditDependant, Touch, RemovalInv, TypeOK
<1>3. dirty \subseteq dirty' /\ dirty' \in SUBSET {"md", "ledger", "gates", "dependant"}
  BY DEF Others, EditDecision, EditLedger, EditDoc, EditPlan, EditDependant, Touch, RemovalInv, TypeOK
<1>4. dirtyDocs \subseteq dirtyDocs' /\ dirtyDocs' \in SUBSET Docs
  BY DEF Others, EditDecision, EditLedger, EditDoc, EditPlan, EditDependant, Touch, RemovalInv, TypeOK
<1>5. md' \in Texts \union {"gone"} /\ ("md" \in dirty' \/ md' = md)
  BY DEF Others, EditDecision, EditLedger, EditDoc, EditPlan, EditDependant, Touch, RemovalInv, TypeOK
<1>6. ledger' \in Ledgers /\ ("ledger" \in dirty' \/ ledger' = ledger)
  BY DEF Others, EditDecision, EditLedger, EditDoc, EditPlan, EditDependant, Touch, RemovalInv, TypeOK, Ledgers
<1>7. gates' \in SUBSET Ways /\ ("gates" \in dirty' \/ gates' = gates)
  BY DEF Others, EditDecision, EditLedger, EditDoc, EditPlan, EditDependant, Touch, RemovalInv, TypeOK
<1>8. dependant' \in BOOLEAN /\ ("dependant" \in dirty' \/ dependant' = dependant)
  BY DEF Others, EditDecision, EditLedger, EditDoc, EditPlan, EditDependant, Touch, RemovalInv, TypeOK
<1>9. docs' \in DocStates /\ \A d \in Docs : d \in dirtyDocs' \/ docs'[d] = docs[d]
  <2>1. CASE \E d \in Docs : EditDoc(d)
    <3>1. PICK d \in Docs : EditDoc(d)
      BY <2>1
    <3>2. PICK l \in BOOLEAN : docs' = [docs EXCEPT ![d] = [link |-> l, user |-> TRUE]]
      BY <3>1 DEF EditDoc
    <3>3. d \in dirtyDocs'
      BY <3>1 DEF EditDoc
    <3> QED
      BY <3>2, <3>3 DEF RemovalInv, TypeOK, DocStates
  <2>2. CASE docs' = docs
    BY <2>2 DEF RemovalInv, TypeOK
  <2> QED
    BY <2>1, <2>2 DEF Others, EditDecision, EditLedger, EditPlan, EditDependant
<1>10. TypeOK'
  BY <1>1, <1>2, <1>3, <1>4, <1>5, <1>6, <1>7, <1>8, <1>9 DEF RemovalInv, TypeOK
<1>11. ReportIsHonest' /\ Running'
  BY <1>1 DEF RemovalInv, ReportIsHonest, Running, MutationLanded
<1>12. Compared'
  <2>1. Current' = Current
    BY <1>1 DEF Current
  <2>2. pc' = "replace" => Current \in Docs
    BY <1>1, CurrentIsPending DEF RemovalInv, TypeOK, Compared
  <2> QED
    BY <1>1, <1>3, <1>4, <1>5, <1>6, <1>9, <2>1, <2>2 DEF RemovalInv, Compared
<1>13. Carries'
  BY <1>1, <1>3, <1>7, <1>8 DEF RemovalInv, Carries, Carried
<1>14. Settled'
  BY <1>1, <1>3, <1>4, <1>6, <1>8, <1>9 DEF RemovalInv, Settled
<1> QED
  BY <1>10, <1>11, <1>12, <1>13, <1>14 DEF RemovalInv

-----------------------------------------------------------------------------
(* Starting, ending and reading.                                           *)

LEMMA StartKeeps ==
  ASSUME RemovalInv, NEW m \in {"retire", "prune"}, Start(m)
  PROVE  RemovalInv'
<1> USE DEF Start, Quiet, world, marks
<1>1. TypeOK'
  BY NothingIsMemory DEF RemovalInv, TypeOK, NoResult, Kinds, RetireSteps, PruneSteps, Unwritten
<1>2. ReportIsHonest' /\ Running'
  BY DEF ReportIsHonest, Running, MutationLanded, NoResult
<1>3. pc' = "plan"
  OBVIOUS
<1> QED
  BY <1>1, <1>2, <1>3 DEF RemovalInv, Compared, Carries, Settled

LEMMA StartOnAbsentKeeps ==
  ASSUME RemovalInv, StartOnAbsent
  PROVE  RemovalInv'
<1> USE DEF StartOnAbsent, Quiet, world, marks
<1>1. TypeOK'
  BY DEF RemovalInv, TypeOK, Kinds
<1>2. ReportIsHonest'
  BY DEF ReportIsHonest
<1>3. pc' = "idle"
  OBVIOUS
<1> QED
  BY <1>1, <1>2, <1>3 DEF RemovalInv, Running, Compared, Carries, Settled, PruneSteps, Unwritten

LEMMA KillKeeps ==
  ASSUME RemovalInv, Kill
  PROVE  RemovalInv'
<1>1. pc # "idle" /\ UNCHANGED <<world, marks, moves>> /\ faults' \in Nat
  BY DEF Kill, RemovalInv, TypeOK
<1>2. Done("killed", FALSE)
  BY DEF Kill, Done
<1> QED
  BY <1>1, <1>2, EndKeeps DEF Kinds, Refusals

\* A step that reads: the world, what was written and what was reported stay.
LEMMA ReadPlanKeeps ==
  ASSUME RemovalInv, ReadPlan
  PROVE  RemovalInv'
<1>1. pc = "plan" /\ wrote = {}
  BY DEF ReadPlan, RemovalInv, Running
<1>2. CASE FailsAs("ineligible")
  BY <1>1, <1>2, FailureKeeps
<1>3. CASE Remember("judge", [seen EXCEPT !.gates = gates]) /\ Reads({"gates"}) /\ Quiet
  <2> USE <1>1, <1>3 DEF Remember, Reads, Quiet, world
  <2>1. seen' \in Memory
    BY DEF RemovalInv, TypeOK, Memory
  <2>2. TypeOK'
    BY <2>1 DEF RemovalInv, TypeOK, RetireSteps, PruneSteps, Unwritten
  <2>3. ReportIsHonest' /\ Running'
    BY DEF RemovalInv, ReportIsHonest, Running, MutationLanded, NoResult
  <2>4. pc' = "judge"
    OBVIOUS
  <2> QED
    BY <2>2, <2>3, <2>4 DEF RemovalInv, Compared, Carries, Settled
<1> QED
  BY <1>2, <1>3 DEF ReadPlan

-----------------------------------------------------------------------------
(* decision retire --write.                                                *)

\* A step to another label of the same command keeps the types.
LEMMA StepTypes ==
  ASSUME RemovalInv, NEW next, Step(next),
         \/ mode = "retire" /\ next \in RetireSteps
         \/ mode = "prune" /\ next \in PruneSteps,
         UNCHANGED <<world, moves, faults>>,
         dirty' \subseteq dirty, dirtyDocs' \subseteq dirtyDocs
  PROVE  TypeOK'
  BY DEF Step, RemovalInv, TypeOK, world

\* Likewise one that remembers what it read.
LEMMA RememberTypes ==
  ASSUME RemovalInv, NEW next, NEW now \in Memory, Remember(next, now),
         \/ mode = "retire" /\ next \in RetireSteps
         \/ mode = "prune" /\ next \in PruneSteps,
         UNCHANGED <<world, moves, faults>>,
         dirty' \subseteq dirty, dirtyDocs' \subseteq dirtyDocs
  PROVE  TypeOK'
  BY DEF Remember, RemovalInv, TypeOK, world

\* A running command that goes on running without writing keeps its report.
LEMMA ReportKept ==
  ASSUME RemovalInv, pc # "idle", pc' # "idle",
         UNCHANGED <<mode, appended, rewritten, result, wrote>>,
         mode = "prune" /\ pc' \in Unwritten => pc \in Unwritten,
         pc' \in {"plan", "judge", "baseline"} => pc \in {"plan", "judge", "baseline"}
  PROVE  ReportIsHonest' /\ Running'
  BY DEF RemovalInv, ReportIsHonest, Running, MutationLanded, NoResult

LEMMA JudgeRetireKeeps ==
  ASSUME RemovalInv, JudgeRetire
  PROVE  RemovalInv'
<1>1. mode = "retire" /\ pc = "judge" /\ wrote = {}
  BY DEF JudgeRetire, At, RemovalInv, Running
<1>2. CASE FailsAs("ineligible")
  BY <1>1, <1>2, FailureKeeps
<1>3. CASE End("ineligible") /\ Reads({"md", "dependant"}) /\ Quiet
  <2> USE <1>1, <1>3 DEF End, Done, Reads, Quiet, world
  <2>1. TypeOK'
    BY NothingIsMemory DEF RemovalInv, TypeOK, Kinds
  <2>2. ReportIsHonest'
    BY DEF RemovalInv, Running, ReportIsHonest
  <2>3. pc' = "idle"
    OBVIOUS
  <2> QED
    BY <2>1, <2>2, <2>3 DEF RemovalInv, Running, Compared, Carries, Settled, PruneSteps, Unwritten
<1>4. CASE Step("baseline") /\ Reads({"md", "dependant"}) /\ Quiet
  <2>1. TypeOK'
    BY <1>1, <1>4, StepTypes DEF Reads, Quiet, RetireSteps
  <2>2. ReportIsHonest' /\ Running'
    BY <1>1, <1>4, ReportKept DEF Step
  <2> QED
    BY <1>1, <1>4, <2>1, <2>2 DEF RemovalInv, Step, Compared, Carries, Settled
<1> QED
  BY <1>2, <1>3, <1>4 DEF JudgeRetire

LEMMA BaselineKeeps ==
  ASSUME RemovalInv, Baseline
  PROVE  RemovalInv'
<1>1. mode = "retire" /\ pc = "baseline"
  BY DEF Baseline, At
<1>2. CASE FailsAs("stale")
  BY <1>1, <1>2, FailureKeeps DEF Refusals
<1>3. CASE End("stale") /\ UNCHANGED marks /\ Quiet
  BY <1>1, <1>3, RefusalKeeps DEF Refusals
<1>4. CASE Remember("record", [seen EXCEPT !.text = md]) /\ Reads({"md"}) /\ Quiet
  <2>1. [seen EXCEPT !.text = md] \in Memory
    BY DEF RemovalInv, TypeOK, Memory
  <2>2. TypeOK'
    BY <1>1, <1>4, <2>1, RememberTypes DEF Reads, Quiet, RetireSteps
  <2>3. ReportIsHonest' /\ Running'
    BY <1>1, <1>4, ReportKept DEF Remember
  <2> QED
    BY <1>1, <1>4, <2>2, <2>3 DEF RemovalInv, Remember, Compared, Carries, Settled
<1> QED
  BY <1>2, <1>3, <1>4 DEF Baseline

LEMMA WriteRecordKeeps ==
  ASSUME RemovalInv, WriteRecord
  PROVE  RemovalInv'
<1>1. mode = "retire" /\ pc = "record"
  BY DEF WriteRecord, At
<1>2. CASE FailsAs("stale")
  BY <1>1, <1>2, FailureKeeps DEF Refusals
<1>3. CASE End("stale") /\ UNCHANGED marks /\ Quiet
  BY <1>1, <1>3, RefusalKeeps DEF Refusals
<1>4. CASE Step("verify") /\ UNCHANGED marks /\ Quiet
  <2>1. TypeOK'
    BY <1>1, <1>4, StepTypes DEF marks, Quiet, RetireSteps
  <2>2. ReportIsHonest' /\ Running'
    BY <1>1, <1>4, ReportKept DEF Step
  <2> QED
    BY <1>1, <1>4, <2>1, <2>2 DEF RemovalInv, Step, Compared, Carries, Settled
<1>5. CASE /\ md # "gone" /\ record' = md /\ pc' = "verify" /\ wrote' = wrote \union {"record"}
           /\ UNCHANGED <<md, ledger, docs, gates, dependant, mode, seen, pending, appended,
                          rewritten, result, marks, moves, faults>>
  <2> USE <1>1, <1>5 DEF marks
  <2>1. TypeOK'
    BY DEF RemovalInv, TypeOK, RetireSteps
  <2>2. ReportIsHonest' /\ Running'
    BY DEF RemovalInv, ReportIsHonest, Running, MutationLanded, NoResult
  <2> QED
    BY <2>1, <2>2 DEF RemovalInv, Compared, Carries, Settled
<1> QED
  BY <1>2, <1>3, <1>4, <1>5 DEF WriteRecord

LEMMA VerifyRecordKeeps ==
  ASSUME RemovalInv, VerifyRecord
  PROVE  RemovalInv'
<1>1. mode = "retire" /\ pc = "verify"
  BY DEF VerifyRecord, At
<1>2. CASE FailsAs("stale")
  BY <1>1, <1>2, FailureKeeps DEF Refusals
<1>3. CASE End("stale") /\ UNCHANGED marks /\ Quiet
  BY <1>1, <1>3, RefusalKeeps DEF Refusals
<1>4. CASE record = seen.text /\ Step("replan") /\ UNCHANGED marks /\ Quiet
  <2>1. TypeOK'
    BY <1>1, <1>4, StepTypes DEF marks, Quiet, RetireSteps
  <2>2. ReportIsHonest' /\ Running'
    BY <1>1, <1>4, ReportKept DEF Step
  <2> QED
    BY <1>1, <1>4, <2>1, <2>2 DEF RemovalInv, Step, Compared, Carries, Settled, Quiet, world
<1> QED
  BY <1>2, <1>3, <1>4 DEF VerifyRecord

LEMMA RecheckPlanKeeps ==
  ASSUME RemovalInv, RecheckPlan
  PROVE  RemovalInv'
<1>1. mode = "retire" /\ pc = "replan"
  BY DEF RecheckPlan, At
<1>2. CASE FailsAs("stale")
  BY <1>1, <1>2, FailureKeeps DEF Refusals
<1>3. CASE Remember("recheck", [seen EXCEPT !.gates = gates]) /\ Reads({"gates"}) /\ Quiet
  <2>1. [seen EXCEPT !.gates = gates] \in Memory
    BY DEF RemovalInv, TypeOK, Memory
  <2>2. TypeOK'
    BY <1>1, <1>3, <2>1, RememberTypes DEF Reads, Quiet, RetireSteps
  <2>3. ReportIsHonest' /\ Running'
    BY <1>1, <1>3, ReportKept DEF Remember
  <2>4. Carries'
    BY <1>1, <1>3 DEF RemovalInv, TypeOK, Memory, Remember, Carries, Quiet, world
  <2> QED
    BY <1>1, <1>3, <2>2, <2>3, <2>4 DEF RemovalInv, Remember, Compared, Settled
<1> QED
  BY <1>2, <1>3 DEF RecheckPlan

LEMMA RecheckKeeps ==
  ASSUME RemovalInv, Recheck
  PROVE  RemovalInv'
<1>1. mode = "retire" /\ pc = "recheck"
  BY DEF Recheck, At
<1>2. CASE FailsAs("stale")
  BY <1>1, <1>2, FailureKeeps DEF Refusals
<1>3. CASE End("stale") /\ Reads({"dependant"}) /\ Quiet
  <2> USE <1>1, <1>3 DEF End, Done, Reads, Quiet, world
  <2>1. TypeOK'
    BY NothingIsMemory DEF RemovalInv, TypeOK, Kinds
  <2>2. ReportIsHonest'
    BY DEF RemovalInv, Running, ReportIsHonest
  <2>3. pc' = "idle"
    OBVIOUS
  <2> QED
    BY <2>1, <2>2, <2>3 DEF RemovalInv, Running, Compared, Carries, Settled, PruneSteps, Unwritten
<1>4. CASE /\ RetireAllowed(md, seen.gates, record \in Accepted)
           /\ Step("guard") /\ Reads({"dependant"}) /\ Quiet
  <2>1. TypeOK'
    BY <1>1, <1>4, StepTypes DEF Reads, Quiet, RetireSteps
  <2>2. ReportIsHonest' /\ Running'
    BY <1>1, <1>4, ReportKept DEF Step
  <2>3. Carries'
    BY <1>1, <1>4 DEF RemovalInv, Carries, RetireAllowed, Carried, Step, Reads, Quiet, world
  <2> QED
    BY <1>1, <1>4, <2>1, <2>2, <2>3 DEF RemovalInv, Step, Compared, Settled
<1> QED
  BY <1>2, <1>3, <1>4 DEF Recheck

LEMMA GuardKeeps ==
  ASSUME RemovalInv, Guard
  PROVE  RemovalInv'
<1>1. mode = "retire" /\ pc = "guard"
  BY DEF Guard, At
<1>2. CASE FailsAs("stale")
  BY <1>1, <1>2, FailureKeeps DEF Refusals
<1>3. CASE End("stale") /\ UNCHANGED marks /\ Quiet
  BY <1>1, <1>3, RefusalKeeps DEF Refusals
<1>4. CASE md = seen.text /\ Step("unlink") /\ Reads({"md"}) /\ Quiet
  <2>1. TypeOK'
    BY <1>1, <1>4, StepTypes DEF Reads, Quiet, RetireSteps
  <2>2. ReportIsHonest' /\ Running'
    BY <1>1, <1>4, ReportKept DEF Step
  <2>3. Carries'
    BY <1>1, <1>4 DEF RemovalInv, Carries, Carried, Step, Reads, Quiet, world
  <2> QED
    BY <1>1, <1>4, <2>1, <2>2, <2>3 DEF RemovalInv, Step, Compared, Settled, Quiet, world
<1> QED
  BY <1>2, <1>3, <1>4 DEF Guard

-----------------------------------------------------------------------------
(* decision prune --write.                                                 *)

LEMMA JudgePruneKeeps ==
  ASSUME RemovalInv, JudgePrune
  PROVE  RemovalInv'
<1>1. mode = "prune" /\ pc = "judge" /\ wrote = {}
  BY DEF JudgePrune, At, RemovalInv, Running
<1>2. CASE FailsAs("ineligible")
  BY <1>1, <1>2, FailureKeeps
<1>3. CASE End("ineligible") /\ Reads({"md", "dependant"}) /\ Quiet
  <2> USE <1>1, <1>3 DEF End, Done, Reads, Quiet, world
  <2>1. TypeOK'
    BY NothingIsMemory DEF RemovalInv, TypeOK, Kinds
  <2>2. ReportIsHonest'
    BY DEF RemovalInv, Running, ReportIsHonest
  <2>3. pc' = "idle"
    OBVIOUS
  <2> QED
    BY <2>1, <2>2, <2>3 DEF RemovalInv, Running, Compared, Carries, Settled, PruneSteps, Unwritten
<1>4. CASE /\ PruneAllowed(md, seen.gates)
           /\ Remember("collect", [seen EXCEPT !.text = md]) /\ Reads({"md", "dependant"}) /\ Quiet
  <2>1. [seen EXCEPT !.text = md] \in Memory /\ seen \in Memory
    BY DEF RemovalInv, TypeOK, Memory
  <2>2. TypeOK'
    BY <1>1, <1>4, <2>1, RememberTypes DEF Reads, Quiet, PruneSteps, Unwritten
  <2>3. ReportIsHonest' /\ Running'
    BY <1>1, <1>4, ReportKept DEF Remember, Unwritten
  <2>4. Settled'
    BY <1>1, <1>4, <2>1 DEF Settled, PruneAllowed, Accepted, Remember, Reads, Quiet, world, Memory
  <2> QED
    BY <1>1, <1>4, <2>2, <2>3, <2>4 DEF RemovalInv, Remember, Compared, Carries
<1> QED
  BY <1>2, <1>3, <1>4 DEF JudgePrune

LEMMA CollectKeeps ==
  ASSUME RemovalInv, Collect
  PROVE  RemovalInv'
<1>1. mode = "prune" /\ pc = "collect" /\ wrote = {}
  BY DEF Collect, At, RemovalInv, Running, Unwritten
<1>2. CASE FailsAs("ineligible")
  BY <1>1, <1>2, FailureKeeps
<1>3. CASE Remember("inspect", [seen EXCEPT !.links = LinkingDocs]) /\ UNCHANGED marks /\ Quiet
  <2>1. [seen EXCEPT !.links = LinkingDocs] \in Memory /\ seen \in Memory
    BY DEF RemovalInv, TypeOK, Memory, LinkingDocs
  <2>2. TypeOK'
    BY <1>1, <1>3, <2>1, RememberTypes DEF marks, Quiet, PruneSteps, Unwritten
  <2>3. ReportIsHonest' /\ Running'
    BY <1>1, <1>3, ReportKept DEF Remember, Unwritten
  <2>4. Settled'
    BY <1>1, <1>3, <2>1 DEF RemovalInv, Settled, Remember, Quiet, world, marks, Memory, PruneSteps, Unwritten
  <2> QED
    BY <1>1, <1>3, <2>2, <2>3, <2>4 DEF RemovalInv, Remember, Compared, Carries
<1> QED
  BY <1>2, <1>3 DEF Collect

LEMMA InspectKeeps ==
  ASSUME RemovalInv, Inspect
  PROVE  RemovalInv'
<1>1. mode = "prune" /\ pc = "inspect" /\ wrote = {}
  BY DEF Inspect, At, RemovalInv, Running, Unwritten
<1>2. CASE FailsAs("plan_stale")
  BY <1>1, <1>2, FailureKeeps
<1>3. CASE End("plan_stale") /\ UNCHANGED marks /\ Quiet
  BY <1>1, <1>3, RefusalKeeps
<1>4. CASE Step("recollect") /\ Reads({"md"}) /\ Quiet
  <2>1. TypeOK'
    BY <1>1, <1>4, StepTypes DEF Reads, Quiet, PruneSteps, Unwritten
  <2>2. ReportIsHonest' /\ Running'
    BY <1>1, <1>4, ReportKept DEF Step, Unwritten
  <2>3. Settled'
    BY <1>1, <1>4 DEF RemovalInv, Settled, Step, Reads, Quiet, world, PruneSteps, Unwritten
  <2> QED
    BY <1>1, <1>4, <2>1, <2>2, <2>3 DEF RemovalInv, Step, Compared, Carries
<1> QED
  BY <1>2, <1>3, <1>4 DEF Inspect

LEMMA RecollectKeeps ==
  ASSUME RemovalInv, Recollect
  PROVE  RemovalInv'
<1>1. mode = "prune" /\ pc = "recollect" /\ wrote = {}
  BY DEF Recollect, At, RemovalInv, Running, Unwritten
<1>2. CASE FailsAs("plan_stale")
  BY <1>1, <1>2, FailureKeeps
<1>3. CASE End("plan_stale") /\ UNCHANGED marks /\ Quiet
  BY <1>1, <1>3, RefusalKeeps
<1>4. CASE seen.links = LinkingDocs /\ Step("originals") /\ ReadsDocs(Docs) /\ Quiet
  <2>1. TypeOK'
    BY <1>1, <1>4, StepTypes DEF ReadsDocs, Quiet, PruneSteps, Unwritten
  <2>2. ReportIsHonest' /\ Running'
    BY <1>1, <1>4, ReportKept DEF Step, Unwritten
  <2>3. Settled'
    BY <1>1, <1>4 DEF RemovalInv, Settled, LinkingDocs, Step, ReadsDocs, Quiet, world, PruneSteps, Unwritten
  <2> QED
    BY <1>1, <1>4, <2>1, <2>2, <2>3 DEF RemovalInv, Step, Compared, Carries
<1> QED
  BY <1>2, <1>3, <1>4 DEF Recollect

LEMMA ReadOriginalsKeeps ==
  ASSUME RemovalInv, ReadOriginals
  PROVE  RemovalInv'
<1>1. mode = "prune" /\ pc = "originals" /\ wrote = {}
  BY DEF ReadOriginals, At, RemovalInv, Running, Unwritten
<1>2. CASE FailsAs("plan_stale")
  BY <1>1, <1>2, FailureKeeps
<1>3. CASE End("plan_stale") /\ UNCHANGED marks /\ Quiet
  BY <1>1, <1>3, RefusalKeeps
<1>4. CASE /\ pc' = "prepare" /\ seen' = [seen EXCEPT !.docs = docs] /\ pending' = seen.links
           /\ UNCHANGED <<mode, appended, rewritten, result, wrote, marks>> /\ Quiet
  <2> USE <1>1, <1>4 DEF marks, Quiet, world
  <2>1. seen' \in Memory /\ seen \in Memory /\ seen'.text = seen.text
    BY DEF RemovalInv, TypeOK, Memory
  <2>2. TypeOK'
    BY <2>1 DEF RemovalInv, TypeOK, Memory, PruneSteps, Unwritten
  <2>3. ReportIsHonest' /\ Running'
    BY ReportKept DEF Unwritten
  <2>4. Settled'
    BY <2>1 DEF RemovalInv, Settled, PruneSteps, Unwritten
  <2> QED
    BY <2>2, <2>3, <2>4 DEF RemovalInv, Compared, Carries
<1> QED
  BY <1>2, <1>3, <1>4 DEF ReadOriginals

LEMMA PrepareLedgerKeeps ==
  ASSUME RemovalInv, PrepareLedger
  PROVE  RemovalInv'
<1>1. mode = "prune" /\ pc = "prepare" /\ wrote = {}
  BY DEF PrepareLedger, At, RemovalInv, Running, Unwritten
<1>2. CASE FailsAs("write_failed")
  BY <1>1, <1>2, FailureKeeps
<1>3. CASE Remember("preguard", [seen EXCEPT !.ledger = ledger]) /\ UNCHANGED marks /\ Quiet
  <2>1. [seen EXCEPT !.ledger = ledger] \in Memory /\ seen \in Memory
    BY DEF RemovalInv, TypeOK, Memory
  <2>2. TypeOK'
    BY <1>1, <1>3, <2>1, RememberTypes DEF marks, Quiet, PruneSteps, Unwritten
  <2>3. ReportIsHonest' /\ Running'
    BY <1>1, <1>3, ReportKept DEF Remember, Unwritten
  <2>4. Settled'
    BY <1>1, <1>3, <2>1 DEF RemovalInv, Settled, Remember, Quiet, world, marks, Memory, PruneSteps, Unwritten
  <2> QED
    BY <1>1, <1>3, <2>2, <2>3, <2>4 DEF RemovalInv, Remember, Compared, Carries
<1> QED
  BY <1>2, <1>3 DEF PrepareLedger

LEMMA InspectBeforeWriteKeeps ==
  ASSUME RemovalInv, InspectBeforeWrite
  PROVE  RemovalInv'
<1>1. mode = "prune" /\ pc = "preguard" /\ wrote = {}
  BY DEF InspectBeforeWrite, At, RemovalInv, Running, Unwritten
<1>2. CASE FailsAs("plan_stale")
  BY <1>1, <1>2, FailureKeeps
<1>3. CASE End("plan_stale") /\ UNCHANGED marks /\ Quiet
  BY <1>1, <1>3, RefusalKeeps
<1>4. CASE Step("ledger") /\ Reads({"md"}) /\ Quiet
  <2>1. TypeOK'
    BY <1>1, <1>4, StepTypes DEF Reads, Quiet, PruneSteps, Unwritten
  <2>2. ReportIsHonest' /\ Running'
    BY <1>1, <1>4, ReportKept DEF Step, Unwritten
  <2>3. Settled'
    BY <1>1, <1>4 DEF RemovalInv, Settled, Step, Reads, Quiet, world, PruneSteps, Unwritten
  <2> QED
    BY <1>1, <1>4, <2>1, <2>2, <2>3 DEF RemovalInv, Step, Compared, Carries
<1> QED
  BY <1>2, <1>3, <1>4 DEF InspectBeforeWrite

LEMMA CompareLedgerKeeps ==
  ASSUME RemovalInv, CompareLedger
  PROVE  RemovalInv'
<1>1. mode = "prune" /\ pc = "ledger" /\ wrote = {}
  BY DEF CompareLedger, At, RemovalInv, Running, Unwritten
<1>2. CASE FailsAs("write_failed")
  BY <1>1, <1>2, FailureKeeps DEF Refusals
<1>3. CASE WriteFailed /\ UNCHANGED marks /\ Quiet
  BY <1>1, <1>3, WriteFailureKeeps
<1>4. CASE ledger \in WithRow /\ Step("rewrite") /\ Reads({"ledger"}) /\ Quiet
  <2>1. TypeOK'
    BY <1>1, <1>4, StepTypes DEF Reads, Quiet, PruneSteps, Unwritten
  <2>2. ReportIsHonest' /\ Running'
    BY <1>1, <1>4, ReportKept DEF Step, Unwritten
  <2>3. Settled'
    BY <1>1, <1>4 DEF RemovalInv, Settled, Step, Reads, Quiet, world, PruneSteps, Unwritten
  <2> QED
    BY <1>1, <1>4, <2>1, <2>2, <2>3 DEF RemovalInv, Step, Compared, Carries
<1>5. CASE /\ seen.ledger \notin WithRow /\ ledger = seen.ledger
           /\ Step("append") /\ Reads({"ledger"}) /\ Quiet
  <2>1. TypeOK'
    BY <1>1, <1>5, StepTypes DEF Reads, Quiet, PruneSteps, Unwritten
  <2>2. ReportIsHonest' /\ Running'
    BY <1>1, <1>5, ReportKept DEF Step, Unwritten
  <2>3. Settled'
    BY <1>1, <1>5 DEF RemovalInv, Settled, Step, Reads, Quiet, world, PruneSteps, Unwritten
  <2> QED
    BY <1>1, <1>5, <2>1, <2>2, <2>3 DEF RemovalInv, Step, Compared, Carries, Quiet, world
<1> QED
  BY <1>2, <1>3, <1>4, <1>5 DEF CompareLedger

\* A ledger without the row gets it.
LEMMA AppendedRow ==
  ASSUME NEW l \in Ledgers, l \notin WithRow
  PROVE  AppendRow[l] \in WithRow /\ AppendRow[l] \in Ledgers
  BY DEF Ledgers, WithRow, AppendRow

LEMMA RenameLedgerKeeps ==
  ASSUME RemovalInv, RenameLedger
  PROVE  RemovalInv'
<1>1. mode = "prune" /\ pc = "append"
  BY DEF RenameLedger, At
<1>2. CASE FailsAs("write_failed")
  BY <1>1, <1>2, FailureKeeps DEF Refusals
<1>3. CASE /\ ledger' = AppendRow[seen.ledger]
           /\ appended' = TRUE /\ wrote' = wrote \union {"ledger"} /\ pc' = "rewrite"
           /\ UNCHANGED <<md, record, docs, gates, dependant, mode, seen, pending, rewritten,
                          result, marks, moves, faults>>
  <2> USE <1>1, <1>3 DEF marks
  <2>1. ledger' \in WithRow /\ ledger' \in Ledgers
    BY AppendedRow DEF RemovalInv, TypeOK, Memory, Compared
  <2>2. TypeOK'
    BY <2>1 DEF RemovalInv, TypeOK, PruneSteps
  <2>3. ReportIsHonest' /\ Running'
    BY DEF RemovalInv, ReportIsHonest, Running, MutationLanded, NoResult, Unwritten
  <2>4. Settled'
    BY <2>1 DEF RemovalInv, Settled, PruneSteps, Unwritten
  <2> QED
    BY <2>2, <2>3, <2>4 DEF RemovalInv, Compared, Carries
<1> QED
  BY <1>2, <1>3 DEF RenameLedger

LEMMA CompareDocKeeps ==
  ASSUME RemovalInv, CompareDoc
  PROVE  RemovalInv'
<1>1. mode = "prune" /\ pc = "rewrite" /\ pending # {}
  BY DEF CompareDoc, At
<1>2. CASE FailsAs("write_failed")
  BY <1>1, <1>2, FailureKeeps DEF Refusals
<1>3. CASE WriteFailed /\ UNCHANGED marks /\ Quiet
  BY <1>1, <1>3, WriteFailureKeeps
<1>4. CASE /\ docs[Current] = seen.docs[Current]
           /\ Step("replace") /\ ReadsDocs({Current}) /\ Quiet
  <2>1. TypeOK'
    BY <1>1, <1>4, StepTypes DEF ReadsDocs, Quiet, PruneSteps
  <2>2. ReportIsHonest' /\ Running'
    BY <1>1, <1>4, ReportKept DEF Step, Unwritten
  <2>3. Current \in pending
    BY <1>1, CurrentIsPending DEF RemovalInv, TypeOK
  <2>4. Settled'
    BY <1>1, <1>4, <2>3 DEF RemovalInv, Settled, Step, ReadsDocs, Quiet, world, PruneSteps, Unwritten
  <2>5. Current' = Current
    BY <1>4 DEF Current, Step
  <2>6. Compared'
    BY <1>1, <1>4, <2>5 DEF Compared, Step, Quiet, world
  <2> QED
    BY <1>1, <1>4, <2>1, <2>2, <2>4, <2>6 DEF RemovalInv, Step, Carries
<1> QED
  BY <1>2, <1>3, <1>4 DEF CompareDoc

LEMMA RenameDocKeeps ==
  ASSUME RemovalInv, RenameDoc
  PROVE  RemovalInv'
<1>1. mode = "prune" /\ pc = "replace"
  BY DEF RenameDoc, At
<1>2. CASE FailsAs("write_failed")
  BY <1>1, <1>2, FailureKeeps DEF Refusals
<1>3. CASE /\ docs' = [docs EXCEPT ![Current] = [seen.docs[Current] EXCEPT !.link = FALSE]]
           /\ rewritten' = rewritten \union {Current} /\ wrote' = wrote \union {"docs"}
           /\ pending' = pending \ {Current} /\ pc' = "rewrite"
           /\ UNCHANGED <<md, record, ledger, gates, dependant, mode, seen, appended, result,
                          marks, moves, faults>>
  <2> USE <1>1, <1>3 DEF marks
  <2>1. Current \in pending /\ Current \in Docs
    BY CurrentIsPending DEF RemovalInv, TypeOK, Compared
  <2>2. seen.docs[Current] \in [link : BOOLEAN, user : BOOLEAN]
    BY <2>1 DEF RemovalInv, TypeOK, Memory, DocStates
  <2>3. docs' \in DocStates /\ ~docs'[Current].link
    BY <2>1, <2>2 DEF RemovalInv, TypeOK, DocStates
  <2>4. \A d \in Docs : d # Current => docs'[d] = docs[d]
    BY DEF RemovalInv, TypeOK, DocStates
  <2>5. TypeOK'
    BY <2>1, <2>3 DEF RemovalInv, TypeOK, PruneSteps
  <2>6. ReportIsHonest' /\ Running'
    BY DEF RemovalInv, ReportIsHonest, Running, MutationLanded, NoResult, Unwritten
  <2>7. Settled'
    BY <2>3, <2>4 DEF RemovalInv, Settled, PruneSteps, Unwritten
  <2> QED
    BY <2>5, <2>6, <2>7 DEF RemovalInv, Compared, Carries
<1> QED
  BY <1>2, <1>3 DEF RenameDoc

LEMMA InspectBeforeUnlinkKeeps ==
  ASSUME RemovalInv, InspectBeforeUnlink
  PROVE  RemovalInv'
<1>1. mode = "prune" /\ pc = "rewrite" /\ pending = {}
  BY DEF InspectBeforeUnlink, At
<1>2. CASE FailsAs("write_failed")
  BY <1>1, <1>2, FailureKeeps DEF Refusals
<1>3. CASE WriteFailed /\ UNCHANGED marks /\ Quiet
  BY <1>1, <1>3, WriteFailureKeeps
<1>4. CASE md = seen.text /\ Step("unlink") /\ Reads({"md"}) /\ Quiet
  <2>1. TypeOK'
    BY <1>1, <1>4, StepTypes DEF Reads, Quiet, PruneSteps
  <2>2. ReportIsHonest' /\ Running'
    BY <1>1, <1>4, ReportKept DEF Step, Unwritten
  <2>3. Settled'
    BY <1>1, <1>4 DEF RemovalInv, Settled, Step, Reads, Quiet, world, PruneSteps, Unwritten
  <2> QED
    BY <1>1, <1>4, <2>1, <2>2, <2>3 DEF RemovalInv, Step, Compared, Carries, Quiet, world
<1> QED
  BY <1>2, <1>3, <1>4 DEF InspectBeforeUnlink

-----------------------------------------------------------------------------
(* The removal itself, and every step.                                     *)

LEMMA UnlinkKeeps ==
  ASSUME RemovalInv, Unlink
  PROVE  RemovalInv'
<1>1. pc = "unlink" /\ mode \in {"retire", "prune"}
  BY DEF Unlink, RemovalInv, TypeOK
<1>2. CASE mode = "retire" /\ FailsAs("error")
  BY <1>1, <1>2, FailureKeeps DEF Refusals
<1>3. CASE mode = "prune" /\ FailsAs("write_failed")
  BY <1>1, <1>3, FailureKeeps DEF Refusals
<1>4. CASE /\ UNCHANGED marks /\ Quiet
           /\ IF mode = "retire" THEN End("error") ELSE WriteFailed
  <2>1. CASE mode = "retire"
    BY <1>1, <1>4, <2>1, RefusalKeeps DEF Refusals
  <2>2. CASE mode = "prune"
    BY <1>1, <1>4, <2>2, WriteFailureKeeps
  <2> QED
    BY <1>1, <2>1, <2>2
<1>5. CASE /\ md # "gone" /\ md' = "gone"
           /\ pc' = "idle" /\ wrote' = wrote \union {"md"}
           /\ result' = [kind |-> IF mode = "retire" THEN "retired" ELSE "applied", partial |-> FALSE]
           /\ seen' = Nothing /\ pending' = {}
           /\ UNCHANGED <<record, ledger, docs, gates, dependant, mode, appended, rewritten,
                          marks, moves, faults>>
  <2> USE <1>1, <1>5 DEF marks
  <2>1. result'.kind \in {"retired", "applied"} /\ result' \in [kind : Kinds, partial : BOOLEAN]
    BY DEF Kinds
  <2>2. TypeOK'
    BY <2>1, NothingIsMemory DEF RemovalInv, TypeOK
  <2>3. ReportIsHonest'
    BY <2>1 DEF ReportIsHonest
  <2> QED
    BY <2>2, <2>3 DEF RemovalInv, Running, Compared, Carries, Settled, PruneSteps, Unwritten
<1> QED
  BY <1>2, <1>3, <1>4, <1>5 DEF Unlink

LEMMA InitEstablishes == Init => RemovalInv
<1> SUFFICES ASSUME Init PROVE RemovalInv
  OBVIOUS
<1>1. docs \in DocStates
  BY DEF Init, DocStates
<1>2. TypeOK
  BY <1>1, NothingIsMemory DEF Init, TypeOK, Texts, Ledgers, Ways, NoResult, Kinds
<1>3. ReportIsHonest
  BY DEF Init, ReportIsHonest, NoResult
<1> QED
  BY <1>2, <1>3 DEF Init, RemovalInv, Running, Compared, Carries, Settled, PruneSteps, Unwritten

LEMMA NextKeeps == RemovalInv /\ [Next]_vars => RemovalInv'
<1> SUFFICES ASSUME RemovalInv, [Next]_vars PROVE RemovalInv'
  OBVIOUS
<1>1. CASE ReadPlan
  BY <1>1, ReadPlanKeeps
<1>2. CASE Retire
  BY <1>2, JudgeRetireKeeps, BaselineKeeps, WriteRecordKeeps, VerifyRecordKeeps,
     RecheckPlanKeeps, RecheckKeeps, GuardKeeps DEF Retire
<1>3. CASE Prune
  BY <1>3, JudgePruneKeeps, CollectKeeps, InspectKeeps, RecollectKeeps, ReadOriginalsKeeps,
     PrepareLedgerKeeps, InspectBeforeWriteKeeps, CompareLedgerKeeps, RenameLedgerKeeps,
     CompareDocKeeps, RenameDocKeeps, InspectBeforeUnlinkKeeps DEF Prune
<1>4. CASE Unlink
  BY <1>4, UnlinkKeeps
<1>5. CASE \E m \in {"retire", "prune"} : Start(m)
  BY <1>5, StartKeeps
<1>6. CASE StartOnAbsent
  BY <1>6, StartOnAbsentKeeps
<1>7. CASE Kill
  BY <1>7, KillKeeps
<1>8. CASE Others
  BY <1>8, OthersKeep
<1>9. CASE UNCHANGED vars
  <2>1. UNCHANGED <<md, record, ledger, docs, gates, dependant, mode, pc, seen, pending,
                    appended, rewritten, result, wrote, dirty, dirtyDocs, moves, faults>>
    BY <1>9 DEF vars, world, command, marks
  <2>2. Current' = Current
    BY <2>1 DEF Current
  <2> QED
    BY <2>1, <2>2 DEF RemovalInv, TypeOK, ReportIsHonest, Running, MutationLanded, Compared,
                      Carries, Carried, Settled
<1> QED
  BY <1>1, <1>2, <1>3, <1>4, <1>5, <1>6, <1>7, <1>8, <1>9 DEF Next, Command

LEMMA AlwaysRemovalInv == Spec => []RemovalInv
  BY InitEstablishes, NextKeeps, PTL DEF Spec

-----------------------------------------------------------------------------
(* Theorems.                                                               *)

(* The state is well typed; in particular a command is only at steps of    *)
(* its own.                                                                *)
THEOREM TypeCorrect == Spec => []TypeOK
<1>1. RemovalInv => TypeOK
  BY DEF RemovalInv
<1> QED
  BY <1>1, AlwaysRemovalInv, PTL

(* What a run says it did is what it did, whenever it was refused, failed, *)
(* was killed or was overtaken by an edit.                                 *)
THEOREM ReportIsHonestHolds == Spec => []ReportIsHonest
<1>1. RemovalInv => ReportIsHonest
  BY DEF RemovalInv
<1> QED
  BY <1>1, AlwaysRemovalInv, PTL

\* Only three steps of the commands change a file others edit.
LEMMA WhoWrites ==
  ASSUME RemovalInv, [Next]_vars, moves' = moves
  PROVE  \/ UNCHANGED <<md, ledger, docs>>
         \/ pc = "unlink" /\ md # "gone" /\ md' = "gone" /\ UNCHANGED <<record, ledger, docs, gates>>
         \/ pc = "append" /\ ledger' = AppendRow[seen.ledger] /\ UNCHANGED <<md, docs>>
         \/ /\ pc = "replace" /\ UNCHANGED <<md, ledger>>
            /\ docs' = [docs EXCEPT ![Current] = [seen.docs[Current] EXCEPT !.link = FALSE]]
<1>1. CASE Others
  BY <1>1 DEF Others, EditDecision, EditLedger, EditDoc, EditPlan, EditDependant, Touch, RemovalInv, TypeOK
<1>2. CASE Unlink
  BY <1>2 DEF Unlink, Quiet, FailsAs, world
<1>3. CASE Retire
  BY <1>3 DEF Retire, JudgeRetire, Baseline, WriteRecord, VerifyRecord, RecheckPlan, Recheck, Guard,
              Quiet, FailsAs, world
<1>4. CASE RenameLedger
  BY <1>4 DEF RenameLedger, At, FailsAs, world
<1>5. CASE RenameDoc
  BY <1>5 DEF RenameDoc, At, FailsAs, world
<1>6. CASE Prune /\ ~RenameLedger /\ ~RenameDoc
  BY <1>6 DEF Prune, JudgePrune, Collect, Inspect, Recollect, ReadOriginals, PrepareLedger,
              InspectBeforeWrite, CompareLedger, CompareDoc, InspectBeforeUnlink,
              Quiet, FailsAs, world
<1>7. CASE ReadPlan \/ Kill \/ StartOnAbsent \/ (\E m \in {"retire", "prune"} : Start(m))
  BY <1>7 DEF ReadPlan, Kill, StartOnAbsent, Start, Quiet, FailsAs, world
<1>8. CASE UNCHANGED vars
  BY <1>8 DEF vars, world
<1> QED
  BY <1>1, <1>2, <1>3, <1>4, <1>5, <1>6, <1>7, <1>8 DEF Next, Command

(* No command overwrites a version of the decision, of the ledger or of a  *)
(* linking document that it has not compared.                              *)
THEOREM ForeignKeptHolds == Spec => ForeignKept
<1>1. ASSUME RemovalInv, [Next]_vars, moves' = moves
      PROVE  /\ md' # md => "md" \in dirty \/ md = seen.text
             /\ ledger' # ledger => "ledger" \in dirty \/ ledger' = AppendRow[ledger]
             /\ \A d \in Docs : docs'[d] # docs[d] =>
                   d \in dirtyDocs \/ docs'[d] = [docs[d] EXCEPT !.link = FALSE]
  <2>1. CASE UNCHANGED <<md, ledger, docs>>
    BY <2>1
  <2>2. CASE pc = "unlink" /\ UNCHANGED <<ledger, docs>>
    BY <1>1, <2>2 DEF RemovalInv, Compared
  <2>3. CASE pc = "append" /\ ledger' = AppendRow[seen.ledger] /\ UNCHANGED <<md, docs>>
    BY <1>1, <2>3 DEF RemovalInv, Compared
  <2>4. CASE /\ pc = "replace" /\ UNCHANGED <<md, ledger>>
             /\ docs' = [docs EXCEPT ![Current] = [seen.docs[Current] EXCEPT !.link = FALSE]]
    <3>1. \A d \in Docs : docs'[d] # docs[d] => d = Current
      BY <1>1, <2>4 DEF RemovalInv, TypeOK, DocStates
    <3>2. Current \in Docs
      BY <1>1, <2>4, CurrentIsPending DEF RemovalInv, TypeOK, Compared
    <3>3. docs'[Current] = [seen.docs[Current] EXCEPT !.link = FALSE]
      BY <1>1, <2>4, <3>2 DEF RemovalInv, TypeOK, DocStates
    <3>4. Current \in dirtyDocs \/ docs[Current] = seen.docs[Current]
      BY <1>1, <2>4 DEF RemovalInv, Compared
    <3> QED
      BY <2>4, <3>1, <3>3, <3>4
  <2> QED
    BY <1>1, <2>1, <2>2, <2>3, <2>4, WhoWrites
<1> QED
  BY <1>1, AlwaysRemovalInv, PTL DEF Spec, ForeignKept

(* A removed decision leaves behind what stands for it: a record of the    *)
(* removed bytes that still answers every reference, or a ledger row and   *)
(* no link; excused only by a foreign change the command could not see.    *)
THEOREM RemovalIsAccountedForHolds == Spec => RemovalIsAccountedFor
<1>1. ASSUME RemovalInv, [Next]_vars, RemovedBy("retire")
      PROVE  /\ "md" \in dirty \/ record = md
             /\ dirty \intersect {"md", "gates"} # {} \/ \A w \in gates : Holds(w) => Holds(w)'
             /\ "dependant" \in dirty \/ ~dependant
  <2>1. pc = "unlink" /\ mode = "retire" /\ md' = "gone" /\ UNCHANGED <<record, gates>>
    BY <1>1, WhoWrites DEF RemovedBy
  <2>2. record = seen.text /\ ("md" \in dirty \/ md = seen.text)
    BY <1>1, <2>1 DEF RemovalInv, Compared, Carries
  <2>3. "gates" \in dirty \/ \A w \in gates : Carried(w, record \in Accepted)
    BY <1>1, <2>1 DEF RemovalInv, Carries
  <2>4. record # "none"
    BY <1>1, <2>2 DEF RemovalInv, TypeOK, Memory, Texts
  <2>5. ASSUME NEW w \in gates, Carried(w, record \in Accepted)
        PROVE  Holds(w)'
    BY <2>1, <2>4, <2>5 DEF Carried, Holds
  <2> QED
    BY <1>1, <2>1, <2>2, <2>3, <2>5 DEF RemovalInv, Carries
<1>2. ASSUME RemovalInv, [Next]_vars, RemovedBy("prune")
      PROVE  /\ "md" \in dirty \/ md \in {"accepted", "reworded"}
             /\ "ledger" \in dirty \/ ledger \in WithRow
             /\ "dependant" \in dirty \/ ~dependant
             /\ \A d \in Docs : d \in dirtyDocs \/ ~docs[d].link
  <2>1. pc = "unlink" /\ mode = "prune"
    BY <1>2, WhoWrites DEF RemovedBy
  <2> QED
    BY <1>2, <2>1 DEF RemovalInv, Compared, Settled, PruneSteps, Unwritten
<1> QED
  BY <1>1, <1>2, AlwaysRemovalInv, PTL DEF Spec, RemovalIsAccountedFor

=============================================================================
