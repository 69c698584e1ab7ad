----------------------------- MODULE VerifyStages -----------------------------
(***************************************************************************)
(* verify --stage focused and --stage full under a verification policy: a  *)
(* full attempt needs a focused pass recorded for the same tree since the  *)
(* last full attempt on it, and the attempts of a task are counted.  The   *)
(* ledger is one file, read whole and written back by a plain write, which *)
(* empties the file first and may be cut anywhere; nothing locks it.  The  *)
(* tree is identified before a full attempt and after every attempt.  The  *)
(* commands run under BoundedCommand.  Others edit the tree, and another   *)
(* process records attempts of its own by the same read and write.         *)
(***************************************************************************)
EXTENDS BoundedCommand, Sequences, SequencesExt

CONSTANTS
    MaxFull,       \* verification_policy.max_full_attempts
    FullCommands,  \* how many commands a full verification runs
    MaxRuns,       \* bound on this process's verifications
    MaxEdits,      \* bound on edits of the tree
    MaxOthers      \* bound on attempts of the other process

ASSUME StagesAssumption ==
    /\ MaxFull \in Nat /\ FullCommands \in Nat \ {0}
    /\ MaxRuns \in Nat /\ MaxEdits \in Nat /\ MaxOthers \in Nat

VARIABLES
    tree,      \* the tree as its digest identifies it
    ledger,    \* the attempts in the ledger file, line by line
    legible,   \* whether every line of it parses
    truth,     \* every attempt anyone recorded, the lost ones too
    clock,     \* the time, as finished_at shows it
    step,      \* this process's next step
    stage, left, failed, finished,   \* its attempt
    key,       \* the tree as it identified it
    pen,       \* per process, the attempt it records and the ledger it read
    spoiled,   \* attempts were lost, or recorded in another order than they ended
    edits, runs, others

verifier == <<step, stage, left, failed, finished, key>>
counters == <<edits, runs, others>>
records == <<ledger, legible, truth, pen, spoiled>>
verifyVars == <<commandVars, tree, records, clock, verifier, counters>>

Attempt(s, t, f, at) == [stage |-> s, tree |-> t, failed |-> f, at |-> at]

Processes == {"this", "other"}
Pen(at, copy, e) == [at |-> at, copy |-> copy, entry |-> e]
NoPen == Pen("none", <<>>, Attempt("focused", 0, FALSE, 0))

VerifyInit ==
    /\ CommandInit
    /\ tree = 0 /\ ledger = <<>> /\ legible = TRUE /\ truth = <<>> /\ clock = 0
    /\ step = "idle" /\ stage = "focused" /\ left = 0 /\ failed = FALSE /\ finished = 0
    /\ key = 0 /\ pen = [p \in Processes |-> NoPen] /\ spoiled = FALSE
    /\ edits = 0 /\ runs = 0 /\ others = 0

-----------------------------------------------------------------------------
(* The ledger                                                              *)

stageAttemptCount(l, s) == Len(SelectSeq(l, LAMBDA e : e.stage = s))

(* lastStageEntryForState: where it is, if there is one.                  *)
LastFor(l, t, s) ==
    LET places == {i \in DOMAIN l : l[i].stage = s /\ l[i].tree = t}
    IN  {i \in places : \A j \in places : j <= i}

(* assertFullStageAllowed: by the last entry of each stage for this tree.  *)
FocusedAfterLastFull(l, t) ==
    \E i \in LastFor(l, t, "focused") :
        /\ ~l[i].failed
        /\ \A j \in LastFor(l, t, "full") : l[i].at > l[j].at

FullAllowed(l, t) ==
    stageAttemptCount(l, "full") < MaxFull /\ FocusedAfterLastFull(l, t)

(* appendVerificationLedgerEntry, by process p.  A copy that was read      *)
(* while somebody writes misses what is being written.                     *)
Elsewhere(p, points) == \E q \in Processes \ {p} : pen[q].at \in points

ReadLedger(p, e) ==
    /\ pen[p].at \in {"none", "ended"} /\ legible
    /\ pen' = [pen EXCEPT ![p] = Pen("append", ledger, e)]
    /\ spoiled' = (spoiled \/ Elsewhere(p, {"write"}))
    /\ UNCHANGED <<ledger, legible, truth>>

(* The write empties the file.  Whoever else holds a copy will overwrite   *)
(* what is written, or be overwritten.                                     *)
OpenLedger(p) ==
    /\ pen[p].at = "append" /\ pen' = [pen EXCEPT ![p].at = "write"]
    /\ ledger' = <<>> /\ legible' = TRUE
    /\ spoiled' = (spoiled \/ Elsewhere(p, {"append", "write"}))
    /\ UNCHANGED truth

(* It is complete after n entries, or is cut there by a kill, a full disk  *)
(* or an error, possibly inside the next one.  What another write has put  *)
(* into the file shows behind it from some point on.                       *)
LaterFull(l, e) == e.stage = "full" /\ \E g \in ToSet(l) : g.stage = "full" /\ g.at > e.at

WriteAs(p, next, e) ==
    /\ pen[p].at = "write" /\ pen' = [pen EXCEPT ![p] = NoPen]
    /\ \E n \in 0 .. Len(next), m \in 1 .. Len(ledger) + 1 :
          /\ ledger' = SubSeq(next, 1, n) \o SubSeq(ledger, m, Len(ledger))
          /\ legible' \in IF n = Len(next) /\ ledger = <<>> /\ legible THEN {TRUE} ELSE BOOLEAN
          /\ truth' = IF n = Len(next) THEN Append(truth, e) ELSE truth
          /\ spoiled' = (spoiled \/ n < Len(next) - 1 \/ LaterFull(pen[p].copy, e))

\* Faulty variant: writes its own entry only.
WriteOnlyMine(p) == WriteAs(p, <<pen[p].entry>>, pen[p].entry)

WriteLedger(p) == WriteAs(p, Append(pen[p].copy, pen[p].entry), pen[p].entry)

(* The directory cannot be made or the file not be opened.                 *)
GiveUp(p) ==
    /\ pen[p].at = "append" /\ pen' = [pen EXCEPT ![p] = NoPen]
    /\ UNCHANGED <<ledger, legible, truth, spoiled>>

-----------------------------------------------------------------------------
(* runVerify                                                               *)

Goto(s) == step' = s /\ UNCHANGED <<stage, left, failed, finished, key>>
Finish ==
    /\ step' = "idle" /\ stage' = "focused" /\ left' = 0 /\ failed' = FALSE /\ finished' = 0
    /\ key' = 0
World == UNCHANGED <<tree, records, clock, counters>>

Begin ==
    /\ step = "idle" /\ runs < MaxRuns /\ runs' = runs + 1
    /\ signal' = FALSE                    \* every verification is a process of its own
    /\ stage' \in {"focused", "full"} /\ failed' = FALSE
    /\ step' = IF stage' = "full" THEN "identify" ELSE "run"
    /\ left' = IF stage' = "full" THEN FullCommands ELSE 1
    /\ UNCHANGED <<child, supervisor, tree, records, clock, finished, key, edits, others>>

(* currentVerificationState: git may fail or be aborted; then no stage     *)
(* starts and nothing is recorded.                                         *)
Identify(from, to) ==
    /\ step = from
    /\ \/ ~signal /\ step' = to /\ key' = tree /\ UNCHANGED <<stage, left, failed, finished>>
       \/ Finish
    /\ UNCHANGED commandVars /\ World

Authorize ==     \* refused, too, when the ledger cannot be read
    /\ step = "authorize"
    /\ \/ legible /\ FullAllowed(ledger, key) /\ Goto("run")
       \/ Finish
    /\ UNCHANGED commandVars /\ World

RunCommand ==
    /\ step = "run" /\ sup = "idle" /\ Start
    /\ IF sup' = "racing" THEN Goto("running") ELSE Goto("check")
    /\ World

Settled ==
    /\ step = "running" /\ sup = "idle" /\ Goto("check")
    /\ UNCHANGED commandVars /\ World

(* The first command that is not ok ends the attempt; after an abort the   *)
(* attempt is still recorded only if the tree can be identified, which the *)
(* signal forbids.  The decision gate and the consistency checks may fail. *)
Check ==
    /\ step = "check"
    /\ \/ /\ Ok(outcome) /\ left > 1
          /\ left' = left - 1 /\ step' = "run"
          /\ UNCHANGED <<stage, failed, finished, key, clock>>
       \/ /\ ~Ok(outcome) \/ left = 1
          /\ step' = "key" /\ clock' = clock + 1 /\ finished' = clock'
          /\ failed' \in IF Ok(outcome)
                           THEN IF stage = "full" THEN BOOLEAN ELSE {FALSE}
                           ELSE {TRUE}
          /\ UNCHANGED <<stage, left, key>>
    /\ outcome' = NoOutcome
    /\ UNCHANGED <<child, attempt, sup, signal, tree, records, counters>>

RecordStageAttempt ==
    /\ \/ step = "ledger" /\ Goto("record")
          /\ ReadLedger("this", Attempt(stage, key, failed, finished))
       \/ step = "ledger" /\ Finish /\ UNCHANGED records
       \/ step = "record" /\ OpenLedger("this") /\ UNCHANGED verifier
       \/ step = "record" /\ (WriteLedger("this") \/ GiveUp("this")) /\ Finish
    /\ UNCHANGED <<commandVars, tree, clock, counters>>

Verifier ==
    \/ Identify("identify", "authorize") \/ Authorize \/ RunCommand \/ Settled \/ Check
    \/ Identify("key", "ledger") \/ RecordStageAttempt

(* A kill; in the middle of its write it is one of WriteLedger's cuts.     *)
Killed ==
    /\ step # "idle" /\ pen["this"].at # "write"
    /\ Finish /\ Settle("null", "none", "none")
    /\ pen' = [pen EXCEPT !["this"] = NoPen]
    /\ UNCHANGED <<signal, tree, ledger, legible, truth, spoiled, clock, counters>>

-----------------------------------------------------------------------------
(* Everyone else                                                           *)

EditTree ==
    /\ edits < MaxEdits /\ edits' = edits + 1
    /\ tree' \in 0 .. MaxEdits \ {tree}
    /\ UNCHANGED <<commandVars, records, clock, verifier, runs, others>>

(* An attempt of the other process ends, and waits to be recorded.  How a  *)
(* full one ended is asked by nobody.                                      *)
OtherEnds ==
    /\ others < MaxOthers /\ others' = others + 1 /\ clock' = clock + 1
    /\ pen["other"].at = "none"
    /\ \E s \in {"focused", "full"}, f \in BOOLEAN :
          /\ s = "full" => f
          /\ pen' = [pen EXCEPT !["other"] = Pen("ended", <<>>, Attempt(s, tree, f, clock'))]
    /\ UNCHANGED <<commandVars, tree, ledger, legible, truth, spoiled, verifier, edits, runs>>

OtherRecords ==
    /\ \/ pen["other"].at = "ended" /\ ReadLedger("other", pen["other"].entry)
       \/ OpenLedger("other") \/ WriteLedger("other") \/ GiveUp("other")
    /\ UNCHANGED <<commandVars, tree, clock, verifier, counters>>

Environment ==
    \/ EditTree \/ OtherEnds \/ OtherRecords \/ Killed
    \/ (Tree \/ (step # "idle" /\ Abort)) /\ UNCHANGED verifier /\ World

VerifyNext ==
    \/ Begin \/ Verifier \/ Environment
    \/ Supervise /\ UNCHANGED verifier /\ World

VerifySpec == VerifyInit /\ [][VerifyNext]_verifyVars /\ WF_verifyVars(Verifier)
             /\ WF_verifyVars(Supervise /\ UNCHANGED verifier /\ World)

-----------------------------------------------------------------------------
(* Properties                                                              *)

(* A full attempt starts only for a tree that somebody has really recorded *)
(* a focused pass of: no race for the ledger and no torn write makes one   *)
(* up.  Unless the ledger was spoiled, that pass is later than every full  *)
(* attempt really recorded on the tree, and fewer full attempts than the   *)
(* policy allows have really been recorded (cli-contract,                  *)
(* FULL_RETRY_REQUIRES_FOCUSED_PASS): no attempt is forgotten or reordered *)
(* by reading the ledger and writing it back.  Spoiled it is when one      *)
(* process reads or opens it between another's read and the end of its     *)
(* write, when a write is cut so early that earlier attempts are missing,  *)
(* and when a full attempt is recorded after one that ended later: the     *)
(* code then takes the older one for the last.                             *)
FullIsAuthorized ==
    [][ step = "authorize" /\ step' = "run" =>
          \E p \in ToSet(truth) :
             /\ p.stage = "focused" /\ p.tree = key /\ ~p.failed
             /\ ~spoiled =>
                  /\ stageAttemptCount(truth, "full") < MaxFull
                  /\ \A g \in ToSet(truth) : g.stage = "full" /\ g.tree = key => g.at < p.at ]_verifyVars

(* A verification ends whatever its commands do: a child that ignores the  *)
(* timeout, a descendant that keeps the pipes open, a group that cannot be *)
(* killed.  Timers, the event loop and the verifier are fair, nothing else.*)
VerificationEnds == step # "idle" ~> step = "idle"

=============================================================================
