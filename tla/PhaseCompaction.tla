-------------------------- MODULE PhaseCompaction --------------------------
(***************************************************************************)
(* What becomes of a finished phase: `phase archive` records a snapshot and *)
(* removes the phase file, `state compact` copies the phase's event files   *)
(* into one pack and unlinks them, `state compact-archive` moves the pack   *)
(* into a bundle.  The three run under the write lock, one at a time.  Two  *)
(* kinds of process do not: task commands that were under way publish their *)
(* event whenever they get to it, and readers merge files and pack.         *)
(*                                                                         *)
(* One phase with one done task.  An event is a number, its place in the    *)
(* merged order; events of other tasks are in other files and are never     *)
(* candidates.  The reads of one plan are one step; between two plans, two  *)
(* files, or a check and the call it guards, anything may happen.           *)
(***************************************************************************)
EXTENDS Naturals, FiniteSets

CONSTANTS
    Events,       \* the task's events, numbered in their merged order
    Done, Failed, \* the events whose status is done, failed
    None,
    Gone,         \* the phase file after its removal
    MaxEdits,     \* bound: edits of the phase file
    Scenarios     \* bounds: whether readers run, and how many kills, failing
                  \* calls and changes by hand there may be

ASSUME EventsAreNumbers == Events \subseteq Nat /\ IsFiniteSet(Events)
ASSUME StatusesAreApart == Done \cup Failed \subseteq Events /\ Done \cap Failed = {}
ASSUME BoundsAreNat == MaxEdits \in Nat /\ Scenarios \subseteq [readers : BOOLEAN, faults : Nat]

Snapshot == [source : Nat, evidence : SUBSET Events, swapped : BOOLEAN]
Pack == [snap : Snapshot, ids : SUBSET Events]
ASSUME MarkersAreApart ==
    None \notin Events /\ None \notin Snapshot /\ None \notin Pack /\ Gone \notin Nat

VARIABLES
    yaml,       \* the edition of the phase file, or Gone
    edition,    \* the newest edition
    snapshot,   \* the archive record, or None
    loose,      \* events in files of their own
    corrupt,    \* events whose file no longer parses
    pack,       \* the phase's pack, or None
    packAt,     \* where it is: its own file, a bundle, or both
    inflight,   \* events of task commands past their checks
    owed,       \* published and never deleted by hand
    late,       \* an event was published after the snapshot was recorded
    pc, run,    \* the command that holds the write lock
    outcome,    \* what the last compaction reported
    touched,    \* what it really changed
    reader,     \* a reader of the merged ledger
    faults      \* faults that may still happen

phase == <<yaml, edition, snapshot>>
ledger == <<loose, corrupt, inflight, owed, late>>
packs == <<pack, packAt>>
command == <<pc, run, outcome, touched>>
vars == <<phase, ledger, packs, command, reader, faults>>

NoRun == [baseline |-> Gone, ids |-> {}, snap |-> None, target |-> {}, covers |-> {},
          unlinked |-> {}, vanished |-> {}, skipped |-> {}, abort |-> FALSE, at |-> None,
          names |-> {}, before |-> 0, wrote |-> FALSE, again |-> FALSE]
NoOutcome == [kind |-> "none", partial |-> FALSE, deleted |-> 0, vanished |-> 0]
NoReader == [at |-> "idle", names |-> {}, seen |-> {}, file |-> FALSE, owed |-> {}]
Untouched == [pack |-> FALSE, unlinked |-> {}]

\* A phase that is done in its file, some events published, some on their way.
Init ==
    /\ yaml = 0 /\ edition = 0 /\ snapshot = None
    /\ loose \in SUBSET Events /\ corrupt = {} /\ owed = loose
    /\ inflight \in SUBSET (Events \ loose) /\ late = FALSE
    /\ pack = None /\ packAt = {}
    /\ pc = "idle" /\ run = NoRun /\ outcome = NoOutcome /\ touched = Untouched
    /\ \E s \in Scenarios :
        /\ reader = IF s.readers THEN NoReader ELSE [NoReader EXCEPT !.at = "never"]
        /\ faults = s.faults

Goto(label) == pc' = label
Fault == faults > 0 /\ faults' = faults - 1

-----------------------------------------------------------------------------
(* A pack bound to the snapshot.                                            *)

\* Faulty variant: all that resolves counts as packed, files included.
Resolvable(p) == IF p = None THEN {} ELSE loose \cup p.ids

PackIds(p) == IF p = None THEN {} ELSE p.ids

Last(S) == {e \in S : \A f \in S : f <= e}

\* replayTaskConsistency: with done events as evidence one of them must still be
\* the last event; an attested task may have any history but a failed one.
Replays(S, evidence) ==
    IF evidence = {} THEN Last(S) \cap Failed = {} ELSE Last(S) \subseteq evidence

\* bindPackToSnapshot: made for this snapshot, every file's event in it,
\* and the evidence resolved from both.
Binds(p, snap, files) ==
    /\ p.snap = snap
    /\ files \subseteq PackIds(p)
    /\ snap.evidence \subseteq files \cup p.ids
    /\ Replays(files \cup p.ids, snap.evidence)

\* Faulty variant: files left by an earlier cleanup make the pack stale.
PartlyCleanedIsStale(files) ==
    IF files = {} THEN "empty"
    ELSE IF files = PackIds(pack) THEN "covered" ELSE "diverged"

\* classifyLoosePackRelationship.
Relationship(files) ==
    IF files = {} THEN "empty"
    ELSE IF files \subseteq PackIds(pack) THEN "covered" ELSE "diverged"

Candidate(files) == [snap |-> snapshot, ids |-> files]

\* planEventPack, in its order of checks.
Verdict ==
    CASE yaml # Gone \/ snapshot = None -> "ineligible"
      [] OTHER ->
        IF corrupt # {} THEN "throws"
        ELSE IF pack # None /\ ~ Binds(pack, snapshot, loose) THEN "ineligible"
        ELSE IF ~ snapshot.evidence \subseteq loose \cup PackIds(pack) THEN "ineligible"
        ELSE IF pack # None
             THEN IF Relationship(loose) = "diverged" THEN "ineligible" ELSE "packed"
        ELSE IF loose = {} THEN "no events"
        ELSE IF Binds(Candidate(loose), snapshot, loose) THEN "write" ELSE "ineligible"

-----------------------------------------------------------------------------
(* phase archive: record, read back, check that the file is still the one   *)
(* that was recorded, remove it.                                            *)

Durable == loose \cup PackIds(pack)

\* The evidence the task's done status rests on; None when the events drift
\* from it.  Without any event the maintainer attests.
Evidence ==
    IF Durable = {} THEN {}
    ELSE IF Last(Durable) \subseteq Done THEN Durable \cap Done ELSE None

BeginArchive ==
    /\ pc = "idle" /\ yaml # Gone
    /\ run' = [NoRun EXCEPT !.baseline = yaml]
    /\ Goto("record")
    /\ UNCHANGED <<phase, ledger, packs, outcome, touched, reader, faults>>

EndArchive == Goto("idle") /\ run' = NoRun

\* A strict reader: a corrupt file or a pack that does not bind throws.  A
\* record of another edition, or with other evidence, is never replaced.
RecordSnapshot ==
    /\ pc = "record"
    /\ IF /\ corrupt = {} /\ Evidence # None
          /\ pack # None => snapshot # None /\ Binds(pack, snapshot, loose)
          /\ snapshot = None \/ (snapshot.source = yaml /\ snapshot.evidence = Evidence)
       THEN /\ snapshot' = IF snapshot # None THEN snapshot
                           ELSE [source |-> yaml, evidence |-> Evidence, swapped |-> FALSE]
            /\ Goto("check") /\ UNCHANGED run
       ELSE EndArchive /\ UNCHANGED snapshot
    /\ UNCHANGED <<yaml, edition, ledger, packs, outcome, touched, reader, faults>>

\* Faulty variant: that the file is still there is all that is checked.
IsFile == yaml # Gone

\* The file is the baseline's, and so is the record.
IsRecorded == yaml = run.baseline /\ snapshot.source = run.baseline

CheckYaml ==
    /\ pc = "check"
    /\ IF IsRecorded THEN Goto("remove") /\ UNCHANGED run ELSE EndArchive
    /\ UNCHANGED <<phase, ledger, packs, outcome, touched, reader, faults>>

RemoveYaml ==
    /\ pc = "remove"
    /\ yaml' = Gone
    /\ EndArchive
    /\ UNCHANGED <<edition, snapshot, ledger, packs, outcome, touched, reader, faults>>

-----------------------------------------------------------------------------
(* state compact.                                                           *)

Report(kind, partial, deleted, vanished) ==
    /\ Goto("idle")
    /\ run' = NoRun
    /\ outcome' = [kind |-> kind, partial |-> partial, deleted |-> deleted,
                   vanished |-> vanished]

\* A run that changed the tree reports that, whatever stopped it.
ReportBlocked(kind) ==
    IF run.wrote THEN Report("write failed", TRUE, 0, 0) ELSE Report(kind, FALSE, 0, 0)

BeginCompact ==
    /\ pc = "idle"
    /\ run' = NoRun
    /\ Goto("prepare")
    /\ outcome' = NoOutcome /\ touched' = Untouched
    /\ UNCHANGED <<phase, ledger, packs, reader, faults>>

\* prepareLooseCleanup, its first half.
Prepare ==
    /\ pc = "prepare"
    /\ CASE Verdict = "throws" -> ReportBlocked("error")
         [] Verdict = "ineligible" -> ReportBlocked("ineligible")
         [] Verdict = "no events" -> Report("no events", FALSE, 0, 0)
         [] Verdict = "write" ->
                IF run.again THEN ReportBlocked("ineligible")
                ELSE Goto("plan") /\ UNCHANGED <<run, outcome>>
         [] Verdict = "packed" -> Goto("reread") /\ UNCHANGED <<run, outcome>>
    /\ UNCHANGED <<phase, ledger, packs, touched, reader, faults>>

\* The plan for the pack, and its repetition inside applyEventPackPlan, whose
\* candidate is the one that gets written.
PlanPack ==
    /\ pc = "plan"
    /\ CASE Verdict = "write" ->
                /\ run' = [run EXCEPT !.before = Cardinality(loose), !.again = TRUE]
                /\ Goto("replan") /\ UNCHANGED outcome
         [] Verdict = "throws" -> Report("error", FALSE, 0, 0)
         [] OTHER ->
                /\ run' = [run EXCEPT !.again = TRUE]
                /\ Goto("prepare") /\ UNCHANGED outcome
    /\ UNCHANGED <<phase, ledger, packs, touched, reader, faults>>

Replan ==
    /\ pc = "replan"
    /\ CASE Verdict = "write" ->
                /\ run' = [run EXCEPT !.ids = loose, !.snap = snapshot]
                /\ Goto("write") /\ UNCHANGED outcome
         [] Verdict = "throws" -> Report("error", FALSE, 0, 0)
         [] OTHER -> Goto("prepare") /\ UNCHANGED <<run, outcome>>
    /\ UNCHANGED <<phase, ledger, packs, touched, reader, faults>>

WritePack ==
    /\ pc = "write"
    /\ \/ /\ pack' = [snap |-> run.snap, ids |-> run.ids] /\ packAt' = {"file"}
          /\ touched' = [touched EXCEPT !.pack = TRUE]
          /\ Goto("verify")
          /\ UNCHANGED <<run, outcome, faults>>
       \/ /\ Fault
          /\ Report("write failed", FALSE, 0, 0)
          /\ UNCHANGED <<packs, touched>>
    /\ UNCHANGED <<phase, ledger, reader>>

\* The whole plan again: the pack is there, and the files it was made from are.
VerifyPack ==
    /\ pc = "verify"
    /\ IF Verdict = "packed" /\ loose # {} /\ Cardinality(loose) = Cardinality(run.ids)
       THEN /\ run' = [run EXCEPT !.wrote = TRUE]
            /\ Goto("prepare") /\ UNCHANGED outcome
       ELSE Report("write failed", TRUE, 0, 0)
    /\ UNCHANGED <<phase, ledger, packs, touched, reader, faults>>

\* prepareLooseCleanup, its second half: snapshot, files and pack read again and
\* bound again; the files found now are the target.
Reread ==
    /\ pc = "reread"
    /\ IF corrupt # {} THEN ReportBlocked("error")
       ELSE IF ~ (pack # None /\ snapshot # None /\ Binds(pack, snapshot, loose))
       THEN ReportBlocked("ineligible")
       ELSE IF loose = {}
       THEN IF run.wrote THEN Report("cleaned", TRUE, 0, run.before)
                         ELSE Report("already clean", FALSE, 0, 0)
       ELSE /\ run' = [run EXCEPT !.target = loose, !.covers = PackIds(pack), !.snap = snapshot]
            /\ Goto("gate") /\ UNCHANGED outcome
    /\ UNCHANGED <<phase, ledger, packs, touched, reader, faults>>

Handled == run.unlinked \cup run.vanished \cup run.skipped

\* evaluateDeleteGate, for a file that is there and parses.
Deletable(e) == yaml = Gone /\ e \in run.covers /\ snapshot = run.snap

\* Each file is checked afresh before its unlink; a safety check that fails
\* stops the loop.
Gate(e) ==
    /\ pc = "gate" /\ e \in run.target \ Handled
    /\ CASE e \notin loose -> run' = [run EXCEPT !.vanished = @ \cup {e}] /\ UNCHANGED pc
         [] e \in corrupt -> run' = [run EXCEPT !.skipped = @ \cup {e}] /\ UNCHANGED pc
         [] e \in loose \ corrupt /\ Deletable(e) ->
                run' = [run EXCEPT !.at = e] /\ Goto("unlink")
         [] e \in loose \ corrupt /\ ~ Deletable(e) ->
                run' = [run EXCEPT !.abort = TRUE] /\ Goto("list")
    /\ UNCHANGED <<phase, ledger, packs, outcome, touched, reader, faults>>

\* Faulty variant: a file that was gone already is tallied as deleted.
TalliedAsUnlinked(e) == run.unlinked \cup {e}

UnlinkedWith(e) == IF e \in loose THEN run.unlinked \cup {e} ELSE run.unlinked

Unlink(e) ==
    /\ pc = "unlink" /\ run.at = e
    /\ \/ /\ loose' = loose \ {e} /\ corrupt' = corrupt \ {e}
          /\ run' = [run EXCEPT !.at = None, !.unlinked = UnlinkedWith(e),
                                !.vanished = IF e \in loose THEN @ ELSE @ \cup {e}]
          /\ touched' = [touched EXCEPT !.unlinked = IF e \in loose THEN @ \cup {e} ELSE @]
          /\ UNCHANGED faults
       \/ /\ Fault /\ e \in loose
          /\ run' = [run EXCEPT !.at = None, !.skipped = @ \cup {e}]
          /\ UNCHANGED <<loose, corrupt, touched>>
    /\ Goto("gate")
    /\ UNCHANGED <<phase, inflight, owed, late, packs, outcome, reader>>

\* reconcileSurvivors lists the directory, then reads each file.
ListSurvivors ==
    /\ \/ pc = "list"
       \/ pc = "gate" /\ run.target \subseteq Handled
    /\ run' = [run EXCEPT !.names = loose]
    /\ Goto("reconcile")
    /\ UNCHANGED <<phase, ledger, packs, outcome, touched, reader, faults>>

\* A listed file that is gone when it is read, or a skipped one no longer
\* listed, has vanished; without its content only its name ties it to the phase.
VanishedSince ==
    {e \in run.names \ loose : e \in run.target \cup run.covers}
        \cup (run.skipped \ run.names)

Survivors == run.names \cap loose
Uncovered == {e \in Survivors \ corrupt : e \notin run.covers}

Reconcile ==
    LET deleted == Cardinality(run.unlinked)
        waited == IF run.before > Cardinality(run.target)
                  THEN run.before - Cardinality(run.target) ELSE 0
        vanished == waited + Cardinality(run.vanished) + Cardinality(VanishedSince)
    IN  /\ pc = "reconcile"
        /\ Report(CASE run.abort \/ Uncovered # {} -> "failed"
                    [] ~ run.abort /\ Uncovered = {} /\ Survivors # {} -> "incomplete"
                    [] OTHER -> IF deleted + vanished = 0 THEN "error" ELSE "cleaned",
                  run.wrote \/ deleted > 0, deleted, vanished)
        /\ UNCHANGED <<phase, ledger, packs, touched, reader, faults>>

-----------------------------------------------------------------------------
(* state compact-archive: the pack goes into a bundle, then its file goes.  *)

BundlePack ==
    /\ pc = "idle" /\ "file" \in packAt
    /\ packAt' = packAt \cup {"bundle"}
    /\ Goto("retire")
    /\ UNCHANGED <<phase, ledger, pack, run, outcome, touched, reader, faults>>

RetirePackFile ==
    /\ pc = "retire"
    /\ packAt' = packAt \ {"file"}
    /\ Goto("idle")
    /\ UNCHANGED <<phase, ledger, pack, run, outcome, touched, reader, faults>>

Kill ==
    /\ pc # "idle"
    /\ Fault
    /\ Goto("idle") /\ run' = NoRun /\ outcome' = NoOutcome /\ touched' = Untouched
    /\ UNCHANGED <<phase, ledger, packs, reader>>

-----------------------------------------------------------------------------
(* Processes without the lock, and changes by hand.                         *)

\* writeEventFile links a complete file under a name of its own.
Publish(e) ==
    /\ e \in inflight
    /\ inflight' = inflight \ {e}
    /\ loose' = loose \cup {e} /\ owed' = owed \cup {e}
    /\ late' = (late \/ snapshot # None)
    /\ UNCHANGED <<phase, corrupt, packs, command, reader, faults>>

\* An edit just before the removal is lost: the code's one unguarded window.
EditYaml ==
    /\ yaml # Gone /\ pc # "remove" /\ edition < MaxEdits
    /\ edition' = edition + 1 /\ yaml' = edition'
    /\ UNCHANGED <<snapshot, ledger, packs, command, reader, faults>>

RestoreYaml ==
    /\ yaml = Gone /\ Fault
    /\ yaml' = edition
    /\ UNCHANGED <<edition, snapshot, ledger, packs, command, reader>>

\* Another branch's record of the same phase is checked out.
SwapSnapshot ==
    /\ snapshot # None /\ Fault
    /\ snapshot' = [snapshot EXCEPT !.swapped = TRUE]
    /\ UNCHANGED <<yaml, edition, ledger, packs, command, reader>>

DeleteEvent(e) ==
    /\ e \in loose /\ Fault
    /\ loose' = loose \ {e} /\ corrupt' = corrupt \ {e} /\ owed' = owed \ {e}
    /\ UNCHANGED <<phase, inflight, late, packs, command, reader>>

CorruptEvent(e) ==
    /\ e \in loose \ corrupt /\ Fault
    /\ corrupt' = corrupt \cup {e}
    /\ UNCHANGED <<phase, loose, inflight, owed, late, packs, command, reader>>

-----------------------------------------------------------------------------
(* readAllProgressEventSources, strict, without the lock: list the event    *)
(* files, read them, list the packs, read them, load the bundles, bind.     *)

Read == UNCHANGED <<phase, ledger, packs, command, faults>>
Answer(S) == reader' = [reader EXCEPT !.at = "answered", !.seen = S]
Fails == reader' = NoReader

ListEvents ==
    /\ reader.at = "idle"
    /\ reader' = [NoReader EXCEPT !.at = "events", !.names = loose, !.owed = owed]
    /\ Read

ReadEvents ==
    /\ reader.at = "events"
    /\ IF reader.names \subseteq loose \ corrupt
       THEN reader' = [reader EXCEPT !.at = "packs", !.seen = reader.names]
       ELSE Fails
    /\ Read

ListPacks ==
    /\ reader.at = "packs"
    /\ reader' = [reader EXCEPT !.at = "pack", !.file = "file" \in packAt]
    /\ Read

\* Faulty variant: the bundle store is not consulted.
PackInFiles == IF reader.file THEN pack ELSE None

\* The pack a reader meets: the one it listed, or else one in a bundle.
PackRead == IF reader.file \/ "bundle" \in packAt THEN pack ELSE None

ReadPack ==
    /\ reader.at = "pack"
    /\ IF reader.file /\ "file" \notin packAt THEN Fails
       ELSE IF PackRead = None THEN Answer(reader.seen)
       ELSE IF snapshot # None /\ Binds(PackRead, snapshot, reader.seen)
       THEN Answer(reader.seen \cup PackRead.ids) ELSE Fails
    /\ Read

ReadAgain ==
    /\ reader.at = "answered"
    /\ reader' = NoReader
    /\ Read

-----------------------------------------------------------------------------
Archive == BeginArchive \/ RecordSnapshot \/ CheckYaml \/ RemoveYaml

CompactStep ==
    \/ Prepare \/ PlanPack \/ Replan \/ WritePack \/ VerifyPack \/ Reread
    \/ \E e \in Events : Gate(e) \/ Unlink(e)
    \/ ListSurvivors \/ Reconcile

ByHand ==
    \/ EditYaml \/ RestoreYaml \/ SwapSnapshot
    \/ \E e \in Events : DeleteEvent(e) \/ CorruptEvent(e)

Reader == ListEvents \/ ReadEvents \/ ListPacks \/ ReadPack \/ ReadAgain

Next ==
    \/ Archive \/ BeginCompact \/ CompactStep
    \/ BundlePack \/ RetirePackFile \/ Kill
    \/ \E e \in Events : Publish(e)
    \/ ByHand \/ Reader

Spec == Init /\ [][Next]_vars

\* A command that runs goes on, and the user keeps repeating state compact.
FairSpec ==
    /\ Spec
    /\ WF_vars(CompactStep) /\ WF_vars(RetirePackFile)
    /\ WF_vars(RecordSnapshot \/ CheckYaml \/ RemoveYaml)
    /\ SF_vars(BeginCompact)

-----------------------------------------------------------------------------
(* Properties                                                               *)

Run == [baseline : Nat \cup {Gone}, ids : SUBSET Events, snap : Snapshot \cup {None},
        target : SUBSET Events, covers : SUBSET Events, unlinked : SUBSET Events,
        vanished : SUBSET Events, skipped : SUBSET Events, abort : BOOLEAN,
        at : Events \cup {None}, names : SUBSET Events, before : Nat,
        wrote : BOOLEAN, again : BOOLEAN]
Outcome == [kind : {"none", "error", "ineligible", "no events", "already clean", "write failed",
                    "failed", "incomplete", "cleaned"},
            partial : BOOLEAN, deleted : Nat, vanished : Nat]
Touched == [pack : BOOLEAN, unlinked : SUBSET Events]
Reading == [at : {"never", "idle", "events", "packs", "pack", "answered"},
            names : SUBSET Events, seen : SUBSET Events, file : BOOLEAN, owed : SUBSET Events]

TypeOK ==
    /\ yaml \in Nat \cup {Gone} /\ edition \in Nat
    /\ snapshot \in Snapshot \cup {None}
    /\ loose \in SUBSET Events /\ corrupt \in SUBSET Events
    /\ inflight \in SUBSET Events /\ owed \in SUBSET Events
    /\ pack \in Pack \cup {None} /\ packAt \in SUBSET {"file", "bundle"}
    /\ run \in Run
    /\ outcome \in Outcome /\ touched \in Touched /\ reader \in Reading

Packed == {e \in Events : pack # None /\ e \in pack.ids}

\* However archiving, packing, unlinking, bundling, late events and kills
\* interleave, an event that nobody deleted by hand is in a file or in the pack.
NoEventIsLost == owed \subseteq loose \cup Packed

\* A phase file is removed only when the record of its last edition is there.
ArchivedIsRecorded == yaml = Gone => snapshot # None /\ snapshot.source = edition

\* The report of a compaction is what happened: it says something was applied
\* exactly when a pack was written or a file unlinked, counts the unlinked files,
\* never fails without saying so after a change, and says cleaned only when no
\* packed event is left in a file and some file went.
ReportIsTrue ==
    outcome.kind # "none" =>
        /\ outcome.partial <=> touched.pack \/ touched.unlinked # {}
        /\ outcome.deleted = Cardinality(touched.unlinked)
        /\ outcome.kind = "error" => touched = Untouched
        /\ outcome.kind = "cleaned" =>
            loose \cap Packed = {} /\ outcome.deleted + outcome.vanished > 0

\* A reader that takes no lock gets an error or an answer with every event that
\* was published when it began and has not been deleted by hand since.
AnswerIsComplete ==
    reader.at = "answered" => reader.owed \cap owed \subseteq reader.seen

Disturbed ==
    \/ yaml # Gone \/ late \/ corrupt # {} \/ snapshot.swapped
    \/ ~ snapshot.evidence \subseteq owed \/ ~ Replays(owed, snapshot.evidence)

\* A compaction that is cut short, at any step, any number of times, can be
\* repeated until the event files are gone, unless the phase is alive again or an
\* event came late, was damaged or deleted by hand.
CompactionConverges == <>[](Disturbed \/ loose = {})
=============================================================================
