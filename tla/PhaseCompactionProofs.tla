------------------------ MODULE PhaseCompactionProofs ------------------------
(***************************************************************************)
(* What becomes of a finished phase, for any events, edits, kills, failing *)
(* calls, changes by hand, late events and readers.  CompactionInv is      *)
(* inductive.  It is the conjunction of what keeps each of the four        *)
(* invariants: the pack is written once, from published events, and only   *)
(* packed events are unlinked; a phase file that is removed is the newest  *)
(* and recorded; a reader's listing and the pack hold all it was owed; and *)
(* a compaction knows what it has changed.                                 *)
(***************************************************************************)
EXTENDS PhaseCompaction, FiniteSetTheorems, TLAPS

-----------------------------------------------------------------------------
(* The inductive invariant.                                                *)

ArchiveSteps == {"record", "check", "remove"}
CleanupSteps == {"gate", "unlink", "list", "reconcile"}
CompactSteps == {"prepare", "plan", "replan", "write", "verify", "reread"} \cup CleanupSteps

\* Nobody but the command under the lock touches the pack; it holds published events.
PackInv ==
    /\ pack = None <=> packAt = {}
    /\ pc = "retire" => "bundle" \in packAt
    /\ pc = "write" => pack = None /\ run.snap \in Snapshot /\ run.ids \cap inflight = {}
    /\ inflight \cap (loose \cup Packed) = {}
    /\ pc \in CleanupSteps => run.covers = Packed
    /\ pc = "unlink" => run.at \in Packed

\* The phase file that is checked is the newest, and stays until its removal.
ArchiveInv ==
    /\ yaml # Gone => yaml = edition
    /\ pc \in ArchiveSteps => yaml # Gone /\ run.baseline # Gone
    /\ pc = "check" => snapshot # None
    /\ pc = "remove" => snapshot # None /\ snapshot.source = yaml

\* What a reader was owed when it began is among what it listed or in the pack,
\* and in a bundle if the reader saw no file of the pack.
ReaderInv ==
    /\ reader.owed \cap inflight = {}
    /\ reader.at = "events" => reader.owed \cap owed \subseteq reader.names \cup Packed
    /\ reader.at \in {"packs", "pack"} => reader.owed \cap owed \subseteq reader.seen \cup Packed
    /\ reader.at = "pack" /\ ~ reader.file =>
           reader.owed \cap owed \subseteq reader.seen \/ "bundle" \in packAt

\* What a compaction knows of its own changes.
ReportInv ==
    /\ touched.pack => pack # None
    /\ pc \in CompactSteps => outcome.kind = "none"
    /\ pc \in {"plan", "replan", "write"} => touched = Untouched /\ ~ run.wrote
    /\ pc \in {"replan", "write", "verify"} => run.before > 0 /\ run.again
    /\ pc = "verify" => touched.pack /\ touched.unlinked = {}
    /\ pc \in {"prepare", "reread"} => touched.unlinked = {}
    /\ pc \in {"prepare", "reread"} \cup CleanupSteps => (run.wrote <=> touched.pack)
    /\ pc \in CompactSteps /\ run.wrote => run.before > 0 /\ run.again
    /\ pc \in CompactSteps => touched.unlinked = run.unlinked
    /\ pc \in CleanupSteps => run.target # {}
    /\ pc \in {"list", "reconcile"} => run.abort \/ run.target \subseteq Handled
    /\ pc = "reconcile" => loose \cap Packed \subseteq run.names

KeepInv == PackInv /\ NoEventIsLost
RecordInv == ArchiveInv /\ ArchivedIsRecorded
ReadInv == ReaderInv /\ AnswerIsComplete
TellInv == ReportInv /\ ReportIsTrue

CompactionInv == TypeOK /\ KeepInv /\ RecordInv /\ ReadInv /\ TellInv

-----------------------------------------------------------------------------
(* Facts about packs, verdicts and finite sets.                            *)

LEMMA CountingEvents ==
  ASSUME NEW S \in SUBSET Events
  PROVE  Cardinality(S) \in Nat /\ (Cardinality(S) = 0 <=> S = {})
BY EventsAreNumbers, FS_Subset, FS_CardinalityType, FS_EmptySet

LEMMA PackedIds ==
  ASSUME TypeOK
  PROVE  PackIds(pack) = Packed
BY MarkersAreApart DEF TypeOK, PackIds, Packed, Pack

LEMMA VerdictFacts ==
  /\ Verdict \in {"ineligible", "throws", "packed", "no events", "write"}
  /\ Verdict = "write" => snapshot # None /\ pack = None /\ loose # {}
  /\ Verdict = "no events" => pack = None
BY DEF Verdict

LEMMA NoRunTyped == NoRun \in Run
BY Zenon DEF NoRun, Run

LEMMA ConstantsTyped == NoOutcome \in Outcome /\ Untouched \in Touched /\ NoReader \in Reading
<1>1. 0 \in Nat /\ "none" \in {"none"} /\ "idle" \in {"idle"}
  OBVIOUS
<1>2. FALSE \in BOOLEAN
  OBVIOUS
<1>3. QED
  BY <1>1, <1>2, Zenon DEF NoOutcome, Untouched, NoReader, Outcome, Touched, Reading

LEMMA UntouchedFields == ~ Untouched.pack /\ Untouched.unlinked = {}
BY DEF Untouched

LEMMA NoReaderFields == NoReader.at = "idle" /\ NoReader.owed = {}
BY DEF NoReader

-----------------------------------------------------------------------------
(* Each step keeps it.                                                     *)

USE DEF Goto, Fault, phase, ledger, packs, command, ArchiveSteps, CleanupSteps, CompactSteps

LEMMA PublishKeepsAll ==
  ASSUME CompactionInv, NEW e \in Events, Publish(e)
  PROVE  CompactionInv'
<1>1. TypeOK'
  BY DEF Publish, CompactionInv, TypeOK
<1>2. KeepInv'
  BY DEF Publish, CompactionInv, KeepInv, PackInv, NoEventIsLost, Packed
<1>3. RecordInv'
  BY DEF Publish, CompactionInv, RecordInv, ArchiveInv, ArchivedIsRecorded
<1>4. ReadInv'
  BY DEF Publish, CompactionInv, ReadInv, ReaderInv, AnswerIsComplete, Packed
<1>5. TellInv'
  BY DEF Publish, CompactionInv, TellInv, ReportInv, ReportIsTrue, Packed, Handled, KeepInv,
         PackInv
<1>6. QED
  BY <1>1, <1>2, <1>3, <1>4, <1>5 DEF CompactionInv

LEMMA EditYamlKeepsAll ==
  ASSUME CompactionInv, EditYaml
  PROVE  CompactionInv'
<1>1. Gone \notin Nat
  BY MarkersAreApart
<1>2. TypeOK'
  BY <1>1 DEF EditYaml, CompactionInv, TypeOK
<1>3. KeepInv'
  BY <1>1 DEF EditYaml, CompactionInv, KeepInv, PackInv, NoEventIsLost, Packed
<1>4. RecordInv'
  BY <1>1 DEF EditYaml, CompactionInv, RecordInv, ArchiveInv, ArchivedIsRecorded, TypeOK
<1>5. ReadInv'
  BY <1>1 DEF EditYaml, CompactionInv, ReadInv, ReaderInv, AnswerIsComplete, Packed
<1>6. TellInv'
  BY <1>1 DEF EditYaml, CompactionInv, TellInv, ReportInv, ReportIsTrue, Packed, Handled
<1>7. QED
  BY <1>2, <1>3, <1>4, <1>5, <1>6 DEF CompactionInv

LEMMA RestoreYamlKeepsAll ==
  ASSUME CompactionInv, RestoreYaml
  PROVE  CompactionInv'
<1>1. TypeOK'
  BY DEF RestoreYaml, CompactionInv, TypeOK
<1>2. KeepInv'
  BY DEF RestoreYaml, CompactionInv, KeepInv, PackInv, NoEventIsLost, Packed
<1>3. RecordInv'
  BY DEF RestoreYaml, CompactionInv, RecordInv, ArchiveInv, ArchivedIsRecorded
<1>4. ReadInv'
  BY DEF RestoreYaml, CompactionInv, ReadInv, ReaderInv, AnswerIsComplete, Packed
<1>5. TellInv'
  BY DEF RestoreYaml, CompactionInv, TellInv, ReportInv, ReportIsTrue, Packed, Handled
<1>6. QED
  BY <1>1, <1>2, <1>3, <1>4, <1>5 DEF CompactionInv

LEMMA SwapSnapshotKeepsAll ==
  ASSUME CompactionInv, SwapSnapshot
  PROVE  CompactionInv'
<1>1. /\ snapshot \in Snapshot /\ snapshot' \in Snapshot
      /\ snapshot'.source = snapshot.source /\ snapshot' # None
  BY MarkersAreApart DEF SwapSnapshot, CompactionInv, TypeOK, Snapshot
<1>2. TypeOK'
  BY <1>1 DEF SwapSnapshot, CompactionInv, TypeOK
<1>3. KeepInv'
  BY <1>1 DEF SwapSnapshot, CompactionInv, KeepInv, PackInv, NoEventIsLost, Packed
<1>4. RecordInv'
  BY <1>1 DEF SwapSnapshot, CompactionInv, RecordInv, ArchiveInv, ArchivedIsRecorded
<1>5. ReadInv'
  BY <1>1 DEF SwapSnapshot, CompactionInv, ReadInv, ReaderInv, AnswerIsComplete, Packed
<1>6. TellInv'
  BY <1>1 DEF SwapSnapshot, CompactionInv, TellInv, ReportInv, ReportIsTrue, Packed, Handled
<1>7. QED
  BY <1>2, <1>3, <1>4, <1>5, <1>6 DEF CompactionInv

LEMMA DeleteEventKeepsAll ==
  ASSUME CompactionInv, NEW e \in Events, DeleteEvent(e)
  PROVE  CompactionInv'
<1>1. TypeOK'
  BY DEF DeleteEvent, CompactionInv, TypeOK
<1>2. KeepInv'
  BY DEF DeleteEvent, CompactionInv, KeepInv, PackInv, NoEventIsLost, Packed
<1>3. RecordInv'
  BY DEF DeleteEvent, CompactionInv, RecordInv, ArchiveInv, ArchivedIsRecorded
<1>4. ReadInv'
  BY DEF DeleteEvent, CompactionInv, ReadInv, ReaderInv, AnswerIsComplete, Packed
<1>5. TellInv'
  BY DEF DeleteEvent, CompactionInv, TellInv, ReportInv, ReportIsTrue, Packed, Handled
<1>6. QED
  BY <1>1, <1>2, <1>3, <1>4, <1>5 DEF CompactionInv

LEMMA CorruptEventKeepsAll ==
  ASSUME CompactionInv, NEW e \in Events, CorruptEvent(e)
  PROVE  CompactionInv'
<1>1. TypeOK'
  BY DEF CorruptEvent, CompactionInv, TypeOK
<1>2. KeepInv'
  BY DEF CorruptEvent, CompactionInv, KeepInv, PackInv, NoEventIsLost, Packed
<1>3. RecordInv'
  BY DEF CorruptEvent, CompactionInv, RecordInv, ArchiveInv, ArchivedIsRecorded
<1>4. ReadInv'
  BY DEF CorruptEvent, CompactionInv, ReadInv, ReaderInv, AnswerIsComplete, Packed
<1>5. TellInv'
  BY DEF CorruptEvent, CompactionInv, TellInv, ReportInv, ReportIsTrue, Packed, Handled
<1>6. QED
  BY <1>1, <1>2, <1>3, <1>4, <1>5 DEF CompactionInv

LEMMA BundlePackKeepsAll ==
  ASSUME CompactionInv, BundlePack
  PROVE  CompactionInv'
<1>1. TypeOK'
  BY DEF BundlePack, CompactionInv, TypeOK
<1>2. KeepInv'
  BY DEF BundlePack, CompactionInv, KeepInv, PackInv, NoEventIsLost, Packed
<1>3. RecordInv'
  BY DEF BundlePack, CompactionInv, RecordInv, ArchiveInv, ArchivedIsRecorded
<1>4. ReadInv'
  BY DEF BundlePack, CompactionInv, ReadInv, ReaderInv, AnswerIsComplete, Packed
<1>5. TellInv'
  BY DEF BundlePack, CompactionInv, TellInv, ReportInv, ReportIsTrue, Packed, Handled
<1>6. QED
  BY <1>1, <1>2, <1>3, <1>4, <1>5 DEF CompactionInv

LEMMA RetirePackFileKeepsAll ==
  ASSUME CompactionInv, RetirePackFile
  PROVE  CompactionInv'
<1>1. TypeOK'
  BY DEF RetirePackFile, CompactionInv, TypeOK
<1>2. KeepInv'
  BY DEF RetirePackFile, CompactionInv, KeepInv, PackInv, NoEventIsLost, Packed
<1>3. RecordInv'
  BY DEF RetirePackFile, CompactionInv, RecordInv, ArchiveInv, ArchivedIsRecorded
<1>4. ReadInv'
  BY DEF RetirePackFile, CompactionInv, ReadInv, ReaderInv, AnswerIsComplete, Packed
<1>5. TellInv'
  BY DEF RetirePackFile, CompactionInv, TellInv, ReportInv, ReportIsTrue, Packed, Handled
<1>6. QED
  BY <1>1, <1>2, <1>3, <1>4, <1>5 DEF CompactionInv

LEMMA KillKeepsAll ==
  ASSUME CompactionInv, Kill
  PROVE  CompactionInv'
<1>1. run' = NoRun /\ NoRun \in Run
  BY NoRunTyped DEF Kill
<1>2. outcome' \in Outcome /\ touched' \in Touched
  BY ConstantsTyped DEF Kill
<1>3. TypeOK'
  BY <1>1, <1>2 DEF Kill, CompactionInv, TypeOK
<1>4. KeepInv'
  BY <1>1, <1>2 DEF Kill, CompactionInv, KeepInv, PackInv, NoEventIsLost, Packed
<1>5. RecordInv'
  BY <1>1, <1>2 DEF Kill, CompactionInv, RecordInv, ArchiveInv, ArchivedIsRecorded
<1>6. ReadInv'
  BY <1>1, <1>2 DEF Kill, CompactionInv, ReadInv, ReaderInv, AnswerIsComplete, Packed
<1>7. TellInv'
  BY <1>1, <1>2 DEF Kill, CompactionInv, TellInv, ReportInv, ReportIsTrue, Packed, Handled,
                    NoOutcome, Untouched
<1>8. QED
  BY <1>3, <1>4, <1>5, <1>6, <1>7 DEF CompactionInv

LEMMA BeginArchiveKeepsAll ==
  ASSUME CompactionInv, BeginArchive
  PROVE  CompactionInv'
<1>1. run' \in Run /\ run'.baseline = yaml
  BY NoRunTyped DEF BeginArchive, CompactionInv, TypeOK, NoRun, Run
<1>2. TypeOK'
  BY <1>1 DEF BeginArchive, CompactionInv, TypeOK
<1>3. KeepInv'
  BY <1>1 DEF BeginArchive, CompactionInv, KeepInv, PackInv, NoEventIsLost, Packed
<1>4. RecordInv'
  BY <1>1 DEF BeginArchive, CompactionInv, RecordInv, ArchiveInv, ArchivedIsRecorded, TypeOK
<1>5. ReadInv'
  BY <1>1 DEF BeginArchive, CompactionInv, ReadInv, ReaderInv, AnswerIsComplete, Packed
<1>6. TellInv'
  BY <1>1 DEF BeginArchive, CompactionInv, TellInv, ReportInv, ReportIsTrue, Packed, Handled
<1>7. QED
  BY <1>2, <1>3, <1>4, <1>5, <1>6 DEF CompactionInv

LEMMA RecordSnapshotKeepsAll ==
  ASSUME CompactionInv, RecordSnapshot
  PROVE  CompactionInv'
<1> DEFINE new == [source |-> yaml, evidence |-> Evidence, swapped |-> FALSE]
<1>1. yaml \in Nat /\ run.baseline # Gone
  BY DEF RecordSnapshot, CompactionInv, TypeOK, RecordInv, ArchiveInv
<1>2. Evidence # None => Evidence \in SUBSET Events
  BY DEF Evidence, Durable, PackIds, CompactionInv, TypeOK, Pack
<1>3. new.source = yaml /\ (Evidence # None => new \in Snapshot)
  BY <1>1, <1>2, Zenon DEF Snapshot
<1>4. /\ pc = "record"
      /\ \/ /\ Evidence # None /\ snapshot' = IF snapshot # None THEN snapshot ELSE new
            /\ pc' = "check" /\ run' = run
         \/ snapshot' = snapshot /\ pc' = "idle" /\ run' = NoRun
      /\ UNCHANGED <<yaml, edition, ledger, packs, outcome, touched, reader, faults>>
  BY DEF RecordSnapshot, EndArchive
<1> HIDE DEF new
<1>5. /\ snapshot' # snapshot =>
             snapshot = None /\ snapshot' \in Snapshot /\ snapshot'.source = yaml
      /\ pc' = "check" => snapshot' # None
  BY <1>3, <1>4, MarkersAreApart
<1>6. NoRun \in Run
  BY NoRunTyped
<1>7. TypeOK'
  BY <1>1, <1>2, <1>3, <1>4, <1>5, <1>6 DEF CompactionInv, TypeOK
<1>8. KeepInv'
  BY <1>1, <1>2, <1>3, <1>4, <1>5, <1>6
     DEF CompactionInv, KeepInv, PackInv, NoEventIsLost, Packed
<1>9. RecordInv'
  BY <1>1, <1>2, <1>3, <1>4, <1>5, <1>6
     DEF CompactionInv, RecordInv, ArchiveInv, ArchivedIsRecorded, TypeOK
<1>10. ReadInv'
  BY <1>1, <1>2, <1>3, <1>4, <1>5, <1>6
     DEF CompactionInv, ReadInv, ReaderInv, AnswerIsComplete, Packed
<1>11. TellInv'
  BY <1>1, <1>2, <1>3, <1>4, <1>5, <1>6
     DEF CompactionInv, TellInv, ReportInv, ReportIsTrue, Packed, Handled
<1>12. QED
  BY <1>7, <1>8, <1>9, <1>10, <1>11 DEF CompactionInv

LEMMA CheckYamlKeepsAll ==
  ASSUME CompactionInv, CheckYaml
  PROVE  CompactionInv'
<1>1. NoRun \in Run
  BY NoRunTyped
<1>2. TypeOK'
  BY <1>1 DEF CheckYaml, IsRecorded, EndArchive, CompactionInv, TypeOK
<1>3. KeepInv'
  BY <1>1 DEF CheckYaml, IsRecorded, EndArchive, CompactionInv, KeepInv, PackInv, NoEventIsLost,
              Packed
<1>4. RecordInv'
  BY <1>1 DEF CheckYaml, IsRecorded, EndArchive, CompactionInv, RecordInv, ArchiveInv,
              ArchivedIsRecorded
<1>5. ReadInv'
  BY <1>1 DEF CheckYaml, IsRecorded, EndArchive, CompactionInv, ReadInv, ReaderInv,
              AnswerIsComplete, Packed
<1>6. TellInv'
  BY <1>1 DEF CheckYaml, IsRecorded, EndArchive, CompactionInv, TellInv, ReportInv,
              ReportIsTrue, Packed, Handled
<1>7. QED
  BY <1>2, <1>3, <1>4, <1>5, <1>6 DEF CompactionInv

LEMMA RemoveYamlKeepsAll ==
  ASSUME CompactionInv, RemoveYaml
  PROVE  CompactionInv'
<1>1. NoRun \in Run
  BY NoRunTyped
<1>2. TypeOK'
  BY <1>1 DEF RemoveYaml, EndArchive, CompactionInv, TypeOK
<1>3. KeepInv'
  BY <1>1 DEF RemoveYaml, EndArchive, CompactionInv, KeepInv, PackInv, NoEventIsLost, Packed
<1>4. RecordInv'
  BY <1>1 DEF RemoveYaml, EndArchive, CompactionInv, RecordInv, ArchiveInv, ArchivedIsRecorded
<1>5. ReadInv'
  BY <1>1 DEF RemoveYaml, EndArchive, CompactionInv, ReadInv, ReaderInv, AnswerIsComplete,
              Packed
<1>6. TellInv'
  BY <1>1 DEF RemoveYaml, EndArchive, CompactionInv, TellInv, ReportInv, ReportIsTrue, Packed,
              Handled
<1>7. QED
  BY <1>2, <1>3, <1>4, <1>5, <1>6 DEF CompactionInv

LEMMA BeginCompactKeepsAll ==
  ASSUME CompactionInv, BeginCompact
  PROVE  CompactionInv'
<1>1. NoRun \in Run /\ ~ NoRun.wrote /\ NoRun.unlinked = {}
  BY NoRunTyped DEF NoRun
<1>2. outcome' \in Outcome /\ touched' \in Touched
  BY ConstantsTyped DEF BeginCompact
<1>3. TypeOK'
  BY <1>1, <1>2 DEF BeginCompact, CompactionInv, TypeOK
<1>4. KeepInv'
  BY <1>1, <1>2 DEF BeginCompact, CompactionInv, KeepInv, PackInv, NoEventIsLost, Packed
<1>5. RecordInv'
  BY <1>1, <1>2 DEF BeginCompact, CompactionInv, RecordInv, ArchiveInv, ArchivedIsRecorded
<1>6. ReadInv'
  BY <1>1, <1>2 DEF BeginCompact, CompactionInv, ReadInv, ReaderInv, AnswerIsComplete, Packed
<1>7. TellInv'
  BY <1>1, <1>2 DEF BeginCompact, CompactionInv, TellInv, ReportInv, ReportIsTrue, Packed,
                    Handled, NoOutcome, Untouched
<1>8. QED
  BY <1>3, <1>4, <1>5, <1>6, <1>7 DEF CompactionInv

LEMMA ListEventsKeepsAll ==
  ASSUME CompactionInv, ListEvents
  PROVE  CompactionInv'
<1>1. reader' = [at |-> "events", names |-> loose, seen |-> {}, file |-> FALSE, owed |-> owed]
  BY DEF ListEvents, NoReader
<1>2. reader' \in Reading
  BY <1>1, Zenon DEF Reading, CompactionInv, TypeOK
<1>3. UNCHANGED <<phase, ledger, packs, command, faults>>
  BY DEF ListEvents, Read
<1>4. TypeOK'
  BY <1>1, <1>2, <1>3 DEF CompactionInv, TypeOK
<1>5. KeepInv'
  BY <1>1, <1>2, <1>3 DEF CompactionInv, KeepInv, PackInv, NoEventIsLost, Packed
<1>6. RecordInv'
  BY <1>1, <1>2, <1>3 DEF CompactionInv, RecordInv, ArchiveInv, ArchivedIsRecorded
<1>7. ReadInv'
  BY <1>1, <1>2, <1>3 DEF CompactionInv, ReadInv, ReaderInv, AnswerIsComplete, Packed, KeepInv,
                          PackInv, NoEventIsLost
<1>8. TellInv'
  BY <1>1, <1>2, <1>3 DEF CompactionInv, TellInv, ReportInv, ReportIsTrue, Packed, Handled
<1>9. QED
  BY <1>4, <1>5, <1>6, <1>7, <1>8 DEF CompactionInv

LEMMA ReadEventsKeepsAll ==
  ASSUME CompactionInv, ReadEvents
  PROVE  CompactionInv'
<1>1. \/ reader' = NoReader
      \/ reader' = [reader EXCEPT !.at = "packs", !.seen = reader.names]
  BY DEF ReadEvents, Fails
<1>2. reader' \in Reading
  BY <1>1, ConstantsTyped DEF Reading, CompactionInv, TypeOK
<1>3. \/ reader'.at = "idle" /\ reader'.owed = {}
      \/ reader'.at = "packs" /\ reader'.seen = reader.names /\ reader'.owed = reader.owed
  BY <1>1, NoReaderFields DEF Reading, CompactionInv, TypeOK
<1>4. reader.at = "events" /\ UNCHANGED <<phase, ledger, packs, command, faults>>
  BY DEF ReadEvents, Read
<1>5. TypeOK'
  BY <1>1, <1>2, <1>3, <1>4 DEF CompactionInv, TypeOK
<1>6. KeepInv'
  BY <1>1, <1>2, <1>3, <1>4 DEF CompactionInv, KeepInv, PackInv, NoEventIsLost, Packed
<1>7. RecordInv'
  BY <1>1, <1>2, <1>3, <1>4 DEF CompactionInv, RecordInv, ArchiveInv, ArchivedIsRecorded
<1>8. ReadInv'
  BY <1>1, <1>2, <1>3, <1>4 DEF CompactionInv, ReadInv, ReaderInv, AnswerIsComplete, Packed
<1>9. TellInv'
  BY <1>1, <1>2, <1>3, <1>4 DEF CompactionInv, TellInv, ReportInv, ReportIsTrue, Packed, Handled
<1>10. QED
  BY <1>5, <1>6, <1>7, <1>8, <1>9 DEF CompactionInv

LEMMA ListPacksKeepsAll ==
  ASSUME CompactionInv, ListPacks
  PROVE  CompactionInv'
<1> DEFINE f == "file" \in packAt
<1>1. /\ f \in BOOLEAN /\ (f <=> "file" \in packAt)
      /\ reader' = [reader EXCEPT !.at = "pack", !.file = f]
  BY DEF ListPacks
<1> HIDE DEF f
<1>2. reader' \in Reading
  BY <1>1 DEF Reading, CompactionInv, TypeOK
<1>3. /\ reader'.at = "pack" /\ reader'.file = f
      /\ reader'.seen = reader.seen /\ reader'.owed = reader.owed
  BY <1>1 DEF Reading, CompactionInv, TypeOK
<1>4. reader.at = "packs" /\ UNCHANGED <<phase, ledger, packs, command, faults>>
  BY DEF ListPacks, Read
<1>5. TypeOK'
  BY <1>1, <1>2, <1>3, <1>4 DEF CompactionInv, TypeOK
<1>6. KeepInv'
  BY <1>1, <1>2, <1>3, <1>4 DEF CompactionInv, KeepInv, PackInv, NoEventIsLost, Packed
<1>7. RecordInv'
  BY <1>1, <1>2, <1>3, <1>4 DEF CompactionInv, RecordInv, ArchiveInv, ArchivedIsRecorded
<1>8. ReadInv'
  BY <1>1, <1>2, <1>3, <1>4
     DEF CompactionInv, ReadInv, ReaderInv, AnswerIsComplete, Packed, TypeOK, KeepInv, PackInv
<1>9. TellInv'
  BY <1>1, <1>2, <1>3, <1>4 DEF CompactionInv, TellInv, ReportInv, ReportIsTrue, Packed, Handled
<1>10. QED
  BY <1>5, <1>6, <1>7, <1>8, <1>9 DEF CompactionInv

LEMMA ReadPackKeepsAll ==
  ASSUME CompactionInv, ReadPack
  PROVE  CompactionInv'
<1>1. reader.at = "pack" /\ UNCHANGED <<phase, ledger, packs, command, faults>>
  BY DEF ReadPack, Read
<1>2. PackRead # None => PackRead = pack /\ PackRead.ids = Packed
  BY PackedIds DEF PackRead, PackIds, CompactionInv
<1>3. reader.owed \cap owed \subseteq reader.seen \cup Packed
  BY <1>1 DEF CompactionInv, ReadInv, ReaderInv
<1>4. PackRead = None /\ ~ (reader.file /\ "file" \notin packAt) =>
        reader.owed \cap owed \subseteq reader.seen
  BY <1>1, <1>3 DEF PackRead, CompactionInv, ReadInv, ReaderInv, Packed
<1>5. \/ reader' = NoReader
      \/ \E s \in SUBSET Events :
          /\ reader' = [reader EXCEPT !.at = "answered", !.seen = s]
          /\ reader.owed \cap owed \subseteq s
  BY <1>2, <1>3, <1>4 DEF ReadPack, Fails, Answer, CompactionInv, TypeOK, Reading, Packed
<1>6. reader' \in Reading
  BY <1>5, ConstantsTyped DEF Reading, CompactionInv, TypeOK
<1>7. reader \in Reading
  BY DEF CompactionInv, TypeOK
<1>8. ASSUME NEW s \in SUBSET Events, reader' = [reader EXCEPT !.at = "answered", !.seen = s]
      PROVE  reader'.at = "answered" /\ reader'.owed = reader.owed /\ reader'.seen = s
  BY <1>7, <1>8 DEF Reading
<1>9. \/ reader'.at = "idle" /\ reader'.owed = {}
      \/ /\ reader'.at = "answered" /\ reader'.owed = reader.owed
         /\ reader.owed \cap owed \subseteq reader'.seen
  BY <1>5, <1>8, NoReaderFields
<1>10. TypeOK'
  BY <1>1, <1>2, <1>3, <1>4, <1>5, <1>6, <1>7, <1>8, <1>9 DEF CompactionInv, TypeOK
<1>11. KeepInv'
  BY <1>1, <1>2, <1>3, <1>4, <1>5, <1>6, <1>7, <1>8, <1>9
     DEF CompactionInv, KeepInv, PackInv, NoEventIsLost, Packed
<1>12. RecordInv'
  BY <1>1, <1>2, <1>3, <1>4, <1>5, <1>6, <1>7, <1>8, <1>9
     DEF CompactionInv, RecordInv, ArchiveInv, ArchivedIsRecorded
<1>13. ReadInv'
  BY <1>1, <1>2, <1>3, <1>4, <1>5, <1>6, <1>7, <1>8, <1>9
     DEF CompactionInv, ReadInv, ReaderInv, AnswerIsComplete, Packed
<1>14. TellInv'
  BY <1>1, <1>2, <1>3, <1>4, <1>5, <1>6, <1>7, <1>8, <1>9
     DEF CompactionInv, TellInv, ReportInv, ReportIsTrue, Packed, Handled
<1>15. QED
  BY <1>10, <1>11, <1>12, <1>13, <1>14 DEF CompactionInv

LEMMA ReadAgainKeepsAll ==
  ASSUME CompactionInv, ReadAgain
  PROVE  CompactionInv'
<1>1. reader' = NoReader /\ NoReader \in Reading
  BY ConstantsTyped DEF ReadAgain
<1>2. UNCHANGED <<phase, ledger, packs, command, faults>>
  BY DEF ReadAgain, Read
<1>3. TypeOK'
  BY <1>1, <1>2 DEF CompactionInv, TypeOK
<1>4. KeepInv'
  BY <1>1, <1>2 DEF CompactionInv, KeepInv, PackInv, NoEventIsLost, Packed
<1>5. RecordInv'
  BY <1>1, <1>2 DEF CompactionInv, RecordInv, ArchiveInv, ArchivedIsRecorded
<1>6. ReadInv'
  BY <1>1, <1>2 DEF CompactionInv, ReadInv, ReaderInv, AnswerIsComplete, Packed, NoReader
<1>7. TellInv'
  BY <1>1, <1>2 DEF CompactionInv, TellInv, ReportInv, ReportIsTrue, Packed, Handled
<1>8. QED
  BY <1>3, <1>4, <1>5, <1>6, <1>7 DEF CompactionInv

-----------------------------------------------------------------------------
(* How a compaction ends.                                                  *)

Same == UNCHANGED <<phase, ledger, packs, touched, reader>>

LEMMA EndKeepsAll ==
  ASSUME CompactionInv, Same, pc' = "idle", run' = NoRun, outcome' \in Outcome, ReportIsTrue'
  PROVE  CompactionInv'
<1>1. TypeOK'
  BY NoRunTyped DEF Same, CompactionInv, TypeOK
<1>2. KeepInv'
  BY DEF Same, CompactionInv, KeepInv, PackInv, NoEventIsLost, Packed
<1>3. RecordInv'
  BY DEF Same, CompactionInv, RecordInv, ArchiveInv, ArchivedIsRecorded
<1>4. ReadInv'
  BY DEF Same, CompactionInv, ReadInv, ReaderInv, AnswerIsComplete, Packed
<1>5. TellInv'
  BY DEF Same, CompactionInv, TellInv, ReportInv
<1>6. QED
  BY <1>1, <1>2, <1>3, <1>4, <1>5 DEF CompactionInv

\* Nothing was changed, and that is said.
LEMMA NothingIsReported ==
  ASSUME CompactionInv, Same, ~ touched.pack, touched.unlinked = {},
         NEW kind \in {"error", "ineligible", "no events", "already clean", "write failed"},
         Report(kind, FALSE, 0, 0)
  PROVE  CompactionInv'
<1>1. outcome' = [kind |-> kind, partial |-> FALSE, deleted |-> 0, vanished |-> 0]
  BY DEF Report
<1>2. outcome' \in Outcome
  <2>1. 0 \in Nat
    OBVIOUS
  <2>2. kind \in {"none", "error", "ineligible", "no events", "already clean", "write failed",
                  "failed", "incomplete", "cleaned"}
    OBVIOUS
  <2>3. QED
    BY <1>1, <2>1, <2>2, Zenon DEF Outcome
<1>3. outcome'.kind = kind /\ ~ outcome'.partial /\ outcome'.deleted = 0
  BY <1>1
<1>4. touched' = touched /\ touched = Untouched
  BY DEF Same, CompactionInv, TypeOK, Touched, Untouched
<1>5. Cardinality(touched'.unlinked) = 0
  BY <1>4, FS_EmptySet
<1>6. ReportIsTrue'
  BY <1>3, <1>4, <1>5 DEF ReportIsTrue
<1>7. QED
  BY <1>2, <1>6, EndKeepsAll DEF Report

\* A pack was written, and that is said of whatever stopped the run.
LEMMA WriteIsReported ==
  ASSUME CompactionInv, Same, touched.pack, touched.unlinked = {},
         Report("write failed", TRUE, 0, 0)
  PROVE  CompactionInv'
<1>1. outcome' = [kind |-> "write failed", partial |-> TRUE, deleted |-> 0, vanished |-> 0]
  BY DEF Report
<1>2. outcome' \in Outcome
  <2>1. 0 \in Nat
    OBVIOUS
  <2>2. QED
    BY <1>1, <2>1, Zenon DEF Outcome
<1>3. outcome'.kind = "write failed" /\ outcome'.partial /\ outcome'.deleted = 0
  BY <1>1
<1>4. touched' = touched
  BY DEF Same
<1>5. Cardinality(touched'.unlinked) = 0
  BY <1>4, FS_EmptySet
<1>6. ReportIsTrue'
  BY <1>3, <1>4, <1>5 DEF ReportIsTrue
<1>7. QED
  BY <1>2, <1>6, EndKeepsAll DEF Report

LEMMA BlockIsReported ==
  ASSUME CompactionInv, Same, pc \in {"prepare", "reread"}, NEW kind \in {"error", "ineligible"},
         ReportBlocked(kind)
  PROVE  CompactionInv'
<1>1. touched.unlinked = {} /\ (run.wrote <=> touched.pack)
  BY DEF CompactionInv, TellInv, ReportInv
<1>2. CASE run.wrote
  BY <1>1, <1>2, WriteIsReported DEF ReportBlocked
<1>3. CASE ~ run.wrote
  BY <1>1, <1>3, NothingIsReported DEF ReportBlocked
<1>4. QED
  BY <1>2, <1>3

\* The command goes on to a step before the cleanup.
LEMMA OnwardKeepsAll ==
  ASSUME CompactionInv, Same, UNCHANGED outcome, run' \in Run,
         pc' \in {"prepare", "plan", "replan", "write", "verify", "reread"}, pc \in CompactSteps,
         pc' = "write" => pack = None /\ run'.snap \in Snapshot /\ run'.ids \cap inflight = {},
         ReportInv'
  PROVE  CompactionInv'
<1>1. TypeOK'
  BY DEF Same, CompactionInv, TypeOK
<1>2. KeepInv'
  BY DEF Same, CompactionInv, KeepInv, PackInv, NoEventIsLost, Packed
<1>3. RecordInv'
  BY DEF Same, CompactionInv, RecordInv, ArchiveInv, ArchivedIsRecorded
<1>4. ReadInv'
  BY DEF Same, CompactionInv, ReadInv, ReaderInv, AnswerIsComplete, Packed
<1>5. TellInv'
  BY DEF Same, CompactionInv, TellInv, ReportIsTrue, Packed
<1>6. QED
  BY <1>1, <1>2, <1>3, <1>4, <1>5 DEF CompactionInv

LEMMA PrepareKeepsAll ==
  ASSUME CompactionInv, Prepare
  PROVE  CompactionInv'
<1>1. /\ Same /\ pc = "prepare" /\ touched.unlinked = {} /\ (run.wrote <=> touched.pack)
      /\ run \in Run /\ (run.wrote => run.before > 0 /\ run.again) /\ (touched.pack => pack # None)
      /\ touched.unlinked = run.unlinked
  BY DEF Prepare, Same, CompactionInv, TypeOK, TellInv, ReportInv
<1>2. CASE Verdict \in {"throws", "ineligible"} \/ (Verdict = "write" /\ run.again)
  BY <1>1, <1>2, BlockIsReported DEF Prepare
<1>3. CASE Verdict = "no events"
  <2>1. ~ touched.pack
    BY <1>1, <1>3, VerdictFacts
  <2>2. QED
    BY <1>1, <1>3, <2>1, NothingIsReported DEF Prepare
<1>4. CASE Verdict = "packed" \/ (Verdict = "write" /\ ~ run.again)
  <2>1. /\ pc' = "reread" \/ (pc' = "plan" /\ ~ run.wrote)
        /\ UNCHANGED <<run, outcome, touched>>
    <3>1. CASE Verdict = "packed"
      BY <3>1 DEF Prepare
    <3>2. CASE Verdict = "write" /\ ~ run.again
      BY <1>1, <3>2 DEF Prepare
    <3>3. QED
      BY <1>4, <3>1, <3>2
  <2>2. touched \in Touched /\ outcome.kind = "none"
    BY <1>1 DEF CompactionInv, TypeOK, TellInv, ReportInv
  <2>3. ~ run.wrote => touched = Untouched
    BY <1>1, <2>2 DEF Touched, Untouched
  <2>4. ReportInv'
    BY <1>1, <2>1, <2>2, <2>3 DEF ReportInv, Same
  <2>5. QED
    BY <1>1, <2>1, <2>4, OnwardKeepsAll
<1>5. QED
  BY <1>2, <1>3, <1>4, VerdictFacts

LEMMA PlanPackKeepsAll ==
  ASSUME CompactionInv, PlanPack
  PROVE  CompactionInv'
<1> DEFINE y == TRUE
<1>1. y \in BOOLEAN /\ y
  OBVIOUS
<1>2. /\ pc = "plan" /\ Same
      /\ \/ /\ run' = [run EXCEPT !.before = Cardinality(loose), !.again = y]
            /\ pc' = "replan" /\ UNCHANGED outcome /\ loose # {}
         \/ Report("error", FALSE, 0, 0)
         \/ run' = [run EXCEPT !.again = y] /\ pc' = "prepare" /\ UNCHANGED outcome
  BY VerdictFacts DEF PlanPack, Same
<1> HIDE DEF y
<1>3. /\ touched = Untouched /\ ~ run.wrote /\ run \in Run /\ outcome.kind = "none"
      /\ touched.unlinked = run.unlinked
      /\ loose \in SUBSET Events
  BY <1>2 DEF CompactionInv, TypeOK, TellInv, ReportInv
<1>4. CASE Report("error", FALSE, 0, 0)
  BY <1>2, <1>3, <1>4, UntouchedFields, NothingIsReported
<1>5. CASE run' = [run EXCEPT !.again = y] /\ pc' = "prepare" /\ UNCHANGED outcome
  <2>1. run' \in Run /\ ~ run'.wrote /\ run'.unlinked = run.unlinked
    BY <1>1, <1>3, <1>5 DEF Run
  <2>2. ReportInv'
    BY <1>2, <1>3, <1>5, <2>1, UntouchedFields DEF ReportInv, Same
  <2>3. QED
    BY <1>2, <1>5, <2>1, <2>2, OnwardKeepsAll
<1>6. CASE /\ run' = [run EXCEPT !.before = Cardinality(loose), !.again = y]
           /\ pc' = "replan" /\ UNCHANGED outcome /\ loose # {}
  <2>1. Cardinality(loose) \in Nat /\ Cardinality(loose) > 0
    BY <1>3, <1>6, CountingEvents
  <2>2. /\ run' \in Run /\ ~ run'.wrote /\ run'.before > 0 /\ run'.again
        /\ run'.unlinked = run.unlinked
    BY <1>1, <1>3, <1>6, <2>1 DEF Run
  <2>3. ReportInv'
    BY <1>2, <1>3, <1>6, <2>2, UntouchedFields DEF ReportInv, Same
  <2>4. QED
    BY <1>2, <1>6, <2>2, <2>3, OnwardKeepsAll
<1>7. QED
  BY <1>2, <1>4, <1>5, <1>6

LEMMA ReplanKeepsAll ==
  ASSUME CompactionInv, Replan
  PROVE  CompactionInv'
<1>1. /\ pc = "replan" /\ Same
      /\ \/ /\ run' = [run EXCEPT !.ids = loose, !.snap = snapshot]
            /\ pc' = "write" /\ UNCHANGED outcome /\ snapshot # None /\ pack = None
         \/ Report("error", FALSE, 0, 0)
         \/ pc' = "prepare" /\ UNCHANGED <<run, outcome>>
  BY VerdictFacts DEF Replan, Same
<1>2. /\ touched = Untouched /\ ~ run.wrote /\ run \in Run /\ outcome.kind = "none"
      /\ touched.unlinked = run.unlinked
      /\ run.before > 0 /\ run.again /\ loose \in SUBSET Events /\ loose \cap inflight = {}
      /\ snapshot \in Snapshot \cup {None}
  BY <1>1 DEF CompactionInv, TypeOK, KeepInv, PackInv, TellInv, ReportInv
<1>3. CASE Report("error", FALSE, 0, 0)
  BY <1>1, <1>2, <1>3, UntouchedFields, NothingIsReported
<1>4. CASE pc' = "prepare" /\ UNCHANGED <<run, outcome>>
  <2>1. ReportInv'
    BY <1>1, <1>2, <1>4, UntouchedFields DEF ReportInv, Same
  <2>2. QED
    BY <1>1, <1>2, <1>4, <2>1, OnwardKeepsAll
<1>5. CASE /\ run' = [run EXCEPT !.ids = loose, !.snap = snapshot]
           /\ pc' = "write" /\ UNCHANGED outcome /\ snapshot # None /\ pack = None
  <2>1. /\ run' \in Run /\ ~ run'.wrote /\ run'.before > 0 /\ run'.again
        /\ run'.ids = loose /\ run'.snap = snapshot /\ run'.unlinked = run.unlinked
    BY <1>2, <1>5 DEF Run
  <2>2. ReportInv'
    BY <1>1, <1>2, <1>5, <2>1, UntouchedFields DEF ReportInv, Same
  <2>3. QED
    BY <1>1, <1>2, <1>5, <2>1, <2>2, OnwardKeepsAll
<1>6. QED
  BY <1>1, <1>3, <1>4, <1>5

LEMMA WritePackKeepsAll ==
  ASSUME CompactionInv, WritePack
  PROVE  CompactionInv'
<1> DEFINE y == TRUE
           new == [snap |-> run.snap, ids |-> run.ids]
<1>1. y \in BOOLEAN /\ y
  OBVIOUS
<1>2. /\ pc = "write" /\ UNCHANGED <<phase, ledger, reader>>
      /\ \/ /\ pack' = new /\ packAt' = {"file"} /\ touched' = [touched EXCEPT !.pack = y]
            /\ pc' = "verify" /\ UNCHANGED <<run, outcome>>
         \/ Report("write failed", FALSE, 0, 0) /\ UNCHANGED <<packs, touched>>
  BY DEF WritePack
<1> HIDE DEF y
<1>3. /\ touched = Untouched /\ touched \in Touched /\ ~ run.wrote /\ run \in Run
      /\ touched.unlinked = run.unlinked
      /\ run.before > 0 /\ run.again /\ outcome.kind = "none"
      /\ pack = None /\ packAt = {} /\ run.snap \in Snapshot /\ run.ids \cap inflight = {}
  BY <1>2 DEF CompactionInv, TypeOK, KeepInv, PackInv, TellInv, ReportInv
<1>4. CASE Report("write failed", FALSE, 0, 0) /\ UNCHANGED <<packs, touched>>
  <2>1. Same
    BY <1>2, <1>4 DEF Same
  <2>2. QED
    BY <1>3, <1>4, <2>1, UntouchedFields, NothingIsReported
<1>5. CASE /\ pack' = new /\ packAt' = {"file"} /\ touched' = [touched EXCEPT !.pack = y]
           /\ pc' = "verify" /\ UNCHANGED <<run, outcome>>
  <2>1. new \in Pack /\ new.ids = run.ids /\ run.ids \in SUBSET Events
    BY <1>3 DEF Run, Pack
  <2>2. new # None
    BY <2>1, MarkersAreApart
  <2>3. touched' \in Touched /\ touched'.pack = y /\ touched'.unlinked = touched.unlinked
    BY <1>1, <1>3, <1>5 DEF Touched
  <2> HIDE DEF new
  <2>4. Packed = {} /\ Packed' = run.ids
    BY <1>3, <1>5, <2>1, <2>2 DEF Packed
  <2>5. TypeOK'
    BY <1>2, <1>3, <1>5, <2>1, <2>3 DEF CompactionInv, TypeOK
  <2>6. KeepInv'
    BY <1>2, <1>3, <1>5, <2>2, <2>4 DEF CompactionInv, KeepInv, PackInv, NoEventIsLost
  <2>7. RecordInv'
    BY <1>2, <1>5 DEF CompactionInv, RecordInv, ArchiveInv, ArchivedIsRecorded
  <2>8. ReadInv'
    BY <1>2, <1>3, <1>5, <2>4 DEF CompactionInv, ReadInv, ReaderInv, AnswerIsComplete
  <2>9. TellInv'
    BY <1>1, <1>2, <1>3, <1>5, <2>2, <2>3, UntouchedFields DEF TellInv, ReportInv, ReportIsTrue
  <2>10. QED
    BY <2>5, <2>6, <2>7, <2>8, <2>9 DEF CompactionInv
<1>6. QED
  BY <1>2, <1>4, <1>5

LEMMA VerifyPackKeepsAll ==
  ASSUME CompactionInv, VerifyPack
  PROVE  CompactionInv'
<1> DEFINE y == TRUE
<1>1. y \in BOOLEAN /\ y
  OBVIOUS
<1>2. /\ pc = "verify" /\ Same
      /\ \/ run' = [run EXCEPT !.wrote = y] /\ pc' = "prepare" /\ UNCHANGED outcome
         \/ Report("write failed", TRUE, 0, 0)
  BY DEF VerifyPack, Same
<1> HIDE DEF y
<1>3. /\ touched.pack /\ touched.unlinked = {} /\ pack # None /\ run \in Run
      /\ touched.unlinked = run.unlinked
      /\ run.before > 0 /\ run.again /\ outcome.kind = "none"
  BY <1>2 DEF CompactionInv, TypeOK, TellInv, ReportInv
<1>4. CASE Report("write failed", TRUE, 0, 0)
  BY <1>2, <1>3, <1>4, WriteIsReported
<1>5. CASE run' = [run EXCEPT !.wrote = y] /\ pc' = "prepare" /\ UNCHANGED outcome
  <2>1. /\ run' \in Run /\ run'.wrote = y /\ run'.before > 0 /\ run'.again
        /\ run'.unlinked = run.unlinked
    BY <1>1, <1>3, <1>5 DEF Run
  <2>2. ReportInv'
    BY <1>1, <1>2, <1>3, <1>5, <2>1 DEF ReportInv, Same
  <2>3. QED
    BY <1>2, <1>5, <2>1, <2>2, OnwardKeepsAll
<1>6. QED
  BY <1>2, <1>4, <1>5

LEMMA RereadKeepsAll ==
  ASSUME CompactionInv, Reread
  PROVE  CompactionInv'
<1> DEFINE onward == [run EXCEPT !.target = loose, !.covers = PackIds(pack), !.snap = snapshot]
<1>1. /\ pc = "reread" /\ Same
      /\ \/ ReportBlocked("error")
         \/ ReportBlocked("ineligible")
         \/ loose = {} /\ run.wrote /\ Report("cleaned", TRUE, 0, run.before)
         \/ ~ run.wrote /\ Report("already clean", FALSE, 0, 0)
         \/ run' = onward /\ pc' = "gate" /\ UNCHANGED outcome /\ loose # {}
  BY DEF Reread, Same
<1>2. /\ touched.unlinked = {} /\ (run.wrote <=> touched.pack) /\ run \in Run
      /\ outcome.kind = "none" /\ touched.unlinked = run.unlinked /\ (run.wrote => run.before > 0 /\ run.again)
      /\ loose \in SUBSET Events /\ PackIds(pack) = Packed /\ snapshot \in Snapshot \cup {None}
  BY <1>1, PackedIds DEF CompactionInv, TypeOK, TellInv, ReportInv
<1>3. CASE ReportBlocked("error") \/ ReportBlocked("ineligible")
  BY <1>1, <1>3, BlockIsReported
<1>4. CASE loose = {} /\ run.wrote /\ Report("cleaned", TRUE, 0, run.before)
  <2>1. outcome' = [kind |-> "cleaned", partial |-> TRUE, deleted |-> 0, vanished |-> run.before]
    BY <1>4 DEF Report
  <2>2. 0 \in Nat /\ run.before \in Nat /\ run.before > 0
    BY <1>2, <1>4 DEF Run
  <2>3. outcome' \in Outcome
    BY <2>1, <2>2, Zenon DEF Outcome
  <2>4. /\ outcome'.kind = "cleaned" /\ outcome'.partial /\ outcome'.deleted = 0
        /\ outcome'.vanished = run.before
    BY <2>1
  <2>5. touched' = touched /\ loose' = loose /\ Cardinality(touched'.unlinked) = 0
    BY <1>1, <1>2, FS_EmptySet DEF Same
  <2>6. ReportIsTrue'
    BY <1>2, <1>4, <2>2, <2>4, <2>5 DEF ReportIsTrue
  <2>7. QED
    BY <1>1, <1>4, <2>3, <2>6, EndKeepsAll DEF Report
<1>5. CASE ~ run.wrote /\ Report("already clean", FALSE, 0, 0)
  BY <1>1, <1>2, <1>5, NothingIsReported
<1>6. CASE run' = onward /\ pc' = "gate" /\ UNCHANGED outcome /\ loose # {}
  <2>1. Packed \in SUBSET Events
    BY DEF Packed
  <2>2. /\ run' \in Run /\ run'.target = loose /\ run'.covers = Packed
        /\ run'.unlinked = run.unlinked /\ run'.wrote = run.wrote /\ run'.before = run.before
        /\ run'.again = run.again
    BY <1>2, <1>6, <2>1 DEF Run
  <2> HIDE DEF onward
  <2>3. TypeOK'
    BY <1>1, <1>6, <2>2 DEF Same, CompactionInv, TypeOK
  <2>4. KeepInv'
    BY <1>1, <1>6, <2>2 DEF Same, CompactionInv, KeepInv, PackInv, NoEventIsLost, Packed
  <2>5. RecordInv'
    BY <1>1, <1>6 DEF Same, CompactionInv, RecordInv, ArchiveInv, ArchivedIsRecorded
  <2>6. ReadInv'
    BY <1>1, <1>6 DEF Same, CompactionInv, ReadInv, ReaderInv, AnswerIsComplete, Packed
  <2>7. TellInv'
    BY <1>1, <1>2, <1>6, <2>2
       DEF Same, CompactionInv, TellInv, ReportInv, ReportIsTrue, Packed
  <2>8. QED
    BY <2>3, <2>4, <2>5, <2>6, <2>7 DEF CompactionInv
<1>7. QED
  BY <1>1, <1>3, <1>4, <1>5, <1>6

LEMMA GateKeepsAll ==
  ASSUME CompactionInv, NEW e \in Events, Gate(e)
  PROVE  CompactionInv'
<1> DEFINE y == TRUE
<1>1. y \in BOOLEAN /\ y
  OBVIOUS
<1>2. /\ pc = "gate" /\ UNCHANGED <<phase, ledger, packs, outcome, touched, reader>>
      /\ \/ run' = [run EXCEPT !.vanished = @ \cup {e}] /\ pc' = "gate"
         \/ run' = [run EXCEPT !.skipped = @ \cup {e}] /\ pc' = "gate"
         \/ run' = [run EXCEPT !.at = e] /\ pc' = "unlink" /\ e \in run.covers
         \/ run' = [run EXCEPT !.abort = y] /\ pc' = "list"
  BY DEF Gate, Deletable
<1> HIDE DEF y
<1>3. run \in Run /\ run.covers = Packed
  BY <1>2 DEF CompactionInv, TypeOK, KeepInv, PackInv
<1>4. /\ run' \in Run /\ run'.target = run.target /\ run'.covers = run.covers
      /\ run'.unlinked = run.unlinked /\ run'.wrote = run.wrote /\ run'.before = run.before
      /\ run'.again = run.again
      /\ pc' \in {"gate", "unlink", "list"}
      /\ pc' = "unlink" => run'.at \in Packed
      /\ pc' = "list" => run'.abort
  <2>1. CASE run' = [run EXCEPT !.vanished = @ \cup {e}] /\ pc' = "gate"
    BY <1>3, <2>1 DEF Run
  <2>2. CASE run' = [run EXCEPT !.skipped = @ \cup {e}] /\ pc' = "gate"
    BY <1>3, <2>2 DEF Run
  <2>3. CASE run' = [run EXCEPT !.at = e] /\ pc' = "unlink" /\ e \in run.covers
    BY <1>3, <2>3 DEF Run
  <2>4. CASE run' = [run EXCEPT !.abort = y] /\ pc' = "list"
    BY <1>1, <1>3, <2>4 DEF Run
  <2>5. QED
    BY <1>2, <2>1, <2>2, <2>3, <2>4
<1>5. TypeOK'
  BY <1>2, <1>4 DEF CompactionInv, TypeOK
<1>6. KeepInv'
  BY <1>2, <1>3, <1>4 DEF CompactionInv, KeepInv, PackInv, NoEventIsLost, Packed
<1>7. RecordInv'
  BY <1>2, <1>4 DEF CompactionInv, RecordInv, ArchiveInv, ArchivedIsRecorded
<1>8. ReadInv'
  BY <1>2 DEF CompactionInv, ReadInv, ReaderInv, AnswerIsComplete, Packed
<1>9. TellInv'
  BY <1>2, <1>4 DEF CompactionInv, TellInv, ReportInv, ReportIsTrue, Packed
<1>10. QED
  BY <1>5, <1>6, <1>7, <1>8, <1>9 DEF CompactionInv

LEMMA UnlinkKeepsAll ==
  ASSUME CompactionInv, NEW e \in Events, Unlink(e)
  PROVE  CompactionInv'
<1>1. /\ pc = "unlink" /\ pc' = "gate"
      /\ UNCHANGED <<phase, inflight, owed, late, packs, outcome, reader>>
      /\ run \in Run /\ touched \in Touched /\ e \in Packed
      /\ touched.unlinked = run.unlinked /\ loose \in SUBSET Events /\ corrupt \in SUBSET Events
  BY DEF Unlink, CompactionInv, TypeOK, KeepInv, PackInv, TellInv, ReportInv
<1>2. /\ loose' \in SUBSET loose /\ corrupt' \in SUBSET corrupt /\ loose \subseteq loose' \cup {e}
      /\ \E u, v, s \in SUBSET Events :
          /\ run' = [run EXCEPT !.at = None, !.unlinked = u, !.vanished = v, !.skipped = s]
          /\ touched' = [touched EXCEPT !.unlinked = u]
  <2>1. CASE e \in loose /\ UNCHANGED <<loose, corrupt, touched>>
             /\ run' = [run EXCEPT !.at = None, !.skipped = @ \cup {e}]
    <3>1. run' = [run EXCEPT !.at = None, !.unlinked = run.unlinked, !.vanished = run.vanished,
                             !.skipped = run.skipped \cup {e}]
      BY <1>1, <2>1 DEF Run
    <3>2. touched' = [touched EXCEPT !.unlinked = run.unlinked]
      BY <1>1, <2>1 DEF Touched
    <3>3. run.unlinked \in SUBSET Events /\ run.vanished \in SUBSET Events
          /\ run.skipped \cup {e} \in SUBSET Events
      BY <1>1 DEF Run
    <3>4. QED
      BY <2>1, <3>1, <3>2, <3>3
  <2>2. CASE /\ loose' = loose \ {e} /\ corrupt' = corrupt \ {e}
             /\ run' = [run EXCEPT !.at = None, !.unlinked = UnlinkedWith(e),
                                   !.vanished = IF e \in loose THEN @ ELSE @ \cup {e}]
             /\ touched' = [touched EXCEPT !.unlinked = IF e \in loose THEN @ \cup {e} ELSE @]
    <3> DEFINE v == IF e \in loose THEN run.vanished ELSE run.vanished \cup {e}
    <3>1. run' = [run EXCEPT !.at = None, !.unlinked = UnlinkedWith(e), !.vanished = v,
                             !.skipped = run.skipped]
      BY <1>1, <2>2 DEF Run
    <3>2. touched' = [touched EXCEPT !.unlinked = UnlinkedWith(e)]
      BY <1>1, <2>2 DEF Touched, UnlinkedWith
    <3>3. UnlinkedWith(e) \in SUBSET Events /\ v \in SUBSET Events /\ run.skipped \in SUBSET Events
      BY <1>1 DEF Run, UnlinkedWith
    <3> HIDE DEF v
    <3>4. QED
      BY <2>2, <3>1, <3>2, <3>3
  <2>3. QED
    BY <2>1, <2>2 DEF Unlink
<1>3. PICK u, v, s \in SUBSET Events :
          /\ run' = [run EXCEPT !.at = None, !.unlinked = u, !.vanished = v, !.skipped = s]
          /\ touched' = [touched EXCEPT !.unlinked = u]
  BY <1>2
<1>4. /\ run' \in Run /\ run'.target = run.target /\ run'.covers = run.covers
      /\ run'.unlinked = u /\ run'.wrote = run.wrote /\ run'.before = run.before
      /\ run'.again = run.again
      /\ touched' \in Touched /\ touched'.unlinked = u /\ touched'.pack = touched.pack
  BY <1>1, <1>3 DEF Run, Touched
<1>5. TypeOK'
  BY <1>1, <1>2, <1>4 DEF CompactionInv, TypeOK
<1>6. KeepInv'
  BY <1>1, <1>2, <1>4 DEF CompactionInv, KeepInv, PackInv, NoEventIsLost, Packed
<1>7. RecordInv'
  BY <1>1 DEF CompactionInv, RecordInv, ArchiveInv, ArchivedIsRecorded
<1>8. ReadInv'
  BY <1>1 DEF CompactionInv, ReadInv, ReaderInv, AnswerIsComplete, Packed
<1>9. TellInv'
  BY <1>1, <1>4 DEF CompactionInv, TellInv, ReportInv, ReportIsTrue
<1>10. QED
  BY <1>5, <1>6, <1>7, <1>8, <1>9 DEF CompactionInv

LEMMA ListSurvivorsKeepsAll ==
  ASSUME CompactionInv, ListSurvivors
  PROVE  CompactionInv'
<1>1. /\ pc \in {"gate", "list"} /\ pc' = "reconcile"
      /\ UNCHANGED <<phase, ledger, packs, outcome, touched, reader>>
      /\ run \in Run /\ run.covers = Packed /\ loose \in SUBSET Events
      /\ run' = [run EXCEPT !.names = loose]
      /\ run.abort \/ run.target \subseteq Handled
  BY DEF ListSurvivors, CompactionInv, TypeOK, KeepInv, PackInv, TellInv, ReportInv
<1>2. /\ run' \in Run /\ run'.target = run.target /\ run'.covers = run.covers
      /\ run'.unlinked = run.unlinked /\ run'.wrote = run.wrote /\ run'.before = run.before
      /\ run'.again = run.again /\ run'.names = loose /\ run'.abort = run.abort
      /\ run'.vanished = run.vanished /\ run'.skipped = run.skipped
  BY <1>1 DEF Run
<1>3. TypeOK'
  BY <1>1, <1>2 DEF CompactionInv, TypeOK
<1>4. KeepInv'
  BY <1>1, <1>2 DEF CompactionInv, KeepInv, PackInv, NoEventIsLost, Packed
<1>5. RecordInv'
  BY <1>1 DEF CompactionInv, RecordInv, ArchiveInv, ArchivedIsRecorded
<1>6. ReadInv'
  BY <1>1 DEF CompactionInv, ReadInv, ReaderInv, AnswerIsComplete, Packed
<1>7. TellInv'
  BY <1>1, <1>2 DEF CompactionInv, TellInv, ReportInv, ReportIsTrue, Packed, Handled
<1>8. QED
  BY <1>3, <1>4, <1>5, <1>6, <1>7 DEF CompactionInv

\* A run whose files are all handled and of which none is left has counted one:
\* whatever was skipped is either still there or counted as vanished.
LEMMA SomeFileWent ==
  ASSUME CompactionInv, pc = "reconcile", ~ run.abort, Survivors = {}
  PROVE  run.unlinked # {} \/ run.vanished # {} \/ VanishedSince # {}
<1>1. run.target # {} /\ run.target \subseteq Handled /\ run \in Run
  BY DEF CompactionInv, TypeOK, TellInv, ReportInv
<1>2. PICK e \in run.target : TRUE
  BY <1>1
<1>3. CASE e \in run.skipped
  BY <1>2, <1>3 DEF VanishedSince, Survivors
<1>4. QED
  BY <1>1, <1>2, <1>3 DEF Handled

LEMMA ReconcileKeepsAll ==
  ASSUME CompactionInv, Reconcile
  PROVE  CompactionInv'
<1> DEFINE deleted == Cardinality(run.unlinked)
           waited == IF run.before > Cardinality(run.target)
                     THEN run.before - Cardinality(run.target) ELSE 0
           vanished == waited + Cardinality(run.vanished) + Cardinality(VanishedSince)
           kind == CASE run.abort \/ Uncovered # {} -> "failed"
                     [] ~ run.abort /\ Uncovered = {} /\ Survivors # {} -> "incomplete"
                     [] OTHER -> IF deleted + vanished = 0 THEN "error" ELSE "cleaned"
           partial == run.wrote \/ deleted > 0
<1>1. pc = "reconcile" /\ Same /\ Report(kind, partial, deleted, vanished)
  BY DEF Reconcile, Same
<1>2. /\ run \in Run /\ touched.unlinked = run.unlinked /\ (run.wrote <=> touched.pack)
      /\ touched.unlinked \in SUBSET Events /\ loose \cap Packed \subseteq run.names
      /\ loose \in SUBSET Events
  BY <1>1 DEF CompactionInv, TypeOK, TellInv, ReportInv, Touched
<1>3. /\ run.unlinked \in SUBSET Events /\ run.vanished \in SUBSET Events
      /\ run.target \in SUBSET Events /\ run.names \in SUBSET Events
      /\ run.skipped \in SUBSET Events /\ run.before \in Nat
  BY <1>2 DEF Run
<1>4. VanishedSince \in SUBSET Events
  BY <1>3 DEF VanishedSince
<1>5. /\ deleted \in Nat /\ (deleted = 0 <=> run.unlinked = {})
      /\ Cardinality(run.vanished) \in Nat /\ (Cardinality(run.vanished) = 0 <=> run.vanished = {})
      /\ Cardinality(VanishedSince) \in Nat
      /\ (Cardinality(VanishedSince) = 0 <=> VanishedSince = {})
      /\ Cardinality(run.target) \in Nat
  BY <1>3, <1>4, CountingEvents
<1>6. waited \in Nat
  BY <1>3, <1>5
<1> HIDE DEF waited
<1>7. vanished \in Nat /\ (vanished = 0 => run.vanished = {} /\ VanishedSince = {})
  BY <1>5, <1>6
<1>8. ~ run.abort /\ Survivors = {} => deleted + vanished > 0
  <2>1. SUFFICES ASSUME ~ run.abort, Survivors = {} PROVE deleted > 0 \/ vanished > 0
    BY <1>5, <1>7
  <2>2. run.unlinked # {} \/ run.vanished # {} \/ VanishedSince # {}
    BY <1>1, <2>1, SomeFileWent
  <2>3. QED
    BY <1>5, <1>7, <2>2
<1> HIDE DEF vanished
<1>9. /\ kind \in {"failed", "incomplete", "cleaned"}
      /\ kind = "cleaned" => Survivors = {} /\ deleted + vanished > 0
  <2>1. deleted + vanished > 0 => deleted + vanished # 0
    BY <1>5, <1>7
  <2>2. QED
    BY <1>8, <2>1 DEF Uncovered
<1>10. partial \in BOOLEAN /\ (partial <=> touched.pack \/ touched.unlinked # {})
  BY <1>2, <1>5 DEF Run
<1> HIDE DEF kind, partial, deleted
<1>11. outcome' = [kind |-> kind, partial |-> partial, deleted |-> deleted, vanished |-> vanished]
  BY <1>1 DEF Report
<1>12. outcome' \in Outcome
  <2>1. kind \in {"none", "error", "ineligible", "no events", "already clean", "write failed",
                  "failed", "incomplete", "cleaned"}
    BY <1>9
  <2>2. QED
    BY <1>5, <1>7, <1>10, <1>11, <2>1, Zenon DEF Outcome
<1>13. /\ outcome'.kind = kind /\ outcome'.partial = partial
       /\ outcome'.deleted = deleted /\ outcome'.vanished = vanished
  BY <1>11
<1>14. touched' = touched /\ loose' = loose /\ Packed' = Packed
  BY <1>1 DEF Same, Packed
<1>15. deleted = Cardinality(touched.unlinked)
  BY <1>2 DEF deleted
<1>16. Survivors = {} => loose \cap Packed = {}
  BY <1>2 DEF Survivors
<1>17. ReportIsTrue'
  BY <1>9, <1>10, <1>13, <1>14, <1>15, <1>16 DEF ReportIsTrue
<1>18. QED
  BY <1>1, <1>12, <1>17, EndKeepsAll DEF Report

-----------------------------------------------------------------------------
(* The specification.                                                      *)

LEMMA InitIsKept == Init => CompactionInv
<1> SUFFICES ASSUME Init PROVE CompactionInv
  OBVIOUS
<1>1. PICK r \in BOOLEAN, n \in Nat :
         faults = n /\ reader = IF r THEN NoReader ELSE [NoReader EXCEPT !.at = "never"]
  BY BoundsAreNat DEF Init
<1>2. reader \in Reading /\ reader.at \in {"idle", "never"} /\ reader.owed = {}
  BY <1>1, ConstantsTyped, NoReaderFields DEF Reading
<1>3. TypeOK
  BY <1>2, NoRunTyped, ConstantsTyped DEF Init, TypeOK
<1>4. KeepInv
  BY DEF Init, KeepInv, PackInv, NoEventIsLost, Packed
<1>5. RecordInv
  BY MarkersAreApart DEF Init, RecordInv, ArchiveInv, ArchivedIsRecorded
<1>6. ReadInv
  BY <1>2 DEF ReadInv, ReaderInv, AnswerIsComplete
<1>7. TellInv
  BY UntouchedFields DEF Init, TellInv, ReportInv, ReportIsTrue, NoOutcome
<1>8. QED
  BY <1>3, <1>4, <1>5, <1>6, <1>7 DEF CompactionInv

LEMMA StutterKeepsAll ==
  ASSUME CompactionInv, UNCHANGED vars
  PROVE  CompactionInv'
<1>1. TypeOK'
  BY DEF vars, CompactionInv, TypeOK
<1>2. KeepInv'
  BY DEF vars, CompactionInv, KeepInv, PackInv, NoEventIsLost, Packed
<1>3. RecordInv'
  BY DEF vars, CompactionInv, RecordInv, ArchiveInv, ArchivedIsRecorded
<1>4. ReadInv'
  BY DEF vars, CompactionInv, ReadInv, ReaderInv, AnswerIsComplete, Packed
<1>5. TellInv'
  BY DEF vars, CompactionInv, TellInv, ReportInv, ReportIsTrue, Packed, Handled
<1>6. QED
  BY <1>1, <1>2, <1>3, <1>4, <1>5 DEF CompactionInv

LEMMA NextKeepsAll == CompactionInv /\ [Next]_vars => CompactionInv'
<1> SUFFICES ASSUME CompactionInv, [Next]_vars PROVE CompactionInv'
  OBVIOUS
<1>1. CASE Archive
  BY <1>1, BeginArchiveKeepsAll, RecordSnapshotKeepsAll, CheckYamlKeepsAll, RemoveYamlKeepsAll
     DEF Archive
<1>2. CASE CompactStep
  BY <1>2, PrepareKeepsAll, PlanPackKeepsAll, ReplanKeepsAll, WritePackKeepsAll,
     VerifyPackKeepsAll, RereadKeepsAll, GateKeepsAll, UnlinkKeepsAll, ListSurvivorsKeepsAll,
     ReconcileKeepsAll DEF CompactStep
<1>3. CASE BeginCompact \/ BundlePack \/ RetirePackFile \/ Kill
  BY <1>3, BeginCompactKeepsAll, BundlePackKeepsAll, RetirePackFileKeepsAll, KillKeepsAll
<1>4. CASE \E e \in Events : Publish(e)
  BY <1>4, PublishKeepsAll
<1>5. CASE ByHand
  BY <1>5, EditYamlKeepsAll, RestoreYamlKeepsAll, SwapSnapshotKeepsAll, DeleteEventKeepsAll,
     CorruptEventKeepsAll DEF ByHand
<1>6. CASE Reader
  BY <1>6, ListEventsKeepsAll, ReadEventsKeepsAll, ListPacksKeepsAll, ReadPackKeepsAll,
     ReadAgainKeepsAll DEF Reader
<1>7. CASE UNCHANGED vars
  BY <1>7, StutterKeepsAll
<1>8. QED
  BY <1>1, <1>2, <1>3, <1>4, <1>5, <1>6, <1>7 DEF Next

LEMMA CompactionInvHolds == Spec => []CompactionInv
BY InitIsKept, NextKeepsAll, PTL DEF Spec

-----------------------------------------------------------------------------
(* The theorems.                                                           *)

\* Every variable of the phase's files, ledger, command, report and reader has its
\* type.
THEOREM TypeCorrect == Spec => []TypeOK
<1>1. CompactionInv => TypeOK
  BY DEF CompactionInv
<1>2. QED
  BY <1>1, CompactionInvHolds, PTL

\* Archiving, packing, unlinking, bundling, late events and kills, in any order,
\* leave every event that nobody deleted by hand in a file or in the pack.
THEOREM NoEventIsLostHolds == Spec => []NoEventIsLost
<1>1. CompactionInv => NoEventIsLost
  BY DEF CompactionInv, KeepInv
<1>2. QED
  BY <1>1, CompactionInvHolds, PTL

\* `phase archive` never removes a phase file whose last edition is not recorded.
THEOREM ArchivedIsRecordedHolds == Spec => []ArchivedIsRecorded
<1>1. CompactionInv => ArchivedIsRecorded
  BY DEF CompactionInv, RecordInv
<1>2. QED
  BY <1>1, CompactionInvHolds, PTL

\* What `state compact` reports, complete or cut short by a failing call or a
\* safety check, is what it changed.
THEOREM ReportIsTrueHolds == Spec => []ReportIsTrue
<1>1. CompactionInv => ReportIsTrue
  BY DEF CompactionInv, TellInv
<1>2. QED
  BY <1>1, CompactionInvHolds, PTL

\* A reader without the lock, however its five reads interleave with a compaction,
\* answers with every event it was owed, or fails.
THEOREM AnswerIsCompleteHolds == Spec => []AnswerIsComplete
<1>1. CompactionInv => AnswerIsComplete
  BY DEF CompactionInv, ReadInv
<1>2. QED
  BY <1>1, CompactionInvHolds, PTL

=============================================================================
