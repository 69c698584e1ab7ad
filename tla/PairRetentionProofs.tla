------------------------ MODULE PairRetentionProofs ------------------------
(***************************************************************************)
(* The archive's destructive commands without power losses, for any        *)
(* phases, any archive to start from and any number of kills and restarts. *)
(* Between the runs every pair is whole except those the one pending       *)
(* journal names, and that journal can be completed from what is on disk   *)
(* (Sound). Inside a run Sound alone is not inductive: the step that       *)
(* clears a journal needs that its pairs are gone on both sides, the one   *)
(* that commits it that the survivors were written and that nothing else   *)
(* holds its pairs. AtPc says so, step by step.                            *)
(***************************************************************************)
EXTENDS PairRetention, TLAPS

-----------------------------------------------------------------------------
(* The inductive invariant.                                                *)

\* No power loss: what a process sees is what is on disk.
Unpowered == "power" \notin scenario.faults

\* The command's own variables.
Works == [pair : {"none", "loose", "bundle", "single"}, ids : SUBSET Phases,
          old : [Kinds -> SUBSET Groups], survivor : [Kinds -> SUBSET Phases]]
Plans == [loose : SUBSET Phases, bundle : SUBSET Phases,
          single : SUBSET Phases, file : SUBSET Phases]
Runs == [cmd : Commands \cup {None}, stage : {"recovery", "loose", "bundle", "again"},
         kind : Kinds, cur : Phases \cup {None}, left : SUBSET Phases, work : Works,
         retired : BOOLEAN, plan : Plans, recovered : SUBSET Phases, skipped : BOOLEAN]

JournalShape == \A e \in disk : e[1] = "journal" => e = Journal(e[3])

\* The plan is the delete authority: nothing but old phases.
Authorised(plan) ==
    /\ plan.loose \subseteq Old /\ plan.bundle \subseteq Old
    /\ plan.single \subseteq Old \ Paired /\ plan.file \subseteq Old \ Paired

TypeOK == run \in Runs /\ Authorised(run.plan) /\ Pending \subseteq Works /\ JournalShape

\* A phase has a pack exactly when it is one with a pack and has a snapshot.
Has(k, p) == p \in LooseOf(k) \cup Members(k)
Whole(p) == Has("pack", p) <=> p \in Paired /\ Has("snapshot", p)

\* A journal of loose pairs: no bundle brings its pairs back once the files are
\* gone.
LooseReady(i) ==
    /\ i.pair = "loose" /\ i.ids # {} /\ i.ids \subseteq Old \cap Paired
    /\ \A k \in Kinds : i.ids \cap Members(k) = {}

\* A journal of bundle pairs: it names every bundle that still holds one of its
\* pairs, and what else is in them is in the survivor.
BundleOpen(i) ==
    /\ i.pair = "bundle" /\ i.ids # {} /\ i.ids \subseteq Old \cap Paired
    /\ \A p \in i.ids : SameLooseness(p)
    /\ \A k \in Kinds :
         /\ i.old[k] # {} /\ i.ids \cap i.survivor[k] = {}
         /\ \A T \in i.old[k] : T \subseteq i.ids \cup i.survivor[k] /\ T \cap i.ids # {}
         /\ \A T \in BundlesOf(k) : T \cap i.ids # {} => T \in i.old[k]

There(i) == \A k \in Kinds : i.survivor[k] \in {{}} \cup BundlesOf(k)

Completable(i) == LooseReady(i) \/ (BundleOpen(i) /\ There(i))

\* The removal of snapshots without a pack, which has no journal.
SingleOpen(i) ==
    /\ i.pair = "single" /\ i.ids \subseteq Old \ Paired
    /\ i.survivor["pack"] = {} /\ i.survivor["snapshot"] \notin i.old["snapshot"]
    /\ i.ids \cap i.survivor["snapshot"] = {}
    /\ \A T \in i.old["snapshot"] : T \subseteq i.ids \cup i.survivor["snapshot"]

\* What holds between the runs: the one journal is completable, every pair it
\* does not name is whole.
Sound ==
    /\ \A i \in Pending : Pending = {i} /\ Completable(i)
    /\ \A p \in Phases : (\A i \in Pending : p \notin i.ids) => Whole(p)
    /\ \A p \in Phases \ Old : Has("snapshot", p)
    /\ ReportedStaysGone

NoLoose == \A k \in Kinds : LooseOf(k) = {}
OneBundle(k) == BundlesOf(k) \subseteq {Members(k)}
Folded(k) == LooseOf(k) = {} /\ OneBundle(k)
Maintains == run.cmd = "maintain" /\ ~run.skipped
Sweeps == Maintains /\ run.recovered = {}

\* Of the old phases only these are in bundles.
Stays(k, ids) == Old \cap Members(k) \subseteq ids

\* How far maintain is on its way to MaintainConverges, stage by stage.
Trimmed ==
    /\ Maintains => NoLoose
    /\ Sweeps => /\ \A k \in Kinds : OneBundle(k)
                 /\ Stays("pack", run.plan.bundle)
                 /\ Stays("snapshot", run.plan.bundle \cup run.plan.single)
Narrowed ==
    run.stage = "bundle" =>
      /\ Maintains => NoLoose
      /\ Sweeps =>
         /\ \A k \in Kinds : BundlesOf(k) \subseteq run.work.old[k] \cup {run.work.survivor[k]}
         /\ Stays("pack", run.work.ids)
         /\ Stays("snapshot", run.work.ids \cup run.plan.single)
Swept ==
    /\ Maintains => NoLoose
    /\ Sweeps => /\ \A k \in Kinds : OneBundle(k)
                 /\ Stays("pack", {})
                 /\ Stays("snapshot", run.plan.single)
SingleNarrowed ==
    /\ Maintains => NoLoose
    /\ Sweeps =>
         /\ BundlesOf("snapshot") \subseteq run.work.old["snapshot"] \cup {run.work.survivor["snapshot"]}
         /\ OneBundle("pack")
         /\ Stays("pack", {})
         /\ Stays("snapshot", run.work.ids)
Clean ==
    /\ Maintains => NoLoose
    /\ Sweeps => \A k \in Kinds : OneBundle(k) /\ Stays(k, {})

PlanStands == \A k \in Kinds : run.plan.bundle \subseteq Members(k)
LooseStage == run.stage = "loose" /\ ~Maintains /\ PlanStands
\* Work whose journal is on disk.
LooseWork ==
    /\ Pending = {run.work} /\ run.work.pair = "loose"
    /\ run.stage = "recovery" \/ LooseStage
BundleWork ==
    /\ Pending = {run.work} /\ run.work.pair = "bundle"
    /\ run.stage \in {"recovery", "bundle"} /\ Narrowed
NoneLoose(ids) == \A k \in Kinds : ids \cap LooseOf(k) = {}
NoneBundled(ids) == \A k \in Kinds : ids \cap Members(k) = {}

\* Work that is prepared and not committed yet.
BundleDraft ==
    /\ BundleOpen(run.work) /\ run.stage = "bundle" /\ run.left = run.work.ids /\ Narrowed
SingleDraft == SingleOpen(run.work) /\ SingleNarrowed

-----------------------------------------------------------------------------
(* The invariant at every step of a run: what has been done of the work at  *)
(* hand, and what the plan may still rely on.                              *)

AtRecover == run = Fresh(run.cmd)
AtUnlinkPack ==
    /\ LooseWork /\ run.left # {} /\ run.left \subseteq run.work.ids
    /\ NoneLoose(run.work.ids \ run.left)
AtUnlinkSnapshot ==
    /\ LooseWork /\ run.cur \in run.left /\ run.left \subseteq run.work.ids
    /\ NoneLoose(run.work.ids \ run.left) /\ run.cur \notin LooseOf("pack")
AtFlushLoose == LooseWork /\ NoneLoose(run.work.ids)
AtNextPair ==
    /\ BundleWork /\ run.left \subseteq run.work.ids
    /\ NoneBundled(run.work.ids \ run.left)
AtRetire ==
    /\ BundleWork /\ run.left \subseteq run.work.ids /\ run.cur \in run.work.ids
    /\ NoneBundled((run.work.ids \ run.left) \ {run.cur})
    /\ run.kind = "pack" => run.cur \notin Members("snapshot")
AtFlushRetired == BundleWork /\ NoneBundled(run.work.ids)
AtClear == AtFlushLoose \/ AtFlushRetired
AtFlushClear ==
    /\ Pending = {}
    /\ \/ run.stage = "recovery"
       \/ LooseStage
       \/ run.stage = "bundle" /\ Swept

\* The first kind is folded before the second begins.
Compacting ==
    /\ run.stage \in {"recovery", "again"}
    /\ Maintains => run.stage = "recovery"
    /\ Maintains => (run.kind = "pack" => Folded("snapshot"))
AtFold == Compacting /\ (Pending = {} \/ run.cmd = "compact")
Covered(k) == Members(k) \in BundlesOf(k) /\ LooseOf(k) \subseteq Members(k)
AtSupersede ==
    /\ Compacting /\ Pending = {}
    /\ \A k \in Kinds : k = run.kind => Covered(k)
AtUncover ==
    /\ Compacting /\ Pending = {}
    /\ \A k \in Kinds : k = run.kind => Covered(k) /\ OneBundle(k)

AtPlan ==
    /\ Pending = {} /\ run.stage = "recovery"
    /\ Maintains => \A k \in Kinds : Folded(k)
AtLoosePairs ==
    /\ Pending = {} /\ PlanStands
    /\ \A k \in Kinds : run.plan.loose \subseteq LooseOf(k) \ Members(k)
    /\ Maintains => run.plan.loose = {}
    /\ Trimmed
AtBundlePairs == Pending = {} /\ PlanStands /\ Trimmed
AtSurvivor ==
    /\ Pending = {} /\ \A k \in Kinds : run.work.survivor[k] \subseteq Members(k)
    /\ BundleDraft \/ SingleDraft
AtVerify == Pending = {} /\ BundleDraft
AtCommit ==
    /\ Pending = {} /\ run.left = run.work.ids
    /\ \/ LooseReady(run.work) /\ LooseStage
       \/ BundleDraft /\ There(run.work)
AtFlushCommit ==
    /\ run.left = run.work.ids
    /\ \/ LooseWork /\ LooseStage
       \/ BundleWork /\ run.stage = "bundle"
AtSingle == Pending = {} /\ Swept
AtRetireSingle == Pending = {} /\ SingleDraft
AtFile == Pending = {} /\ Clean

AtPc ==
    /\ pc = "recover" => AtRecover
    /\ pc = "unlink pack" => AtUnlinkPack
    /\ pc = "unlink snapshot" => AtUnlinkSnapshot
    /\ pc \in {"flush packs", "flush snapshots"} => AtFlushLoose
    /\ pc = "next pair" => AtNextPair
    /\ pc = "retire" => AtRetire
    /\ pc = "flush retired" => AtFlushRetired
    /\ pc = "clear" => AtClear
    /\ pc = "flush clear" => AtFlushClear
    /\ pc = "fold" => AtFold
    /\ pc = "supersede" => AtSupersede
    /\ pc = "uncover" => AtUncover
    /\ pc = "plan" => AtPlan
    /\ pc = "loose pairs" => AtLoosePairs
    /\ pc = "bundle pairs" => AtBundlePairs
    /\ pc \in {"survivor", "flush survivor"} => AtSurvivor
    /\ pc = "verify" => AtVerify
    /\ pc \in {"preflight", "commit"} => AtCommit
    /\ pc = "flush commit" => AtFlushCommit
    /\ pc = "single" => AtSingle
    /\ pc = "retire single" => AtRetireSingle
    /\ pc \in {"flush single", "file", "done"} => AtFile

Core == TypeOK /\ Sound /\ AtPc
IInv == Unpowered => Core

-----------------------------------------------------------------------------
(* What one change of the disk does to the files, bundles and journals.     *)

SameLoose == \A k \in Kinds : LooseOf(k)' = LooseOf(k)
SameBundles == \A k \in Kinds : BundlesOf(k)' = BundlesOf(k) /\ Members(k)' = Members(k)
SameJournals == Pending' = Pending /\ JournalShape'
LessLoose(kind, p) ==
    \A k \in Kinds : LooseOf(k)' = IF k = kind THEN LooseOf(k) \ {p} ELSE LooseOf(k)
LessBundle(kind, S) ==
    \A k \in Kinds :
      /\ BundlesOf(k)' = IF k = kind THEN BundlesOf(k) \ {S} ELSE BundlesOf(k)
      /\ k # kind => Members(k)' = Members(k)
MoreBundle(kind, S) ==
    \A k \in Kinds :
      /\ BundlesOf(k)' = IF k = kind THEN BundlesOf(k) \cup {S} ELSE BundlesOf(k)
      /\ Members(k)' = IF k = kind THEN Members(k) \cup S ELSE Members(k)

LEMMA LooseArePhases ==
  ASSUME NEW k PROVE LooseOf(k) \subseteq Phases /\ Members(k) \subseteq Phases
                     /\ BundlesOf(k) \subseteq Groups
  BY DEF LooseOf, Members, BundlesOf, Groups
LEMMA MembersOfBundles ==
  ASSUME NEW k PROVE \A p : p \in Members(k) <=> \E S \in BundlesOf(k) : p \in S
  BY DEF Members
LEMMA MembersOfBundlesAfter ==
  ASSUME NEW k PROVE \A p : p \in Members(k)' <=> \E S \in BundlesOf(k)' : p \in S
  BY DEF Members
LEMMA LooseAreAfter ==
  ASSUME NEW k PROVE LooseOf(k)' \subseteq Phases /\ Members(k)' \subseteq Phases
                     /\ BundlesOf(k)' \subseteq Groups
  BY DEF LooseOf, Members, BundlesOf, Groups

LEMMA DiskStays ==
  ASSUME disk' = disk, JournalShape
  PROVE  SameLoose /\ SameBundles /\ SameJournals
  BY DEF SameLoose, SameBundles, SameJournals, LooseOf, BundlesOf, Members, Pending, JournalShape

LEMMA LooseRemoved ==
  ASSUME NEW kind \in Kinds, NEW p, disk' = disk \ {Loose(kind, p)}, JournalShape
  PROVE  LessLoose(kind, p) /\ SameBundles /\ SameJournals
<1>1. LessLoose(kind, p)
  BY DEF LessLoose, LooseOf, Loose, Kinds
<1>2. \A k \in Kinds : BundlesOf(k)' = BundlesOf(k)
  BY DEF BundlesOf, Loose, Bundle
<1>3. SameBundles
  BY <1>2 DEF SameBundles, Members
<1>4. SameJournals
  BY DEF SameJournals, Pending, JournalShape, Loose
<1> QED  BY <1>1, <1>3, <1>4

LEMMA BundleRemoved ==
  ASSUME NEW kind \in Kinds, NEW S \in Groups, disk' = disk \ {Bundle(kind, S)}, JournalShape
  PROVE  SameLoose /\ LessBundle(kind, S) /\ SameJournals
<1>1. SameLoose
  BY DEF SameLoose, LooseOf, Loose, Bundle
<1>2. \A k \in Kinds : BundlesOf(k)' = IF k = kind THEN BundlesOf(k) \ {S} ELSE BundlesOf(k)
  BY DEF BundlesOf, Bundle, Kinds
<1>3. \A k \in Kinds : k # kind => Members(k)' = Members(k)
  BY <1>2 DEF Members
<1>4. SameJournals
  BY DEF SameJournals, Pending, JournalShape, Bundle
<1> QED  BY <1>1, <1>2, <1>3, <1>4 DEF LessBundle

LEMMA BundlePut ==
  ASSUME NEW kind \in Kinds, NEW S \in Groups, disk' = disk \cup {Bundle(kind, S)}, JournalShape
  PROVE  SameLoose /\ MoreBundle(kind, S) /\ SameJournals
<1>1. SameLoose
  BY DEF SameLoose, LooseOf, Loose, Bundle
<1>2. \A k \in Kinds : BundlesOf(k)' = IF k = kind THEN BundlesOf(k) \cup {S} ELSE BundlesOf(k)
  BY DEF BundlesOf, Bundle, Kinds
<1>3. ASSUME NEW k \in Kinds
      PROVE  Members(k)' = IF k = kind THEN Members(k) \cup S ELSE Members(k)
  <2>1. \A p : p \in Members(k)' <=> \E T \in BundlesOf(k)' : p \in T
    BY MembersOfBundlesAfter
  <2>2. \A p : p \in Members(k) <=> \E T \in BundlesOf(k) : p \in T
    BY MembersOfBundles
  <2>3. CASE k = kind
    <3>1. BundlesOf(k)' = BundlesOf(k) \cup {S}
      BY <1>2, <2>3
    <3>2. \A p : p \in Members(k)' <=> p \in Members(k) \cup S
      BY <2>1, <2>2, <3>1
    <3> QED  BY <3>2, <2>3
  <2>4. CASE k # kind
    <3>1. BundlesOf(k)' = BundlesOf(k)
      BY <1>2, <2>4
    <3> QED  BY <3>1, <2>4 DEF Members
  <2> QED  BY <2>3, <2>4
<1>4. Pending' = Pending
  BY DEF Pending, Bundle
<1>5. JournalShape'
  BY DEF JournalShape, Bundle
<1> QED  BY <1>1, <1>2, <1>3, <1>4, <1>5 DEF MoreBundle, SameJournals

LEMMA JournalPut ==
  ASSUME NEW i, disk' = disk \cup {Journal(i)}, JournalShape
  PROVE  SameLoose /\ SameBundles /\ Pending' = Pending \cup {i} /\ JournalShape'
<1>1. SameLoose
  BY DEF SameLoose, LooseOf, Loose, Journal
<1>2. \A k \in Kinds : BundlesOf(k)' = BundlesOf(k)
  BY DEF BundlesOf, Bundle, Journal
<1>3. SameBundles
  BY <1>2 DEF SameBundles, Members
<1>4. JournalShape'
  BY DEF JournalShape, Journal
<1>5. Journal(i)[1] = "journal" /\ Journal(i)[3] = i
  BY DEF Journal
<1>6. Pending' = Pending \cup {i}
  BY <1>5 DEF Pending
<1> QED  BY <1>1, <1>3, <1>4, <1>6

LEMMA JournalRemoved ==
  ASSUME NEW i, disk' = disk \ {Journal(i)}, JournalShape
  PROVE  SameLoose /\ SameBundles /\ Pending' = Pending \ {i} /\ JournalShape'
<1>1. SameLoose
  BY DEF SameLoose, LooseOf, Loose, Journal
<1>2. \A k \in Kinds : BundlesOf(k)' = BundlesOf(k)
  BY DEF BundlesOf, Bundle, Journal
<1>3. SameBundles
  BY <1>2 DEF SameBundles, Members
<1>4. Pending' = Pending \ {i} /\ JournalShape'
  BY DEF Pending, Journal, JournalShape
<1> QED  BY <1>1, <1>3, <1>4

-----------------------------------------------------------------------------
LEMMA FreshIsRun ==
  ASSUME NEW c \in Commands \cup {None}
  PROVE  /\ Fresh(c) \in Runs /\ Authorised(Fresh(c).plan)
         /\ Fresh(c).cmd = c /\ Fresh(c).stage = "recovery" /\ Fresh(c).kind = "snapshot"
<1>1. NoWork \in Works
  BY DEF NoWork, Works, Groups
<1>2. NoPlan \in Plans /\ Authorised(NoPlan)
  BY DEF NoPlan, Plans, Authorised
<1>3. FALSE \in BOOLEAN
  OBVIOUS
<1>4. Fresh(c) \in Runs
  BY <1>1, <1>2, <1>3 DEF Fresh, Runs, Kinds
<1> QED  BY <1>2, <1>4 DEF Fresh

\* A step that leaves the disk alone.
LEMMA SoundStill ==
  ASSUME Sound, SameLoose, SameBundles, SameJournals, finished' = finished
  PROVE  Sound'
<1>1. \A i \in Pending' : Pending' = {i} /\ Completable(i)'
  <2> SUFFICES ASSUME NEW i \in Pending PROVE Pending = {i} /\ Completable(i)'
    BY DEF SameJournals
  <2>1. Pending = {i} /\ Completable(i)
    BY DEF Sound
  <2>2. LooseReady(i) => LooseReady(i)'
    BY DEF LooseReady, SameBundles
  <2>3. BundleOpen(i) => BundleOpen(i)'
    BY DEF BundleOpen, SameBundles, SameLoose, SameLooseness, Kinds
  <2>4. There(i) => There(i)'
    BY DEF There, SameBundles
  <2> QED  BY <2>1, <2>2, <2>3, <2>4 DEF Completable
<1>2. \A k \in Kinds : \A p : Has(k, p)' = Has(k, p)
  BY DEF Has, SameBundles, SameLoose
<1>3. \A p : Whole(p)' = Whole(p)
  BY <1>2 DEF Whole, Kinds
<1>4. (\A p \in Phases : (\A i \in Pending : p \notin i.ids) => Whole(p))'
  BY <1>3 DEF SameJournals, Sound
<1>5. (\A p \in Phases \ Old : Has("snapshot", p))'
  BY <1>2 DEF Sound, Kinds
<1>6. ReportedStaysGone'
  BY DEF Sound, ReportedStaysGone, NoCopy, SameBundles, SameLoose
<1> QED  BY <1>1, <1>4, <1>5, <1>6 DEF Sound

\* A command that throws.
LEMMA Ends ==
  ASSUME TypeOK, Sound', SameJournals, Throw
  PROVE  Core'
<1>1. TypeOK'
  BY FreshIsRun DEF TypeOK, Throw, SameJournals
<1>2. pc' = "idle"
  BY DEF Throw, Goto
<1>3. AtPc'
  BY <1>2 DEF AtPc
<1> QED  BY <1>1, <1>3 DEF Core

-----------------------------------------------------------------------------
SameTask ==
    /\ run'.cmd = run.cmd /\ run'.stage = run.stage /\ run'.work = run.work
    /\ run'.plan = run.plan /\ run'.recovered = run.recovered
    /\ run'.skipped = run.skipped

LEMMA TaskStill ==
  ASSUME SameLoose, SameBundles, SameTask
  PROVE  /\ Maintains' = Maintains /\ Sweeps' = Sweeps
         /\ (Trimmed => Trimmed') /\ (Narrowed => Narrowed') /\ (Swept => Swept')
         /\ (SingleNarrowed => SingleNarrowed') /\ (Clean => Clean')
         /\ (PlanStands => PlanStands') /\ (LooseStage => LooseStage')
<1>1. Maintains' = Maintains /\ Sweeps' = Sweeps
  BY DEF SameTask, Maintains, Sweeps
<1>2. NoLoose => NoLoose'
  BY DEF NoLoose, SameLoose
<1>3. \A k \in Kinds : OneBundle(k) => OneBundle(k)'
  BY DEF OneBundle, SameBundles
<1>4. PlanStands => PlanStands'
  BY DEF PlanStands, SameBundles, SameTask
<1>5. Trimmed => Trimmed'
  BY <1>1, <1>2, <1>3 DEF Trimmed, Stays, SameBundles, SameTask, Kinds
<1>6. Narrowed => Narrowed'
  BY <1>1, <1>2 DEF Narrowed, Stays, SameBundles, SameTask, Kinds
<1>7. Swept => Swept'
  BY <1>1, <1>2, <1>3 DEF Swept, Stays, SameBundles, SameTask, Kinds
<1>8. SingleNarrowed => SingleNarrowed'
  BY <1>1, <1>2, <1>3 DEF SingleNarrowed, Stays, SameBundles, SameTask, Kinds
<1>9. Clean => Clean'
  BY <1>1, <1>2, <1>3 DEF Clean, Stays, SameBundles
<1>10. LooseStage => LooseStage'
  BY <1>1, <1>4 DEF LooseStage, SameTask
<1> QED  BY <1>1, <1>4, <1>5, <1>6, <1>7, <1>8, <1>9, <1>10

LEMMA WorkStill ==
  ASSUME SameLoose, SameBundles, SameTask
  PROVE  /\ LooseReady(run.work) => LooseReady(run.work)'
         /\ BundleOpen(run.work) => BundleOpen(run.work)'
         /\ There(run.work) => There(run.work)'
         /\ SingleOpen(run.work) => SingleOpen(run.work)'
         /\ SingleDraft => SingleDraft'
<1>1. LooseReady(run.work) => LooseReady(run.work)'
  BY DEF LooseReady, SameBundles, SameTask
<1>2. BundleOpen(run.work) => BundleOpen(run.work)'
  BY DEF BundleOpen, SameBundles, SameLoose, SameTask, SameLooseness, Kinds
<1>3. There(run.work) => There(run.work)'
  BY DEF There, SameBundles, SameTask
<1>4. SingleOpen(run.work) => SingleOpen(run.work)'
  BY DEF SingleOpen, SameTask
<1>5. SingleDraft => SingleDraft'
  BY <1>4, TaskStill DEF SingleDraft
<1> QED  BY <1>1, <1>2, <1>3, <1>4, <1>5

LEMMA CompletionStill ==
  ASSUME SameLoose, SameBundles, SameTask, SameJournals
  PROVE  (LooseWork => LooseWork') /\ (BundleWork => BundleWork')
<1>1. LooseWork => LooseWork'
  BY TaskStill DEF LooseWork, SameTask, SameJournals
<1>2. BundleWork => BundleWork'
  BY TaskStill DEF BundleWork, SameTask, SameJournals
<1> QED  BY <1>1, <1>2

LEMMA NoneStill ==
  ASSUME NEW ids
  PROVE  /\ SameLoose /\ NoneLoose(ids) => NoneLoose(ids)'
         /\ SameBundles /\ NoneBundled(ids) => NoneBundled(ids)'
  BY DEF NoneLoose, NoneBundled, SameLoose, SameBundles

LEMMA SoundQuiet ==
  ASSUME Sound, Pending = {}, Pending' = {}, finished' = finished,
         \A k \in Kinds : \A p : Has(k, p)' => Has(k, p),
         \A p \in Phases \ Old : Has("snapshot", p)',
         \A p \in Phases : Whole(p)'
  PROVE  Sound'
<1>1. ReportedStaysGone'
  BY DEF Sound, ReportedStaysGone, NoCopy, Has
<1> QED  BY <1>1 DEF Sound

LEMMA SoundSame ==
  ASSUME Sound, Pending = {}, Pending' = {}, finished' = finished,
         \A k \in Kinds : \A p : Has(k, p)' = Has(k, p)
  PROVE  Sound'
<1>1. \A p \in Phases : Whole(p)'
  BY DEF Whole, Sound, Kinds
<1>2. \A p \in Phases \ Old : Has("snapshot", p)'
  BY DEF Sound, Kinds
<1> QED  BY <1>1, <1>2, SoundQuiet

-----------------------------------------------------------------------------
(* One lemma for each step of a run.                                        *)

LEMMA StartKeeps ==
  ASSUME Core, NEW c \in Commands, Start(c)
  PROVE  Core'
<1>1. SameLoose /\ SameBundles /\ SameJournals
  BY DiskStays DEF Core, TypeOK, Start, store
<1>2. Sound'
  BY <1>1, SoundStill DEF Core, Start
<1>3. TypeOK'
  BY <1>1, FreshIsRun DEF Core, TypeOK, Start, SameJournals
<1>4. CASE c = "compact"
  <2>1. pc' = "fold" /\ run'.stage = "recovery" /\ run'.cmd = "compact"
    BY <1>4, FreshIsRun DEF Start, Goto
  <2>2. AtFold'
    BY <2>1 DEF AtFold, Compacting, Maintains
  <2> QED  BY <2>1, <2>2, <1>2, <1>3 DEF Core, AtPc
<1>5. CASE c # "compact"
  <2>1. pc' = "recover" /\ run' = Fresh(c) /\ run'.cmd = c
    BY <1>5, FreshIsRun DEF Start, Goto
  <2>2. AtRecover'
    BY <2>1 DEF AtRecover
  <2> QED  BY <2>1, <2>2, <1>2, <1>3 DEF Core, AtPc
<1> QED  BY <1>4, <1>5

LEMMA RecoverKeeps ==
  ASSUME Core, Recover
  PROVE  Core'
<1>1. SameLoose /\ SameBundles /\ SameJournals
  BY DiskStays DEF Core, TypeOK, Recover, store
<1>2. Sound'
  BY <1>1, SoundStill DEF Core, Recover
<1>3. AtRecover /\ run \in Runs /\ run.cmd \in Commands \cup {None}
  BY DEF Core, AtPc, Recover, Running, TypeOK, Runs
<1>4. run.stage = "recovery" /\ run.kind = "snapshot"
  BY <1>3, FreshIsRun DEF AtRecover
<1>5. CASE Pending = {} /\ Goto(AfterRecovery) /\ UNCHANGED run
  <2>1. TypeOK'
    BY <1>1, <1>5 DEF Core, TypeOK, SameJournals
  <2>2. Pending' = {}
    BY <1>1, <1>5 DEF SameJournals
  <2>3. CASE run.cmd = "maintain"
    <3>1. pc' = "fold"
      BY <1>5, <2>3 DEF Goto, AfterRecovery
    <3>2. AtFold'
      BY <1>4, <1>5, <2>2 DEF AtFold, Compacting
    <3> QED  BY <3>1, <3>2, <2>1, <1>2 DEF Core, AtPc
  <2>4. CASE run.cmd # "maintain"
    <3>1. pc' = "plan"
      BY <1>5, <2>4 DEF Goto, AfterRecovery
    <3>2. AtPlan'
      BY <1>4, <1>5, <2>2, <2>4 DEF AtPlan, Maintains
    <3> QED  BY <3>1, <3>2, <2>1, <1>2 DEF Core, AtPc
  <2> QED  BY <2>3, <2>4
<1>6. ASSUME NEW i \in Pending,
             run' = [run EXCEPT !.work = i, !.left = i.ids],
             Goto(IF i.pair = "loose" THEN "unlink pack" ELSE "next pair")
      PROVE  Core'
  <2>1. i \in Works /\ Pending = {i} /\ Completable(i) /\ i.ids \subseteq Phases
    BY DEF Core, TypeOK, Sound, Works
  <2>2. /\ run' \in Runs /\ run'.work = i /\ run'.left = i.ids
        /\ run'.stage = "recovery" /\ run'.plan = run.plan
    BY <1>3, <1>4, <1>6, <2>1 DEF Runs
  <2>3. TypeOK'
    BY <1>1, <2>2 DEF Core, TypeOK, SameJournals
  <2>4. Pending' = {run'.work}
    BY <1>1, <2>1, <2>2 DEF SameJournals
  <2>5. CASE i.pair = "loose"
    <3>1. pc' = "unlink pack"
      BY <1>6, <2>5 DEF Goto
    <3>2. LooseReady(i)
      BY <2>1, <2>5 DEF Completable, BundleOpen
    <3>3. i.ids # {}
      BY <3>2 DEF LooseReady
    <3>4. AtUnlinkPack'
      BY <3>3, <2>2, <2>4, <2>5 DEF AtUnlinkPack, LooseWork, NoneLoose
    <3> QED  BY <3>1, <3>4, <2>3, <1>2 DEF Core, AtPc
  <2>6. CASE i.pair # "loose"
    <3>1. pc' = "next pair"
      BY <1>6, <2>6 DEF Goto
    <3>2. i.pair = "bundle"
      BY <2>1, <2>6 DEF Completable, BundleOpen, LooseReady
    <3>3. AtNextPair'
      BY <3>2, <2>2, <2>4 DEF AtNextPair, BundleWork, NoneBundled, Narrowed
    <3> QED  BY <3>1, <3>3, <2>3, <1>2 DEF Core, AtPc
  <2> QED  BY <2>5, <2>6
<1> QED  BY <1>5, <1>6 DEF Recover
-----------------------------------------------------------------------------
\* A file of a decided pair goes: nothing else depends on it.
LEMMA LooseGone ==
  ASSUME Sound, NEW w, Pending = {w}, LooseReady(w), NEW p \in w.ids, NEW kind \in Kinds,
         LessLoose(kind, p), SameBundles, SameJournals, finished' = finished
  PROVE  Sound'
<1>1. LooseReady(w)'
  BY DEF LooseReady, SameBundles
<1>2. \A k \in Kinds : \A q : q # p => Has(k, q)' = Has(k, q)
  BY DEF LessLoose, SameBundles, Has
<1>3. \A k \in Kinds : \A q : Has(k, q)' => Has(k, q)
  BY DEF LessLoose, SameBundles, Has
<1>4. \A q \in Phases : q \notin w.ids => Whole(q)'
  BY <1>2 DEF Sound, Whole, Kinds
<1>5. p \in Old
  BY DEF LooseReady
<1>6. (\A q \in Phases \ Old : Has("snapshot", q))'
  BY <1>2, <1>5 DEF Sound, Kinds
<1>7. ReportedStaysGone'
  BY <1>3 DEF Sound, ReportedStaysGone, NoCopy, Has
<1>8. Pending' = {w}
  BY DEF SameJournals
<1>9. (\A i \in Pending : Pending = {i} /\ Completable(i))'
  BY <1>1, <1>8 DEF Completable
<1>10. (\A q \in Phases : (\A i \in Pending : q \notin i.ids) => Whole(q))'
  BY <1>4, <1>8
<1> QED  BY <1>6, <1>7, <1>9, <1>10 DEF Sound

LEMMA LooseWorkIsReady ==
  ASSUME Sound, LooseWork
  PROVE  LooseReady(run.work)
  BY DEF Sound, LooseWork, Completable, BundleOpen

LEMMA BundleWorkIsReady ==
  ASSUME Sound, BundleWork
  PROVE  BundleOpen(run.work) /\ There(run.work)
  BY DEF Sound, BundleWork, Completable, LooseReady

LEMMA LooseWorkStill ==
  ASSUME LooseWork, SameBundles, SameTask, SameJournals
  PROVE  LooseWork'
<1>1. LooseStage => LooseStage'
  BY DEF LooseStage, Maintains, PlanStands, SameTask, SameBundles
<1> QED  BY <1>1 DEF LooseWork, SameTask, SameJournals

LEMMA UnlinkPackKeeps ==
  ASSUME Core, UnlinkPack
  PROVE  Core'
<1>1. PICK p \in run.left : disk' = disk \ {Loose("pack", p)}
                            /\ run' = [run EXCEPT !.cur = p]
  BY DEF UnlinkPack, Remove, Change
<1>2. LessLoose("pack", p) /\ SameBundles /\ SameJournals
  BY <1>1, LooseRemoved DEF Kinds, Core, TypeOK
<1>3. AtUnlinkPack /\ LooseReady(run.work)
  BY LooseWorkIsReady DEF Core, AtPc, UnlinkPack, Running, AtUnlinkPack
<1>4. run.left \subseteq Phases /\ p \in run.work.ids
  BY <1>3, <1>1 DEF Core, TypeOK, Runs, AtUnlinkPack
<1>5. run' \in Runs /\ SameTask /\ run'.left = run.left /\ run'.cur = p
  BY <1>1, <1>4 DEF Core, TypeOK, Runs, SameTask
<1>6. TypeOK'
  BY <1>2, <1>5 DEF Core, TypeOK, SameJournals, SameTask
<1>7. Sound'
  <2>1. Pending = {run.work} /\ finished' = finished
    BY <1>3 DEF AtUnlinkPack, LooseWork, UnlinkPack
  <2> QED  BY <2>1, <1>2, <1>3, <1>4, LooseGone DEF Core, Kinds
<1>8. LooseWork'
  BY <1>2, <1>3, <1>5, LooseWorkStill DEF AtUnlinkPack
<1>9. AtUnlinkSnapshot'
  <2>1. NoneLoose(run.work.ids \ run.left)'
    BY <1>2, <1>3, <1>5 DEF AtUnlinkPack, NoneLoose, LessLoose, SameTask
  <2>2. (run.cur \notin LooseOf("pack"))'
    BY <1>2, <1>5 DEF LessLoose, Kinds
  <2> QED  BY <2>1, <2>2, <1>1, <1>3, <1>5, <1>8 DEF AtUnlinkPack, AtUnlinkSnapshot, SameTask
<1>10. pc' = "unlink snapshot"
  BY DEF UnlinkPack, Goto
<1> QED  BY <1>6, <1>7, <1>9, <1>10 DEF Core, AtPc

LEMMA UnlinkSnapshotKeeps ==
  ASSUME Core, UnlinkSnapshot
  PROVE  Core'
<1> DEFINE rest == run.left \ {run.cur}
<1>1. disk' = disk \ {Loose("snapshot", run.cur)} /\ run' = [run EXCEPT !.left = rest]
  BY DEF UnlinkSnapshot, Remove, Change
<1>2. LessLoose("snapshot", run.cur) /\ SameBundles /\ SameJournals
  BY <1>1, LooseRemoved DEF Kinds, Core, TypeOK
<1>3. AtUnlinkSnapshot /\ LooseReady(run.work)
  BY LooseWorkIsReady DEF Core, AtPc, UnlinkSnapshot, Running, AtUnlinkSnapshot
<1>4. run.left \subseteq Phases /\ run.cur \in run.work.ids
  BY <1>3 DEF Core, TypeOK, Runs, AtUnlinkSnapshot
<1>5. run' \in Runs /\ SameTask /\ run'.left = rest
  BY <1>1, <1>4 DEF Core, TypeOK, Runs, SameTask
<1>6. TypeOK'
  BY <1>2, <1>5 DEF Core, TypeOK, SameJournals, SameTask
<1>7. Sound'
  <2>1. Pending = {run.work} /\ finished' = finished
    BY <1>3 DEF AtUnlinkSnapshot, LooseWork, UnlinkSnapshot
  <2> QED  BY <2>1, <1>2, <1>3, <1>4, LooseGone DEF Core, Kinds
<1>8. LooseWork'
  BY <1>2, <1>3, <1>5, LooseWorkStill DEF AtUnlinkSnapshot
<1>9. NoneLoose(run.work.ids \ run.left)'
  <2>1. run'.work.ids \ run'.left \subseteq (run.work.ids \ run.left) \cup {run.cur}
    BY <1>5 DEF SameTask
  <2>2. \A k \in Kinds : run.cur \notin LooseOf(k)'
    BY <1>2, <1>3 DEF AtUnlinkSnapshot, LessLoose, Kinds
  <2>3. \A k \in Kinds : (run.work.ids \ run.left) \cap LooseOf(k)' = {}
    BY <1>2, <1>3 DEF AtUnlinkSnapshot, LessLoose, NoneLoose
  <2> QED  BY <2>1, <2>2, <2>3 DEF NoneLoose
<1>10. CASE rest = {}
  <2>1. pc' = "flush packs"
    BY <1>10 DEF UnlinkSnapshot, Goto
  <2>2. NoneLoose(run.work.ids)'
    BY <1>5, <1>9, <1>10 DEF NoneLoose
  <2>3. AtFlushLoose'
    BY <1>8, <2>2 DEF AtFlushLoose
  <2> QED  BY <2>1, <2>3, <1>6, <1>7 DEF Core, AtPc
<1>11. CASE rest # {}
  <2>1. pc' = "unlink pack"
    BY <1>11 DEF UnlinkSnapshot, Goto
  <2>2. AtUnlinkPack'
    BY <1>3, <1>5, <1>8, <1>9, <1>11 DEF AtUnlinkPack, AtUnlinkSnapshot, SameTask
  <2> QED  BY <2>1, <2>2, <1>6, <1>7 DEF Core, AtPc
<1> QED  BY <1>10, <1>11

LEMMA FlushPacksKeeps ==
  ASSUME Core, FlushPacks
  PROVE  Core'
<1>1. SameLoose /\ SameBundles /\ SameJournals
  BY DiskStays DEF Core, TypeOK, FlushPacks, Flush
<1>2. run' = run /\ finished' = finished /\ pc' = "flush snapshots"
  BY DEF FlushPacks, Goto
<1>3. Sound' /\ TypeOK'
  BY <1>1, <1>2, SoundStill DEF Core, TypeOK, SameJournals
<1>4. AtFlushLoose'
  BY <1>1, <1>2, CompletionStill, NoneStill DEF Core, AtPc, AtFlushLoose, FlushPacks, Running, SameTask
<1> QED  BY <1>2, <1>3, <1>4 DEF Core, AtPc

LEMMA FlushSnapshotsKeeps ==
  ASSUME Core, FlushSnapshots
  PROVE  Core'
<1>1. SameLoose /\ SameBundles /\ SameJournals
  BY DiskStays DEF Core, TypeOK, FlushSnapshots, Flush
<1>2. run' = run /\ finished' = finished /\ pc' = "clear"
  BY DEF FlushSnapshots, Goto
<1>3. Sound' /\ TypeOK'
  BY <1>1, <1>2, SoundStill DEF Core, TypeOK, SameJournals
<1>4. AtFlushLoose'
  BY <1>1, <1>2, CompletionStill, NoneStill DEF Core, AtPc, AtFlushLoose, FlushSnapshots, Running, SameTask
<1> QED  BY <1>2, <1>3, <1>4 DEF Core, AtPc, AtClear
-----------------------------------------------------------------------------
LEMMA NextPairKeeps ==
  ASSUME Core, NextPair
  PROVE  Core'
<1>1. SameLoose /\ SameBundles /\ SameJournals
  BY DiskStays DEF Core, TypeOK, NextPair, store
<1>2. Sound'
  BY <1>1, SoundStill DEF Core, NextPair
<1>3. AtNextPair
  BY DEF Core, AtPc, NextPair, Running
<1>4. CASE run.left = {}
  <2>1. run' = run /\ pc' = "flush retired"
    BY <1>4 DEF NextPair, Goto
  <2>2. TypeOK'
    BY <1>1, <2>1 DEF Core, TypeOK, SameJournals
  <2>3. NoneBundled(run.work.ids)
    BY <1>3, <1>4 DEF AtNextPair, NoneBundled
  <2>4. AtFlushRetired'
    BY <1>1, <1>3, <2>1, <2>3, CompletionStill, NoneStill DEF AtNextPair, AtFlushRetired, SameTask
  <2> QED  BY <2>1, <2>2, <2>4, <1>2 DEF Core, AtPc
<1>5. CASE run.left # {}
  <2>1. PICK p \in run.left :
          /\ run' = [run EXCEPT !.cur = p, !.kind = "snapshot", !.left = run.left \ {p}]
          /\ pc' = "retire"
    BY <1>5 DEF NextPair, Goto
  <2>2. run.left \subseteq Phases /\ run.left \subseteq run.work.ids
    BY <1>3 DEF Core, TypeOK, Runs, AtNextPair
  <2>3. /\ run' \in Runs /\ SameTask
        /\ run'.cur = p /\ run'.left = run.left \ {p} /\ run'.kind = "snapshot"
    BY <2>1, <2>2 DEF Core, TypeOK, Runs, SameTask, Kinds
  <2>4. TypeOK'
    BY <1>1, <2>3 DEF Core, TypeOK, SameJournals, SameTask
  <2>5. NoneBundled((run.work.ids \ run.left) \ {run.cur})'
    BY <1>1, <1>3, <2>3 DEF NoneBundled, AtNextPair, SameTask, SameBundles
  <2>6. AtRetire'
    BY <1>1, <1>3, <2>2, <2>3, <2>5, CompletionStill DEF AtRetire, AtNextPair, SameTask
  <2> QED  BY <2>1, <2>4, <2>6, <1>2 DEF Core, AtPc
<1> QED  BY <1>4, <1>5

\* Retiring a bundle of a decided pair takes the pair's members only.
LEMMA BundleGone ==
  ASSUME Sound, NEW w, Pending = {w}, BundleOpen(w), There(w), NEW kind \in Kinds,
         NEW S \in w.old[kind], S \in BundlesOf(kind),
         LessBundle(kind, S), SameLoose, SameJournals, finished' = finished
  PROVE  /\ Sound' /\ \A k \in Kinds : Members(k)' \subseteq Members(k)
         /\ \A k \in Kinds : BundlesOf(k)' \subseteq BundlesOf(k)
<1>1. \A k \in Kinds : BundlesOf(k)' \subseteq BundlesOf(k)
  BY DEF LessBundle
<1>2. \A k \in Kinds : Members(k)' \subseteq Members(k)
  BY <1>1, MembersOfBundles, MembersOfBundlesAfter
<1>3. /\ S \subseteq w.ids \cup w.survivor[kind] /\ S \cap w.ids # {}
      /\ w.ids \cap w.survivor[kind] = {}
  BY DEF BundleOpen
<1>4. There(w)'
  <2> SUFFICES ASSUME NEW k \in Kinds PROVE w.survivor[k] \in {{}} \cup BundlesOf(k)'
    BY DEF There
  <2>1. w.survivor[k] \in {{}} \cup BundlesOf(k)
    BY DEF There
  <2>2. k = kind => w.survivor[k] # S
    BY <1>3
  <2> QED  BY <2>1, <2>2 DEF LessBundle
<1>5. ASSUME NEW p \in Members(kind), p \notin w.ids
      PROVE  p \in Members(kind)'
  <2>1. PICK T \in BundlesOf(kind) : p \in T
    BY MembersOfBundles
  <2>2. CASE T # S
    BY <2>1, <2>2, MembersOfBundlesAfter DEF LessBundle
  <2>3. CASE T = S
    <3>1. p \in w.survivor[kind]
      BY <1>3, <1>5, <2>1, <2>3
    <3>2. w.survivor[kind] \in BundlesOf(kind)'
      BY <1>4, <3>1 DEF There
    <3> QED  BY <3>1, <3>2, MembersOfBundlesAfter
  <2> QED  BY <2>2, <2>3
<1>6. \A k \in Kinds : \A p : p \notin w.ids => Has(k, p)' = Has(k, p)
  <2> SUFFICES ASSUME NEW k \in Kinds, NEW p, p \notin w.ids
               PROVE  p \in Members(k)' <=> p \in Members(k)
    BY DEF Has, SameLoose
  <2> QED  BY <1>2, <1>5 DEF LessBundle
<1>7. \A p : p \in w.ids => p \in Old
  BY DEF BundleOpen
<1>8. BundleOpen(w)'
  BY <1>1 DEF BundleOpen, SameLooseness, SameLoose, Kinds
<1>9. Pending' = {w}
  BY DEF SameJournals
<1>10. (\A i \in Pending : Pending = {i} /\ Completable(i))'
  BY <1>4, <1>8, <1>9 DEF Completable
<1>11. \A p \in Phases : p \notin w.ids => Whole(p)'
  BY <1>6 DEF Sound, Whole, Kinds
<1>12. (\A p \in Phases : (\A i \in Pending : p \notin i.ids) => Whole(p))'
  BY <1>9, <1>11
<1>13. (\A p \in Phases \ Old : Has("snapshot", p))'
  BY <1>6, <1>7 DEF Sound, Kinds
<1>14. ReportedStaysGone'
  BY <1>2 DEF Sound, ReportedStaysGone, NoCopy, SameLoose
<1> QED  BY <1>1, <1>2, <1>10, <1>12, <1>13, <1>14 DEF Sound

LEMMA NarrowedStays ==
  ASSUME Narrowed, SameTask, SameLoose,
         \A k \in Kinds : Members(k)' \subseteq Members(k),
         \A k \in Kinds : BundlesOf(k)' \subseteq BundlesOf(k)
  PROVE  Narrowed'
<1>1. Maintains' = Maintains /\ Sweeps' = Sweeps
  BY DEF SameTask, Maintains, Sweeps
<1>2. NoLoose => NoLoose'
  BY DEF NoLoose, SameLoose
<1>3. \A ids, k \in Kinds : Stays(k, ids) => Stays(k, ids)'
  BY DEF Stays
<1> QED  BY <1>1, <1>2, <1>3 DEF Narrowed, SameTask, Kinds, Stays

LEMMA RetireKeeps ==
  ASSUME Core, Retire
  PROVE  Core'
<1>1. AtRetire /\ BundleOpen(run.work) /\ There(run.work) /\ run.kind \in Kinds /\ run.work \in Works
  BY BundleWorkIsReady DEF Core, AtPc, Retire, Running, AtRetire, TypeOK, Runs
<1>2. CASE ~SurvivorThere(run.kind) /\ Throw /\ UNCHANGED <<disk, sure, maybe>>
  BY <1>2, Ends, DiskStays, SoundStill DEF Core, TypeOK, Retire
<1>3. ASSUME NEW S \in StillHeld, Remove(Bundle(run.kind, S)),
             run' = [run EXCEPT !.retired = TRUE], Goto("retire")
      PROVE  Core'
  <2>1. S \in run.work.old[run.kind] /\ S \in BundlesOf(run.kind) /\ S \in Groups
    BY <1>3, LooseArePhases DEF StillHeld
  <2>2. SameLoose /\ LessBundle(run.kind, S) /\ SameJournals
    BY <1>1, <1>3, <2>1, BundleRemoved DEF Core, TypeOK, Remove, Change
  <2>3. Pending = {run.work} /\ finished' = finished
    BY <1>1 DEF AtRetire, BundleWork, Retire
  <2>4. /\ Sound' /\ \A k \in Kinds : Members(k)' \subseteq Members(k)
        /\ \A k \in Kinds : BundlesOf(k)' \subseteq BundlesOf(k)
    BY <1>1, <2>1, <2>2, <2>3, BundleGone DEF Core
  <2> DEFINE y == TRUE
  <2>5. y \in BOOLEAN
    OBVIOUS
  <2>6. run' = [run EXCEPT !.retired = y]
    BY <1>3
  <2> HIDE DEF y
  <2>7. run' \in Runs /\ SameTask /\ run'.cur = run.cur /\ run'.left = run.left /\ run'.kind = run.kind
    BY <2>5, <2>6 DEF Core, TypeOK, Runs, SameTask
  <2>8. TypeOK'
    BY <2>2, <2>7 DEF Core, TypeOK, SameJournals, SameTask
  <2>9. BundleWork'
    BY <1>1, <2>2, <2>4, <2>7, NarrowedStays DEF AtRetire, BundleWork, SameJournals, SameTask
  <2>10. AtRetire'
    BY <1>1, <2>4, <2>7, <2>9 DEF AtRetire, NoneBundled, SameTask, Kinds
  <2> QED  BY <1>3, <2>4, <2>8, <2>10 DEF Core, AtPc, Goto
<1>4. ASSUME StillHeld = {}, UNCHANGED disk,
             IF run.kind = "snapshot"
             THEN run' = [run EXCEPT !.kind = "pack"] /\ Goto("retire")
             ELSE UNCHANGED run /\ Goto("next pair")
      PROVE  Core'
  <2>1. SameLoose /\ SameBundles /\ SameJournals /\ Sound'
    BY <1>4, DiskStays, SoundStill DEF Core, TypeOK, Retire
  <2>2. run.cur \notin Members(run.kind)
    <3> SUFFICES ASSUME NEW T \in BundlesOf(run.kind), run.cur \in T PROVE FALSE
      BY MembersOfBundles
    <3>1. T \in run.work.old[run.kind]
      BY <1>1 DEF AtRetire, BundleOpen
    <3> QED  BY <3>1, <1>4 DEF StillHeld
  <2>3. CASE run.kind = "snapshot"
    <3>1. run' = [run EXCEPT !.kind = "pack"] /\ pc' = "retire"
      BY <1>4, <2>3 DEF Goto
    <3>2. run' \in Runs /\ SameTask /\ run'.cur = run.cur /\ run'.left = run.left /\ run'.kind = "pack"
      BY <3>1 DEF Core, TypeOK, Runs, SameTask, Kinds
    <3>3. TypeOK'
      BY <2>1, <3>2 DEF Core, TypeOK, SameJournals, SameTask
    <3>4. (run.cur \notin Members("snapshot"))'
      BY <2>1, <2>2, <2>3, <3>2 DEF SameBundles, Kinds
    <3>5. NoneBundled((run.work.ids \ run.left) \ {run.cur})'
      BY <1>1, <2>1, <3>2 DEF AtRetire, NoneBundled, SameTask, SameBundles
    <3>6. AtRetire'
      BY <1>1, <2>1, <3>2, <3>4, <3>5, CompletionStill DEF AtRetire, SameTask
    <3> QED  BY <2>1, <3>1, <3>3, <3>6 DEF Core, AtPc
  <2>4. CASE run.kind # "snapshot"
    <3>1. run' = run /\ pc' = "next pair" /\ run.kind = "pack"
      BY <1>1, <1>4, <2>4 DEF Goto, Kinds
    <3>2. TypeOK'
      BY <2>1, <3>1 DEF Core, TypeOK, SameJournals
    <3>3. \A k \in Kinds : run.cur \notin Members(k)
      BY <1>1, <2>2, <3>1 DEF AtRetire, Kinds
    <3>4. NoneBundled(run.work.ids \ run.left)
      BY <1>1, <3>3 DEF AtRetire, NoneBundled
    <3>5. AtNextPair'
      BY <1>1, <2>1, <3>1, <3>4, CompletionStill, NoneStill DEF AtRetire, AtNextPair, SameTask
    <3> QED  BY <2>1, <3>1, <3>2, <3>5 DEF Core, AtPc
  <2> QED  BY <2>3, <2>4
<1> QED  BY <1>2, <1>3, <1>4 DEF Retire

LEMMA FlushRetiredKeeps ==
  ASSUME Core, FlushRetired
  PROVE  Core'
<1>1. SameLoose /\ SameBundles /\ SameJournals
  BY DiskStays DEF Core, TypeOK, FlushRetired, Flush, store
<1>2. run' = run /\ finished' = finished /\ pc' = "clear"
  BY DEF FlushRetired, Goto
<1>3. Sound' /\ TypeOK'
  BY <1>1, <1>2, SoundStill DEF Core, TypeOK, SameJournals
<1>4. AtFlushRetired'
  BY <1>1, <1>2, CompletionStill, NoneStill DEF Core, AtPc, AtFlushRetired, FlushRetired, Running, SameTask
<1> QED  BY <1>2, <1>3, <1>4 DEF Core, AtPc, AtClear

\* Once the pairs of a journal are gone on both sides, the journal may go.
LEMMA SoundCleared ==
  ASSUME Sound, NEW w, Pending = {w}, Pending' = {}, SameLoose, SameBundles,
         finished' = finished, \A p \in w.ids : Whole(p)
  PROVE  Sound'
<1>1. \A k \in Kinds : \A p : Has(k, p)' = Has(k, p)
  BY DEF Has, SameLoose, SameBundles
<1>2. \A p \in Phases : Whole(p)
  BY DEF Sound
<1>3. \A p \in Phases : Whole(p)'
  BY <1>1, <1>2 DEF Whole, Kinds
<1>4. (\A p \in Phases \ Old : Has("snapshot", p))'
  BY <1>1 DEF Sound, Kinds
<1>5. ReportedStaysGone'
  BY DEF Sound, ReportedStaysGone, NoCopy, SameLoose, SameBundles
<1> QED  BY <1>3, <1>4, <1>5 DEF Sound

LEMMA ClearJournalKeeps ==
  ASSUME Core, ClearJournal
  PROVE  Core'
<1>1. /\ disk' = disk \ {Journal(run.work)} /\ run' = run /\ finished' = finished
      /\ pc' = "flush clear"
  BY DEF ClearJournal, Remove, Change, Goto
<1>2. SameLoose /\ SameBundles /\ Pending' = Pending \ {run.work} /\ JournalShape'
  BY <1>1, JournalRemoved DEF Core, TypeOK
<1>3. AtClear
  BY DEF Core, AtPc, ClearJournal, Running
<1>4. Pending = {run.work} /\ Pending' = {}
  BY <1>2, <1>3 DEF AtClear, AtFlushLoose, AtFlushRetired, LooseWork, BundleWork
<1>5. TypeOK'
  BY <1>1, <1>2, <1>4 DEF Core, TypeOK
<1>6. SameTask
  BY <1>1 DEF SameTask
<1>7. CASE AtFlushLoose
  <2>1. LooseReady(run.work)
    BY <1>7, LooseWorkIsReady DEF AtFlushLoose, Core
  <2>2. \A p \in run.work.ids : Whole(p)
    BY <1>7, <2>1 DEF AtFlushLoose, LooseReady, NoneLoose, Whole, Has, Kinds
  <2>3. Sound'
    BY <1>1, <1>2, <1>4, <2>2, SoundCleared DEF Core
  <2>4. AtFlushClear'
    BY <1>2, <1>4, <1>6, <1>7, TaskStill DEF AtFlushLoose, LooseWork, AtFlushClear, SameTask
  <2> QED  BY <1>1, <1>5, <2>3, <2>4 DEF Core, AtPc
<1>8. CASE AtFlushRetired
  <2>1. BundleOpen(run.work) /\ run.work \in Works
    BY <1>8, BundleWorkIsReady DEF AtFlushRetired, Core, TypeOK, Runs
  <2>2. \A p \in run.work.ids : Whole(p)
    <3> SUFFICES ASSUME NEW p \in run.work.ids PROVE Whole(p)
      OBVIOUS
    <3>1. p \notin Members("snapshot") /\ p \notin Members("pack")
      BY <1>8 DEF AtFlushRetired, NoneBundled, Kinds
    <3>2. p \in LooseOf("snapshot") <=> p \in LooseOf("pack")
      BY <2>1 DEF BundleOpen, SameLooseness
    <3>3. p \in Paired
      BY <2>1 DEF BundleOpen
    <3> QED  BY <3>1, <3>2, <3>3 DEF Whole, Has
  <2>3. Sound'
    BY <1>1, <1>2, <1>4, <2>2, SoundCleared DEF Core
  <2>4. run.stage = "bundle" => Swept
    <3> SUFFICES ASSUME run.stage = "bundle" PROVE Swept
      OBVIOUS
    <3>1. Narrowed /\ NoneBundled(run.work.ids)
      BY <1>8 DEF AtFlushRetired, BundleWork
    <3>2. Maintains => NoLoose
      BY <3>1 DEF Narrowed
    <3>3. ASSUME Sweeps, NEW k \in Kinds PROVE OneBundle(k)
      <4>1. \A T \in BundlesOf(k) : T = run.work.survivor[k]
        <5> SUFFICES ASSUME NEW T \in BundlesOf(k), T # run.work.survivor[k] PROVE FALSE
          OBVIOUS
        <5>1. T \in run.work.old[k]
          BY <3>1, <3>3 DEF Narrowed
        <5>2. T \cap run.work.ids # {}
          BY <5>1, <2>1 DEF BundleOpen
        <5> QED  BY <5>2, <3>1, MembersOfBundles DEF NoneBundled
      <4>2. \A T \in BundlesOf(k) : \A p : p \in T <=> p \in Members(k)
        BY <4>1, MembersOfBundles
      <4> QED  BY <4>2 DEF OneBundle
    <3>4. Sweeps => Stays("pack", {}) /\ Stays("snapshot", run.plan.single)
      BY <3>1 DEF Narrowed, NoneBundled, Stays, Kinds
    <3> QED  BY <3>2, <3>3, <3>4 DEF Swept
  <2>5. AtFlushClear'
    BY <1>2, <1>4, <1>6, <1>8, <2>4, TaskStill DEF AtFlushRetired, BundleWork, AtFlushClear, SameTask
  <2> QED  BY <1>1, <1>5, <2>3, <2>5 DEF Core, AtPc
<1> QED  BY <1>3, <1>7, <1>8 DEF AtClear

LEMMA SoundReported ==
  ASSUME Sound, SameLoose, SameBundles, SameJournals, NEW ids,
         finished' = finished \cup {p \in ids : NoCopy(p)}
  PROVE  Sound'
<1>1. ReportedStaysGone'
  BY DEF Sound, ReportedStaysGone, NoCopy, SameLoose, SameBundles
<1>2. \A i \in Pending' : Pending' = {i} /\ Completable(i)'
  <2> SUFFICES ASSUME NEW i \in Pending PROVE Pending = {i} /\ Completable(i)'
    BY DEF SameJournals
  <2>1. Pending = {i} /\ Completable(i)
    BY DEF Sound
  <2>2. LooseReady(i) => LooseReady(i)'
    BY DEF LooseReady, SameBundles
  <2>3. BundleOpen(i) => BundleOpen(i)'
    BY DEF BundleOpen, SameBundles, SameLoose, SameLooseness, Kinds
  <2>4. There(i) => There(i)'
    BY DEF There, SameBundles
  <2> QED  BY <2>1, <2>2, <2>3, <2>4 DEF Completable
<1>3. \A k \in Kinds : \A p : Has(k, p)' = Has(k, p)
  BY DEF Has, SameBundles, SameLoose
<1>4. \A p : Whole(p)' = Whole(p)
  BY <1>3 DEF Whole, Kinds
<1> QED  BY <1>1, <1>2, <1>3, <1>4 DEF Sound, SameJournals, Kinds

LEMMA FlushClearKeeps ==
  ASSUME Core, FlushClear
  PROVE  Core'
<1>1. SameLoose /\ SameBundles /\ SameJournals
  BY DiskStays DEF Core, TypeOK, FlushClear, Flush
<1>2. Sound'
  BY <1>1, SoundReported DEF Core, FlushClear
<1>3. AtFlushClear /\ run.work \in Works /\ run \in Runs
  BY DEF Core, AtPc, FlushClear, Running, TypeOK, Runs
<1> DEFINE again == IF run.stage = "recovery" /\ run.work.pair = "bundle"
                    THEN run.work.ids ELSE run.recovered
           no == FALSE
<1>4. no \in BOOLEAN /\ NoWork \in Works /\ again \in SUBSET Phases
  BY <1>3 DEF NoWork, Works, Groups, Runs
<1>5. run' = [run EXCEPT !.work = NoWork, !.retired = no, !.left = {},
                         !.cur = None, !.kind = "snapshot", !.recovered = again]
  BY DEF FlushClear
<1> HIDE DEF no, again
<1>6. run' \in Runs /\ run'.cmd = run.cmd /\ run'.stage = run.stage /\ run'.plan = run.plan
      /\ run'.kind = "snapshot" /\ run'.recovered = again /\ run'.skipped = run.skipped
  BY <1>3, <1>4, <1>5 DEF Runs, Kinds
<1>7. TypeOK'
  BY <1>1, <1>6 DEF Core, TypeOK, SameJournals
<1>8. Pending' = {}
  BY <1>1, <1>3 DEF AtFlushClear, SameJournals
<1>9. CASE run.stage = "recovery"
  <2>1. CASE run.cmd = "maintain"
    <3>1. pc' = "fold"
      BY <1>9, <2>1 DEF FlushClear, Goto, AfterRecovery
    <3>2. AtFold'
      BY <1>6, <1>8, <1>9 DEF AtFold, Compacting
    <3> QED  BY <1>2, <1>7, <3>1, <3>2 DEF Core, AtPc
  <2>2. CASE run.cmd # "maintain"
    <3>1. pc' = "plan"
      BY <1>9, <2>2 DEF FlushClear, Goto, AfterRecovery
    <3>2. AtPlan'
      BY <1>6, <1>8, <1>9, <2>2 DEF AtPlan, Maintains
    <3> QED  BY <1>2, <1>7, <3>1, <3>2 DEF Core, AtPc
  <2> QED  BY <2>1, <2>2
<1>10. CASE LooseStage
  <2>1. pc' = "bundle pairs"
    BY <1>10 DEF FlushClear, Goto, LooseStage
  <2>2. PlanStands'
    BY <1>1, <1>6, <1>10 DEF LooseStage, PlanStands, SameBundles
  <2>3. ~Maintains' /\ ~Sweeps'
    BY <1>6, <1>10 DEF LooseStage, Maintains, Sweeps
  <2>4. AtBundlePairs'
    BY <1>8, <2>2, <2>3 DEF AtBundlePairs, Trimmed
  <2> QED  BY <1>2, <1>7, <2>1, <2>4 DEF Core, AtPc
<1>11. CASE run.stage = "bundle" /\ Swept
  <2>1. pc' = "single"
    BY <1>11 DEF FlushClear, Goto
  <2>2. again = run.recovered
    BY <1>11 DEF again
  <2>3. Maintains' = Maintains /\ Sweeps' = Sweeps
    BY <1>6, <2>2 DEF Maintains, Sweeps
  <2>4. Swept'
    BY <1>1, <1>6, <1>11, <2>3 DEF Swept, NoLoose, OneBundle, Stays, SameLoose, SameBundles, Kinds
  <2>5. AtSingle'
    BY <1>8, <2>4 DEF AtSingle
  <2> QED  BY <1>2, <1>7, <2>1, <2>5 DEF Core, AtPc
<1> QED  BY <1>3, <1>9, <1>10, <1>11 DEF AtFlushClear
-----------------------------------------------------------------------------
LEMMA KindAdvances ==
  ASSUME run \in Runs, NEW k \in Kinds, run' = [run EXCEPT !.kind = k]
  PROVE  run' \in Runs /\ SameTask /\ run'.kind = k /\ run'.left = run.left /\ run'.cur = run.cur
  BY DEF Runs, SameTask

\* One kind is folded: the other is next, or the compaction is over.
LEMMA KindFolded ==
  ASSUME TypeOK', Sound', run'.cmd = run.cmd, run'.stage = run.stage, Maintains' => Maintains,
         Compacting, Pending' = {}, run.kind \in Kinds,
         run'.kind = IF run.kind = "snapshot" THEN "pack" ELSE "snapshot",
         Maintains' => \A k \in Kinds : (k = run.kind \/ run.kind = "pack") => Folded(k)',
         pc' = IF run.kind = "snapshot" THEN "fold" ELSE AfterFold
  PROVE  Core'
<1>1. run'.stage \in {"recovery", "again"} /\ (Maintains' => run'.stage = "recovery")
  BY DEF Compacting
<1>2. CASE run.kind = "snapshot"
  <2>1. Maintains' => Folded("snapshot")'
    BY <1>2 DEF Kinds
  <2>2. AtFold'
    BY <1>1, <2>1 DEF AtFold, Compacting
  <2> QED  BY <1>2, <2>2 DEF Core, AtPc
<1>3. CASE run.kind = "pack" /\ run.cmd = "maintain" /\ run.stage = "recovery"
  <2>1. pc' = "plan"
    BY <1>3 DEF AfterFold
  <2>2. Maintains' => \A k \in Kinds : Folded(k)'
    BY <1>3
  <2>3. AtPlan'
    BY <1>3, <2>2 DEF AtPlan
  <2> QED  BY <2>1, <2>3 DEF Core, AtPc
<1>4. CASE run.kind = "pack" /\ ~(run.cmd = "maintain" /\ run.stage = "recovery")
  <2>1. pc' = "done"
    BY <1>4 DEF AfterFold
  <2>2. ~Maintains'
    BY <1>1, <1>4 DEF Maintains
  <2>3. AtFile'
    BY <2>2 DEF AtFile, Clean, Sweeps
  <2> QED  BY <2>1, <2>3 DEF Core, AtPc
<1> QED  BY <1>2, <1>3, <1>4 DEF Kinds

LEMMA FoldKeeps ==
  ASSUME Core, Fold
  PROVE  Core'
<1> DEFINE all == LooseOf(run.kind) \cup Members(run.kind)
<1>1. AtFold /\ run.kind \in Kinds /\ run \in Runs
  BY DEF Core, AtPc, Fold, Running, TypeOK, Runs
<1>2. CASE Throw /\ UNCHANGED store
  BY <1>2, Ends, DiskStays, SoundStill DEF Core, TypeOK, Fold, store
<1>3. CASE Pending = {} /\ all = {} /\ NextKind(run, AfterFold) /\ UNCHANGED store
  <2>1. SameLoose /\ SameBundles /\ SameJournals
    BY <1>3, DiskStays DEF Core, TypeOK, store
  <2>2. Sound'
    BY <2>1, SoundStill DEF Core, Fold
  <2>3. /\ run' \in Runs /\ SameTask
        /\ run'.kind = IF run.kind = "snapshot" THEN "pack" ELSE "snapshot"
        /\ pc' = IF run.kind = "snapshot" THEN "fold" ELSE AfterFold
    BY <1>1, <1>3, KindAdvances DEF NextKind, Kinds, Goto
  <2>4. TypeOK'
    BY <2>1, <2>3 DEF Core, TypeOK, SameJournals, SameTask
  <2>5. Pending' = {}
    BY <1>3, <2>1 DEF SameJournals
  <2>6. ASSUME NEW k \in Kinds, k = run.kind PROVE Folded(k)'
    <3>1. LooseOf(k) = {} /\ Members(k) = {}
      BY <1>3, <2>6
    <3>2. BundlesOf(k) = {}
      BY <3>1, MembersOfBundles, LooseArePhases DEF Groups
    <3> QED  BY <2>1, <3>1, <3>2 DEF Folded, OneBundle, SameLoose, SameBundles
  <2>7. Maintains => \A k \in Kinds : (k = run.kind \/ run.kind = "pack") => Folded(k)'
    BY <1>1, <2>1, <2>6 DEF AtFold, Compacting, Folded, OneBundle, SameLoose, SameBundles, Kinds
  <2>8. Maintains' = Maintains
    BY <2>1, <2>3, TaskStill
  <2> QED  BY <1>1, <2>2, <2>3, <2>4, <2>5, <2>7, <2>8, KindFolded DEF AtFold, SameTask
<1>4. ASSUME Pending = {}, all # {}, run' = run, pc' = "supersede",
             \/ Bundle(run.kind, all) \in disk /\ disk' = disk
             \/ disk' = disk \cup {Bundle(run.kind, all)}
      PROVE  Core'
  <2>1. all \in Groups
    BY <1>4, LooseArePhases DEF Groups
  <2>2. SameLoose /\ SameJournals /\ MoreBundle(run.kind, all)
    <3>1. CASE disk' = disk \cup {Bundle(run.kind, all)}
      BY <1>1, <2>1, <3>1, BundlePut DEF Core, TypeOK
    <3>2. CASE Bundle(run.kind, all) \in disk /\ disk' = disk
      <4>1. SameLoose /\ SameBundles /\ SameJournals
        BY <3>2, DiskStays DEF Core, TypeOK
      <4>2. all \in BundlesOf(run.kind)
        BY <2>1, <3>2 DEF BundlesOf
      <4>3. all \subseteq Members(run.kind)
        BY <4>2, MembersOfBundles
      <4>4. \A k \in Kinds : k = run.kind =>
               BundlesOf(k) \cup {all} = BundlesOf(k) /\ Members(k) \cup all = Members(k)
        BY <4>2, <4>3
      <4> HIDE DEF all
      <4> QED  BY <4>1, <4>4 DEF MoreBundle, SameBundles
    <3> QED  BY <1>4, <3>1, <3>2
  <2>3. \A k \in Kinds : \A p : Has(k, p)' = Has(k, p)
    BY <2>2 DEF Has, SameLoose, MoreBundle
  <2>4. Pending' = {} /\ finished' = finished
    BY <1>4, <2>2 DEF SameJournals, Fold
  <2>5. Sound'
    BY <1>4, <2>3, <2>4, SoundSame DEF Core
  <2>6. TypeOK'
    BY <1>4, <2>2 DEF Core, TypeOK, SameJournals
  <2>7. ASSUME NEW k \in Kinds, k = run.kind PROVE Covered(k)'
    <3>1. Members(k)' = all /\ LooseOf(k)' \subseteq all
      BY <2>2, <2>7 DEF MoreBundle, SameLoose
    <3>2. all \in BundlesOf(k)'
      BY <2>2, <2>7 DEF MoreBundle
    <3> QED  BY <3>1, <3>2 DEF Covered
  <2>8. Compacting'
    BY <1>1, <1>4, <2>2 DEF AtFold, Compacting, Maintains, Folded, OneBundle, MoreBundle, SameLoose, Kinds
  <2>9. AtSupersede'
    BY <1>4, <2>4, <2>7, <2>8 DEF AtSupersede
  <2> QED  BY <1>4, <2>5, <2>6, <2>9 DEF Core, AtPc
<1> QED
  <2>1. \/ Throw /\ UNCHANGED store
        \/ Pending = {} /\ all = {} /\ NextKind(run, AfterFold) /\ UNCHANGED store
        \/ /\ Pending = {} /\ all # {} /\ run' = run /\ Goto("supersede")
           /\ \/ Bundle(run.kind, all) \in disk /\ UNCHANGED store
              \/ Put(Bundle(run.kind, all))
    BY DEF Fold
  <2> QED  BY <1>2, <1>3, <1>4, <2>1 DEF Goto, Put, Change, store

LEMMA SupersedeKeeps ==
  ASSUME Core, Supersede
  PROVE  Core'
<1>1. AtSupersede /\ run.kind \in Kinds
  BY DEF Core, AtPc, Supersede, Running, TypeOK, Runs
<1>2. run' = run /\ finished' = finished /\ Pending = {}
  BY <1>1 DEF Supersede, AtSupersede
<1>3. ASSUME NEW S \in BundlesOf(run.kind) \ {Members(run.kind)}, Remove(Bundle(run.kind, S)),
             Goto("supersede")
      PROVE  Core'
  <2>1. SameLoose /\ LessBundle(run.kind, S) /\ SameJournals
    BY <1>1, <1>3, BundleRemoved, LooseArePhases DEF Core, TypeOK, Remove, Change
  <2>2. \A k \in Kinds : Members(k)' = Members(k)
    <3> SUFFICES ASSUME NEW k \in Kinds, k = run.kind PROVE Members(k)' = Members(k)
      BY <2>1 DEF LessBundle
    <3>1. Members(k) \in BundlesOf(k)'
      BY <1>1, <1>3, <2>1 DEF AtSupersede, Covered, LessBundle
    <3>2. BundlesOf(k)' \subseteq BundlesOf(k)
      BY <2>1 DEF LessBundle
    <3>3. \A p : p \in Members(k) => p \in Members(k)'
      BY <3>1, MembersOfBundlesAfter
    <3>4. \A p : p \in Members(k)' => p \in Members(k)
      BY <3>2, MembersOfBundles, MembersOfBundlesAfter
    <3> QED  BY <3>3, <3>4
  <2>3. \A k \in Kinds : \A p : Has(k, p)' = Has(k, p)
    BY <2>1, <2>2 DEF Has, SameLoose
  <2>4. Pending' = {}
    BY <1>2, <2>1 DEF SameJournals
  <2>5. Sound'
    BY <1>2, <2>3, <2>4, SoundSame DEF Core
  <2>6. TypeOK'
    BY <1>2, <2>1 DEF Core, TypeOK, SameJournals
  <2>7. \A k \in Kinds : k = run.kind => Covered(k)'
    BY <1>1, <1>3, <2>1, <2>2 DEF AtSupersede, Covered, LessBundle, SameLoose
  <2>8. Compacting'
    BY <1>1, <1>2, <2>1, <2>2 DEF AtSupersede, Compacting, Maintains, Folded, OneBundle, LessBundle, SameLoose, Kinds
  <2>9. AtSupersede'
    BY <1>2, <2>4, <2>7, <2>8 DEF AtSupersede
  <2> QED  BY <1>3, <2>5, <2>6, <2>9 DEF Core, AtPc, Goto
<1>4. ASSUME BundlesOf(run.kind) \ {Members(run.kind)} = {}, UNCHANGED disk, Goto("uncover")
      PROVE  Core'
  <2>1. SameLoose /\ SameBundles /\ SameJournals
    BY <1>4, DiskStays DEF Core, TypeOK
  <2>2. Sound' /\ TypeOK'
    BY <1>2, <2>1, SoundStill DEF Core, TypeOK, SameJournals
  <2>3. \A k \in Kinds : k = run.kind => Covered(k)' /\ OneBundle(k)'
    BY <1>1, <1>4, <2>1 DEF AtSupersede, Covered, OneBundle, SameLoose, SameBundles
  <2>4. AtUncover'
    BY <1>1, <1>2, <2>1, <2>3 DEF AtUncover, AtSupersede, Compacting, Maintains, Folded, OneBundle,
                                  SameLoose, SameBundles, SameJournals, Kinds
  <2> QED  BY <1>4, <2>2, <2>4 DEF Core, AtPc, Goto
<1> QED  BY <1>3, <1>4 DEF Supersede

\* A run that skips a file it could not unlink promises nothing of the archive.
Skips(stage) ==
    /\ run' \in Runs /\ run'.skipped /\ run'.stage = stage
    /\ run'.cmd = run.cmd /\ run'.plan = run.plan

LEMMA SkippingRuns ==
  ASSUME run \in Runs
  PROVE  /\ \A k \in Kinds :
              run' = [Skipping EXCEPT !.kind = k] => (Skips(run.stage) /\ run'.kind = k)
         /\ (run' = [Skipping EXCEPT !.stage = "again"]) => Skips("again")
         /\ (run' = Skipping) => Skips(run.stage)
<1> DEFINE yes == TRUE
<1>1. yes \in BOOLEAN /\ yes
  OBVIOUS
<1>2. Skipping = [run EXCEPT !.skipped = yes]
  BY DEF Skipping
<1> HIDE DEF yes
<1>3. /\ Skipping \in Runs /\ Skipping.skipped = yes /\ Skipping.stage = run.stage
      /\ Skipping.cmd = run.cmd /\ Skipping.plan = run.plan
  BY <1>1, <1>2 DEF Runs
<1> HIDE DEF Skipping
<1>4. ASSUME NEW k \in Kinds, run' = [Skipping EXCEPT !.kind = k]
      PROVE  Skips(run.stage) /\ run'.kind = k
  <2>1. run' \in Runs /\ run'.kind = k /\ run'.skipped = Skipping.skipped
        /\ run'.stage = Skipping.stage /\ run'.cmd = Skipping.cmd /\ run'.plan = Skipping.plan
    BY <1>3, <1>4 DEF Runs
  <2> QED  BY <1>1, <1>3, <2>1 DEF Skips
<1>5. ASSUME run' = [Skipping EXCEPT !.stage = "again"]
      PROVE  Skips("again")
  <2>1. run' \in Runs /\ run'.skipped = Skipping.skipped
        /\ run'.stage = "again" /\ run'.cmd = Skipping.cmd /\ run'.plan = Skipping.plan
    BY <1>3, <1>5 DEF Runs
  <2> QED  BY <1>1, <1>3, <2>1 DEF Skips
<1>6. run' = Skipping => Skips(run.stage)
  BY <1>1, <1>3 DEF Skips
<1> QED  BY <1>4, <1>5, <1>6

LEMMA UncoverKeeps ==
  ASSUME Core, Uncover
  PROVE  Core'
<1>1. AtUncover /\ run.kind \in Kinds /\ run \in Runs
  BY DEF Core, AtPc, Uncover, Running, TypeOK, Runs
<1>2. finished' = finished /\ Pending = {}
  BY <1>1 DEF Uncover, UnlinkFails, AtUncover
<1>3. ASSUME NEW p \in LooseOf(run.kind) \cap Members(run.kind), Remove(Loose(run.kind, p)),
             Goto("uncover"), UNCHANGED run
      PROVE  Core'
  <2>1. LessLoose(run.kind, p) /\ SameBundles /\ SameJournals
    BY <1>1, <1>3, LooseRemoved DEF Core, TypeOK, Remove, Change
  <2>2. \A k \in Kinds : \A q : Has(k, q)' = Has(k, q)
    BY <1>3, <2>1 DEF Has, LessLoose, SameBundles
  <2>3. Pending' = {}
    BY <1>2, <2>1 DEF SameJournals
  <2>4. Sound'
    BY <1>2, <2>2, <2>3, SoundSame DEF Core
  <2>5. TypeOK'
    BY <1>3, <2>1 DEF Core, TypeOK, SameJournals
  <2>6. \A k \in Kinds : k = run.kind => Covered(k)' /\ OneBundle(k)'
    BY <1>1, <2>1 DEF AtUncover, Covered, OneBundle, LessLoose, SameBundles
  <2>7. Compacting'
    BY <1>1, <1>3, <2>1 DEF AtUncover, Compacting, Maintains, Folded, OneBundle, LessLoose, SameBundles, Kinds
  <2>8. AtUncover'
    BY <1>3, <2>3, <2>6, <2>7 DEF AtUncover
  <2> QED  BY <1>3, <2>4, <2>5, <2>8 DEF Core, AtPc, Goto
<1>4. ASSUME LooseOf(run.kind) \cap Members(run.kind) = {}, UNCHANGED <<disk, finished>>, NextKind(run, AfterFold)
      PROVE  Core'
  <2>1. SameLoose /\ SameBundles /\ SameJournals
    BY <1>4, DiskStays DEF Core, TypeOK
  <2>2. Sound'
    BY <1>2, <2>1, SoundStill DEF Core
  <2>3. /\ run' \in Runs /\ SameTask
        /\ run'.kind = IF run.kind = "snapshot" THEN "pack" ELSE "snapshot"
        /\ pc' = IF run.kind = "snapshot" THEN "fold" ELSE AfterFold
    BY <1>1, <1>4, KindAdvances DEF NextKind, Kinds, Goto
  <2>4. TypeOK'
    BY <2>1, <2>3 DEF Core, TypeOK, SameJournals, SameTask
  <2>5. Pending' = {}
    BY <1>2, <2>1 DEF SameJournals
  <2>6. \A k \in Kinds : k = run.kind => Folded(k)'
    BY <1>1, <1>4, <2>1 DEF AtUncover, Covered, Folded, OneBundle, SameLoose, SameBundles
  <2>7. Maintains => \A k \in Kinds : (k = run.kind \/ run.kind = "pack") => Folded(k)'
    BY <1>1, <2>1, <2>6 DEF AtUncover, Compacting, Folded, OneBundle, SameLoose, SameBundles, Kinds
  <2>8. Maintains' = Maintains
    BY <2>1, <2>3, TaskStill
  <2> QED  BY <1>1, <2>2, <2>3, <2>4, <2>5, <2>7, <2>8, KindFolded DEF AtUncover, SameTask
<1>5. ASSUME UnlinkFails, NextKind(Skipping, AfterFold)
      PROVE  Core'
  <2>1. SameJournals /\ Sound'
    BY <1>2, <1>5, DiskStays, SoundStill DEF Core, TypeOK, UnlinkFails, store
  <2>2. Skips(run.stage)
    BY <1>1, <1>5, SkippingRuns DEF NextKind, Kinds
  <2>3. /\ run'.kind = IF run.kind = "snapshot" THEN "pack" ELSE "snapshot"
        /\ pc' = IF run.kind = "snapshot" THEN "fold" ELSE AfterFold
    BY <1>1, <1>5, SkippingRuns DEF NextKind, Kinds, Goto
  <2>4. TypeOK' /\ Pending' = {}
    BY <1>2, <2>1, <2>2 DEF Core, TypeOK, SameJournals, Skips
  <2>5. ~Maintains'
    BY <2>2 DEF Maintains, Skips
  <2> QED  BY <1>1, <2>1, <2>2, <2>3, <2>4, <2>5, KindFolded DEF AtUncover, Skips
<1> QED  BY <1>3, <1>4, <1>5 DEF Uncover, UnlinkFails
-----------------------------------------------------------------------------
LEMMA PlanKeeps ==
  ASSUME Core, Plan
  PROVE  Core'
<1>1. SameLoose /\ SameBundles /\ SameJournals
  BY DiskStays DEF Core, TypeOK, Plan, store
<1>2. Sound'
  BY <1>1, SoundStill DEF Core, Plan
<1>3. AtPlan /\ run \in Runs
  BY DEF Core, AtPc, Plan, Running, TypeOK
<1> DEFINE drop == Old \ run.recovered
           packless == {p \in drop : p \notin LooseOf("pack") \cup Members("pack")}
           plan == [loose |-> {p \in drop : \A k \in Kinds : OnlyFile(k, p)},
                    bundle |-> {p \in drop : \A k \in Kinds : p \in Members(k)},
                    single |-> packless \cap Members("snapshot"),
                    file |-> {p \in packless : OnlyFile("snapshot", p)}]
<1>4. run' = [run EXCEPT !.plan = plan] /\ pc' = "loose pairs"
  BY DEF Plan, Goto
<1>5. \A p \in Phases : Whole(p)
  BY <1>3 DEF AtPlan, Core, Sound
<1>6. plan \in Plans
  BY OldArePhases DEF Plans
<1>7. Authorised(plan)
  <2>1. \A p \in packless : Has("snapshot", p) => p \notin Paired
    BY <1>5, OldArePhases DEF Whole, Has
  <2>2. \A p \in plan.single \cup plan.file : Has("snapshot", p)
    BY DEF Has, OnlyFile
  <2> QED  BY <2>1, <2>2 DEF Authorised
<1>8. /\ run.plan \in Plans
      /\ \A k \in Kinds : plan.loose \subseteq LooseOf(k) \ Members(k)
      /\ \A k \in Kinds : plan.bundle \subseteq Members(k)
  BY <1>3 DEF Runs, OnlyFile
<1>9. Maintains => NoLoose /\ plan.loose = {}
  BY <1>3, <1>8 DEF AtPlan, Folded, NoLoose, Kinds
<1>10. Sweeps => /\ \A k \in Kinds : OneBundle(k)
                 /\ Stays("pack", plan.bundle)
                 /\ Stays("snapshot", plan.bundle \cup plan.single)
  <2> SUFFICES ASSUME Sweeps
               PROVE  /\ \A k \in Kinds : OneBundle(k)
                      /\ Stays("pack", plan.bundle)
                      /\ Stays("snapshot", plan.bundle \cup plan.single)
    OBVIOUS
  <2>1. Maintains /\ drop = Old /\ \A k \in Kinds : Folded(k)
    BY <1>3 DEF Sweeps, Maintains, AtPlan
  <2>2. \A k \in Kinds : \A p : Has(k, p) <=> p \in Members(k)
    BY <2>1 DEF Folded, Has
  <2>3. \A p \in Old : p \in Members("pack") => p \in Members("snapshot")
    BY <1>5, <2>2, OldArePhases DEF Whole, Kinds
  <2>4. Stays("pack", plan.bundle)
    BY <2>1, <2>3 DEF Stays, Kinds
  <2>5. \A k \in Kinds : LooseOf(k) = {}
    BY <2>1 DEF Folded
  <2>6. Stays("snapshot", plan.bundle \cup plan.single)
    BY <2>1, <2>5 DEF Stays, Kinds
  <2> QED  BY <2>1, <2>4, <2>6 DEF Folded
<1> HIDE DEF plan
<1>11. run' \in Runs /\ run'.plan = plan /\ run'.cmd = run.cmd /\ run'.stage = run.stage
       /\ run'.recovered = run.recovered /\ run'.skipped = run.skipped
  BY <1>3, <1>4, <1>6 DEF Runs
<1>12. TypeOK'
  BY <1>1, <1>7, <1>11 DEF Core, TypeOK, SameJournals
<1>13. Maintains' = Maintains /\ Sweeps' = Sweeps /\ Pending' = {}
  BY <1>1, <1>3, <1>11 DEF Maintains, Sweeps, AtPlan, SameJournals
<1>14. PlanStands'
  BY <1>1, <1>8, <1>11 DEF PlanStands, SameBundles
<1>15. Trimmed'
  BY <1>1, <1>9, <1>10, <1>11, <1>13 DEF Trimmed, NoLoose, OneBundle, Stays, SameLoose, SameBundles, Kinds
<1>16. (\A k \in Kinds : run.plan.loose \subseteq LooseOf(k) \ Members(k))'
  BY <1>1, <1>8, <1>11 DEF SameLoose, SameBundles
<1>17. AtLoosePairs'
  BY <1>9, <1>11, <1>13, <1>14, <1>15, <1>16 DEF AtLoosePairs
<1> QED  BY <1>2, <1>4, <1>12, <1>17 DEF Core, AtPc

\* What a phase with a pack has in files or in bundles is its pair.
LEMMA PackMeansPair ==
  ASSUME Sound, Pending = {}, NEW p \in Old, Has("pack", p)
  PROVE  p \in Paired
  BY OldArePhases DEF Sound, Whole

LEMMA LoosePairsKeeps ==
  ASSUME Core, LoosePairs
  PROVE  Core'
<1>1. SameLoose /\ SameBundles /\ SameJournals
  BY DiskStays DEF Core, TypeOK, LoosePairs, store
<1>2. Sound'
  BY <1>1, SoundStill DEF Core, LoosePairs
<1>3. AtLoosePairs /\ run \in Runs
  BY DEF Core, AtPc, LoosePairs, Running, TypeOK
<1>4. CASE Throw
  BY <1>1, <1>2, <1>4, Ends DEF Core
<1>5. CASE run.plan.loose = {} /\ Goto("bundle pairs") /\ UNCHANGED run
  <2>1. TypeOK'
    BY <1>1, <1>5 DEF Core, TypeOK, SameJournals
  <2>2. SameTask
    BY <1>5 DEF SameTask
  <2>3. AtBundlePairs'
    BY <1>1, <1>3, <2>2, TaskStill DEF AtLoosePairs, AtBundlePairs, SameJournals
  <2> QED  BY <1>2, <1>5, <2>1, <2>3 DEF Core, AtPc, Goto
<1>6. ASSUME run.plan.loose # {}, Goto("preflight"),
             run' = [run EXCEPT !.work = LooseIntent(run.plan.loose),
                                !.left = run.plan.loose, !.stage = "loose"]
      PROVE  Core'
  <2> DEFINE ids == run.plan.loose
             w == LooseIntent(ids)
  <2>1. ids \in SUBSET Phases /\ ids \subseteq Old /\ run.plan \in Plans
    BY <1>3 DEF Core, TypeOK, Runs, Plans, Authorised
  <2>2. w \in Works /\ w.pair = "loose" /\ w.ids = ids
    BY <2>1 DEF LooseIntent, Works
  <2>3. \A k \in Kinds : ids \subseteq LooseOf(k) \ Members(k)
    BY <1>3 DEF AtLoosePairs
  <2>4. ids \subseteq Paired
    BY <1>3, <2>1, <2>3, PackMeansPair DEF AtLoosePairs, Has, Kinds, Core
  <2>5. LooseReady(w)
    BY <1>6, <2>1, <2>2, <2>3, <2>4 DEF LooseReady
  <2> HIDE DEF w, ids
  <2>6. run' = [run EXCEPT !.work = w, !.left = ids, !.stage = "loose"]
    BY <1>6 DEF w, ids
  <2>7. /\ run' \in Runs /\ run'.work = w /\ run'.left = ids /\ run'.stage = "loose"
        /\ run'.cmd = run.cmd /\ run'.plan = run.plan /\ run'.skipped = run.skipped
    BY <1>3, <2>1, <2>2, <2>6 DEF Runs
  <2>8. TypeOK'
    BY <1>1, <2>7 DEF Core, TypeOK, SameJournals
  <2>9. ~Maintains /\ PlanStands
    BY <1>3, <1>6 DEF AtLoosePairs
  <2>10. LooseStage'
    BY <1>1, <2>7, <2>9 DEF LooseStage, Maintains, PlanStands, SameBundles
  <2>11. Pending' = {}
    BY <1>1, <1>3 DEF AtLoosePairs, SameJournals
  <2>12. LooseReady(run.work)'
    BY <1>1, <2>5, <2>7 DEF LooseReady, SameBundles
  <2>13. AtCommit'
    BY <2>2, <2>7, <2>10, <2>11, <2>12 DEF AtCommit
  <2> QED  BY <1>2, <1>6, <2>8, <2>13 DEF Core, AtPc, Goto
<1> QED  BY <1>4, <1>5, <1>6 DEF LoosePairs

LEMMA WorkIsTyped ==
  ASSUME NEW pair \in {"none", "loose", "bundle", "single"}, NEW ids \in SUBSET Phases,
         NEW old \in [Kinds -> SUBSET Groups], NEW survivor \in [Kinds -> SUBSET Phases]
  PROVE  [pair |-> pair, ids |-> ids, old |-> old, survivor |-> survivor] \in Works
  BY DEF Works

\* The plan's pairs and the bundles that hold them are an open bundle pair.
LEMMA BundleIntentOpens ==
  ASSUME Core, AtBundlePairs, NEW ids, ids = {p \in run.plan.bundle : SameLooseness(p)}, ids # {},
         NEW w, w = BundleIntent(ids)
  PROVE  /\ w \in Works /\ w.pair = "bundle" /\ w.ids = ids /\ BundleOpen(w)
         /\ \A k \in Kinds : w.survivor[k] \subseteq Members(k)
         /\ Sweeps => ids = run.plan.bundle
         /\ Sweeps => \A k \in Kinds : BundlesOf(k) \subseteq w.old[k]
<1>1. run.plan.bundle \subseteq Phases /\ run.plan.bundle \subseteq Old
  BY DEF Core, TypeOK, Runs, Plans, Authorised
<1>2. /\ w.pair = "bundle" /\ w.ids = ids
      /\ w.old = [k \in Kinds |-> Holding(k, ids)]
      /\ w.survivor = [k \in Kinds |-> Members(k) \ ids]
  BY DEF BundleIntent
<1>3. /\ \A k \in Kinds : w.old[k] = {S \in BundlesOf(k) : S \cap ids # {}}
      /\ \A k \in Kinds : w.survivor[k] = Members(k) \ ids
  BY <1>2 DEF Holding
<1>4. \A k \in Kinds : Holding(k, ids) \subseteq Groups /\ Members(k) \ ids \subseteq Phases
  BY LooseArePhases DEF Holding
<1>5. w \in Works
  <2>1. ASSUME NEW h, h = [k \in Kinds |-> Holding(k, ids)]
        PROVE  h \in [Kinds -> SUBSET Groups]
    BY <1>4, <2>1
  <2>2. ASSUME NEW h, h = [k \in Kinds |-> Members(k) \ ids]
        PROVE  h \in [Kinds -> SUBSET Phases]
    BY <1>4, <2>2
  <2>3. PICK o, v : o = [k \in Kinds |-> Holding(k, ids)] /\ v = [k \in Kinds |-> Members(k) \ ids]
    OBVIOUS
  <2>4. w = [pair |-> "bundle", ids |-> ids, old |-> o, survivor |-> v]
    BY <2>3 DEF BundleIntent
  <2>5. o \in [Kinds -> SUBSET Groups] /\ v \in [Kinds -> SUBSET Phases] /\ ids \in SUBSET Phases
    BY <1>1, <2>1, <2>2, <2>3
  <2> QED  BY <2>4, <2>5, WorkIsTyped
<1>6. \A k \in Kinds : ids \subseteq Members(k)
  BY DEF AtBundlePairs, PlanStands
<1>7. ids \subseteq Old \cap Paired
  BY <1>1, <1>6, PackMeansPair DEF AtBundlePairs, Has, Kinds, Core
<1>8. ASSUME NEW k \in Kinds
      PROVE  /\ w.old[k] # {} /\ ids \cap w.survivor[k] = {}
             /\ \A T \in w.old[k] : T \subseteq ids \cup w.survivor[k] /\ T \cap ids # {}
             /\ \A T \in BundlesOf(k) : T \cap ids # {} => T \in w.old[k]
  <2>1. w.old[k] # {}
    <3>1. PICK p : p \in ids
      OBVIOUS
    <3>2. PICK T \in BundlesOf(k) : p \in T
      BY <1>6, <3>1, MembersOfBundles
    <3> QED  BY <1>3, <3>1, <3>2
  <2>2. \A T \in BundlesOf(k) : T \subseteq Members(k)
    BY MembersOfBundles
  <2> QED  BY <1>3, <2>1, <2>2
<1>9. BundleOpen(w)
  BY <1>2, <1>7, <1>8 DEF BundleOpen
<1>10. ASSUME Sweeps
       PROVE  ids = run.plan.bundle /\ \A k \in Kinds : BundlesOf(k) \subseteq w.old[k]
  <2>1. NoLoose /\ \A k \in Kinds : OneBundle(k)
    BY <1>10 DEF AtBundlePairs, Trimmed, Sweeps, Maintains
  <2>2. ids = run.plan.bundle
    BY <2>1 DEF SameLooseness, NoLoose, Kinds
  <2>3. ASSUME NEW k \in Kinds, NEW T \in BundlesOf(k) PROVE T \in w.old[k]
    <3>1. T = Members(k)
      BY <2>1, <2>3 DEF OneBundle
    <3> QED  BY <1>3, <1>6, <2>3, <3>1
  <2> QED  BY <2>2, <2>3
<1> QED  BY <1>2, <1>3, <1>5, <1>9, <1>10

LEMMA BundlePairsKeeps ==
  ASSUME Core, BundlePairs
  PROVE  Core'
<1> DEFINE ids == {p \in run.plan.bundle : SameLooseness(p)}
<1>1. SameLoose /\ SameBundles /\ SameJournals
  BY DiskStays DEF Core, TypeOK, BundlePairs, store, Flush
<1>2. Sound'
  BY <1>1, SoundStill DEF Core, BundlePairs
<1>3. AtBundlePairs /\ run \in Runs
  BY DEF Core, AtPc, BundlePairs, Running, TypeOK
<1>4. CASE Throw
  BY <1>1, <1>2, <1>4, Ends DEF Core
<1>5. ASSUME ids = {}, Goto("single"), UNCHANGED run
      PROVE  Core'
  <2>1. TypeOK'
    BY <1>1, <1>5 DEF Core, TypeOK, SameJournals
  <2>2. SameTask
    BY <1>5 DEF SameTask
  <2>3. Sweeps => run.plan.bundle = {}
    BY <1>3, <1>5 DEF AtBundlePairs, Trimmed, Sweeps, Maintains, NoLoose, SameLooseness, Kinds
  <2>4. Swept
    BY <1>3, <2>3 DEF AtBundlePairs, Trimmed, Swept
  <2>5. AtSingle'
    BY <1>1, <1>3, <2>2, <2>4, TaskStill DEF AtBundlePairs, AtSingle, SameJournals
  <2> QED  BY <1>2, <1>5, <2>1, <2>5 DEF Core, AtPc, Goto
<1>6. ASSUME ids # {}, Goto("survivor"),
             run' = [run EXCEPT !.work = BundleIntent(ids), !.left = ids, !.stage = "bundle"]
      PROVE  Core'
  <2> DEFINE w == BundleIntent(ids)
  <2>1. /\ w \in Works /\ w.pair = "bundle" /\ w.ids = ids /\ BundleOpen(w)
        /\ \A k \in Kinds : w.survivor[k] \subseteq Members(k)
        /\ Sweeps => ids = run.plan.bundle
        /\ Sweeps => \A k \in Kinds : BundlesOf(k) \subseteq w.old[k]
    BY <1>3, <1>6, BundleIntentOpens
  <2>2. ids \in SUBSET Phases
    BY <1>3 DEF Runs, Plans
  <2>3. run' = [run EXCEPT !.work = w, !.left = ids, !.stage = "bundle"]
    BY <1>6
  <2> HIDE DEF w, ids
  <2>4. /\ run' \in Runs /\ run'.work = w /\ run'.left = ids /\ run'.stage = "bundle"
        /\ run'.cmd = run.cmd /\ run'.plan = run.plan /\ run'.recovered = run.recovered
        /\ run'.skipped = run.skipped
    BY <1>3, <2>1, <2>2, <2>3 DEF Runs
  <2>5. TypeOK'
    BY <1>1, <2>4 DEF Core, TypeOK, SameJournals
  <2>6. Maintains' = Maintains /\ Sweeps' = Sweeps /\ Pending' = {}
    BY <1>1, <1>3, <2>4 DEF Maintains, Sweeps, AtBundlePairs, SameJournals
  <2>7. BundleOpen(run.work)'
    BY <1>1, <2>1, <2>4 DEF BundleOpen, SameLooseness, SameLoose, SameBundles, Kinds
  <2>8. Narrowed'
    BY <1>1, <1>3, <2>1, <2>4, <2>6 DEF AtBundlePairs, Trimmed, Narrowed, NoLoose, Stays,
                                       SameLoose, SameBundles, Kinds
  <2>9. BundleDraft'
    BY <2>1, <2>4, <2>7, <2>8 DEF BundleDraft
  <2>10. (\A k \in Kinds : run.work.survivor[k] \subseteq Members(k))'
    BY <1>1, <2>1, <2>4 DEF SameBundles
  <2>11. AtSurvivor'
    BY <2>6, <2>9, <2>10 DEF AtSurvivor
  <2> QED  BY <1>2, <1>6, <2>5, <2>11 DEF Core, AtPc, Goto
<1>7. run.plan.bundle = {} => ids = {}
  OBVIOUS
<1> QED  BY <1>4, <1>5, <1>6, <1>7 DEF BundlePairs

-----------------------------------------------------------------------------
LEMMA SurvivorAdvances ==
  ASSUME Core, AtSurvivor, SameLoose, SameBundles, SameJournals, finished' = finished,
         NextSurvivor
  PROVE  Core'
<1>1. Sound'
  BY SoundStill DEF Core
<1>2. run \in Runs
  BY DEF Core, TypeOK
<1>3. Pending' = {}
  BY DEF AtSurvivor, SameJournals
<1>4. CASE run.kind = "snapshot" /\ run.work.pair = "bundle"
  <2>1. run' = [run EXCEPT !.kind = "pack"] /\ pc' = "survivor"
    BY <1>4 DEF NextSurvivor, Goto
  <2>2. run' \in Runs /\ SameTask /\ run'.left = run.left
    BY <1>2, <2>1, KindAdvances DEF Kinds
  <2>3. TypeOK'
    BY <2>2 DEF Core, TypeOK, SameJournals, SameTask
  <2>4. (\A k \in Kinds : run.work.survivor[k] \subseteq Members(k))'
    BY <2>2 DEF AtSurvivor, SameTask, SameBundles
  <2>5. BundleDraft => BundleDraft'
    BY <2>2, TaskStill, WorkStill DEF BundleDraft, SameTask
  <2>6. AtSurvivor'
    BY <1>3, <2>2, <2>4, <2>5, WorkStill DEF AtSurvivor
  <2> QED  BY <1>1, <2>1, <2>3, <2>6 DEF Core, AtPc
<1>5. CASE ~(run.kind = "snapshot" /\ run.work.pair = "bundle")
  <2>1. /\ run' = [run EXCEPT !.kind = "snapshot"]
        /\ pc' = IF run.work.pair = "bundle" THEN "verify" ELSE "retire single"
    BY <1>5 DEF NextSurvivor, Goto
  <2>2. run' \in Runs /\ SameTask /\ run'.left = run.left
    BY <1>2, <2>1, KindAdvances DEF Kinds
  <2>3. TypeOK'
    BY <2>2 DEF Core, TypeOK, SameJournals, SameTask
  <2>4. CASE BundleDraft
    <3>1. pc' = "verify"
      BY <2>1, <2>4 DEF BundleDraft, BundleOpen
    <3>2. AtVerify'
      BY <1>3, <2>2, <2>4, TaskStill, WorkStill DEF BundleDraft, SameTask, AtVerify
    <3> QED  BY <1>1, <2>3, <3>1, <3>2 DEF Core, AtPc
  <2>5. CASE SingleDraft
    <3>1. pc' = "retire single"
      BY <2>1, <2>5 DEF SingleDraft, SingleOpen
    <3>2. AtRetireSingle'
      BY <1>3, <2>2, <2>5, WorkStill DEF AtRetireSingle
    <3> QED  BY <1>1, <2>3, <3>1, <3>2 DEF Core, AtPc
  <2> QED  BY <2>4, <2>5 DEF AtSurvivor
<1> QED  BY <1>4, <1>5

LEMMA WriteSurvivorKeeps ==
  ASSUME Core, WriteSurvivor
  PROVE  Core'
<1>1. AtSurvivor /\ run \in Runs /\ run.kind \in Kinds /\ run.work \in Works
  BY DEF Core, AtPc, WriteSurvivor, Running, TypeOK, Runs
<1>2. finished' = finished
  BY DEF WriteSurvivor
<1>3. CASE NextSurvivor /\ UNCHANGED store
  BY <1>1, <1>2, <1>3, SurvivorAdvances, DiskStays DEF store, Core, TypeOK
<1>4. ASSUME NEW S, S = run.work.survivor[run.kind], S # {}, Put(Bundle(run.kind, S)),
             Goto("flush survivor"), UNCHANGED run
      PROVE  Core'
  <2>1. S \in Groups
    BY <1>1, <1>4 DEF Works, Groups
  <2>2. SameLoose /\ MoreBundle(run.kind, S) /\ SameJournals
    BY <1>1, <1>4, <2>1, BundlePut DEF Core, TypeOK, Put, Change
  <2>3. \A k \in Kinds : k = run.kind => S \subseteq Members(k)
    BY <1>1, <1>4 DEF AtSurvivor
  <2>4. \A k \in Kinds : Members(k)' = Members(k)
    BY <2>2, <2>3 DEF MoreBundle
  <2>5. \A k \in Kinds : \A p : Has(k, p)' = Has(k, p)
    BY <2>2, <2>4 DEF Has, SameLoose
  <2>6. Pending = {} /\ Pending' = {}
    BY <1>1, <2>2 DEF AtSurvivor, SameJournals
  <2>7. Sound'
    BY <1>2, <2>5, <2>6, SoundSame DEF Core
  <2>8. TypeOK'
    BY <1>4, <2>2 DEF Core, TypeOK, SameJournals
  <2>9. \A k \in Kinds : BundlesOf(k)' \subseteq BundlesOf(k) \cup {run.work.survivor[k]}
    BY <1>4, <2>2 DEF MoreBundle
  <2>10. Maintains' = Maintains /\ Sweeps' = Sweeps
    BY <1>4 DEF Maintains, Sweeps
  <2>11. ASSUME BundleDraft PROVE BundleDraft'
    <3>1. \A k \in Kinds : \A T \in BundlesOf(k)' :
            T \cap run.work.ids # {} => T \in run.work.old[k]
      BY <2>9, <2>11 DEF BundleDraft, BundleOpen
    <3>2. BundleOpen(run.work)'
      BY <1>4, <2>2, <2>11, <3>1 DEF BundleDraft, BundleOpen, SameLooseness, SameLoose, Kinds
    <3>3. Narrowed'
      BY <1>4, <2>2, <2>4, <2>9, <2>10, <2>11 DEF BundleDraft, Narrowed, NoLoose, Stays, SameLoose, Kinds
    <3> QED  BY <1>4, <2>11, <3>2, <3>3 DEF BundleDraft
  <2>12. ASSUME SingleDraft PROVE SingleDraft'
    <3>1. run.kind = "snapshot"
      BY <1>1, <1>4, <2>12 DEF SingleDraft, SingleOpen, Kinds
    <3>2. BundlesOf("pack")' = BundlesOf("pack")
      BY <2>2, <3>1 DEF MoreBundle, Kinds
    <3>3. SingleNarrowed'
      BY <1>4, <2>2, <2>4, <2>9, <2>10, <2>12, <3>2 DEF SingleDraft, SingleNarrowed, NoLoose, Stays,
                                                       OneBundle, SameLoose, Kinds
    <3>4. SingleOpen(run.work)'
      BY <1>4, <2>12 DEF SingleDraft, SingleOpen
    <3> QED  BY <3>3, <3>4 DEF SingleDraft
  <2>13. (\A k \in Kinds : run.work.survivor[k] \subseteq Members(k))'
    BY <1>1, <1>4, <2>4 DEF AtSurvivor
  <2>14. AtSurvivor'
    BY <1>1, <2>6, <2>11, <2>12, <2>13 DEF AtSurvivor
  <2> QED  BY <1>4, <2>7, <2>8, <2>14 DEF Core, AtPc, Goto
<1> QED  BY <1>3, <1>4 DEF WriteSurvivor

LEMMA FlushSurvivorKeeps ==
  ASSUME Core, FlushSurvivor
  PROVE  Core'
<1>1. SameLoose /\ SameBundles /\ SameJournals
  BY DiskStays DEF Core, TypeOK, FlushSurvivor, Flush
<1>2. AtSurvivor
  BY DEF Core, AtPc, FlushSurvivor, Running
<1> QED  BY <1>1, <1>2, SurvivorAdvances DEF FlushSurvivor

LEMMA VerifyKeeps ==
  ASSUME Core, Verify
  PROVE  Core'
<1>1. SameLoose /\ SameBundles /\ SameJournals
  BY DiskStays DEF Core, TypeOK, Verify, store
<1>2. Sound'
  BY <1>1, SoundStill DEF Core, Verify
<1>3. AtVerify
  BY DEF Core, AtPc, Verify, Running
<1>4. CASE Throw
  BY <1>1, <1>2, <1>4, Ends DEF Core
<1>5. CASE (\A k \in Kinds : SurvivorThere(k)) /\ Goto("preflight") /\ UNCHANGED run
  <2>1. There(run.work)
    BY <1>5 DEF There, SurvivorThere
  <2>2. TypeOK' /\ SameTask
    BY <1>1, <1>5 DEF Core, TypeOK, SameJournals, SameTask
  <2>3. AtCommit'
    BY <1>1, <1>3, <1>5, <2>1, <2>2, TaskStill, WorkStill DEF AtVerify, BundleDraft, AtCommit, SameJournals
  <2> QED  BY <1>2, <1>5, <2>2, <2>3 DEF Core, AtPc, Goto
<1> QED  BY <1>4, <1>5 DEF Verify

-----------------------------------------------------------------------------
LEMMA PreflightKeeps ==
  ASSUME Core, Preflight
  PROVE  Core'
<1>1. SameLoose /\ SameBundles /\ SameJournals
  BY DiskStays DEF Core, TypeOK, Preflight, Flush
<1>2. run' = run /\ finished' = finished /\ pc' = "commit" /\ SameTask
  BY DEF Preflight, Goto, SameTask
<1>3. Sound' /\ TypeOK'
  BY <1>1, <1>2, SoundStill DEF Core, TypeOK, SameJournals
<1>4. AtCommit
  BY DEF Core, AtPc, Preflight, Running
<1>5. AtCommit'
  BY <1>1, <1>2, <1>4, TaskStill, WorkStill DEF AtCommit, BundleDraft, SameJournals
<1> QED  BY <1>2, <1>3, <1>5 DEF Core, AtPc

LEMMA CommitKeeps ==
  ASSUME Core, Commit
  PROVE  Core'
<1>1. AtCommit /\ run \in Runs /\ run.work \in Works
  BY DEF Core, AtPc, Commit, Running, TypeOK, Runs
<1>2. CASE Throw /\ UNCHANGED disk
  BY <1>2, Ends, DiskStays, SoundStill DEF Core, TypeOK, Commit
<1>3. CASE Put(Journal(run.work)) /\ Goto("flush commit") /\ UNCHANGED run
  <2>1. /\ SameLoose /\ SameBundles /\ JournalShape'
        /\ Pending' = Pending \cup {run.work}
    BY <1>3, JournalPut DEF Core, TypeOK, Put, Change
  <2>2. Pending' = {run.work} /\ SameTask /\ finished' = finished
    BY <1>1, <1>3, <2>1 DEF AtCommit, SameTask, Commit
  <2>3. TypeOK'
    BY <1>1, <1>3, <2>1, <2>2 DEF Core, TypeOK
  <2>4. /\ LooseReady(run.work) => LooseReady(run.work)'
        /\ BundleOpen(run.work) => BundleOpen(run.work)'
        /\ There(run.work) => There(run.work)'
    BY <2>1, <2>2, WorkStill
  <2>5. Completable(run.work)'
    BY <1>1, <2>4 DEF AtCommit, BundleDraft, Completable
  <2>6. \A k \in Kinds : \A p : Has(k, p)' = Has(k, p)
    BY <2>1 DEF Has, SameLoose, SameBundles
  <2>7. \A p \in Phases : Whole(p)'
    BY <1>1, <2>6 DEF AtCommit, Core, Sound, Whole, Kinds
  <2>8. (\A p \in Phases \ Old : Has("snapshot", p))'
    BY <2>6 DEF Core, Sound, Kinds
  <2>9. ReportedStaysGone'
    BY <2>1, <2>2 DEF Core, Sound, ReportedStaysGone, NoCopy, SameLoose, SameBundles
  <2>10. (\A i \in Pending : Pending = {i} /\ Completable(i))'
    BY <1>3, <2>2, <2>5
  <2>11. Sound'
    BY <2>7, <2>8, <2>9, <2>10 DEF Sound
  <2>12. AtFlushCommit'
    BY <1>1, <1>3, <2>1, <2>2, TaskStill DEF AtCommit, AtFlushCommit, LooseReady, BundleDraft, BundleOpen,
                                             LooseWork, BundleWork, LooseStage
  <2> QED  BY <1>3, <2>3, <2>11, <2>12 DEF Core, AtPc, Goto
<1> QED  BY <1>2, <1>3 DEF Commit

LEMMA FlushCommitKeeps ==
  ASSUME Core, FlushCommit
  PROVE  Core'
<1>1. SameLoose /\ SameBundles /\ SameJournals
  BY DiskStays DEF Core, TypeOK, FlushCommit, Flush
<1>2. run' = run /\ finished' = finished /\ SameTask
  BY DEF FlushCommit, SameTask
<1>3. Sound' /\ TypeOK'
  BY <1>1, <1>2, SoundStill DEF Core, TypeOK, SameJournals
<1>4. AtFlushCommit
  BY DEF Core, AtPc, FlushCommit, Running
<1>5. CASE LooseWork
  <2>1. pc' = "unlink pack"
    BY <1>5 DEF FlushCommit, Goto, LooseWork
  <2>2. run.left # {}
    BY <1>4, <1>5, LooseWorkIsReady DEF Core, AtFlushCommit, LooseReady
  <2>3. AtUnlinkPack'
    BY <1>1, <1>2, <1>4, <1>5, <2>2, CompletionStill DEF AtFlushCommit, AtUnlinkPack, NoneLoose
  <2> QED  BY <1>3, <2>1, <2>3 DEF Core, AtPc
<1>6. CASE BundleWork
  <2>1. pc' = "next pair"
    BY <1>6 DEF FlushCommit, Goto, BundleWork
  <2>2. AtNextPair'
    BY <1>1, <1>2, <1>4, <1>6, CompletionStill DEF AtFlushCommit, AtNextPair, NoneBundled
  <2> QED  BY <1>3, <2>1, <2>2 DEF Core, AtPc
<1> QED  BY <1>4, <1>5, <1>6 DEF AtFlushCommit
-----------------------------------------------------------------------------
\* The same for the snapshots without a pack.
LEMMA SingleRemovalOpens ==
  ASSUME Core, AtSingle, NEW ids, ids = run.plan.single, NEW w, w = SingleRemoval(ids)
  PROVE  /\ w \in Works /\ SingleOpen(w) /\ w.ids = ids
         /\ \A k \in Kinds : w.survivor[k] \subseteq Members(k)
         /\ BundlesOf("snapshot") \subseteq w.old["snapshot"] \cup {w.survivor["snapshot"]}
<1> DEFINE keep == Members("snapshot") \ ids
<1>1. ids \in SUBSET Phases /\ ids \subseteq Old \ Paired
  BY DEF Core, TypeOK, Runs, Plans, Authorised
<1>2. PICK o, v : /\ o = [k \in Kinds |-> IF k = "snapshot" THEN BundlesOf(k) \ {keep} ELSE {}]
                  /\ v = [k \in Kinds |-> IF k = "snapshot" THEN keep ELSE {}]
  OBVIOUS
<1>3. w = [pair |-> "single", ids |-> ids, old |-> o, survivor |-> v]
  BY <1>2 DEF SingleRemoval
<1>4. /\ o["snapshot"] = BundlesOf("snapshot") \ {keep} /\ v["snapshot"] = keep
      /\ o["pack"] = {} /\ v["pack"] = {}
  BY <1>2 DEF Kinds
<1>5. o \in [Kinds -> SUBSET Groups]
  <2>1. \A k \in Kinds : (IF k = "snapshot" THEN BundlesOf(k) \ {keep} ELSE {}) \in SUBSET Groups
    BY LooseArePhases
  <2> QED  BY <1>2, <2>1
<1>6. v \in [Kinds -> SUBSET Phases]
  <2>1. \A k \in Kinds : (IF k = "snapshot" THEN keep ELSE {}) \in SUBSET Phases
    BY LooseArePhases
  <2> HIDE DEF keep
  <2> QED  BY <1>2, <2>1
<1>7. w \in Works
  BY <1>1, <1>3, <1>5, <1>6, WorkIsTyped
<1>8. \A T \in BundlesOf("snapshot") : T \subseteq ids \cup keep
  BY MembersOfBundles
<1>9. SingleOpen(w)
  BY <1>1, <1>3, <1>4, <1>8 DEF SingleOpen
<1>10. w.survivor["snapshot"] \subseteq Members("snapshot") /\ w.survivor["pack"] = {}
  BY <1>3, <1>4
<1>11. \A k \in Kinds : w.survivor[k] \subseteq Members(k)
  BY <1>10 DEF Kinds
<1>12. BundlesOf("snapshot") \subseteq w.old["snapshot"] \cup {w.survivor["snapshot"]}
  <2>1. w.old["snapshot"] = BundlesOf("snapshot") \ {keep} /\ w.survivor["snapshot"] = keep
    BY <1>3, <1>4
  <2> HIDE DEF keep
  <2> QED  BY <2>1
<1> QED  BY <1>3, <1>7, <1>9, <1>11, <1>12

LEMMA SingleKeeps ==
  ASSUME Core, Single
  PROVE  Core'
<1>1. SameLoose /\ SameBundles /\ SameJournals
  BY DiskStays DEF Core, TypeOK, Single, store, Flush
<1>2. Sound'
  BY <1>1, SoundStill DEF Core, Single
<1>3. AtSingle /\ run \in Runs
  BY DEF Core, AtPc, Single, Running, TypeOK
<1>4. ASSUME run.plan.single = {}, Goto("file"), UNCHANGED run
      PROVE  Core'
  <2>1. TypeOK' /\ SameTask
    BY <1>1, <1>4 DEF Core, TypeOK, SameJournals, SameTask
  <2>2. Clean
    BY <1>3, <1>4 DEF AtSingle, Swept, Clean, Kinds
  <2>3. AtFile'
    BY <1>1, <1>3, <2>1, <2>2, TaskStill DEF AtSingle, AtFile, SameJournals
  <2> QED  BY <1>2, <1>4, <2>1, <2>3 DEF Core, AtPc, Goto
<1>5. ASSUME Goto("survivor"), run' = [run EXCEPT !.work = SingleRemoval(run.plan.single)]
      PROVE  Core'
  <2>1. PICK w : w = SingleRemoval(run.plan.single)
    OBVIOUS
  <2>2. /\ w \in Works /\ SingleOpen(w) /\ w.ids = run.plan.single
        /\ \A k \in Kinds : w.survivor[k] \subseteq Members(k)
        /\ BundlesOf("snapshot") \subseteq w.old["snapshot"] \cup {w.survivor["snapshot"]}
    BY <1>3, <2>1, SingleRemovalOpens
  <2>3. /\ run' \in Runs /\ run'.work = w /\ run'.cmd = run.cmd /\ run'.plan = run.plan
        /\ run'.recovered = run.recovered /\ run'.skipped = run.skipped
    BY <1>3, <1>5, <2>1, <2>2 DEF Runs
  <2>4. TypeOK'
    BY <1>1, <2>3 DEF Core, TypeOK, SameJournals
  <2>5. Maintains' = Maintains /\ Sweeps' = Sweeps /\ Pending' = {}
    BY <1>1, <1>3, <2>3 DEF Maintains, Sweeps, AtSingle, SameJournals
  <2>6. SingleNarrowed'
    BY <1>1, <1>3, <2>2, <2>3, <2>5 DEF AtSingle, Swept, SingleNarrowed, NoLoose, OneBundle, Stays,
                                       SameLoose, SameBundles, Kinds
  <2>7. SingleDraft'
    BY <2>2, <2>3, <2>6 DEF SingleDraft, SingleOpen
  <2>8. (\A k \in Kinds : run.work.survivor[k] \subseteq Members(k))'
    BY <1>1, <2>2, <2>3 DEF SameBundles
  <2>9. AtSurvivor'
    BY <2>5, <2>7, <2>8 DEF AtSurvivor
  <2> QED  BY <1>2, <1>5, <2>4, <2>9 DEF Core, AtPc, Goto
<1> QED  BY <1>4, <1>5 DEF Single

LEMMA RetireSingleKeeps ==
  ASSUME Core, RetireSingle
  PROVE  Core'
<1>1. AtRetireSingle /\ run \in Runs /\ run.work \in Works
  BY DEF Core, AtPc, RetireSingle, Running, TypeOK, Runs
<1>2. SingleOpen(run.work) /\ Pending = {} /\ finished' = finished
  BY <1>1 DEF AtRetireSingle, SingleDraft, RetireSingle
<1>3. CASE Throw /\ UNCHANGED disk
  BY <1>3, Ends, DiskStays, SoundStill DEF Core, TypeOK, RetireSingle
<1>4. ASSUME SurvivorThere("snapshot"),
             NEW S \in run.work.old["snapshot"] \cap BundlesOf("snapshot"),
             Remove(Bundle("snapshot", S)), run' = [run EXCEPT !.retired = TRUE],
             Goto("retire single")
      PROVE  Core'
  <2>1. SameLoose /\ LessBundle("snapshot", S) /\ SameJournals
    BY <1>4, BundleRemoved, LooseArePhases DEF Core, TypeOK, Remove, Change, Kinds
  <2>2. BundlesOf("snapshot")' = BundlesOf("snapshot") \ {S}
    BY <2>1 DEF LessBundle, Kinds
  <2>3. BundlesOf("pack")' = BundlesOf("pack") /\ Members("pack")' = Members("pack")
    BY <2>1 DEF LessBundle, Kinds
  <2>4. \A p \in Members("snapshot")' : p \in Members("snapshot")
    BY <2>2, MembersOfBundles, MembersOfBundlesAfter
  <2>5. ASSUME NEW p \in Members("snapshot"), p \notin run.work.ids
        PROVE  p \in Members("snapshot")'
    <3>1. PICK T \in BundlesOf("snapshot") : p \in T
      BY MembersOfBundles
    <3>2. CASE T # S
      BY <2>2, <3>1, <3>2, MembersOfBundlesAfter
    <3>3. CASE T = S
      <4>1. p \in run.work.survivor["snapshot"] /\ run.work.survivor["snapshot"] # S
        BY <1>2, <1>4, <2>5, <3>1, <3>3 DEF SingleOpen
      <4>2. run.work.survivor["snapshot"] \in BundlesOf("snapshot")'
        BY <1>4, <2>2, <4>1 DEF SurvivorThere
      <4> QED  BY <4>1, <4>2, MembersOfBundlesAfter
    <3> QED  BY <3>2, <3>3
  <2>6. run.work.ids \subseteq Old \ Paired
    BY <1>2 DEF SingleOpen
  <2>7. \A p : Has("pack", p)' = Has("pack", p)
    BY <2>1, <2>3 DEF Has, SameLoose, Kinds
  <2>8. \A p : p \notin run.work.ids => Has("snapshot", p)' = Has("snapshot", p)
    BY <2>1, <2>4, <2>5 DEF Has, SameLoose, Kinds
  <2>9. \A k \in Kinds : \A p : Has(k, p)' => Has(k, p)
    BY <2>1, <2>4, <2>7 DEF Has, SameLoose, Kinds
  <2>10. \A p \in Phases \ Old : Has("snapshot", p)'
    BY <2>6, <2>8 DEF Core, Sound
  <2>11. \A p \in Phases : Whole(p)'
    BY <1>2, <2>6, <2>7, <2>8 DEF Core, Sound, Whole
  <2>12. Pending' = {}
    BY <1>2, <2>1 DEF SameJournals
  <2>13. Sound'
    BY <1>2, <2>9, <2>10, <2>11, <2>12, SoundQuiet DEF Core
  <2> DEFINE y == TRUE
  <2>14. y \in BOOLEAN
    OBVIOUS
  <2>15. run' = [run EXCEPT !.retired = y]
    BY <1>4
  <2> HIDE DEF y
  <2>16. run' \in Runs /\ SameTask
    BY <1>1, <2>14, <2>15 DEF Runs, SameTask
  <2>17. TypeOK'
    BY <2>1, <2>16 DEF Core, TypeOK, SameJournals, SameTask
  <2>18. Maintains' = Maintains /\ Sweeps' = Sweeps
    BY <2>16 DEF SameTask, Maintains, Sweeps
  <2>19. SingleNarrowed'
    BY <1>1, <2>1, <2>2, <2>3, <2>4, <2>16, <2>18 DEF AtRetireSingle, SingleDraft, SingleNarrowed, NoLoose,
                                                     OneBundle, Stays, SameLoose, SameTask, Kinds
  <2>20. AtRetireSingle'
    BY <1>2, <2>12, <2>16, <2>19 DEF AtRetireSingle, SingleDraft, SingleOpen, SameTask
  <2> QED  BY <1>4, <2>13, <2>17, <2>20 DEF Core, AtPc, Goto
<1>5. ASSUME run.work.old["snapshot"] \cap BundlesOf("snapshot") = {}, Goto("flush single"),
             UNCHANGED <<run, disk>>
      PROVE  Core'
  <2>1. SameLoose /\ SameBundles /\ SameJournals
    BY <1>5, DiskStays DEF Core, TypeOK
  <2>2. Sound' /\ TypeOK' /\ SameTask
    BY <1>2, <1>5, <2>1, SoundStill DEF Core, TypeOK, SameJournals, SameTask
  <2>3. Clean
    <3> SUFFICES ASSUME Sweeps PROVE \A k \in Kinds : OneBundle(k) /\ Stays(k, {})
      BY <1>1 DEF AtRetireSingle, SingleDraft, SingleNarrowed, Clean
    <3>1. /\ BundlesOf("snapshot") \subseteq {run.work.survivor["snapshot"]}
          /\ OneBundle("pack") /\ Stays("pack", {}) /\ Stays("snapshot", run.work.ids)
      BY <1>1, <1>5 DEF AtRetireSingle, SingleDraft, SingleNarrowed
    <3>2. \A T \in BundlesOf("snapshot") : \A p : p \in T <=> p \in Members("snapshot")
      BY <3>1, MembersOfBundles
    <3>3. OneBundle("snapshot")
      BY <3>2 DEF OneBundle
    <3>4. Members("snapshot") \cap run.work.ids = {}
      BY <1>2, <3>1, MembersOfBundles DEF SingleOpen
    <3>5. Stays("snapshot", {})
      BY <3>1, <3>4 DEF Stays
    <3> QED  BY <3>1, <3>3, <3>5 DEF Kinds
  <2>4. AtFile'
    BY <1>2, <2>1, <2>2, <2>3, TaskStill DEF AtFile, SameJournals
  <2> QED  BY <1>5, <2>2, <2>4 DEF Core, AtPc, Goto
<1> QED  BY <1>3, <1>4, <1>5 DEF RetireSingle

LEMMA FlushSingleKeeps ==
  ASSUME Core, FlushSingle
  PROVE  Core'
<1>1. SameLoose /\ SameBundles /\ SameJournals
  BY DiskStays DEF Core, TypeOK, FlushSingle, Flush, store
<1>2. Sound'
  BY <1>1, SoundStill DEF Core, FlushSingle
<1>3. AtFile /\ run \in Runs
  BY DEF Core, AtPc, FlushSingle, Running, TypeOK
<1> DEFINE no == FALSE
<1>4. no \in BOOLEAN /\ NoWork \in Works
  BY DEF NoWork, Works, Groups
<1>5. run' = [run EXCEPT !.work = NoWork, !.retired = no] /\ pc' = "file"
  BY DEF FlushSingle, Goto
<1> HIDE DEF no
<1>6. /\ run' \in Runs /\ run'.cmd = run.cmd /\ run'.plan = run.plan
      /\ run'.recovered = run.recovered /\ run'.skipped = run.skipped
  BY <1>3, <1>4, <1>5 DEF Runs
<1>7. TypeOK'
  BY <1>1, <1>6 DEF Core, TypeOK, SameJournals
<1>8. Maintains' = Maintains /\ Sweeps' = Sweeps
  BY <1>6 DEF Maintains, Sweeps
<1>9. AtFile'
  BY <1>1, <1>3, <1>8 DEF AtFile, Clean, NoLoose, OneBundle, Stays, SameLoose, SameBundles, SameJournals
<1> QED  BY <1>2, <1>5, <1>7, <1>9 DEF Core, AtPc

LEMMA UnlinkFileKeeps ==
  ASSUME Core, UnlinkFile
  PROVE  Core'
<1>1. AtFile /\ run \in Runs /\ Pending = {} /\ finished' = finished
  BY DEF Core, AtPc, UnlinkFile, UnlinkFails, Running, TypeOK, AtFile
<1>2. ASSUME NEW p \in run.plan.file, Remove(Loose("snapshot", p)), Goto("file"), UNCHANGED run
      PROVE  Core'
  <2>1. LessLoose("snapshot", p) /\ SameBundles /\ SameJournals
    BY <1>2, LooseRemoved DEF Core, TypeOK, Remove, Change, Kinds
  <2>2. p \in Old \ Paired
    BY DEF Core, TypeOK, Authorised
  <2>3. \A k \in Kinds : \A q : Has(k, q)' => Has(k, q)
    BY <2>1 DEF Has, LessLoose, SameBundles
  <2>4. \A k \in Kinds : \A q : q # p => Has(k, q)' = Has(k, q)
    BY <2>1 DEF Has, LessLoose, SameBundles
  <2>5. \A q : Has("pack", q)' = Has("pack", q)
    BY <2>1 DEF Has, LessLoose, SameBundles, Kinds
  <2>6. \A q \in Phases \ Old : Has("snapshot", q)'
    BY <2>2, <2>4 DEF Core, Sound, Kinds
  <2>7. \A q \in Phases : Whole(q)'
    BY <1>1, <2>2, <2>4, <2>5 DEF Core, Sound, Whole, Kinds
  <2>8. Pending' = {}
    BY <1>1, <2>1 DEF SameJournals
  <2>9. Sound'
    BY <1>1, <2>3, <2>6, <2>7, <2>8, SoundQuiet DEF Core
  <2>10. TypeOK'
    BY <1>2, <2>1 DEF Core, TypeOK, SameJournals
  <2>11. Maintains' = Maintains /\ Sweeps' = Sweeps
    BY <1>2 DEF Maintains, Sweeps
  <2>12. AtFile'
    BY <1>1, <2>1, <2>8, <2>11 DEF AtFile, Clean, NoLoose, OneBundle, Stays, LessLoose, SameBundles
  <2> QED  BY <1>2, <2>9, <2>10, <2>12 DEF Core, AtPc, Goto
<1>3. ASSUME UNCHANGED disk, EndRetention(run) \/ EndRetention(Skipping)
      PROVE  Core'
  <2>1. SameLoose /\ SameBundles /\ SameJournals
    BY <1>3, DiskStays DEF Core, TypeOK
  <2>2. Sound' /\ Pending' = {}
    BY <1>1, <2>1, SoundStill DEF Core, SameJournals
  <2>3. CASE run' = run /\ pc' = "done"
    <3>1. TypeOK' /\ SameTask
      BY <2>1, <2>3 DEF Core, TypeOK, SameJournals, SameTask
    <3>2. AtFile'
      BY <1>1, <2>1, <3>1, TaskStill DEF AtFile, SameJournals
    <3> QED  BY <2>2, <2>3, <3>1, <3>2 DEF Core, AtPc
  <2>4. CASE ~Maintains' /\ run' \in Runs /\ run'.plan = run.plan /\ pc' = "done"
    <3>1. TypeOK'
      BY <2>1, <2>4 DEF Core, TypeOK, SameJournals
    <3>2. AtFile'
      BY <2>2, <2>4 DEF AtFile, Clean, Sweeps
    <3> QED  BY <2>2, <2>4, <3>1, <3>2 DEF Core, AtPc
  <2>5. CASE /\ ~Maintains' /\ run' \in Runs /\ run'.plan = run.plan
             /\ pc' = "fold" /\ run'.stage = "again"
    <3>1. TypeOK'
      BY <2>1, <2>5 DEF Core, TypeOK, SameJournals
    <3>2. AtFold'
      BY <2>2, <2>5 DEF AtFold, Compacting
    <3> QED  BY <2>2, <2>5, <3>1, <3>2 DEF Core, AtPc
  <2>6. CASE EndRetention(Skipping)
    <3>1. (pc' = "fold" /\ Skips("again")) \/ (pc' = "done" /\ Skips(run.stage))
      BY <1>1, <2>6, SkippingRuns DEF EndRetention, Goto
    <3> QED  BY <2>4, <2>5, <3>1 DEF Skips, Maintains
  <2>7. CASE EndRetention(run)
    <3>1. CASE run' = run /\ pc' = "done"
      BY <2>3, <3>1
    <3>2. CASE /\ run.cmd = "maintain" /\ \E k \in Kinds : LooseOf(k) # {}
               /\ pc' = "fold" /\ run' = [run EXCEPT !.stage = "again"]
      <4>1. run.skipped
        BY <1>1, <3>2 DEF AtFile, Clean, Maintains, NoLoose
      <4>2. /\ run' \in Runs /\ run'.plan = run.plan /\ run'.stage = "again"
            /\ run'.skipped = run.skipped
        BY <1>1, <3>2 DEF Runs
      <4> QED  BY <2>5, <3>2, <4>1, <4>2 DEF Maintains
    <3> QED  BY <2>7, <3>1, <3>2 DEF EndRetention, Goto
  <2> QED  BY <1>3, <2>6, <2>7
<1> QED  BY <1>2, <1>3 DEF UnlinkFile, UnlinkFails, store

LEMMA FinishKeeps ==
  ASSUME Core, Finish
  PROVE  Core'
<1>1. SameJournals /\ Sound'
  BY DiskStays, SoundStill DEF Core, TypeOK, Finish, store
<1> QED  BY <1>1, Ends DEF Core, Finish, Throw, Goto

LEMMA AbortKeeps ==
  ASSUME Core, Abort
  PROVE  Core'
<1>1. SameJournals /\ Sound' /\ Throw
  BY DiskStays, SoundStill DEF Core, TypeOK, Abort, store
<1> QED  BY <1>1, Ends DEF Core
-----------------------------------------------------------------------------
LEMMA InitIsSound ==
  ASSUME Init
  PROVE  Core
<1>1. PICK s \in Stores : disk = s.disk
  BY DEF Init
<1>2. IsArchive(disk)
  BY <1>1, StoresAreArchives
<1>3. Pending = {} /\ JournalShape
  BY <1>2 DEF IsArchive, Pending, JournalShape
<1>4. \A k \in Kinds, p \in Phases : Has(k, p) <=> CopyIn(disk, k, p)
  BY MembersOfBundles DEF Has, CopyIn, LooseOf, BundlesOf
<1>5. \A p \in Phases : Whole(p)
  BY <1>2, <1>4 DEF IsArchive, Whole, Kinds
<1>6. \A p \in Phases \ Old : Has("snapshot", p)
  BY <1>2, <1>4 DEF IsArchive, Kinds
<1>7. Sound
  BY <1>3, <1>5, <1>6 DEF Sound, ReportedStaysGone, Init
<1>8. TypeOK
  BY <1>3, FreshIsRun DEF TypeOK, Init
<1>9. AtPc
  BY DEF AtPc, Init
<1> QED  BY <1>7, <1>8, <1>9 DEF Core

LEMMA StutterKeeps ==
  ASSUME Core, UNCHANGED vars
  PROVE  Core'
<1>1. run' = run /\ pc' = pc /\ finished' = finished /\ disk' = disk
  BY DEF vars, store
<1>2. SameLoose /\ SameBundles /\ SameJournals /\ SameTask
  BY <1>1, DiskStays DEF Core, TypeOK, SameTask
<1>3. Sound' /\ TypeOK'
  BY <1>1, <1>2, SoundStill DEF Core, TypeOK, SameJournals
<1>4. /\ LooseWork => LooseWork'
      /\ BundleWork => BundleWork'
      /\ BundleDraft => BundleDraft'
      /\ SingleDraft => SingleDraft'
  BY <1>1, <1>2, TaskStill, WorkStill, CompletionStill DEF BundleDraft
<1>5. AtPc
  BY DEF Core
<1>6. AtFlushLoose => AtFlushLoose'
  BY <1>1, <1>2, <1>4 DEF AtFlushLoose, NoneLoose, SameLoose
<1>7. AtFlushRetired => AtFlushRetired'
  BY <1>1, <1>2, <1>4 DEF AtFlushRetired, NoneBundled, SameBundles
<1>8. /\ AtRecover => AtRecover'
      /\ AtClear => AtClear'
      /\ AtUnlinkPack => AtUnlinkPack'
      /\ AtUnlinkSnapshot => AtUnlinkSnapshot'
  BY <1>1, <1>2, <1>4, <1>6, <1>7
     DEF AtRecover, AtClear, AtUnlinkPack, AtUnlinkSnapshot, NoneLoose, SameLoose, Kinds
<1>9. /\ AtNextPair => AtNextPair'
      /\ AtRetire => AtRetire'
  <2>1. AtNextPair => AtNextPair'
    BY <1>1, <1>2, <1>4 DEF AtNextPair, NoneBundled, SameBundles
  <2>2. (run.kind = "pack" => run.cur \notin Members("snapshot"))
          => (run.kind = "pack" => run.cur \notin Members("snapshot"))'
    BY <1>1, <1>2 DEF SameBundles, Kinds
  <2>3. AtRetire => AtRetire'
    BY <1>1, <1>2, <1>4, <2>2 DEF AtRetire, NoneBundled, SameBundles
  <2> QED  BY <2>1, <2>3
<1>10. Compacting => Compacting'
  BY <1>1, <1>2 DEF Compacting, Maintains, Folded, OneBundle, SameLoose, SameBundles, Kinds
<1>11. /\ AtFold => AtFold'
       /\ AtSupersede => AtSupersede'
       /\ AtUncover => AtUncover'
  BY <1>1, <1>2, <1>10 DEF AtFold, AtSupersede, AtUncover, Covered, OneBundle, SameLoose, SameBundles,
                           SameJournals
<1>12. AtPlan => AtPlan'
  BY <1>1, <1>2 DEF AtPlan, Maintains, Folded, OneBundle, SameLoose, SameBundles, SameJournals
<1>13. /\ AtFlushClear => AtFlushClear'
       /\ AtSingle => AtSingle'
       /\ AtFile => AtFile'
       /\ AtRetireSingle => AtRetireSingle'
  BY <1>1, <1>2, <1>4, TaskStill DEF AtFlushClear, AtSingle, AtFile, AtRetireSingle, SameJournals
<1>14. /\ AtLoosePairs => AtLoosePairs'
       /\ AtBundlePairs => AtBundlePairs'
  BY <1>1, <1>2, TaskStill DEF AtLoosePairs, AtBundlePairs, SameLoose, SameBundles, SameJournals
<1>15. /\ AtSurvivor => AtSurvivor'
       /\ AtVerify => AtVerify'
       /\ AtCommit => AtCommit'
       /\ AtFlushCommit => AtFlushCommit'
  BY <1>1, <1>2, <1>4, TaskStill, WorkStill DEF AtSurvivor, AtVerify, AtCommit, AtFlushCommit, SameBundles,
                                                SameJournals
<1>16. AtPc'
  <2>1. (pc = "recover" => AtRecover)'
    BY <1>1, <1>5, <1>6, <1>7, <1>8, <1>9, <1>11, <1>12, <1>13, <1>14, <1>15 DEF AtPc
  <2>2. (pc = "unlink pack" => AtUnlinkPack)'
    BY <1>1, <1>5, <1>6, <1>7, <1>8, <1>9, <1>11, <1>12, <1>13, <1>14, <1>15 DEF AtPc
  <2>3. (pc = "unlink snapshot" => AtUnlinkSnapshot)'
    BY <1>1, <1>5, <1>6, <1>7, <1>8, <1>9, <1>11, <1>12, <1>13, <1>14, <1>15 DEF AtPc
  <2>4. (pc \in {"flush packs", "flush snapshots"} => AtFlushLoose)'
    BY <1>1, <1>5, <1>6, <1>7, <1>8, <1>9, <1>11, <1>12, <1>13, <1>14, <1>15 DEF AtPc
  <2>5. (pc = "next pair" => AtNextPair)'
    BY <1>1, <1>5, <1>6, <1>7, <1>8, <1>9, <1>11, <1>12, <1>13, <1>14, <1>15 DEF AtPc
  <2>6. (pc = "retire" => AtRetire)'
    BY <1>1, <1>5, <1>6, <1>7, <1>8, <1>9, <1>11, <1>12, <1>13, <1>14, <1>15 DEF AtPc
  <2>7. (pc = "flush retired" => AtFlushRetired)'
    BY <1>1, <1>5, <1>6, <1>7, <1>8, <1>9, <1>11, <1>12, <1>13, <1>14, <1>15 DEF AtPc
  <2>8. (pc = "clear" => AtClear)'
    BY <1>1, <1>5, <1>6, <1>7, <1>8, <1>9, <1>11, <1>12, <1>13, <1>14, <1>15 DEF AtPc
  <2>9. (pc = "flush clear" => AtFlushClear)'
    BY <1>1, <1>5, <1>6, <1>7, <1>8, <1>9, <1>11, <1>12, <1>13, <1>14, <1>15 DEF AtPc
  <2>10. (pc = "fold" => AtFold)'
    BY <1>1, <1>5, <1>6, <1>7, <1>8, <1>9, <1>11, <1>12, <1>13, <1>14, <1>15 DEF AtPc
  <2>11. (pc = "supersede" => AtSupersede)'
    BY <1>1, <1>5, <1>6, <1>7, <1>8, <1>9, <1>11, <1>12, <1>13, <1>14, <1>15 DEF AtPc
  <2>12. (pc = "uncover" => AtUncover)'
    BY <1>1, <1>5, <1>6, <1>7, <1>8, <1>9, <1>11, <1>12, <1>13, <1>14, <1>15 DEF AtPc
  <2>13. (pc = "plan" => AtPlan)'
    BY <1>1, <1>5, <1>6, <1>7, <1>8, <1>9, <1>11, <1>12, <1>13, <1>14, <1>15 DEF AtPc
  <2>14. (pc = "loose pairs" => AtLoosePairs)'
    BY <1>1, <1>5, <1>6, <1>7, <1>8, <1>9, <1>11, <1>12, <1>13, <1>14, <1>15 DEF AtPc
  <2>15. (pc = "bundle pairs" => AtBundlePairs)'
    BY <1>1, <1>5, <1>6, <1>7, <1>8, <1>9, <1>11, <1>12, <1>13, <1>14, <1>15 DEF AtPc
  <2>16. (pc \in {"survivor", "flush survivor"} => AtSurvivor)'
    BY <1>1, <1>5, <1>6, <1>7, <1>8, <1>9, <1>11, <1>12, <1>13, <1>14, <1>15 DEF AtPc
  <2>17. (pc = "verify" => AtVerify)'
    BY <1>1, <1>5, <1>6, <1>7, <1>8, <1>9, <1>11, <1>12, <1>13, <1>14, <1>15 DEF AtPc
  <2>18. (pc \in {"preflight", "commit"} => AtCommit)'
    BY <1>1, <1>5, <1>6, <1>7, <1>8, <1>9, <1>11, <1>12, <1>13, <1>14, <1>15 DEF AtPc
  <2>19. (pc = "flush commit" => AtFlushCommit)'
    BY <1>1, <1>5, <1>6, <1>7, <1>8, <1>9, <1>11, <1>12, <1>13, <1>14, <1>15 DEF AtPc
  <2>20. (pc = "single" => AtSingle)'
    BY <1>1, <1>5, <1>6, <1>7, <1>8, <1>9, <1>11, <1>12, <1>13, <1>14, <1>15 DEF AtPc
  <2>21. (pc = "retire single" => AtRetireSingle)'
    BY <1>1, <1>5, <1>6, <1>7, <1>8, <1>9, <1>11, <1>12, <1>13, <1>14, <1>15 DEF AtPc
  <2>22. (pc \in {"flush single", "file", "done"} => AtFile)'
    BY <1>1, <1>5, <1>6, <1>7, <1>8, <1>9, <1>11, <1>12, <1>13, <1>14, <1>15 DEF AtPc
  <2> QED  BY <2>1, <2>2, <2>3, <2>4, <2>5, <2>6, <2>7, <2>8, <2>9, <2>10, <2>11, <2>12, <2>13, <2>14, <2>15, <2>16, <2>17, <2>18, <2>19, <2>20, <2>21, <2>22 DEF AtPc
<1> QED
  BY <1>3, <1>16 DEF Core

LEMMA StepKeeps ==
  ASSUME Core, Step
  PROVE  Core'
<1>1. CASE Complete
  BY <1>1, RecoverKeeps, UnlinkPackKeeps, UnlinkSnapshotKeeps, FlushPacksKeeps, FlushSnapshotsKeeps,
     NextPairKeeps, RetireKeeps, FlushRetiredKeeps, ClearJournalKeeps, FlushClearKeeps
     DEF Complete
<1>2. CASE Compact
  BY <1>2, FoldKeeps, SupersedeKeeps, UncoverKeeps DEF Compact
<1>3. CASE Retain
  BY <1>3, PlanKeeps, LoosePairsKeeps, BundlePairsKeeps, WriteSurvivorKeeps, FlushSurvivorKeeps,
     VerifyKeeps, PreflightKeeps, CommitKeeps, FlushCommitKeeps, SingleKeeps,
     RetireSingleKeeps, FlushSingleKeeps, UnlinkFileKeeps, FinishKeeps
     DEF Retain
<1> QED  BY <1>1, <1>2, <1>3 DEF Step

LEMMA ScenarioStays ==
  ASSUME [Next]_vars
  PROVE  scenario' = scenario
<1>1. ASSUME NEW c \in Commands, Start(c) PROVE scenario' = scenario
  BY <1>1 DEF Start, Running
<1>2. CASE Step
  BY <1>2 DEF Step, Complete, Compact, Retain, Running, Recover, UnlinkPack, UnlinkSnapshot, FlushPacks, FlushSnapshots, NextPair, Retire,
         FlushRetired, ClearJournal, FlushClear, Fold, Supersede, Uncover, UnlinkFails, Plan,
         LoosePairs, BundlePairs, WriteSurvivor, FlushSurvivor, Verify, Preflight, Commit,
         FlushCommit, Single, RetireSingle, FlushSingle, UnlinkFile, Finish
<1>3. CASE Abort \/ PowerLoss
  BY <1>3 DEF Abort, PowerLoss
<1>4. CASE UNCHANGED vars
  BY <1>4 DEF vars
<1> QED  BY <1>1, <1>2, <1>3, <1>4 DEF Next

\* The inductive step: no step of any command, and no kill, leaves the invariant.
LEMMA NextKeeps ==
  ASSUME IInv, [Next]_vars
  PROVE  IInv'
<1>1. SUFFICES ASSUME Unpowered PROVE Core'
  BY ScenarioStays DEF IInv, Unpowered
<1>2. Core
  BY <1>1 DEF IInv
<1>3. ~PowerLoss
  BY <1>1 DEF Unpowered, PowerLoss
<1> QED
  BY <1>2, <1>3, StartKeeps, StepKeeps, AbortKeeps, StutterKeeps DEF Next

LEMMA CoreHolds ==
  Spec => []IInv
<1>1. Init => IInv
  BY InitIsSound DEF IInv
<1> QED  BY <1>1, NextKeeps, PTL DEF Spec

-----------------------------------------------------------------------------
(* The invariant implies the properties.                                    *)

LEMMA CoreIsWhole ==
  ASSUME Core
  PROVE  PairIsWhole
<1> SUFFICES ASSUME NEW p \in Paired
             PROVE  Resolves("snapshot", p) <=> Resolves("pack", p)
  BY DEF PairIsWhole
<1>1. p \in Phases
  BY OldArePhases
<1>2. CASE Pending = {}
  <2>1. Hidden("loose") = {} /\ Hidden("bundle") = {}
    BY <1>2 DEF Hidden
  <2>2. Whole(p)
    BY <1>1, <1>2 DEF Core, Sound
  <2> QED  BY <2>1, <2>2 DEF Resolves, Whole, Has
<1>3. ASSUME NEW i \in Pending
      PROVE  Resolves("snapshot", p) <=> Resolves("pack", p)
  <2>1. Pending = {i} /\ Completable(i)
    BY DEF Core, Sound
  <2>2. CASE p \notin i.ids
    <3>1. p \notin Hidden("loose") /\ p \notin Hidden("bundle")
      BY <2>1, <2>2 DEF Hidden
    <3>2. Whole(p)
      BY <1>1, <2>1, <2>2 DEF Core, Sound
    <3> QED  BY <3>1, <3>2 DEF Resolves, Whole, Has
  <2>3. CASE p \in i.ids /\ LooseReady(i)
    <3>1. p \in Hidden("loose")
      BY <2>3 DEF Hidden, LooseReady
    <3> QED  BY <3>1 DEF Resolves
  <2>4. CASE p \in i.ids /\ BundleOpen(i)
    <3>1. p \in Hidden("bundle")
      BY <2>4 DEF Hidden, BundleOpen
    <3>2. p \in LooseOf("snapshot") <=> p \in LooseOf("pack")
      BY <2>4 DEF BundleOpen, SameLooseness
    <3> QED  BY <3>1, <3>2 DEF Resolves
  <2> QED  BY <2>1, <2>2, <2>3, <2>4 DEF Completable
<1> QED  BY <1>2, <1>3

LEMMA CoreKeepsRest ==
  ASSUME Core
  PROVE  KeptStays
<1> SUFFICES ASSUME NEW p \in Phases \ Old
             PROVE  Resolves("snapshot", p) /\ (p \in Paired => Resolves("pack", p))
  BY DEF KeptStays
<1>1. \A i \in Pending : p \notin i.ids
  BY DEF Core, Sound, Completable, LooseReady, BundleOpen
<1>2. p \notin Hidden("loose") /\ p \notin Hidden("bundle")
  BY <1>1 DEF Hidden
<1>3. Has("snapshot", p) /\ Whole(p)
  BY <1>1 DEF Core, Sound
<1> QED  BY <1>2, <1>3 DEF Resolves, Whole, Has

LEMMA CoreIsCompletable ==
  ASSUME Core
  PROVE  JournalIsCompletable
  BY DEF Core, Sound, JournalIsCompletable, Completable, LooseReady, BundleOpen, There

LEMMA CoreConverges ==
  ASSUME Core
  PROVE  MaintainConverges
<1> SUFFICES ASSUME pc = "done", run.cmd = "maintain", run.recovered = {}, ~run.skipped
             PROVE  /\ \A p \in Old : NoCopy(p)
                    /\ \A k \in Kinds : LooseOf(k) = {} /\ \A S, T \in BundlesOf(k) : S = T
  BY DEF MaintainConverges
<1>1. Clean
  BY DEF Core, AtPc, AtFile
<1> QED  BY <1>1 DEF Clean, Maintains, Sweeps, NoLoose, OneBundle, Stays, NoCopy

\* Both or neither: whatever the three commands did, however often they were killed
\* and restarted, no reader resolves one side of a pair without the other.
THEOREM PairsStayWhole ==
  Spec => [](Unpowered => PairIsWhole)
<1>1. IInv => (Unpowered => PairIsWhole)
  BY CoreIsWhole DEF IInv
<1> QED  BY <1>1, CoreHolds, PTL

\* Retention and compaction never lose a record of a phase the plan keeps.
THEOREM KeptPhasesStay ==
  Spec => [](Unpowered => KeptStays)
<1>1. IInv => (Unpowered => KeptStays)
  BY CoreKeepsRest DEF IInv
<1> QED  BY <1>1, CoreHolds, PTL

\* A journal on disk is the only one and can always be completed.
THEOREM JournalsStayCompletable ==
  Spec => [](Unpowered => JournalIsCompletable)
<1>1. IInv => (Unpowered => JournalIsCompletable)
  BY CoreIsCompletable DEF IInv
<1> QED  BY <1>1, CoreHolds, PTL

\* A phase reported as deleted has no copy of any kind from then on.
THEOREM ReportedPhasesStayGone ==
  Spec => [](Unpowered => ReportedStaysGone)
<1>1. IInv => (Unpowered => ReportedStaysGone)
  BY DEF IInv, Core, Sound
<1> QED  BY <1>1, CoreHolds, PTL

\* archive-maintain that recovered no bundle pair and skipped no file it could not
\* unlink leaves no old phase, no loose file and one bundle of each kind at most.
THEOREM MaintenanceConverges ==
  Spec => [](Unpowered => MaintainConverges)
<1>1. IInv => (Unpowered => MaintainConverges)
  BY CoreConverges DEF IInv
<1> QED  BY <1>1, CoreHolds, PTL

=============================================================================
