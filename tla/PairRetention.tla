--------------------------- MODULE PairRetention ---------------------------
(***************************************************************************)
(* The archive's destructive commands: state archive-retention, state       *)
(* compact-archive and state archive-maintain.  A finished phase leaves a   *)
(* snapshot and a pack of its events; each lives in a file of its own, in a  *)
(* bundle named by the set of its members, or in both.  Retention drops the *)
(* pairs of old phases; a filesystem cannot remove two files at once, so a  *)
(* delete-intent journal decides, and every later run completes it first.   *)
(*                                                                         *)
(* A directory entry is a tuple.  disk is what a process sees.  A change    *)
(* reaches the platter when its directory is flushed: sure are the entries  *)
(* a power loss cannot take, maybe those it may bring back or keep, and raw *)
(* the bundles whose data was never flushed.                                *)
(*                                                                         *)
(* All of it runs under the write lock, so there is one run at a time.  A   *)
(* kill, an error of any call and a failed flush all end the run where it   *)
(* is: they are Abort.  Every member has one version: records that diverge  *)
(* from their bundle are skipped by all three commands.                     *)
(***************************************************************************)
EXTENDS Naturals

CONSTANTS
    Phases,
    Old,         \* unreferenced and beyond the newest N: what the plan drops
    Paired,      \* phases that have a pack beside their snapshot
    None,
    Stores,      \* the archives a behaviour starts from
    Scenarios,   \* the commands and the faults a behaviour may use
    MaxFaults    \* bound: faults in a behaviour

ASSUME OldArePhases == Old \subseteq Phases /\ Paired \subseteq Phases
ASSUME MaxFaultsIsNat == MaxFaults \in Nat

Kinds == {"snapshot", "pack"}
Commands == {"retention", "compact", "maintain"}
Groups == (SUBSET Phases) \ {{}}
Directories == {"snapshot", "pack", "bundle", "journal"}

VARIABLES
    disk, sure, maybe, raw,
    pc,         \* the next step of the running command, "idle" between runs
    run,        \* the command's own variables
    finished,   \* phases a completed journal left without any copy
    faults,     \* faults so far
    scenario

store == <<disk, sure, maybe, raw>>
vars == <<store, pc, run, finished, faults, scenario>>

-----------------------------------------------------------------------------
(* Directory entries and what a power loss may do to them.                  *)

Loose(k, p) == <<"loose", k, p>>
Bundle(k, S) == <<"bundle", k, S>>
Journal(i) == <<"journal", "delete-intent", i>>
Directory(e) == IF e[1] = "loose" THEN e[2] ELSE e[1]

LooseOf(k) == {p \in Phases : Loose(k, p) \in disk}
BundlesOf(k) == {S \in Groups : Bundle(k, S) \in disk}
Members(k) == UNION BundlesOf(k)
Pending == {e[3] : e \in {f \in disk : f[1] = "journal"}}

\* Where no power loss can happen, every change counts as flushed.
Change(new) ==
    /\ disk' = new
    /\ IF "power" \in scenario.faults
       THEN sure' = sure \cap new /\ maybe' = maybe \cup new
       ELSE sure' = new /\ maybe' = new

Put(e) == Change(disk \cup {e})
Remove(e) == Change(disk \ {e})

\* fsync of a directory: its entries are settled as they are seen, except that
\* an entry is worth nothing while the data behind it is not flushed.
Flush(d) ==
    LET seen == {e \in disk : Directory(e) = d}
        others(es) == {e \in es : Directory(e) /= d}
    IN  /\ sure' = others(sure) \cup (seen \ raw)
        /\ maybe' = others(maybe) \cup seen
        /\ UNCHANGED <<disk, raw>>

\* What an archive holds before any of the commands ran: no journal, a snapshot
\* of every phase that stays, and a pack beside the snapshots of paired phases.
CopyIn(d, k, p) ==
    Loose(k, p) \in d \/ \E S \in Groups : p \in S /\ Bundle(k, S) \in d
IsArchive(d) ==
    /\ \A e \in d : e[1] /= "journal"
    /\ \A p \in Phases : CopyIn(d, "pack", p) <=> p \in Paired /\ CopyIn(d, "snapshot", p)
    /\ \A p \in Phases \ Old : CopyIn(d, "snapshot", p)

ASSUME StoresAreArchives == \A s \in Stores : IsArchive(s.disk)

-----------------------------------------------------------------------------
(* What a reader resolves.  A pending loose pair is absent everywhere, a    *)
(* pending bundle pair from the bundles only.                               *)

Hidden(pair) == UNION {i.ids : i \in {j \in Pending : j.pair = pair}}

Resolves(k, p) ==
    /\ p \notin Hidden("loose")
    /\ p \in LooseOf(k) \/ p \in Members(k) \ Hidden("bundle")

NoCopy(p) == \A k \in Kinds : p \notin LooseOf(k) \cup Members(k)

-----------------------------------------------------------------------------
(* Journal intents.  A bundle pair names the bundles that hold its members  *)
(* and the one that holds the survivors of each kind, {} when there is none. *)

LooseIntent(ids) ==
    [pair |-> "loose", ids |-> ids,
     old |-> [k \in Kinds |-> {}], survivor |-> [k \in Kinds |-> {}]]

Holding(k, ids) == {S \in BundlesOf(k) : S \cap ids /= {}}

BundleIntent(ids) ==
    [pair |-> "bundle", ids |-> ids,
     old |-> [k \in Kinds |-> Holding(k, ids)],
     survivor |-> [k \in Kinds |-> Members(k) \ ids]]

\* Removing members of one kind alone retires every other bundle of the kind.
SingleRemoval(ids) ==
    LET keep == Members("snapshot") \ ids
    IN  [pair |-> "single", ids |-> ids,
         old |-> [k \in Kinds |-> IF k = "snapshot" THEN BundlesOf(k) \ {keep} ELSE {}],
         survivor |-> [k \in Kinds |-> IF k = "snapshot" THEN keep ELSE {}]]

NoWork == [pair |-> "none", ids |-> {}, old |-> [k \in Kinds |-> {}],
           survivor |-> [k \in Kinds |-> {}]]
NoPlan == [loose |-> {}, bundle |-> {}, single |-> {}, file |-> {}]

Fresh(c) == [cmd |-> c, stage |-> "recovery", kind |-> "snapshot", cur |-> None,
             left |-> {}, work |-> NoWork, retired |-> FALSE, plan |-> NoPlan,
             recovered |-> {}, skipped |-> FALSE]

Running(l) == pc = l /\ UNCHANGED <<faults, scenario>>
Goto(l) == pc' = l

\* The command throws: it ends, and what it left on disk stays.
Throw == Goto("idle") /\ run' = Fresh(None)

SurvivorThere(k) == run.work.survivor[k] \in {{}} \cup BundlesOf(k)

-----------------------------------------------------------------------------
(* A command starts.  compact-archive does not recover first, it refuses.   *)

Start(c) ==
    /\ Running("idle") /\ c \in scenario.commands
    /\ run' = Fresh(c)
    /\ Goto(IF c = "compact" THEN "fold" ELSE "recover")
    /\ UNCHANGED <<store, finished>>

\* Faulty variant: archive-maintain plans before it compacts.
PlanFirst == "plan"

AfterRecovery == IF run.cmd = "maintain" THEN "fold" ELSE "plan"

Recover ==
    /\ Running("recover")
    /\ \/ /\ Pending = {}
          /\ Goto(AfterRecovery) /\ UNCHANGED run
       \/ \E i \in Pending :
            /\ run' = [run EXCEPT !.work = i, !.left = i.ids]
            /\ Goto(IF i.pair = "loose" THEN "unlink pack" ELSE "next pair")
    /\ UNCHANGED <<store, finished>>

-----------------------------------------------------------------------------
(* Completing a journal: the loose pairs.                                   *)

UnlinkPack ==
    /\ Running("unlink pack")
    /\ \E p \in run.left :
         /\ Remove(Loose("pack", p))
         /\ run' = [run EXCEPT !.cur = p]
    /\ Goto("unlink snapshot")
    /\ UNCHANGED <<raw, finished>>

UnlinkSnapshot ==
    /\ Running("unlink snapshot")
    /\ Remove(Loose("snapshot", run.cur))
    /\ LET rest == run.left \ {run.cur}
       IN  /\ run' = [run EXCEPT !.left = rest]
           /\ Goto(IF rest = {} THEN "flush packs" ELSE "unlink pack")
    /\ UNCHANGED <<raw, finished>>

FlushPacks ==
    /\ Running("flush packs") /\ Flush("pack") /\ Goto("flush snapshots")
    /\ UNCHANGED <<run, finished>>

\* Faulty variant: the snapshots' directory is not flushed before the journal goes.
FlushSnapshotsLater ==
    /\ Running("flush snapshots") /\ Goto("clear")
    /\ UNCHANGED <<store, run, finished>>

FlushSnapshots ==
    /\ Running("flush snapshots") /\ Flush("snapshot") /\ Goto("clear")
    /\ UNCHANGED <<run, finished>>

-----------------------------------------------------------------------------
(* Completing a journal: the bundle pairs, each first in the snapshots'     *)
(* bundles, then in the packs'.                                             *)

NextPair ==
    /\ Running("next pair")
    /\ IF run.left = {}
       THEN Goto("flush retired") /\ UNCHANGED run
       ELSE \E p \in run.left :
              /\ run' = [run EXCEPT !.cur = p, !.kind = "snapshot", !.left = run.left \ {p}]
              /\ Goto("retire")
    /\ UNCHANGED <<store, finished>>

\* Faulty variant: a bundle that is gone already stops the completion.
StillNamed == {S \in run.work.old[run.kind] : run.cur \in S}

\* A bundle that is gone already was retired before.
StillHeld == {S \in run.work.old[run.kind] \cap BundlesOf(run.kind) : run.cur \in S}

Retire ==
    /\ Running("retire")
    /\ \/ ~SurvivorThere(run.kind) /\ Throw /\ UNCHANGED <<disk, sure, maybe>>
       \/ /\ SurvivorThere(run.kind)
          /\ \E S \in StillHeld : Remove(Bundle(run.kind, S))
          /\ run' = [run EXCEPT !.retired = TRUE]
          /\ Goto("retire")
       \/ /\ SurvivorThere(run.kind) /\ StillHeld = {}
          /\ IF run.kind = "snapshot"
             THEN run' = [run EXCEPT !.kind = "pack"] /\ Goto("retire")
             ELSE UNCHANGED run /\ Goto("next pair")
          /\ UNCHANGED <<disk, sure, maybe>>
    /\ UNCHANGED <<raw, finished>>

\* Flushes only what this run itself removed.
FlushRetired ==
    /\ Running("flush retired")
    /\ IF run.retired THEN Flush("bundle") ELSE UNCHANGED store
    /\ Goto("clear")
    /\ UNCHANGED <<run, finished>>

-----------------------------------------------------------------------------
(* The journal goes last, and the run goes on after what it completed.      *)

ClearJournal ==
    /\ Running("clear")
    /\ Remove(Journal(run.work))
    /\ Goto("flush clear")
    /\ UNCHANGED <<raw, run, finished>>

FlushClear ==
    /\ Running("flush clear")
    /\ Flush("journal")
    /\ finished' = finished \cup {p \in run.work.ids : NoCopy(p)}
    /\ run' = [run EXCEPT !.work = NoWork, !.retired = FALSE, !.left = {},
                          !.cur = None, !.kind = "snapshot",
                          !.recovered = IF run.stage = "recovery" /\ run.work.pair = "bundle"
                                        THEN run.work.ids ELSE @]
    /\ Goto(CASE run.stage = "recovery" -> AfterRecovery
              [] run.stage = "loose" -> "bundle pairs"
              [] run.stage = "bundle" -> "single")

-----------------------------------------------------------------------------
(* Compaction of one kind after the other: fold everything into one bundle, *)
(* retire the bundles it covers, unlink the files it covers.  No flush.     *)

NextKind(r, after) ==
    IF run.kind = "snapshot"
    THEN run' = [r EXCEPT !.kind = "pack"] /\ Goto("fold")
    ELSE run' = [r EXCEPT !.kind = "snapshot"] /\ Goto(after)

AfterFold == IF run.cmd = "maintain" /\ run.stage = "recovery" THEN "plan" ELSE "done"

\* Faulty variant: compaction goes ahead with a journal pending.
FoldAnyway ==
    /\ Running("fold")
    /\ LET all == LooseOf(run.kind) \cup Members(run.kind)
           keep == Bundle(run.kind, all)
       IN  \/ /\ all = {}
              /\ NextKind(run, AfterFold) /\ UNCHANGED store
           \/ /\ all /= {}
              /\ IF keep \in disk
                 THEN UNCHANGED store
                 ELSE /\ Put(keep)
                      /\ raw' = IF "power" \in scenario.faults THEN raw \cup {keep} ELSE raw
              /\ Goto("supersede") /\ UNCHANGED run
    /\ UNCHANGED finished

Fold ==
    /\ Running("fold")
    /\ LET all == LooseOf(run.kind) \cup Members(run.kind)
           keep == Bundle(run.kind, all)
       IN  \/ /\ Pending /= {}
              /\ Throw /\ UNCHANGED store
           \/ /\ Pending = {} /\ all = {}
              /\ NextKind(run, AfterFold) /\ UNCHANGED store
           \/ /\ Pending = {} /\ all /= {}
              /\ IF keep \in disk
                 THEN UNCHANGED store
                 ELSE /\ Put(keep)
                      /\ raw' = IF "power" \in scenario.faults THEN raw \cup {keep} ELSE raw
              /\ Goto("supersede") /\ UNCHANGED run
    /\ UNCHANGED finished

Supersede ==
    /\ Running("supersede")
    /\ LET covered == BundlesOf(run.kind) \ {Members(run.kind)}
       IN  \/ /\ \E S \in covered : Remove(Bundle(run.kind, S))
              /\ Goto("supersede")
           \/ /\ covered = {}
              /\ UNCHANGED <<disk, sure, maybe>>
              /\ Goto("uncover")
    /\ UNCHANGED <<raw, run, finished>>

\* An unlink that fails is skipped, and the run goes on.
UnlinkFails ==
    /\ "abort" \in scenario.faults /\ faults < MaxFaults /\ faults' = faults + 1
    /\ UNCHANGED <<store, finished, scenario>>
Skipping == [run EXCEPT !.skipped = TRUE]

Uncover ==
    LET covered == LooseOf(run.kind) \cap Members(run.kind)
    IN  \/ /\ Running("uncover")
           /\ \/ /\ \E p \in covered : Remove(Loose(run.kind, p))
                 /\ Goto("uncover") /\ UNCHANGED run
              \/ /\ covered = {}
                 /\ UNCHANGED <<disk, sure, maybe>>
                 /\ NextKind(run, AfterFold)
           /\ UNCHANGED <<raw, finished>>
        \/ /\ pc = "uncover" /\ covered # {} /\ UnlinkFails
           /\ NextKind(Skipping, AfterFold)

-----------------------------------------------------------------------------
(* The retention plan, the delete authority of the run.  A pack is dropped  *)
(* with its snapshot or not at all; a bundle pair this run recovered waits  *)
(* for the next one.                                                        *)

OnlyFile(k, p) == p \in LooseOf(k) \ Members(k)

Plan ==
    /\ Running("plan")
    /\ LET drop == Old \ run.recovered
           packless == {p \in drop : p \notin LooseOf("pack") \cup Members("pack")}
       IN  run' = [run EXCEPT !.plan =
             [loose |-> {p \in drop : \A k \in Kinds : OnlyFile(k, p)},
              bundle |-> {p \in drop : \A k \in Kinds : p \in Members(k)},
              single |-> packless \cap Members("snapshot"),
              file |-> {p \in packless : OnlyFile("snapshot", p)}]]
    /\ Goto("loose pairs")
    /\ UNCHANGED <<store, finished>>

LoosePairs ==
    /\ Running("loose pairs")
    /\ \/ Pending /= {} /\ Throw
       \/ /\ Pending = {} /\ run.plan.loose = {}
          /\ Goto("bundle pairs") /\ UNCHANGED run
       \/ /\ Pending = {} /\ run.plan.loose /= {}
          /\ run' = [run EXCEPT !.work = LooseIntent(run.plan.loose),
                                !.left = run.plan.loose, !.stage = "loose"]
          /\ Goto("preflight")
    /\ UNCHANGED <<store, finished>>

\* Faulty variant: a pair with mixed sources is deleted like any other.
AnyLooseness(p) == p \in Old

\* One side with a file of its own would survive its partner.
SameLooseness(p) == p \in LooseOf("snapshot") <=> p \in LooseOf("pack")

BundlePairs ==
    /\ Running("bundle pairs")
    /\ LET ids == {p \in run.plan.bundle : SameLooseness(p)}
       IN  \/ Pending /= {} /\ run.plan.bundle /= {} /\ Throw /\ UNCHANGED store
           \/ /\ run.plan.bundle = {}
              /\ Goto("single") /\ UNCHANGED <<store, run>>
           \/ /\ Pending = {} /\ run.plan.bundle /= {}
              /\ Flush("bundle")
              /\ IF ids = {}
                 THEN Goto("single") /\ UNCHANGED run
                 ELSE /\ run' = [run EXCEPT !.work = BundleIntent(ids), !.left = ids,
                                            !.stage = "bundle"]
                      /\ Goto("survivor")
    /\ UNCHANGED finished

-----------------------------------------------------------------------------
(* The reduced bundles are durable before anything is decided.  One that    *)
(* exists already has its data and its entry flushed again.                 *)

NextSurvivor ==
    IF run.kind = "snapshot" /\ run.work.pair = "bundle"
    THEN run' = [run EXCEPT !.kind = "pack"] /\ Goto("survivor")
    ELSE /\ run' = [run EXCEPT !.kind = "snapshot"]
         /\ Goto(IF run.work.pair = "bundle" THEN "verify" ELSE "retire single")

\* Faulty variant: a bundle that exists already is taken as durable.
WriteSurvivorOnce ==
    /\ Running("survivor")
    /\ LET S == run.work.survivor[run.kind]
       IN  \/ S \in {{}} \cup BundlesOf(run.kind) /\ NextSurvivor /\ UNCHANGED store
           \/ /\ S \notin {{}} \cup BundlesOf(run.kind)
              /\ Put(Bundle(run.kind, S)) /\ raw' = raw \ {Bundle(run.kind, S)}
              /\ Goto("flush survivor") /\ UNCHANGED run
    /\ UNCHANGED finished

WriteSurvivor ==
    /\ Running("survivor")
    /\ LET S == run.work.survivor[run.kind]
       IN  \/ S = {} /\ NextSurvivor /\ UNCHANGED store
           \/ /\ S /= {}
              /\ Put(Bundle(run.kind, S)) /\ raw' = raw \ {Bundle(run.kind, S)}
              /\ Goto("flush survivor") /\ UNCHANGED run
    /\ UNCHANGED finished

FlushSurvivor ==
    /\ Running("flush survivor") /\ Flush("bundle") /\ NextSurvivor
    /\ UNCHANGED finished

\* Only a journal that recovery can complete is written.
Verify ==
    /\ Running("verify")
    /\ IF \A k \in Kinds : SurvivorThere(k) /\ run.work.old[k] \subseteq BundlesOf(k)
       THEN Goto("preflight") /\ UNCHANGED run
       ELSE Throw
    /\ UNCHANGED <<store, finished>>

-----------------------------------------------------------------------------
(* The commit: a flush before anything is on disk, the rename, the flush    *)
(* that makes it durable.                                                   *)

Preflight ==
    /\ Running("preflight") /\ Flush("journal") /\ Goto("commit")
    /\ UNCHANGED <<run, finished>>

Commit ==
    /\ Running("commit")
    /\ \/ /\ Pending = {} /\ Put(Journal(run.work))
          /\ Goto("flush commit") /\ UNCHANGED run
       \/ Pending /= {} /\ Throw /\ UNCHANGED <<disk, sure, maybe>>
    /\ UNCHANGED <<raw, finished>>

FlushCommit ==
    /\ Running("flush commit") /\ Flush("journal")
    /\ Goto(IF run.work.pair = "loose" THEN "unlink pack" ELSE "next pair")
    /\ UNCHANGED <<run, finished>>

-----------------------------------------------------------------------------
(* Snapshots without a pack need no journal: bundle members by a removal of *)
(* their own, files by an unlink.                                           *)

Single ==
    /\ Running("single")
    /\ IF run.plan.single = {}
       THEN Goto("file") /\ UNCHANGED <<store, run>>
       ELSE /\ Flush("bundle")
            /\ run' = [run EXCEPT !.work = SingleRemoval(run.plan.single)]
            /\ Goto("survivor")
    /\ UNCHANGED finished

RetireSingle ==
    /\ Running("retire single")
    /\ LET olds == run.work.old["snapshot"] \cap BundlesOf("snapshot")
       IN  \/ olds /= {} /\ ~SurvivorThere("snapshot") /\ Throw
              /\ UNCHANGED <<disk, sure, maybe>>
           \/ /\ SurvivorThere("snapshot")
              /\ \E S \in olds : Remove(Bundle("snapshot", S))
              /\ run' = [run EXCEPT !.retired = TRUE]
              /\ Goto("retire single")
           \/ /\ olds = {}
              /\ Goto("flush single")
              /\ UNCHANGED <<run, disk, sure, maybe>>
    /\ UNCHANGED <<raw, finished>>

FlushSingle ==
    /\ Running("flush single")
    /\ IF run.retired THEN Flush("bundle") ELSE UNCHANGED store
    /\ run' = [run EXCEPT !.work = NoWork, !.retired = FALSE]
    /\ Goto("file")
    /\ UNCHANGED finished

\* archive-maintain compacts again when files are left (bundles are one of each
\* kind since it compacted before).
EndRetention(r) ==
    IF r.cmd = "maintain" /\ \E k \in Kinds : LooseOf(k) /= {}
    THEN Goto("fold") /\ run' = [r EXCEPT !.stage = "again"]
    ELSE Goto("done") /\ run' = r

UnlinkFile ==
    LET files == run.plan.file \cap LooseOf("snapshot")
    IN  \/ /\ Running("file")
           /\ \/ /\ \E p \in files : Remove(Loose("snapshot", p))
                 /\ Goto("file") /\ UNCHANGED run
              \/ /\ files = {}
                 /\ UNCHANGED <<disk, sure, maybe>>
                 /\ EndRetention(run)
           /\ UNCHANGED <<raw, finished>>
        \/ /\ pc = "file" /\ files # {} /\ UnlinkFails
           /\ EndRetention(Skipping)

Finish ==
    /\ Running("done") /\ Goto("idle") /\ run' = Fresh(None)
    /\ UNCHANGED <<store, finished>>

-----------------------------------------------------------------------------
(* Faults.                                                                  *)

\* A kill, an error or a failed flush: the run ends, what it did stays visible.
\* (A failed unlink of a loose file outside a journal does not end it.)
Abort ==
    /\ "abort" \in scenario.faults /\ faults < MaxFaults /\ pc /= "idle"
    /\ faults' = faults + 1
    /\ Throw
    /\ UNCHANGED <<store, finished, scenario>>

\* A power loss keeps any part of what was not flushed, and ends the run.
PowerLoss ==
    /\ "power" \in scenario.faults /\ faults < MaxFaults
    /\ faults' = faults + 1
    /\ \E kept \in SUBSET (maybe \ sure) :
         /\ disk' = sure \cup kept /\ sure' = sure \cup kept /\ maybe' = sure \cup kept
    /\ raw' = {}
    /\ Throw
    /\ UNCHANGED <<finished, scenario>>

-----------------------------------------------------------------------------
Init ==
    /\ scenario \in Scenarios
    /\ \E s \in Stores :
         /\ disk = s.disk /\ maybe = s.disk
         /\ IF "power" \in scenario.faults THEN sure = s.sure /\ raw = s.raw
                                           ELSE sure = s.disk /\ raw = {}
    /\ pc = "idle" /\ run = Fresh(None)
    /\ finished = {} /\ faults = 0

Complete ==
    \/ Recover \/ UnlinkPack \/ UnlinkSnapshot \/ FlushPacks \/ FlushSnapshots
    \/ NextPair \/ Retire \/ FlushRetired \/ ClearJournal \/ FlushClear
Compact == Fold \/ Supersede \/ Uncover
Retain ==
    \/ Plan \/ LoosePairs \/ BundlePairs \/ WriteSurvivor \/ FlushSurvivor \/ Verify
    \/ Preflight \/ Commit \/ FlushCommit
    \/ Single \/ RetireSingle \/ FlushSingle \/ UnlinkFile \/ Finish
Step == Complete \/ Compact \/ Retain

Next == (\E c \in Commands : Start(c)) \/ Step \/ Abort \/ PowerLoss

Spec == Init /\ [][Next]_vars

\* A run goes on until it ends, and the operator keeps coming back to a command
\* that recovers first, as every message about a pending journal asks for.
FairSpec ==
    /\ Spec /\ WF_vars(Step)
    /\ SF_vars(Start("retention") \/ Start("maintain"))

-----------------------------------------------------------------------------
(* Properties.                                                              *)

\* Both or neither: no reader, at any moment and after any crash, resolves a
\* snapshot whose pack is gone or a pack without its snapshot.
PairIsWhole ==
    \A p \in Paired : Resolves("snapshot", p) <=> Resolves("pack", p)

\* Retention and compaction rebuild the bundles that hold what must stay: every
\* record of a phase the plan keeps resolves at every moment.
KeptStays ==
    \A p \in Phases \ Old :
        /\ Resolves("snapshot", p)
        /\ p \in Paired => Resolves("pack", p)

\* A journal on disk can always be completed: it is the only one, it has the
\* shape a reader accepts (some pair, and for a bundle pair some bundle to retire
\* of each kind), and the bundles that hold the survivors of its pairs are there,
\* whatever other command ran in between.
JournalIsCompletable ==
    \A i \in Pending :
        /\ Pending = {i} /\ i.ids # {}
        /\ i.pair = "bundle" => \A k \in Kinds :
            i.old[k] # {} /\ i.survivor[k] \in {{}} \cup BundlesOf(k)

\* A phase whose deletion was completed and whose journal is cleared does not
\* come back, not even after a power loss.
ReportedStaysGone == \A p \in finished : NoCopy(p)

\* archive-maintain bounds the archive in one run: a run that recovered no
\* bundle pair, and did not report that it skipped a file it could not unlink,
\* leaves no old phase, no file outside the bundles and one bundle of each kind
\* at most.
MaintainConverges ==
    (pc = "done" /\ run.cmd = "maintain" /\ run.recovered = {} /\ ~run.skipped) =>
        /\ \A p \in Old : NoCopy(p)
        /\ \A k \in Kinds : LooseOf(k) = {} /\ \A S, T \in BundlesOf(k) : S = T

\* A committed deletion is completed: a pending journal is eventually cleared.
PendingIsCompleted == Pending /= {} ~> Pending = {}
=============================================================================
