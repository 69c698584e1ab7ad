-------------------------- MODULE ExecutionProofs --------------------------
(***************************************************************************)
(* What runs commands and judges them: a bounded command, the staged       *)
(* verifications that run such commands, and task execute.                 *)
(*                                                                         *)
(* Bounded command, for any policy and any number of verifications: the    *)
(* supervisor's memory of one attempt is enough, however the child and its *)
(* descendants behave.  Verification: the ledger and every copy of it hold *)
(* attempts that were recorded; as long as nobody raced for it and no      *)
(* write was cut early it holds all of them, the full ones in the order    *)
(* they ended.                                                             *)
(* Task execute, for any number of foreign steps and faults: before the    *)
(* edit nobody has the edited text; what was just compared is still so     *)
(* unless Others have moved; after a rollback that put the text back or    *)
(* found another one, the edited text can only be there because somebody   *)
(* committed it.                                                           *)
(***************************************************************************)
EXTENDS ExecuteOnce, VerifyStages, SequenceTheorems, TLAPS


-----------------------------------------------------------------------------
(* The inductive invariant.                                                *)

CommandTypeOK ==
    /\ root \in {"none", "running", "zero", "nonzero", "killed"}
    /\ group \in {"empty", "silent", "holding"} /\ stray \in BOOLEAN
    /\ doomed \in {"nobody", "root", "group"}
    /\ cause \in {"none", "timeout", "abort"}
    /\ completed \in {"none", "yes", "no"}
    /\ closed \in {"no", "null", "zero", "nonzero"}
    /\ sup \in {"idle", "racing", "kill", "wait", "close"}

\* An undecided race has hurt nobody and saw no abort, a decided one was not
\* won by the close; the exit code of a late close is the root's.
RaceIsRemembered ==
    /\ sup \in {"idle", "racing"} => doomed = "nobody" /\ cause = "none" /\ completed = "none" /\ closed = "no"
    /\ sup \in {"kill", "wait", "close"} => cause \in {"timeout", "abort"}
    /\ sup = "racing" => ~signal
    /\ sup # "idle" => root # "none"
    /\ closed # "no" => root # "running" /\ closed \in {"null", root}

\* An empty process group stays empty.
GroupStaysEmpty == completed = "yes" => ~GroupExists

CommandInv == CommandTypeOK /\ RaceIsRemembered /\ GroupStaysEmpty

-----------------------------------------------------------------------------
LEMMA CommandInitEstablishes == VerifyInit => CommandInv
  BY DEF VerifyInit, CommandInit, CommandInv, CommandTypeOK, RaceIsRemembered, GroupStaysEmpty

\* A settled command leaves nothing to the next one.
LEMMA SettleKeeps ==
  ASSUME NEW exit, NEW reason, NEW tr, Settle(exit, reason, tr)
  PROVE  CommandInv'
  BY DEF Settle, CommandInv, CommandTypeOK, RaceIsRemembered, GroupStaysEmpty

LEMMA StartKeeps ==
  ASSUME CommandInv, Start
  PROVE  CommandInv'
<1>1. CASE \E reason : Settle("null", reason, "none")
  BY <1>1, SettleKeeps
<1>2. CASE sup = "idle" /\ ~signal /\ root' = "running" /\ sup' = "racing"
           /\ UNCHANGED <<group, stray, attempt, signal>>
  BY <1>2 DEF attempt, CommandInv, CommandTypeOK, RaceIsRemembered, GroupStaysEmpty
<1> QED
  BY <1>1, <1>2 DEF Start

LEMMA CloseEventKeeps ==
  ASSUME CommandInv, CloseEvent
  PROVE  CommandInv'
<1> DEFINE code == IF root = "killed" THEN "null" ELSE root
<1>1. CASE Settle(code, "close", "none")
  BY <1>1, SettleKeeps
<1>2. CASE sup # "racing" /\ closed' = code /\ UNCHANGED <<child, doomed, sup, cause, completed, outcome>>
  <2>1. code \in {"null", "zero", "nonzero"} /\ code \in {"null", root} /\ root # "running"
    BY DEF CommandInv, CommandTypeOK, RaceIsRemembered, CloseEvent, PipesHeld
  <2> QED
    BY <1>2, <2>1 DEF CloseEvent, child, CommandInv, CommandTypeOK, RaceIsRemembered, GroupStaysEmpty, GroupExists
<1> QED
  BY <1>1, <1>2 DEF CloseEvent

LEMMA SuperviseKeeps ==
  ASSUME CommandInv, Supervise
  PROVE  CommandInv'
<1> USE DEF CommandInv, CommandTypeOK, RaceIsRemembered, GroupStaysEmpty, GroupExists
<1>1. CASE CloseEvent
  BY <1>1, CloseEventKeeps
<1>2. CASE Timeout
  BY <1>2 DEF Timeout, child
<1>3. CASE KillTree
  BY <1>3 DEF KillTree, child
<1>4. CASE WaitForExit
  BY <1>4 DEF WaitForExit, child
<1>5. CASE CloseOrDeadline
  BY <1>5, SettleKeeps DEF CloseOrDeadline
<1> QED
  BY <1>1, <1>2, <1>3, <1>4, <1>5 DEF Supervise

LEMMA EnvironmentKeeps ==
  ASSUME CommandInv, Environment
  PROVE  CommandInv'
<1> USE DEF CommandInv, CommandTypeOK, RaceIsRemembered, GroupStaysEmpty, GroupExists
<1>1. CASE EditTree \/ OtherEnds \/ OtherRecords
  BY <1>1 DEF EditTree, OtherEnds, OtherRecords, commandVars, child, supervisor, attempt
<1>2. CASE Tree
  <2>1. sup # "idle" /\ UNCHANGED <<doomed, cause, completed, closed, sup, outcome, signal>>
    BY <1>2 DEF Tree, RootExits, Forks, DescendantsExit, TreeStep, supervisor, attempt
  <2>2. /\ root' = root \/ (root = "running" /\ root' \in {"zero", "nonzero", "killed"})
        /\ group' \in {"empty", "silent", "holding"} /\ stray' \in BOOLEAN
        /\ group' = "empty" \/ GroupExists
    BY <1>2 DEF Tree, RootExits, Forks, DescendantsExit
  <2>3. completed = "yes" => ~GroupExists'
    BY <2>1, <2>2
  <2> QED
    BY <2>1, <2>2, <2>3
<1>3. CASE Abort
  BY <1>3 DEF Abort, child
<1>4. CASE Killed
  BY <1>4, SettleKeeps DEF Killed
<1> QED
  BY <1>1, <1>2, <1>3, <1>4 DEF Environment

LEMMA VerifierKeeps ==
  ASSUME CommandInv, Begin \/ Verifier
  PROVE  CommandInv'
<1> USE DEF CommandInv, CommandTypeOK, RaceIsRemembered, GroupStaysEmpty, GroupExists
<1>1. CASE RunCommand
  BY <1>1, StartKeeps DEF RunCommand
<1>2. CASE Check
  BY <1>2 DEF Check, child, attempt
<1>3. CASE \/ Authorize \/ Settled \/ RecordStageAttempt
           \/ Identify("identify", "authorize") \/ Identify("key", "ledger")
  BY <1>3 DEF Authorize, Settled, RecordStageAttempt, Identify, commandVars, child, supervisor, attempt
<1>4. CASE Begin
  BY <1>4 DEF Begin, child, supervisor, attempt
<1> QED
  BY <1>1, <1>2, <1>3, <1>4 DEF Verifier

LEMMA CommandNextKeeps == CommandInv /\ [VerifyNext]_verifyVars => CommandInv'
<1> SUFFICES ASSUME CommandInv, [VerifyNext]_verifyVars PROVE CommandInv'
  OBVIOUS
<1>1. CASE UNCHANGED verifyVars
  BY <1>1 DEF verifyVars, commandVars, child, supervisor, attempt, CommandInv, CommandTypeOK,
              RaceIsRemembered, GroupStaysEmpty, GroupExists
<1> QED
  BY <1>1, VerifierKeeps, EnvironmentKeeps, SuperviseKeeps DEF VerifyNext

LEMMA AlwaysCommandInv == VerifySpec => []CommandInv
  BY CommandInitEstablishes, CommandNextKeeps, PTL DEF VerifySpec

-----------------------------------------------------------------------------
(* Theorems.                                                               *)

\* Only the supervisor settles a command it has started, or a kill ends both.
LEMMA WhoSettles ==
  ASSUME [VerifyNext]_verifyVars, sup # "idle", sup' = "idle"
  PROVE  (sup = "racing" /\ CloseEvent) \/ CloseOrDeadline \/ Killed
<1>1. CASE UNCHANGED verifyVars
  BY <1>1 DEF verifyVars, commandVars, supervisor
<1>2. CASE Begin \/ Verifier
  BY <1>2 DEF Begin, Verifier, Identify, Authorize, RunCommand, Settled, Check, RecordStageAttempt,
              commandVars, supervisor
<1>3. CASE Environment /\ ~Killed
  BY <1>3 DEF Environment, EditTree, OtherEnds, OtherRecords, Tree, RootExits, Forks, DescendantsExit,
              TreeStep, Abort, commandVars, supervisor
<1>4. CASE Supervise
  BY <1>4 DEF Supervise, CloseEvent, Timeout, KillTree, WaitForExit
<1> QED
  BY <1>1, <1>2, <1>3, <1>4 DEF VerifyNext

(* What a settled command says is so, whatever its descendants do, with    *)
(* the pipes or without: ok means that the root ended by itself with zero, *)
(* nobody was killed and no abort had come; a reported exit code is the    *)
(* root's; a termination said to be complete left no live member of the    *)
(* group.                                                                  *)
THEOREM OutcomeIsTrueHolds == VerifySpec => OutcomeIsTrue
<1>1. ASSUME CommandInv, [VerifyNext]_verifyVars, sup # "idle", sup' = "idle"
      PROVE  /\ Ok(outcome') => root = "zero" /\ doomed = "nobody" /\ ~signal
             /\ outcome'.exit # "null" => outcome'.exit = root
             /\ outcome'.tree = "yes" => ~GroupExists
  <2>1. CASE sup = "racing" /\ CloseEvent
    <3>1. outcome' = Outcome(IF root = "killed" THEN "null" ELSE root, "close", "none")
      BY <2>1 DEF CloseEvent, Settle
    <3>2. ~signal /\ doomed = "nobody"
      BY <1>1, <2>1 DEF CommandInv, RaceIsRemembered
    <3> QED
      BY <3>1, <3>2 DEF Outcome, Ok
  <2>2. CASE CloseOrDeadline
    <3>1. outcome' = Outcome(IF closed = "no" THEN "null" ELSE closed, cause, completed)
      BY <2>2 DEF CloseOrDeadline, Settle
    <3>2. cause # "close" /\ (closed # "no" => closed \in {"null", root})
      BY <1>1 DEF CommandInv, CommandTypeOK, RaceIsRemembered
    <3> QED
      BY <1>1, <3>1, <3>2 DEF Outcome, Ok, CommandInv, GroupStaysEmpty
  <2>3. CASE Killed
    BY <2>3 DEF Killed, Settle, Outcome, Ok
  <2> QED
    BY <1>1, <2>1, <2>2, <2>3, WhoSettles
<1>2. commandVars' = commandVars => sup' = sup
  BY DEF commandVars, supervisor
<1> QED
  BY <1>1, <1>2, AlwaysCommandInv, PTL DEF VerifySpec, OutcomeIsTrue

-----------------------------------------------------------------------------
(* The verification ledger.                                                *)

Attempts == [stage : {"focused", "full"}, tree : Nat, failed : BOOLEAN, at : Nat]
Pens == [at : {"none", "ended", "append", "write"}, copy : Seq(Attempts), entry : Attempts]

FullPlaces(l) == {i \in DOMAIN l : l[i].stage = "full"}

\* The full attempts were recorded as they ended, and on every tree that has
\* some one of them is the last.
InOrder(l) ==
    /\ \A i, j \in FullPlaces(l) : i < j => l[i].at <= l[j].at
    /\ \A i \in FullPlaces(l) : LastFor(l, l[i].tree, "full") # {}

RecordsTypeOK ==
    /\ ledger \in Seq(Attempts) /\ truth \in Seq(Attempts)
    /\ legible \in BOOLEAN /\ spoiled \in BOOLEAN
    /\ pen \in [Processes -> Pens]

VerifierTypeOK ==
    /\ tree \in Nat /\ key \in Nat /\ clock \in Nat /\ finished \in Nat
    /\ stage \in {"focused", "full"} /\ failed \in BOOLEAN

\* Torn or overwritten, the ledger and its copies hold recorded attempts only.
Genuine ==
    /\ ledger \in Seq(ToSet(truth))
    /\ \A p \in Processes : pen[p].copy \in Seq(ToSet(truth))

\* At most one process writes, and nobody else then holds a copy; when none
\* does the ledger is what was recorded, and so is every copy that is held.
Writes(p) ==
    /\ pen[p].at = "write"
    /\ \A q \in Processes \ {p} : pen[q].at \in {"none", "ended"}

LedgerIsTrue ==
    /\ InOrder(truth)
    /\ \/ ledger = truth /\ \A p \in Processes : pen[p].at # "write"
       \/ ledger = <<>> /\ legible = TRUE /\ \E p \in Processes : Writes(p)
    /\ \A p \in Processes : pen[p].at \in {"append", "write"} => pen[p].copy = truth

RecordsInv == RecordsTypeOK /\ Genuine /\ (~spoiled => LedgerIsTrue)
LedgerInv == RecordsInv /\ VerifierTypeOK

\* One more attempt at the end.
LEMMA Recorded ==
  ASSUME NEW l \in Seq(Attempts), InOrder(l), NEW e \in Attempts,
         e.stage = "full" => \A i \in FullPlaces(l) : l[i].at <= e.at
  PROVE  InOrder(Append(l, e))
<1> DEFINE n == Len(l) + 1
           m == Append(l, e)
<1>1. /\ n \in Nat /\ DOMAIN l = 1 .. Len(l) /\ DOMAIN m = 1 .. n /\ n \notin DOMAIN l
      /\ DOMAIN m = DOMAIN l \cup {n} /\ \A j \in DOMAIN m : j <= n
  OBVIOUS
<1>2. m[n] = e /\ \A i \in DOMAIN l : m[i] = l[i] /\ i < n
  OBVIOUS
<1> HIDE DEF n, m
<1>3. \A i \in FullPlaces(m) : i = n \/ i \in FullPlaces(l)
  BY <1>1, <1>2 DEF FullPlaces
<1>4. ASSUME NEW i \in FullPlaces(m), NEW j \in FullPlaces(m), i < j
      PROVE  m[i].at <= m[j].at
  <2>1. i \in FullPlaces(l)
    BY <1>1, <1>3, <1>4 DEF FullPlaces
  <2>2. CASE j = n
    BY <1>2, <2>1, <2>2 DEF FullPlaces
  <2>3. CASE j \in FullPlaces(l)
    BY <1>2, <1>4, <2>1, <2>3 DEF InOrder, FullPlaces
  <2> QED  BY <1>3, <2>2, <2>3
<1>5. ASSUME NEW i \in FullPlaces(m)
      PROVE  LastFor(m, m[i].tree, "full") # {}
  <2>1. CASE e.stage = "full" /\ e.tree = m[i].tree
    <3>1. n \in LastFor(m, m[i].tree, "full")
      BY <1>1, <1>2, <2>1 DEF LastFor
    <3> QED  BY <3>1
  <2>2. CASE ~(e.stage = "full" /\ e.tree = m[i].tree)
    <3>1. i \in FullPlaces(l) /\ m[i] = l[i]
      BY <1>2, <1>3, <2>2 DEF FullPlaces
    <3>2. PICK j : j \in LastFor(l, l[i].tree, "full")
      BY <3>1 DEF InOrder
    <3>3. j \in DOMAIN m /\ m[j] = l[j]
      BY <1>1, <1>2, <3>2 DEF LastFor
    <3>4. j \in LastFor(m, m[i].tree, "full")
      BY <1>1, <1>2, <2>2, <3>1, <3>2, <3>3 DEF LastFor
    <3> QED  BY <3>4
  <2> QED  BY <2>1, <2>2
<1>6. InOrder(m)
  BY <1>4, <1>5 DEF InOrder
<1> QED  BY <1>6 DEF m

LEMMA Places ==
  ASSUME NEW l \in Seq(Attempts)
  PROVE  /\ ToSet(l) = {l[i] : i \in DOMAIN l} /\ ToSet(l) \subseteq Attempts
         /\ \A i \in DOMAIN l : l[i] \in Attempts
BY DEF ToSet

LEMMA PenMoves ==
  ASSUME RecordsTypeOK, NEW p \in Processes, NEW x \in Pens, pen' = [pen EXCEPT ![p] = x]
  PROVE  /\ pen' \in [Processes -> Pens] /\ pen'[p] = x
         /\ \A q \in Processes \ {p} : pen'[q] = pen[q]
BY DEF RecordsTypeOK

LEMMA NoPenIsTyped == NoPen \in Pens /\ NoPen.at = "none" /\ NoPen.copy = <<>>
<1>1. <<>> \in Seq(Attempts)
  OBVIOUS
<1> QED  BY <1>1 DEF NoPen, Pen, Pens, Attempt, Attempts

LEMMA EmptyIsGenuine == \A S : <<>> \in Seq(S)
OBVIOUS

LEMMA LedgerInit == VerifyInit => LedgerInv
<1> SUFFICES ASSUME VerifyInit PROVE LedgerInv
  OBVIOUS
<1>1. /\ ledger = <<>> /\ truth = <<>> /\ legible = TRUE /\ spoiled = FALSE
      /\ pen = [p \in Processes |-> NoPen]
  BY DEF VerifyInit
<1>2. RecordsTypeOK
  BY <1>1, NoPenIsTyped, EmptyIsGenuine DEF RecordsTypeOK
<1>3. Genuine
  BY <1>1, NoPenIsTyped, EmptyIsGenuine DEF Genuine
<1>4. InOrder(truth)
  BY <1>1 DEF InOrder, FullPlaces
<1>5. LedgerIsTrue
  BY <1>1, <1>4, NoPenIsTyped DEF LedgerIsTrue
<1> QED
  BY <1>2, <1>3, <1>5 DEF VerifyInit, LedgerInv, RecordsInv, VerifierTypeOK

\* A step that touches no record.
LEMMA QuietKeeps ==
  ASSUME RecordsInv, UNCHANGED records
  PROVE  RecordsInv'
BY DEF records, RecordsInv, RecordsTypeOK, Genuine, LedgerIsTrue, Writes, InOrder, FullPlaces, LastFor

\* A process that holds a copy drops it, or one that holds none goes on
\* holding none.
LEMMA PenlessKeeps ==
  ASSUME RecordsInv, NEW p \in Processes, NEW x \in Pens, pen[p].at # "write",
         x.at \in {"none", "ended"}, x.copy = <<>>,
         pen' = [pen EXCEPT ![p] = x], UNCHANGED <<ledger, legible, truth, spoiled>>
  PROVE  RecordsInv'
<1>1. /\ pen' \in [Processes -> Pens] /\ pen'[p] = x /\ \A q \in Processes \ {p} : pen'[q] = pen[q]
  BY PenMoves DEF RecordsInv
<1>2. RecordsTypeOK' /\ Genuine'
  BY <1>1, EmptyIsGenuine DEF RecordsInv, RecordsTypeOK, Genuine
<1>3. ASSUME ~spoiled PROVE LedgerIsTrue'
  <2>1. LedgerIsTrue /\ InOrder(truth)'
    BY <1>3 DEF RecordsInv, LedgerIsTrue, InOrder, FullPlaces, LastFor
  <2>2. ASSUME NEW q \in Processes, Writes(q) PROVE Writes(q)'
    BY <1>1, <2>2 DEF Writes
  <2> QED
    BY <1>1, <2>1, <2>2 DEF LedgerIsTrue
<1> QED
  BY <1>2, <1>3 DEF RecordsInv

LEMMA ReadKeeps ==
  ASSUME RecordsInv, NEW p \in Processes, NEW e \in Attempts, ReadLedger(p, e)
  PROVE  RecordsInv'
<1> DEFINE x == Pen("append", ledger, e)
<1>1. /\ UNCHANGED <<ledger, legible, truth>> /\ pen[p].at \in {"none", "ended"}
      /\ pen' = [pen EXCEPT ![p] = x]
      /\ spoiled' = (spoiled \/ Elsewhere(p, {"write"}))
  BY DEF ReadLedger
<1>2. x \in Pens /\ x.at = "append" /\ x.copy = ledger
  BY DEF Pen, Pens, RecordsInv, RecordsTypeOK
<1>3. /\ pen' \in [Processes -> Pens] /\ pen'[p] = x /\ \A q \in Processes \ {p} : pen'[q] = pen[q]
  BY <1>1, <1>2, PenMoves DEF RecordsInv
<1>4. spoiled' \in BOOLEAN
  BY <1>1 DEF Elsewhere, RecordsInv, RecordsTypeOK
<1>5. RecordsTypeOK' /\ Genuine'
  BY <1>1, <1>2, <1>3, <1>4 DEF RecordsInv, RecordsTypeOK, Genuine
<1>6. ASSUME ~spoiled' PROVE LedgerIsTrue'
  <2>1. ~spoiled /\ \A q \in Processes : pen[q].at # "write"
    BY <1>1, <1>6 DEF Elsewhere
  <2>2. LedgerIsTrue /\ InOrder(truth)'
    BY <1>1, <2>1 DEF RecordsInv, LedgerIsTrue, InOrder, FullPlaces, LastFor
  <2>3. ledger = truth
    BY <2>1, <2>2 DEF LedgerIsTrue, Writes
  <2> QED
    BY <1>1, <1>2, <1>3, <2>1, <2>2, <2>3 DEF LedgerIsTrue
<1> QED
  BY <1>5, <1>6 DEF RecordsInv

LEMMA OpenKeeps ==
  ASSUME RecordsInv, NEW p \in Processes, OpenLedger(p)
  PROVE  RecordsInv'
<1> DEFINE x == [pen[p] EXCEPT !.at = "write"]
<1>1. /\ ledger' = <<>> /\ legible' = TRUE /\ truth' = truth /\ pen[p].at = "append"
      /\ spoiled' = (spoiled \/ Elsewhere(p, {"append", "write"}))
      /\ pen' = [pen EXCEPT ![p] = x]
  BY DEF OpenLedger
<1>2. x \in Pens /\ x.at = "write" /\ x.copy = pen[p].copy
  BY DEF Pens, RecordsInv, RecordsTypeOK
<1>3. /\ pen' \in [Processes -> Pens] /\ pen'[p] = x /\ \A q \in Processes \ {p} : pen'[q] = pen[q]
  BY <1>1, <1>2, PenMoves DEF RecordsInv
<1>4. spoiled' \in BOOLEAN
  BY <1>1 DEF Elsewhere, RecordsInv, RecordsTypeOK
<1>5. RecordsTypeOK' /\ Genuine'
  BY <1>1, <1>2, <1>3, <1>4, EmptyIsGenuine DEF RecordsInv, RecordsTypeOK, Genuine
<1>6. ASSUME ~spoiled' PROVE LedgerIsTrue'
  <2>1. ~spoiled /\ \A q \in Processes \ {p} : pen[q].at \in {"none", "ended"}
    BY <1>1, <1>6 DEF Elsewhere, RecordsInv, RecordsTypeOK, Pens
  <2>2. LedgerIsTrue /\ InOrder(truth)'
    BY <1>1, <2>1 DEF RecordsInv, LedgerIsTrue, InOrder, FullPlaces, LastFor
  <2>3. pen[p].copy = truth
    BY <1>1, <2>2 DEF LedgerIsTrue
  <2>4. Writes(p)'
    BY <1>2, <1>3, <2>1 DEF Writes
  <2> QED
    BY <1>1, <1>2, <1>3, <2>1, <2>2, <2>3, <2>4 DEF LedgerIsTrue
<1> QED
  BY <1>5, <1>6 DEF RecordsInv

\* What a cut write leaves in the file, and what a whole one does.
LEMMA CutOf ==
  ASSUME NEW S, NEW c \in Seq(S), NEW e, NEW n \in 0 .. Len(c) + 1, n = Len(c) + 1 => e \in S,
         NEW l \in Seq(S), NEW m \in 1 .. Len(l) + 1
  PROVE  SubSeq(Append(c, e), 1, n) \o SubSeq(l, m, Len(l)) \in Seq(S)
<1>1. \A i \in 1 .. n : Append(c, e)[i] \in S
  OBVIOUS
<1>2. SubSeq(Append(c, e), 1, n) \in Seq(S)
  BY <1>1, SubSeqProperties
<1>3. SubSeq(l, m, Len(l)) \in Seq(S)
  BY SubSeqProperties
<1> QED
  BY <1>2, <1>3, ConcatProperties

LEMMA WholeOf ==
  ASSUME NEW c \in Seq(Attempts), NEW e \in Attempts, NEW n \in {Len(c), Len(c) + 1}, NEW m \in 1 .. 1
  PROVE  SubSeq(Append(c, e), 1, n) \o SubSeq(<<>>, m, Len(<<>>))
           = IF n = Len(c) THEN c ELSE Append(c, e)
<1>1. SubSeq(<<>>, m, Len(<<>>)) = <<>>
  BY SubSeqEmpty
<1>2. Append(c, e) \in Seq(Attempts) /\ Len(Append(c, e)) = Len(c) + 1
  OBVIOUS
<1>3. SubSeq(Append(c, e), 1, Len(c) + 1) = Append(c, e)
  BY <1>2, SubSeqFull
<1>4. SubSeq(Append(c, e), 1, Len(c)) = c
  OBVIOUS
<1> QED
  BY <1>1, <1>2, <1>3, <1>4, ConcatEmptySeq

LEMMA WriteKeeps ==
  ASSUME RecordsInv, NEW p \in Processes, WriteLedger(p)
  PROVE  RecordsInv'
<1> DEFINE c == pen[p].copy
           e == pen[p].entry
           next == Append(c, e)
<1>1. /\ c \in Seq(Attempts) /\ e \in Attempts /\ Len(c) \in Nat /\ Len(next) = Len(c) + 1
      /\ ledger \in Seq(Attempts) /\ truth \in Seq(Attempts)
  BY DEF RecordsInv, RecordsTypeOK, Pens
<1>2. /\ pen[p].at = "write" /\ pen' = [pen EXCEPT ![p] = NoPen]
  BY DEF WriteLedger, WriteAs
<1>3. PICK n \in 0 .. Len(next), m \in 1 .. Len(ledger) + 1 :
        /\ ledger' = SubSeq(next, 1, n) \o SubSeq(ledger, m, Len(ledger))
        /\ legible' \in IF n = Len(next) /\ ledger = <<>> /\ legible THEN {TRUE} ELSE BOOLEAN
        /\ truth' = IF n = Len(next) THEN Append(truth, e) ELSE truth
        /\ spoiled' = (spoiled \/ n < Len(next) - 1 \/ LaterFull(c, e))
  BY Zenon DEF WriteLedger, WriteAs
<1> HIDE DEF c, e, next
<1>4. /\ pen' \in [Processes -> Pens] /\ pen'[p] = NoPen /\ \A q \in Processes \ {p} : pen'[q] = pen[q]
  BY <1>2, PenMoves, NoPenIsTyped DEF RecordsInv
<1>5. /\ truth' \in Seq(Attempts) /\ ToSet(truth) \subseteq ToSet(truth')
      /\ n = Len(next) => e \in ToSet(truth')
  <2>1. CASE n = Len(next)
    <3>1. truth' = Append(truth, e) /\ truth' \in Seq(Attempts)
      BY <1>1, <1>3, <2>1
    <3>2. /\ DOMAIN truth' = DOMAIN truth \cup {Len(truth) + 1} /\ truth'[Len(truth) + 1] = e
          /\ \A i \in DOMAIN truth : truth'[i] = truth[i]
      BY <1>1, <3>1
    <3>3. ToSet(truth') = {truth'[i] : i \in DOMAIN truth'} /\ ToSet(truth) = {truth[i] : i \in DOMAIN truth}
      BY DEF ToSet
    <3> QED
      BY <3>1, <3>2, <3>3
  <2>2. CASE n # Len(next)
    BY <1>1, <1>3, <2>2
  <2> QED
    BY <2>1, <2>2
<1>6. \A s : s \in Seq(ToSet(truth)) => s \in Seq(ToSet(truth'))
  BY <1>5
<1>7. ledger' \in Seq(ToSet(truth'))
  <2>1. c \in Seq(ToSet(truth')) /\ ledger \in Seq(ToSet(truth'))
    BY <1>6 DEF RecordsInv, Genuine, c
  <2> QED
    BY <1>1, <1>3, <1>5, <2>1, CutOf DEF next
<1>8. Genuine'
  BY <1>4, <1>6, <1>7, NoPenIsTyped, EmptyIsGenuine DEF RecordsInv, Genuine
<1>9. ledger' \in Seq(Attempts)
  BY <1>5, <1>7, Places
<1>10. legible' \in BOOLEAN /\ spoiled' \in BOOLEAN
  BY <1>3 DEF LaterFull, RecordsInv, RecordsTypeOK
<1>11. RecordsTypeOK'
  BY <1>4, <1>5, <1>9, <1>10 DEF RecordsTypeOK
<1>12. ASSUME ~spoiled' PROVE LedgerIsTrue'
  <2>1. ~spoiled /\ n \in {Len(c), Len(c) + 1} /\ ~LaterFull(c, e)
    <3>1. ~spoiled /\ ~(n < Len(next) - 1) /\ ~LaterFull(c, e)
      BY Zenon, <1>3, <1>12
    <3>2. n \in {Len(c), Len(c) + 1}
      BY <1>1, <3>1
    <3> QED
      BY <3>1, <3>2
  <2>2. LedgerIsTrue /\ InOrder(truth)
    BY <2>1 DEF RecordsInv, LedgerIsTrue
  <2>3. c = truth /\ ledger = <<>> /\ Writes(p)
    BY <1>2, <2>2 DEF LedgerIsTrue, Writes, c
  <2>4. m \in 1 .. 1
    BY <2>3
  <2>5. ledger' = truth'
    BY <1>1, <1>3, <2>1, <2>3, <2>4, WholeOf DEF next
  <2>6. InOrder(truth')
    <3>1. CASE n = Len(c)
      BY <1>1, <1>3, <2>2, <3>1
    <3>2. CASE n = Len(c) + 1
      <4>1. e.stage = "full" => \A i \in FullPlaces(truth) : truth[i].at <= e.at
        <5>1. \A i \in FullPlaces(truth) : truth[i] \in ToSet(c) /\ truth[i].at \in Nat /\ e.at \in Nat
          BY <1>1, <2>3, Places DEF FullPlaces, Attempts
        <5> QED
          BY <2>1, <5>1 DEF LaterFull, FullPlaces
      <4> QED
        BY <1>1, <1>3, <2>2, <3>2, <4>1, Recorded
    <3> QED
      BY <2>1, <3>1, <3>2
  <2>7. InOrder(truth)'
    BY <2>6 DEF InOrder, FullPlaces, LastFor
  <2>8. \A q \in Processes : pen'[q].at \in {"none", "ended"}
    BY <1>4, <2>3, NoPenIsTyped DEF Writes
  <2> QED
    BY <2>5, <2>7, <2>8 DEF LedgerIsTrue
<1> QED
  BY <1>8, <1>11, <1>12 DEF RecordsInv

\* Whatever a process does to record its attempt.
LEMMA RecordKeeps ==
  ASSUME RecordsInv, NEW p \in Processes, OpenLedger(p) \/ WriteLedger(p) \/ GiveUp(p)
  PROVE  RecordsInv'
<1>1. CASE GiveUp(p)
  BY <1>1, PenlessKeeps, NoPenIsTyped DEF GiveUp
<1> QED
  BY <1>1, OpenKeeps, WriteKeeps

LEMMA NextKeepsRecords ==
  ASSUME LedgerInv, [VerifyNext]_verifyVars
  PROVE  RecordsInv'
<1> USE DEF LedgerInv
<1>1. "this" \in Processes /\ "other" \in Processes
  BY DEF Processes
<1>2. CASE RecordStageAttempt
  <2>1. Attempt(stage, key, failed, finished) \in Attempts
    BY DEF Attempt, Attempts, VerifierTypeOK
  <2> QED
    BY <1>1, <1>2, <2>1, ReadKeeps, RecordKeeps, QuietKeeps DEF RecordStageAttempt
<1>3. CASE OtherRecords
  <2>1. pen["other"].entry \in Attempts
    BY <1>1 DEF RecordsInv, RecordsTypeOK, Pens
  <2> QED
    BY <1>1, <1>3, <2>1, ReadKeeps, RecordKeeps DEF OtherRecords
<1>4. CASE OtherEnds
  <2>1. PICK s \in {"focused", "full"}, f \in BOOLEAN :
          pen' = [pen EXCEPT !["other"] = Pen("ended", <<>>, Attempt(s, tree, f, clock'))]
    BY <1>4 DEF OtherEnds
  <2> DEFINE x == Pen("ended", <<>>, Attempt(s, tree, f, clock'))
  <2>2. clock' \in Nat /\ pen["other"].at = "none" /\ UNCHANGED <<ledger, legible, truth, spoiled>>
    BY <1>4 DEF OtherEnds, VerifierTypeOK
  <2>3. <<>> \in Seq(Attempts)
    BY EmptyIsGenuine
  <2>4. x \in Pens /\ x.at = "ended" /\ x.copy = <<>>
    BY <2>2, <2>3 DEF Pen, Pens, Attempt, Attempts, VerifierTypeOK
  <2> QED
    BY <1>1, <2>1, <2>2, <2>4, PenlessKeeps
<1>5. CASE Killed
  BY <1>1, <1>5, PenlessKeeps, NoPenIsTyped DEF Killed
<1>6. CASE \/ Begin \/ Identify("identify", "authorize") \/ Authorize \/ RunCommand \/ Settled \/ Check
           \/ Identify("key", "ledger") \/ EditTree
           \/ (Tree \/ (step # "idle" /\ Abort)) /\ UNCHANGED verifier /\ World
           \/ Supervise /\ UNCHANGED verifier /\ World
           \/ UNCHANGED verifyVars
  <2>1. UNCHANGED records
    BY <1>6 DEF Begin, Identify, Authorize, RunCommand, Settled, Check, EditTree, World, verifyVars
  <2> QED
    BY <2>1, QuietKeeps
<1> QED
  BY <1>2, <1>3, <1>4, <1>5, <1>6 DEF VerifyNext, Verifier, Environment

LEMMA NextKeepsLedger ==
  ASSUME LedgerInv, [VerifyNext]_verifyVars
  PROVE  LedgerInv'
<1>1. tree' \in Nat
  <2>1. CASE EditTree
    BY <2>1, StagesAssumption DEF EditTree
  <2>2. CASE ~EditTree
    <3>1. tree' = tree
      BY <2>2 DEF VerifyNext, Begin, Verifier, Identify, Authorize, RunCommand, Settled, Check,
         RecordStageAttempt, Environment, OtherEnds, OtherRecords, Killed, World, verifyVars
    <3> QED
      BY <3>1 DEF LedgerInv, VerifierTypeOK
  <2> QED
    BY <2>1, <2>2
<1>2. clock' \in Nat
  <2>1. clock' = clock \/ clock' = clock + 1
    BY DEF VerifyNext, Begin, Verifier, Identify, Authorize, RunCommand, Settled, Check,
       RecordStageAttempt, Environment, EditTree, OtherEnds, OtherRecords, Killed, World, verifyVars
  <2> QED
    BY <2>1 DEF LedgerInv, VerifierTypeOK
<1>3. key' \in Nat /\ finished' \in Nat /\ stage' \in {"focused", "full"} /\ failed' \in BOOLEAN
  <2>1. CASE Check
    <3>1. failed' \in BOOLEAN
      BY <2>1 DEF Check, LedgerInv, VerifierTypeOK
    <3>2. UNCHANGED <<stage, key>> /\ (finished' = finished \/ finished' = clock + 1)
      BY <2>1 DEF Check
    <3> QED
      BY <3>1, <3>2 DEF LedgerInv, VerifierTypeOK
  <2>2. CASE Finish
    BY <2>2 DEF Finish
  <2>3. CASE \/ UNCHANGED <<stage, failed, finished, key>>
             \/ UNCHANGED <<stage, failed, finished>> /\ key' = tree
             \/ UNCHANGED <<finished, key>> /\ stage' \in {"focused", "full"} /\ failed' = FALSE
    BY <2>3 DEF LedgerInv, VerifierTypeOK
  <2>4. \/ Check \/ Finish \/ UNCHANGED <<stage, failed, finished, key>>
        \/ UNCHANGED <<stage, failed, finished>> /\ key' = tree
        \/ UNCHANGED <<finished, key>> /\ stage' \in {"focused", "full"} /\ failed' = FALSE
    BY DEF VerifyNext, Begin, Verifier, Identify, Authorize, RunCommand, Settled, RecordStageAttempt,
       Environment, EditTree, OtherEnds, OtherRecords, Killed, Goto, verifier, verifyVars
  <2> QED
    BY <2>1, <2>2, <2>3, <2>4
<1> QED
  BY <1>1, <1>2, <1>3, NextKeepsRecords DEF LedgerInv, VerifierTypeOK

LEMMA AlwaysLedgerInv == VerifySpec => []LedgerInv
  BY LedgerInit, NextKeepsLedger, PTL DEF VerifySpec

(* No full attempt without a focused pass that was recorded on the same    *)
(* tree, whatever races for the ledger and cuts its writes; and unless     *)
(* they spoiled it, none beyond the policy's number or without a pass that *)
(* is later than every full attempt on the tree.                           *)
THEOREM FullIsAuthorizedHolds == VerifySpec => FullIsAuthorized
<1>1. ASSUME LedgerInv, [VerifyNext]_verifyVars, step = "authorize", step' = "run"
      PROVE  \E p \in ToSet(truth) :
                /\ p.stage = "focused" /\ p.tree = key /\ ~p.failed
                /\ ~spoiled =>
                     /\ stageAttemptCount(truth, "full") < MaxFull
                     /\ \A g \in ToSet(truth) : g.stage = "full" /\ g.tree = key => g.at < p.at
  <2>1. FullAllowed(ledger, key)
    BY <1>1 DEF VerifyNext, Verifier, Environment, Begin, Identify, Authorize, RunCommand, Settled, Check,
                RecordStageAttempt, EditTree, OtherEnds, OtherRecords, Killed, Finish, Goto,
                verifier, verifyVars
  <2>2. PICK i \in LastFor(ledger, key, "focused") :
          ~ledger[i].failed /\ \A j \in LastFor(ledger, key, "full") : ledger[i].at > ledger[j].at
    BY <2>1 DEF FullAllowed, FocusedAfterLastFull
  <2>3. i \in DOMAIN ledger /\ ledger[i].stage = "focused" /\ ledger[i].tree = key
    BY <2>2 DEF LastFor
  <2>4. ledger \in Seq(ToSet(truth)) /\ truth \in Seq(Attempts)
    BY <1>1 DEF LedgerInv, RecordsInv, RecordsTypeOK, Genuine
  <2>5. ledger[i] \in ToSet(truth)
    BY <2>3, <2>4
  <2>6. ASSUME ~spoiled
        PROVE  /\ stageAttemptCount(truth, "full") < MaxFull
               /\ \A g \in ToSet(truth) : g.stage = "full" /\ g.tree = key => g.at < ledger[i].at
    <3>1. LedgerIsTrue /\ InOrder(truth)
      BY <1>1, <2>6 DEF LedgerInv, RecordsInv, LedgerIsTrue
    <3>2. ledger # <<>>
      BY <2>3
    <3>3. ledger = truth
      BY <3>1, <3>2 DEF LedgerIsTrue
    <3>4. ASSUME NEW k \in DOMAIN truth, truth[k].stage = "full", truth[k].tree = key
          PROVE  truth[k].at < truth[i].at
      <4>1. PICK j : j \in LastFor(truth, key, "full")
        BY <3>1, <3>4 DEF InOrder, FullPlaces
      <4>2. /\ j \in FullPlaces(truth) /\ k \in FullPlaces(truth) /\ k <= j
            /\ j \in Nat /\ k \in Nat
        BY <2>4, <3>4, <4>1 DEF LastFor, FullPlaces
      <4>3. truth[k].at \in Nat /\ truth[j].at \in Nat /\ truth[i].at \in Nat
        BY <2>3, <2>4, <3>3, <4>2, Places DEF FullPlaces, Attempts
      <4>4. truth[k].at <= truth[j].at
        BY <3>1, <4>2, <4>3 DEF InOrder
      <4>5. truth[j].at < truth[i].at
        BY <2>2, <3>3, <4>1, <4>3
      <4> QED
        BY <4>3, <4>4, <4>5
    <3>5. stageAttemptCount(truth, "full") < MaxFull
      BY <2>1, <3>3 DEF FullAllowed
    <3> QED
      BY <2>4, <3>3, <3>4, <3>5, Places
  <2> QED
    BY <2>2, <2>3, <2>5, <2>6
<1>2. verifyVars' = verifyVars => step' = step
  BY DEF verifyVars, verifier
<1> QED
  BY <1>1, <1>2, AlwaysLedgerInv, PTL DEF VerifySpec, FullIsAuthorized

-----------------------------------------------------------------------------
(* Task execute.                                                           *)

USE BoundsAssumption

-----------------------------------------------------------------------------
(* The inductive invariant.                                                *)

EditedTexts == {"baseEdited", "userEdited"}
Early == {"resolve", "contract", "before", "agent", "read", "invoke", "after", "apply",
          "compare", "rename"}
Late == {"edited", "intact", "complete", "verify", "hook", "hookread", "record"}
RollingBack == {"restore", "putback", "final"}
Errors == {"GIT", "SCOPE", "VERIFICATION", "OTHER"}

RepoType == [head : Nat, committed : Sources, source : Sources, staged : BOOLEAN, other : BOOLEAN]
ShotType == [at : 0..3, head : Nat, ok : BOOLEAN, modified : {"no", "M", "D"},
             staged : BOOLEAN, other : BOOLEAN]

TypeOK ==
    /\ repo \in RepoType
    /\ pc \in Early \union Late \union RollingBack \union {"end"}
    /\ shot \in ShotType /\ before \in Nat /\ text \in {"base", "user"}
    /\ why \in Errors \union {"none"} /\ restore \in {"none", "complete", "stale", "failed"}
    /\ recorded \in BOOLEAN /\ littered \in BOOLEAN /\ moved \in BOOLEAN
    /\ moves \in Nat /\ faults \in Nat

\* The edited text comes from this command alone.
EditIsOurs ==
    /\ repo.source \in EditedTexts => pc \notin Early /\ repo.source = applied
    /\ repo.committed \in EditedTexts => pc \notin Early /\ repo.committed = applied

\* A rename replaces what was compared.
Compared ==
    /\ pc = "rename" => moved \/ repo.source = text
    /\ pc = "putback" => moved \/ repo.source = applied

\* The last snapshot before the record, as far as it has been taken.
ShotIsFresh == pc \notin SnapshotPcs \union {"end"} => shot.at = 0

ShotMatches ==
    /\ pc = "hook" /\ shot.at \in 1..3 /\ (shot.at = 3 => shot.ok) /\ ~moved =>
          /\ shot.head = repo.head
          /\ shot.at > 1 => shot.staged = repo.staged /\ shot.other = repo.other
    /\ pc \in {"hookread", "record"} /\ ~moved =>
          repo.head = before /\ ~repo.staged /\ ~repo.other
    /\ pc = "record" /\ ~moved => repo.source = applied

\* What a rollback knows.
RollbackKnows ==
    /\ pc \in RollingBack => why \in Errors
    /\ pc = "final" /\ restore \in {"complete", "stale"} /\ repo.source \in EditedTexts =>
          repo.committed = repo.source

DoneIsAnswered == recorded => littered \/ (pc = "end" /\ result.kind = "done")

ExecuteInv ==
    /\ TypeOK /\ EditIsOurs /\ Compared /\ ShotIsFresh /\ ShotMatches
    /\ RollbackKnows /\ DoneIsAnswered /\ ResultIsHonest

-----------------------------------------------------------------------------
(* Everyone else.                                                          *)

\* A foreign step leaves the command alone, is marked, and makes nothing
\* that reads as the edited text unless it was committed.
LEMMA OthersStep ==
  ASSUME ExecuteInv, Others
  PROVE  /\ UNCHANGED <<command, faults>> /\ pc # "end"
         /\ moved' = TRUE /\ moves' \in Nat /\ moves' # moves
         /\ repo' \in RepoType
         /\ repo'.source # repo.source =>
               repo'.source \in {"user", "gone", repo.committed} /\ repo'.committed = repo.committed
         /\ repo'.committed # repo.committed =>
               repo'.committed = repo.source /\ repo'.source = repo.source
<1>1. UNCHANGED <<command, faults>> /\ pc # "end" /\ moved' = TRUE /\ moves' = moves + 1
  BY DEF Others, WriteSource, TouchTree, Commit, EditProject, OtherCommand, OtherStep
<1>2. moves' \in Nat /\ moves' # moves
  BY <1>1 DEF ExecuteInv, TypeOK
<1>3. repo \in RepoType
  BY DEF ExecuteInv, TypeOK
<1>4. CASE WriteSource
  <2>1. PICK c \in {"user", "gone", repo.committed} : repo' = [repo EXCEPT !.source = c]
    BY <1>4 DEF WriteSource
  <2>2. c \in Sources
    BY <1>3, <2>1 DEF RepoType, Sources
  <2>3. repo' \in RepoType /\ repo'.source = c /\ repo'.committed = repo.committed
    BY <1>3, <2>1, <2>2 DEF RepoType
  <2>4. repo'.source \in {"user", "gone", repo.committed}
    BY <2>3
  <2>5. repo'.committed # repo.committed => FALSE
    BY <2>3
  <2> QED
    BY Zenon, <1>1, <1>2, <2>3, <2>4, <2>5
<1>5. CASE TouchTree
  <2>1. PICK o \in BOOLEAN, s \in BOOLEAN : repo' = [repo EXCEPT !.other = o, !.staged = s]
    BY <1>5 DEF TouchTree
  <2> QED
    BY <1>1, <1>2, <1>3, <2>1 DEF RepoType
<1>6. CASE Commit
  <2>1. repo' = [repo EXCEPT !.head = @ + 1, !.committed = repo.source,
                             !.staged = FALSE, !.other = FALSE]
    BY <1>6 DEF Commit
  <2>2. repo' = [head |-> repo.head + 1, committed |-> repo.source, source |-> repo.source,
                 staged |-> FALSE, other |-> FALSE]
    BY <1>3, <2>1 DEF RepoType
  <2> QED
    BY <1>1, <1>2, <1>3, <2>2 DEF RepoType
<1>7. CASE repo' = [repo EXCEPT !.other = TRUE]
  BY <1>1, <1>2, <1>3, <1>7 DEF RepoType
<1> QED
  BY <1>4, <1>5, <1>6, <1>7 DEF Others, EditProject, OtherCommand

LEMMA OthersKeep ==
  ASSUME ExecuteInv, Others
  PROVE  ExecuteInv'
<1>1. /\ UNCHANGED <<pc, shot, before, text, output, why, restore, result, recorded, littered, faults>>
      /\ pc # "end" /\ moved' = TRUE /\ moves' \in Nat /\ repo' \in RepoType
  BY OthersStep DEF command
<1>2. /\ repo'.source # repo.source =>
            repo'.source \in {"user", "gone", repo.committed} /\ repo'.committed = repo.committed
      /\ repo'.committed # repo.committed =>
            repo'.committed = repo.source /\ repo'.source = repo.source
  BY OthersStep
<1>3. TypeOK'
  BY <1>1 DEF ExecuteInv, TypeOK
<1>4. EditIsOurs'
  BY <1>1, <1>2 DEF ExecuteInv, EditIsOurs, EditedTexts, applied
<1>5. RollbackKnows'
  BY <1>1, <1>2 DEF ExecuteInv, RollbackKnows, EditedTexts
<1>6. Compared' /\ ShotIsFresh' /\ ShotMatches' /\ DoneIsAnswered' /\ ResultIsHonest'
  BY <1>1 DEF ExecuteInv, Compared, ShotIsFresh, ShotMatches, DoneIsAnswered, ResultIsHonest
<1> QED
  BY <1>3, <1>4, <1>5, <1>6 DEF ExecuteInv

-----------------------------------------------------------------------------
(* Steps of the command.                                                   *)

\* An early end finds the source as others left it.
LEMMA EarlyEndKeeps ==
  ASSUME ExecuteInv, pc \in Early, UNCHANGED <<repo, moved, moves>>, pc' = "end", faults' \in Nat,
         UNCHANGED <<shot, before, text, output, why, restore, recorded, littered>>
  PROVE  ExecuteInv'
<1>1. TypeOK' /\ EditIsOurs'
  BY DEF ExecuteInv, TypeOK, EditIsOurs, Early, applied
<1>2. ~(repo'.source \in EditedTexts)
  BY DEF ExecuteInv, EditIsOurs
<1>3. ResultIsHonest' /\ DoneIsAnswered'
  BY <1>2 DEF ExecuteInv, DoneIsAnswered, ResultIsHonest, EditedTexts, Early
<1> QED
  BY <1>1, <1>3 DEF ExecuteInv, Compared, ShotIsFresh, ShotMatches, RollbackKnows, RollingBack

\* An early step to another early step.
LEMMA EarlyStepKeeps ==
  ASSUME ExecuteInv, pc \in Early, pc' \in Early, UNCHANGED <<repo, moves, result>>, moved' \in BOOLEAN,
         shot' \in ShotType, pc' \notin SnapshotPcs => shot'.at = 0, before' \in Nat,
         text' \in {"base", "user"}, pc' = "rename" => repo'.source = text',
         UNCHANGED <<why, restore, recorded, littered>>, faults' \in Nat
  PROVE  ExecuteInv'
<1> USE DEF ExecuteInv
<1>1. TypeOK' /\ EditIsOurs'
  BY DEF TypeOK, EditIsOurs
<1>2. Compared' /\ ShotIsFresh' /\ ShotMatches'
  BY DEF Compared, ShotIsFresh, ShotMatches, Early
<1>3. RollbackKnows' /\ DoneIsAnswered' /\ ResultIsHonest'
  BY DEF RollbackKnows, DoneIsAnswered, ResultIsHonest, Early, RollingBack
<1> QED
  BY <1>1, <1>2, <1>3

LEMMA NoShotType == NoShot \in ShotType /\ NoShot.at = 0
  BY DEF NoShot, ShotType

LEMMA TakeSnapshotKeeps ==
  ASSUME ExecuteInv, TakeSnapshot
  PROVE  ExecuteInv'
<1> USE DEF ExecuteInv
<1>1. /\ pc \in SnapshotPcs /\ shot.at \in 0..2 /\ pc # "end"
      /\ UNCHANGED <<repo, project, moves, pc, before, text, output, why, restore, result, recorded, littered>>
  BY DEF TakeSnapshot, TypeOK, ShotType, SnapshotPcs
<1>2. faults' \in Nat
  BY DEF TakeSnapshot, TypeOK, Faulty
<1>7. /\ moved' \in BOOLEAN
      /\ pc # "hook" => moved' = moved
      /\ shot.at > 0 => moved' = moved
  <2>1. CASE shot.at = 0 /\ moved' = (moved /\ pc # "hook")
    BY <2>1 DEF TypeOK
  <2>2. CASE moved' = moved
    BY <2>2 DEF TypeOK
  <2> QED
    BY <2>1, <2>2 DEF TakeSnapshot
<1>8. shot' \in ShotType
  <2>1. repo \in RepoType /\ shot \in ShotType
    BY DEF TypeOK
  <2>2. CASE shot' = [NoShot EXCEPT !.at = 1, !.head = repo.head]
    <3>1. shot' = [at |-> 1, head |-> repo.head, ok |-> TRUE, modified |-> "no",
                   staged |-> FALSE, other |-> FALSE]
      BY <2>2 DEF NoShot
    <3> QED
      BY <2>1, <3>1 DEF RepoType, ShotType
  <2>3. ASSUME NEW m \in {"no", "M", "D"},
               shot' = [shot EXCEPT !.at = 2, !.staged = repo.staged, !.other = repo.other, !.modified = m]
        PROVE  shot' \in ShotType
    <3>1. repo.staged \in BOOLEAN /\ repo.other \in BOOLEAN
      BY <2>1 DEF RepoType
    <3> DEFINE s == repo.staged
               o == repo.other
    <3>2. s \in BOOLEAN /\ o \in BOOLEAN
      BY <3>1
    <3>3. shot' = [shot EXCEPT !.at = 2, !.staged = s, !.other = o, !.modified = m]
      BY <2>3
    <3> HIDE DEF s, o
    <3>4. shot' = [at |-> 2, head |-> shot.head, ok |-> shot.ok, modified |-> m, staged |-> s, other |-> o]
      BY <2>1, <3>3 DEF ShotType
    <3>5. shot.head \in Nat /\ shot.ok \in BOOLEAN
      BY <2>1 DEF ShotType
    <3> QED
      BY <3>2, <3>4, <3>5 DEF ShotType
  <2>4. ASSUME NEW b \in BOOLEAN, shot' = [shot EXCEPT !.at = 3, !.ok = b]
        PROVE  shot' \in ShotType
    <3>1. shot' = [at |-> 3, head |-> shot.head, ok |-> b, modified |-> shot.modified,
                   staged |-> shot.staged, other |-> shot.other]
      BY <2>1, <2>4 DEF ShotType
    <3> QED
      BY <2>1, <3>1 DEF ShotType
  <2>5. CASE shot' = [shot EXCEPT !.at = 2, !.staged = repo.staged, !.other = repo.other,
                        !.modified = IF repo.source = repo.committed THEN "no"
                                     ELSE IF repo.source = "gone" THEN "D" ELSE "M"]
    <3> DEFINE m == IF repo.source = repo.committed THEN "no"
                    ELSE IF repo.source = "gone" THEN "D" ELSE "M"
    <3>1. m \in {"no", "M", "D"}
      OBVIOUS
    <3>2. shot' = [shot EXCEPT !.at = 2, !.staged = repo.staged, !.other = repo.other, !.modified = m]
      BY <2>5
    <3> HIDE DEF m
    <3> QED
      BY <2>3, <3>1, <3>2
  <2>6. CASE shot' = [shot EXCEPT !.at = 3, !.ok = (shot.head = repo.head)]
    BY <2>4, <2>6
  <2>7. CASE shot' = [shot EXCEPT !.at = 3, !.ok = FALSE]
    BY <2>4, <2>7
  <2> QED
    BY <2>2, <2>5, <2>6, <2>7 DEF TakeSnapshot
<1>3. pc = "hook" /\ (shot'.at = 3 => shot'.ok) /\ ~moved' =>
         /\ shot'.head = repo.head
         /\ shot'.at > 1 => shot'.staged = repo.staged /\ shot'.other = repo.other
  <2>1. CASE shot.at = 0 /\ shot' = [NoShot EXCEPT !.at = 1, !.head = repo.head]
    BY <2>1 DEF NoShot
  <2>2. CASE shot.at = 1 /\ shot' = [shot EXCEPT !.at = 2, !.staged = repo.staged, !.other = repo.other,
                        !.modified = IF repo.source = repo.committed THEN "no"
                                     ELSE IF repo.source = "gone" THEN "D" ELSE "M"]
    BY <1>7, <2>2 DEF TypeOK, ShotType, ShotMatches
  <2>3. CASE shot.at = 2 /\ shot' = [shot EXCEPT !.at = 3, !.ok = (shot.head = repo.head)] /\ moved' = moved
    <3>1. shot'.ok = (shot.head = repo.head) /\ shot'.staged = shot.staged /\ shot'.other = shot.other
          /\ shot'.head = shot.head
      BY <2>3 DEF TypeOK, ShotType
    <3> QED
      BY <2>3, <3>1 DEF ShotMatches
  <2>4. CASE shot' = [shot EXCEPT !.at = 3, !.ok = FALSE]
    BY <2>4 DEF TypeOK, ShotType
  <2> QED
    BY <2>1, <2>2, <2>3, <2>4 DEF TakeSnapshot
<1>4. TypeOK' /\ EditIsOurs'
  BY <1>1, <1>2, <1>7, <1>8 DEF TypeOK, EditIsOurs, applied
<1>5. Compared' /\ ShotIsFresh' /\ ShotMatches'
  BY <1>1, <1>3, <1>7 DEF Compared, ShotIsFresh, ShotMatches, SnapshotPcs
<1>6. RollbackKnows' /\ DoneIsAnswered' /\ ResultIsHonest'
  BY <1>1 DEF RollbackKnows, DoneIsAnswered, ResultIsHonest
<1> QED
  BY <1>4, <1>5, <1>6

\* Before the edit, up to the rename.
LEMMA EarlyCommandKeeps ==
  ASSUME ExecuteInv,
         \/ Resolve \/ CheckContract \/ JudgeBefore \/ ResolveAgent \/ ReadSource \/ Invoke
         \/ JudgeAfter \/ ReadForEdit \/ CompareForEdit
  PROVE  ExecuteInv'
<1>1. TypeOK /\ shot \in ShotType /\ shot.head \in Nat
  BY DEF ExecuteInv, TypeOK, ShotType
<1>2. pc \in Early /\ pc # "end" /\ (pc \notin SnapshotPcs => shot.at = 0)
  BY DEF ExecuteInv, ShotIsFresh, Early, Taken, Resolve, CheckContract, JudgeBefore, ResolveAgent,
         ReadSource, Invoke, JudgeAfter, ReadForEdit, CompareForEdit
<1>3. UNCHANGED <<repo, moves>> /\ moved' \in BOOLEAN
  BY <1>1 DEF Unmarked, TypeOK, Resolve, CheckContract, JudgeBefore, ResolveAgent, ReadSource, Invoke,
              JudgeAfter, ReadForEdit, CompareForEdit
<1>4. CASE (\E r \in {Result("ineligible"), Result("contract"), Result("worktree_not_clean"), Result("agent"),
                      Result("executor_failed"), Result("blocked"), Result("edit_rejected"),
                      ResultWith("git_state_unavailable", "not_needed"),
                      ResultWith("executor_mutated_worktree", "not_attempted")} : End(r))
           /\ moved' = moved
  BY <1>1, <1>2, <1>3, <1>4, EarlyEndKeeps DEF End, TypeOK
<1>5. CASE CompareForEdit
  <2>1. CASE repo.source = text /\ Step("rename")
    BY <1>1, <1>2, <1>3, <1>5, <2>1, EarlyStepKeeps
       DEF CompareForEdit, Step, TypeOK, Early, SnapshotPcs
  <2>2. CASE End(Result("edit_rejected"))
    <3>1. pc' = "end" /\ moved' = FALSE
          /\ UNCHANGED <<shot, before, text, output, why, restore, recorded, littered, faults>>
      BY <1>5, <2>2 DEF CompareForEdit, End
    <3>2. TypeOK' /\ EditIsOurs'
      BY <1>1, <1>2, <1>3, <3>1 DEF ExecuteInv, TypeOK, EditIsOurs, Early, applied
    <3>3. ~(repo'.source \in EditedTexts)
      BY <1>2, <1>3 DEF ExecuteInv, EditIsOurs
    <3>4. ResultIsHonest' /\ DoneIsAnswered'
      BY <1>2, <3>1, <3>3 DEF ExecuteInv, DoneIsAnswered, ResultIsHonest, EditedTexts, Early
    <3> QED
      BY <3>1, <3>2, <3>4
         DEF ExecuteInv, Compared, ShotIsFresh, ShotMatches, RollbackKnows, RollingBack
  <2> QED
    BY <1>5, <2>1, <2>2 DEF CompareForEdit
<1>6. CASE /\ Resolve \/ CheckContract \/ ResolveAgent \/ ReadForEdit
           /\ Step("contract") \/ Step("before") \/ Step("read") \/ Step("compare")
  <2>1. pc \notin SnapshotPcs
    BY <1>6 DEF Resolve, CheckContract, ResolveAgent, ReadForEdit, SnapshotPcs
  <2>2. pc' \in Early /\ pc' # "rename"
    BY <1>6 DEF Step, Early
  <2>3. UNCHANGED <<shot, before, text, output, why, restore, result, recorded, littered, faults>>
    BY <1>6 DEF Step
  <2> QED
    BY <1>1, <1>2, <1>3, <2>1, <2>2, <2>3, EarlyStepKeeps DEF TypeOK
<1>7. CASE JudgeBefore /\ pc' = "agent"
  <2>1. /\ before' = shot.head /\ shot' = NoShot
        /\ UNCHANGED <<text, output, why, restore, result, recorded, littered, faults>>
    BY <1>7 DEF JudgeBefore, End
  <2> QED
    BY <1>1, <1>2, <1>3, <1>7, <2>1, NoShotType, EarlyStepKeeps DEF TypeOK, Early
<1>8. CASE ReadSource /\ pc' = "invoke"
  <2>1. /\ text' \in {"base", "user"}
        /\ UNCHANGED <<shot, before, output, why, restore, result, recorded, littered, faults>>
    BY <1>8 DEF ReadSource, End, Edited
  <2> QED
    BY <1>1, <1>2, <1>3, <1>8, <2>1, EarlyStepKeeps DEF ReadSource, TypeOK, Early, SnapshotPcs
<1>9. CASE Invoke /\ pc' = "after"
  <2>1. UNCHANGED <<shot, before, text, why, restore, result, recorded, littered, faults>>
    BY <1>9 DEF Invoke, End
  <2> QED
    BY <1>1, <1>2, <1>3, <1>9, <2>1, EarlyStepKeeps DEF TypeOK, Early, SnapshotPcs
<1>10. CASE Go("apply")
  BY <1>1, <1>2, <1>3, <1>10, NoShotType, EarlyStepKeeps DEF Go, TypeOK, Early
<1>11. CASE Resolve \/ CheckContract \/ ResolveAgent \/ ReadForEdit
  BY <1>4, <1>6, <1>11 DEF Resolve, CheckContract, ResolveAgent, ReadForEdit, Unmarked
<1>12. CASE JudgeBefore
  BY <1>4, <1>7, <1>12 DEF JudgeBefore, Unmarked
<1>13. CASE ReadSource \/ Invoke
  BY <1>4, <1>8, <1>9, <1>13 DEF ReadSource, Invoke, Unmarked
<1>14. CASE JudgeAfter
  BY <1>4, <1>10, <1>14 DEF JudgeAfter, Unmarked
<1> QED
  BY <1>5, <1>11, <1>12, <1>13, <1>14

\* A source that is replaced by a text.
LEMMA Replaced ==
  ASSUME repo \in RepoType, NEW c \in Sources, repo' = [repo EXCEPT !.source = c]
  PROVE  /\ repo' \in RepoType /\ repo'.source = c /\ repo'.committed = repo.committed
         /\ repo'.head = repo.head /\ repo'.staged = repo.staged /\ repo'.other = repo.other
  BY DEF RepoType

LEMMA AppliedType ==
  ASSUME TypeOK
  PROVE  applied \in EditedTexts /\ applied \in Sources /\ text \in Sources /\ text \notin EditedTexts
  BY DEF TypeOK, applied, Edited, EditedTexts, Sources

LEMMA RenameEditKeeps ==
  ASSUME ExecuteInv, RenameEdit
  PROVE  ExecuteInv'
<1>1. pc = "rename" /\ TypeOK /\ shot.at = 0 /\ UNCHANGED <<project, moved, moves>>
  BY DEF RenameEdit, ExecuteInv, ShotIsFresh, SnapshotPcs
<1>2. CASE repo' = [repo EXCEPT !.source = applied] /\ Step("edited")
  <2>1. repo' \in RepoType /\ repo'.source = applied /\ repo'.committed = repo.committed
    BY <1>1, <1>2, Replaced, AppliedType DEF TypeOK
  <2>2. applied' = applied
    BY <1>2 DEF applied, Step
  <2>3. TypeOK'
    BY <1>1, <1>2, <2>1 DEF Step, TypeOK, Late
  <2>4. EditIsOurs'
    BY <1>1, <1>2, <2>1, <2>2 DEF ExecuteInv, EditIsOurs, Step, Early
  <2>5. DoneIsAnswered'
    BY <1>1, <1>2 DEF ExecuteInv, DoneIsAnswered, Step
  <2> QED
    BY <1>1, <1>2, <2>3, <2>4, <2>5
       DEF Step, ExecuteInv, Compared, ShotIsFresh, ShotMatches, RollbackKnows, RollingBack,
           ResultIsHonest, SnapshotPcs
<1>3. CASE /\ Faulty /\ pc' = "end"
           /\ UNCHANGED <<repo, shot, before, text, output, why, restore, recorded, littered>>
  BY <1>1, <1>3, EarlyEndKeeps DEF Faulty, TypeOK, Early
<1> QED
  BY <1>2, <1>3 DEF RenameEdit

\* A step after the edit that writes nothing, or gives the edit up.
LEMMA LateStepKeeps ==
  ASSUME ExecuteInv, pc \in Late, pc' \in Late \union {"restore"}, UNCHANGED <<repo, moved, moves>>,
         UNCHANGED <<before, text, restore, result, recorded, littered>>,
         shot' \in ShotType, pc' \notin SnapshotPcs => shot'.at = 0, faults' \in Nat,
         why' \in Errors \union {"none"}, pc' = "restore" => why' \in Errors,
         ShotMatches'
  PROVE  ExecuteInv'
<1> USE DEF ExecuteInv
<1>1. TypeOK'
  BY DEF TypeOK, RollingBack
<1>2. EditIsOurs'
  BY DEF EditIsOurs, applied, Late, Early
<1>3. Compared' /\ ShotIsFresh' /\ RollbackKnows' /\ DoneIsAnswered' /\ ResultIsHonest'
  BY DEF Compared, ShotIsFresh, RollbackKnows, RollingBack, DoneIsAnswered, ResultIsHonest, Late
<1> QED
  BY <1>1, <1>2, <1>3

LEMMA LateCommandKeeps ==
  ASSUME ExecuteInv,
         \/ JudgeEdited \/ AssertIntact \/ Verify \/ JudgeHook \/ AssertIntactBeforeDone
         \/ CheckCompletion /\ pc' # "end"
  PROVE  ExecuteInv'
<1>1. TypeOK /\ shot \in ShotType /\ faults \in Nat
  BY DEF ExecuteInv, TypeOK
<1>2. pc \in Late /\ pc # "end" /\ (pc \notin SnapshotPcs => shot.at = 0)
  BY DEF ExecuteInv, ShotIsFresh, Late, Taken, JudgeEdited, AssertIntact, CheckCompletion, Verify,
         JudgeHook, AssertIntactBeforeDone
<1>3. UNCHANGED <<repo, moved, moves>>
  BY DEF Unmarked, JudgeEdited, AssertIntact, CheckCompletion, Verify, JudgeHook, AssertIntactBeforeDone
<1>4. CASE \E e \in Errors : GoRollback(e) \/ (shot.at = 0 /\ Rollback(e))
  <2>1. PICK e \in Errors : GoRollback(e) \/ (shot.at = 0 /\ Rollback(e))
    BY <1>4
  <2>2. /\ pc' = "restore" /\ why' = e /\ shot' \in ShotType /\ shot'.at = 0
        /\ UNCHANGED <<before, text, restore, result, recorded, littered, faults>>
    BY <1>1, <2>1, NoShotType DEF Rollback, GoRollback
  <2>3. ShotMatches'
    BY <2>2 DEF ShotMatches
  <2> QED
    BY <1>1, <1>2, <1>3, <2>2, <2>3, LateStepKeeps
<1>5. CASE JudgeEdited /\ Go("intact")
  BY <1>1, <1>2, <1>3, <1>5, NoShotType, LateStepKeeps DEF Go, TypeOK, Late, ShotMatches
<1>6. CASE AssertIntact /\ Step("complete")
  BY <1>1, <1>2, <1>3, <1>6, LateStepKeeps DEF AssertIntact, Step, TypeOK, Late, SnapshotPcs, ShotMatches
<1>7. CASE CheckCompletion /\ Step("verify")
  BY <1>1, <1>2, <1>3, <1>7, LateStepKeeps DEF CheckCompletion, Step, TypeOK, Late, SnapshotPcs, ShotMatches
<1>8. CASE Verify /\ Step("hook")
  BY <1>1, <1>2, <1>3, <1>8, LateStepKeeps DEF Verify, Step, TypeOK, Late, SnapshotPcs, ShotMatches
<1>9. CASE /\ Verify /\ Faulty /\ pc' = "restore" /\ why' = "OTHER"
           /\ UNCHANGED <<shot, before, text, output, restore, result, recorded, littered>>
  BY <1>1, <1>2, <1>3, <1>9, LateStepKeeps DEF Verify, Faulty, SnapshotPcs, ShotMatches, Errors
<1>10. CASE JudgeHook /\ shot.ok /\ ~HeadChanged /\ OnlySourceModified /\ Go("hookread")
  <2>1. pc = "hook" /\ shot.at = 3
    BY <1>10 DEF JudgeHook, Taken
  <2>2. ~moved => repo.head = before /\ ~repo.staged /\ ~repo.other
    BY <1>10, <2>1 DEF ExecuteInv, ShotMatches, HeadChanged, OnlySourceModified
  <2>3. ShotMatches'
    BY <1>3, <1>10, <2>2 DEF Go, ShotMatches
  <2> QED
    BY <1>1, <1>2, <1>3, <1>10, <2>3, NoShotType, LateStepKeeps DEF Go, TypeOK, Late
<1>11. CASE AssertIntactBeforeDone /\ repo.source = applied /\ Step("record")
  <2>1. pc = "hookread" /\ applied' = applied
    BY <1>11 DEF AssertIntactBeforeDone, Step, applied
  <2>2. ShotMatches'
    BY <1>3, <1>11, <2>1 DEF Step, ExecuteInv, ShotMatches
  <2> QED
    BY <1>1, <1>2, <1>3, <1>11, <2>1, <2>2, LateStepKeeps DEF Step, TypeOK, Late, SnapshotPcs
<1>12. {"GIT", "SCOPE", "VERIFICATION", "OTHER"} = Errors
  BY DEF Errors
<1>13. CASE JudgeEdited
  BY <1>4, <1>5, <1>12, <1>13 DEF JudgeEdited
<1>14. CASE AssertIntact
  BY <1>2, <1>4, <1>6, <1>12, <1>14 DEF AssertIntact, SnapshotPcs
<1>15. CASE Verify
  BY <1>2, <1>4, <1>8, <1>9, <1>12, <1>15 DEF Verify, SnapshotPcs
<1>16. CASE JudgeHook
  BY <1>4, <1>10, <1>12, <1>16 DEF JudgeHook
<1>17. CASE AssertIntactBeforeDone
  BY <1>2, <1>4, <1>11, <1>12, <1>17 DEF AssertIntactBeforeDone, SnapshotPcs
<1>18. CASE CheckCompletion /\ pc' # "end"
  BY <1>2, <1>4, <1>7, <1>12, <1>18 DEF CheckCompletion, End, SnapshotPcs
<1> QED
  BY <1>13, <1>14, <1>15, <1>16, <1>17, <1>18

\* The rethrown error of a missing agent.
LEMMA AgentErrorKeeps ==
  ASSUME ExecuteInv, CheckCompletion, pc' = "end"
  PROVE  ExecuteInv'
<1>1. /\ pc = "complete" /\ result' = Result("agent") /\ UNCHANGED <<repo, moved, moves>>
      /\ UNCHANGED <<shot, before, text, output, why, restore, recorded, littered, faults>>
  BY DEF CheckCompletion, End, Step, Rollback, Unmarked
<1>2. TypeOK' /\ EditIsOurs'
  BY <1>1 DEF ExecuteInv, TypeOK, EditIsOurs, Early, applied
<1>3. DoneIsAnswered' /\ ResultIsHonest'
  BY <1>1 DEF ExecuteInv, DoneIsAnswered, ResultIsHonest, Result, ClaimsUntouched
<1> QED
  BY <1>1, <1>2, <1>3 DEF ExecuteInv, Compared, ShotIsFresh, ShotMatches, RollbackKnows, RollingBack

LEMMA RecordDoneKeeps ==
  ASSUME ExecuteInv, RecordDone
  PROVE  ExecuteInv'
<1>1. /\ pc = "record" /\ TypeOK /\ shot.at = 0
      /\ UNCHANGED <<shot, before, text, output, restore, moved, moves>>
  BY DEF RecordDone, ExecuteInv, ShotIsFresh, SnapshotPcs
<1>2. /\ repo' \in RepoType /\ repo'.source = repo.source /\ repo'.committed = repo.committed
      /\ faults' \in Nat /\ recorded' \in BOOLEAN /\ littered' \in BOOLEAN
  <2>1. repo' = repo \/ repo' = [repo EXCEPT !.other = TRUE]
    BY DEF RecordDone
  <2>2. repo' \in RepoType /\ repo'.source = repo.source /\ repo'.committed = repo.committed
    BY <1>1, <2>1 DEF TypeOK, RepoType
  <2>3. faults' = faults \/ faults' = faults + 1
    BY DEF RecordDone, Faulty
  <2>4. (recorded' = TRUE \/ recorded' = recorded) /\ (littered' = TRUE \/ littered' = littered)
    BY DEF RecordDone
  <2>5. recorded \in BOOLEAN /\ littered \in BOOLEAN /\ faults \in Nat
    BY <1>1 DEF TypeOK
  <2>6. recorded' \in BOOLEAN /\ littered' \in BOOLEAN
    BY Zenon, <2>4, <2>5
  <2>7. faults' \in Nat
    BY <2>3, <2>5
  <2> QED
    BY Zenon, <2>2, <2>6, <2>7
<1>3. /\ pc' \in {"end", "restore"} /\ why' \in Errors \union {"none"}
      /\ pc' = "restore" => why' \in Errors
      /\ pc' = "end" => recorded' /\ result' = Result("done")
      /\ recorded' => littered' \/ (pc' = "end" /\ result' = Result("done"))
  BY <1>1 DEF RecordDone, TypeOK, Errors, ExecuteInv, DoneIsAnswered
<1>4. TypeOK'
  BY <1>1, <1>2, <1>3 DEF TypeOK, RollingBack
<1>5. EditIsOurs'
  BY <1>1, <1>2, <1>3 DEF ExecuteInv, EditIsOurs, Early, applied
<1>6. DoneIsAnswered' /\ ResultIsHonest'
  BY <1>1, <1>2, <1>3 DEF DoneIsAnswered, ResultIsHonest, Result, ClaimsUntouched
<1> QED
  BY <1>1, <1>3, <1>4, <1>5, <1>6
     DEF ExecuteInv, Compared, ShotIsFresh, ShotMatches, RollbackKnows, RollingBack

LEMMA CompareForRestoreKeeps ==
  ASSUME ExecuteInv, CompareForRestore
  PROVE  ExecuteInv'
<1> USE DEF ExecuteInv
<1>1. /\ pc = "restore" /\ TypeOK /\ shot.at = 0 /\ UNCHANGED <<repo, project, moves>>
      /\ UNCHANGED <<shot, before, text, output, why, result, recorded, littered>>
  BY DEF CompareForRestore, Restored, ShotIsFresh, SnapshotPcs
<1>2. /\ pc' \in {"putback", "final"} /\ restore' \in {"none", "stale", "failed"} /\ faults' \in Nat
      /\ moved' \in BOOLEAN
      /\ pc' = "putback" => repo.source = applied
      /\ restore' = "stale" => repo.source \notin {applied, "gone"}
  <2>1. faults' = faults \/ faults' = faults + 1
    BY DEF CompareForRestore, Faulty
  <2>2. moved' = FALSE \/ moved' = moved
    BY DEF CompareForRestore
  <2>3. /\ pc' \in {"putback", "final"} /\ restore' \in {"none", "stale", "failed"}
        /\ pc' = "putback" => repo.source = applied
        /\ restore' = "stale" => repo.source \notin {applied, "gone"}
    BY DEF CompareForRestore, Restored
  <2>4. moved \in BOOLEAN /\ faults \in Nat
    BY <1>1 DEF TypeOK
  <2>5. moved' \in BOOLEAN
    BY Zenon, <2>2, <2>4
  <2>6. faults' \in Nat
    BY <2>1, <2>4
  <2> QED
    BY Zenon, <2>3, <2>5, <2>6
<1>3. TypeOK' /\ EditIsOurs'
  BY <1>1, <1>2 DEF TypeOK, RollingBack, EditIsOurs, Early, applied
<1>4. RollbackKnows'
  BY <1>1, <1>2 DEF RollbackKnows, RollingBack, EditIsOurs
<1>5. Compared' /\ ShotIsFresh' /\ ShotMatches'
  BY <1>1, <1>2 DEF Compared, ShotIsFresh, ShotMatches, applied
<1>6. DoneIsAnswered' /\ ResultIsHonest'
  BY <1>1, <1>2 DEF DoneIsAnswered, ResultIsHonest
<1> QED
  BY <1>3, <1>4, <1>5, <1>6

LEMMA RenameRestoreKeeps ==
  ASSUME ExecuteInv, RenameRestore
  PROVE  ExecuteInv'
<1> USE DEF ExecuteInv
<1>1. /\ pc = "putback" /\ pc' = "final" /\ TypeOK /\ shot.at = 0 /\ UNCHANGED <<project, moved, moves>>
      /\ UNCHANGED <<shot, before, text, output, why, result, recorded, littered>>
  BY DEF RenameRestore, Restored, ShotIsFresh, SnapshotPcs
<1>2. \/ repo' = [repo EXCEPT !.source = text] /\ restore' = "complete"
      \/ UNCHANGED repo /\ restore' = "failed"
  BY DEF RenameRestore, Restored
<1>3. faults' \in Nat
  BY <1>1 DEF RenameRestore, Faulty, TypeOK
<1>4. /\ repo' \in RepoType /\ repo'.committed = repo.committed
      /\ repo'.source = repo.source \/ repo'.source = text
      /\ restore' = "complete" => repo'.source = text
  BY <1>1, <1>2, Replaced, AppliedType DEF TypeOK
<1>5. TypeOK' /\ EditIsOurs'
  BY <1>1, <1>2, <1>3, <1>4, AppliedType DEF TypeOK, RollingBack, EditIsOurs, Early, applied
<1>6. RollbackKnows'
  BY <1>1, <1>2, <1>4, AppliedType DEF RollbackKnows, RollingBack
<1>7. Compared' /\ ShotIsFresh' /\ ShotMatches'
  BY <1>1 DEF Compared, ShotIsFresh, ShotMatches
<1>8. DoneIsAnswered' /\ ResultIsHonest'
  BY <1>1 DEF DoneIsAnswered, ResultIsHonest
<1> QED
  BY <1>5, <1>6, <1>7, <1>8

\* The outcome is named after what the rollback knows.
LEMMA ConcludeKeeps ==
  ASSUME ExecuteInv, Conclude
  PROVE  ExecuteInv'
<1> USE DEF ExecuteInv
<1>1. /\ pc = "final" /\ pc' = "end" /\ TypeOK /\ UNCHANGED <<repo, project, moved, moves>>
      /\ UNCHANGED <<shot, before, text, output, why, restore, recorded, littered, faults>>
  BY DEF Conclude, Taken, End, Unmarked
<1>2. why \in Errors
  BY <1>1 DEF RollbackKnows, RollingBack
<1>3. RollbackResult = "complete" => restore = "complete"
  BY DEF RollbackResult
<1>4. RollbackResult \in {"incomplete", "stale", "complete"}
  BY DEF RollbackResult
<1>5. /\ result'.rollback \in {"none", "complete", "stale", "failed", "incomplete"}
      /\ result'.rollback = "complete" => restore = "complete"
      /\ result'.kind \in ClaimsUntouched => result'.rollback = "complete"
  <2>1. CASE why = "GIT" \/ ~shot.ok
    <3>1. result' = ResultWith("git_state_unavailable", restore)
      BY <2>1 DEF Conclude, End
    <3> QED
      BY <1>1, <3>1 DEF ResultWith, ClaimsUntouched, TypeOK
  <2>2. CASE why # "GIT" /\ shot.ok /\ (why = "SCOPE" \/ (why = "VERIFICATION" /\ RollbackResult # "complete"))
    <3>1. result' = ResultWith("execution_scope_violation", RollbackResult)
      BY <2>2 DEF Conclude, End
    <3> QED
      BY <1>3, <1>4, <3>1 DEF ResultWith, ClaimsUntouched
  <2>3. CASE why = "VERIFICATION" /\ shot.ok /\ RollbackResult = "complete"
    <3>1. result' = ResultWith("verification_failed", "complete")
      BY <2>3 DEF Conclude, End
    <3> QED
      BY <1>3, <2>3, <3>1 DEF ResultWith, ClaimsUntouched
  <2>4. CASE why = "OTHER" /\ shot.ok
    <3>1. result' = IF RollbackResult = "stale" THEN Result("rollback_stale_file")
                    ELSE IF RollbackResult # "complete" THEN Result("rollback_failed")
                    ELSE ResultWith("executor_failed", "complete")
      BY <2>4 DEF Conclude, End
    <3> QED
      BY <1>3, <3>1 DEF Result, ResultWith, ClaimsUntouched
  <2> QED
    BY <1>2, <2>1, <2>2, <2>3, <2>4 DEF Errors
<1>6. ~(recorded /\ ~littered)
  BY <1>1 DEF DoneIsAnswered
<1>7. ResultIsHonest' /\ DoneIsAnswered'
  BY <1>1, <1>5, <1>6 DEF ResultIsHonest, DoneIsAnswered, RollbackKnows, EditedTexts
<1>8. TypeOK' /\ EditIsOurs'
  BY <1>1 DEF TypeOK, EditIsOurs, Early, applied
<1> QED
  BY <1>1, <1>7, <1>8 DEF Compared, ShotIsFresh, ShotMatches, RollbackKnows, RollingBack

LEMMA InitEstablishes == Init => ExecuteInv
<1> SUFFICES ASSUME Init PROVE ExecuteInv
  OBVIOUS
<1>1. repo \in RepoType
  BY DEF Init, RepoType, Sources
<1>2. TypeOK
  BY <1>1, NoShotType DEF Init, TypeOK, Early
<1>3. EditIsOurs
  BY DEF Init, EditIsOurs, EditedTexts
<1> QED
  BY <1>2, <1>3, NoShotType
     DEF Init, ExecuteInv, Compared, ShotIsFresh, ShotMatches, RollbackKnows, RollingBack,
         DoneIsAnswered, ResultIsHonest

LEMMA NextKeeps == ExecuteInv /\ [Next]_vars => ExecuteInv'
<1> SUFFICES ASSUME ExecuteInv, [Next]_vars PROVE ExecuteInv'
  OBVIOUS
<1>1. CASE Others
  BY <1>1, OthersKeep
<1>2. CASE \/ Resolve \/ CheckContract \/ JudgeBefore \/ ResolveAgent \/ ReadSource \/ Invoke
           \/ JudgeAfter \/ ReadForEdit \/ CompareForEdit
  BY <1>2, EarlyCommandKeeps
<1>3. CASE RenameEdit
  BY <1>3, RenameEditKeeps
<1>4. CASE JudgeEdited \/ AssertIntact \/ Verify \/ JudgeHook \/ AssertIntactBeforeDone
  BY <1>4, LateCommandKeeps
<1>5. CASE CheckCompletion
  BY <1>5, LateCommandKeeps, AgentErrorKeeps
<1>6. CASE RecordDone
  BY <1>6, RecordDoneKeeps
<1>7. CASE CompareForRestore
  BY <1>7, CompareForRestoreKeeps
<1>8. CASE RenameRestore
  BY <1>8, RenameRestoreKeeps
<1>9. CASE Conclude
  BY <1>9, ConcludeKeeps
<1>10. CASE TakeSnapshot
  BY <1>10, TakeSnapshotKeeps
<1>11. CASE UNCHANGED vars
  BY <1>11 DEF vars, command, ExecuteInv, TypeOK, EditIsOurs, applied, Compared, ShotIsFresh,
     ShotMatches, RollbackKnows, DoneIsAnswered, ResultIsHonest
<1> QED
  BY <1>1, <1>2, <1>3, <1>4, <1>5, <1>6, <1>7, <1>8, <1>9, <1>10, <1>11 DEF Next, Command

LEMMA AlwaysExecuteInv == Spec => []ExecuteInv
  BY InitEstablishes, NextKeeps, PTL DEF Spec

-----------------------------------------------------------------------------
(* Theorems.                                                               *)

(* A result that says nothing of a file left behind leaves none, and a     *)
(* published done is answered with done.                                   *)
THEOREM ResultIsHonestHolds == Spec => []ResultIsHonest
<1>1. ExecuteInv => ResultIsHonest
  BY DEF ExecuteInv
<1> QED
  BY <1>1, AlwaysExecuteInv, PTL

(* A done event is published over exactly the edit that was verified.      *)
THEOREM DoneMatchesTreeHolds == Spec => DoneMatchesTree
<1>1. ASSUME ExecuteInv, [Next]_vars, recorded', ~recorded
      PROVE  \/ moved
             \/ /\ repo.source = applied /\ repo.head = before
                /\ ~repo.staged /\ ~repo.other
  <2>1. pc = "record"
    BY <1>1 DEF Next, Command, vars, command, Others, WriteSource, TouchTree, Commit, EditProject,
                OtherCommand, OtherStep, Resolve, CheckContract, JudgeBefore, ResolveAgent, ReadSource,
                Invoke, JudgeAfter, ReadForEdit, CompareForEdit, RenameEdit, JudgeEdited, AssertIntact,
                CheckCompletion, Verify, JudgeHook, AssertIntactBeforeDone, RecordDone,
                CompareForRestore, RenameRestore, Conclude, TakeSnapshot, End, Step, Rollback, Go,
                GoRollback, Restored
  <2> QED
    BY <1>1, <2>1 DEF ExecuteInv, ShotMatches
<1> QED
  BY <1>1, AlwaysExecuteInv, PTL DEF Spec, DoneMatchesTree

(* The command renames over the source only what it has itself compared.   *)
THEOREM ForeignKeptHolds == Spec => ForeignKept
<1>1. ASSUME ExecuteInv, [Next]_vars, repo'.source # repo.source, moves' = moves
      PROVE  \/ moved
             \/ repo.source = text /\ repo'.source = applied
             \/ repo.source = applied /\ repo'.source = text
  <2>1. CASE Others
    BY <1>1, <2>1, OthersStep
  <2>2. CASE RenameEdit
    <3>1. repo'.source = applied
      BY <1>1, <2>2, Replaced, AppliedType DEF RenameEdit, ExecuteInv, TypeOK
    <3> QED
      BY <1>1, <2>2, <3>1 DEF RenameEdit, ExecuteInv, Compared
  <2>3. CASE RenameRestore
    <3>1. repo'.source = text
      BY <1>1, <2>3, Replaced, AppliedType DEF RenameRestore, ExecuteInv, TypeOK
    <3> QED
      BY <1>1, <2>3, <3>1 DEF RenameRestore, ExecuteInv, Compared
  <2>4. CASE RecordDone
    BY <1>1, <2>4 DEF RecordDone, ExecuteInv, TypeOK, RepoType
  <2>5. CASE \/ UNCHANGED vars \/ Resolve \/ CheckContract \/ JudgeBefore \/ ResolveAgent \/ ReadSource
             \/ Invoke \/ JudgeAfter \/ ReadForEdit \/ CompareForEdit \/ JudgeEdited \/ AssertIntact
             \/ CheckCompletion \/ Verify \/ JudgeHook \/ AssertIntactBeforeDone
             \/ CompareForRestore \/ Conclude \/ TakeSnapshot
    BY <1>1, <2>5 DEF vars, Unmarked, Resolve, CheckContract, JudgeBefore, ResolveAgent, ReadSource,
       Invoke, JudgeAfter, ReadForEdit, CompareForEdit, JudgeEdited, AssertIntact, CheckCompletion,
       Verify, JudgeHook, AssertIntactBeforeDone, CompareForRestore, Conclude, TakeSnapshot
  <2> QED
    BY <1>1, <2>1, <2>2, <2>3, <2>4, <2>5 DEF Next, Command
<1> QED
  BY <1>1, AlwaysExecuteInv, PTL DEF Spec, ForeignKept

=============================================================================
