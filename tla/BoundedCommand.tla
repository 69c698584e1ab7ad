---------------------------- MODULE BoundedCommand ----------------------------
(***************************************************************************)
(* superviseBoundedProcess on POSIX: one child in a process group of its   *)
(* own, supervised until its pipes close, its time is up or the caller     *)
(* aborts; then the group is killed and the close is awaited for a bounded *)
(* time.  The child and its descendants do as they like: descendants       *)
(* outlive the root with or without its pipes, leave the group, or linger  *)
(* after SIGKILL.                                                          *)
(*                                                                         *)
(* The race is decided by the first event; an event and the promise it     *)
(* settles are one step.  Output capture is left out.                      *)
(***************************************************************************)
EXTENDS Naturals

VARIABLES
    root,      \* none, running, or how it ended: zero, nonzero, killed
    group,     \* other live members of its process group: empty, silent or,
               \* when one of them holds the pipes, holding
    stray,     \* live processes outside the group that hold the pipes
    doomed,    \* SIGKILL was sent: to nobody, to the root, to the group
    signal,    \* the caller's AbortSignal
    sup,       \* the supervisor's next step
    cause,     \* what ended the race
    completed, \* what terminateProcessTree says of the tree: none, yes, no
    closed,    \* the exit code the close event brought, or "no"
    outcome    \* the settled result of the last command

child == <<root, group, stray>>
attempt == <<doomed, cause, completed, closed>>
supervisor == <<attempt, sup, outcome>>
commandVars == <<child, supervisor, signal>>

Outcome(exit, why, tree) == [exit |-> exit, why |-> why, tree |-> tree]
NoOutcome == Outcome("null", "none", "none")

(* checkCommands: the exit code alone is not enough, for a root may end    *)
(* with zero and still be timed out by what it left running.               *)
\* Faulty variant: the exit code decides.
ExitedZero(o) == o.exit = "zero"

Ok(o) == o.exit = "zero" /\ o.why = "close"

CommandInit ==
    /\ root = "none" /\ group = "empty" /\ stray = FALSE
    /\ doomed = "nobody" /\ cause = "none" /\ completed = "none" /\ closed = "no"
    /\ sup = "idle" /\ outcome = NoOutcome /\ signal = FALSE

-----------------------------------------------------------------------------
(* The child and its descendants                                           *)

TreeStep == UNCHANGED <<supervisor, signal>>

RootExits ==
    /\ root = "running" /\ TreeStep
    /\ root' \in {"zero", "nonzero", "killed"}
    /\ UNCHANGED <<group, stray>>

GroupExists == root = "running" \/ group # "empty"
PipesHeld == root = "running" \/ group = "holding" \/ stray

(* The root or a descendant starts another process.  It joins the group or *)
(* leaves it for a session of its own, and inherits the pipes of its       *)
(* parent unless its output is redirected.                                 *)
Forks ==
    /\ TreeStep
    /\ \/ GroupExists /\ group = "empty" /\ group' = "silent" /\ UNCHANGED stray
       \/ root = "running" /\ group # "holding" /\ group' = "holding" /\ UNCHANGED stray
       \/ PipesHeld /\ ~stray /\ stray' = TRUE /\ UNCHANGED group
    /\ UNCHANGED root

DescendantsExit ==     \* or let go of the pipes
    /\ TreeStep
    /\ \/ group = "holding" /\ group' \in {"silent", "empty"} /\ UNCHANGED stray
       \/ group = "silent" /\ group' = "empty" /\ UNCHANGED stray
       \/ stray /\ stray' = FALSE /\ UNCHANGED group
    /\ UNCHANGED root

Tree == sup # "idle" /\ (RootExits \/ Forks \/ DescendantsExit)

-----------------------------------------------------------------------------
(* The supervisor                                                          *)

(* Whoever outlives the settlement is nobody's business any more.          *)
Settle(exit, why, tree) ==
    /\ sup' = "idle" /\ outcome' = Outcome(exit, why, tree)
    /\ root' = "none" /\ group' = "empty" /\ stray' = FALSE
    /\ doomed' = "nobody" /\ cause' = "none" /\ completed' = "none" /\ closed' = "no"

Start ==
    /\ sup = "idle" /\ UNCHANGED signal
    /\ \/ signal /\ Settle("null", "abort", "none")
       \/ ~signal /\ Settle("null", "close", "none")      \* the error event
       \/ ~signal /\ root' = "running" /\ sup' = "racing"
          /\ UNCHANGED <<group, stray, attempt, outcome>>

(* close: the root has been reaped and nobody holds the pipes any more.  A *)
(* member of the group whose output is redirected may be alive.            *)
CloseEvent ==
    /\ sup # "idle" /\ closed = "no"
    /\ ~PipesHeld
    /\ LET code == IF root = "killed" THEN "null" ELSE root
       IN  IF sup = "racing"
             THEN Settle(code, "close", "none")
             ELSE closed' = code /\ UNCHANGED <<child, doomed, sup, cause, completed, outcome>>
    /\ UNCHANGED signal

Timeout ==
    /\ sup = "racing" /\ sup' = "kill" /\ cause' = "timeout"
    /\ UNCHANGED <<child, signal, doomed, completed, closed, outcome>>

Abort ==
    /\ ~signal /\ signal' = TRUE
    /\ IF sup = "racing" THEN sup' = "kill" /\ cause' = "abort" ELSE UNCHANGED <<sup, cause>>
    /\ UNCHANGED <<child, doomed, completed, closed, outcome>>

(* terminateProcessTree.  kill(-pid) fails when the group is empty, and    *)
(* may be refused; then only the root is killed and no claim is made.      *)
KillTree ==
    /\ sup = "kill" /\ sup' = "wait"
    /\ \/ GroupExists /\ doomed' = "group"
       \/ doomed' = "root"
    /\ UNCHANGED <<child, signal, cause, completed, closed, outcome>>

(* waitForTargetExit polls until its own deadline.                         *)
WaitForExit ==
    /\ sup = "wait" /\ sup' = "close"
    /\ completed' = IF doomed = "group" /\ ~GroupExists THEN "yes" ELSE "no"
    /\ UNCHANGED <<child, signal, doomed, cause, closed, outcome>>

(* The close event, or the deadline that settles without it.               *)
\* Faulty variant: without the deadline.
AwaitClose ==
    /\ sup = "close" /\ closed # "no"
    /\ Settle(closed, cause, completed) /\ UNCHANGED signal

CloseOrDeadline ==
    /\ sup = "close"
    /\ Settle(IF closed = "no" THEN "null" ELSE closed, cause, completed) /\ UNCHANGED signal

Supervise == CloseEvent \/ Timeout \/ KillTree \/ WaitForExit \/ CloseOrDeadline

-----------------------------------------------------------------------------
(* What a settled command says is so.  Ok: the root ended by itself with   *)
(* zero before its time was up, nobody was killed and no abort had come,   *)
(* whatever was alive and held the pipes meanwhile.  A reported exit code  *)
(* is the root's, also when the close came after the kill.  A termination  *)
(* said to be complete left no live member of the group, from the poll to  *)
(* the settlement (one that left the group is beyond it).                  *)
OutcomeIsTrue ==
    [][ sup # "idle" /\ sup' = "idle" =>
          /\ Ok(outcome') => root = "zero" /\ doomed = "nobody" /\ ~signal
          /\ outcome'.exit # "null" => outcome'.exit = root
          /\ outcome'.tree = "yes" => ~GroupExists ]_commandVars

=============================================================================
