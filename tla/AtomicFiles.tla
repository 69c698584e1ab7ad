---------------------------- MODULE AtomicFiles ----------------------------
(***************************************************************************)
(* What a multi-file transaction promises: a proposed change of several     *)
(* files is applied to all of them in one step or to none, and a file       *)
(* changes in no other way than by such a step or by a user's own edit.     *)
(***************************************************************************)
EXTENDS Naturals

CONSTANTS Entry, FileState, Keep

VARIABLES
    files,   \* the content of each file
    plan,    \* the proposed content of each file, Keep where it is not a target
    edits    \* the number of edits made by users

Init ==
    /\ files \in [Entry -> FileState]
    /\ plan = [i \in Entry |-> Keep]
    /\ edits = 0

Propose ==
    /\ plan' \in [Entry -> FileState \cup {Keep}]
    /\ UNCHANGED <<files, edits>>

Apply ==
    /\ files' = [i \in Entry |-> IF plan[i] = Keep THEN files[i] ELSE plan[i]]
    /\ UNCHANGED <<plan, edits>>

Edit(i) ==
    /\ \E c \in FileState : files' = [files EXCEPT ![i] = c]
    /\ edits' = edits + 1
    /\ UNCHANGED plan

Next == Propose \/ Apply \/ \E i \in Entry : Edit(i)

Spec == Init /\ [][Next]_<<files, plan, edits>>
=============================================================================
