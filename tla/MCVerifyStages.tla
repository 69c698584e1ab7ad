---------------------------- MODULE MCVerifyStages ----------------------------
(* Bounds for VerifyStages: two verifications of this process, a full one   *)
(* of two commands, two attempts of the other process and an edit of the    *)
(* tree: enough for a second full attempt on one tree, for the limit of two *)
(* and for a stale ledger to be written back.                               *)
EXTENDS VerifyStages

MCFull == 2
MCFullCommands == 2
MCRuns == 2
MCEdits == 1
MCOthers == 2

(* From the start of the first command to the end of the last one the       *)
(* verifier neither reads nor writes what the editor and the other process  *)
(* touch: a step of theirs there can as well be taken before or after, and  *)
(* a record they have begun be begun later.                                 *)
MCCommandsAlone ==
    /\ step \in {"run", "running", "check"} => UNCHANGED <<tree, records>>
    /\ step # "run" /\ step' = "run" => pen["other"].at \in {"none", "ended"}

(* A settled command leaves nothing but its outcome to the next one: the    *)
(* commands of the second verification end by themselves, childless.        *)
MCPlainCommands == runs > 1 /\ sup # "idle" => ~(Forks \/ Timeout \/ Abort)

(* Races and torn writes, with one attempt of the other process; without    *)
(* them, two.                                                               *)
MCSpoiledByOne == others = 2 => ~spoiled'

=============================================================================
