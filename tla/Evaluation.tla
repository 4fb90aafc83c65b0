----------------------------- MODULE Evaluation -----------------------------
(***************************************************************************)
(* The evaluation: the retrieval harness and its corpora, the paid sweeps  *)
(* of agents, the judge and its agreement with people, and the graders.    *)
(*                                                                         *)
(* They meet in the documents table, which is Harness's; rows, verdicts    *)
(* and grades are files of their own, so a behaviour exercises one of the  *)
(* four and the others stand still.                                        *)
(***************************************************************************)
EXTENDS Harness, Sweep, Judging, Scoring

VARIABLE part   \* which of the four this behaviour exercises

evaluation == <<part, harness, sweeping, judging, graded>>

Init ==
    /\ part \in {"harness", "sweep", "judge", "grade"}
    /\ HarnessInit /\ SweepInit /\ JudgingInit /\ ScoringInit

Next ==
    /\ UNCHANGED part
    /\ \/ part = "harness" /\ HarnessNext /\ UNCHANGED <<sweeping, judging, graded>>
       \/ part = "sweep" /\ SweepNext /\ UNCHANGED <<harness, judging, graded>>
       \/ part = "judge" /\ JudgingNext /\ UNCHANGED <<harness, sweeping, graded>>
       \/ part = "grade" /\ ScoringNext /\ UNCHANGED <<harness, sweeping, judging>>

Spec == Init /\ [][Next]_evaluation
=============================================================================
