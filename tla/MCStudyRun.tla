----------------------------- MODULE MCStudyRun -----------------------------
(***************************************************************************)
(* The instance of StudyRun for TLC: three files of up to two contents, so *)
(* that a content fails, is met again, or fails after it was parsed; and   *)
(* that the batch ends.                                                    *)
(***************************************************************************)
EXTENDS StudyRun

\* The batch ends, though a parse may run for ever (empirical_study.rb:91).
RunEnds == <>(phase = "done")
=============================================================================
