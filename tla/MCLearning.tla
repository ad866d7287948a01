----------------------------- MODULE MCLearning -----------------------------
(***************************************************************************)
(* Instances, for TLC, of the transcode pipeline and of what stands beside *)
(* it: a quiz, a SCORM module, a mentor's pairing, rubrics and the scores  *)
(* given by them.  The parts do not interact: a behaviour is one of them,  *)
(* chosen at the start.                                                    *)
(***************************************************************************)
EXTENDS MCTranscode, QuizAttempts, ScormAttempt, MentorPairing,
        RubricScores

CONSTANTS t1, t2, u1, u2, x1, x2, d1, d2, y1

VARIABLE part

\* Nothing tells apart requests, tabs or launches.
SameRequests == Permutations({t1, t2})
-----------------------------------------------------------------------------
Parts == {"transcode", "quiz", "scorm", "mentor", "rubric"}

LearningInit ==
  /\ part \in Parts
  /\ PipelineInit /\ QuizInit /\ ScormInit /\ MentorInit /\ RubricInit

\* The part moves; the others stay as they were at the start.
LearningNext ==
  /\ UNCHANGED part
  /\ IF part = "transcode" THEN PipelineNext ELSE UNCHANGED pvars
  /\ IF part = "quiz" THEN QuizNext ELSE UNCHANGED quizVars
  /\ IF part = "scorm" THEN ScormNext ELSE UNCHANGED scormVars
  /\ IF part = "mentor" THEN MentorNext ELSE UNCHANGED mentorVars
  /\ IF part = "rubric" THEN RubricNext ELSE UNCHANGED rubricVars

LearningSpec ==
  /\ LearningInit
  /\ [][LearningNext]_<<part, pvars, quizVars, scormVars, mentorVars,
                        rubricVars>>
=============================================================================
