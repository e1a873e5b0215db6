-------------------------- MODULE MC_SourcingLoop --------------------------
(***************************************************************************)
(* Instances of SourcingLoop for TLC.                                      *)
(***************************************************************************)
EXTENDS SourcingLoop, TLC

CONSTANTS Located, Remote, Skilled, TitleAnswers, SkillCounts

\* The requests sent and the plans answered.
PlacesSent == [located : Located, remote : Remote, skilled : Skilled]
PlansMade == [title : TitleAnswers,
              skills : {SubSeq(RequestSkills, 1, n) : n \in SkillCounts}]

\* Requests are interchangeable.
Symmetry == Permutations(Requests)
=============================================================================
