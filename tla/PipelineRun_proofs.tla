------------------------ MODULE PipelineRun_proofs ------------------------
(***************************************************************************)
(* Theorems about PipelineRun for any candidates, shortlist sizes, answers *)
(* of the language models and failures.                                    *)
(***************************************************************************)
EXTENDS PipelineRun, FiniteSetTheorems, WellFoundedInduction, TLAPS

-----------------------------------------------------------------------------
(* The inductive invariant.                                                *)

\* The selection is the part of the top k that was acquired, and each of
\* its members has a rank within k.
Chosen ==
  /\ answer \in Answers
  /\ pc \in {"acquire", "prescore"} => answer = <<>>
  /\ selected = acquired \cap Top
  /\ \A c \in selected : state[c].rank \in 1..k

\* A candidate that was not selected goes through no later stage.
Left(s) ==
  /\ s.synchronization # "SUCCESS"
  /\ s.scoring # "SUCCESS"
  /\ s.outcome # "SUCCESS"
  /\ s.outcome \in Failures => s.rank = 0

Others == \A c \in acquired \ selected : Left(state[c])

Refreshed == \A c \in Candidates : sync[c] = "ok" => profile[c] \in {"fresh", "torn"}

Untouched(s) ==
  s.outcome = "PENDING" /\ s.synchronization = "PENDING" /\ s.scoring = "PENDING"

Settled(s) == s.scoring # "SUCCESS" /\ s.outcome \in Failures

Selecting == {"acquire", "prescore", "clear", "clearScores"}
Synchronizing == {"sync", "upsert", "lookup"}

\* What the stages of a selected candidate say at each point of the run.
Marks ==
  \A c \in selected :
    LET s == state[c]
    IN /\ s.synchronization = "SUCCESS" => sync[c] = "ok"
       /\ s.scoring = "SUCCESS" => s.synchronization = "SUCCESS"
       /\ s.outcome = "SUCCESS" => s.scoring = "SUCCESS"
       /\ pc \in Selecting \cup Synchronizing => Untouched(s)
       /\ pc = "deep" =>
            \/ s.synchronization = "SUCCESS" /\ s.outcome = "PENDING" /\ s.scoring = "PENDING"
            \/ s.synchronization # "SUCCESS" /\ Settled(s)
       /\ pc \in Persisting =>
            (s.scoring = "SUCCESS" /\ s.outcome = "PENDING") \/ Settled(s)
       /\ pc \in {"respond", "done"} =>
            (s.scoring = "SUCCESS" /\ s.outcome = "SUCCESS") \/ Settled(s)

\* Until deep scoring the run has no scores and has written no row; and only
\* then can its session be broken.
Quiet ==
  /\ pc \in Selecting => selected = {}
  /\ pc = "acquire" => \A c \in Candidates : Untouched(state[c])
  /\ pc \in Selecting \cup Synchronizing \cup {"deep"} => graded = {} /\ response = {}
  /\ pc \in {"acquire", "prescore", "deep"} \cup Synchronizing => <<scores, entries>> = before
  /\ session = "broken" =>
       /\ pc \in {"upsert", "lookup", "crashed", "raised"}
       /\ graded = {} /\ response = {} /\ <<scores, entries>> = before

\* A row names a candidate with a profile: the tables have foreign keys.
Known == scores \cup entries \subseteq {c \in Candidates : profile[c] # "missing"}

\* How far the two tables are at each statement of the persistence.
Stored ==
  /\ pc \in {"scores", "entries"} => todo \subseteq graded
  /\ pc = "scores" => graded \ todo \subseteq scores
  /\ pc = "entries" => graded \subseteq scores /\ graded \ todo \subseteq entries
  /\ pc = "prune" => graded \subseteq scores /\ graded \subseteq entries
  /\ pc = "pruneScores" => graded \subseteq scores /\ graded = entries
  /\ pc = "activate" => graded = scores /\ graded = entries
  /\ pc \in {"respond", "done"} /\ graded # {} => graded = scores /\ graded = entries
  /\ pc = "done" => response = Returned

IInv ==
  /\ TypeOK /\ Chosen /\ Others /\ Refreshed /\ Marks /\ Quiet
  /\ Known /\ Stored

-----------------------------------------------------------------------------
(* What the selection makes of an answer.                                  *)

LEMMA Minimum ==
  ASSUME NEW T \in SUBSET Nat, T # {}
  PROVE  \E x \in T : \A y \in T : x <= y
<1>1. PICK x \in T : \A y \in T : ~(<<y, x>> \in OpToRel(<, Nat))
  BY NatLessThanWellFounded, WFMin
<1>2. \A y \in T : ~(y < x)
  BY <1>1 DEF OpToRel
<1>3. QED
  BY <1>2

LEMMA AnswerFacts ==
  ASSUME NEW a \in Answers
  PROVE  /\ a \in Seq(Prescores) /\ Len(a) \in Nat /\ Len(a) <= MaxAnswer
         /\ DOMAIN a = 1..Len(a)
         /\ \A i \in DOMAIN a : a[i].id \in Ids /\ a[i].score \in Nat
         /\ \A i, j \in DOMAIN a : i < j => a[i].score >= a[j].score
<1>1. PICK m \in 0..MaxAnswer : a \in [1..m -> Prescores]
  BY ConstantsOK DEF Answers, BoundedSeq, SeqOf
<1>2. a \in Seq(Prescores) /\ Len(a) = m
  BY <1>1, ConstantsOK
<1>3. \A i \in DOMAIN a : a[i] \in Prescores
  BY <1>1
<1>4. \A e \in Prescores : e.id \in Ids /\ e.score \in Nat
  BY ConstantsOK DEF Prescores
<1>5. \A i, j \in DOMAIN a : i < j => a[i].score >= a[j].score
  BY DEF Answers
<1>6. QED
  BY <1>1, <1>2, <1>3, <1>4, <1>5, ConstantsOK

LEMMA RankIsFirst ==
  ASSUME NEW a \in Answers, NEW c, Places(a, c) # {}
  PROVE  /\ Rank(a, c) \in Places(a, c)
         /\ \A j \in Places(a, c) : Rank(a, c) <= j
<1>1. Places(a, c) \in SUBSET Nat
  BY AnswerFacts DEF Places
<1>2. \E i \in Places(a, c) : \A j \in Places(a, c) : i <= j
  BY <1>1, Minimum
<1>3. QED
  BY <1>2 DEF Rank

\* The answer is sorted, so that the first n eligible entries are among its
\* first n entries.
LEMMA TopRanks ==
  ASSUME NEW a \in Answers, NEW n \in Nat, NEW c \in TopIds(a, n)
  PROVE  Rank(a, c) \in 1..n
<1>1. PICK p \in First(a, n) : a[p].id = c
  BY DEF TopIds
<1>2. /\ p \in DOMAIN a /\ p \in Nat /\ a[p].score \in Nat /\ a[p].score >= Threshold
      /\ Cardinality({j \in Eligible(a) : j <= p}) <= n
  BY <1>1, AnswerFacts DEF First, Eligible
<1>3. ASSUME NEW j \in 1..p
      PROVE  j \in Eligible(a)
  <2>1. j \in DOMAIN a /\ a[j].score \in Nat
    BY <1>2, AnswerFacts
  <2>2. a[j].score >= a[p].score
    BY <1>2, <2>1, AnswerFacts
  <2>3. QED
    BY <1>2, <2>1, <2>2, ConstantsOK DEF Eligible
<1>4. {j \in Eligible(a) : j <= p} = 1..p
  <2>1. \A j \in Eligible(a) : j \in Nat /\ j >= 1
    BY AnswerFacts DEF Eligible
  <2>2. QED
    BY <1>2, <1>3, <2>1
<1>5. p <= n
  <2>1. p >= 1
    BY <1>2, AnswerFacts
  <2>2. Cardinality(1..p) = p
    <3>1. 1 \in Int /\ p \in Int
      BY <1>2
    <3>2. Cardinality(1..p) = IF 1 > p THEN 0 ELSE p - 1 + 1
      BY <3>1, FS_Interval, Zenon
    <3>3. QED
      BY <1>2, <2>1, <3>2
  <2>3. Cardinality(1..p) <= n
    BY <1>2, <1>4, Zenon
  <2>4. QED
    BY <2>2, <2>3
<1>6. p \in Places(a, c)
  BY <1>1, <1>2 DEF Places
<1>7. Rank(a, c) \in Places(a, c) /\ Rank(a, c) <= p
  BY <1>6, RankIsFirst
<1>8. QED
  BY <1>2, <1>5, <1>7, AnswerFacts DEF Places

LEMMA TopIsEligible ==
  ASSUME NEW a, NEW n, NEW c
  PROVE  /\ c \in TopIds(a, n) => c \in EligibleIds(a)
         /\ c \in EligibleIds(a) => Places(a, c) # {}
<1>1. c \in TopIds(a, n) => c \in EligibleIds(a)
  BY DEF TopIds, First, EligibleIds
<1>2. c \in EligibleIds(a) => Places(a, c) # {}
  BY DEF EligibleIds, Eligible, Places
<1>3. QED
  BY <1>1, <1>2

\* The marks distinguish the selected candidates from the others.
LEMMA MarkedFacts ==
  ASSUME NEW a \in Answers, NEW n \in Nat, NEW c \in Candidates
  PROVE  /\ Marked(a, n, c) \in CandidateState
         /\ c \in TopIds(a, n) =>
              Untouched(Marked(a, n, c)) /\ Marked(a, n, c).rank \in 1..n
         /\ c \notin TopIds(a, n) =>
              Left(Marked(a, n, c)) /\ Marked(a, n, c).outcome # "PENDING"
<1>0. 0 \in 0..MaxAnswer
  BY ConstantsOK
<1>1. Places(a, c) # {} => Rank(a, c) \in 0..MaxAnswer
  BY RankIsFirst, AnswerFacts, ConstantsOK DEF Places
<1>2. CASE c \in TopIds(a, n)
  <2>1. Marked(a, n, c) = [NewState EXCEPT !.prescoring = "SUCCESS", !.rank = Rank(a, c)]
    BY <1>2, TopIsEligible DEF Marked
  <2>2. QED
    BY <1>1, <1>2, <2>1, TopRanks, TopIsEligible
       DEF NewState, CandidateState, Untouched, Stages, Outcomes, Failures
<1>3. CASE c \in EligibleIds(a) \ TopIds(a, n)
  <2>1. Marked(a, n, c) = Skipped("SKIPPED_TOP_K", Rank(a, c))
    BY <1>3, TopIsEligible DEF Marked
  <2>2. QED
    BY <1>1, <1>3, <2>1, TopIsEligible
       DEF Skipped, NewState, CandidateState, Left, Stages, Outcomes, Failures
<1>4. CASE c \notin EligibleIds(a) /\ Places(a, c) # {}
  <2>1. Marked(a, n, c) = Skipped("SKIPPED_THRESHOLD", 0) /\ c \notin TopIds(a, n)
    BY <1>4, TopIsEligible DEF Marked
  <2>2. /\ Marked(a, n, c) \in CandidateState
        /\ Left(Marked(a, n, c)) /\ Marked(a, n, c).outcome # "PENDING"
    BY <1>0, <2>1
       DEF Skipped, NewState, CandidateState, Left, Stages, Outcomes, Failures
  <2>3. QED
    BY <2>1, <2>2
<1>5. CASE Places(a, c) = {}
  <2>1. /\ Marked(a, n, c) =
             [NewState EXCEPT !.outcome = "FAILED_SCORING", !.prescoring = "FAILED"]
        /\ c \notin TopIds(a, n)
    BY <1>5, TopIsEligible DEF Marked
  <2>2. /\ Marked(a, n, c) \in CandidateState
        /\ Left(Marked(a, n, c)) /\ Marked(a, n, c).outcome # "PENDING"
    BY <1>0, <2>1 DEF NewState, CandidateState, Left, Stages, Outcomes, Failures
  <2>3. QED
    BY <2>1, <2>2
<1>6. QED
  BY <1>2, <1>3, <1>4, <1>5, TopIsEligible

\* Before the pre-scores arrive nobody is in the top k.
LEMMA EmptyTop == <<>> \in Answers /\ \A n : TopIds(<<>>, n) = {}
<1>1. <<>> \in [1..0 -> Prescores] /\ 0 \in 0..MaxAnswer
  BY ConstantsOK
<1>2. <<>> \in BoundedSeq(Prescores, MaxAnswer)
  BY <1>1 DEF BoundedSeq, SeqOf
<1>3. DOMAIN <<>> = {}
  OBVIOUS
<1>4. QED
  BY <1>2, <1>3 DEF Answers, TopIds, First, Eligible

-----------------------------------------------------------------------------
(* Types.                                                                  *)

LEMMA RowTypes == NewState \in CandidateState
<1>1. 0 \in 0..MaxAnswer
  BY ConstantsOK
<1>2. QED
  BY <1>1 DEF NewState, CandidateState, Stages, Outcomes, Failures

LEMMA SynchronizedType ==
  ASSUME NEW s \in CandidateState, NEW result
  PROVE  Synchronized(s, result) \in CandidateState
BY DEF Synchronized, CandidateState, Stages, Outcomes, Failures

LEMMA ScoredType ==
  ASSUME NEW s \in CandidateState
  PROVE  /\ [s EXCEPT !.scoring = "SUCCESS"] \in CandidateState
         /\ ScoringFailed(s) \in CandidateState
BY DEF ScoringFailed, CandidateState, Stages, Outcomes, Failures

LEMMA PersistedType ==
  ASSUME NEW s \in CandidateState, NEW stage \in Stages, NEW outcome \in Outcomes
  PROVE  [s EXCEPT !.persistence = stage, !.outcome = outcome] \in CandidateState
BY DEF CandidateState

LEMMA TypeInit == Init => TypeOK
<1> SUFFICES ASSUME Init PROVE TypeOK
  OBVIOUS
<1>1. <<>> \in Seq(Prescores) /\ Len(<<>>) <= MaxAnswer
  BY ConstantsOK
<1>2. \E prior \in SUBSET {c \in Candidates : profile[c] # "missing"} :
        scores = prior /\ entries = prior
  BY DEF Init
<1>3. scores \subseteq Candidates /\ entries \subseteq Candidates
  BY <1>2
<1>4. QED
  BY <1>1, <1>3, RowTypes, ConstantsOK DEF Init, TypeOK, PCs, Profiles

LEMMA PrescoreType ==
  ASSUME TypeOK, Prescore
  PROVE  TypeOK'
<1>1. PICK a \in Answers :
        /\ answer' = a
        /\ state' = [c \in Candidates |->
                       IF c \in acquired THEN Marked(a, k, c) ELSE state[c]]
        /\ selected' = {c \in acquired : state'[c].outcome = "PENDING"}
  BY DEF Prescore
<1>2. k \in Nat
  BY ConstantsOK DEF TypeOK
<1>3. \A c \in Candidates : Marked(a, k, c) \in CandidateState
  BY <1>2, MarkedFacts
<1>4. state' \in [Candidates -> CandidateState]
  BY <1>1, <1>3 DEF TypeOK
<1>5. answer' \in Seq(Prescores) /\ Len(answer') <= MaxAnswer
  BY <1>1, AnswerFacts
<1>6. selected' \subseteq acquired'
  BY <1>1 DEF Prescore
<1>7. QED
  BY <1>4, <1>5, <1>6 DEF Prescore, TypeOK, PCs, rows

LEMMA LookupType ==
  ASSUME TypeOK, Lookup
  PROVE  TypeOK'
<1>1. state' \in [Candidates -> CandidateState]
  BY SynchronizedType DEF Lookup, TypeOK
<1>2. QED
  BY <1>1 DEF Lookup, TypeOK, PCs, rows

\* The candidates of the run that are scored.
Checked == acquired \cap Scorable

\* The three things that deep scoring makes of a candidate exclude one another.
LEMMA DeepScoreEffect ==
  ASSUME DeepScore
  PROVE  /\ graded' \subseteq Ids /\ (Scorable = {} => graded' = {})
         /\ state' = [c \in Candidates |-> state'[c]]
         /\ \E ok \in SUBSET Checked : \A c \in Candidates :
              /\ c \in ok => state'[c] = [state[c] EXCEPT !.scoring = "SUCCESS"]
              /\ c \in Unscored \cup (Checked \ ok) => state'[c] = ScoringFailed(state[c])
              /\ c \notin Unscored \cup Checked => state'[c] = state[c]
<1>1. PICK scored \in SUBSET Scorable, named \in [Scorable -> Ids] :
        /\ graded' = {named[c] : c \in scored}
        /\ state' = [c \in Candidates |->
                       CASE c \in acquired \cap scored -> [state[c] EXCEPT !.scoring = "SUCCESS"]
                         [] c \in Unscored \cup (acquired \cap (Scorable \ scored)) ->
                              ScoringFailed(state[c])
                         [] OTHER -> state[c]]
  BY DEF DeepScore
<1> DEFINE ok == acquired \cap scored
<1>2. ok \in SUBSET Checked /\ acquired \cap (Scorable \ scored) = Checked \ ok
  BY DEF Checked
<1>3. Checked \cap Unscored = {}
  BY DEF Scorable, Unscored, Checked
<1>4. state' = [c \in Candidates |->
                  CASE c \in ok -> [state[c] EXCEPT !.scoring = "SUCCESS"]
                    [] c \in Unscored \cup (Checked \ ok) -> ScoringFailed(state[c])
                    [] OTHER -> state[c]]
  BY <1>1, <1>2
<1> HIDE DEF ok
<1>5. ASSUME NEW c \in Candidates
      PROVE  /\ c \in ok => state'[c] = [state[c] EXCEPT !.scoring = "SUCCESS"]
             /\ c \in Unscored \cup (Checked \ ok) => state'[c] = ScoringFailed(state[c])
             /\ c \notin Unscored \cup Checked => state'[c] = state[c]
  <2>1. CASE c \in ok
    <3>1. c \notin Unscored \cup (Checked \ ok) /\ c \in Checked
      BY <1>2, <1>3, <2>1
    <3>2. QED
      BY <1>4, <2>1, <3>1
  <2>2. CASE c \in Unscored \cup (Checked \ ok)
    <3>1. c \notin ok
      BY <1>2, <1>3, <2>2
    <3>2. QED
      BY <1>4, <2>2, <3>1
  <2>3. CASE c \notin Unscored \cup Checked
    BY <1>2, <1>4, <2>3
  <2>4. QED
    BY <2>1, <2>2, <2>3
<1>6. graded' \subseteq Ids /\ (Scorable = {} => graded' = {})
  BY <1>1
<1>7. state' = [c \in Candidates |-> state'[c]]
  BY <1>4
<1>8. QED
  BY <1>2, <1>5, <1>6, <1>7

LEMMA DeepScoreType ==
  ASSUME TypeOK, DeepScore
  PROVE  TypeOK'
<1>1. PICK ok \in SUBSET Checked : \A c \in Candidates :
        /\ c \in ok => state'[c] = [state[c] EXCEPT !.scoring = "SUCCESS"]
        /\ c \in Unscored \cup (Checked \ ok) => state'[c] = ScoringFailed(state[c])
        /\ c \notin Unscored \cup Checked => state'[c] = state[c]
  BY DeepScoreEffect
<1>2. graded' \subseteq Ids
  BY DeepScoreEffect
<1>3. ASSUME NEW c \in Candidates
      PROVE  state'[c] \in CandidateState
  <2>1. state[c] \in CandidateState
    BY DEF TypeOK
  <2>2. state'[c] \in {[state[c] EXCEPT !.scoring = "SUCCESS"], ScoringFailed(state[c]),
                       state[c]}
    BY <1>1
  <2>3. QED
    BY <2>1, <2>2, ScoredType
<1>4. state' \in [Candidates -> CandidateState]
  BY <1>3, DeepScoreEffect
<1>5. before' \in (SUBSET Candidates) \X (SUBSET Candidates)
  BY DEF DeepScore, TypeOK
<1>6. QED
  BY <1>2, <1>4, <1>5 DEF DeepScore, TypeOK, PCs

LEMMA TypeStep ==
  ASSUME TypeOK, Quiet, [Next]_vars
  PROVE  TypeOK'
<1>1. CASE Acquire
  <2>1. acquired' \subseteq Candidates
    BY <1>1 DEF Acquire, Pool
  <2>2. /\ pc' \in PCs
        /\ UNCHANGED <<run, k, profile, session, answer, state, selected, sync, todo,
                       graded, rows, response>>
    BY <1>1 DEF Acquire, PCs
  <2>3. selected' \subseteq acquired'
    BY <1>1 DEF Acquire, Quiet, Selecting
  <2>4. QED
    BY <2>1, <2>2, <2>3 DEF TypeOK, rows
<1>2. CASE Prescore
  BY <1>2, PrescoreType
<1>3. CASE Clear
  BY <1>3 DEF Clear, TypeOK, PCs, context
<1>4. CASE FetchDetails
  <2>1. Outdated \subseteq Candidates
    BY DEF Outdated
  <2>2. /\ todo' \subseteq Ids
        /\ sync' \in [Candidates -> {"none", "ok", "failed"}]
        /\ pc' \in PCs
    BY <1>4, <2>1 DEF FetchDetails, Ids, PCs
  <2>3. QED
    BY <1>4, <2>2 DEF FetchDetails, TypeOK, context, rows
<1>5. CASE Lookup
  BY <1>5, LookupType
<1>6. CASE DeepScore
  BY <1>6, DeepScoreType
<1>7. ASSUME NEW c \in Candidates, UpsertProfile(c) \/ UpsertFails(c)
      PROVE  TypeOK'
  <2>1. /\ todo' \subseteq Ids /\ pc' \in PCs
        /\ UNCHANGED <<run, k, context, graded, rows, response>>
    <3>1. Upserted(c)
      BY <1>7 DEF UpsertProfile, UpsertFails
    <3>2. QED
      BY <3>1 DEF Upserted, TypeOK, PCs
  <2>2. sync' \in [Candidates -> {"none", "ok", "failed"}]
    BY <1>7 DEF UpsertProfile, UpsertFails, TypeOK
  <2>3. profile' \in [Candidates -> Profiles] /\ session' \in {"sound", "broken"}
    BY <1>7 DEF UpsertProfile, UpsertFails, TypeOK, Profiles
  <2>4. QED
    BY <2>1, <2>2, <2>3 DEF TypeOK, context, rows
<1>8. ASSUME NEW c \in Candidates, UpsertScore(c) \/ UpsertEntry(c)
      PROVE  TypeOK'
  BY <1>8 DEF UpsertScore, UpsertEntry, TypeOK, PCs, context
<1>9. CASE Prune
  BY <1>9 DEF Prune, TypeOK, PCs, context
<1>10. CASE Activate \/ PersistFails
  <2>1. PICK stage \in Stages, outcome \in Outcomes : Persisted(stage, outcome)
    BY <1>10 DEF Activate, PersistFails, Stages, Outcomes, Failures
  <2>2. state' \in [Candidates -> CandidateState]
    BY <2>1, PersistedType DEF Persisted, TypeOK
  <2>3. QED
    BY <1>10, <2>2 DEF Activate, PersistFails, TypeOK, PCs, rows
<1>11. CASE Respond
  <2>1. response' \subseteq 1..MaxAnswer
    <3>1. response' \subseteq DOMAIN answer
      BY <1>11 DEF Respond, Returned, First, Eligible
    <3>2. QED
      BY <3>1, ConstantsOK DEF TypeOK
  <2>2. QED
    BY <1>11, <2>1 DEF Respond, TypeOK, PCs, context, rows
<1>12. CASE Raise
  BY <1>12 DEF Raise, TypeOK, PCs, context, rows
<1>13. CASE NextRun
  <2>1. profile' \in [Candidates -> Profiles]
    <3>1. PICK aged \in SUBSET {c \in Candidates : profile[c] # "missing"} :
            profile' = [c \in Candidates |-> IF c \in aged THEN "stale" ELSE profile[c]]
      BY <1>13 DEF NextRun
    <3>2. QED
      BY <3>1 DEF TypeOK, Profiles
  <2>2. state' \in [Candidates -> CandidateState]
    BY <1>13, RowTypes DEF NextRun
  <2>3. answer' \in Seq(Prescores) /\ Len(answer') <= MaxAnswer
    BY <1>13, ConstantsOK DEF NextRun
  <2>4. run' \in 1..MaxRuns /\ k' \in Ks /\ pc' \in PCs
    BY <1>13, ConstantsOK DEF NextRun, TypeOK, PCs
  <2>5. QED
    BY <1>13, <2>1, <2>2, <2>3, <2>4 DEF NextRun, TypeOK
<1>14. CASE UNCHANGED vars
  BY <1>14 DEF vars, context, rows, TypeOK
<1>15. QED
  BY <1>1, <1>2, <1>3, <1>4, <1>5, <1>6, <1>7, <1>8, <1>9, <1>10, <1>11, <1>12, <1>13,
     <1>14 DEF Next

-----------------------------------------------------------------------------
(* The selection and the others.                                           *)

LEMMA SynchronizedFacts ==
  ASSUME NEW s \in CandidateState, NEW result
  PROVE  /\ Synchronized(s, result).rank = s.rank
         /\ Synchronized(s, result).synchronization \in {"SUCCESS", "FAILED"}
         /\ Synchronized(s, result).scoring \in {s.scoring, "SKIPPED"}
         /\ Synchronized(s, result).synchronization = "SUCCESS" =>
              /\ result = "ok"
              /\ Synchronized(s, result).outcome = s.outcome
              /\ Synchronized(s, result).scoring = s.scoring
         /\ Synchronized(s, result).synchronization # "SUCCESS" =>
              Settled(Synchronized(s, result))
BY DEF Synchronized, Settled, CandidateState, Failures

LEMMA ScoredFacts ==
  ASSUME NEW s \in CandidateState, NEW d,
         d \in {[s EXCEPT !.scoring = "SUCCESS"], ScoringFailed(s), s}
  PROVE  /\ d.rank = s.rank /\ d.synchronization = s.synchronization
         /\ d = [s EXCEPT !.scoring = "SUCCESS"] =>
              d.scoring = "SUCCESS" /\ d.outcome = s.outcome
         /\ d = ScoringFailed(s) => Settled(d)
<1>1. CASE d = [s EXCEPT !.scoring = "SUCCESS"]
  BY <1>1 DEF ScoringFailed, CandidateState
<1>2. CASE d = ScoringFailed(s)
  BY <1>2 DEF ScoringFailed, Settled, CandidateState, Failures
<1>3. CASE d = s
  <2>1. s = ScoringFailed(s) => Settled(s)
    BY DEF ScoringFailed, Settled, CandidateState, Failures
  <2>2. s = [s EXCEPT !.scoring = "SUCCESS"] => s.scoring = "SUCCESS"
    BY DEF CandidateState
  <2>3. QED
    BY <1>3, <2>1, <2>2
<1>4. QED
  BY <1>1, <1>2, <1>3

LEMMA DeepScoreFacts ==
  ASSUME TypeOK, DeepScore
  PROVE  \E ok \in SUBSET Checked : \A c \in Candidates :
           /\ state'[c].rank = state[c].rank
           /\ state'[c].synchronization = state[c].synchronization
           /\ c \in ok => state'[c].scoring = "SUCCESS" /\ state'[c].outcome = state[c].outcome
           /\ c \in Unscored \cup (Checked \ ok) => Settled(state'[c])
           /\ c \notin Unscored \cup Checked => state'[c] = state[c]
<1>1. PICK ok \in SUBSET Checked : \A c \in Candidates :
        /\ c \in ok => state'[c] = [state[c] EXCEPT !.scoring = "SUCCESS"]
        /\ c \in Unscored \cup (Checked \ ok) => state'[c] = ScoringFailed(state[c])
        /\ c \notin Unscored \cup Checked => state'[c] = state[c]
  BY DeepScoreEffect
<1>2. ASSUME NEW c \in Candidates
      PROVE  /\ state'[c].rank = state[c].rank
             /\ state'[c].synchronization = state[c].synchronization
             /\ c \in ok => state'[c].scoring = "SUCCESS" /\ state'[c].outcome = state[c].outcome
             /\ c \in Unscored \cup (Checked \ ok) => Settled(state'[c])
             /\ c \notin Unscored \cup Checked => state'[c] = state[c]
  <2>1. state[c] \in CandidateState
    BY DEF TypeOK
  <2>2. state'[c] \in {[state[c] EXCEPT !.scoring = "SUCCESS"], ScoringFailed(state[c]),
                       state[c]}
    BY <1>1
  <2>3. /\ state'[c].rank = state[c].rank
        /\ state'[c].synchronization = state[c].synchronization
        /\ state'[c] = [state[c] EXCEPT !.scoring = "SUCCESS"] =>
             state'[c].scoring = "SUCCESS" /\ state'[c].outcome = state[c].outcome
        /\ state'[c] = ScoringFailed(state[c]) => Settled(state'[c])
    BY <2>1, <2>2, ScoredFacts
  <2>4. QED
    BY <1>1, <2>3
<1>3. QED
  BY <1>1, <1>2

LEMMA PersistedFacts ==
  ASSUME TypeOK, NEW stage, NEW outcome, Persisted(stage, outcome), NEW c \in Candidates
  PROVE  /\ state'[c].rank = state[c].rank
         /\ state'[c].synchronization = state[c].synchronization
         /\ state'[c].scoring = state[c].scoring
         /\ state'[c].outcome =
              IF c \in Scorable /\ state[c].scoring = "SUCCESS" THEN outcome
              ELSE state[c].outcome
<1>1. state[c] \in CandidateState
  BY DEF TypeOK
<1>2. state'[c] = IF c \in Scorable /\ state[c].scoring = "SUCCESS"
                  THEN [state[c] EXCEPT !.persistence = stage, !.outcome = outcome]
                  ELSE state[c]
  BY DEF Persisted
<1>3. QED
  BY <1>1, <1>2 DEF CandidateState

\* Of the candidates of the run, the selected ones whose synchronization has
\* succeeded can be scored, and only they.
LEMMA ScorableIs ==
  ASSUME IInv
  PROVE  /\ Checked = {c \in selected : state[c].synchronization = "SUCCESS"}
         /\ Unscored \subseteq selected
<1>1. selected = acquired \cap Top /\ acquired \subseteq Candidates
  BY DEF IInv, Chosen, TypeOK
<1>2. ASSUME NEW c \in selected, state[c].synchronization = "SUCCESS"
      PROVE  c \in Checked
  <2>1. sync[c] = "ok"
    BY <1>2 DEF IInv, Marks
  <2>2. profile[c] # "missing"
    BY <1>1, <2>1 DEF IInv, Refreshed
  <2>3. QED
    BY <1>1, <1>2, <2>2 DEF Checked, Scorable, Local
<1>3. Local \cap acquired \subseteq selected
  BY <1>1 DEF Local
<1>4. Unscored \subseteq selected
  BY <1>3 DEF Unscored, Scorable
<1>5. QED
  BY <1>2, <1>3, <1>4 DEF Checked, Scorable

LEMMA ChosenStep ==
  ASSUME IInv, [Next]_vars
  PROVE  Chosen'
<1>1. TypeOK /\ Chosen /\ Quiet
  BY DEF IInv
<1>2. CASE Acquire
  <2>1. answer = <<>> /\ selected = {} /\ pc' # "acquire"
    BY <1>1, <1>2 DEF Acquire, Chosen, Quiet, Selecting
  <2>2. UNCHANGED <<k, answer, selected, state>>
    BY <1>2 DEF Acquire
  <2>3. TopIds(<<>>, k) = {} /\ <<>> \in Answers
    BY EmptyTop
  <2>4. QED
    BY <2>1, <2>2, <2>3 DEF Chosen, Top
<1>3. CASE Prescore
  <2>1. PICK a \in Answers :
          /\ answer' = a
          /\ state' = [c \in Candidates |->
                         IF c \in acquired THEN Marked(a, k, c) ELSE state[c]]
          /\ selected' = {c \in acquired : state'[c].outcome = "PENDING"}
    BY <1>3 DEF Prescore
  <2>2. k \in Nat /\ acquired \subseteq Candidates /\ k' = k /\ acquired' = acquired
    BY <1>1, <1>3, ConstantsOK DEF TypeOK, Prescore
  <2>3. \A c \in acquired : state'[c] = Marked(a, k, c)
    BY <2>1, <2>2
  <2>4. selected' = acquired \cap TopIds(a, k)
    BY <2>1, <2>2, <2>3, MarkedFacts DEF Untouched
  <2>5. \A c \in selected' : state'[c].rank \in 1..k
    BY <2>2, <2>3, <2>4, MarkedFacts
  <2>6. pc' \notin {"acquire", "prescore"}
    BY <1>3 DEF Prescore
  <2>7. QED
    BY <2>1, <2>2, <2>4, <2>5, <2>6 DEF Chosen, Top
<1>4. ASSUME UNCHANGED <<k, answer, acquired, selected>>, pc' \notin {"acquire", "prescore"},
             \A c \in selected : state'[c].rank = state[c].rank
      PROVE  Chosen'
  BY <1>1, <1>4 DEF Chosen, Top
<1>5. ASSUME NEW c \in Candidates,
             UpsertProfile(c) \/ UpsertFails(c) \/ UpsertScore(c) \/ UpsertEntry(c)
      PROVE  Chosen'
  BY <1>4, <1>5 DEF UpsertProfile, UpsertFails, Upserted, UpsertScore, UpsertEntry, context
<1>6. CASE Clear \/ FetchDetails \/ Prune \/ Respond \/ Raise
  BY <1>4, <1>6 DEF Clear, FetchDetails, Prune, Respond, Raise, context
<1>7. CASE Lookup
  <2>1. ASSUME NEW c \in selected
        PROVE  state'[c].rank = state[c].rank
    BY <1>1, <1>7, SynchronizedFacts DEF Lookup, TypeOK
  <2>2. QED
    BY <1>4, <1>7, <2>1 DEF Lookup
<1>8. CASE DeepScore
  <2>1. ASSUME NEW c \in selected
        PROVE  state'[c].rank = state[c].rank
    BY <1>1, <1>8, DeepScoreFacts DEF TypeOK
  <2>2. pc' \notin {"acquire", "prescore"} /\ UNCHANGED <<k, answer, acquired, selected>>
    BY <1>8 DEF DeepScore
  <2>3. QED
    BY <1>4, <2>1, <2>2
<1>9. CASE Activate \/ PersistFails
  <2>1. PICK stage, outcome : Persisted(stage, outcome)
    BY <1>9 DEF Activate, PersistFails
  <2>2. ASSUME NEW c \in selected
        PROVE  state'[c].rank = state[c].rank
    BY <1>1, <2>1, PersistedFacts DEF TypeOK
  <2>3. QED
    BY <1>4, <1>9, <2>2 DEF Activate, PersistFails
<1>10. CASE NextRun
  <2>1. answer' = <<>> /\ selected' = {} /\ acquired' = {}
    BY <1>10 DEF NextRun
  <2>2. QED
    BY <2>1, EmptyTop DEF Chosen
<1>11. CASE UNCHANGED vars
  BY <1>1, <1>11 DEF Chosen, Top, vars, context
<1>12. QED
  BY <1>2, <1>3, <1>5, <1>6, <1>7, <1>8, <1>9, <1>10, <1>11 DEF Next

\* Once the selection is made, no step of the run touches the others.
LEMMA OthersUntouched ==
  ASSUME IInv, [Next]_vars, ~Acquire, ~Prescore, ~NextRun
  PROVE  /\ UNCHANGED <<acquired, selected>>
         /\ \A c \in acquired \ selected : state'[c] = state[c]
<1>1. acquired \subseteq Candidates /\ TypeOK
  BY DEF IInv, TypeOK
<1> DEFINE Kept == /\ UNCHANGED <<acquired, selected>>
                   /\ \A c \in acquired \ selected : state'[c] = state[c]
<1>2. ASSUME NEW c \in Candidates,
             UpsertProfile(c) \/ UpsertFails(c) \/ UpsertScore(c) \/ UpsertEntry(c)
      PROVE  Kept
  BY <1>2 DEF UpsertProfile, UpsertFails, Upserted, UpsertScore, UpsertEntry, context
<1>3. CASE Clear \/ FetchDetails \/ Prune \/ Respond \/ Raise
  BY <1>3 DEF Clear, FetchDetails, Prune, Respond, Raise, context
<1>4. CASE Lookup
  BY <1>1, <1>4 DEF Lookup
<1>5. CASE DeepScore
  <2>1. \A c \in acquired \ selected : c \in Candidates /\ c \notin Unscored \cup Checked
    BY <1>1, ScorableIs
  <2>2. \A c \in acquired \ selected : state'[c] = state[c]
    BY <1>1, <1>5, <2>1, DeepScoreFacts
  <2>3. QED
    BY <1>5, <2>2 DEF DeepScore
<1>6. CASE Activate \/ PersistFails
  <2>1. PICK stage, outcome : Persisted(stage, outcome)
    BY <1>6 DEF Activate, PersistFails
  <2>2. \A c \in acquired \ selected : c \in Candidates /\ c \notin Scorable
    BY <1>1, ScorableIs DEF Checked
  <2>3. \A c \in acquired \ selected : state'[c] = state[c]
    BY <2>1, <2>2 DEF Persisted
  <2>4. QED
    BY <1>6, <2>3 DEF Activate, PersistFails
<1>7. CASE UNCHANGED vars
  BY <1>7 DEF vars, context
<1>8. QED
  BY <1>2, <1>3, <1>4, <1>5, <1>6, <1>7 DEF Next

LEMMA OthersStep ==
  ASSUME IInv, [Next]_vars
  PROVE  Others'
<1>1. TypeOK /\ Chosen /\ Others /\ Quiet
  BY DEF IInv
<1>2. acquired \subseteq Candidates
  BY <1>1 DEF TypeOK
<1>3. CASE Acquire
  <2>1. acquired' \subseteq Candidates
    BY <1>3 DEF Acquire, Pool
  <2>2. state' = state
    BY <1>3 DEF Acquire
  <2>3. \A c \in Candidates : Left(state[c])
    BY <1>1, <1>3 DEF Acquire, Quiet, Untouched, Left, Failures
  <2>4. QED
    BY <2>1, <2>2, <2>3 DEF Others
<1>4. CASE Prescore
  <2>1. PICK a \in Answers :
          /\ state' = [c \in Candidates |->
                         IF c \in acquired THEN Marked(a, k, c) ELSE state[c]]
          /\ selected' = {c \in acquired : state'[c].outcome = "PENDING"}
    BY <1>4 DEF Prescore
  <2>2. k \in Nat /\ acquired' = acquired
    BY <1>1, <1>4, ConstantsOK DEF TypeOK, Prescore
  <2>3. ASSUME NEW c \in acquired, c \notin selected'
        PROVE  Left(state'[c])
    <3>1. state'[c] = Marked(a, k, c) /\ Marked(a, k, c).outcome # "PENDING"
      BY <1>2, <2>1, <2>3
    <3>2. QED
      BY <1>2, <2>2, <3>1, MarkedFacts DEF Untouched
  <2>4. QED
    BY <2>2, <2>3 DEF Others
<1>5. CASE NextRun
  BY <1>5 DEF NextRun, Others
<1>6. CASE ~Acquire /\ ~Prescore /\ ~NextRun
  BY <1>1, <1>6, OthersUntouched DEF Others
<1>7. QED
  BY <1>3, <1>4, <1>5, <1>6

LEMMA RefreshedStep ==
  ASSUME IInv, [Next]_vars
  PROVE  Refreshed'
<1>1. TypeOK /\ Refreshed
  BY DEF IInv
<1>2. CASE FetchDetails
  <2>1. PICK returned \in SUBSET Outdated :
          sync' = [c \in Candidates |->
                     IF c \notin Top \/ c \in returned THEN "none"
                     ELSE IF c \in Outdated THEN "failed" ELSE "ok"]
    BY <1>2 DEF FetchDetails
  <2>2. ASSUME NEW c \in Candidates, sync'[c] = "ok"
        PROVE  profile[c] \in {"fresh", "torn"}
    <3>1. c \in Top /\ c \notin Outdated
      BY <2>1, <2>2
    <3>2. profile[c] \notin {"missing", "stale"} /\ profile[c] \in Profiles
      BY <1>1, <3>1 DEF Outdated, TypeOK
    <3>3. QED
      BY <3>2 DEF Profiles
  <2>3. QED
    BY <1>2, <2>2 DEF FetchDetails, Refreshed
<1>3. ASSUME NEW c \in Candidates, UpsertProfile(c)
      PROVE  Refreshed'
  BY <1>1, <1>3 DEF UpsertProfile, Refreshed, TypeOK
<1>4. ASSUME NEW c \in Candidates, UpsertFails(c)
      PROVE  Refreshed'
  <2>1. sync' = [sync EXCEPT ![c] = "failed"] /\ sync'[c] = "failed"
    BY <1>1, <1>4 DEF UpsertFails, TypeOK
  <2>2. \A d \in Candidates \ {c} : sync'[d] = sync[d] /\ profile'[d] = profile[d]
    BY <1>1, <1>4, <2>1 DEF UpsertFails, TypeOK
  <2>3. QED
    BY <1>1, <2>1, <2>2 DEF Refreshed
<1>5. ASSUME NEW c \in Candidates, UpsertScore(c) \/ UpsertEntry(c)
      PROVE  Refreshed'
  BY <1>1, <1>5 DEF UpsertScore, UpsertEntry, Refreshed
<1>6. CASE Acquire \/ Prescore \/ Clear \/ Lookup \/ DeepScore \/ Prune \/ Activate
           \/ PersistFails \/ Respond \/ Raise
  <2>1. UNCHANGED <<sync, profile>>
    BY <1>6 DEF Acquire, Prescore, Clear, Lookup, DeepScore, Prune, Activate, PersistFails,
                Respond, Raise
  <2>2. QED
    BY <1>1, <2>1 DEF Refreshed
<1>7. CASE NextRun
  BY <1>7 DEF NextRun, Refreshed
<1>8. CASE UNCHANGED vars
  BY <1>1, <1>8 DEF vars, Refreshed
<1>9. QED
  BY <1>2, <1>3, <1>4, <1>5, <1>6, <1>7, <1>8 DEF Next

LEMMA QuietStep ==
  ASSUME IInv, [Next]_vars
  PROVE  Quiet'
<1>1. TypeOK /\ Quiet
  BY DEF IInv
<1> USE <1>1 DEF Quiet, Selecting, Synchronizing
<1>2. CASE Acquire
  BY <1>2 DEF Acquire, rows
<1>3. CASE Prescore
  BY <1>3 DEF Prescore, rows
<1>4. CASE Clear
  BY <1>4 DEF Clear, context
<1>5. CASE FetchDetails
  BY <1>5 DEF FetchDetails, context, rows
<1>6. ASSUME NEW c \in Candidates, UpsertProfile(c) \/ UpsertFails(c)
      PROVE  Quiet'
  <2>1. pc' \in {"upsert", "lookup"} /\ UNCHANGED <<selected, graded, rows, response>>
    BY <1>6 DEF UpsertProfile, UpsertFails, Upserted, context
  <2>2. pc = "upsert"
    BY <1>6 DEF UpsertProfile, UpsertFails, Upserted
  <2>3. QED
    BY <2>1, <2>2 DEF rows
<1>7. CASE Lookup
  <2>1. pc = "lookup" /\ UNCHANGED <<selected, session, graded, rows, response>>
    BY <1>7 DEF Lookup
  <2>2. pc' = IF session = "broken" THEN "crashed" ELSE "deep"
    BY <1>7 DEF Lookup
  <2>3. QED
    BY <2>1, <2>2 DEF rows
<1>8. CASE DeepScore
  <2>1. pc = "deep" /\ session' = session /\ pc' \in {"respond", "prune", "scores"}
    BY <1>8 DEF DeepScore
  <2>2. QED
    BY <2>1
<1>9. ASSUME NEW c \in Candidates, UpsertScore(c) \/ UpsertEntry(c)
      PROVE  Quiet'
  <2>1. pc \in {"scores", "entries"} /\ pc' \in {"scores", "entries", "prune"}
        /\ session' = session
    BY <1>9 DEF UpsertScore, UpsertEntry
  <2>2. QED
    BY <2>1
<1>10. CASE Prune
  <2>1. pc \in {"prune", "pruneScores"} /\ pc' \in {"pruneScores", "activate"}
        /\ session' = session
    BY <1>10 DEF Prune
  <2>2. QED
    BY <2>1
<1>11. CASE Activate \/ PersistFails \/ Respond
  <2>1. pc \in Persisting \cup {"respond"} /\ pc' \in {"respond", "raised", "done"}
        /\ session' = session
    BY <1>11 DEF Activate, PersistFails, Respond, Persisting
  <2>2. QED
    BY <2>1 DEF Persisting
<1>12. CASE Raise
  BY <1>12 DEF Raise, context, rows
<1>13. CASE NextRun
  <2>1. /\ pc' = "acquire" /\ session' = "sound" /\ selected' = {} /\ graded' = {}
        /\ response' = {} /\ <<scores', entries'>> = before'
        /\ state' = [c \in Candidates |-> NewState]
    BY <1>13 DEF NextRun
  <2>2. \A c \in Candidates : Untouched(state'[c])
    BY <2>1 DEF NewState, Untouched
  <2>3. QED
    BY <2>1, <2>2
<1>14. CASE UNCHANGED vars
  BY <1>14 DEF vars, context, rows
<1>15. QED
  BY <1>2, <1>3, <1>4, <1>5, <1>6, <1>7, <1>8, <1>9, <1>10, <1>11, <1>12, <1>13, <1>14
     DEF Next

LEMMA MarksStep ==
  ASSUME IInv, [Next]_vars
  PROVE  Marks'
<1>1. TypeOK /\ Chosen /\ Marks /\ Quiet
  BY DEF IInv
<1>2. selected \subseteq Candidates
  BY <1>1 DEF TypeOK
<1>3. CASE Acquire \/ Clear \/ NextRun
  <2>1. selected' = {}
    BY <1>1, <1>3 DEF Acquire, Clear, NextRun, Quiet, Selecting, context
  <2>2. QED
    BY <2>1 DEF Marks
<1>4. CASE Prescore
  <2>1. PICK a \in Answers :
          /\ state' = [c \in Candidates |->
                         IF c \in acquired THEN Marked(a, k, c) ELSE state[c]]
          /\ selected' = {c \in acquired : state'[c].outcome = "PENDING"}
    BY <1>4 DEF Prescore
  <2>2. k \in Nat /\ acquired \subseteq Candidates
    BY <1>1, ConstantsOK DEF TypeOK
  <2>3. ASSUME NEW c \in selected'
        PROVE  Untouched(state'[c])
    <3>1. state'[c] = Marked(a, k, c) /\ state'[c].outcome = "PENDING" /\ c \in Candidates
      BY <2>1, <2>2
    <3>2. QED
      BY <2>2, <3>1, MarkedFacts
  <2>4. pc' \in {"clear", "sync"}
    BY <1>4 DEF Prescore
  <2>5. QED
    BY <2>3, <2>4 DEF Marks, Untouched, Persisting
<1>5. CASE FetchDetails \/ \E c \in Candidates : UpsertProfile(c) \/ UpsertFails(c)
  <2>1. pc \in Synchronizing /\ pc' \in Synchronizing /\ UNCHANGED <<selected, state>>
    BY <1>5 DEF FetchDetails, UpsertProfile, UpsertFails, Upserted, Synchronizing, context
  <2>2. \A c \in selected : Untouched(state[c])
    BY <1>1, <2>1 DEF Marks
  <2>3. QED
    BY <2>1, <2>2 DEF Marks, Untouched, Persisting, Synchronizing
<1>6. CASE Lookup
  <2>1. /\ state' = [c \in Candidates |->
                       IF c \in selected THEN Synchronized(state[c], sync[c]) ELSE state[c]]
        /\ pc = "lookup" /\ pc' \in {"crashed", "deep"} /\ UNCHANGED <<selected, sync>>
    BY <1>6 DEF Lookup
  <2>2. ASSUME NEW c \in selected
        PROVE  /\ state'[c].synchronization = "SUCCESS" =>
                    sync[c] = "ok" /\ state'[c].outcome = "PENDING" /\ state'[c].scoring = "PENDING"
               /\ state'[c].synchronization # "SUCCESS" => Settled(state'[c])
    <3>1. state[c] \in CandidateState /\ Untouched(state[c])
      BY <1>1, <1>2, <2>1 DEF Marks, TypeOK, Synchronizing
    <3>2. state'[c] = Synchronized(state[c], sync[c])
      BY <1>2, <2>1
    <3>3. QED
      BY <3>1, <3>2, SynchronizedFacts DEF Untouched
  <2>3. QED
    BY <2>1, <2>2 DEF Marks, Settled, Failures, Persisting, Selecting, Synchronizing
<1>7. CASE DeepScore
  <2>1. pc = "deep" /\ pc' \in {"respond", "prune", "scores"} /\ UNCHANGED <<selected, sync>>
        /\ (pc' = "respond" => Scorable = {})
    BY <1>7 DEF DeepScore
  <2>2. PICK ok \in SUBSET Checked : \A c \in Candidates :
             /\ state'[c].synchronization = state[c].synchronization
             /\ c \in ok => state'[c].scoring = "SUCCESS" /\ state'[c].outcome = state[c].outcome
             /\ c \in Unscored \cup (Checked \ ok) => Settled(state'[c])
             /\ c \notin Unscored \cup Checked => state'[c] = state[c]
    BY <1>1, <1>7, DeepScoreFacts
  <2>3. ASSUME NEW c \in selected
        PROVE  /\ state'[c].synchronization = "SUCCESS" => sync[c] = "ok"
               /\ state'[c].scoring = "SUCCESS" => state'[c].synchronization = "SUCCESS"
               /\ \/ c \in Checked /\ state'[c].scoring = "SUCCESS"
                     /\ state'[c].outcome = "PENDING"
                  \/ Settled(state'[c])
    <3>1. /\ state[c].synchronization = "SUCCESS" => sync[c] = "ok"
          /\ \/ state[c].synchronization = "SUCCESS" /\ state[c].outcome = "PENDING"
             \/ state[c].synchronization # "SUCCESS" /\ Settled(state[c])
          /\ state'[c].synchronization = state[c].synchronization
      BY <1>1, <1>2, <2>1, <2>2 DEF Marks
    <3>2. CASE c \in ok
      <4>1. c \in Checked /\ state[c].synchronization = "SUCCESS"
        BY <3>2, ScorableIs
      <4>2. QED
        BY <1>2, <2>2, <3>1, <3>2, <4>1
    <3>3. CASE c \in Unscored \cup (Checked \ ok)
      <4>1. Settled(state'[c])
        BY <1>2, <2>2, <3>3
      <4>2. QED
        BY <3>1, <4>1 DEF Settled
    <3>4. CASE c \notin Unscored \cup Checked
      <4>1. state'[c] = state[c]
        BY <1>2, <2>2, <3>4
      <4>2. state[c].synchronization # "SUCCESS"
        BY <3>4, ScorableIs
      <4>3. QED
        BY <3>1, <4>1, <4>2 DEF Settled
    <3>5. QED
      BY <3>2, <3>3, <3>4
  <2>4. QED
    BY <2>1, <2>3 DEF Marks, Checked, Settled, Failures, Persisting, Selecting, Synchronizing
<1>8. CASE (\E c \in Candidates : UpsertScore(c) \/ UpsertEntry(c)) \/ Prune
  <2>1. pc \in Persisting /\ pc' \in Persisting /\ UNCHANGED <<selected, state, sync>>
    BY <1>8 DEF UpsertScore, UpsertEntry, Prune, Persisting, context
  <2>2. QED
    BY <1>1, <2>1 DEF Marks, Persisting, Selecting, Synchronizing
<1>9. CASE Activate
  <2>1. pc \in Persisting /\ pc' = "respond" /\ Persisted("SUCCESS", "SUCCESS")
        /\ UNCHANGED <<selected, sync>>
    BY <1>9 DEF Activate, Persisting
  <2>2. ASSUME NEW c \in selected
        PROVE  /\ state'[c].synchronization = "SUCCESS" => sync[c] = "ok"
               /\ state'[c].scoring = "SUCCESS" => state'[c].synchronization = "SUCCESS"
               /\ (state'[c].scoring = "SUCCESS" /\ state'[c].outcome = "SUCCESS")
                  \/ Settled(state'[c])
    <3>1. /\ state'[c].synchronization = state[c].synchronization
          /\ state'[c].scoring = state[c].scoring
          /\ state'[c].outcome = IF c \in Scorable /\ state[c].scoring = "SUCCESS"
                                 THEN "SUCCESS" ELSE state[c].outcome
      BY <1>1, <1>2, <2>1, PersistedFacts
    <3>2. /\ state[c].synchronization = "SUCCESS" => sync[c] = "ok"
          /\ state[c].scoring = "SUCCESS" => state[c].synchronization = "SUCCESS"
          /\ state[c].scoring = "SUCCESS" \/ Settled(state[c])
      BY <1>1, <2>1 DEF Marks
    <3>3. state[c].scoring = "SUCCESS" => c \in Scorable
      BY <3>2, ScorableIs DEF Checked
    <3>4. QED
      BY <3>1, <3>2, <3>3 DEF Settled
  <2>3. QED
    BY <2>1, <2>2 DEF Marks, Settled, Failures, Persisting, Selecting, Synchronizing
<1>10. CASE PersistFails
  <2>1. pc' = "raised" /\ Persisted("FAILED", "FAILED_PERSISTENCE")
        /\ UNCHANGED <<selected, sync>>
    BY <1>10 DEF PersistFails
  <2>2. \A c \in selected : /\ state'[c].synchronization = state[c].synchronization
                            /\ state'[c].scoring = state[c].scoring
                            /\ state'[c].outcome \in {"FAILED_PERSISTENCE", state[c].outcome}
    BY <1>1, <1>2, <2>1, PersistedFacts
  <2>3. QED
    BY <1>1, <2>1, <2>2 DEF Marks, Persisting, Selecting, Synchronizing
<1>11. CASE Respond
  <2>1. pc = "respond" /\ pc' = "done" /\ UNCHANGED <<selected, state, sync>>
    BY <1>11 DEF Respond, context
  <2>2. QED
    BY <1>1, <2>1 DEF Marks, Persisting, Selecting, Synchronizing
<1>12. CASE Raise
  <2>1. pc' = "raised" /\ UNCHANGED <<selected, state, sync>>
    BY <1>12 DEF Raise, context
  <2>2. QED
    BY <1>1, <2>1 DEF Marks, Persisting, Selecting, Synchronizing
<1>13. CASE UNCHANGED vars
  BY <1>1, <1>13 DEF Marks, vars, context
<1>14. QED
  BY <1>3, <1>4, <1>5, <1>6, <1>7, <1>8, <1>9, <1>10, <1>11, <1>12, <1>13 DEF Next

\* Rows are written for known candidates only, and no profile disappears.
LEMMA KnownStep ==
  ASSUME IInv, [Next]_vars
  PROVE  Known'
<1>1. TypeOK /\ Known
  BY DEF IInv
<1>2. ASSUME scores' \cup entries' \subseteq scores \cup entries,
             \A c \in Candidates : profile[c] # "missing" => profile'[c] # "missing"
      PROVE  Known'
  BY <1>1, <1>2 DEF Known
<1>3. ASSUME NEW c \in Candidates, UpsertProfile(c) \/ UpsertFails(c)
      PROVE  Known'
  <2>1. UNCHANGED <<scores, entries>>
    BY <1>3 DEF UpsertProfile, UpsertFails, Upserted, rows
  <2>2. \/ profile' = profile
        \/ \E p \in {"fresh", "torn", profile[c]} : profile' = [profile EXCEPT ![c] = p]
    BY <1>3 DEF UpsertProfile, UpsertFails
  <2>3. \A d \in Candidates : profile[d] # "missing" => profile'[d] # "missing"
    BY <1>1, <2>2 DEF TypeOK
  <2>4. QED
    BY <1>2, <2>1, <2>3
<1>4. ASSUME NEW c \in Candidates, UpsertScore(c) \/ UpsertEntry(c)
      PROVE  Known'
  <2>1. /\ profile' = profile /\ profile[c] # "missing"
        /\ scores' \cup entries' = scores \cup entries \cup {c}
    BY <1>4 DEF UpsertScore, UpsertEntry
  <2>2. QED
    BY <1>1, <2>1 DEF Known
<1>5. CASE Clear \/ Prune
  <2>1. profile' = profile /\ scores' \cup entries' \subseteq scores \cup entries
    BY <1>5 DEF Clear, Prune
  <2>2. QED
    BY <1>2, <2>1
<1>6. CASE Acquire \/ Prescore \/ FetchDetails \/ Lookup \/ DeepScore \/ Activate
           \/ PersistFails \/ Respond \/ Raise \/ UNCHANGED vars
  <2>1. UNCHANGED <<profile, scores, entries>>
    BY <1>6 DEF Acquire, Prescore, FetchDetails, Lookup, DeepScore, Activate, PersistFails,
                Respond, Raise, vars, rows
  <2>2. QED
    BY <1>2, <2>1
<1>7. CASE NextRun
  <2>1. PICK aged \in SUBSET {c \in Candidates : profile[c] # "missing"} :
          profile' = [c \in Candidates |-> IF c \in aged THEN "stale" ELSE profile[c]]
    BY <1>7 DEF NextRun
  <2>2. UNCHANGED <<scores, entries>>
    BY <1>7 DEF NextRun
  <2>3. QED
    BY <1>2, <2>1, <2>2
<1>8. QED
  BY <1>3, <1>4, <1>5, <1>6, <1>7 DEF Next

LEMMA StoredStep ==
  ASSUME IInv, [Next]_vars
  PROVE  Stored'
<1>1. TypeOK /\ Quiet /\ Stored
  BY DEF IInv
<1>2. CASE Acquire \/ Clear
  <2>1. graded' = {} /\ response' = {} /\ pc' \in {"prescore", "clearScores", "done"}
    BY <1>1, <1>2 DEF Acquire, Clear, Quiet, Selecting
  <2>2. Returned' = {}
    BY <2>1 DEF Returned
  <2>3. QED
    BY <2>1, <2>2 DEF Stored
<1>3. CASE Prescore \/ FetchDetails \/ Lookup \/ PersistFails \/ Raise \/ NextRun
           \/ \E c \in Candidates : UpsertProfile(c) \/ UpsertFails(c)
  <2>1. pc' \in {"clear", "sync", "lookup", "upsert", "deep", "crashed", "raised", "acquire"}
    BY <1>3 DEF Prescore, FetchDetails, Lookup, PersistFails, Raise, NextRun,
                UpsertProfile, UpsertFails, Upserted
  <2>2. QED
    BY <2>1 DEF Stored
<1>4. CASE DeepScore
  <2>1. /\ todo' = graded'
        /\ pc' = IF Scorable = {} THEN "respond"
                 ELSE IF graded' = {} THEN "prune" ELSE "scores"
    BY <1>4 DEF DeepScore
  <2>2. Scorable = {} => graded' = {}
    BY <1>4, DeepScoreEffect
  <2>3. QED
    BY <2>1, <2>2 DEF Stored
<1>5. ASSUME NEW c \in Candidates, UpsertScore(c)
      PROVE  Stored'
  <2>1. /\ pc = "scores" /\ c \in todo /\ scores' = scores \cup {c} /\ graded' = graded
        /\ todo' = (IF todo = {c} THEN graded ELSE todo \ {c})
        /\ pc' = (IF todo = {c} THEN "entries" ELSE pc)
    BY <1>5 DEF UpsertScore
  <2>2. todo \subseteq graded /\ graded \ todo \subseteq scores
    BY <1>1, <2>1 DEF Stored
  <2>3. CASE todo = {c}
    BY <2>1, <2>2, <2>3 DEF Stored
  <2>4. CASE todo # {c}
    BY <2>1, <2>2, <2>4 DEF Stored
  <2>5. QED
    BY <2>3, <2>4
<1>6. ASSUME NEW c \in Candidates, UpsertEntry(c)
      PROVE  Stored'
  <2>1. /\ pc = "entries" /\ c \in todo /\ entries' = entries \cup {c}
        /\ todo' = todo \ {c} /\ pc' = (IF todo = {c} THEN "prune" ELSE pc)
        /\ graded' = graded /\ scores' = scores
    BY <1>6 DEF UpsertEntry
  <2>2. todo \subseteq graded /\ graded \ todo \subseteq entries /\ graded \subseteq scores
    BY <1>1, <2>1 DEF Stored
  <2>3. CASE todo = {c}
    BY <2>1, <2>2, <2>3 DEF Stored
  <2>4. CASE todo # {c}
    BY <2>1, <2>2, <2>4 DEF Stored
  <2>5. QED
    BY <2>3, <2>4
<1>7. CASE Prune
  <2>1. graded' = graded
    BY <1>7 DEF Prune
  <2>2. CASE pc = "prune"
    BY <1>1, <1>7, <2>1, <2>2 DEF Prune, Stored, Active
  <2>3. CASE pc = "pruneScores"
    BY <1>1, <1>7, <2>1, <2>3 DEF Prune, Stored, Active
  <2>4. QED
    BY <1>7, <2>2, <2>3 DEF Prune
<1>8. CASE Activate
  BY <1>1, <1>8 DEF Activate, Stored, rows
<1>9. CASE Respond
  <2>1. /\ pc = "respond" /\ pc' = "done" /\ response' = Returned
        /\ UNCHANGED <<k, profile, answer, graded, scores, entries>>
    BY <1>9 DEF Respond, context, rows
  <2>2. Returned' = Returned
    BY <2>1 DEF Returned, Local, Top
  <2>3. QED
    BY <1>1, <2>1, <2>2 DEF Stored
<1>10. CASE UNCHANGED vars
  <2>1. UNCHANGED <<pc, k, profile, answer, todo, graded, scores, entries, response>>
    BY <1>10 DEF vars, context, rows
  <2>2. Returned' = Returned
    BY <2>1 DEF Returned, Local, Top
  <2>3. QED
    BY <1>1, <2>1, <2>2 DEF Stored
<1>11. QED
  BY <1>2, <1>3, <1>4, <1>5, <1>6, <1>7, <1>8, <1>9, <1>10 DEF Next

LEMMA InvInit == Init => IInv
<1> SUFFICES ASSUME Init PROVE IInv
  OBVIOUS
<1>1. TypeOK
  BY TypeInit
<1>2. Chosen
  BY EmptyTop DEF Init, Chosen
<1>3. \A c \in Candidates : Untouched(state[c])
  BY DEF Init, NewState, Untouched
<1>4. Others /\ Refreshed /\ Marks
  BY DEF Init, Others, Refreshed, Marks
<1>5. Quiet /\ Stored
  BY <1>3 DEF Init, Quiet, Stored
<1>6. Known
  BY DEF Init, Known
<1>7. QED
  BY <1>1, <1>2, <1>4, <1>5, <1>6 DEF IInv

\* The bookkeeping of a run: who is selected, what each stage of a candidate
\* says at each point, and how far the tables are.
THEOREM RunsKeepTrack == Spec => []IInv
<1>1. IInv /\ [Next]_vars => IInv'
  BY TypeStep, ChosenStep, OthersStep, RefreshedStep, MarksStep, QuietStep,
     KnownStep, StoredStep DEF IInv
<1>2. QED
  BY InvInit, <1>1, PTL DEF Spec
-----------------------------------------------------------------------------
(* The theorems.                                                           *)

\* Every reachable state is well typed.
THEOREM TypeCorrect == Spec => []TypeOK
<1>1. IInv => TypeOK
  BY DEF IInv
<1>2. QED
  BY RunsKeepTrack, <1>1, PTL

\* Those scored or completed are selected and synchronized.
LEMMA ScoredInv == IInv => ScoredAreSynchronized
<1> SUFFICES ASSUME IInv, NEW c \in acquired,
                    "SUCCESS" \in {state[c].scoring, state[c].outcome}
             PROVE  c \in selected /\ sync[c] = "ok" /\ profile[c] \in {"fresh", "torn"}
  BY DEF ScoredAreSynchronized
<1>1. c \in selected
  BY DEF IInv, Others, Left
<1>2. c \in Candidates /\ sync[c] = "ok"
  BY <1>1 DEF IInv, TypeOK, Marks
<1>3. QED
  BY <1>1, <1>2 DEF IInv, Refreshed

\* However synchronization fails, in whatever order the profiles are written,
\* no candidate of the run is scored on an outdated profile or completed
\* without synchronization.
THEOREM NobodyStaleIsScored == Spec => []ScoredAreSynchronized
BY RunsKeepTrack, ScoredInv, PTL

\* A run that breaks its session neither stores nor returns anybody.
THEOREM BrokenRunsAreSilent == Spec => []BrokenRunIsSilent
<1>1. IInv => BrokenRunIsSilent
  BY DEF IInv, Quiet, BrokenRunIsSilent
<1>2. QED
  BY RunsKeepTrack, <1>1, PTL

\* The ids returned are those loaded that a deep score names, in the run or
\* not.
LEMMA ReturnedIdsAre ==
  ASSUME IInv, pc = "done"
  PROVE  ReturnedIds = Local \cap graded
<1>1. response = Returned
  BY DEF IInv, Stored
<1>2. Top = {answer[i].id : i \in First(answer, k)} /\ Local \subseteq Top
  BY DEF Top, TopIds, Local
<1>3. QED
  BY <1>1, <1>2 DEF ReturnedIds, Returned

\* At the end the candidates completed are those scored, and all of them are
\* still in the database.
LEMMA CompletedAre ==
  ASSUME IInv, pc = "done"
  PROVE  /\ With({"SUCCESS"}) = {c \in acquired : state[c].scoring = "SUCCESS"}
         /\ With({"SUCCESS"}) \subseteq selected \cap Local
<1>1. selected \subseteq acquired /\ acquired \subseteq Candidates
  BY DEF IInv, TypeOK
<1>2. ASSUME NEW c \in acquired
      PROVE  state[c].outcome = "SUCCESS" <=> state[c].scoring = "SUCCESS"
  <2>1. CASE c \in selected
    BY <2>1 DEF IInv, Marks, Settled, Failures
  <2>2. CASE c \notin selected
    BY <1>2, <2>2 DEF IInv, Others, Left
  <2>3. QED
    BY <2>1, <2>2
<1>3. ASSUME NEW c \in acquired, state[c].scoring = "SUCCESS"
      PROVE  c \in selected \cap Local
  <2>1. c \in selected /\ profile[c] # "missing"
    BY <1>3, ScoredInv DEF ScoredAreSynchronized
  <2>2. c \in Top \cap Candidates
    BY <1>1, <2>1 DEF IInv, Chosen
  <2>3. QED
    BY <2>1, <2>2 DEF Local
<1>4. QED
  BY <1>2, <1>3 DEF With

\* Of the candidates of the run the recruiter gets exactly those whose outcome
\* is SUCCESS, if the deep scores name them rightly.
LEMMA ReturnedInv == IInv => ReturnedAreCompleted
<1> SUFFICES ASSUME IInv, pc = "done", RightlyNamed
             PROVE  ReturnedIds \cap acquired = With({"SUCCESS"})
  BY DEF ReturnedAreCompleted
<1>1. ReturnedIds = Local \cap graded
  BY ReturnedIdsAre
<1>2. graded \cap acquired = With({"SUCCESS"}) /\ With({"SUCCESS"}) \subseteq Local
  BY CompletedAre DEF RightlyNamed
<1>3. QED
  BY <1>1, <1>2

\* Whatever ids the pre-scores repeat or make up, of the candidates of the run
\* exactly the completed ones are returned.
THEOREM CompletedAreReturned == Spec => []ReturnedAreCompleted
BY RunsKeepTrack, ReturnedInv, PTL

\* A run that has deep scores leaves exactly the candidates they name in both
\* tables, whatever earlier runs left there, and returns those in its top k.
THEOREM ShortlistStored == Spec => []ShortlistIsStored
<1>1. ASSUME IInv, pc = "done", graded # {}
      PROVE  scores = graded /\ entries = graded /\ ReturnedIds = graded \cap Top
  <2>1. scores = graded /\ entries = graded
    BY <1>1 DEF IInv, Stored
  <2>2. graded \subseteq {c \in Candidates : profile[c] # "missing"}
    BY <1>1, <2>1 DEF IInv, Known
  <2>3. graded \cap Top = Local \cap graded
    BY <2>2 DEF Local
  <2>4. QED
    BY <1>1, <2>1, <2>3, ReturnedIdsAre
<1>2. IInv => ShortlistIsStored
  BY <1>1 DEF ShortlistIsStored
<1>3. QED
  BY RunsKeepTrack, <1>2, PTL

\* The selected candidates are those completed and those failed within the
\* first k, whatever ids the language models leave out, repeat or make up.
THEOREM SelectionAddsUp == Spec => []SelectedAccounted
<1>1. ASSUME IInv, pc = "done"
      PROVE  Cardinality(selected) =
               Cardinality(With({"SUCCESS"}))
               + Cardinality({c \in With(Failures) : state[c].rank \in 1..k})
  <2> DEFINE S == With({"SUCCESS"})
             F == {c \in With(Failures) : state[c].rank \in 1..k}
  <2>1. \A c \in selected : /\ state[c].outcome \in Failures \cup {"SUCCESS"}
                            /\ state[c].rank \in 1..k
    BY <1>1 DEF IInv, Chosen, Marks, Settled
  <2>2. ASSUME NEW c \in acquired \ selected
        PROVE  c \notin S /\ c \notin F
    <3>1. Left(state[c])
      BY <1>1 DEF IInv, Others
    <3>2. QED
      BY <3>1 DEF Left, With
  <2>3. selected \subseteq acquired /\ acquired \subseteq Candidates
    BY <1>1 DEF IInv, TypeOK
  <2>4. selected = S \cup F
    BY <2>1, <2>2, <2>3 DEF With
  <2>5. S \cap F = {}
    BY DEF With, Failures
  <2>6. IsFiniteSet(S) /\ IsFiniteSet(F)
    <3>1. S \subseteq Candidates /\ F \subseteq Candidates
      BY <2>3 DEF With
    <3>2. QED
      BY <3>1, ConstantsOK, FS_Subset
  <2> HIDE DEF S, F
  <2>7. Cardinality(S \cup F) = Cardinality(S) + Cardinality(F) - Cardinality(S \cap F)
    BY <2>6, FS_Union
  <2>8. Cardinality(S \cap F) = 0 /\ Cardinality(S) \in Nat /\ Cardinality(F) \in Nat
    BY <2>5, <2>6, FS_EmptySet, FS_CardinalityType
  <2>9. QED
    BY <2>4, <2>7, <2>8 DEF S, F
<1>2. IInv => SelectedAccounted
  BY <1>1 DEF SelectedAccounted
<1>3. QED
  BY RunsKeepTrack, <1>2, PTL
=============================================================================
