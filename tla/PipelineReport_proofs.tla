----------------------- MODULE PipelineReport_proofs -----------------------
(***************************************************************************)
(* What a run tells the recruiter and the operator: theorems about the     *)
(* warning of the response and the report at the end of PipelineRun.       *)
(***************************************************************************)
EXTENDS PipelineRun_proofs

-----------------------------------------------------------------------------
(* The inductive invariant, on top of IInv.                                *)

\* A candidate that was not selected keeps the marks of the selection.
Unchosen ==
  pc \notin {"acquire", "prescore", "raised"} =>
    \A c \in acquired \ selected : state[c] = Marked(answer, k, c)

\* Every selected candidate is either still to be written or has its result.
Refreshing ==
  /\ pc = "upsert" => \A c \in selected : sync[c] # "none" \/ c \in todo
  /\ pc = "lookup" => \A c \in selected : sync[c] # "none"

Awaiting(s) == s.synchronization = "SUCCESS" /\ s.persistence = "PENDING"

\* Deep scores, and what became of them.
Scored(s, stage) ==
  /\ s.synchronization = "SUCCESS" /\ s.scoring = "SUCCESS" /\ s.persistence = stage

Unscorable(s) ==
  /\ s.synchronization = "SUCCESS" /\ s.scoring = "FAILED" /\ s.persistence = "SKIPPED"

\* A failed refresh; deep scoring marks it once more when there is a profile.
Unrefreshed(c, s, scoring) ==
  /\ sync[c] = "failed"
  /\ s.synchronization = "FAILED" /\ s.scoring = scoring /\ s.persistence = "SKIPPED"

FailedTwice(c) == IF profile[c] = "missing" THEN "SKIPPED" ELSE "FAILED"

\* The stages of a selected candidate, point by point: those Marks leaves open.
Stage(c, s) ==
  /\ s.prescoring = "SUCCESS"
  /\ pc \in Selecting \cup Synchronizing => s.persistence = "PENDING"
  /\ pc = "deep" => Awaiting(s) \/ Unrefreshed(c, s, "SKIPPED")
  /\ pc \in Persisting =>
       Scored(s, "PENDING") \/ Unscorable(s) \/ Unrefreshed(c, s, FailedTwice(c))
  /\ pc \in {"respond", "done"} =>
       Scored(s, "SUCCESS") \/ Unscorable(s) \/ Unrefreshed(c, s, FailedTwice(c))

Staged == \A c \in selected : Stage(c, state[c])

DInv == Unchosen /\ Refreshing /\ Staged

-----------------------------------------------------------------------------
(* The steps.                                                              *)

LEMMA UnchosenStep ==
  ASSUME IInv, Unchosen, [Next]_vars
  PROVE  Unchosen'
<1>1. TypeOK /\ acquired \subseteq Candidates
  BY DEF IInv, TypeOK
<1>2. CASE Acquire
  BY <1>2 DEF Acquire, Unchosen
<1>3. CASE Prescore
  <2>1. PICK a \in Answers :
          /\ answer' = a
          /\ state' = [c \in Candidates |->
                         IF c \in acquired THEN Marked(a, k, c) ELSE state[c]]
    BY <1>3 DEF Prescore
  <2>2. k' = k /\ acquired' = acquired
    BY <1>3 DEF Prescore
  <2>3. QED
    BY <1>1, <2>1, <2>2 DEF Unchosen
<1>4. CASE NextRun
  BY <1>4 DEF NextRun, Unchosen
<1>5. CASE ~Acquire /\ ~Prescore /\ ~NextRun
  <2>1. /\ UNCHANGED <<acquired, selected>>
        /\ \A c \in acquired \ selected : state'[c] = state[c]
    BY <1>5, OthersUntouched
  <2>2. UNCHANGED <<answer, k>>
    BY <1>5 DEF Next, Clear, FetchDetails, Lookup, DeepScore, UpsertProfile, UpsertFails,
       Upserted, UpsertScore, UpsertEntry, Prune, Activate, PersistFails, Respond, Raise,
       context, vars
  <2>3. pc' # "raised" => \/ pc \notin {"acquire", "prescore", "raised"}
                          \/ pc' = pc
    BY <1>5 DEF Next, Clear, FetchDetails, Lookup, DeepScore, UpsertProfile, UpsertFails,
       Upserted, UpsertScore, UpsertEntry, Prune, Activate, PersistFails, Respond, Raise,
       vars
  <2>4. QED
    BY <2>1, <2>2, <2>3 DEF Unchosen
<1>6. QED
  BY <1>2, <1>3, <1>4, <1>5

\* The refresh is over when every result is known.
LEMMA RefreshingStep ==
  ASSUME IInv, Refreshing, [Next]_vars
  PROVE  Refreshing'
<1>1. selected \subseteq Candidates /\ selected \subseteq Top /\ TypeOK
  BY DEF IInv, TypeOK, Chosen
<1>2. CASE FetchDetails
  <2>1. PICK returned \in SUBSET Outdated :
          /\ todo' = returned
          /\ sync' = [c \in Candidates |->
                        IF c \notin Top \/ c \in returned THEN "none"
                        ELSE IF c \in Outdated THEN "failed" ELSE "ok"]
          /\ pc' = IF returned = {} THEN "lookup" ELSE "upsert"
    BY <1>2 DEF FetchDetails
  <2>2. \A c \in selected : sync'[c] # "none" \/ c \in todo'
    BY <1>1, <2>1
  <2>3. selected' = selected
    BY <1>2 DEF FetchDetails, context
  <2>4. QED
    BY <2>1, <2>2, <2>3 DEF Refreshing
<1>3. ASSUME NEW c \in Candidates, UpsertProfile(c) \/ UpsertFails(c)
      PROVE  Refreshing'
  <2>1. /\ pc = "upsert" /\ todo' = todo \ {c} /\ selected' = selected
        /\ pc' = IF todo = {c} THEN "lookup" ELSE "upsert"
    BY <1>3 DEF UpsertProfile, UpsertFails, Upserted, context
  <2>2. /\ sync'[c] # "none"
        /\ \A d \in Candidates \ {c} : sync'[d] = sync[d]
    BY <1>1, <1>3 DEF UpsertProfile, UpsertFails, TypeOK
  <2>3. \A d \in selected : sync'[d] # "none" \/ d \in todo'
    BY <1>1, <2>1, <2>2 DEF Refreshing
  <2>4. QED
    BY <2>1, <2>3 DEF Refreshing
<1>4. ASSUME NEW c \in Candidates, UpsertScore(c) \/ UpsertEntry(c)
      PROVE  Refreshing'
  BY <1>4 DEF UpsertScore, UpsertEntry, Refreshing
<1>5. CASE Acquire \/ Prescore \/ Clear \/ Lookup \/ DeepScore \/ Prune \/ Activate
           \/ PersistFails \/ Respond \/ Raise \/ NextRun
  <2>1. pc' \notin {"upsert", "lookup"}
    BY <1>5 DEF Acquire, Prescore, Clear, Lookup, DeepScore, Prune, Activate, PersistFails,
                Respond, Raise, NextRun
  <2>2. QED
    BY <2>1 DEF Refreshing
<1>6. CASE UNCHANGED vars
  BY <1>6 DEF Refreshing, vars, context
<1>7. QED
  BY <1>2, <1>3, <1>4, <1>5, <1>6 DEF Next

\* What Synchronized, ScoringFailed and the marks of the selection do to the
\* stages.
LEMMA StageFacts ==
  ASSUME NEW s \in CandidateState
  PROVE  /\ LET d == Synchronized(s, "ok")
            IN  /\ d.synchronization = "SUCCESS"
                /\ d.persistence = s.persistence /\ d.prescoring = s.prescoring
         /\ LET d == Synchronized(s, "failed")
            IN  /\ d.synchronization = "FAILED" /\ d.scoring = "SKIPPED"
                /\ d.persistence = "SKIPPED" /\ d.prescoring = s.prescoring
         /\ LET d == ScoringFailed(s)
            IN  /\ d.synchronization = s.synchronization /\ d.scoring = "FAILED"
                /\ d.persistence = "SKIPPED" /\ d.prescoring = s.prescoring
         /\ LET d == [s EXCEPT !.scoring = "SUCCESS"]
            IN  /\ d.synchronization = s.synchronization /\ d.scoring = "SUCCESS"
                /\ d.persistence = s.persistence /\ d.prescoring = s.prescoring
         /\ \A stage, outcome :
              LET d == [s EXCEPT !.persistence = stage, !.outcome = outcome]
              IN  /\ d.synchronization = s.synchronization /\ d.scoring = s.scoring
                  /\ d.persistence = stage /\ d.prescoring = s.prescoring
BY DEF Synchronized, ScoringFailed, CandidateState

LEMMA MarkedChosen ==
  ASSUME NEW a, NEW n, NEW c \in TopIds(a, n)
  PROVE  Marked(a, n, c).prescoring = "SUCCESS" /\ Marked(a, n, c).persistence = "PENDING"
<1>1. Marked(a, n, c) = [NewState EXCEPT !.prescoring = "SUCCESS", !.rank = Rank(a, c)]
  BY TopIsEligible DEF Marked
<1>2. QED
  BY <1>1 DEF NewState

LEMMA PrescoreStage ==
  ASSUME IInv, Prescore
  PROVE  Staged'
<1>1. PICK a \in Answers :
        /\ state' = [c \in Candidates |->
                       IF c \in acquired THEN Marked(a, k, c) ELSE state[c]]
        /\ selected' = {c \in acquired : state'[c].outcome = "PENDING"}
  BY DEF Prescore
<1>2. k \in Nat /\ acquired \subseteq Candidates
  BY ConstantsOK DEF IInv, TypeOK
<1>3. ASSUME NEW c \in selected'
      PROVE  state'[c].prescoring = "SUCCESS" /\ state'[c].persistence = "PENDING"
  <2>1. /\ state'[c] = Marked(a, k, c) /\ Marked(a, k, c).outcome = "PENDING"
        /\ c \in Candidates
    BY <1>1, <1>2
  <2>2. c \in TopIds(a, k)
    BY <1>2, <2>1, MarkedFacts
  <2>3. QED
    BY <2>1, <2>2, MarkedChosen
<1>4. pc' \in {"clear", "sync"}
  BY DEF Prescore
<1>5. QED
  BY <1>3, <1>4 DEF Staged, Stage, Persisting

LEMMA LookupStage ==
  ASSUME IInv, Refreshing, Staged, Lookup
  PROVE  Staged'
<1>1. /\ pc = "lookup" /\ pc' \in {"crashed", "deep"} /\ UNCHANGED <<selected, sync, profile>>
      /\ state' = [c \in Candidates |->
                     IF c \in selected THEN Synchronized(state[c], sync[c]) ELSE state[c]]
  BY DEF Lookup
<1>2. ASSUME NEW c \in selected
      PROVE  /\ state'[c].prescoring = "SUCCESS"
             /\ Awaiting(state'[c]) \/ Unrefreshed(c, state'[c], "SKIPPED")
  <2>1. c \in Candidates /\ state[c] \in CandidateState /\ sync[c] \in {"none", "ok", "failed"}
    BY DEF IInv, TypeOK
  <2>2. state'[c] = Synchronized(state[c], sync[c])
    BY <1>1, <2>1
  <2>3. sync[c] \in {"ok", "failed"}
    BY <1>1, <2>1 DEF Refreshing
  <2>4. state[c].prescoring = "SUCCESS" /\ state[c].persistence = "PENDING"
    BY <1>1 DEF Staged, Stage, Synchronizing
  <2>5. CASE sync[c] = "ok"
    BY <2>1, <2>2, <2>4, <2>5, StageFacts DEF Awaiting
  <2>6. CASE sync[c] = "failed"
    BY <2>1, <2>2, <2>4, <2>6, StageFacts DEF Unrefreshed
  <2>7. QED
    BY <2>3, <2>5, <2>6
<1>3. QED
  BY <1>1, <1>2
     DEF Staged, Stage, Awaiting, Unrefreshed, Persisting, Selecting, Synchronizing

LEMMA DeepScoreStage ==
  ASSUME IInv, Staged, DeepScore
  PROVE  Staged'
<1>1. /\ pc = "deep" /\ pc' \in {"respond", "prune", "scores"}
      /\ UNCHANGED <<selected, sync, profile>> /\ (pc' = "respond" => Scorable = {})
  BY DEF DeepScore
<1>2. PICK ok \in SUBSET Checked : \A c \in Candidates :
           /\ c \in ok => state'[c] = [state[c] EXCEPT !.scoring = "SUCCESS"]
           /\ c \in Unscored \cup (Checked \ ok) => state'[c] = ScoringFailed(state[c])
           /\ c \notin Unscored \cup Checked => state'[c] = state[c]
  BY DeepScoreEffect
<1>3. Checked = {c \in selected : state[c].synchronization = "SUCCESS"}
  BY ScorableIs
<1>4. ASSUME NEW c \in selected
      PROVE  /\ state'[c].prescoring = "SUCCESS"
             /\ \/ c \in Checked /\ Scored(state'[c], "PENDING")
                \/ Unscorable(state'[c])
                \/ Unrefreshed(c, state'[c], FailedTwice(c))
  <2>1. /\ c \in Candidates /\ c \in acquired /\ c \in Top /\ state[c] \in CandidateState
        /\ state[c].prescoring = "SUCCESS"
        /\ Awaiting(state[c]) \/ Unrefreshed(c, state[c], "SKIPPED")
    BY <1>1 DEF IInv, TypeOK, Chosen, Staged, Stage
  <2>2. CASE Awaiting(state[c])
    <3>1. c \in Checked
      BY <1>3, <2>2 DEF Awaiting
    <3>2. CASE c \in ok
      <4>1. state'[c] = [state[c] EXCEPT !.scoring = "SUCCESS"]
        BY <1>2, <2>1, <3>2
      <4>2. QED
        BY <2>1, <2>2, <3>1, <4>1, StageFacts DEF Awaiting, Scored
    <3>3. CASE c \notin ok
      <4>1. state'[c] = ScoringFailed(state[c])
        BY <1>2, <2>1, <3>1, <3>3
      <4>2. QED
        BY <2>1, <2>2, <4>1, StageFacts DEF Awaiting, Unscorable
    <3>4. QED
      BY <3>2, <3>3
  <2>3. CASE Unrefreshed(c, state[c], "SKIPPED")
    <3>1. c \notin Checked
      BY <1>3, <2>3 DEF Unrefreshed
    <3>2. CASE profile[c] = "missing"
      <4>1. c \notin Unscored
        BY <2>3, <3>2 DEF Unscored, Local, Unrefreshed
      <4>2. state'[c] = state[c]
        BY <1>2, <2>1, <3>1, <4>1
      <4>3. QED
        BY <2>1, <2>3, <3>2, <4>2 DEF FailedTwice
    <3>3. CASE profile[c] # "missing"
      <4>1. c \in Local
        BY <2>1, <3>3 DEF Local
      <4>2. c \in Unscored
        BY <2>1, <3>1, <4>1 DEF Unscored, Checked
      <4>3. state'[c] = ScoringFailed(state[c])
        BY <1>2, <2>1, <4>2
      <4>4. QED
        BY <2>1, <2>3, <3>3, <4>3, StageFacts DEF FailedTwice, Unrefreshed
    <3>4. QED
      BY <3>2, <3>3
  <2>4. QED
    BY <2>1, <2>2, <2>3
<1>5. QED
  <2>1. \A c \in selected : FailedTwice(c)' = FailedTwice(c)
    BY <1>1 DEF FailedTwice
  <2>2. QED
    BY <1>1, <1>4, <2>1
       DEF Staged, Stage, Checked, Scored, Unscorable, Unrefreshed, Persisting, Selecting,
           Synchronizing

LEMMA ActivateStage ==
  ASSUME IInv, Staged, Activate
  PROVE  Staged'
<1>1. /\ pc = "activate" /\ pc' = "respond" /\ UNCHANGED <<selected, sync, profile>>
      /\ Persisted("SUCCESS", "SUCCESS")
  BY DEF Activate
<1>2. ASSUME NEW c \in selected
      PROVE  /\ state'[c].prescoring = "SUCCESS"
             /\ \/ Scored(state'[c], "SUCCESS") \/ Unscorable(state'[c])
                \/ Unrefreshed(c, state'[c], FailedTwice(c))
  <2>1. /\ c \in Candidates /\ state[c] \in CandidateState /\ state[c].prescoring = "SUCCESS"
        /\ \/ Scored(state[c], "PENDING") \/ Unscorable(state[c])
           \/ Unrefreshed(c, state[c], FailedTwice(c))
    BY <1>1 DEF IInv, TypeOK, Staged, Stage, Persisting
  <2>2. state'[c] = IF c \in Scorable /\ state[c].scoring = "SUCCESS"
                    THEN [state[c] EXCEPT !.persistence = "SUCCESS", !.outcome = "SUCCESS"]
                    ELSE state[c]
    BY <1>1, <2>1 DEF Persisted
  <2>3. CASE Scored(state[c], "PENDING")
    <3>1. c \in Scorable /\ state[c].scoring = "SUCCESS"
      BY <2>3, ScorableIs DEF Scored, Checked
    <3>2. QED
      BY <2>1, <2>2, <2>3, <3>1, StageFacts DEF Scored
  <2>4. CASE Unscorable(state[c])
    BY <2>1, <2>2, <2>4 DEF Unscorable
  <2>5. CASE Unrefreshed(c, state[c], FailedTwice(c))
    <3>1. state[c].scoring # "SUCCESS"
      BY <2>5 DEF Unrefreshed, FailedTwice
    <3>2. QED
      BY <2>1, <2>2, <2>5, <3>1
  <2>6. QED
    BY <2>1, <2>3, <2>4, <2>5
<1>3. \A c \in selected : FailedTwice(c)' = FailedTwice(c)
  BY <1>1 DEF FailedTwice
<1>4. QED
  BY <1>1, <1>2, <1>3
     DEF Staged, Stage, Scored, Unscorable, Unrefreshed, Persisting, Selecting, Synchronizing

LEMMA PersistFailsStage ==
  ASSUME IInv, Staged, PersistFails
  PROVE  Staged'
<1>1. /\ pc' = "raised" /\ UNCHANGED selected
      /\ Persisted("FAILED", "FAILED_PERSISTENCE")
  BY DEF PersistFails
<1>2. ASSUME NEW c \in selected
      PROVE  state'[c].prescoring = "SUCCESS"
  <2>1. c \in Candidates /\ state[c] \in CandidateState /\ state[c].prescoring = "SUCCESS"
    BY DEF IInv, TypeOK, Staged, Stage
  <2>2. state'[c] \in {[state[c] EXCEPT !.persistence = "FAILED",
                                        !.outcome = "FAILED_PERSISTENCE"], state[c]}
    BY <1>1, <2>1 DEF Persisted
  <2>3. [state[c] EXCEPT !.persistence = "FAILED",
                         !.outcome = "FAILED_PERSISTENCE"].prescoring = "SUCCESS"
    BY <2>1 DEF CandidateState
  <2>4. QED
    BY <2>1, <2>2, <2>3
<1>3. QED
  BY <1>1, <1>2 DEF Staged, Stage, Persisting, Selecting, Synchronizing

LEMMA StagedStep ==
  ASSUME IInv, Refreshing, Staged, [Next]_vars
  PROVE  Staged'
<1>1. CASE Acquire \/ Clear \/ NextRun
  <2>1. selected' = {}
    BY <1>1 DEF IInv, Acquire, Clear, NextRun, Quiet, Selecting, context
  <2>2. QED
    BY <2>1 DEF Staged
<1>2. CASE Prescore
  BY <1>2, PrescoreStage
<1>3. CASE Lookup
  BY <1>3, LookupStage
<1>4. CASE DeepScore
  BY <1>4, DeepScoreStage
<1>5. CASE Activate
  BY <1>5, ActivateStage
<1>6. CASE PersistFails
  BY <1>6, PersistFailsStage
<1>7. CASE FetchDetails \/ \E c \in Candidates : UpsertProfile(c) \/ UpsertFails(c)
  <2>1. pc \in Synchronizing /\ pc' \in Synchronizing /\ UNCHANGED <<selected, state>>
    BY <1>7 DEF FetchDetails, UpsertProfile, UpsertFails, Upserted, Synchronizing, context
  <2>2. QED
    BY <2>1 DEF Staged, Stage, Persisting, Synchronizing
<1>8. CASE (\E c \in Candidates : UpsertScore(c) \/ UpsertEntry(c)) \/ Prune
  <2>1. /\ pc \in Persisting /\ pc' \in Persisting
        /\ UNCHANGED <<selected, state, sync, profile>>
    BY <1>8 DEF UpsertScore, UpsertEntry, Prune, Persisting, context
  <2>2. QED
    BY <2>1 DEF Staged, Stage, Unrefreshed, FailedTwice, Persisting, Selecting, Synchronizing
<1>9. CASE Respond
  <2>1. pc = "respond" /\ pc' = "done" /\ UNCHANGED <<selected, state, sync, profile>>
    BY <1>9 DEF Respond, context
  <2>2. QED
    BY <2>1 DEF Staged, Stage, Unrefreshed, FailedTwice, Persisting, Selecting, Synchronizing
<1>10. CASE Raise
  <2>1. pc' = "raised" /\ UNCHANGED <<selected, state>>
    BY <1>10 DEF Raise, context
  <2>2. QED
    BY <2>1 DEF Staged, Stage, Persisting, Selecting, Synchronizing
<1>11. CASE UNCHANGED vars
  BY <1>11 DEF Staged, Stage, Unrefreshed, FailedTwice, vars, context
<1>12. QED
  BY <1>1, <1>2, <1>3, <1>4, <1>5, <1>6, <1>7, <1>8, <1>9, <1>10, <1>11 DEF Next

\* What has become of every candidate is on record throughout.
THEOREM CandidatesAreTracked == Spec => []DInv
<1>1. Init => DInv
  BY DEF Init, DInv, Unchosen, Refreshing, Staged
<1>2. IInv /\ DInv /\ [Next]_vars => DInv'
  BY UnchosenStep, RefreshingStep, StagedStep DEF DInv
<1>3. QED
  BY <1>1, <1>2, RunsKeepTrack, PTL DEF Spec

-----------------------------------------------------------------------------
(* Counting.                                                               *)

\* A finite set in two parts.
LEMMA TwoParts ==
  ASSUME NEW S, IsFiniteSet(S), NEW P, NEW Q, S = P \cup Q, P \cap Q = {}
  PROVE  /\ Cardinality(S) = Cardinality(P) + Cardinality(Q)
         /\ Cardinality(P) \in Nat /\ Cardinality(Q) \in Nat
         /\ Cardinality(Q) = 0 <=> Q = {}
<1>1. IsFiniteSet(P) /\ IsFiniteSet(Q)
  <2>1. P \in SUBSET S /\ Q \in SUBSET S
    OBVIOUS
  <2>2. QED
    BY <2>1, FS_Subset
<1>2. Cardinality(P) \in Nat /\ Cardinality(Q) \in Nat
  BY <1>1, FS_CardinalityType
<1>3. Cardinality(P \cup Q) = Cardinality(P) + Cardinality(Q) - Cardinality(P \cap Q)
  BY <1>1, FS_Union
<1>4. Cardinality(P \cap Q) = 0
  BY FS_EmptySet
<1>5. QED
  BY <1>1, <1>2, <1>3, <1>4, FS_EmptySet

\* A list, here a function on its places, has as many items as a set of its
\* values when it names each value once and no other.
LEMMA OnceEach ==
  ASSUME NEW S, IsFiniteSet(S), NEW T, NEW f \in Surjection(S, T), NEW W \in SUBSET T
  PROVE  /\ IsFiniteSet(T) /\ Cardinality(T) <= Cardinality(S)
         /\ Cardinality(W) = Cardinality(S) <=>
              W = T /\ \A i, j \in S : f[i] = f[j] => i = j
<1>1. /\ IsFiniteSet(T) /\ Cardinality(T) <= Cardinality(S)
      /\ Cardinality(T) = Cardinality(S) <=> f \in Injection(S, T)
  BY FS_Surjection
<1>2. /\ IsFiniteSet(W) /\ Cardinality(W) <= Cardinality(T)
      /\ Cardinality(T) = Cardinality(W) => T = W
  BY <1>1, FS_Subset
<1>3. Cardinality(S) \in Nat /\ Cardinality(T) \in Nat /\ Cardinality(W) \in Nat
  BY <1>1, <1>2, FS_CardinalityType
<1>4. f \in Injection(S, T) <=> \A i, j \in S : f[i] = f[j] => i = j
  BY DEF Surjection, Injection, IsInjective
<1>5. Cardinality(W) = Cardinality(S) <=> W = T /\ Cardinality(T) = Cardinality(S)
  BY <1>1, <1>2, <1>3
<1>6. QED
  BY <1>1, <1>4, <1>5

\* The items of the response, by their places, and the ids they name.
LEMMA ResponseItems ==
  ASSUME TypeOK
  PROVE  /\ IsFiniteSet(response) /\ Cardinality(response) \in Nat
         /\ [i \in response |-> answer[i].id] \in Surjection(response, ReturnedIds)
<1>1. IsFiniteSet(1..MaxAnswer) /\ response \in SUBSET (1..MaxAnswer)
  <2>1. IsFiniteSet(1..MaxAnswer)
    BY ConstantsOK, FS_Interval
  <2>2. QED
    BY <2>1 DEF TypeOK
<1>2. IsFiniteSet(response) /\ Cardinality(response) \in Nat
  BY <1>1, FS_Subset, FS_CardinalityType
<1>3. [i \in response |-> answer[i].id] \in Surjection(response, ReturnedIds)
  BY DEF Surjection, ReturnedIds
<1>4. QED
  BY <1>2, <1>3

LEMMA UpTo ==
  ASSUME NEW m \in Nat
  PROVE  IsFiniteSet(1..m) /\ Cardinality(1..m) = m
<1>1. 1 \in Int /\ m \in Int
  OBVIOUS
<1>2. IsFiniteSet(1..m) /\ Cardinality(1..m) = IF 1 > m THEN 0 ELSE m - 1 + 1
  BY <1>1, FS_Interval, Zenon
<1>3. QED
  BY <1>2

\* The answer is sorted: its eligible entries come first, and the first n of
\* them are the first n entries.
LEMMA EligibleFirst ==
  ASSUME NEW a \in Answers, NEW n \in Nat
  PROVE  \E m \in Nat : /\ Eligible(a) = 1..m
                        /\ Cardinality(Eligible(a)) = m
                        /\ Cardinality(First(a, n)) = IF m <= n THEN m ELSE n
<1> DEFINE T == {i \in 1..(Len(a) + 1) : i \notin Eligible(a)}
<1>1. /\ Len(a) \in Nat /\ DOMAIN a = 1..Len(a)
      /\ \A i \in DOMAIN a : a[i].score \in Nat
      /\ \A i, j \in DOMAIN a : i < j => a[i].score >= a[j].score
  BY AnswerFacts
<1>2. Len(a) + 1 \in T /\ T \in SUBSET Nat
  BY <1>1 DEF Eligible
<1>3. PICK x \in T : \A y \in T : x <= y
  BY <1>2, Minimum
<1> DEFINE m == x - 1
<1>4. m \in Nat /\ x = m + 1 /\ x \notin Eligible(a) /\ x <= Len(a) + 1
  BY <1>1, <1>3
<1>5. ASSUME NEW i \in 1..m
      PROVE  i \in Eligible(a)
  BY <1>1, <1>3, <1>4
<1>6. ASSUME NEW i \in Eligible(a)
      PROVE  i \in 1..m
  <2>1. i \in DOMAIN a /\ i \in Nat /\ a[i].score >= Threshold /\ a[i].score \in Nat
    BY <1>1 DEF Eligible
  <2>2. SUFFICES ASSUME i > m PROVE FALSE
    BY <1>1, <1>4, <2>1
  <2>3. i # x /\ x < i /\ x \in DOMAIN a
    BY <1>1, <1>4, <2>1, <2>2
  <2>4. a[x].score >= a[i].score /\ a[x].score \in Nat
    BY <1>1, <2>1, <2>3
  <2>5. x \in Eligible(a)
    BY <2>1, <2>3, <2>4, ConstantsOK DEF Eligible
  <2>6. QED
    BY <1>4, <2>5
<1> HIDE DEF m
<1>7. Eligible(a) = 1..m
  BY <1>5, <1>6
<1>8. ASSUME NEW i \in 1..m
      PROVE  Cardinality({j \in Eligible(a) : j <= i}) = i
  <2>1. {j \in Eligible(a) : j <= i} = 1..i
    BY <1>4, <1>7
  <2>2. Cardinality(1..i) = i
    BY <1>4, UpTo
  <2>3. QED
    BY <2>1, <2>2, Zenon
<1>9. First(a, n) = 1..(IF m <= n THEN m ELSE n)
  <2>1. First(a, n) = {i \in 1..m : i <= n}
    BY <1>7, <1>8 DEF First
  <2>2. {i \in 1..m : i <= n} = 1..(IF m <= n THEN m ELSE n)
    BY <1>4
  <2>3. QED
    BY <2>1, <2>2
<1>10. QED
  BY <1>4, <1>7, <1>9, UpTo

\* An answer names no more candidates than it has entries.
LEMMA FewerIds ==
  ASSUME NEW a \in Answers
  PROVE  /\ IsFiniteSet(EligibleIds(a))
         /\ Cardinality(EligibleIds(a)) <= Cardinality(Eligible(a))
<1> DEFINE f == [i \in Eligible(a) |-> a[i].id]
<1>1. f \in Surjection(Eligible(a), EligibleIds(a))
  BY DEF Surjection, EligibleIds
<1>2. IsFiniteSet(Eligible(a))
  <2>1. PICK m \in Nat : Eligible(a) = 1..m
    BY EligibleFirst
  <2>2. QED
    BY <2>1, UpTo
<1>3. QED
  BY <1>1, <1>2, FS_Surjection

-----------------------------------------------------------------------------
(* The end of a run.                                                       *)

\* The eligible candidates are those acquired that the answer puts at or above
\* the threshold.
LEMMA EligibleAtEnd ==
  ASSUME IInv, DInv, pc = "done"
  PROVE  {c \in acquired : /\ state[c].prescoring = "SUCCESS"
                           /\ state[c].outcome # "SKIPPED_THRESHOLD"}
           = acquired \cap EligibleIds(answer)
<1>1. acquired \subseteq Candidates /\ selected = acquired \cap TopIds(answer, k)
  BY DEF IInv, TypeOK, Chosen, Top
<1>2. ASSUME NEW c \in selected
      PROVE  /\ state[c].prescoring = "SUCCESS" /\ state[c].outcome # "SKIPPED_THRESHOLD"
             /\ c \in EligibleIds(answer)
  <2>1. state[c].prescoring = "SUCCESS"
    BY DEF DInv, Staged, Stage
  <2>2. state[c].outcome \in Failures \cup {"SUCCESS"}
    BY DEF IInv, Marks, Settled
  <2>3. QED
    BY <1>1, <2>1, <2>2, TopIsEligible DEF Failures
<1>3. ASSUME NEW c \in acquired \ selected
      PROVE  (state[c].prescoring = "SUCCESS" /\ state[c].outcome # "SKIPPED_THRESHOLD")
               <=> c \in EligibleIds(answer)
  <2>1. state[c] = Marked(answer, k, c) /\ c \notin TopIds(answer, k)
    BY <1>1 DEF DInv, Unchosen
  <2>2. CASE Places(answer, c) = {}
    <3>1. state[c] = [NewState EXCEPT !.outcome = "FAILED_SCORING", !.prescoring = "FAILED"]
      BY <2>1, <2>2, TopIsEligible DEF Marked
    <3>2. QED
      BY <2>2, <3>1, TopIsEligible DEF NewState
  <2>3. CASE Places(answer, c) # {} /\ c \notin EligibleIds(answer)
    <3>1. state[c] = Skipped("SKIPPED_THRESHOLD", 0)
      BY <2>1, <2>3 DEF Marked
    <3>2. QED
      BY <2>3, <3>1 DEF Skipped, NewState
  <2>4. CASE c \in EligibleIds(answer)
    <3>1. state[c] = Skipped("SKIPPED_TOP_K", Rank(answer, c))
      BY <2>1, <2>4, TopIsEligible DEF Marked
    <3>2. QED
      BY <2>4, <3>1 DEF Skipped, NewState
  <2>5. QED
    BY <2>2, <2>3, <2>4
<1>4. QED
  BY <1>1, <1>2, <1>3

\* Of the candidates of a finished run, those the report takes for selected
\* are the selected ones and those left out of the answer.
LEMMA ReportedIs ==
  ASSUME IInv, DInv, pc = "done"
  PROVE  LET out == {c \in acquired : Places(answer, c) = {}}
         IN  /\ Reported = selected \cup out /\ selected \cap out = {}
             /\ \A c \in out : /\ state[c].synchronization = "PENDING"
                               /\ state[c].scoring = "PENDING"
                               /\ state[c].persistence = "PENDING"
                               /\ state[c].outcome \in Failures
<1> DEFINE out == {c \in acquired : Places(answer, c) = {}}
<1>1. selected = acquired \cap TopIds(answer, k)
  BY DEF IInv, Chosen, Top
<1>2. selected \cap out = {}
  BY <1>1, TopIsEligible
<1>3. \A c \in selected : c \in acquired /\ state[c].outcome \in Failures \cup {"SUCCESS"}
  BY <1>1 DEF IInv, Marks, Settled
<1>4. ASSUME NEW c \in out
      PROVE  /\ state[c].synchronization = "PENDING" /\ state[c].scoring = "PENDING"
             /\ state[c].persistence = "PENDING" /\ state[c].outcome = "FAILED_SCORING"
  <2>1. state[c] = Marked(answer, k, c)
    BY <1>2 DEF DInv, Unchosen
  <2>2. state[c] = [NewState EXCEPT !.outcome = "FAILED_SCORING", !.prescoring = "FAILED"]
    BY <2>1, TopIsEligible DEF Marked
  <2>3. QED
    BY <2>2 DEF NewState
<1>5. ASSUME NEW c \in acquired \ (selected \cup out)
      PROVE  state[c].outcome \notin Failures \cup {"SUCCESS"}
  <2>1. /\ state[c] = Marked(answer, k, c) /\ c \notin TopIds(answer, k)
        /\ Places(answer, c) # {}
    BY <1>1 DEF DInv, Unchosen
  <2>2. \/ state[c] = Skipped("SKIPPED_TOP_K", Rank(answer, c))
        \/ state[c] = Skipped("SKIPPED_THRESHOLD", 0)
    BY <2>1 DEF Marked
  <2>3. QED
    BY <2>2 DEF Skipped, NewState, Failures
<1>6. Reported = selected \cup out
  BY <1>3, <1>4, <1>5 DEF Reported, With, Failures
<1>7. QED
  BY <1>2, <1>4, <1>6 DEF Failures

-----------------------------------------------------------------------------
(* The theorems.                                                           *)

\* Too few in the response: either so few have reached the threshold, or one
\* of those selected has failed.
LEMMA WarningInv ==
  ASSUME IInv, DInv
  PROVE  WarningIsTrue
<1> SUFFICES ASSUME pc = "done", Proper
             PROVE  /\ Warning = "EVALUATION_FAILURE" => selected \cap With(Failures) # {}
                    /\ Warning = "INSUFFICIENT_QUALIFIED" =>
                         Cardinality(acquired \cap EligibleIds(answer)) < k
  BY DEF WarningIsTrue
<1>1. /\ answer \in Answers /\ k \in Nat /\ k >= 1
      /\ acquired \subseteq Candidates /\ selected = acquired \cap Top
      /\ Top = TopIds(answer, k)
  BY ConstantsOK DEF IInv, TypeOK, Chosen, Top
<1>2. selected = Top /\ Cardinality(selected) = Cardinality(First(answer, k))
  BY <1>1 DEF Proper
<1>3. PICK m \in Nat : /\ Eligible(answer) = 1..m /\ Cardinality(Eligible(answer)) = m
                       /\ Cardinality(First(answer, k)) = IF m <= k THEN m ELSE k
  BY <1>1, EligibleFirst
<1>4. EligibleCount = Cardinality(acquired \cap EligibleIds(answer))
  BY EligibleAtEnd, Zenon DEF EligibleCount
<1>5. EligibleCount \in Nat /\ EligibleCount <= m
  <2>1. IsFiniteSet(EligibleIds(answer)) /\ Cardinality(EligibleIds(answer)) <= m
    BY <1>1, <1>3, FewerIds
  <2>2. acquired \cap EligibleIds(answer) \in SUBSET EligibleIds(answer)
    OBVIOUS
  <2>3. /\ EligibleCount \in Nat /\ Cardinality(EligibleIds(answer)) \in Nat
        /\ EligibleCount <= Cardinality(EligibleIds(answer))
    BY <1>4, <2>1, <2>2, FS_Subset, FS_CardinalityType
  <2>4. QED
    BY <1>3, <2>1, <2>3
<1>6. /\ IsFiniteSet(response) /\ Cardinality(response) \in Nat
      /\ IsFiniteSet(ReturnedIds) /\ Cardinality(ReturnedIds) \in Nat
      /\ Cardinality(ReturnedIds) <= Cardinality(response)
  <2>1. TypeOK
    BY DEF IInv
  <2>2. QED
    BY <2>1, ResponseItems, FS_Surjection, FS_CardinalityType
<1>7. ASSUME Warning = "INSUFFICIENT_QUALIFIED"
      PROVE  EligibleCount < k
  <2>1. selected = {} \/ EligibleCount < k
    BY <1>1, <1>6, <1>7 DEF Warning
  <2>2. CASE selected = {}
    <3>1. Cardinality(First(answer, k)) = 0
      BY <1>2, <2>2, FS_EmptySet
    <3>2. m = 0
      BY <1>1, <1>3, <3>1
    <3>3. QED
      BY <1>1, <1>5, <3>2
  <2>3. QED
    BY <2>1, <2>2
<1>8. ASSUME Warning = "EVALUATION_FAILURE"
      PROVE  selected \cap With(Failures) # {}
  <2>1. Cardinality(response) < k /\ ~(selected = {} \/ EligibleCount < k)
    BY <1>1, <1>6, <1>8 DEF Warning
  <2>2. Cardinality(selected) = k
    BY <1>1, <1>2, <1>3, <1>5, <2>1
  <2>3. SUFFICES ASSUME selected \cap With(Failures) = {} PROVE FALSE
    OBVIOUS
  <2>4. \A c \in selected : c \in acquired /\ state[c].outcome \in Failures \cup {"SUCCESS"}
    BY <1>1 DEF IInv, Marks, Settled
  <2>5. selected \subseteq With({"SUCCESS"})
    BY <2>3, <2>4 DEF With
  <2>6. selected \in SUBSET ReturnedIds
    BY <2>5, ReturnedInv DEF ReturnedAreCompleted, Proper
  <2>7. Cardinality(selected) <= Cardinality(ReturnedIds)
    BY <1>6, <2>6, FS_Subset
  <2>8. QED
    BY <1>1, <1>6, <2>1, <2>2, <2>7
<1>9. QED
  BY <1>4, <1>7, <1>8

\* What the recruiter is told about a short list is true, whatever the language
\* models answer and whichever calls fail.
THEOREM WarningsAreTrue == Spec => []WarningIsTrue
BY RunsKeepTrack, CandidatesAreTracked, WarningInv, PTL

\* The four counts of the report over a finished run: the selected candidates
\* are scored, unscorable, or not refreshed, once or twice counted as failed.
LEMMA ReportInv ==
  ASSUME IInv, DInv
  PROVE  ReportIsExplained
<1> DEFINE Explained ==
             \A c \in With(Failures) :
                /\ Places(answer, c) # {}
                /\ ~(sync[c] = "failed" /\ profile[c] # "missing")
           Once == \A i, j \in response : answer[i].id = answer[j].id => i = j
<1> SUFFICES ASSUME pc = "done", RightlyNamed
             PROVE  ReportPassed <=> Explained /\ Once /\ ReturnedIds \subseteq acquired
  BY DEF ReportIsExplained
<1> DEFINE out == {c \in acquired : Places(answer, c) = {}}
           A == {c \in selected : Scored(state[c], "SUCCESS")}
           B == {c \in selected : Unscorable(state[c])}
           C == {c \in selected : Unrefreshed(c, state[c], FailedTwice(c))}
           D == {c \in C : profile[c] # "missing"}
           Stg(stage, result) == {c \in Reported : state[c][stage] = result}
<1>1. /\ selected = acquired \cap TopIds(answer, k) /\ acquired \subseteq Candidates
  BY DEF IInv, TypeOK, Chosen, Top
<1>2. /\ Reported = selected \cup out /\ selected \cap out = {}
      /\ \A c \in out : /\ state[c].synchronization = "PENDING"
                        /\ state[c].scoring = "PENDING" /\ state[c].persistence = "PENDING"
                        /\ state[c].outcome \in Failures
  BY ReportedIs
<1>3. selected = A \cup B \cup C /\ A \cap B = {} /\ A \cap C = {} /\ B \cap C = {}
  <2>1. \A c \in selected : \/ Scored(state[c], "SUCCESS") \/ Unscorable(state[c])
                            \/ Unrefreshed(c, state[c], FailedTwice(c))
    BY DEF DInv, Staged, Stage
  <2>2. QED
    BY <2>1 DEF Scored, Unscorable, Unrefreshed
<1>4. /\ Stg("synchronization", "SUCCESS") = A \cup B
      /\ Stg("synchronization", "FAILED") = C
      /\ Stg("scoring", "SUCCESS") = A
      /\ Stg("scoring", "FAILED") = B \cup D
      /\ Stg("persistence", "SUCCESS") = A
  <2>1. \A c \in A : /\ state[c].synchronization = "SUCCESS" /\ state[c].scoring = "SUCCESS"
                     /\ state[c].persistence = "SUCCESS"
    BY DEF Scored
  <2>2. \A c \in B : /\ state[c].synchronization = "SUCCESS" /\ state[c].scoring = "FAILED"
                     /\ state[c].persistence = "SKIPPED"
    BY DEF Unscorable
  <2>3. \A c \in C : /\ state[c].synchronization = "FAILED"
                     /\ state[c].scoring = (IF c \in D THEN "FAILED" ELSE "SKIPPED")
                     /\ state[c].persistence = "SKIPPED"
    BY DEF Unrefreshed, FailedTwice
  <2>4. D \subseteq C /\ Reported = A \cup B \cup C \cup out
    BY <1>2, <1>3
  <2> HIDE DEF A, B, C, D, out
  <2>5. QED
    BY <1>2, <1>3, <2>1, <2>2, <2>3, <2>4
<1>5. A = ReturnedIds \cap acquired
  <2>1. ReturnedIds \cap acquired = {c \in acquired : state[c].scoring = "SUCCESS"}
    BY ReturnedInv, CompletedAre DEF ReturnedAreCompleted
  <2>2. \A c \in selected : state[c].scoring = "SUCCESS" <=> c \in A
    BY <1>3 DEF Scored, Unscorable, Unrefreshed, FailedTwice
  <2>3. \A c \in acquired \ selected : state[c].scoring # "SUCCESS"
    BY DEF IInv, Others, Left
  <2>4. selected \subseteq acquired /\ A \subseteq selected
    BY <1>1
  <2> HIDE DEF A
  <2>5. QED
    BY <2>1, <2>2, <2>3, <2>4
<1>6. out = {} /\ D = {} <=> Explained
  <2>1. \A c \in selected : Places(answer, c) # {}
    BY <1>1, TopIsEligible
  <2>2. With(Failures) \subseteq selected \cup out /\ out \subseteq With(Failures)
    <3>1. With(Failures) \subseteq Reported
      BY DEF With, Reported
    <3>2. QED
      BY <1>2, <3>1 DEF With
  <2>3. C \subseteq With(Failures)
    <3>1. \A c \in C : state[c].scoring # "SUCCESS"
      BY DEF Unrefreshed, FailedTwice
    <3>2. \A c \in selected : c \in acquired
                              /\ (state[c].scoring # "SUCCESS" => state[c].outcome \in Failures)
      BY <1>1 DEF IInv, Marks, Settled
    <3>3. QED
      BY <3>1, <3>2 DEF With
  <2>4. \A c \in C : sync[c] = "failed"
    BY DEF Unrefreshed
  <2>5. \A c \in A \cup B : sync[c] = "ok"
    BY DEF IInv, Marks, Scored, Unscorable
  <2> HIDE DEF A, B, C
  <2>6. QED
    BY <1>3, <2>1, <2>2, <2>3, <2>4, <2>5
<1>7. IsFiniteSet(acquired) /\ IsFiniteSet(selected) /\ IsFiniteSet(Reported)
  <2>1. acquired \in SUBSET Candidates /\ selected \in SUBSET acquired
        /\ Reported \in SUBSET acquired
    BY <1>1 DEF Reported, With
  <2>2. QED
    BY <2>1, ConstantsOK, FS_Subset
<1> DEFINE N(S) == Cardinality(S)
<1>8. /\ N(Reported) = N(selected) + N(out) /\ N(selected) \in Nat /\ N(out) \in Nat
      /\ N(out) = 0 <=> out = {}
  <2> HIDE DEF out
  <2>1. QED
    BY <1>2, <1>7, TwoParts
<1>9. N(selected) = N(A \cup B) + N(C) /\ N(A \cup B) \in Nat /\ N(C) \in Nat
  <2> HIDE DEF A, B, C
  <2>1. (A \cup B) \cap C = {} /\ selected = (A \cup B) \cup C
    BY <1>3
  <2>2. QED
    BY <1>7, <2>1, TwoParts
<1>10. N(A \cup B) = N(A) + N(B) /\ N(A) \in Nat /\ N(B) \in Nat
  <2> HIDE DEF A, B, C
  <2>1. A \cup B \in SUBSET selected
    BY <1>3
  <2>2. IsFiniteSet(A \cup B)
    BY <1>7, <2>1, FS_Subset
  <2>3. QED
    BY <1>3, <2>2, TwoParts
<1>11. N(B \cup D) = N(B) + N(D) /\ N(D) \in Nat /\ (N(D) = 0 <=> D = {})
  <2>1. B \cap D = {} /\ B \cup D \in SUBSET selected
    BY <1>3
  <2> HIDE DEF A, B, C, D
  <2>2. IsFiniteSet(B \cup D)
    BY <1>7, <2>1, FS_Subset
  <2>3. QED
    BY <2>1, <2>2, TwoParts
<1>12. N(A) = N(response) <=> Once /\ ReturnedIds \subseteq acquired
  <2> DEFINE f == [i \in response |-> answer[i].id]
  <2>1. IsFiniteSet(response) /\ f \in Surjection(response, ReturnedIds)
    BY ResponseItems DEF IInv
  <2>2. \A i \in response : f[i] = answer[i].id
    OBVIOUS
  <2> HIDE DEF A, f
  <2>3. A \in SUBSET ReturnedIds
    BY <1>5
  <2>4. N(A) = N(response) <=>
          A = ReturnedIds /\ \A i, j \in response : f[i] = f[j] => i = j
    BY <2>1, <2>3, OnceEach
  <2>5. QED
    BY <1>5, <2>2, <2>4
<1>13. ReportPassed <=> /\ N(Reported) = N(A \cup B) + N(C)
                        /\ N(A \cup B) = N(A) + N(B \cup D)
                        /\ N(A) = N(response)
  <2>1. /\ Count("synchronization", "SUCCESS") = N(A \cup B)
        /\ Count("synchronization", "FAILED") = N(C)
        /\ Count("scoring", "SUCCESS") = N(A)
        /\ Count("scoring", "FAILED") = N(B \cup D)
        /\ Count("persistence", "SUCCESS") = N(A)
    <3> HIDE DEF A, B, C, D
    <3>1. QED
      BY <1>4, Zenon DEF Count
  <2> HIDE DEF A, B, C, D
  <2>2. QED
    BY <2>1 DEF ReportPassed
<1>14. ReportPassed <=> out = {} /\ D = {} /\ N(A) = N(response)
  <2> HIDE DEF A, B, C, D, out, N
  <2>1. QED
    BY <1>8, <1>9, <1>10, <1>11, <1>13
<1> HIDE DEF A, B, C, D, out, N, Explained, Once
<1>15. QED
  BY <1>6, <1>12, <1>14, Zenon

\* The report finds a discrepancy exactly in four cases: a candidate without a
\* pre-score, a failed refresh of a known profile, a candidate returned twice,
\* and one returned from outside the run.
THEOREM ReportsAreExplained == Spec => []ReportIsExplained
BY RunsKeepTrack, CandidatesAreTracked, ReportInv, PTL
=============================================================================
