---------------------------- MODULE PipelineRun ----------------------------
(***************************************************************************)
(* One execution of pipeline_prescore_and_score, candidate by candidate:   *)
(* the life of a PipelineCandidateState, the profiles and shortlist rows   *)
(* the run reads and writes, and what each external answer can do to it.   *)
(*                                                                         *)
(* The run has one database session in AUTOCOMMIT: a statement that has    *)
(* succeeded stays, and a failed flush leaves the session unusable until a *)
(* rollback, which the run never issues.                                   *)
(***************************************************************************)
EXTENDS Naturals, FiniteSets, SequencesExt

CONSTANTS
  Candidates,
  Stranger,   \* an id that a language model makes up
  Ks,         \* the shortlist sizes requested
  Required,   \* candidates that make sourcing unnecessary (10 * k)
  MaxScore, Threshold,  \* of the pre-scores, and minimum_prescore_threshold
  MaxAnswer,  \* bound on the entries of a pre-scoring answer
  MaxRuns     \* bound on the runs of the job description

ASSUME ConstantsOK ==
  /\ IsFiniteSet(Candidates)
  /\ Stranger \notin Candidates
  /\ Ks \subseteq Nat \ {0}
  /\ Required \in Nat /\ MaxScore \in Nat /\ Threshold \in Nat
  /\ MaxAnswer \in Nat /\ MaxRuns \in Nat \ {0}

VARIABLES
  pc, run,
  k,        \* the shortlist size of this run
  profile,  \* the candidates' profiles in the local database
  session,  \* the database session: "sound" or "broken"
  acquired, \* the keys of context.candidates
  answer,   \* prescore_output.scores
  state,    \* context.candidates, for the acquired
  selected, \* those PENDING after selection (selected_candidate_count)
  sync,     \* SyncBatchResult
  todo,     \* ids the loop under way has still to write
  graded,   \* ids of candidate_scores
  scores, entries, \* candidates with rows in candidate_job_scores, pipeline
  before,   \* these rows before persistence
  response  \* the list of the response, each item by its place in the answer

rows == <<scores, entries, before>>
context == <<acquired, answer, state, selected>>
vars == <<pc, run, k, profile, session, context, sync, todo, graded, rows, response>>

Ids == Candidates \cup {Stranger}
Stages == {"PENDING", "SUCCESS", "FAILED", "SKIPPED"}
Failures == {"FAILED_SYNCHRONIZATION", "FAILED_SCORING", "FAILED_PERSISTENCE"}
Outcomes == Failures \cup {"PENDING", "SUCCESS", "SKIPPED_THRESHOLD", "SKIPPED_TOP_K"}

\* PipelineCandidateState; rank is 0 while prescore_rank is None.
CandidateState == [outcome : Outcomes, prescoring : Stages, synchronization : Stages,
                   scoring : Stages, persistence : Stages, rank : 0..MaxAnswer]

NewState == [outcome |-> "PENDING", prescoring |-> "PENDING", synchronization |-> "PENDING",
             scoring |-> "PENDING", persistence |-> "PENDING", rank |-> 0]

\* A profile is "torn" when a failed upsert wrote only some of its rows.
Profiles == {"missing", "stale", "fresh", "torn"}
PCs == {"acquire", "prescore", "clear", "clearScores", "sync", "upsert", "lookup",
        "deep", "scores", "entries", "prune", "pruneScores", "activate", "respond",
        "done", "raised", "crashed"}
Prescores == [id : Ids, score : 0..MaxScore]

TypeOK ==
  /\ pc \in PCs /\ run \in 1..MaxRuns /\ k \in Ks
  /\ profile \in [Candidates -> Profiles]
  /\ session \in {"sound", "broken"}
  /\ acquired \subseteq Candidates /\ selected \subseteq acquired
  /\ answer \in Seq(Prescores) /\ Len(answer) <= MaxAnswer
  /\ state \in [Candidates -> CandidateState]
  /\ sync \in [Candidates -> {"none", "ok", "failed"}]
  /\ todo \subseteq Ids /\ graded \subseteq Ids
  /\ scores \subseteq Candidates /\ entries \subseteq Candidates
  /\ before \in (SUBSET Candidates) \X (SUBSET Candidates)
  /\ response \subseteq 1..MaxAnswer

\* What earlier runs may have left: complete profiles, and any shortlist.
Init ==
  /\ pc = "acquire" /\ run = 1 /\ k \in Ks
  /\ profile \in [Candidates -> {"missing", "stale", "fresh"}]
  /\ session = "sound"
  /\ acquired = {} /\ answer = <<>> /\ selected = {}
  /\ state = [c \in Candidates |-> NewState]
  /\ sync = [c \in Candidates |-> "none"]
  /\ todo = {} /\ graded = {} /\ response = {}
  /\ \E prior \in SUBSET {c \in Candidates : profile[c] # "missing"} :
        scores = prior /\ entries = prior
  /\ before = <<scores, entries>>

-----------------------------------------------------------------------------
(* Acquisition and pre-scoring.                                            *)

\* acquire_candidates: the local search finds some of the local candidates;
\* if they are too few, sourcing adds others (none when it fails).
Pool(found, sourced) ==
  IF Cardinality(found) >= Required THEN found ELSE found \cup sourced

\* A preview, or an empty pool, ends the run without touching a row.
Acquire ==
  /\ pc = "acquire"
  /\ \E found \in SUBSET {c \in Candidates : profile[c] # "missing"},
        sourced \in SUBSET Candidates, confirm \in BOOLEAN :
        /\ acquired' = IF confirm THEN Pool(found, sourced) ELSE {}
        /\ pc' = IF acquired' = {} THEN "done" ELSE "prescore"
  /\ UNCHANGED <<run, k, profile, session, answer, state, selected, sync, todo,
                 graded, rows, response>>

\* Mutant of Answers: the answer is not sorted.
AnyAnswers == BoundedSeq(Prescores, MaxAnswer)

\* What the language model may answer, sorted by descending score: ids left
\* out, repeated or made up are possible.
Answers == {a \in BoundedSeq(Prescores, MaxAnswer) :
              \A i, j \in DOMAIN a : i < j => a[i].score >= a[j].score}

\* The entries of eligible_scores, and the first n of them, by their places.
Eligible(a) == {i \in DOMAIN a : a[i].score >= Threshold}
First(a, n) ==
  {i \in Eligible(a) : Cardinality({j \in Eligible(a) : j <= i}) <= n}

EligibleIds(a) == {a[i].id : i \in Eligible(a)}
TopIds(a, n) == {a[i].id : i \in First(a, n)}

Places(a, c) == {i \in DOMAIN a : a[i].id = c}
Rank(a, c) == CHOOSE i \in Places(a, c) : \A j \in Places(a, c) : i <= j

Skipped(outcome, rank) ==
  [NewState EXCEPT !.outcome = outcome, !.prescoring = "SUCCESS", !.rank = rank,
     !.synchronization = "SKIPPED", !.scoring = "SKIPPED", !.persistence = "SKIPPED"]

\* The marks of candidate c after the answer a, for a shortlist of n.
Marked(a, n, c) ==
  CASE Places(a, c) = {} ->
         [NewState EXCEPT !.outcome = "FAILED_SCORING", !.prescoring = "FAILED"]
    [] Places(a, c) # {} /\ c \notin EligibleIds(a) -> Skipped("SKIPPED_THRESHOLD", 0)
    [] c \in EligibleIds(a) \ TopIds(a, n) -> Skipped("SKIPPED_TOP_K", Rank(a, c))
    [] c \in TopIds(a, n) ->
         [NewState EXCEPT !.prescoring = "SUCCESS", !.rank = Rank(a, c)]

\* The pre-scores arrive and the shortlist is selected; an empty one means
\* that every row of the job description is stale.
Prescore ==
  /\ pc = "prescore"
  /\ \E a \in Answers :
       /\ answer' = a
       /\ state' = [c \in Candidates |->
                      IF c \in acquired THEN Marked(a, k, c) ELSE state[c]]
       /\ selected' = {c \in acquired : state'[c].outcome = "PENDING"}
  /\ pc' = IF selected' = {} THEN "clear" ELSE "sync"
  /\ UNCHANGED <<run, k, profile, session, acquired, sync, todo, graded, rows, response>>

\* delete_stale_candidate_scores_and_pipelines([]), two statements.
Clear ==
  /\ \/ pc = "clear" /\ entries' = {} /\ scores' = scores /\ pc' = "clearScores"
     \/ pc = "clearScores" /\ scores' = {} /\ entries' = entries /\ pc' = "done"
  /\ UNCHANGED <<run, k, profile, session, context, sync, todo, graded, before, response>>

-----------------------------------------------------------------------------
(* Synchronization.                                                        *)

Top == TopIds(answer, k)
Outdated == {c \in Top \cap Candidates : profile[c] \in {"missing", "stale"}}

\* synchronize_candidates: fresh profiles are kept, the others requested;
\* the sourcing service returns some of them, none when the call fails.
FetchDetails ==
  /\ pc = "sync"
  /\ \E returned \in SUBSET Outdated :
       /\ todo' = returned
       /\ sync' = [c \in Candidates |->
                     IF c \notin Top \/ c \in returned THEN "none"
                     ELSE IF c \in Outdated THEN "failed" ELSE "ok"]
       /\ pc' = IF returned = {} THEN "lookup" ELSE "upsert"
  /\ UNCHANGED <<run, k, profile, session, context, graded, rows, response>>

Upserted(c) ==
  /\ pc = "upsert" /\ c \in todo
  /\ todo' = todo \ {c}
  /\ pc' = IF todo = {c} THEN "lookup" ELSE "upsert"
  /\ UNCHANGED <<run, k, context, graded, rows, response>>

\* upsert_candidate, one profile.
UpsertProfile(c) ==
  /\ Upserted(c)
  /\ session = "sound" /\ session' = session
  /\ profile' = [profile EXCEPT ![c] = "fresh"]
  /\ sync' = [sync EXCEPT ![c] = "ok"]

\* Its SELECT fails, as it does once the session is broken; or its flush
\* fails, after some of the rows are written.
UpsertFails(c) ==
  /\ Upserted(c)
  /\ sync' = [sync EXCEPT ![c] = "failed"]
  /\ \/ session' = session /\ profile' = profile
     \/ /\ session = "sound" /\ session' = "broken"
        /\ \E p \in {profile[c], "torn"} : profile' = [profile EXCEPT ![c] = p]

\* Mutant of Synchronized: the result replaces the stage.
SynchronizedRaw(s, result) == [s EXCEPT !.synchronization = result]

Synchronized(s, result) ==
  IF result = "ok"
  THEN [s EXCEPT !.synchronization = "SUCCESS"]
  ELSE [s EXCEPT !.synchronization = "FAILED", !.outcome = "FAILED_SYNCHRONIZATION",
                 !.scoring = "SKIPPED", !.persistence = "SKIPPED"]

\* Mutant of Lookup: a broken session goes on.
LookupAnyway ==
  /\ pc = "lookup"
  /\ state' = [c \in Candidates |->
                 IF c \in selected THEN Synchronized(state[c], sync[c]) ELSE state[c]]
  /\ pc' = "deep"
  /\ UNCHANGED <<run, k, profile, session, acquired, answer, selected, sync, todo,
                 graded, rows, response>>

\* The results are applied and the profiles loaded: the first statement
\* after synchronization, which a broken session refuses.
Lookup ==
  /\ pc = "lookup"
  /\ state' = [c \in Candidates |->
                 IF c \in selected THEN Synchronized(state[c], sync[c]) ELSE state[c]]
  /\ pc' = IF session = "broken" THEN "crashed" ELSE "deep"
  /\ UNCHANGED <<run, k, profile, session, acquired, answer, selected, sync, todo,
                 graded, rows, response>>

-----------------------------------------------------------------------------
(* Deep scoring.                                                           *)

Local == {c \in Top \cap Candidates : profile[c] # "missing"}

\* Mutant of Scorable: every profile in the database is scored.
ScorableLocal == Local

\* A candidate of the run is scored if its synchronization succeeded; an id
\* from outside the run that the pre-scores name is not asked for one.
Scorable == {c \in Local : c \in acquired => state[c].synchronization = "SUCCESS"}

ScoringFailed(s) == [s EXCEPT !.scoring = "FAILED", !.outcome = "FAILED_SCORING",
                              !.persistence = "SKIPPED"]

\* Mutant of Unscored: a candidate that failed before is not marked again.
UnscoredNew ==
  IF Local = {} THEN {c \in selected : state[c].scoring = "PENDING"} ELSE {}

\* Those marked as failed without a call to the language model.
Unscored ==
  IF Local = {} THEN {c \in selected : state[c].scoring = "PENDING"}
  ELSE Local \ Scorable

\* score_candidates_for_job_description up to persistence: those scored, of
\* whom the language model may name any id, and those whose call fails.
DeepScore ==
  /\ pc = "deep"
  /\ \E scored \in SUBSET Scorable, named \in [Scorable -> Ids] :
       /\ graded' = {named[c] : c \in scored}
       /\ state' = [c \in Candidates |->
                      CASE c \in acquired \cap scored -> [state[c] EXCEPT !.scoring = "SUCCESS"]
                        [] c \in Unscored \cup (acquired \cap (Scorable \ scored)) ->
                             ScoringFailed(state[c])
                        [] OTHER -> state[c]]
  /\ todo' = graded'
  /\ pc' = IF Scorable = {} THEN "respond"
           ELSE IF graded' = {} THEN "prune" ELSE "scores"
  /\ before' = <<scores, entries>>
  /\ UNCHANGED <<run, k, profile, session, acquired, answer, selected, sync, scores,
                 entries, response>>

-----------------------------------------------------------------------------
(* Persistence.                                                            *)

Persisting == {"scores", "entries", "prune", "pruneScores", "activate"}

\* upsert_candidate_scores, one row; an id without a profile violates the
\* foreign key, and one named twice is written twice into the same row.
UpsertScore(c) ==
  /\ pc = "scores" /\ c \in todo /\ profile[c] # "missing"
  /\ scores' = scores \cup {c}
  /\ todo' = IF todo = {c} THEN graded ELSE todo \ {c}
  /\ pc' = IF todo = {c} THEN "entries" ELSE pc
  /\ UNCHANGED <<run, k, profile, session, context, sync, graded, entries, before, response>>

\* upsert_pipeline_entries, one row.
UpsertEntry(c) ==
  /\ pc = "entries" /\ c \in todo /\ profile[c] # "missing"
  /\ entries' = entries \cup {c}
  /\ todo' = todo \ {c}
  /\ pc' = IF todo = {c} THEN "prune" ELSE pc
  /\ UNCHANGED <<run, k, profile, session, context, sync, graded, scores, before, response>>

\* Mutant of Active: the selected candidates are active.
ActiveSelected == selected

\* active_candidate_ids.
Active == graded

Prune ==
  /\ \/ pc = "prune" /\ entries' = entries \cap Active /\ scores' = scores
        /\ pc' = "pruneScores"
     \/ pc = "pruneScores" /\ scores' = scores \cap Active /\ entries' = entries
        /\ pc' = "activate"
  /\ UNCHANGED <<run, k, profile, session, context, sync, todo, graded, before, response>>

Persisted(stage, outcome) ==
  state' = [c \in Candidates |->
              IF c \in Scorable /\ state[c].scoring = "SUCCESS"
              THEN [state[c] EXCEPT !.persistence = stage, !.outcome = outcome]
              ELSE state[c]]

\* The job description becomes ACTIVE (Campaign.tla); persistence is over.
Activate ==
  /\ pc = "activate"
  /\ Persisted("SUCCESS", "SUCCESS")
  /\ pc' = "respond"
  /\ UNCHANGED <<run, k, profile, session, acquired, answer, selected, sync, todo,
                 graded, rows, response>>

\* Any statement of the persistence raises: the candidates are marked and
\* the run raises.
PersistFails ==
  /\ pc \in Persisting
  /\ Persisted("FAILED", "FAILED_PERSISTENCE")
  /\ pc' = "raised"
  /\ UNCHANGED <<run, k, profile, session, acquired, answer, selected, sync, todo,
                 graded, rows, response>>

\* Mutant of Returned: the deep scores are not looked up.
ReturnedTop == {i \in First(answer, k) : answer[i].id \in Local}

\* One item for each entry of the top k whose id was loaded and has a deep
\* score: a repeated id is returned repeatedly.
Returned == {i \in First(answer, k) : answer[i].id \in Local \cap graded}

Respond ==
  /\ pc = "respond"
  /\ response' = Returned
  /\ pc' = "done"
  /\ UNCHANGED <<run, k, profile, session, context, sync, todo, graded, rows>>

\* Mutant of EligibleCount: the threshold is forgotten.
PrescoredCount == Cardinality({c \in acquired : state[c].prescoring = "SUCCESS"})

\* eligible_candidate_count.
EligibleCount ==
  Cardinality({c \in acquired : /\ state[c].prescoring = "SUCCESS"
                                /\ state[c].outcome # "SKIPPED_THRESHOLD"})

\* warning_reason of the response.
Warning ==
  CASE Cardinality(response) >= k -> "none"
    [] Cardinality(response) < k /\ (selected = {} \/ EligibleCount < k) ->
         "INSUFFICIENT_QUALIFIED"
    [] OTHER -> "EVALUATION_FAILURE"

With(outcomes) == {c \in acquired : state[c].outcome \in outcomes}

\* _generate_pipeline_report: the counts over those it takes for selected.
Reported == With(Failures \cup {"SUCCESS"})
Count(stage, result) == Cardinality({c \in Reported : state[c][stage] = result})

\* "Consistency: PASSED".
ReportPassed ==
  /\ Cardinality(Reported) =
       Count("synchronization", "SUCCESS") + Count("synchronization", "FAILED")
  /\ Count("synchronization", "SUCCESS") =
       Count("scoring", "SUCCESS") + Count("scoring", "FAILED")
  /\ Count("scoring", "SUCCESS") = Count("persistence", "SUCCESS")
  /\ Count("persistence", "SUCCESS") = Cardinality(response)

\* Any other await raises, or a second authorisation refuses.
Raise ==
  /\ pc \in {"acquire", "prescore", "clear", "clearScores", "sync", "lookup", "deep"}
  /\ pc' = "raised"
  /\ UNCHANGED <<run, k, profile, session, context, sync, todo, graded, rows, response>>

\* A later run of the job description, when some profiles have become stale.
NextRun ==
  /\ pc \in {"done", "raised", "crashed"}
  /\ run < MaxRuns /\ run' = run + 1
  /\ pc' = "acquire" /\ k' \in Ks
  /\ \E aged \in SUBSET {c \in Candidates : profile[c] # "missing"} :
       profile' = [c \in Candidates |-> IF c \in aged THEN "stale" ELSE profile[c]]
  /\ session' = "sound"
  /\ acquired' = {} /\ answer' = <<>> /\ selected' = {}
  /\ state' = [c \in Candidates |-> NewState]
  /\ sync' = [c \in Candidates |-> "none"]
  /\ todo' = {} /\ graded' = {} /\ response' = {}
  /\ before' = <<scores, entries>>
  /\ UNCHANGED <<scores, entries>>

Next ==
  \/ Acquire \/ Prescore \/ Clear \/ FetchDetails \/ Lookup \/ DeepScore
  \/ \E c \in Candidates : UpsertProfile(c) \/ UpsertFails(c)
                           \/ UpsertScore(c) \/ UpsertEntry(c)
  \/ Prune \/ Activate \/ PersistFails \/ Respond \/ Raise \/ NextRun

Spec == Init /\ [][Next]_vars
-----------------------------------------------------------------------------
(* What the code promises.                                                 *)

\* The first assertion at the end of pipeline_prescore_and_score, whatever
\* the language model leaves out, repeats or makes up: the candidates
\* selected are those completed and those failed within the first k.
SelectedAccounted ==
  pc = "done" =>
    Cardinality(selected) =
      Cardinality(With({"SUCCESS"}))
      + Cardinality({c \in With(Failures) : state[c].rank \in 1..k})

ReturnedIds == {answer[i].id : i \in response}

\* The deep scores name, of the candidates of the run, those they are about.
RightlyNamed == graded \cap acquired = {c \in acquired : state[c].scoring = "SUCCESS"}

\* The second assertion, candidate by candidate: of the candidates of the run
\* the recruiter gets exactly those whose outcome is SUCCESS.
ReturnedAreCompleted ==
  pc = "done" /\ RightlyNamed => ReturnedIds \cap acquired = With({"SUCCESS"})

\* A run that has deep scores leaves exactly the candidates they name in both
\* tables, whatever an earlier run had left there, and returns those of them
\* that are in its top k.
ShortlistIsStored ==
  pc = "done" /\ graded # {} =>
    scores = graded /\ entries = graded /\ ReturnedIds = graded \cap Top

\* No candidate of the run is scored, or completed, without being selected
\* and synchronized, its profile found or made fresh. (An id from outside the
\* run that the pre-scores name escapes this check: see Scorable.)
ScoredAreSynchronized ==
  \A c \in acquired : "SUCCESS" \in {state[c].scoring, state[c].outcome} =>
     c \in selected /\ sync[c] = "ok" /\ profile[c] \in {"fresh", "torn"}

\* The pre-scores name the candidates of the shortlist once each, and none
\* that is not a candidate of this run; nor do the deep scores.
Proper == /\ Top \subseteq acquired
          /\ Cardinality(Top) = Cardinality(First(answer, k))
          /\ RightlyNamed

\* What the recruiter is told about a short list is true: an evaluation has
\* failed, or fewer candidates than asked for have reached the threshold.
WarningIsTrue ==
  pc = "done" /\ acquired # {} /\ Proper =>
    /\ Warning = "EVALUATION_FAILURE" => selected \cap With(Failures) # {}
    /\ Warning = "INSUFFICIENT_QUALIFIED" =>
         Cardinality(acquired \cap EligibleIds(answer)) < k

\* The report at the end declares a discrepancy in four cases only: a
\* candidate left out of the pre-scores, which it takes for a selected one; a
\* failed refresh of a profile known locally, which it counts as a failure of
\* two stages; a candidate returned twice, and one returned from outside the
\* run, because the pre-scores name it so.
ReportIsExplained ==
  pc = "done" /\ acquired # {} /\ RightlyNamed =>
    (ReportPassed <=>
       /\ \A c \in With(Failures) :
             /\ Places(answer, c) # {}
             /\ ~(sync[c] = "failed" /\ profile[c] # "missing")
       /\ \A i, j \in response : answer[i].id = answer[j].id => i = j
       /\ ReturnedIds \subseteq acquired)

\* A run whose synchronization breaks its session, and may leave a torn
\* profile, scores nobody: neither the shortlist nor the response shows it.
BrokenRunIsSilent ==
  session = "broken" => <<scores, entries>> = before /\ graded = {} /\ response = {}

\* Not so: synchronization failures are isolated and do not crash the run
\* (test_pipeline_resilience.py).
SyncFailureIsolated == pc # "crashed"
=============================================================================
