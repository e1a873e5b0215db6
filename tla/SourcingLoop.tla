---------------------------- MODULE SourcingLoop ----------------------------
(***************************************************************************)
(* The sourcing service: requests that search its candidate database and,  *)
(* when too few candidates match, scrape an external resume site in up to  *)
(* MaxAttempts searches, one after the other, storing every resume in a    *)
(* transaction of its own.  Requests run concurrently, each with its own   *)
(* database session, over the one table of candidates.                     *)
(*                                                                         *)
(* A resume stands for its URL, its text, the hash of the text (unique in  *)
(* the table) and the candidate stored for it.                             *)
(***************************************************************************)
EXTENDS Naturals, Sequences, FiniteSets

CONSTANTS
  Requests,     \* the search requests that are sent
  Resumes,      \* the resumes the site may list
  Matching,     \* those whose stored candidate matches the skills or title
  Exclusions,   \* the values of exclude_candidate_ids sent
  Required,     \* required_candidates of the requests
  Places,       \* the location, is_remote and skills of the requests
  Plans,        \* the answers of the search planner
  MaxAttempts,  \* settings.MAX_SOURCING_ATTEMPTS
  MaxStale,     \* settings.MAX_CONSECUTIVE_NO_IMPROVEMENT
  NoResume,     \* the null resume
  MaxFaults     \* bound on failing inserts and restarts

RequestSkills == <<"first", "second">>
Titles == {"original", "general"}

\* Of a request: it names a location, is remote, names skills.
PlaceShape == [located : BOOLEAN, remote : BOOLEAN, skilled : BOOLEAN]

\* A title and some of the skills of the request.
PlanShape == [title : Titles, skills : {<<>>, <<"first">>, RequestSkills}]

ASSUME ConstantsOK ==
  /\ IsFiniteSet(Resumes)
  /\ Matching \subseteq Resumes
  /\ Exclusions \subseteq SUBSET Resumes
  /\ NoResume \notin Resumes
  /\ Required \in Nat \ {0}
  /\ Places \subseteq PlaceShape
  /\ Plans \subseteq PlanShape
  /\ MaxAttempts \in Nat \ {0}
  /\ MaxStale \in Nat \ {0}
  /\ MaxFaults \in Nat

VARIABLES
  stored,  \* resumes with a committed row in candidates
  rq,      \* the requests
  faults   \* failed inserts and restarts so far

vars == <<stored, rq, faults>>

Ended == {"answered", "failed", "lost"}
PCs == {"idle", "plan", "attempt", "scrape", "insert", "commit", "final"} \cup Ended
Reasons == {"none", "TARGET_SATISFIED", "NO_IMPROVEMENT", "MAX_ATTEMPTS_REACHED"}

Queries == [title : Titles, words : SUBSET {"original", "general", "first", "second"},
            located : BOOLEAN]

\* One executed or skipped attempt, as kept in attempts_history.
Entry == [skipped : BOOLEAN, found : Nat, new : Nat]

Request ==
  [pc : PCs, place : PlaceShape,
   exclude : SUBSET Resumes,   \* exclude_candidate_ids
   plan : PlanShape, seen : SUBSET Queries, history : Seq(Entry),
   existing : SUBSET Resumes,  \* counted towards the target
   processed : SUBSET Resumes, \* already scraped or rejected
   attempt : 0..MaxAttempts, best : Nat, stale : 0..MaxStale,
   todo : SUBSET Resumes,      \* listed by the search in hand, not yet scraped
   found : Nat, new : Nat,     \* and what it listed and stored
   resume : Resumes \cup {NoResume},
   held : SUBSET Resumes,      \* inserted, not yet committed
   broken : BOOLEAN,           \* a flush of the session has failed
   late : BOOLEAN,             \* the time limit of the loop has passed
   reason : Reasons, response : SUBSET Resumes]

IdleRequest ==
  [pc |-> "idle", place |-> [located |-> FALSE, remote |-> FALSE, skilled |-> FALSE], exclude |-> {},
   plan |-> [title |-> "original", skills |-> <<>>],
   existing |-> {}, processed |-> {}, seen |-> {}, history |-> <<>>,
   attempt |-> 0, best |-> 0, stale |-> 0, todo |-> {}, found |-> 0, new |-> 0,
   resume |-> NoResume, held |-> {}, broken |-> FALSE, late |-> FALSE,
   reason |-> "none", response |-> {}]

TypeOK ==
  /\ stored \subseteq Resumes
  /\ faults \in 0..MaxFaults
  /\ rq \in [Requests -> Request]
  /\ \A r \in Requests :
       /\ Len(rq[r].history) \in {rq[r].attempt, rq[r].attempt - 1}
       /\ rq[r].todo \cap rq[r].processed = {}
       /\ (rq[r].pc \in {"insert", "commit"}) = (rq[r].resume # NoResume)

Init ==
  /\ stored \in SUBSET Resumes
  /\ rq = [r \in Requests |-> IdleRequest]
  /\ faults = 0

\* search_candidates_by_skills with the exclusions of the request: what this
\* session sees is what is committed.
Found(exclude) == (stored \cap Matching) \ exclude

\* candidates[:required_candidates], in no particular order.
Selections(found) ==
  IF Cardinality(found) <= Required THEN {found}
  ELSE {s \in SUBSET found : Cardinality(s) = Required}

Remaining(q) ==
  IF Cardinality(q.existing) >= Required THEN 0
  ELSE Required - Cardinality(q.existing)

-----------------------------------------------------------------------------
(* Around the loop.                                                        *)

\* A request arrives; local candidates suffice, or sourcing is triggered.
Receive(r, place, exclude) ==
  LET q == [rq[r] EXCEPT !.place = place, !.exclude = exclude]
  IN /\ q.pc = "idle"
     /\ IF Cardinality(Found(exclude)) >= Required
        THEN \E s \in Selections(Found(exclude)) :
               rq' = [rq EXCEPT ![r] = [q EXCEPT !.pc = "answered", !.response = s]]
        ELSE rq' = [rq EXCEPT ![r] = [q EXCEPT !.pc = "plan"]]
     /\ UNCHANGED <<stored, faults>>

\* The plan is made, then the existing candidates are loaded.
Plan(r, plan) ==
  /\ rq[r].pc = "plan"
  /\ LET found == Found(rq[r].exclude)
     IN rq' = [rq EXCEPT ![r].pc = IF Cardinality(found) >= Required THEN "final"
                                   ELSE "attempt",
                         ![r].plan = plan, ![r].existing = found]
  /\ UNCHANGED <<stored, faults>>

\* The search after the loop.  In a session whose transaction a failed flush
\* has rolled back every statement raises, and the request is answered 500.
Answer(r) ==
  /\ rq[r].pc = "final"
  /\ IF rq[r].broken THEN rq' = [rq EXCEPT ![r].pc = "failed"]
     ELSE \E s \in Selections(Found(rq[r].exclude)) :
            rq' = [rq EXCEPT ![r].pc = "answered", ![r].response = s]
  /\ UNCHANGED <<stored, faults>>

-----------------------------------------------------------------------------
(* The loop: the queries.                                                  *)

\* RepresentativeSkillsStrategy: with a location (which only the first
\* attempt keeps) the title alone, otherwise the skills of the plan.
RepresentativeSkills(q, keepLocation) ==
  IF keepLocation /\ q.place.located
  THEN [title |-> "original", skills |-> <<>>, located |-> TRUE]
  ELSE [title |-> "original", skills |-> q.plan.skills, located |-> FALSE]

GeneralizedTitle(q) ==
  [title |-> q.plan.title, skills |-> q.plan.skills, located |-> FALSE]

\* The first skill of the plan, or else of the request, if there is any.
SingleCoreSkill(q) ==
  LET asked == IF q.place.skilled THEN RequestSkills ELSE <<>>
      named == IF q.plan.skills # <<>> THEN q.plan.skills ELSE asked
  IN [title |-> q.plan.title, located |-> FALSE,
      skills |-> IF named = <<>> THEN <<>> ELSE <<Head(named)>>]

TitleOnly(q) == [title |-> q.plan.title, skills |-> <<>>, located |-> FALSE]

\* get_optimized_request: the strategy is chosen by the length of the history.
Optimized(q) ==
  CASE Len(q.history) = 0 -> RepresentativeSkills(q, TRUE)
    [] Len(q.history) = 1 -> RepresentativeSkills(q, FALSE)
    [] Len(q.history) = 2 -> GeneralizedTitle(q)
    [] Len(q.history) = 3 -> SingleCoreSkill(q)
    [] OTHER              -> TitleOnly(q)

\* generate_postjobfree_search_request, normalised: the second attempt takes
\* the location of the original request; without skills q is the title.
Query(q, attempt) ==
  LET o == Optimized(q)
  IN [title   |-> o.title,
      words   |-> IF o.skills = <<>> THEN {o.title}
                  ELSE {o.skills[i] : i \in DOMAIN o.skills},
      located |-> /\ ~q.place.remote
                  /\ IF attempt = 2 THEN q.place.located ELSE o.located]

-----------------------------------------------------------------------------
(* The loop: one attempt.                                                  *)

\* Why the loop has ended.
StopReason(q) ==
  IF Remaining(q) = 0 THEN "TARGET_SATISFIED"
  ELSE IF q.stale >= MaxStale THEN "NO_IMPROVEMENT" ELSE "MAX_ATTEMPTS_REACHED"

Stopped(q) == [q EXCEPT !.pc = "final", !.reason = StopReason(q)]

MayTry(q) == Remaining(q) > 0 /\ q.attempt < MaxAttempts /\ ~q.late

\* Target reached, no attempt left, or the time limit has passed.
EndLoop(r) ==
  /\ rq[r].pc = "attempt"
  /\ ~MayTry(rq[r])
  /\ rq' = [rq EXCEPT ![r] = Stopped(@)]
  /\ UNCHANGED <<stored, faults>>

\* Mutant of SkipDuplicate: the attempt is not counted.
SkipUncounted(r) ==
  /\ rq[r].pc = "attempt"
  /\ MayTry(rq[r])
  /\ Query(rq[r], rq[r].attempt + 1) \in rq[r].seen
  /\ UNCHANGED <<stored, rq, faults>>

\* A query already made counts as an attempt and is not repeated.
SkipDuplicate(r) ==
  /\ rq[r].pc = "attempt"
  /\ MayTry(rq[r])
  /\ Query(rq[r], rq[r].attempt + 1) \in rq[r].seen
  /\ rq' = [rq EXCEPT ![r].attempt = @ + 1,
                      ![r].history = Append(@, [skipped |-> TRUE, found |-> 0, new |-> 0])]
  /\ UNCHANGED <<stored, faults>>

\* The site lists some resumes; none when the search fails.  A resume that
\* this request has processed before is passed over.
Search(r, results) ==
  LET query == Query(rq[r], rq[r].attempt + 1)
  IN /\ rq[r].pc = "attempt"
     /\ MayTry(rq[r])
     /\ query \notin rq[r].seen
     /\ rq' = [rq EXCEPT ![r].pc = "scrape", ![r].attempt = @ + 1,
                         ![r].seen = @ \cup {query},
                         ![r].todo = results \ rq[r].processed,
                         ![r].found = Cardinality(results), ![r].new = 0]
     /\ UNCHANGED <<stored, faults>>

\* Does the loop over the results take another one?
MayScrape(q) == q.pc = "scrape" /\ ~q.late /\ Remaining(q) > 0

\* Mutant of Processed: a resume listed again is scraped again.
ProcessedAgain(q, u) == [q EXCEPT !.processed = @ \cup {u}]

Processed(q, u) == [q EXCEPT !.todo = @ \ {u}, !.processed = @ \cup {u}]

\* The download, the parser or the extraction fails, or the session is
\* broken so that the look-up raises: the candidate is rejected.
Reject(r, u) ==
  /\ MayScrape(rq[r])
  /\ u \in rq[r].todo
  /\ rq' = [rq EXCEPT ![r] = Processed(@, u)]
  /\ UNCHANGED <<stored, faults>>

\* Mutant of Counted: candidates the caller excluded count as found.
CountedExcluded(q, u) ==
  [q EXCEPT !.existing = @ \cup {u},
            !.new = IF u \in q.existing THEN @ ELSE @ + 1]

\* A stored candidate counts unless it is excluded or known already.
Counted(q, u) ==
  IF u \in q.exclude \cup q.existing THEN q
  ELSE [q EXCEPT !.existing = @ \cup {u}, !.new = @ + 1]

\* get_candidate_by_resume_hash sees the rows that are committed, and those
\* of its own session.
LookUp(r, u) ==
  /\ MayScrape(rq[r])
  /\ u \in rq[r].todo
  /\ ~rq[r].broken
  /\ rq' = [rq EXCEPT ![r] =
              IF u \in stored \cup rq[r].held THEN Counted(Processed(@, u), u)
              ELSE [Processed(@, u) EXCEPT !.pc = "insert", !.resume = u]]
  /\ UNCHANGED <<stored, faults>>

\* The sessions that hold an uncommitted row with this hash.
Holders(r, u) == {s \in Requests \ {r} : u \in rq[s].held}

\* The session of a failed flush stays broken: nobody rolls it back.
Broken(q) == [q EXCEPT !.pc = "scrape", !.resume = NoResume, !.held = {},
                       !.broken = TRUE]

Inserted(q) == [q EXCEPT !.pc = "commit", !.held = @ \cup {q.resume}]

\* store_candidate: the flush waits for a concurrent insert of the same hash
\* and raises when that one is committed.
Insert(r) ==
  /\ rq[r].pc = "insert"
  /\ Holders(r, rq[r].resume) = {}
  /\ rq' = [rq EXCEPT ![r] =
              IF rq[r].resume \in stored THEN Broken(@) ELSE Inserted(@)]
  /\ UNCHANGED <<stored, faults>>

\* The flush fails for another reason, such as a value the column refuses.
InsertFails(r) ==
  /\ rq[r].pc = "insert"
  /\ faults < MaxFaults
  /\ faults' = faults + 1
  /\ rq' = [rq EXCEPT ![r] = Broken(@)]
  /\ UNCHANGED stored

\* Mutant of Commit: the row is left to the commit at the end of the request.
CommitAtEnd(r) ==
  /\ rq[r].pc = "commit"
  /\ rq' = [rq EXCEPT ![r] = [Counted(@, rq[r].resume) EXCEPT
                                !.pc = "scrape", !.resume = NoResume]]
  /\ UNCHANGED <<stored, faults>>

Commit(r) ==
  /\ rq[r].pc = "commit"
  /\ stored' = stored \cup rq[r].held
  /\ rq' = [rq EXCEPT ![r] = [Counted(@, rq[r].resume) EXCEPT
                                !.pc = "scrape", !.resume = NoResume, !.held = {}]]
  /\ UNCHANGED faults

\* Mutant of Improved: only stored candidates are progress.
ImprovedStored(q) == q.new > 0

\* Did the attempt improve the pool?
Improved(q) == q.found > q.best \/ q.new > 0

\* The results are exhausted, the target is reached or the time is up.
EndAttempt(r) ==
  /\ rq[r].pc = "scrape"
  /\ ~MayScrape(rq[r]) \/ rq[r].todo = {}
  /\ LET q == rq[r]
         n == [q EXCEPT !.pc = "attempt", !.todo = {},
                        !.stale = IF Improved(q) THEN 0 ELSE q.stale + 1,
                        !.best = IF Improved(q) /\ q.found > q.best THEN q.found
                                 ELSE q.best,
                        !.history = Append(@, [skipped |-> FALSE, found |-> q.found,
                                               new |-> q.new])]
     IN rq' = [rq EXCEPT ![r] = IF n.stale >= MaxStale THEN Stopped(n) ELSE n]
  /\ UNCHANGED <<stored, faults>>

-----------------------------------------------------------------------------
(* Time and faults.                                                        *)

\* The loop's time limit passes; it is looked at between two resumes only.
TimePasses(r) ==
  /\ rq[r].pc \in {"attempt", "scrape", "insert", "commit"}
  /\ ~rq[r].late
  /\ rq' = [rq EXCEPT ![r].late = TRUE]
  /\ UNCHANGED <<stored, faults>>

\* The service restarts: requests are lost, uncommitted rows rolled back.
Restart ==
  /\ faults < MaxFaults
  /\ faults' = faults + 1
  /\ rq' = [r \in Requests |->
              IF rq[r].pc \in Ended \cup {"idle"} THEN rq[r]
              ELSE [rq[r] EXCEPT !.pc = "lost", !.resume = NoResume, !.held = {},
                                 !.todo = {}]]
  /\ UNCHANGED stored

-----------------------------------------------------------------------------
ScrapeStep(r) ==
  \/ \E u \in Resumes : Reject(r, u) \/ LookUp(r, u)
  \/ Insert(r) \/ Commit(r) \/ EndAttempt(r)

RequestStep(r) ==
  \/ \E plan \in Plans : Plan(r, plan)
  \/ \E results \in SUBSET Resumes : Search(r, results)
  \/ SkipDuplicate(r) \/ EndLoop(r) \/ Answer(r) \/ ScrapeStep(r)

Next ==
  \/ \E r \in Requests :
       \/ \E place \in Places, exclude \in Exclusions : Receive(r, place, exclude)
       \/ RequestStep(r) \/ InsertFails(r) \/ TimePasses(r)
  \/ Restart

Spec == Init /\ [][Next]_vars

\* The event loop serves every request, and every HTTP call has a time-out.
FairSpec == Spec /\ \A r \in Requests : WF_vars(RequestStep(r))
-----------------------------------------------------------------------------
(* What the code promises.                                                 *)

\* Each resume is committed by itself: whatever a request counts towards its
\* target survives a restart of the service and a failure of its session.
CountedAreStored == \A r \in Requests : rq[r].existing \subseteq stored

\* An insert waits only for a session that is about to commit, never for one
\* that downloads the next resume or sleeps: so no two requests wait for
\* each other's rows, in whatever order they meet the same resumes.
WaitsAreShort ==
  \A r \in Requests : rq[r].pc = "insert" =>
     \A s \in Holders(r, rq[r].resume) : rq[s].pc = "commit"

\* The counting in the loop agrees with the search after it: an answer holds
\* as many candidates as the loop counted, up to those required, less those
\* that were scraped but do not match.
CountedAreReturned ==
  \A r \in Requests : rq[r].pc = "answered" =>
     LET n == Cardinality(rq[r].existing \cap Matching)
     IN Cardinality(rq[r].response) >= IF n > Required THEN Required ELSE n

\* The searches of a history, by their places: skipped ones are none; and the
\* last n of them.
Searches(h) == {i \in DOMAIN h : ~h[i].skipped}
LastSearches(h, n) ==
  {i \in Searches(h) : Cardinality({j \in Searches(h) : j > i}) < n}

\* A search that stored no new candidate, and listed no more resumes than one
\* before it.
InVain(h, i) ==
  /\ h[i].new = 0
  /\ h[i].found = 0 \/ \E j \in Searches(h) : j < i /\ h[j].found >= h[i].found

\* A loop that gives up for lack of improvement has made at least MaxStale
\* searches, skipped ones not counted, and the last MaxStale of them in vain.
GivesUpInVain ==
  \A r \in Requests : rq[r].reason = "NO_IMPROVEMENT" =>
     LET h == rq[r].history
     IN  /\ Cardinality(Searches(h)) >= MaxStale
         /\ \A i \in LastSearches(h, MaxStale) : InVain(h, i)

\* The steps of an attempt are at most these: the search, for each resume it
\* lists a look-up, an insert and a commit, and the ones around them.
Round == 3 * Cardinality(Resumes) + 3

\* What the attempts that are left may take.
ToCome(q) == (MaxAttempts - q.attempt) * Round

\* No request has more steps left than these.
StepsLeft(q) ==
  CASE q.pc = "idle"    -> ToCome(q) + 4
    [] q.pc = "plan"    -> ToCome(q) + 3
    [] q.pc = "attempt" -> ToCome(q) + 2
    [] q.pc = "scrape"  -> ToCome(q) + 3 * Cardinality(q.todo) + 3
    [] q.pc = "insert"  -> ToCome(q) + 3 * Cardinality(q.todo) + 5
    [] q.pc = "commit"  -> ToCome(q) + 3 * Cardinality(q.todo) + 4
    [] q.pc = "final"   -> 1
    [] OTHER            -> 0

\* The work of a request is bounded, whatever the site lists and however often
\* queries and resumes repeat themselves: each step of a request brings its end
\* closer, and no other request, restart or failing insert takes it away.
Closer ==
  \A r \in Requests :
     /\ StepsLeft(rq'[r]) \in Nat /\ StepsLeft(rq'[r]) <= StepsLeft(rq[r])
     /\ RequestStep(r) => StepsLeft(rq'[r]) < StepsLeft(rq[r])
WorkIsBounded == [][Closer]_vars

\* Every request is answered, whatever the site, the planner and the other
\* requests do: searches that repeat themselves use up the attempts.
EveryRequestEnds ==
  \A r \in Requests : rq[r].pc = "plan" ~> rq[r].pc \in Ended

\* Not so: TECHNICAL_DESIGN_DOCUMENT.md says that once the loop terminates the
\* sourced candidates are returned.
SourcedAreReturned ==
  \A r \in Requests : rq[r].reason # "none" => rq[r].pc # "failed"
=============================================================================
