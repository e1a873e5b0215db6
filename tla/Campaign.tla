------------------------------ MODULE Campaign ------------------------------
(***************************************************************************)
(* One job description and its table pipeline, under the concurrent        *)
(* requests of the recruiter, of the hiring manager and of the scoring     *)
(* runs (ScoringService, ScoringRepository, JobDescriptionService).        *)
(*                                                                         *)
(* The engines run in AUTOCOMMIT, so every statement is a step and nothing *)
(* is rolled back.  A session reads a row with SELECT and writes it later  *)
(* with an UPDATE by primary key of the attributes that differ from what   *)
(* it read (Flush); an UPDATE of a row deleted meanwhile raises.           *)
(***************************************************************************)
EXTENDS Naturals, FiniteSets

CONSTANTS
  Candidates,
  NoEmail,         \* candidates without a valid e-mail address
  Recruiters,      \* concurrent requests of the recruiter
  Managers,        \* concurrent requests of the hiring manager
  Scorers,         \* concurrent runs of the scoring pipeline, or rescores
  NoCandidate,
  RecruiterKinds,  \* the kinds of request the recruiter makes
  ManagerKinds     \* the kinds of request the hiring manager makes

ASSUME ConstantsOK ==
  /\ NoEmail \subseteq Candidates /\ NoCandidate \notin Candidates
  /\ RecruiterKinds \subseteq {"share", "update", "notes"}
  /\ ManagerKinds \subseteq {"review", "schedule", "end", "reopen"}
  /\ Recruiters \cap Managers = {}
  /\ Scorers \cap (Recruiters \cup Managers) = {}

VARIABLES
  jd,      \* code of job_descriptions.status_id
  listed,  \* candidates with a row in pipeline
  manual,  \* those whose row was inserted by hand, before any score
  entry,   \* the review attributes of the rows (Blank where there is none)
  scored,  \* candidates with a row in candidate_job_scores
  invited, \* candidates an interview invitation was e-mailed to
  locked,  \* runs whose row of scoring_tasks is PENDING or RUNNING
  sess     \* the database sessions of the requests and runs

rows == <<jd, listed, manual, entry, scored>>
vars == <<rows, invited, locked, sess>>

Sessions  == Recruiters \cup Managers \cup Scorers
Decisions == {"PENDING", "INTERVIEW_SENT", "REJECTED"}

\* shared_with_hiring_manager, hm_decision, hiring_manager_notes, and the
\* interview_* attributes, which are only written together.
Entry == [shared : {"no", "yes"}, decision : Decisions,
          notes : {"none", "some"}, interview : {"none", "sent"}]

\* The defaults of a new row.
Blank == [shared |-> "no", decision |-> "PENDING", notes |-> "none",
          interview |-> "none"]

ScorerKinds == {"run", "rescore"}
PCs == {"idle", "begun", "reset", "read", "mark", "look", "unshare", "score",
        "scores", "entries", "prune", "pruneNext", "activate", "email", "write",
        "close"}

Session ==
  [kind : {"none"} \cup RecruiterKinds \cup ManagerKinds \cup ScorerKinds, pc : PCs,
   sel : SUBSET Candidates,  \* candidates selected to share, or scored
   todo : SUBSET Candidates, \* those of them still to be handled
   cand : Candidates \cup {NoCandidate}, \* the candidate in hand,
   row : {"none", "held", "gone"},       \* whether its row was read and exists,
   read : Entry]                         \* and what was read

NoSession == [kind |-> "none", pc |-> "idle", sel |-> {}, todo |-> {},
              cand |-> NoCandidate, row |-> "none", read |-> Blank]

TypeOK ==
  /\ jd \in {"DRAFT", "ACTIVE", "CLOSED"}
  /\ listed \subseteq Candidates
  /\ manual \subseteq listed
  /\ entry \in [Candidates -> Entry]
  /\ \A c \in Candidates \ listed : entry[c] = Blank
  /\ scored \subseteq Candidates
  /\ invited \subseteq Candidates
  /\ locked \subseteq Scorers
  /\ sess \in [Sessions -> Session]

\* create_job_description: a DRAFT without candidates.
Init ==
  /\ jd = "DRAFT"
  /\ listed = {}
  /\ manual = {}
  /\ entry = [c \in Candidates |-> Blank]
  /\ scored = {}
  /\ invited = {}
  /\ locked = {}
  /\ sess = [s \in Sessions |-> NoSession]

-----------------------------------------------------------------------------
(* Sessions.                                                               *)

At(s, kind, pc) == sess[s].kind = kind /\ sess[s].pc = pc

GoTo(s, pc) == sess' = [sess EXCEPT ![s].pc = pc]

Close(s) == sess' = [sess EXCEPT ![s] = NoSession]

\* The SELECT of the row of candidate c.
Hold(s, c, pc) ==
  sess' = [sess EXCEPT ![s].cand = c, ![s].row = "held", ![s].read = entry[c],
                       ![s].pc = pc]

\* Mutant of Flush: the whole row is saved.
FlushRow(old, read, new) == new

\* The UPDATE that a flush issues for an object of the session.
Flush(old, read, new) ==
  [f \in DOMAIN old |-> IF new[f] = read[f] THEN old[f] ELSE new[f]]

\* Session s flushes the row it holds, with the attributes of new.
Save(s, new) ==
  /\ sess[s].row = "held"
  /\ entry' = [entry EXCEPT ![sess[s].cand] = Flush(@, sess[s].read, new)]

Kinds(s) == (IF s \in Recruiters THEN RecruiterKinds ELSE {})
            \cup (IF s \in Managers THEN ManagerKinds ELSE {})
            \cup (IF s \in Scorers THEN ScorerKinds ELSE {})

\* Mutant of Admits: a share or a run does not look at the status.
AdmitsClosed(kind) ==
  CASE kind = "reopen"                      -> jd = "CLOSED"
    [] kind \in {"schedule", "share", "run"} -> TRUE
    [] OTHER                                -> jd # "CLOSED"

\* What a request requires of the job description's status.
\* schedule_interview does not look at it.
Admits(kind) ==
  CASE kind = "reopen"   -> jd = "CLOSED"
    [] kind = "schedule" -> TRUE
    [] OTHER             -> jd # "CLOSED"

\* A request or run of an authorised user reads the job description; a run
\* has inserted its row of scoring_tasks.
Begin(s, kind) ==
  /\ sess[s] = NoSession
  /\ kind \in Kinds(s)
  /\ Admits(kind)
  /\ sess' = [sess EXCEPT ![s].kind = kind, ![s].pc = "begun"]
  /\ locked' = IF kind = "run" THEN locked \cup {s} ELSE locked
  /\ UNCHANGED <<rows, invited>>

\* A rejection, a preview, an exception or the death of the process: what
\* was written stays.
Ends(s) ==
  /\ sess[s].pc # "idle"
  /\ Close(s)
  /\ locked' = locked \ {s}
  /\ UNCHANGED <<rows, invited>>

\* recover_stale_tasks marks the task of a slow run FAILED (ScoringTask.tla).
PresumeLost(s) ==
  /\ s \in locked
  /\ locked' = locked \ {s}
  /\ UNCHANGED <<rows, invited, sess>>

-----------------------------------------------------------------------------
(* The recruiter.                                                          *)

\* validate_candidates_belong_to_job.
ShareValidate(s, S) ==
  /\ At(s, "share", "begun")
  /\ S \subseteq listed
  /\ sess' = [sess EXCEPT ![s].pc = "reset", ![s].sel = S, ![s].todo = S]
  /\ UNCHANGED <<rows, invited, locked>>

\* One UPDATE of all rows of the job description.
ShareReset(s) ==
  /\ At(s, "share", "reset")
  /\ entry' = [c \in Candidates |-> [entry[c] EXCEPT !.shared = "no"]]
  /\ GoTo(s, "read")
  /\ UNCHANGED <<jd, listed, manual, scored, invited, locked>>

\* The SELECT for a selected candidate, whose row may be deleted by now.
ShareRead(s, c) ==
  /\ At(s, "share", "read")
  /\ c \in sess[s].todo
  /\ sess' = [sess EXCEPT
                ![s].todo = @ \ {c},
                ![s].pc = IF c \in listed THEN "mark" ELSE "read",
                ![s].cand = IF c \in listed THEN c ELSE NoCandidate,
                ![s].row = IF c \in listed THEN "held" ELSE "none",
                ![s].read = entry[c]]
  /\ UNCHANGED <<rows, invited, locked>>

\* Its flush, before the next SELECT or at the end.
ShareMark(s) ==
  /\ At(s, "share", "mark")
  /\ Save(s, [sess[s].read EXCEPT !.shared = "yes", !.decision = "PENDING",
                                  !.notes = "none"])
  /\ sess' = [sess EXCEPT ![s].pc = "read", ![s].row = "none"]
  /\ UNCHANGED <<jd, listed, manual, scored, invited, locked>>

\* The request is answered, after the best-effort notification.
ShareDone(s) ==
  /\ At(s, "share", "read")
  /\ sess[s].todo = {}
  /\ Close(s)
  /\ UNCHANGED <<rows, invited, locked>>

\* update_job_description: refused while a task is active; the attributes
\* and skills are saved, and scoring-relevant ones have changed (else Ends).
UpdateUnlocked(s) ==
  /\ At(s, "update", "begun")
  /\ locked = {}
  /\ GoTo(s, "look")
  /\ UNCHANGED <<rows, invited, locked>>

ReviewStarted(e) ==
  e.decision # "PENDING" \/ e.notes = "some" \/ e.interview = "sent"

\* The rows are read: a shortlist nobody has started to review is withdrawn.
UpdateLook(s) ==
  /\ At(s, "update", "look")
  /\ LET shared == {c \in listed : entry[c].shared = "yes"}
     IN  shared # {} /\ \A c \in shared : ~ReviewStarted(entry[c])
  /\ GoTo(s, "unshare")
  /\ UNCHANGED <<rows, invited, locked>>

UpdateUnshare(s) ==
  /\ At(s, "update", "unshare")
  /\ entry' = [c \in Candidates |-> [entry[c] EXCEPT !.shared = "no"]]
  /\ Close(s)
  /\ UNCHANGED <<jd, listed, manual, scored, invited, locked>>

\* update_pipeline_notes or bulk_update_pipeline_stage for one candidate:
\* a missing row is inserted; neither notes nor stage is part of Entry.
ListByHand(s, c) ==
  /\ At(s, "notes", "begun")
  /\ c \notin listed
  /\ listed' = listed \cup {c}
  /\ manual' = manual \cup {c}
  /\ UNCHANGED <<jd, entry, scored, invited, locked, sess>>

RecruiterStep(s) ==
  \/ \E S \in SUBSET Candidates : ShareValidate(s, S)
  \/ \E c \in Candidates : ShareRead(s, c) \/ ListByHand(s, c)
  \/ ShareReset(s) \/ ShareMark(s) \/ ShareDone(s)
  \/ UpdateUnlocked(s) \/ UpdateLook(s) \/ UpdateUnshare(s)

-----------------------------------------------------------------------------
(* Scoring runs: what pipeline_prescore_and_score and rescore_candidate    *)
(* write.  The persistence is never rolled back.                           *)

\* Nobody was acquired: the status is all that is written.
NobodyAcquired(s) ==
  /\ At(s, "run", "begun")
  /\ GoTo(s, "activate")
  /\ UNCHANGED <<rows, invited, locked>>

\* Nobody passed the pre-score threshold: everything is stale.
NobodySelected(s) ==
  /\ At(s, "run", "begun")
  /\ GoTo(s, "prune")
  /\ UNCHANGED <<rows, invited, locked>>

\* score_candidates_for_job_description authorises once more.
Reauthorise(s) ==
  /\ sess[s].kind \in ScorerKinds /\ sess[s].pc = "begun"
  /\ jd # "CLOSED"
  /\ GoTo(s, "score")
  /\ UNCHANGED <<rows, invited, locked>>

\* The language model has answered for the candidates in S.
Scored(s, S) ==
  /\ sess[s].kind \in ScorerKinds /\ sess[s].pc = "score"
  /\ sess[s].kind = "rescore" => Cardinality(S) <= 1
  /\ sess' = [sess EXCEPT ![s].sel = S, ![s].todo = S,
                ![s].pc = IF S # {} THEN "scores"
                          ELSE IF sess[s].kind = "run" THEN "prune" ELSE "activate"]
  /\ UNCHANGED <<rows, invited, locked>>

\* upsert_candidate_scores, one candidate.
UpsertScore(s, c) ==
  /\ sess[s].pc = "scores"
  /\ c \in sess[s].todo
  /\ scored' = scored \cup {c}
  /\ sess' = [sess EXCEPT ![s].pc = IF sess[s].todo = {c} THEN "entries" ELSE @,
                          ![s].todo = IF @ = {c} THEN sess[s].sel ELSE @ \ {c}]
  /\ UNCHANGED <<jd, listed, manual, entry, invited, locked>>

\* upsert_pipeline_entries, one candidate: an existing row keeps all but its
\* stage.  Only a pipeline run (context is not None) prunes afterwards.
UpsertEntry(s, c) ==
  /\ sess[s].pc = "entries"
  /\ c \in sess[s].todo
  /\ listed' = listed \cup {c}
  /\ sess' = [sess EXCEPT ![s].pc = IF sess[s].todo # {c} THEN @
                                    ELSE IF sess[s].kind = "run" THEN "prune"
                                    ELSE "activate",
                          ![s].todo = @ \ {c}]
  /\ UNCHANGED <<jd, manual, entry, scored, invited, locked>>

\* Mutant of DeleteEntries: a deleted row leaves its review behind.
DeleteEntriesSoftly(s, next) ==
  /\ listed' = listed \cap sess[s].sel
  /\ manual' = manual \cap sess[s].sel
  /\ GoTo(s, next)
  /\ UNCHANGED <<entry, scored>>

\* delete_stale_candidate_scores_and_pipelines: the rows of pipeline that
\* the run did not select, under the feet of sessions that hold them...
DeleteEntries(s, next) ==
  LET kept == listed \cap sess[s].sel
  IN  /\ listed' = kept
      /\ manual' = manual \cap kept
      /\ entry' = [c \in Candidates |-> IF c \in kept THEN entry[c] ELSE Blank]
      /\ sess' = [t \in Sessions |->
                    IF t = s THEN [sess[s] EXCEPT !.pc = next]
                    ELSE IF sess[t].row = "held" /\ sess[t].cand \notin kept
                         THEN [sess[t] EXCEPT !.row = "gone"]
                         ELSE sess[t]]
      /\ scored' = scored

\* ... and those of candidate_job_scores.
DeleteScores(s, next) ==
  /\ scored' = scored \cap sess[s].sel
  /\ GoTo(s, next)
  /\ UNCHANGED <<listed, manual, entry>>

\* Mutant of Prune: the scores are deleted first.
PruneScoresFirst(s) ==
  /\ \/ sess[s].pc = "prune" /\ DeleteScores(s, "pruneNext")
     \/ sess[s].pc = "pruneNext" /\ DeleteEntries(s, "activate")
  /\ UNCHANGED <<jd, invited, locked>>

\* Pipeline rows are deleted before the scores.
Prune(s) ==
  /\ \/ sess[s].pc = "prune" /\ DeleteEntries(s, "pruneNext")
     \/ sess[s].pc = "pruneNext" /\ DeleteScores(s, "activate")
  /\ UNCHANGED <<jd, invited, locked>>

\* _transition_to_active_if_needed, whatever the status is; the run is over
\* and its task recorded as SUCCESS.
Activate(s) ==
  /\ sess[s].pc = "activate"
  /\ jd' = "ACTIVE"
  /\ Close(s)
  /\ locked' = locked \ {s}
  /\ UNCHANGED <<listed, manual, entry, scored, invited>>

ScorerStep(s) ==
  \/ \E S \in SUBSET Candidates : Scored(s, S)
  \/ \E c \in Candidates : UpsertScore(s, c) \/ UpsertEntry(s, c)
  \/ NobodyAcquired(s) \/ NobodySelected(s) \/ Reauthorise(s)
  \/ Prune(s) \/ Activate(s) \/ PresumeLost(s)

-----------------------------------------------------------------------------
(* The hiring manager.                                                     *)

\* submit_hm_review and schedule_interview read the row of a shared candidate.
ReadShared(s, c) ==
  /\ sess[s].kind \in {"review", "schedule"} /\ sess[s].pc = "begun"
  /\ c \in listed
  /\ entry[c].shared = "yes"
  /\ Hold(s, c, IF sess[s].kind = "review" THEN "write" ELSE "email")
  /\ UNCHANGED <<rows, invited, locked>>

\* The decision and the remarks of the request.
ReviewWrite(s) ==
  /\ At(s, "review", "write")
  /\ \E d \in Decisions, n \in {"none", "some"} :
        Save(s, [sess[s].read EXCEPT !.decision = d, !.notes = n])
  /\ Close(s)
  /\ UNCHANGED <<jd, listed, manual, scored, invited, locked>>

\* Mutant of SendInvitation: the mail is left to a later job.
SendInvitationLater(s) ==
  /\ At(s, "schedule", "email")
  /\ invited' = invited
  /\ GoTo(s, "write")
  /\ UNCHANGED <<rows, locked>>

\* The invitation is e-mailed, or skipped without a valid address; the row
\* is held meanwhile.
SendInvitation(s) ==
  /\ At(s, "schedule", "email")
  /\ invited' = invited \cup ({sess[s].cand} \ NoEmail)
  /\ GoTo(s, "write")
  /\ UNCHANGED <<rows, locked>>

ScheduleWrite(s) ==
  /\ At(s, "schedule", "write")
  /\ Save(s, [sess[s].read EXCEPT !.decision = "INTERVIEW_SENT", !.interview = "sent"])
  /\ Close(s)
  /\ UNCHANGED <<jd, listed, manual, scored, invited, locked>>

Undecided == {c \in listed : entry[c].shared = "yes" /\ entry[c].decision = "PENDING"}

\* end_campaign reads the rows...
EndCheck(s) ==
  /\ At(s, "end", "begun")
  /\ Undecided = {}
  /\ GoTo(s, "close")
  /\ UNCHANGED <<rows, invited, locked>>

\* ... and then sets the status.
EndClose(s) ==
  /\ At(s, "end", "close")
  /\ jd' = "CLOSED"
  /\ Close(s)
  /\ UNCHANGED <<listed, manual, entry, scored, invited, locked>>

Reopen(s) ==
  /\ At(s, "reopen", "begun")
  /\ jd' = "ACTIVE"
  /\ Close(s)
  /\ UNCHANGED <<listed, manual, entry, scored, invited, locked>>

ManagerStep(s) ==
  \/ \E c \in Candidates : ReadShared(s, c)
  \/ ReviewWrite(s) \/ SendInvitation(s) \/ ScheduleWrite(s)
  \/ EndCheck(s) \/ EndClose(s) \/ Reopen(s)

-----------------------------------------------------------------------------

AnyKind == RecruiterKinds \cup ManagerKinds \cup ScorerKinds

Next ==
  \/ \E s \in Sessions : Ends(s) \/ \E kind \in AnyKind : Begin(s, kind)
  \/ \E s \in Recruiters : RecruiterStep(s)
  \/ \E s \in Scorers : ScorerStep(s)
  \/ \E s \in Managers : ManagerStep(s)

Spec == Init /\ [][Next]_vars
-----------------------------------------------------------------------------
(* What the code promises.                                                 *)

\* Interview details appear on a row only after the invitation went out, or
\* was skipped because the candidate has no valid address: step 5 of
\* schedule_interview ("Only AFTER successful email dispatch").
InvitationFirst ==
  \A c \in listed : entry[c].interview = "sent" => c \in invited \cup NoEmail

\* The hiring manager's list joins pipeline with candidate_job_scores: a row
\* that scoring has inserted never outlives its score, whenever a run stops,
\* unless two runs of one job description overlap.
ListedIsScored ==
  (\A s, t \in Scorers : s = t) => listed \ manual \subseteq scored

Shared == {c \in listed : entry[c].shared = "yes"}

\* When a share of the only recruiter session is answered, exactly the
\* selected candidates still listed are shared, although the hiring manager's
\* requests, begun before the share or during it, write the same rows.
SharedAsSelected ==
  [][\A s \in Recruiters :
       (Recruiters = {s} /\ Scorers = {} /\ ShareDone(s)) => Shared = sess[s].sel]_vars

\* May s still write rows that a closed campaign should keep?
Writing(s) == /\ sess[s].pc # "idle"
              /\ sess[s].kind \notin {"schedule", "end", "reopen"}

\* Once a campaign is CLOSED nobody new gets to write it, and when the last
\* writer that came before is gone it is frozen but for interviews: it stays
\* CLOSED until the hiring manager reopens it.
ClosedStays ==
  jd = "CLOSED" =>
    /\ \A s \in Sessions : Writing(s)' => Writing(s)
    /\ (\A s \in Sessions : ~Writing(s)) =>
         /\ jd' # "CLOSED" => \E s \in Managers : At(s, "reopen", "begun")
         /\ listed' = listed /\ scored' = scored
         /\ \A c \in listed :
              /\ entry'[c].shared = entry[c].shared
              /\ entry'[c].decision \in {entry[c].decision, "INTERVIEW_SENT"}
ClosedFrozen == [][ClosedStays]_vars

\* Not so: a CLOSED campaign is reopened by the hiring manager only
\* (APPLICATION_WORKFLOW.md: a run moves a DRAFT to ACTIVE).
ReopenedByManager ==
  [][jd = "CLOSED" /\ jd' = "ACTIVE" =>
        \E s \in Managers : At(s, "reopen", "begun")]_vars

\* Not so: all shared candidates of a CLOSED campaign are decided
\* (end_campaign: "All shared candidates must be decided").
ClosedIsDecided == jd = "CLOSED" => Undecided = {}
=============================================================================
