------------------------ MODULE SourcingLoop_proofs ------------------------
(***************************************************************************)
(* Theorems about SourcingLoop for any requests, resumes, plans and bounds.*)
(***************************************************************************)
EXTENDS SourcingLoop, FiniteSetTheorems, SequenceTheorems, TLAPS

Searching == {"attempt", "scrape", "insert", "commit"}

\* s holds as many as E counts, up to those required.
Enough(E, s) ==
  LET n == Cardinality(E \cap Matching)
  IN  Cardinality(s) >= IF n > Required THEN Required ELSE n

\* The bookkeeping of one request: one entry of history per attempt, the one
\* under way excepted; a row inserted but not committed exactly at "commit".
Kept(q) ==
  /\ q.pc \in {"idle", "plan"} => q.attempt = 0 /\ q.stale = 0
  /\ q.pc \in {"idle", "plan", "attempt"} => Len(q.history) = q.attempt
  /\ q.pc \in Searching \ {"attempt"} => Len(q.history) = q.attempt - 1
  /\ Len(q.history) \in {q.attempt, q.attempt - 1}
  /\ q.pc \in Searching => q.stale < MaxStale
  /\ q.todo \cap q.processed = {}
  /\ (q.pc \in {"insert", "commit"}) = (q.resume # NoResume)
  /\ q.held = IF q.pc = "commit" THEN {q.resume} ELSE {}
  /\ q.existing \cap q.exclude = {}
  /\ q.pc \in {"idle", "plan"} => q.existing = {}
  /\ q.pc = "answered" => Enough(q.existing, q.response)

IInv ==
  /\ stored \subseteq Resumes
  /\ faults \in 0..MaxFaults
  /\ rq \in [Requests -> Request]
  /\ \A r \in Requests : Kept(rq[r]) /\ rq[r].existing \subseteq stored

\* An action that changes one request only keeps the invariant when it keeps
\* that request's own bookkeeping.
LEMMA Replace ==
  ASSUME IInv, NEW r \in Requests, NEW q \in Request, Kept(q),
         rq' = [rq EXCEPT ![r] = q],
         stored \subseteq stored', stored' \subseteq Resumes, q.existing \subseteq stored',
         faults' \in 0..MaxFaults
  PROVE  IInv'
<1>1. rq' \in [Requests -> Request] BY DEF IInv
<1>2. ASSUME NEW s \in Requests
      PROVE  Kept(rq[s])' /\ rq'[s].existing \subseteq stored'
  <2>1. rq'[s] = IF s = r THEN q ELSE rq[s] BY DEF IInv
  <2>2. CASE s = r BY <2>1, <2>2 DEF Kept
  <2>3. CASE s # r BY <2>1, <2>3 DEF Kept, IInv
  <2>4. QED BY <2>2, <2>3
<1>3. QED BY <1>1, <1>2 DEF IInv

LEMMA IdleKept == IdleRequest \in Request /\ Kept(IdleRequest)
BY ConstantsOK DEF IdleRequest, Request, PCs, Ended, PlaceShape, PlanShape, Titles,
   RequestSkills, Queries, Entry, Reasons, Kept, Searching

\* What the queries are is immaterial to the bookkeeping, their type is not.
LEMMA QueryType ==
  ASSUME NEW q \in Request, NEW n \in Nat
  PROVE  Query(q, n) \in Queries
<1> DEFINE o == Optimized(q)
<1>1. /\ q.plan \in PlanShape
      /\ q.place.located \in BOOLEAN /\ q.place.remote \in BOOLEAN
  BY DEF Request, PlaceShape
<1>2. q.plan.skills \in {<<>>, <<"first">>, RequestSkills}
  BY <1>1 DEF PlanShape
<1>3. SingleCoreSkill(q).skills \in {<<>>, <<"first">>}
  BY <1>2 DEF SingleCoreSkill, RequestSkills
<1>4. /\ o.title \in Titles /\ o.located \in BOOLEAN
      /\ o.skills \in {<<>>, <<"first">>, RequestSkills}
  BY <1>1, <1>2, <1>3 DEF Optimized, RepresentativeSkills, GeneralizedTitle,
     SingleCoreSkill, TitleOnly, PlanShape, Titles
<1>5. o.skills # <<>> =>
        {o.skills[i] : i \in DOMAIN o.skills} \subseteq {"first", "second"}
  BY <1>4 DEF RequestSkills
<1>6. QED
  BY <1>1, <1>4, <1>5 DEF Query, Queries, Titles

LEMMA CountType ==
  ASSUME NEW S \in SUBSET Resumes
  PROVE  Cardinality(S) \in Nat
BY ConstantsOK, FS_Subset, FS_CardinalityType

LEMMA LogType ==
  ASSUME NEW h \in Seq(Entry), NEW e \in Entry
  PROVE  Append(h, e) \in Seq(Entry) /\ Len(Append(h, e)) = Len(h) + 1
OBVIOUS

\* Counting a candidate that is stored.
LEMMA CountedKept ==
  ASSUME NEW q \in Request, NEW u \in Resumes
  PROVE  LET c == Counted(q, u)
         IN  /\ c \in Request
             /\ c.existing \subseteq q.existing \cup {u}
             /\ Kept(q) /\ q.pc \in {"scrape", "commit"} => Kept(c)
<1> DEFINE c == [q EXCEPT !.existing = @ \cup {u}, !.new = @ + 1]
<1>1. c \in Request
  <2>1. /\ q.new + 1 \in Nat
        /\ q.existing \cup {u} \in SUBSET Resumes
    BY DEF Request
  <2>2. ASSUME NEW e \in SUBSET Resumes, NEW n \in Nat
        PROVE  [q EXCEPT !.existing = e, !.new = n] \in Request
    BY DEF Request
  <2>3. QED BY <2>1, <2>2
<1>2. /\ c.existing = q.existing \cup {u} /\ c.exclude = q.exclude
      /\ c.pc = q.pc /\ c.attempt = q.attempt /\ c.stale = q.stale
      /\ c.history = q.history /\ c.todo = q.todo /\ c.processed = q.processed
      /\ c.resume = q.resume /\ c.held = q.held
  BY DEF Request
<1>3. Kept(q) /\ q.pc \in {"scrape", "commit"} /\ u \notin q.exclude => Kept(c)
  BY <1>2 DEF Kept
<1>4. QED
  BY <1>1, <1>2, <1>3 DEF Counted

-----------------------------------------------------------------------------
(* The actions.                                                            *)

LEMMA SelectionType ==
  ASSUME IInv, NEW e, NEW s \in Selections(Found(e))
  PROVE  Found(e) \in SUBSET Resumes /\ Found(e) \subseteq stored /\ s \in SUBSET Resumes
BY DEF IInv, Selections, Found

\* The search after the loop finds what the loop has counted.
LEMMA SelectionEnough ==
  ASSUME IInv, NEW E \in SUBSET stored, NEW e, E \cap e = {},
         NEW s \in Selections(Found(e))
  PROVE  Enough(E, s)
<1> DEFINE F == Found(e)
<1>1. IsFiniteSet(F) /\ Cardinality(F) \in Nat
  BY ConstantsOK, FS_Subset, FS_CardinalityType DEF IInv, Found
<1>2. E \cap Matching \subseteq F
  BY DEF Found
<1>3. /\ Cardinality(E \cap Matching) \in Nat
      /\ Cardinality(E \cap Matching) <= Cardinality(F)
  <2>1. E \cap Matching \in SUBSET F
    BY <1>2
  <2>2. QED
    BY <1>1, <2>1, FS_Subset, FS_CardinalityType
<1>4. Cardinality(s) = IF Cardinality(F) <= Required THEN Cardinality(F) ELSE Required
  BY DEF Selections
<1>5. QED
  BY <1>1, <1>3, <1>4, ConstantsOK DEF Enough

\* The request reaches its answer: the loop's bookkeeping is left as it was.
LEMMA ResponseKept ==
  ASSUME NEW q \in Request, Kept(q), q.pc \in {"idle", "plan", "final"},
         NEW pc \in {"answered", "failed"}, NEW s \in SUBSET Resumes,
         pc = "answered" => Enough(q.existing, s)
  PROVE  LET p == [q EXCEPT !.pc = pc, !.response = s]
         IN  p \in Request /\ Kept(p) /\ p.existing = q.existing
<1> DEFINE p == [q EXCEPT !.pc = pc, !.response = s]
<1>1. p \in Request
  BY DEF Request, PCs, Ended
<1>2. /\ p.pc = pc /\ p.existing = q.existing /\ p.exclude = q.exclude
      /\ p.response = s
      /\ p.attempt = q.attempt /\ p.stale = q.stale
      /\ p.history = q.history /\ p.todo = q.todo /\ p.processed = q.processed
      /\ p.resume = q.resume /\ p.held = q.held
  BY DEF Request
<1>3. Kept(p)
  BY <1>2 DEF Kept, Searching
<1>4. QED
  BY <1>1, <1>2, <1>3

\* The end of the loop, whatever its reason.
LEMMA StoppedKept ==
  ASSUME NEW q \in Request, Len(q.history) = q.attempt, q.todo \cap q.processed = {},
         q.resume = NoResume, q.held = {}, q.existing \cap q.exclude = {}
  PROVE  Stopped(q) \in Request /\ Kept(Stopped(q)) /\ Stopped(q).existing = q.existing
<1> DEFINE p == Stopped(q)
<1>1. StopReason(q) \in Reasons
  BY DEF StopReason, Reasons
<1>2. p \in Request
  BY <1>1 DEF Stopped, Request, PCs
<1>3. /\ p.pc = "final" /\ p.existing = q.existing /\ p.exclude = q.exclude
      /\ p.attempt = q.attempt /\ p.stale = q.stale
      /\ p.history = q.history /\ p.todo = q.todo /\ p.processed = q.processed
      /\ p.resume = q.resume /\ p.held = q.held
  BY DEF Stopped, Request
<1>4. Kept(p)
  BY <1>3 DEF Kept, Searching
<1>5. QED
  BY <1>2, <1>3, <1>4

LEMMA ReceiveKeeps ==
  ASSUME IInv, NEW r \in Requests, NEW place \in Places, NEW e \in Exclusions,
         Receive(r, place, e)
  PROVE  IInv'
<1> DEFINE q == [rq[r] EXCEPT !.place = place, !.exclude = e]
<1>1. rq[r] \in Request /\ Kept(rq[r]) /\ rq[r].existing \subseteq stored
  BY DEF IInv
<1>2. q \in Request
  <2>1. place \in PlaceShape /\ e \in SUBSET Resumes
    BY ConstantsOK
  <2>2. QED BY <1>1, <2>1 DEF Request
<1>3. /\ q.pc = rq[r].pc /\ q.existing = rq[r].existing /\ q.exclude = e
      /\ q.attempt = rq[r].attempt /\ q.stale = rq[r].stale
      /\ q.history = rq[r].history /\ q.todo = rq[r].todo
      /\ q.processed = rq[r].processed
      /\ q.resume = rq[r].resume /\ q.held = rq[r].held
  BY <1>1 DEF Request
<1>4. Kept(q) /\ q.pc = "idle"
  BY <1>1, <1>3 DEF Kept, Receive
<1>5. stored' = stored /\ faults' = faults /\ faults \in 0..MaxFaults
      /\ stored \subseteq Resumes
  BY DEF Receive, IInv
<1>6. CASE Cardinality(Found(e)) >= Required
  <2>1. PICK s \in Selections(Found(e)) :
          rq' = [rq EXCEPT ![r] = [q EXCEPT !.pc = "answered", !.response = s]]
    BY <1>6 DEF Receive
  <2>2. s \in SUBSET Resumes
    BY SelectionType
  <2> DEFINE p == [q EXCEPT !.pc = "answered", !.response = s]
  <2> HIDE DEF q
  <2>5. Enough(q.existing, s)
    BY <1>1, <1>3, <1>4, SelectionEnough DEF Kept
  <2>3. p \in Request /\ Kept(p) /\ p.existing = q.existing
    BY <1>2, <1>4, <2>2, <2>5, ResponseKept
  <2>4. QED
    BY <1>1, <1>3, <1>5, <2>1, <2>3, Replace
<1>7. CASE ~(Cardinality(Found(e)) >= Required)
  <2> DEFINE p == [q EXCEPT !.pc = "plan"]
  <2>1. rq' = [rq EXCEPT ![r] = p]
    BY <1>7 DEF Receive
  <2>2. p \in Request
    BY <1>2 DEF Request, PCs
  <2>3. /\ p.pc = "plan" /\ p.existing = q.existing /\ p.exclude = q.exclude
        /\ p.attempt = q.attempt /\ p.stale = q.stale
        /\ p.history = q.history /\ p.todo = q.todo /\ p.processed = q.processed
        /\ p.resume = q.resume /\ p.held = q.held
    BY <1>2 DEF Request
  <2>4. Kept(p)
    BY <2>3, <1>4 DEF Kept, Searching
  <2>5. QED
    BY <1>1, <1>3, <1>5, <2>1, <2>2, <2>3, <2>4, Replace
<1>8. QED
  BY <1>6, <1>7

LEMMA PlanKeeps ==
  ASSUME IInv, NEW r \in Requests, NEW plan \in Plans, Plan(r, plan)
  PROVE  IInv'
<1> DEFINE q == rq[r]
           found == Found(q.exclude)
           pc == IF Cardinality(found) >= Required THEN "final" ELSE "attempt"
           p == [q EXCEPT !.pc = pc, !.plan = plan, !.existing = found]
<1>1. /\ q \in Request /\ Kept(q) /\ q.pc = "plan"
      /\ stored' = stored /\ faults' = faults /\ faults \in 0..MaxFaults
      /\ stored \subseteq Resumes
      /\ found \subseteq stored /\ found \in SUBSET Resumes /\ found \cap q.exclude = {}
  BY DEF IInv, Plan, Found
<1>2. rq' = [rq EXCEPT ![r] = p]
  BY DEF Plan
<1>3. p \in Request
  <2>1. plan \in PlanShape /\ pc \in PCs
    BY ConstantsOK DEF PCs
  <2> HIDE DEF found, pc
  <2>2. QED BY <1>1, <2>1 DEF Request
<1>4. /\ p.pc = pc /\ p.existing = found /\ p.exclude = q.exclude
      /\ p.attempt = q.attempt /\ p.stale = q.stale
      /\ p.history = q.history /\ p.todo = q.todo /\ p.processed = q.processed
      /\ p.resume = q.resume /\ p.held = q.held
  BY <1>1 DEF Request
<1>5. Kept(p)
  <2>1. pc \in {"final", "attempt"}
    OBVIOUS
  <2> HIDE DEF found, pc, p
  <2>2. QED BY <1>4, <1>1, <2>1, ConstantsOK DEF Kept, Searching
<1>6. QED
  BY <1>1, <1>2, <1>3, <1>4, <1>5, Replace

LEMMA AnswerKeeps ==
  ASSUME IInv, NEW r \in Requests, Answer(r)
  PROVE  IInv'
<1> DEFINE q == rq[r]
<1>1. /\ q \in Request /\ Kept(q) /\ q.pc = "final" /\ q.existing \subseteq stored
      /\ stored' = stored /\ faults' = faults /\ faults \in 0..MaxFaults
      /\ stored \subseteq Resumes
  BY DEF IInv, Answer
<1>2. PICK pc \in {"answered", "failed"}, s \in SUBSET Resumes :
        /\ rq' = [rq EXCEPT ![r] = [q EXCEPT !.pc = pc, !.response = s]]
        /\ pc = "answered" => Enough(q.existing, s)
  <2>1. CASE q.broken
    <3>1. rq' = [rq EXCEPT ![r] = [q EXCEPT !.pc = "failed"]]
      BY <2>1 DEF Answer
    <3>2. [q EXCEPT !.pc = "failed"] = [q EXCEPT !.pc = "failed", !.response = q.response]
      BY <1>1 DEF Request
    <3>3. q.response \in SUBSET Resumes
      BY <1>1 DEF Request
    <3>4. QED BY <3>1, <3>2, <3>3
  <2>2. CASE ~q.broken
    <3>1. PICK s \in Selections(Found(q.exclude)) :
            rq' = [rq EXCEPT ![r] = [q EXCEPT !.pc = "answered", !.response = s]]
      BY <2>2 DEF Answer
    <3>2. s \in SUBSET Resumes
      BY SelectionType
    <3>3. Enough(q.existing, s)
      BY <1>1, SelectionEnough DEF Kept
    <3>4. QED BY <3>1, <3>2, <3>3
  <2>3. QED BY <2>1, <2>2
<1> DEFINE p == [q EXCEPT !.pc = pc, !.response = s]
<1>3. p \in Request /\ Kept(p) /\ p.existing = q.existing
  BY <1>1, <1>2, ResponseKept
<1>4. QED
  BY <1>1, <1>2, <1>3, Replace

LEMMA EndLoopKeeps ==
  ASSUME IInv, NEW r \in Requests, EndLoop(r)
  PROVE  IInv'
<1> DEFINE q == rq[r]
           p == Stopped(q)
<1>1. /\ q \in Request /\ Kept(q) /\ q.pc = "attempt" /\ q.existing \subseteq stored
      /\ stored' = stored /\ faults' = faults /\ faults \in 0..MaxFaults
      /\ stored \subseteq Resumes /\ rq' = [rq EXCEPT ![r] = p]
  BY DEF IInv, EndLoop
<1>2. p \in Request /\ Kept(p) /\ p.existing = q.existing
  BY <1>1, StoppedKept DEF Kept
<1>3. QED
  BY <1>1, <1>2, Replace

LEMMA SkipDuplicateKeeps ==
  ASSUME IInv, NEW r \in Requests, SkipDuplicate(r)
  PROVE  IInv'
<1> DEFINE q == rq[r]
           h == Append(q.history, [skipped |-> TRUE, found |-> 0, new |-> 0])
           p == [q EXCEPT !.attempt = q.attempt + 1, !.history = h]
<1>1. /\ q \in Request /\ Kept(q) /\ q.pc = "attempt" /\ q.existing \subseteq stored
      /\ stored' = stored /\ faults' = faults /\ faults \in 0..MaxFaults
      /\ stored \subseteq Resumes /\ rq' = [rq EXCEPT ![r] = p]
  BY DEF IInv, SkipDuplicate
<1>2. q.attempt < MaxAttempts /\ q.attempt \in 0..MaxAttempts /\ q.history \in Seq(Entry)
  BY <1>1 DEF SkipDuplicate, MayTry, Request
<1>3. /\ q.attempt + 1 \in 0..MaxAttempts
      /\ h \in Seq(Entry) /\ Len(h) = Len(q.history) + 1
  BY <1>2, LogType, ConstantsOK DEF Entry
<1>4. p \in Request
  <2>1. ASSUME NEW a \in 0..MaxAttempts, NEW g \in Seq(Entry)
        PROVE  [q EXCEPT !.attempt = a, !.history = g] \in Request
    BY <1>1 DEF Request
  <2>2. QED BY <1>3, <2>1
<1>5. /\ p.pc = q.pc /\ p.existing = q.existing /\ p.exclude = q.exclude
      /\ p.attempt = q.attempt + 1 /\ p.stale = q.stale
      /\ p.history = h /\ p.todo = q.todo /\ p.processed = q.processed
      /\ p.resume = q.resume /\ p.held = q.held
  BY <1>1 DEF Request
<1>6. Kept(p)
  BY <1>1, <1>2, <1>3, <1>5 DEF Kept, Searching
<1>7. QED
  BY <1>1, <1>4, <1>5, <1>6, Replace

LEMMA SearchKeeps ==
  ASSUME IInv, NEW r \in Requests, NEW results \in SUBSET Resumes, Search(r, results)
  PROVE  IInv'
<1> DEFINE q == rq[r]
           query == Query(q, q.attempt + 1)
           todo == results \ q.processed
           n == Cardinality(results)
           p == [q EXCEPT !.pc = "scrape", !.attempt = q.attempt + 1,
                          !.seen = q.seen \cup {query}, !.todo = todo,
                          !.found = n, !.new = 0]
<1>1. /\ q \in Request /\ Kept(q) /\ q.pc = "attempt" /\ q.existing \subseteq stored
      /\ stored' = stored /\ faults' = faults /\ faults \in 0..MaxFaults
      /\ stored \subseteq Resumes /\ rq' = [rq EXCEPT ![r] = p]
  BY DEF IInv, Search
<1>2. q.attempt < MaxAttempts /\ q.attempt \in 0..MaxAttempts /\ q.seen \in SUBSET Queries
  BY <1>1 DEF Search, MayTry, Request
<1>3. /\ q.attempt + 1 \in 0..MaxAttempts /\ n \in Nat /\ todo \in SUBSET Resumes
      /\ q.seen \cup {query} \in SUBSET Queries
  BY <1>1, <1>2, QueryType, CountType, ConstantsOK
<1>4. p \in Request
  <2>1. ASSUME NEW a \in 0..MaxAttempts, NEW g \in SUBSET Queries,
               NEW t \in SUBSET Resumes, NEW m \in Nat
        PROVE  [q EXCEPT !.pc = "scrape", !.attempt = a, !.seen = g, !.todo = t,
                         !.found = m, !.new = 0] \in Request
    BY <1>1 DEF Request, PCs
  <2> HIDE DEF query, todo, n
  <2>2. QED BY <1>3, <2>1
<1>5. /\ p.pc = "scrape" /\ p.existing = q.existing /\ p.exclude = q.exclude
      /\ p.attempt = q.attempt + 1 /\ p.stale = q.stale
      /\ p.history = q.history /\ p.todo = todo /\ p.processed = q.processed
      /\ p.resume = q.resume /\ p.held = q.held
  <2> HIDE DEF query, todo, n
  <2>1. QED BY <1>1 DEF Request
<1>6. Kept(p)
  BY <1>1, <1>2, <1>5 DEF Kept, Searching
<1>7. QED
  BY <1>1, <1>4, <1>5, <1>6, Replace

\* A resume is taken off the results of the search.
LEMMA ProcessedKept ==
  ASSUME NEW q \in Request, Kept(q), q.pc = "scrape", NEW u \in Resumes
  PROVE  LET p == Processed(q, u)
         IN  /\ p \in Request /\ Kept(p)
             /\ p.existing = q.existing /\ p.pc = "scrape" /\ p.held = {}
<1> DEFINE p == Processed(q, u)
<1>1. p \in Request
  BY DEF Processed, Request
<1>2. /\ p.pc = "scrape" /\ p.existing = q.existing /\ p.exclude = q.exclude
      /\ p.attempt = q.attempt /\ p.stale = q.stale
      /\ p.history = q.history /\ p.todo = q.todo \ {u}
      /\ p.processed = q.processed \cup {u}
      /\ p.resume = q.resume /\ p.held = q.held
  BY DEF Processed, Request
<1>3. q.held = {} /\ p.todo \cap p.processed = {}
  BY <1>2 DEF Kept
<1>4. Kept(p)
  BY <1>2, <1>3 DEF Kept, Searching
<1>5. QED
  BY <1>1, <1>2, <1>3, <1>4

LEMMA RejectKeeps ==
  ASSUME IInv, NEW r \in Requests, NEW u \in Resumes, Reject(r, u)
  PROVE  IInv'
<1> DEFINE q == rq[r]
           p == Processed(q, u)
<1>1. /\ q \in Request /\ Kept(q) /\ q.pc = "scrape" /\ q.existing \subseteq stored
      /\ stored' = stored /\ faults' = faults /\ faults \in 0..MaxFaults
      /\ stored \subseteq Resumes /\ rq' = [rq EXCEPT ![r] = p]
  BY DEF IInv, Reject, MayScrape
<1>2. p \in Request /\ Kept(p) /\ p.existing = q.existing
  BY <1>1, ProcessedKept
<1>3. QED
  BY <1>1, <1>2, Replace

LEMMA LookUpKeeps ==
  ASSUME IInv, NEW r \in Requests, NEW u \in Resumes, LookUp(r, u)
  PROVE  IInv'
<1> DEFINE q == rq[r]
           d == Processed(q, u)
<1>1. /\ q \in Request /\ Kept(q) /\ q.pc = "scrape" /\ q.existing \subseteq stored
      /\ stored' = stored /\ faults' = faults /\ faults \in 0..MaxFaults
      /\ stored \subseteq Resumes
  BY DEF IInv, LookUp, MayScrape
<1>2. d \in Request /\ Kept(d) /\ d.existing = q.existing /\ d.pc = "scrape" /\ d.held = {}
  BY <1>1, ProcessedKept
<1>3. q.held = {}
  BY <1>1 DEF Kept
<1>4. CASE u \in stored \cup q.held
  <2> DEFINE p == Counted(d, u)
  <2>1. rq' = [rq EXCEPT ![r] = p]
    BY <1>4 DEF LookUp
  <2>2. p \in Request /\ Kept(p) /\ p.existing \subseteq d.existing \cup {u}
    BY <1>2, CountedKept
  <2>3. p.existing \subseteq stored
    BY <1>1, <1>2, <1>3, <1>4, <2>2
  <2>4. QED
    BY <1>1, <2>1, <2>2, <2>3, Replace
<1>5. CASE u \notin stored \cup q.held
  <2> DEFINE p == [d EXCEPT !.pc = "insert", !.resume = u]
  <2>1. rq' = [rq EXCEPT ![r] = p]
    BY <1>5 DEF LookUp
  <2> HIDE DEF d
  <2>2. p \in Request
    BY <1>2 DEF Request, PCs
  <2>3. /\ p.pc = "insert" /\ p.existing = d.existing /\ p.exclude = d.exclude
        /\ p.attempt = d.attempt /\ p.stale = d.stale
        /\ p.history = d.history /\ p.todo = d.todo /\ p.processed = d.processed
        /\ p.resume = u /\ p.held = d.held
    BY <1>2 DEF Request
  <2>4. Kept(p)
    BY <1>2, <2>3, ConstantsOK DEF Kept, Searching
  <2>5. QED
    BY <1>1, <1>2, <2>1, <2>2, <2>3, <2>4, Replace
<1>6. QED
  BY <1>4, <1>5

\* A broken session holds nothing.
LEMMA BrokenKept ==
  ASSUME NEW q \in Request, Kept(q), q.pc = "insert"
  PROVE  Broken(q) \in Request /\ Kept(Broken(q)) /\ Broken(q).existing = q.existing
<1> DEFINE p == Broken(q)
<1>1. p \in Request
  BY DEF Broken, Request, PCs
<1>2. /\ p.pc = "scrape" /\ p.existing = q.existing /\ p.exclude = q.exclude
      /\ p.attempt = q.attempt /\ p.stale = q.stale
      /\ p.history = q.history /\ p.todo = q.todo /\ p.processed = q.processed
      /\ p.resume = NoResume /\ p.held = {}
  BY DEF Broken, Request
<1>3. Kept(p)
  BY <1>2 DEF Kept, Searching
<1>4. QED
  BY <1>1, <1>2, <1>3

LEMMA InsertKeeps ==
  ASSUME IInv, NEW r \in Requests, Insert(r)
  PROVE  IInv'
<1> DEFINE q == rq[r]
<1>1. /\ q \in Request /\ Kept(q) /\ q.pc = "insert" /\ q.existing \subseteq stored
      /\ stored' = stored /\ faults' = faults /\ faults \in 0..MaxFaults
      /\ stored \subseteq Resumes
  BY DEF IInv, Insert
<1>2. CASE q.resume \in stored
  <2> DEFINE p == Broken(q)
  <2>1. rq' = [rq EXCEPT ![r] = p]
    BY <1>2 DEF Insert
  <2>2. QED
    BY <1>1, <2>1, BrokenKept, Replace
<1>3. CASE q.resume \notin stored
  <2> DEFINE p == Inserted(q)
  <2>1. rq' = [rq EXCEPT ![r] = p]
    BY <1>3 DEF Insert
  <2>2. q.held = {} /\ q.resume \in Resumes
    BY <1>1 DEF Kept, Request
  <2>3. p \in Request
    BY <1>1, <2>2 DEF Inserted, Request, PCs
  <2>4. /\ p.pc = "commit" /\ p.existing = q.existing /\ p.exclude = q.exclude
        /\ p.attempt = q.attempt /\ p.stale = q.stale
        /\ p.history = q.history /\ p.todo = q.todo /\ p.processed = q.processed
        /\ p.resume = q.resume /\ p.held = {q.resume}
    BY <1>1, <2>2 DEF Inserted, Request
  <2>5. Kept(p)
    BY <1>1, <2>4 DEF Kept, Searching
  <2>6. QED
    BY <1>1, <2>1, <2>3, <2>4, <2>5, Replace
<1>4. QED
  BY <1>2, <1>3

LEMMA InsertFailsKeeps ==
  ASSUME IInv, NEW r \in Requests, InsertFails(r)
  PROVE  IInv'
<1> DEFINE q == rq[r]
           p == Broken(q)
<1>1. /\ q \in Request /\ Kept(q) /\ q.pc = "insert" /\ q.existing \subseteq stored
      /\ stored' = stored /\ stored \subseteq Resumes
      /\ rq' = [rq EXCEPT ![r] = p]
  BY DEF IInv, InsertFails
<1>2. faults' \in 0..MaxFaults
  BY ConstantsOK DEF IInv, InsertFails
<1>3. QED
  BY <1>1, <1>2, BrokenKept, Replace

LEMMA CommitKeeps ==
  ASSUME IInv, NEW r \in Requests, Commit(r)
  PROVE  IInv'
<1> DEFINE q == rq[r]
           d == Counted(q, q.resume)
           p == [d EXCEPT !.pc = "scrape", !.resume = NoResume, !.held = {}]
<1>1. /\ q \in Request /\ Kept(q) /\ q.pc = "commit" /\ q.existing \subseteq stored
      /\ stored' = stored \cup q.held /\ faults' = faults /\ faults \in 0..MaxFaults
      /\ stored \subseteq Resumes /\ rq' = [rq EXCEPT ![r] = p]
  BY DEF IInv, Commit
<1>2. q.held = {q.resume} /\ q.resume \in Resumes
  BY <1>1 DEF Kept, Request
<1>3. /\ d \in Request /\ Kept(d) /\ d.existing \subseteq q.existing \cup {q.resume}
  BY <1>1, <1>2, CountedKept
<1>4. d.pc = "commit"
  BY <1>1 DEF Counted, Request
<1> HIDE DEF d
<1>5. p \in Request
  BY <1>3 DEF Request, PCs
<1>6. /\ p.pc = "scrape" /\ p.existing = d.existing /\ p.exclude = d.exclude
      /\ p.attempt = d.attempt /\ p.stale = d.stale
      /\ p.history = d.history /\ p.todo = d.todo /\ p.processed = d.processed
      /\ p.resume = NoResume /\ p.held = {}
  BY <1>3 DEF Request
<1>7. Kept(p)
  BY <1>3, <1>4, <1>6 DEF Kept, Searching
<1>8. /\ stored \subseteq stored' /\ stored' \subseteq Resumes
      /\ p.existing \subseteq stored' /\ faults' \in 0..MaxFaults
  BY <1>1, <1>2, <1>3, <1>6
<1>9. QED
  BY <1>1, <1>5, <1>7, <1>8, Replace

LEMMA EndAttemptKeeps ==
  ASSUME IInv, NEW r \in Requests, EndAttempt(r)
  PROVE  IInv'
<1> DEFINE q == rq[r]
           stale == IF Improved(q) THEN 0 ELSE q.stale + 1
           best == IF Improved(q) /\ q.found > q.best THEN q.found ELSE q.best
           h == Append(q.history, [skipped |-> FALSE, found |-> q.found, new |-> q.new])
           n == [q EXCEPT !.pc = "attempt", !.todo = {}, !.stale = stale,
                          !.best = best, !.history = h]
<1>1. /\ q \in Request /\ Kept(q) /\ q.pc = "scrape" /\ q.existing \subseteq stored
      /\ stored' = stored /\ faults' = faults /\ faults \in 0..MaxFaults
      /\ stored \subseteq Resumes
  BY DEF IInv, EndAttempt
<1>2. rq' = [rq EXCEPT ![r] = IF n.stale >= MaxStale THEN Stopped(n) ELSE n]
  BY DEF EndAttempt
<1>3. /\ q.stale \in 0..MaxStale /\ q.stale < MaxStale /\ q.existing \cap q.exclude = {}
      /\ q.found \in Nat /\ q.best \in Nat /\ q.new \in Nat /\ q.history \in Seq(Entry)
      /\ Len(q.history) = q.attempt - 1 /\ q.attempt \in 0..MaxAttempts
      /\ q.resume = NoResume /\ q.held = {}
  BY <1>1 DEF Kept, Request, Searching
<1>4. /\ stale \in 0..MaxStale /\ best \in Nat
      /\ h \in Seq(Entry) /\ Len(h) = q.attempt
  <2>1. stale \in 0..MaxStale /\ best \in Nat
    BY <1>3, ConstantsOK
  <2>2. [skipped |-> FALSE, found |-> q.found, new |-> q.new] \in Entry
    BY <1>3 DEF Entry
  <2>3. h \in Seq(Entry) /\ Len(h) = Len(q.history) + 1
    BY <1>3, <2>2, LogType
  <2>4. QED
    BY <1>3, <2>1, <2>3, ConstantsOK
<1>5. n \in Request
  <2>1. ASSUME NEW a \in 0..MaxStale, NEW b \in Nat, NEW g \in Seq(Entry)
        PROVE  [q EXCEPT !.pc = "attempt", !.todo = {}, !.stale = a, !.best = b,
                         !.history = g] \in Request
    BY <1>1 DEF Request, PCs
  <2> HIDE DEF stale, best, h
  <2>2. QED BY <1>4, <2>1
<1>6. /\ n.pc = "attempt" /\ n.existing = q.existing /\ n.exclude = q.exclude
      /\ n.attempt = q.attempt /\ n.stale = stale
      /\ n.history = h /\ n.todo = {} /\ n.processed = q.processed
      /\ n.resume = q.resume /\ n.held = q.held
  <2> HIDE DEF stale, best, h
  <2>1. QED BY <1>1 DEF Request
<1> HIDE DEF n, stale, best, h
<1>7. CASE n.stale >= MaxStale
  <2>1. rq' = [rq EXCEPT ![r] = Stopped(n)]
    BY <1>2, <1>7
  <2>2. Stopped(n) \in Request /\ Kept(Stopped(n)) /\ Stopped(n).existing = n.existing
    BY <1>3, <1>4, <1>5, <1>6, StoppedKept
  <2>3. QED
    BY <1>1, <1>6, <2>1, <2>2, Replace
<1>8. CASE ~(n.stale >= MaxStale)
  <2>1. rq' = [rq EXCEPT ![r] = n]
    BY <1>2, <1>8
  <2>2. Kept(n)
    BY <1>3, <1>4, <1>6, <1>8, ConstantsOK DEF Kept, Searching
  <2>3. QED
    BY <1>1, <1>5, <1>6, <2>1, <2>2, Replace
<1>9. QED
  BY <1>7, <1>8

LEMMA TimePassesKeeps ==
  ASSUME IInv, NEW r \in Requests, TimePasses(r)
  PROVE  IInv'
<1> DEFINE q == rq[r]
           p == [q EXCEPT !.late = TRUE]
<1>1. /\ q \in Request /\ Kept(q) /\ q.existing \subseteq stored
      /\ q.pc \in Searching
      /\ stored' = stored /\ faults' = faults /\ faults \in 0..MaxFaults
      /\ stored \subseteq Resumes /\ rq' = [rq EXCEPT ![r] = p]
  BY DEF IInv, TimePasses, Searching
<1>2. p \in Request
  BY <1>1 DEF Request
<1>3. /\ p.pc = q.pc /\ p.existing = q.existing /\ p.exclude = q.exclude
      /\ p.attempt = q.attempt /\ p.stale = q.stale
      /\ p.history = q.history /\ p.todo = q.todo /\ p.processed = q.processed
      /\ p.resume = q.resume /\ p.held = q.held
  BY <1>1 DEF Request
<1>4. Kept(p)
  BY <1>1, <1>3 DEF Kept, Searching
<1>5. QED
  BY <1>1, <1>2, <1>3, <1>4, Replace

\* The rows a lost request held are rolled back; what it counted is stored.
LEMMA RestartKeeps ==
  ASSUME IInv, Restart
  PROVE  IInv'
<1> DEFINE p(r) == [rq[r] EXCEPT !.pc = "lost", !.resume = NoResume, !.held = {},
                                 !.todo = {}]
           over(r) == rq[r].pc \in Ended \cup {"idle"}
<1>1. /\ stored' = stored /\ stored \subseteq Resumes /\ faults' \in 0..MaxFaults
      /\ rq' = [r \in Requests |-> IF over(r) THEN rq[r] ELSE p(r)]
  <2>1. faults' = faults + 1 /\ faults < MaxFaults /\ faults \in 0..MaxFaults
    BY Zenon DEF IInv, Restart
  <2> HIDE DEF p, over
  <2>2. /\ stored' = stored /\ stored \subseteq Resumes
        /\ rq' = [r \in Requests |-> IF over(r) THEN rq[r] ELSE p(r)]
    BY Zenon DEF IInv, Restart, p, over
  <2>3. QED
    BY <2>1, <2>2, ConstantsOK
<1>2. ASSUME NEW r \in Requests
      PROVE  rq'[r] \in Request /\ Kept(rq'[r]) /\ rq'[r].existing \subseteq stored
  <2>1. rq[r] \in Request /\ Kept(rq[r]) /\ rq[r].existing \subseteq stored
    BY DEF IInv
  <2>2. CASE over(r)
    BY <1>1, <2>1, <2>2
  <2>3. CASE ~over(r)
    <3>1. rq'[r] = p(r)
      BY <1>1, <2>3
    <3>2. p(r) \in Request
      BY <2>1 DEF Request, PCs, Ended
    <3>3. /\ p(r).pc = "lost" /\ p(r).existing = rq[r].existing /\ p(r).exclude = rq[r].exclude
          /\ p(r).attempt = rq[r].attempt /\ p(r).history = rq[r].history
          /\ p(r).todo = {} /\ p(r).resume = NoResume /\ p(r).held = {}
      BY <2>1 DEF Request
    <3>4. Kept(p(r))
      BY <2>1, <3>3 DEF Kept, Searching
    <3>5. QED
      BY <2>1, <3>1, <3>2, <3>3, <3>4
  <2>4. QED BY <2>2, <2>3
<1>3. rq' \in [Requests -> Request]
  BY <1>1, <1>2
<1>4. \A r \in Requests : Kept(rq[r])' /\ rq'[r].existing \subseteq stored'
  BY <1>1, <1>2 DEF Kept
<1>5. QED
  BY <1>1, <1>3, <1>4 DEF IInv

-----------------------------------------------------------------------------
LEMMA InitEstablishes ==
  ASSUME Init
  PROVE  IInv
<1>1. \A r \in Requests : rq[r] = IdleRequest
  BY DEF Init
<1>2. rq \in [Requests -> Request]
  BY IdleKept DEF Init
<1>3. IdleRequest.existing = {}
  BY DEF IdleRequest
<1>4. QED
  BY <1>1, <1>2, <1>3, IdleKept, ConstantsOK DEF Init, IInv

LEMMA NextKeeps ==
  ASSUME IInv, [Next]_vars
  PROVE  IInv'
<1>1. CASE Restart
  BY <1>1, RestartKeeps
<1>2. CASE UNCHANGED vars
  BY <1>2 DEF vars, IInv, Kept
<1>3. ASSUME NEW r \in Requests,
             \/ \E place \in Places, e \in Exclusions : Receive(r, place, e)
             \/ \E plan \in Plans : Plan(r, plan)
             \/ \E results \in SUBSET Resumes : Search(r, results)
             \/ SkipDuplicate(r) \/ EndLoop(r) \/ Answer(r)
      PROVE  IInv'
  BY <1>3, ReceiveKeeps, PlanKeeps, SearchKeeps, SkipDuplicateKeeps, EndLoopKeeps,
     AnswerKeeps
<1>4. ASSUME NEW r \in Requests,
             \/ \E u \in Resumes : Reject(r, u) \/ LookUp(r, u)
             \/ Insert(r) \/ Commit(r) \/ EndAttempt(r)
             \/ InsertFails(r) \/ TimePasses(r)
      PROVE  IInv'
  BY <1>4, RejectKeeps, LookUpKeeps, InsertKeeps, CommitKeeps, EndAttemptKeeps,
     InsertFailsKeeps, TimePassesKeeps
<1>5. QED
  BY <1>1, <1>2, <1>3, <1>4 DEF Next, RequestStep, ScrapeStep

\* The bookkeeping of every request holds throughout.
THEOREM BookkeepingHolds == Spec => []IInv
<1>1. Init => IInv
  BY InitEstablishes
<1>2. IInv /\ [Next]_vars => IInv'
  BY NextKeeps
<1>3. QED
  BY <1>1, <1>2, PTL DEF Spec

\* The state of the sourcing requests is well typed.
THEOREM TypeCorrect == Spec => []TypeOK
<1>1. IInv => TypeOK
  BY DEF IInv, TypeOK, Kept
<1>2. QED
  BY <1>1, BookkeepingHolds, PTL

\* A candidate counted towards a target is committed: no restart and no
\* failure of a session takes it away.
THEOREM CountedStayStored == Spec => []CountedAreStored
<1>1. IInv => CountedAreStored
  BY DEF IInv, CountedAreStored
<1>2. QED
  BY <1>1, BookkeepingHolds, PTL

\* Whoever holds an uncommitted row is about to commit it: no cycle of
\* inserts that wait for each other can form.
THEOREM InsertsWaitShortly == Spec => []WaitsAreShort
<1>1. IInv => WaitsAreShort
  BY DEF IInv, Kept, WaitsAreShort, Holders
<1>2. QED
  BY <1>1, BookkeepingHolds, PTL

\* The answer of a request holds what its loop has counted.
THEOREM AnswersAgree == Spec => []CountedAreReturned
<1>1. IInv => CountedAreReturned
  BY DEF IInv, Kept, Enough, CountedAreReturned
<1>2. QED
  BY <1>1, BookkeepingHolds, PTL
-----------------------------------------------------------------------------
(* Giving up.  The counters of the loop are read off its history: best is  *)
(* the most that a search has listed, the last stale searches were made in *)
(* vain.  Only the actions that write the history can disturb this.        *)

Logged(h, stale, best) ==
  /\ \A i \in Searches(h) : h[i].found <= best
  /\ best = 0 \/ \E i \in Searches(h) : h[i].found >= best
  /\ stale <= Cardinality(Searches(h))
  /\ \A i \in LastSearches(h, stale) : InVain(h, i)

LogInv ==
  \A r \in Requests :
     /\ Logged(rq[r].history, rq[r].stale, rq[r].best)
     /\ rq[r].reason = "NO_IMPROVEMENT" => rq[r].stale >= MaxStale

SameLog(p, q) ==
  p.history = q.history /\ p.stale = q.stale /\ p.best = q.best /\ p.reason = q.reason

LEMMA SearchesFinite ==
  ASSUME NEW h \in Seq(Entry)
  PROVE  /\ Searches(h) \subseteq 1..Len(h)
         /\ \A S \in SUBSET Searches(h) : IsFiniteSet(S) /\ Cardinality(S) \in Nat
<1>1. Searches(h) \subseteq 1..Len(h)
  BY DEF Searches
<1>2. IsFiniteSet(1..Len(h))
  BY FS_Interval
<1>3. QED
  BY <1>1, <1>2, FS_Subset, FS_CardinalityType

\* A skipped attempt leaves the searches and their order as they were.
LEMMA SkippedLogged ==
  ASSUME NEW h \in Seq(Entry), NEW e \in Entry, e.skipped,
         NEW stale \in Nat, NEW best \in Nat, Logged(h, stale, best)
  PROVE  Logged(Append(h, e), stale, best)
<1> DEFINE g == Append(h, e)
<1>1. /\ DOMAIN g = 1..(Len(h) + 1) /\ g[Len(h) + 1] = e
      /\ DOMAIN h = 1..Len(h) /\ \A i \in DOMAIN h : g[i] = h[i]
  OBVIOUS
<1> HIDE DEF g
<1>2. Searches(g) = Searches(h)
  BY <1>1 DEF Searches
<1>3. \A i \in Searches(h) : g[i] = h[i]
  BY <1>1 DEF Searches
<1>4. LastSearches(g, stale) = LastSearches(h, stale)
  BY <1>2 DEF LastSearches
<1>5. \A i \in Searches(h) : InVain(h, i) => InVain(g, i)
  BY <1>2, <1>3 DEF InVain
<1>6. LastSearches(h, stale) \subseteq Searches(h)
  BY DEF LastSearches
<1>7. Logged(g, stale, best)
  BY <1>2, <1>3, <1>4, <1>5, <1>6 DEF Logged
<1>8. QED
  BY <1>7 DEF g

\* A search is added at the end: the last n + 1 searches are that one and the
\* last n before it.
LEMMA SearchAdded ==
  ASSUME NEW h \in Seq(Entry), NEW e \in Entry, ~e.skipped
  PROVE  LET g == Append(h, e)
             l == Len(h) + 1
         IN  /\ Searches(g) = Searches(h) \cup {l} /\ l \notin Searches(h)
             /\ g[l] = e /\ \A i \in Searches(h) : g[i] = h[i] /\ i < l
             /\ Cardinality(Searches(g)) = Cardinality(Searches(h)) + 1
             /\ \A n \in Nat : /\ LastSearches(g, n + 1) \subseteq LastSearches(h, n) \cup {l}
                               /\ LastSearches(g, 0) = {}
<1> DEFINE g == Append(h, e)
           l == Len(h) + 1
<1>1. /\ DOMAIN g = 1..l /\ g[l] = e
      /\ DOMAIN h = 1..Len(h) /\ \A i \in DOMAIN h : g[i] = h[i]
      /\ Len(h) \in Nat
  OBVIOUS
<1> HIDE DEF g
<1>2. /\ Searches(g) = Searches(h) \cup {l} /\ l \notin Searches(h)
      /\ \A i \in Searches(h) : g[i] = h[i] /\ i < l /\ i \in Nat
  BY <1>1 DEF Searches
<1>3. IsFiniteSet(Searches(h))
  BY SearchesFinite
<1>4. Cardinality(Searches(g)) = Cardinality(Searches(h)) + 1
  BY <1>2, <1>3, FS_AddElement
<1>5. ASSUME NEW n \in Nat, NEW i \in Searches(h),
             Cardinality({j \in Searches(g) : j > i}) < n + 1
      PROVE  Cardinality({j \in Searches(h) : j > i}) < n
  <2> DEFINE later == {j \in Searches(h) : j > i}
  <2>1. {j \in Searches(g) : j > i} = later \cup {l} /\ l \notin later
    BY <1>2
  <2>2. IsFiniteSet(later) /\ Cardinality(later) \in Nat
    BY SearchesFinite
  <2>3. Cardinality(later \cup {l}) = Cardinality(later) + 1
    BY <2>1, <2>2, FS_AddElement
  <2>4. Cardinality(later \cup {l}) < n + 1
    BY <1>5, <2>1, Zenon
  <2>5. Cardinality(later) < n
    BY <2>2, <2>3, <2>4
  <2>6. QED
    BY <2>5
<1>6. \A n \in Nat : LastSearches(g, n + 1) \subseteq LastSearches(h, n) \cup {l}
  BY <1>2, <1>5 DEF LastSearches
<1>7. LastSearches(g, 0) = {}
  <2>1. g \in Seq(Entry)
    BY LogType DEF g
  <2>2. \A i \in Searches(g) : Cardinality({j \in Searches(g) : j > i}) \in Nat
    BY <2>1, SearchesFinite
  <2>3. QED
    BY <2>2 DEF LastSearches
<1>8. QED
  BY <1>1, <1>2, <1>4, <1>6, <1>7 DEF g

\* A search that improved starts the count again, another one adds to it.
LEMMA SearchLogged ==
  ASSUME NEW q \in Request, Logged(q.history, q.stale, q.best)
  PROVE  LET e == [skipped |-> FALSE, found |-> q.found, new |-> q.new]
             stale == IF Improved(q) THEN 0 ELSE q.stale + 1
             best == IF Improved(q) /\ q.found > q.best THEN q.found ELSE q.best
         IN  Logged(Append(q.history, e), stale, best)
<1> DEFINE h == q.history
           e == [skipped |-> FALSE, found |-> q.found, new |-> q.new]
           g == Append(h, e)
           l == Len(h) + 1
           stale == IF Improved(q) THEN 0 ELSE q.stale + 1
           best == IF Improved(q) /\ q.found > q.best THEN q.found ELSE q.best
<1>1. /\ h \in Seq(Entry) /\ q.found \in Nat /\ q.new \in Nat /\ q.best \in Nat
      /\ q.stale \in Nat
  BY ConstantsOK DEF Request
<1>2. e \in Entry /\ ~e.skipped /\ e.found = q.found /\ e.new = q.new
  BY <1>1 DEF Entry
<1>3. Logged(h, q.stale, q.best)
  OBVIOUS
<1> HIDE DEF h, e
<1>4. /\ Searches(g) = Searches(h) \cup {l} /\ l \notin Searches(h)
      /\ g[l] = e /\ \A i \in Searches(h) : g[i] = h[i] /\ i < l
      /\ Cardinality(Searches(g)) = Cardinality(Searches(h)) + 1
      /\ LastSearches(g, 0) = {}
      /\ LastSearches(g, q.stale + 1) \subseteq LastSearches(h, q.stale) \cup {l}
  BY <1>1, <1>2, SearchAdded
<1>5. Cardinality(Searches(h)) \in Nat
  BY <1>1, SearchesFinite
<1>6. \A i \in Searches(h) : h[i].found \in Nat
  <2>1. \A i \in Searches(h) : h[i] \in Entry
    BY <1>1 DEF Searches
  <2>2. QED
    BY <2>1 DEF Entry
<1> HIDE DEF g, l
<1>7. \A i \in Searches(h) : InVain(h, i) => InVain(g, i)
  BY <1>4 DEF InVain
<1>8. best \in Nat /\ best >= q.best /\ best >= q.found
  BY <1>1 DEF Improved
<1>9. \A i \in Searches(g) : g[i].found <= best
  BY <1>1, <1>2, <1>3, <1>4, <1>6, <1>8 DEF Logged
<1>10. best = 0 \/ \E i \in Searches(g) : g[i].found >= best
  <2>1. CASE q.found > q.best
    BY <1>1, <1>2, <1>4, <2>1
  <2>2. CASE ~(q.found > q.best)
    BY <1>3, <1>4, <2>2 DEF Logged
  <2>3. QED BY <2>1, <2>2
<1>11. ASSUME Improved(q)
       PROVE  Logged(g, stale, best)
  <2>1. stale = 0
    BY <1>11
  <2>2. 0 <= Cardinality(Searches(g)) /\ LastSearches(g, stale) = {}
    BY <1>4, <1>5, <2>1
  <2> HIDE DEF stale, best
  <2>3. QED
    BY <1>9, <1>10, <2>1, <2>2 DEF Logged
<1>12. ASSUME ~Improved(q)
       PROVE  Logged(g, stale, best)
  <2>1. stale = q.stale + 1 /\ q.new = 0 /\ q.found <= q.best
    BY <1>1, <1>12 DEF Improved
  <2>2. InVain(g, l)
    <3>1. CASE q.found = 0
      BY <1>2, <1>4, <2>1, <3>1 DEF InVain
    <3>2. CASE q.found # 0
      <4>1. PICK j \in Searches(h) : h[j].found >= q.best
        BY <1>1, <1>3, <2>1, <3>2 DEF Logged
      <4>2. j \in Searches(g) /\ j < l /\ g[j].found >= q.found
        BY <1>1, <1>4, <1>6, <2>1, <4>1
      <4>3. QED
        BY <1>2, <1>4, <2>1, <4>2 DEF InVain
    <3>3. QED BY <3>1, <3>2
  <2>3. \A i \in LastSearches(g, stale) : InVain(g, i)
    <3>1. LastSearches(h, q.stale) \subseteq Searches(h)
      BY DEF LastSearches
    <3>2. QED
      BY <1>3, <1>4, <1>7, <2>1, <2>2, <3>1 DEF Logged
  <2>4. stale <= Cardinality(Searches(g))
    BY <1>1, <1>3, <1>4, <1>5, <2>1 DEF Logged
  <2> HIDE DEF stale, best
  <2>5. QED
    BY <1>9, <1>10, <2>3, <2>4 DEF Logged
<1>13. QED
  BY <1>11, <1>12 DEF g, h, e

\* An action that leaves the log and the reason of every request alone keeps
\* LogInv.
LEMMA LogUntouched ==
  ASSUME LogInv, \A r \in Requests : SameLog(rq'[r], rq[r])
  PROVE  LogInv'
BY DEF LogInv, SameLog

LEMMA OneSame ==
  ASSUME rq \in [Requests -> Request], NEW s \in Requests, NEW q,
         rq' = [rq EXCEPT ![s] = q], SameLog(q, rq[s])
  PROVE  \A r \in Requests : SameLog(rq'[r], rq[r])
<1>1. \A r \in Requests : rq'[r] = IF r = s THEN q ELSE rq[r]
  OBVIOUS
<1>2. QED
  BY <1>1 DEF SameLog

\* Only three actions write the history, the counters or the reason.
LEMMA FrontLog ==
  ASSUME rq \in [Requests -> Request], NEW s \in Requests,
         \/ \E place \in Places, e \in Exclusions : Receive(s, place, e)
         \/ \E plan \in Plans : Plan(s, plan)
         \/ \E results \in SUBSET Resumes : Search(s, results)
         \/ Answer(s) \/ TimePasses(s) \/ InsertFails(s) \/ Restart \/ UNCHANGED vars
  PROVE  \A r \in Requests : SameLog(rq'[r], rq[r])
<1> USE DEF SameLog
<1>1. ASSUME NEW place \in Places, NEW e \in Exclusions, Receive(s, place, e)
      PROVE  \A r \in Requests : SameLog(rq'[r], rq[r])
  <2> DEFINE q == [rq[s] EXCEPT !.place = place, !.exclude = e]
  <2>1. q \in Request /\ SameLog(q, rq[s])
    <3>1. /\ place \in PlaceShape /\ e \in SUBSET Resumes
          /\ rq[s] \in Request
      BY ConstantsOK
    <3>2. QED BY <3>1 DEF Request
  <2>2. \A n, t : SameLog([q EXCEPT !.pc = n], q)
                  /\ SameLog([q EXCEPT !.pc = n, !.response = t], q)
    <3> HIDE DEF q
    <3>1. QED BY <2>1 DEF Request
  <2>3. \/ \E n, t : rq' = [rq EXCEPT ![s] = [q EXCEPT !.pc = n, !.response = t]]
        \/ \E n : rq' = [rq EXCEPT ![s] = [q EXCEPT !.pc = n]]
    <3>1. CASE Cardinality(Found(e)) >= Required
      BY <1>1, <3>1, Zenon DEF Receive
    <3>2. CASE ~(Cardinality(Found(e)) >= Required)
      BY <1>1, <3>2, Zenon DEF Receive
    <3>3. QED BY <3>1, <3>2
  <2> HIDE DEF q, SameLog
  <2>4. PICK p : rq' = [rq EXCEPT ![s] = p] /\ SameLog(p, q)
    BY <2>2, <2>3, Zenon
  <2>5. SameLog(p, rq[s])
    BY <2>1, <2>4 DEF SameLog
  <2>6. QED
    BY <2>4, <2>5, OneSame
<1>2. ASSUME NEW plan \in Plans, Plan(s, plan)
      PROVE  \A r \in Requests : SameLog(rq'[r], rq[r])
  <2> DEFINE n == IF Cardinality(Found(rq[s].exclude)) >= Required THEN "final"
                  ELSE "attempt"
             q == [rq[s] EXCEPT !.pc = n, !.plan = plan, !.existing = Found(rq[s].exclude)]
  <2>1. rq' = [rq EXCEPT ![s] = q]
    BY <1>2 DEF Plan
  <2>2. SameLog(q, rq[s])
    <3> HIDE DEF n
    <3>1. QED BY DEF Request
  <2> HIDE DEF SameLog, q
  <2>3. QED
    BY <2>1, <2>2, OneSame
<1>3. ASSUME NEW results \in SUBSET Resumes, Search(s, results)
      PROVE  \A r \in Requests : SameLog(rq'[r], rq[r])
  <2> DEFINE query == Query(rq[s], rq[s].attempt + 1)
             q == [rq[s] EXCEPT !.pc = "scrape", !.attempt = @ + 1, !.seen = @ \cup {query},
                                !.todo = results \ rq[s].processed,
                                !.found = Cardinality(results), !.new = 0]
  <2>1. rq' = [rq EXCEPT ![s] = q]
    BY <1>3 DEF Search
  <2>2. SameLog(q, rq[s])
    <3> HIDE DEF query
    <3>1. QED BY DEF Request
  <2> HIDE DEF SameLog, q
  <2>3. QED
    BY <2>1, <2>2, OneSame
<1>4. ASSUME Answer(s)
      PROVE  \A r \in Requests : SameLog(rq'[r], rq[r])
  <2>1. \A n, t : SameLog([rq[s] EXCEPT !.pc = n], rq[s])
                  /\ SameLog([rq[s] EXCEPT !.pc = n, !.response = t], rq[s])
    BY DEF Request
  <2>2. \/ \E n, t : rq' = [rq EXCEPT ![s] = [rq[s] EXCEPT !.pc = n, !.response = t]]
        \/ \E n : rq' = [rq EXCEPT ![s] = [rq[s] EXCEPT !.pc = n]]
    <3>1. CASE rq[s].broken
      <4>1. rq' = [rq EXCEPT ![s] = [rq[s] EXCEPT !.pc = "failed"]]
        BY <1>4, <3>1 DEF Answer
      <4>2. QED BY <4>1, Zenon
    <3>2. CASE ~rq[s].broken
      <4>1. PICK t : rq' = [rq EXCEPT ![s] = [rq[s] EXCEPT !.pc = "answered", !.response = t]]
        BY <1>4, <3>2 DEF Answer
      <4>2. QED BY <4>1, Zenon
    <3>3. QED BY <3>1, <3>2
  <2> HIDE DEF SameLog
  <2>3. PICK q : rq' = [rq EXCEPT ![s] = q] /\ SameLog(q, rq[s])
    BY <2>1, <2>2, Zenon
  <2>4. QED
    BY <2>3, OneSame
<1>5. ASSUME TimePasses(s)
      PROVE  \A r \in Requests : SameLog(rq'[r], rq[r])
  BY <1>5 DEF TimePasses, Request
<1>6. ASSUME InsertFails(s)
      PROVE  \A r \in Requests : SameLog(rq'[r], rq[r])
  BY <1>6 DEF InsertFails, Broken, Request
<1>7. ASSUME Restart
      PROVE  \A r \in Requests : SameLog(rq'[r], rq[r])
  BY <1>7 DEF Restart, Request
<1>8. ASSUME UNCHANGED vars
      PROVE  \A r \in Requests : SameLog(rq'[r], rq[r])
  BY <1>8 DEF vars
<1>9. QED
  BY <1>1, <1>2, <1>3, <1>4, <1>5, <1>6, <1>7, <1>8

LEMMA ScrapeLog ==
  ASSUME rq \in [Requests -> Request], NEW s \in Requests,
         \/ \E u \in Resumes : Reject(s, u) \/ LookUp(s, u)
         \/ Insert(s) \/ Commit(s)
  PROVE  \A r \in Requests : SameLog(rq'[r], rq[r])
<1> USE DEF SameLog
<1>1. ASSUME NEW u \in Resumes, Reject(s, u)
      PROVE  \A r \in Requests : SameLog(rq'[r], rq[r])
  BY <1>1 DEF Reject, Processed, Request
<1>2. ASSUME NEW u \in Resumes, LookUp(s, u)
      PROVE  \A r \in Requests : SameLog(rq'[r], rq[r])
  <2> DEFINE d == Processed(rq[s], u)
             p == [d EXCEPT !.pc = "insert", !.resume = u]
  <2>1. d \in Request /\ SameLog(d, rq[s])
    <3>1. rq[s] \in Request
      OBVIOUS
    <3>2. QED BY <3>1 DEF Processed, Request
  <2> HIDE DEF d
  <2>2. SameLog(Counted(d, u), d) /\ SameLog(p, d)
    BY <2>1 DEF Counted, Request
  <2>3. \/ rq' = [rq EXCEPT ![s] = Counted(d, u)]
        \/ rq' = [rq EXCEPT ![s] = p]
    BY <1>2 DEF LookUp, d
  <2>4. SameLog(Counted(d, u), rq[s]) /\ SameLog(p, rq[s])
    BY <2>1, <2>2
  <2> HIDE DEF SameLog, p
  <2>5. QED
    BY <2>3, <2>4, OneSame
<1>3. ASSUME Insert(s)
      PROVE  \A r \in Requests : SameLog(rq'[r], rq[r])
  BY <1>3 DEF Insert, Broken, Inserted, Request
<1>4. ASSUME Commit(s)
      PROVE  \A r \in Requests : SameLog(rq'[r], rq[r])
  BY <1>4 DEF Commit, Counted, Request
<1>5. QED
  BY <1>1, <1>2, <1>3, <1>4

\* The actions that do.
LEMMA LogReplace ==
  ASSUME rq \in [Requests -> Request], LogInv, NEW s \in Requests, NEW q,
         rq' = [rq EXCEPT ![s] = q],
         Logged(q.history, q.stale, q.best),
         q.reason = "NO_IMPROVEMENT" => q.stale >= MaxStale
  PROVE  LogInv'
<1>1. \A r \in Requests : rq'[r] = IF r = s THEN q ELSE rq[r]
  OBVIOUS
<1>2. QED
  BY <1>1 DEF LogInv

LEMMA SkipDuplicateLog ==
  ASSUME IInv, LogInv, NEW s \in Requests, SkipDuplicate(s)
  PROVE  LogInv'
<1> DEFINE q == rq[s]
           e == [skipped |-> TRUE, found |-> 0, new |-> 0]
           h == Append(q.history, e)
           p == [q EXCEPT !.attempt = q.attempt + 1, !.history = h]
<1>1. /\ q \in Request /\ rq \in [Requests -> Request]
      /\ Logged(q.history, q.stale, q.best)
      /\ q.reason = "NO_IMPROVEMENT" => q.stale >= MaxStale
      /\ rq' = [rq EXCEPT ![s] = p]
  BY DEF IInv, LogInv, SkipDuplicate
<1>2. /\ q.history \in Seq(Entry) /\ q.stale \in Nat /\ q.best \in Nat
      /\ e \in Entry /\ e.skipped
  BY <1>1, ConstantsOK DEF Request, Entry
<1>3. Logged(h, q.stale, q.best)
  BY <1>1, <1>2, SkippedLogged
<1>4. p.history = h /\ p.stale = q.stale /\ p.best = q.best /\ p.reason = q.reason
  BY <1>1 DEF Request
<1> HIDE DEF p, h
<1>5. QED
  BY <1>1, <1>3, <1>4, LogReplace

LEMMA StoppedLog ==
  ASSUME NEW q \in Request
  PROVE  LET p == Stopped(q)
         IN  /\ p.history = q.history /\ p.stale = q.stale /\ p.best = q.best
             /\ p.reason = "NO_IMPROVEMENT" => p.stale >= MaxStale
BY DEF Stopped, StopReason, Request

LEMMA EndLoopLog ==
  ASSUME IInv, LogInv, NEW s \in Requests, EndLoop(s)
  PROVE  LogInv'
<1> DEFINE p == Stopped(rq[s])
<1>1. /\ rq[s] \in Request /\ rq \in [Requests -> Request]
      /\ Logged(rq[s].history, rq[s].stale, rq[s].best)
      /\ rq' = [rq EXCEPT ![s] = p]
  BY DEF IInv, LogInv, EndLoop
<1>2. /\ Logged(p.history, p.stale, p.best)
      /\ p.reason = "NO_IMPROVEMENT" => p.stale >= MaxStale
  BY <1>1, StoppedLog
<1> HIDE DEF p
<1>3. QED
  BY <1>1, <1>2, LogReplace

LEMMA EndAttemptLog ==
  ASSUME IInv, LogInv, NEW s \in Requests, EndAttempt(s)
  PROVE  LogInv'
<1> DEFINE q == rq[s]
           stale == IF Improved(q) THEN 0 ELSE q.stale + 1
           best == IF Improved(q) /\ q.found > q.best THEN q.found ELSE q.best
           h == Append(q.history, [skipped |-> FALSE, found |-> q.found, new |-> q.new])
           n == [q EXCEPT !.pc = "attempt", !.todo = {}, !.stale = stale,
                          !.best = best, !.history = h]
<1>1. /\ q \in Request /\ rq \in [Requests -> Request] /\ Kept(q) /\ q.pc = "scrape"
      /\ Logged(q.history, q.stale, q.best)
      /\ q.reason = "NO_IMPROVEMENT" => q.stale >= MaxStale
      /\ rq' = [rq EXCEPT ![s] = IF n.stale >= MaxStale THEN Stopped(n) ELSE n]
  BY DEF IInv, LogInv, EndAttempt
<1>2. Logged(h, stale, best)
  BY <1>1, SearchLogged
<1>3. q.stale < MaxStale /\ q.stale \in Nat /\ q.best \in Nat /\ q.found \in Nat
      /\ q.new \in Nat /\ q.history \in Seq(Entry)
  BY <1>1, ConstantsOK DEF Kept, Searching, Request
<1>4. q.reason # "NO_IMPROVEMENT"
  BY <1>1, <1>3, ConstantsOK
<1>5. stale \in 0..MaxStale /\ best \in Nat /\ h \in Seq(Entry)
  <2>1. [skipped |-> FALSE, found |-> q.found, new |-> q.new] \in Entry
    BY <1>3 DEF Entry
  <2>2. QED
    BY <1>3, <2>1, LogType, ConstantsOK
<1> HIDE DEF stale, best, h
<1>6. /\ n \in Request
      /\ n.history = h /\ n.stale = stale /\ n.best = best /\ n.reason = q.reason
  BY <1>1, <1>5 DEF Request, PCs
<1> HIDE DEF n
<1>7. CASE n.stale >= MaxStale
  <2>1. /\ Logged(Stopped(n).history, Stopped(n).stale, Stopped(n).best)
        /\ Stopped(n).reason = "NO_IMPROVEMENT" => Stopped(n).stale >= MaxStale
    BY <1>2, <1>6, StoppedLog
  <2>2. QED
    BY <1>1, <1>7, <2>1, LogReplace
<1>8. CASE ~(n.stale >= MaxStale)
  BY <1>1, <1>2, <1>4, <1>6, <1>8, LogReplace
<1>9. QED
  BY <1>7, <1>8

LEMMA LogInit ==
  ASSUME Init
  PROVE  LogInv
<1>1. Searches(<<>>) = {}
  BY DEF Searches
<1>2. Logged(<<>>, 0, 0)
  BY <1>1, FS_EmptySet DEF Logged, LastSearches
<1>3. \A r \in Requests : /\ rq[r].history = <<>> /\ rq[r].stale = 0 /\ rq[r].best = 0
                          /\ rq[r].reason = "none"
  BY DEF Init, IdleRequest
<1>4. QED
  BY <1>2, <1>3 DEF LogInv

LEMMA LogNext ==
  ASSUME IInv, LogInv, [Next]_vars
  PROVE  LogInv'
<1>1. rq \in [Requests -> Request]
  BY DEF IInv
<1>2. CASE Restart \/ UNCHANGED vars
  <2>1. ASSUME NEW s \in Requests
        PROVE  SameLog(rq'[s], rq[s])
    BY <1>1, <1>2, FrontLog
  <2>2. QED
    BY <2>1, LogUntouched
<1>3. ASSUME NEW s \in Requests,
             \/ \E place \in Places, e \in Exclusions : Receive(s, place, e)
             \/ \E plan \in Plans : Plan(s, plan)
             \/ \E results \in SUBSET Resumes : Search(s, results)
             \/ Answer(s) \/ TimePasses(s) \/ InsertFails(s)
      PROVE  LogInv'
  BY <1>1, <1>3, FrontLog, LogUntouched
<1>4. ASSUME NEW s \in Requests,
             \/ \E u \in Resumes : Reject(s, u) \/ LookUp(s, u)
             \/ Insert(s) \/ Commit(s)
      PROVE  LogInv'
  BY <1>1, <1>4, ScrapeLog, LogUntouched
<1>5. ASSUME NEW s \in Requests, SkipDuplicate(s) \/ EndLoop(s) \/ EndAttempt(s)
      PROVE  LogInv'
  BY <1>5, SkipDuplicateLog, EndLoopLog, EndAttemptLog
<1>6. QED
  BY <1>2, <1>3, <1>4, <1>5 DEF Next, RequestStep, ScrapeStep

\* The counters of the loop agree with its history throughout.
THEOREM CountersAgree == Spec => []LogInv
<1>1. Init => LogInv
  BY LogInit
<1>2. IInv /\ LogInv /\ [Next]_vars => LogInv'
  BY LogNext
<1>3. QED
  BY <1>1, <1>2, BookkeepingHolds, PTL DEF Spec

\* A loop gives up for lack of improvement only after MaxStale searches in
\* vain, one after the other, whatever it skipped between them.
THEOREM GivingUpIsInVain == Spec => []GivesUpInVain
<1>1. IInv /\ LogInv => GivesUpInVain
  <2> SUFFICES ASSUME IInv, LogInv, NEW r \in Requests, rq[r].reason = "NO_IMPROVEMENT"
               PROVE  LET h == rq[r].history
                      IN  /\ Cardinality(Searches(h)) >= MaxStale
                          /\ \A i \in LastSearches(h, MaxStale) : InVain(h, i)
    BY DEF GivesUpInVain
  <2> DEFINE h == rq[r].history
  <2>1. /\ Logged(h, rq[r].stale, rq[r].best) /\ rq[r].stale >= MaxStale
        /\ rq[r].stale \in 0..MaxStale
    BY DEF IInv, LogInv, Request
  <2>2. rq[r].stale = MaxStale
    BY <2>1, ConstantsOK
  <2>3. h \in Seq(Entry)
    BY DEF IInv, Request
  <2>4. Cardinality(Searches(h)) \in Nat
    BY <2>3, SearchesFinite
  <2>5. QED
    BY <2>1, <2>2, <2>4, ConstantsOK DEF Logged
<1>2. QED
  BY <1>1, BookkeepingHolds, CountersAgree, PTL
=============================================================================
