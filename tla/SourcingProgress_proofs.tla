----------------------- MODULE SourcingProgress_proofs -----------------------
(***************************************************************************)
(* Theorem: the work of every request of SourcingLoop is bounded.          *)
(***************************************************************************)
EXTENDS SourcingLoop_proofs

LEMMA Sizes ==
  ASSUME NEW q \in Request
  PROVE  /\ Cardinality(q.todo) \in Nat
         /\ Cardinality(q.todo) <= Cardinality(Resumes)
         /\ Cardinality(Resumes) \in Nat /\ Round \in Nat /\ ToCome(q) \in Nat
<1>1. q.todo \subseteq Resumes /\ q.attempt \in 0..MaxAttempts
  BY DEF Request
<1>2. /\ Cardinality(q.todo) \in Nat /\ Cardinality(Resumes) \in Nat
      /\ Cardinality(q.todo) <= Cardinality(Resumes)
  BY <1>1, ConstantsOK, FS_Subset, FS_CardinalityType
<1>3. Round \in Nat
  BY <1>2 DEF Round
<1>4. MaxAttempts - q.attempt \in Nat
  BY <1>1, ConstantsOK
<1> HIDE DEF Round
<1>5. \A m, n \in Nat : m * n \in Nat
  OBVIOUS
<1>6. ToCome(q) \in Nat
  BY <1>3, <1>4, <1>5 DEF ToCome
<1>7. QED
  BY <1>2, <1>3, <1>6

\* A new attempt takes a round of what was to come.
LEMMA NextRound ==
  ASSUME NEW p \in Request, NEW q \in Request, q.attempt = p.attempt + 1
  PROVE  ToCome(p) = ToCome(q) + Round
<1> DEFINE n == MaxAttempts - q.attempt
<1>1. n \in Nat /\ MaxAttempts - p.attempt = n + 1
  <2>1. p.attempt \in 0..MaxAttempts /\ q.attempt \in 0..MaxAttempts
    BY DEF Request
  <2>2. QED
    BY <2>1, ConstantsOK
<1>2. Round \in Nat
  BY Sizes
<1> HIDE DEF n, Round
<1>3. \A i, k \in Nat : (i + 1) * k = i * k + k
  OBVIOUS
<1>4. QED
  BY <1>1, <1>2, <1>3 DEF ToCome, n

\* The measure at each place of the program.
LEMMA Measured ==
  ASSUME NEW q \in Request
  PROVE  /\ q.pc = "idle" => StepsLeft(q) = ToCome(q) + 4
         /\ q.pc = "plan" => StepsLeft(q) = ToCome(q) + 3
         /\ q.pc = "attempt" => StepsLeft(q) = ToCome(q) + 2
         /\ q.pc = "scrape" => StepsLeft(q) = ToCome(q) + 3 * Cardinality(q.todo) + 3
         /\ q.pc = "insert" => StepsLeft(q) = ToCome(q) + 3 * Cardinality(q.todo) + 5
         /\ q.pc = "commit" => StepsLeft(q) = ToCome(q) + 3 * Cardinality(q.todo) + 4
         /\ q.pc = "final" => StepsLeft(q) = 1
         /\ q.pc \in Ended => StepsLeft(q) = 0
         /\ StepsLeft(q) \in Nat
         /\ q.pc \notin Ended => StepsLeft(q) > 0
<1> DEFINE n == ToCome(q)
           c == Cardinality(q.todo)
<1>1. n \in Nat /\ c \in Nat /\ q.pc \in PCs
  BY Sizes DEF Request
<1>2. StepsLeft(q) =
        CASE q.pc = "idle"    -> n + 4
          [] q.pc = "plan"    -> n + 3
          [] q.pc = "attempt" -> n + 2
          [] q.pc = "scrape"  -> n + 3 * c + 3
          [] q.pc = "insert"  -> n + 3 * c + 5
          [] q.pc = "commit"  -> n + 3 * c + 4
          [] q.pc = "final"   -> 1
          [] OTHER            -> 0
  BY DEF StepsLeft
<1> HIDE DEF n, c
<1>3. QED
  BY <1>1, <1>2 DEF PCs, Ended, n, c

\* A step within an attempt lowers the measure ...
LEMMA Forward ==
  ASSUME NEW p \in Request, NEW q \in Request, q.attempt = p.attempt,
         \/ p.pc = "idle" /\ q.pc = "plan"
         \/ p.pc = "plan" /\ q.pc = "attempt"
         \/ p.pc = "scrape" /\ q.pc = "attempt"
         \/ /\ p.pc = "scrape" /\ q.pc \in {"scrape", "insert"}
            /\ \E u \in p.todo : q.todo = p.todo \ {u}
         \/ p.pc = "insert" /\ q.pc \in {"scrape", "commit"} /\ q.todo = p.todo
         \/ p.pc = "commit" /\ q.pc = "scrape" /\ q.todo = p.todo
  PROVE  StepsLeft(q) < StepsLeft(p)
<1> DEFINE n == ToCome(p)
           c == Cardinality(p.todo)
           d == Cardinality(q.todo)
<1>1. n \in Nat /\ c \in Nat /\ d \in Nat /\ ToCome(q) = n
  BY Sizes DEF ToCome
<1>2. ASSUME NEW u \in p.todo, q.todo = p.todo \ {u}
      PROVE  d = c - 1
  <2>1. IsFiniteSet(p.todo)
    BY ConstantsOK, FS_Subset DEF Request
  <2>2. QED
    BY <1>2, <2>1, FS_RemoveElement
<1>3. q.todo = p.todo => d = c
  OBVIOUS
<1> HIDE DEF n, c, d
<1>4. CASE p.pc = "idle" /\ q.pc = "plan"
  BY <1>1, <1>4, Measured DEF n
<1>5. CASE p.pc = "plan" /\ q.pc = "attempt"
  BY <1>1, <1>5, Measured DEF n
<1>6. CASE p.pc = "scrape" /\ q.pc = "attempt"
  BY <1>1, <1>6, Measured DEF n, c
<1>7. CASE /\ p.pc = "scrape" /\ q.pc \in {"scrape", "insert"}
           /\ \E u \in p.todo : q.todo = p.todo \ {u}
  <2>1. PICK u \in p.todo : q.todo = p.todo \ {u}
    BY <1>7
  <2>2. d = c - 1
    BY <1>2, <2>1
  <2>3. StepsLeft(p) = n + 3 * c + 3
    BY <1>7, Measured DEF n, c
  <2>4. StepsLeft(q) \in {n + 3 * d + 3, n + 3 * d + 5}
    BY <1>1, <1>7, Measured DEF d
  <2>5. QED
    BY <1>1, <2>2, <2>3, <2>4
<1>8. CASE p.pc = "insert" /\ q.pc \in {"scrape", "commit"} /\ q.todo = p.todo
  BY <1>1, <1>3, <1>8, Measured DEF n, c, d
<1>9. CASE p.pc = "commit" /\ q.pc = "scrape" /\ q.todo = p.todo
  BY <1>1, <1>3, <1>9, Measured DEF n, c, d
<1>10. QED
  BY <1>4, <1>5, <1>6, <1>7, <1>8, <1>9

\* ... so does the beginning of another one, searched or skipped ...
LEMMA Begun ==
  ASSUME NEW p \in Request, NEW q \in Request, q.attempt = p.attempt + 1,
         p.pc = "attempt", q.pc \in {"attempt", "scrape"}
  PROVE  StepsLeft(q) < StepsLeft(p)
<1>1. ToCome(p) = ToCome(q) + Round
  BY NextRound
<1>2. /\ ToCome(q) \in Nat /\ Cardinality(Resumes) \in Nat /\ Cardinality(q.todo) \in Nat
      /\ Cardinality(q.todo) <= Cardinality(Resumes)
  BY Sizes
<1>3. CASE q.pc = "attempt"
  BY <1>1, <1>2, <1>3, Measured DEF Round
<1>4. CASE q.pc = "scrape"
  BY <1>1, <1>2, <1>4, Measured DEF Round
<1>5. QED
  BY <1>3, <1>4

\* ... and the end of the loop or of the request.
LEMMA Finished ==
  ASSUME NEW p \in Request, NEW q \in Request,
         \/ q.pc = "final" /\ p.pc \in {"plan", "attempt", "scrape"}
         \/ q.pc \in Ended /\ p.pc \notin Ended
  PROVE  StepsLeft(q) < StepsLeft(p)
<1>1. /\ ToCome(p) \in Nat /\ Cardinality(p.todo) \in Nat
      /\ StepsLeft(p) \in Nat /\ StepsLeft(q) \in Nat
  BY Sizes, Measured
<1>2. CASE q.pc = "final" /\ p.pc \in {"plan", "attempt", "scrape"}
  BY <1>1, <1>2, Measured
<1>3. CASE q.pc \in Ended /\ p.pc \notin Ended
  BY <1>1, <1>3, Measured
<1>4. QED
  BY <1>2, <1>3

-----------------------------------------------------------------------------
(* The steps.                                                              *)

LEMMA PlanLowers ==
  ASSUME IInv, IInv', NEW r \in Requests, NEW plan \in Plans, Plan(r, plan)
  PROVE  StepsLeft(rq'[r]) < StepsLeft(rq[r])
<1>1. rq[r] \in Request /\ rq'[r] \in Request /\ rq \in [Requests -> Request]
  BY DEF IInv
<1>2. /\ rq[r].pc = "plan" /\ rq'[r].pc \in {"final", "attempt"}
      /\ rq'[r].attempt = rq[r].attempt
  BY <1>1 DEF Plan, Request
<1>3. QED
  BY <1>1, <1>2, Forward, Finished

LEMMA AttemptLowers ==
  ASSUME IInv, IInv', NEW r \in Requests,
         SkipDuplicate(r) \/ \E results \in SUBSET Resumes : Search(r, results)
  PROVE  StepsLeft(rq'[r]) < StepsLeft(rq[r])
<1>1. rq[r] \in Request /\ rq'[r] \in Request /\ rq \in [Requests -> Request]
  BY DEF IInv
<1>2. CASE SkipDuplicate(r)
  <2>1. /\ rq[r].pc = "attempt" /\ rq'[r].pc = "attempt"
        /\ rq'[r].attempt = rq[r].attempt + 1
    BY <1>1, <1>2 DEF SkipDuplicate, Request
  <2>2. QED
    BY <1>1, <2>1, Begun
<1>3. ASSUME NEW results \in SUBSET Resumes, Search(r, results)
      PROVE  StepsLeft(rq'[r]) < StepsLeft(rq[r])
  <2>1. /\ rq[r].pc = "attempt" /\ rq'[r].pc = "scrape"
        /\ rq'[r].attempt = rq[r].attempt + 1
    BY <1>1, <1>3 DEF Search, Request
  <2>2. QED
    BY <1>1, <2>1, Begun
<1>4. QED
  BY <1>2, <1>3

LEMMA EndLowers ==
  ASSUME IInv, IInv', NEW r \in Requests, EndLoop(r) \/ Answer(r) \/ EndAttempt(r)
  PROVE  StepsLeft(rq'[r]) < StepsLeft(rq[r])
<1>1. rq[r] \in Request /\ rq'[r] \in Request /\ rq \in [Requests -> Request]
  BY DEF IInv
<1>2. CASE EndLoop(r)
  <2>1. rq[r].pc = "attempt" /\ rq'[r].pc = "final"
    BY <1>1, <1>2 DEF EndLoop, Stopped, Request
  <2>2. QED
    BY <1>1, <2>1, Finished
<1>3. CASE Answer(r)
  <2>1. rq[r].pc = "final" /\ rq'[r].pc \in {"failed", "answered"}
    BY <1>1, <1>3 DEF Answer, Request
  <2>2. QED
    BY <1>1, <2>1, Finished DEF Ended
<1>4. CASE EndAttempt(r)
  <2> DEFINE q == rq[r]
             n == [q EXCEPT !.pc = "attempt", !.todo = {},
                        !.stale = IF Improved(q) THEN 0 ELSE q.stale + 1,
                        !.best = IF Improved(q) /\ q.found > q.best THEN q.found
                                 ELSE q.best,
                        !.history = Append(@, [skipped |-> FALSE, found |-> q.found,
                                               new |-> q.new])]
  <2>1. rq[r].pc = "scrape" /\ rq'[r] = IF n.stale >= MaxStale THEN Stopped(n) ELSE n
    BY <1>1, <1>4 DEF EndAttempt
  <2>2. n.pc = "attempt" /\ n.attempt = rq[r].attempt /\ Stopped(n).pc = "final"
    BY <1>1 DEF Stopped, Request
  <2>3. QED
    BY <1>1, <2>1, <2>2, Forward, Finished
<1>5. QED
  BY <1>2, <1>3, <1>4

LEMMA ResumeLowers ==
  ASSUME IInv, IInv', NEW r \in Requests, NEW u \in Resumes, Reject(r, u) \/ LookUp(r, u)
  PROVE  StepsLeft(rq'[r]) < StepsLeft(rq[r])
<1>1. rq[r] \in Request /\ rq'[r] \in Request /\ rq \in [Requests -> Request]
  BY DEF IInv
<1> DEFINE d == Processed(rq[r], u)
<1>2. /\ rq[r].pc = "scrape" /\ u \in rq[r].todo
      /\ d.pc = "scrape" /\ d.attempt = rq[r].attempt /\ d.todo = rq[r].todo \ {u}
  BY <1>1 DEF Reject, LookUp, MayScrape, Processed, Request
<1>3. d \in Request
  BY <1>1 DEF Processed, Request
<1> HIDE DEF d
<1>4. /\ rq'[r].pc \in {"scrape", "insert"}
      /\ rq'[r].attempt = d.attempt /\ rq'[r].todo = d.todo
  <2>1. \/ rq'[r] = d \/ rq'[r] = Counted(d, u)
        \/ rq'[r] = [d EXCEPT !.pc = "insert", !.resume = u]
    BY <1>1 DEF Reject, LookUp, d
  <2>2. CASE rq'[r] = d
    BY <1>2, <2>2
  <2>3. CASE rq'[r] = Counted(d, u)
    BY <1>2, <1>3, <2>3 DEF Counted, Request
  <2>4. CASE rq'[r] = [d EXCEPT !.pc = "insert", !.resume = u]
    BY <1>3, <2>4 DEF Request
  <2>5. QED
    BY <2>1, <2>2, <2>3, <2>4
<1>5. QED
  BY <1>1, <1>2, <1>4, Forward

LEMMA StoreLowers ==
  ASSUME IInv, IInv', NEW r \in Requests, Insert(r) \/ InsertFails(r) \/ Commit(r)
  PROVE  StepsLeft(rq'[r]) < StepsLeft(rq[r])
<1>1. rq[r] \in Request /\ rq'[r] \in Request /\ rq \in [Requests -> Request]
  BY DEF IInv
<1>2. CASE Insert(r) \/ InsertFails(r)
  <2>1. rq[r].pc = "insert" /\ (rq'[r] = Broken(rq[r]) \/ rq'[r] = Inserted(rq[r]))
    BY <1>1, <1>2 DEF Insert, InsertFails
  <2>2. /\ rq'[r].pc \in {"scrape", "commit"}
        /\ rq'[r].attempt = rq[r].attempt /\ rq'[r].todo = rq[r].todo
    BY <1>1, <2>1 DEF Broken, Inserted, Request
  <2>3. QED
    BY <1>1, <2>1, <2>2, Forward
<1>3. CASE Commit(r)
  <2> DEFINE d == Counted(rq[r], rq[r].resume)
  <2>1. /\ rq[r].pc = "commit"
        /\ rq'[r] = [d EXCEPT !.pc = "scrape", !.resume = NoResume, !.held = {}]
    BY <1>1, <1>3 DEF Commit
  <2>2. d.attempt = rq[r].attempt /\ d.todo = rq[r].todo
    BY <1>1 DEF Counted, Request
  <2>3. /\ rq'[r].pc = "scrape" /\ rq'[r].attempt = d.attempt /\ rq'[r].todo = d.todo
    BY <1>1, <2>1 DEF Counted, Request
  <2>4. QED
    BY <1>1, <2>1, <2>2, <2>3, Forward
<1>4. QED
  BY <1>2, <1>3

LEMMA RequestStepLowers ==
  ASSUME IInv, IInv', NEW r \in Requests, RequestStep(r)
  PROVE  StepsLeft(rq'[r]) < StepsLeft(rq[r])
<1>1. CASE \E plan \in Plans : Plan(r, plan)
  BY <1>1, PlanLowers
<1>2. CASE SkipDuplicate(r) \/ \E results \in SUBSET Resumes : Search(r, results)
  BY <1>2, AttemptLowers
<1>3. CASE EndLoop(r) \/ Answer(r) \/ EndAttempt(r)
  BY <1>3, EndLowers
<1>4. CASE \E u \in Resumes : Reject(r, u) \/ LookUp(r, u)
  BY <1>4, ResumeLowers
<1>5. CASE Insert(r) \/ Commit(r)
  BY <1>5, StoreLowers
<1>6. QED
  BY <1>1, <1>2, <1>3, <1>4, <1>5 DEF RequestStep, ScrapeStep

\* The arrival of the request, its time limit and a failing insert.
LEMMA OtherStepNotRaises ==
  ASSUME IInv, IInv', NEW r \in Requests,
         \/ \E place \in Places, e \in Exclusions : Receive(r, place, e)
         \/ TimePasses(r) \/ InsertFails(r)
  PROVE  StepsLeft(rq'[r]) <= StepsLeft(rq[r])
<1>1. rq[r] \in Request /\ rq'[r] \in Request /\ rq \in [Requests -> Request]
  BY DEF IInv
<1>2. StepsLeft(rq[r]) \in Nat /\ StepsLeft(rq'[r]) \in Nat
  BY <1>1, Measured
<1>3. ASSUME NEW place \in Places, NEW e \in Exclusions, Receive(r, place, e)
      PROVE  StepsLeft(rq'[r]) < StepsLeft(rq[r])
  <2> DEFINE q == [rq[r] EXCEPT !.place = place, !.exclude = e]
  <2>1. q.pc = rq[r].pc /\ q.attempt = rq[r].attempt /\ q.pc = "idle"
    BY <1>1, <1>3 DEF Receive, Request
  <2>2. \/ \E s \in Selections(Found(e)) :
               rq' = [rq EXCEPT ![r] = [q EXCEPT !.pc = "answered", !.response = s]]
        \/ rq' = [rq EXCEPT ![r] = [q EXCEPT !.pc = "plan"]]
    BY <1>3 DEF Receive
  <2>3. q \in Request
    <3>1. place \in PlaceShape /\ e \in SUBSET Resumes
      BY ConstantsOK
    <3>2. QED
      BY <1>1, <3>1 DEF Request
  <2> HIDE DEF q
  <2>4. CASE rq' = [rq EXCEPT ![r] = [q EXCEPT !.pc = "plan"]]
    <3>1. rq'[r].pc = "plan" /\ rq'[r].attempt = rq[r].attempt
      BY <1>1, <2>1, <2>3, <2>4 DEF Request
    <3>2. QED
      BY <1>1, <2>1, <3>1, Forward
  <2>5. ASSUME NEW s \in Selections(Found(e)),
               rq' = [rq EXCEPT ![r] = [q EXCEPT !.pc = "answered", !.response = s]]
        PROVE  StepsLeft(rq'[r]) < StepsLeft(rq[r])
    <3>1. rq'[r].pc = "answered"
      BY <1>1, <2>1, <2>3, <2>5 DEF Request
    <3>2. QED
      BY <1>1, <2>1, <3>1, Finished DEF Ended
  <2>6. QED
    BY <2>2, <2>4, <2>5
<1>4. CASE TimePasses(r)
  <2>1. /\ rq'[r].pc = rq[r].pc /\ rq'[r].attempt = rq[r].attempt
        /\ rq'[r].todo = rq[r].todo
    BY <1>1, <1>4 DEF TimePasses, Request
  <2>2. StepsLeft(rq'[r]) = StepsLeft(rq[r])
    BY <2>1 DEF StepsLeft, ToCome
  <2>3. QED
    BY <1>2, <2>2
<1>5. CASE InsertFails(r)
  BY <1>2, <1>5, StoreLowers
<1>6. QED
  BY <1>2, <1>3, <1>4, <1>5

\* A request left alone has as many steps left as before.
LEMMA OthersKeep ==
  ASSUME IInv, NEW r \in Requests, NEW s \in Requests \ {r},
         \/ \E place \in Places, e \in Exclusions : Receive(s, place, e)
         \/ RequestStep(s) \/ InsertFails(s) \/ TimePasses(s)
  PROVE  rq'[r] = rq[r]
<1>1. rq \in [Requests -> Request]
  BY DEF IInv
<1>2. ASSUME NEW place \in Places, NEW e \in Exclusions, Receive(s, place, e)
      PROVE  rq'[r] = rq[r]
  BY <1>1, <1>2 DEF Receive
<1>3. CASE \E plan \in Plans : Plan(s, plan)
  BY <1>1, <1>3 DEF Plan
<1>4. CASE SkipDuplicate(s) \/ \E results \in SUBSET Resumes : Search(s, results)
  BY <1>1, <1>4 DEF SkipDuplicate, Search
<1>5. CASE EndLoop(s) \/ Answer(s) \/ EndAttempt(s)
  BY <1>1, <1>5 DEF EndLoop, Answer, EndAttempt
<1>6. CASE \E u \in Resumes : Reject(s, u) \/ LookUp(s, u)
  BY <1>1, <1>6 DEF Reject, LookUp
<1>7. CASE Insert(s) \/ Commit(s) \/ InsertFails(s) \/ TimePasses(s)
  BY <1>1, <1>7 DEF Insert, Commit, InsertFails, TimePasses
<1>8. QED
  BY <1>2, <1>3, <1>4, <1>5, <1>6, <1>7 DEF RequestStep, ScrapeStep

\* A request that a restart interrupts has nothing left to do.
LEMMA RestartNotRaises ==
  ASSUME IInv, IInv', NEW r \in Requests, Restart
  PROVE  StepsLeft(rq'[r]) <= StepsLeft(rq[r])
<1>1. rq[r] \in Request /\ rq'[r] \in Request
  BY DEF IInv
<1>2. StepsLeft(rq[r]) \in Nat /\ StepsLeft(rq'[r]) \in Nat
  BY <1>1, Measured
<1>3. rq'[r] = rq[r] \/ rq'[r].pc = "lost"
  BY <1>1 DEF Restart, Request
<1>4. CASE rq'[r].pc = "lost"
  BY <1>1, <1>2, <1>4, Measured DEF Ended
<1>5. QED
  BY <1>2, <1>3, <1>4

\* A request takes a bounded number of steps, of which each brings its end
\* closer, whatever the site lists and whatever happens to the others: with a
\* scheduler that lets it take them, it ends.
THEOREM WorkStaysBounded == Spec => WorkIsBounded
<1>1. IInv /\ IInv' /\ [Next]_vars => [Closer]_vars
  <2> SUFFICES ASSUME IInv, IInv', Next, NEW r \in Requests
               PROVE  /\ StepsLeft(rq'[r]) \in Nat /\ StepsLeft(rq'[r]) <= StepsLeft(rq[r])
                      /\ RequestStep(r) => StepsLeft(rq'[r]) < StepsLeft(rq[r])
    BY DEF Closer
  <2>1. StepsLeft(rq[r]) \in Nat /\ StepsLeft(rq'[r]) \in Nat
    BY Measured DEF IInv
  <2>2. RequestStep(r) => StepsLeft(rq'[r]) < StepsLeft(rq[r])
    BY RequestStepLowers
  <2>3. StepsLeft(rq'[r]) <= StepsLeft(rq[r])
    <3>1. CASE Restart
      BY <3>1, RestartNotRaises
    <3>2. ASSUME NEW s \in Requests,
                 \/ \E place \in Places, e \in Exclusions : Receive(s, place, e)
                 \/ RequestStep(s) \/ InsertFails(s) \/ TimePasses(s)
          PROVE  StepsLeft(rq'[r]) <= StepsLeft(rq[r])
      <4>1. CASE s = r
        BY <2>1, <2>2, <3>2, <4>1, OtherStepNotRaises
      <4>2. CASE s # r
        BY <2>1, <3>2, <4>2, OthersKeep
      <4>3. QED
        BY <4>1, <4>2
    <3>3. QED
      BY <3>1, <3>2 DEF Next
  <2>4. QED
    BY <2>1, <2>2, <2>3
<1>2. QED
  BY <1>1, BookkeepingHolds, PTL DEF Spec, WorkIsBounded
=============================================================================
