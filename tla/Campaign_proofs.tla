-------------------------- MODULE Campaign_proofs --------------------------
(***************************************************************************)
(* Theorems about Campaign for any candidates, requests and runs.          *)
(***************************************************************************)
EXTENDS Campaign, TLAPS

\* A flush leaves an attribute alone or gives it the new value.
LEMMA FlushType ==
  ASSUME NEW old \in Entry, NEW read \in Entry, NEW new \in Entry
  PROVE  /\ Flush(old, read, new) \in Entry
         /\ Flush(old, read, new).shared =
              IF new.shared = read.shared THEN old.shared ELSE new.shared
         /\ Flush(old, read, new).decision =
              IF new.decision = read.decision THEN old.decision ELSE new.decision
         /\ Flush(old, read, new).interview =
              IF new.interview = read.interview THEN old.interview ELSE new.interview
BY DEF Flush, Entry

ScorerPCs == {"score", "scores", "entries", "prune", "pruneNext", "activate"}

\* A session among listed rows L and invitations I: the row it holds exists,
\* it writes interview details after the invitation, and only a scoring run
\* or a rescore is where scores and rows are written.
Fit(q, L, I) ==
  /\ q \in Session
  /\ q.row = "held" => q.cand \in L
  /\ q.kind = "schedule" /\ q.pc = "email" => q.cand \in Candidates
  /\ q.kind = "schedule" /\ q.pc = "write" => q.cand \in I \cup NoEmail
  /\ q.pc \in ScorerPCs => q.kind \in ScorerKinds
  /\ q.kind \in ScorerKinds => q.row = "none"

\* The rows: nothing is left of a row that is gone.
Rows(e, L, I) ==
  /\ e \in [Candidates -> Entry]
  /\ \A c \in Candidates : c \notin L => e[c] = Blank
  /\ \A c \in Candidates : e[c].interview = "sent" => c \in I \cup NoEmail

Plain(j, L, M, C, I, K) ==
  /\ j \in {"DRAFT", "ACTIVE", "CLOSED"}
  /\ L \subseteq Candidates /\ M \subseteq L /\ C \subseteq Candidates
  /\ I \subseteq Candidates /\ K \subseteq Scorers

IInv ==
  /\ Plain(jd, listed, manual, scored, invited, locked)
  /\ Rows(entry, listed, invited)
  /\ sess \in [Sessions -> Session]
  /\ \A s \in Sessions : Fit(sess[s], listed, invited)

\* A step of one session that takes no row and no invitation away.
LEMMA Step ==
  ASSUME IInv, NEW s \in Sessions, NEW q, Fit(q, listed', invited'),
         sess' = [sess EXCEPT ![s] = q],
         listed \subseteq listed', invited \subseteq invited',
         Plain(jd, listed, manual, scored, invited, locked)',
         Rows(entry, listed, invited)'
  PROVE  IInv'
<1>1. q \in Session
  BY DEF Fit
<1>2. sess' \in [Sessions -> Session]
  BY <1>1 DEF IInv
<1>3. ASSUME NEW t \in Sessions
      PROVE  Fit(sess[t], listed, invited)'
  <2>1. sess'[t] = IF t = s THEN q ELSE sess[t]
    BY DEF IInv
  <2>2. CASE t = s
    BY <2>1, <2>2 DEF Fit
  <2>3. CASE t # s
    <3>1. sess'[t] = sess[t] /\ Fit(sess[t], listed, invited)
      BY <2>1, <2>3 DEF IInv
    <3>2. QED BY <3>1 DEF Fit
  <2>4. QED BY <2>2, <2>3
<1>4. QED
  BY <1>2, <1>3 DEF IInv

\* The steps that change nothing but the session.
LEMMA QuietStep ==
  ASSUME IInv, NEW s \in Sessions, NEW q, Fit(q, listed, invited),
         sess' = [sess EXCEPT ![s] = q], UNCHANGED <<rows, invited>>,
         locked' \subseteq Scorers
  PROVE  IInv'
<1>1. /\ jd' = jd /\ listed' = listed /\ manual' = manual /\ entry' = entry
      /\ scored' = scored /\ invited' = invited
  BY DEF rows
<1>2. Plain(jd, listed, manual, scored, invited, locked)'
  BY <1>1 DEF IInv, Plain
<1>3. Rows(entry, listed, invited)'
  BY <1>1 DEF IInv, Rows
<1>4. QED
  BY <1>1, <1>2, <1>3, Step

LEMMA IdleFits == \A L, I : Fit(NoSession, L, I)
BY DEF Fit, NoSession, Session, PCs, Blank, Entry, Decisions, ScorerPCs

LEMMA BlankType == Blank \in Entry /\ Blank.interview = "none" /\ Blank.shared = "no"
BY DEF Blank, Entry, Decisions

\* Where a session may go without a new row in hand.
LEMMA Moves ==
  ASSUME NEW q, NEW L, NEW I, Fit(q, L, I), NEW pc \in PCs,
         pc \in ScorerPCs => q.kind \in ScorerKinds,
         pc \notin {"email", "write"}
  PROVE  Fit([q EXCEPT !.pc = pc], L, I)
<1> DEFINE p == [q EXCEPT !.pc = pc]
<1>1. q \in Session
  BY DEF Fit
<1>2. p \in Session /\ p.pc = pc /\ p.kind = q.kind /\ p.row = q.row /\ p.cand = q.cand
  BY <1>1 DEF Session
<1>3. QED
  BY <1>2 DEF Fit

LEMMA GoKeeps ==
  ASSUME IInv, NEW s \in Sessions, NEW pc \in PCs,
         pc \in ScorerPCs => sess[s].kind \in ScorerKinds,
         pc \notin {"email", "write"},
         GoTo(s, pc), UNCHANGED <<rows, invited, locked>>
  PROVE  IInv'
<1>1. Fit([sess[s] EXCEPT !.pc = pc], listed, invited)
  BY Moves DEF IInv
<1>2. sess' = [sess EXCEPT ![s] = [sess[s] EXCEPT !.pc = pc]]
  BY DEF GoTo
<1>3. locked' \subseteq Scorers
  BY DEF IInv, Plain
<1>4. UNCHANGED <<rows, invited>>
  OBVIOUS
<1>5. QED
  BY <1>1, <1>2, <1>3, <1>4, QuietStep

LEMMA BeginKeeps ==
  ASSUME IInv, NEW s \in Sessions, NEW kind \in AnyKind, Begin(s, kind)
  PROVE  IInv'
<1> DEFINE q == [NoSession EXCEPT !.kind = kind, !.pc = "begun"]
<1>1. q \in Session /\ q.pc = "begun" /\ q.row = "none"
  BY DEF AnyKind, NoSession, Session, PCs, Blank, Entry, Decisions
<1>2. Fit(q, listed, invited)
  BY <1>1 DEF Fit, ScorerPCs
<1>3. sess' = [sess EXCEPT ![s] = q]
  BY DEF Begin
<1>4. kind = "run" => s \in Scorers
  BY ConstantsOK DEF Begin, Kinds
<1>5. locked' \subseteq Scorers
  BY <1>4 DEF Begin, IInv, Plain
<1>6. UNCHANGED <<rows, invited>>
  BY DEF Begin
<1>7. QED
  BY <1>2, <1>3, <1>5, <1>6, QuietStep

LEMMA EndsKeeps ==
  ASSUME IInv, NEW s \in Sessions,
         \/ Ends(s) \/ ShareDone(s) \/ (s \in Scorers /\ PresumeLost(s))
  PROVE  IInv'
<1>1. CASE Ends(s) \/ ShareDone(s)
  <2>1. sess' = [sess EXCEPT ![s] = NoSession]
    BY <1>1 DEF Ends, ShareDone, Close
  <2>2. locked' \subseteq Scorers /\ UNCHANGED <<rows, invited>>
    BY <1>1 DEF Ends, ShareDone, IInv, Plain
  <2>3. QED
    BY <2>1, <2>2, IdleFits, QuietStep
<1>2. CASE PresumeLost(s)
  <2>1. sess' = [sess EXCEPT ![s] = sess[s]] /\ Fit(sess[s], listed, invited)
    BY <1>2 DEF PresumeLost, IInv
  <2>2. locked' \subseteq Scorers /\ UNCHANGED <<rows, invited>>
    BY <1>2 DEF PresumeLost, IInv, Plain
  <2>3. QED
    BY <2>1, <2>2, QuietStep
<1>3. QED
  BY <1>1, <1>2

-----------------------------------------------------------------------------
(* Steps that write rows.                                                  *)

LEMMA UnshareRows ==
  ASSUME NEW e, NEW L, NEW I, Rows(e, L, I)
  PROVE  Rows([c \in Candidates |-> [e[c] EXCEPT !.shared = "no"]], L, I)
<1> DEFINE f == [c \in Candidates |-> [e[c] EXCEPT !.shared = "no"]]
<1>1. ASSUME NEW c \in Candidates
      PROVE  /\ f[c] \in Entry /\ f[c].interview = e[c].interview
             /\ e[c] = Blank => f[c] = Blank
  <2>1. e[c] \in Entry /\ f[c] = [e[c] EXCEPT !.shared = "no"]
    BY DEF Rows
  <2>2. [e[c] EXCEPT !.shared = "no"] \in Entry
    BY <2>1 DEF Entry
  <2>3. [e[c] EXCEPT !.shared = "no"].interview = e[c].interview
    BY <2>1 DEF Entry
  <2>4. [Blank EXCEPT !.shared = "no"] = Blank
    BY DEF Blank
  <2>5. QED
    BY <2>1, <2>2, <2>3, <2>4
<1>2. QED
  BY <1>1 DEF Rows

LEMMA UnsharedKeeps ==
  ASSUME IInv, NEW s \in Sessions, NEW q, Fit(q, listed, invited),
         sess' = [sess EXCEPT ![s] = q],
         entry' = [c \in Candidates |-> [entry[c] EXCEPT !.shared = "no"]],
         UNCHANGED <<jd, listed, manual, scored, invited, locked>>
  PROVE  IInv'
<1>1. Plain(jd, listed, manual, scored, invited, locked)'
  BY DEF IInv, Plain
<1>2. Rows(entry', listed, invited)
  BY UnshareRows DEF IInv
<1>3. Rows(entry, listed, invited)'
  BY <1>2 DEF Rows
<1>4. QED
  BY <1>1, <1>3, Step

\* A flush of the row in hand, by a session that may write what it writes.
LEMMA SaveKeeps ==
  ASSUME IInv, NEW s \in Sessions, NEW new \in Entry, Save(s, new),
         \/ new.interview = sess[s].read.interview
         \/ sess[s].cand \in invited \cup NoEmail,
         NEW q, Fit(q, listed, invited), sess' = [sess EXCEPT ![s] = q],
         UNCHANGED <<jd, listed, manual, scored, invited, locked>>
  PROVE  IInv'
<1> DEFINE c == sess[s].cand
           read == sess[s].read
           f == Flush(entry[c], read, new)
<1>1. /\ sess[s] \in Session /\ c \in listed /\ c \in Candidates
      /\ entry \in [Candidates -> Entry]
  BY DEF IInv, Fit, Save, Plain, Rows
<1>2. entry[c] \in Entry /\ read \in Entry
  BY <1>1 DEF Session
<1>3. /\ f \in Entry
      /\ f.interview = IF new.interview = read.interview THEN entry[c].interview
                       ELSE new.interview
  BY <1>2, FlushType
<1>4. entry' = [entry EXCEPT ![c] = f]
  BY DEF Save
<1>5. f.interview = "sent" => c \in invited \cup NoEmail
  BY <1>1, <1>3 DEF IInv, Rows
<1> HIDE DEF c, f, read
<1>6. Rows(entry', listed, invited)
  BY <1>1, <1>3, <1>4, <1>5 DEF IInv, Rows
<1>7. Rows(entry, listed, invited)'
  BY <1>6 DEF Rows
<1>8. Plain(jd, listed, manual, scored, invited, locked)'
  BY DEF IInv, Plain
<1>9. QED
  BY <1>7, <1>8, Step

-----------------------------------------------------------------------------
(* The recruiter.                                                          *)

LEMMA ShareKeeps ==
  ASSUME IInv, NEW s \in Recruiters,
         \/ \E S \in SUBSET Candidates : ShareValidate(s, S)
         \/ \E c \in Candidates : ShareRead(s, c)
         \/ ShareReset(s) \/ ShareMark(s)
  PROVE  IInv'
<1>0. s \in Sessions /\ Fit(sess[s], listed, invited) /\ sess[s] \in Session
  BY DEF Sessions, IInv
<1>1. ASSUME NEW S \in SUBSET Candidates, ShareValidate(s, S)
      PROVE  IInv'
  <2> DEFINE q == [sess[s] EXCEPT !.pc = "reset", !.sel = S, !.todo = S]
  <2>1. /\ q \in Session /\ q.pc = "reset"
        /\ q.row = sess[s].row /\ q.cand = sess[s].cand
    BY <1>0 DEF Session, PCs
  <2>2. Fit(q, listed, invited)
    BY <1>0, <2>1 DEF Fit, ScorerPCs
  <2>3. sess' = [sess EXCEPT ![s] = q]
    BY <1>1 DEF ShareValidate
  <2>4. UNCHANGED <<rows, invited>> /\ locked' \subseteq Scorers
    BY <1>1 DEF ShareValidate, IInv, Plain
  <2>5. QED
    BY <1>0, <2>2, <2>3, <2>4, QuietStep
<1>2. ASSUME NEW c \in Candidates, ShareRead(s, c)
      PROVE  IInv'
  <2> DEFINE q == [sess[s] EXCEPT
                     !.todo = sess[s].todo \ {c},
                     !.pc = IF c \in listed THEN "mark" ELSE "read",
                     !.cand = IF c \in listed THEN c ELSE NoCandidate,
                     !.row = IF c \in listed THEN "held" ELSE "none",
                     !.read = entry[c]]
  <2>1. entry[c] \in Entry /\ sess[s].todo \ {c} \in SUBSET Candidates
    BY <1>0 DEF IInv, Rows, Session
  <2>2. q \in Session
    <3>1. ASSUME NEW t \in SUBSET Candidates, NEW pc \in {"mark", "read"},
                 NEW d \in Candidates \cup {NoCandidate}, NEW row \in {"held", "none"},
                 NEW e \in Entry
          PROVE  [sess[s] EXCEPT !.todo = t, !.pc = pc, !.cand = d, !.row = row,
                                 !.read = e] \in Session
      BY <1>0 DEF Session, PCs
    <3>2. QED
      BY <2>1, <3>1
  <2>3. /\ q.pc \in {"mark", "read"} /\ q.kind = "share"
        /\ q.row = "held" => q.cand \in listed
    BY <1>0, <1>2 DEF Session, ShareRead, At
  <2>4. Fit(q, listed, invited)
    BY <2>2, <2>3 DEF Fit, ScorerPCs, ScorerKinds
  <2>5. sess' = [sess EXCEPT ![s] = q]
    BY <1>2 DEF ShareRead
  <2>6. UNCHANGED <<rows, invited>> /\ locked' \subseteq Scorers
    BY <1>2 DEF ShareRead, IInv, Plain
  <2>7. QED
    BY <1>0, <2>4, <2>5, <2>6, QuietStep
<1>3. CASE ShareReset(s)
  <2>1. Fit([sess[s] EXCEPT !.pc = "read"], listed, invited)
    BY <1>0, Moves DEF PCs, ScorerPCs
  <2>2. sess' = [sess EXCEPT ![s] = [sess[s] EXCEPT !.pc = "read"]]
    BY <1>3 DEF ShareReset, GoTo
  <2>3. QED
    BY <1>0, <1>3, <2>1, <2>2, UnsharedKeeps DEF ShareReset
<1>4. CASE ShareMark(s)
  <2> DEFINE new == [sess[s].read EXCEPT !.shared = "yes", !.decision = "PENDING",
                                         !.notes = "none"]
             q == [sess[s] EXCEPT !.pc = "read", !.row = "none"]
  <2>1. sess[s].read \in Entry
    BY <1>0 DEF Session
  <2>2. new \in Entry /\ new.interview = sess[s].read.interview
    BY <2>1 DEF Entry, Decisions
  <2>3. q \in Session /\ q.pc = "read" /\ q.row = "none"
    BY <1>0 DEF Session, PCs
  <2>4. Fit(q, listed, invited)
    BY <2>3 DEF Fit, ScorerPCs
  <2>5. /\ Save(s, new) /\ sess' = [sess EXCEPT ![s] = q]
        /\ UNCHANGED <<jd, listed, manual, scored, invited, locked>>
    BY <1>4 DEF ShareMark
  <2> HIDE DEF new, q
  <2>6. QED
    BY <1>0, <2>2, <2>4, <2>5, SaveKeeps
<1>5. QED
  BY <1>1, <1>2, <1>3, <1>4

LEMMA RecruiterKeeps ==
  ASSUME IInv, NEW s \in Recruiters, RecruiterStep(s)
  PROVE  IInv'
<1>0. s \in Sessions /\ Fit(sess[s], listed, invited) /\ sess[s] \in Session
  BY DEF Sessions, IInv
<1>1. CASE ShareDone(s)
  BY <1>0, <1>1, EndsKeeps
<1>2. CASE UpdateUnlocked(s) \/ UpdateLook(s)
  <2>1. UNCHANGED <<rows, invited, locked>>
    BY <1>2 DEF UpdateUnlocked, UpdateLook
  <2>2. GoTo(s, "look") \/ GoTo(s, "unshare")
    BY <1>2 DEF UpdateUnlocked, UpdateLook
  <2>3. QED
    BY <1>0, <2>1, <2>2, GoKeeps DEF PCs, ScorerPCs
<1>3. CASE UpdateUnshare(s)
  <2>1. sess' = [sess EXCEPT ![s] = NoSession]
    BY <1>3 DEF UpdateUnshare, Close
  <2>2. QED
    BY <1>0, <1>3, <2>1, IdleFits, UnsharedKeeps DEF UpdateUnshare
<1>4. ASSUME NEW c \in Candidates, ListByHand(s, c)
      PROVE  IInv'
  <2>1. sess' = [sess EXCEPT ![s] = sess[s]]
    BY <1>4 DEF ListByHand, IInv
  <2>2. Fit(sess[s], listed', invited')
    BY <1>0, <1>4 DEF ListByHand, Fit
  <2>3. Plain(jd, listed, manual, scored, invited, locked)'
    BY <1>4 DEF ListByHand, IInv, Plain
  <2>4. Rows(entry, listed, invited)'
    BY <1>4 DEF ListByHand, IInv, Rows
  <2>5. listed \subseteq listed' /\ invited \subseteq invited'
    BY <1>4 DEF ListByHand
  <2>6. QED
    BY <1>0, <2>1, <2>2, <2>3, <2>4, <2>5, Step
<1>5. QED
  BY <1>1, <1>2, <1>3, <1>4, ShareKeeps DEF RecruiterStep

-----------------------------------------------------------------------------
(* Scoring runs.                                                           *)

LEMMA ScoredKeeps ==
  ASSUME IInv, NEW s \in Scorers, NEW S \in SUBSET Candidates, Scored(s, S)
  PROVE  IInv'
<1> DEFINE pc == IF S # {} THEN "scores"
                 ELSE IF sess[s].kind = "run" THEN "prune" ELSE "activate"
           q == [sess[s] EXCEPT !.sel = S, !.todo = S, !.pc = pc]
<1>1. s \in Sessions /\ Fit(sess[s], listed, invited) /\ sess[s] \in Session
  BY DEF Sessions, IInv
<1>2. /\ q \in Session /\ q.pc \in {"scores", "prune", "activate"}
      /\ q.row = sess[s].row /\ q.cand = sess[s].cand /\ q.kind = sess[s].kind
  BY <1>1 DEF Session, PCs
<1>3. Fit(q, listed, invited)
  BY <1>1, <1>2 DEF Fit, ScorerPCs, Scored
<1>4. sess' = [sess EXCEPT ![s] = q]
  BY DEF Scored
<1>5. UNCHANGED <<rows, invited>> /\ locked' \subseteq Scorers
  BY DEF Scored, IInv, Plain
<1>6. QED
  BY <1>1, <1>3, <1>4, <1>5, QuietStep

\* One score or one row is upserted.
LEMMA UpsertKeeps ==
  ASSUME IInv, NEW s \in Scorers, NEW c \in Candidates,
         UpsertScore(s, c) \/ UpsertEntry(s, c)
  PROVE  IInv'
<1>1. s \in Sessions /\ Fit(sess[s], listed, invited) /\ sess[s] \in Session
  BY DEF Sessions, IInv
<1>2. PICK pc \in ScorerPCs, T \in SUBSET Candidates :
        sess' = [sess EXCEPT ![s] = [sess[s] EXCEPT !.pc = pc, !.todo = T]]
  <2>1. CASE UpsertScore(s, c)
    <3> DEFINE pc == IF sess[s].todo = {c} THEN "entries" ELSE sess[s].pc
               T == IF sess[s].todo = {c} THEN sess[s].sel ELSE sess[s].todo \ {c}
    <3>1. pc \in ScorerPCs /\ T \in SUBSET Candidates
      BY <1>1, <2>1 DEF UpsertScore, ScorerPCs, Session
    <3>2. sess' = [sess EXCEPT ![s] = [sess[s] EXCEPT !.pc = pc, !.todo = T]]
      BY <2>1 DEF UpsertScore
    <3>3. QED BY <3>1, <3>2
  <2>2. CASE UpsertEntry(s, c)
    <3> DEFINE pc == IF sess[s].todo # {c} THEN sess[s].pc
                     ELSE IF sess[s].kind = "run" THEN "prune" ELSE "activate"
               T == sess[s].todo \ {c}
    <3>1. pc \in ScorerPCs /\ T \in SUBSET Candidates
      BY <1>1, <2>2 DEF UpsertEntry, ScorerPCs, Session
    <3>2. sess' = [sess EXCEPT ![s] = [sess[s] EXCEPT !.pc = pc, !.todo = T]]
      BY <2>2 DEF UpsertEntry
    <3>3. QED BY <3>1, <3>2
  <2>3. QED BY <2>1, <2>2
<1> DEFINE q == [sess[s] EXCEPT !.pc = pc, !.todo = T]
<1>3. /\ q \in Session /\ q.pc = pc
      /\ q.row = sess[s].row /\ q.cand = sess[s].cand /\ q.kind = sess[s].kind
  BY <1>1 DEF Session, PCs, ScorerPCs
<1>4. sess[s].kind \in ScorerKinds
  BY <1>1 DEF Fit, ScorerPCs, UpsertScore, UpsertEntry
<1>5. /\ invited' = invited /\ jd' = jd /\ manual' = manual /\ entry' = entry
      /\ locked' = locked /\ listed \subseteq listed' /\ listed' \subseteq listed \cup {c}
      /\ scored' \subseteq scored \cup {c}
  BY DEF UpsertScore, UpsertEntry
<1>6. Fit(q, listed', invited')
  BY <1>1, <1>3, <1>4, <1>5 DEF Fit, ScorerPCs
<1>7. Plain(jd, listed, manual, scored, invited, locked)'
  BY <1>5 DEF IInv, Plain
<1>8. Rows(entry, listed, invited)'
  BY <1>5 DEF IInv, Rows
<1>9. QED
  BY <1>1, <1>2, <1>5, <1>6, <1>7, <1>8, Step

\* Rows are deleted: who holds one of them holds nothing any more.
LEMMA DeleteEntriesKeeps ==
  ASSUME IInv, NEW s \in Scorers, sess[s].pc = "prune", DeleteEntries(s, "pruneNext"),
         UNCHANGED <<jd, invited, locked>>
  PROVE  IInv'
<1> DEFINE kept == listed \cap sess[s].sel
           p(t) == IF t = s THEN [sess[s] EXCEPT !.pc = "pruneNext"]
                   ELSE IF sess[t].row = "held" /\ sess[t].cand \notin kept
                        THEN [sess[t] EXCEPT !.row = "gone"]
                        ELSE sess[t]
<1>1. /\ listed' = kept /\ manual' = manual \cap kept /\ scored' = scored
      /\ entry' = [c \in Candidates |-> IF c \in kept THEN entry[c] ELSE Blank]
  BY DEF DeleteEntries
<1>2. sess' = [t \in Sessions |-> p(t)]
  BY DEF DeleteEntries
<1>3. Plain(jd, listed, manual, scored, invited, locked)'
  BY <1>1 DEF IInv, Plain
<1>4. Rows(entry, listed, invited)'
  BY <1>1, BlankType DEF IInv, Rows, Plain
<1>5. ASSUME NEW t \in Sessions
      PROVE  Fit(p(t), kept, invited)
  <2>1. /\ sess[t] \in Session /\ Fit(sess[t], listed, invited)
        /\ sess[s] \in Session /\ Fit(sess[s], listed, invited)
    BY DEF IInv, Sessions
  <2>2. CASE t = s
    <3> DEFINE q == [sess[s] EXCEPT !.pc = "pruneNext"]
    <3>1. /\ q \in Session /\ q.pc = "pruneNext" /\ q.kind = sess[s].kind
          /\ q.row = sess[s].row /\ q.cand = sess[s].cand
      BY <2>1 DEF Session, PCs
    <3>2. sess[s].kind \in ScorerKinds
      BY <2>1 DEF Fit, ScorerPCs
    <3>3. sess[s].row # "held"
      BY <2>1, <3>2 DEF Fit
    <3>4. Fit(q, kept, invited)
      BY <2>1, <3>1, <3>2, <3>3 DEF Fit
    <3>5. QED BY <2>2, <3>4
  <2>3. CASE t # s /\ sess[t].row = "held" /\ sess[t].cand \notin kept
    <3> DEFINE q == [sess[t] EXCEPT !.row = "gone"]
    <3>1. /\ q \in Session /\ q.pc = sess[t].pc /\ q.kind = sess[t].kind
          /\ q.row = "gone" /\ q.cand = sess[t].cand
      BY <2>1 DEF Session
    <3>2. Fit(q, kept, invited)
      BY <2>1, <2>3, <3>1 DEF Fit
    <3>3. QED BY <2>3, <3>2
  <2>4. CASE t # s /\ ~(sess[t].row = "held" /\ sess[t].cand \notin kept)
    <3>1. Fit(sess[t], kept, invited)
      BY <2>1, <2>4 DEF Fit
    <3>2. QED BY <2>4, <3>1
  <2>5. QED BY <2>2, <2>3, <2>4
<1> HIDE DEF p, kept
<1>6. ASSUME NEW t \in Sessions
      PROVE  sess'[t] \in Session /\ Fit(sess[t], listed, invited)'
  <2>1. sess'[t] = p(t)
    BY <1>2
  <2>2. QED
    BY <1>1, <1>5, <2>1 DEF Fit
<1>7. sess' \in [Sessions -> Session]
  BY <1>2, <1>5 DEF Fit
<1>8. QED
  BY <1>3, <1>4, <1>6, <1>7 DEF IInv

LEMMA PruneKeeps ==
  ASSUME IInv, NEW s \in Scorers, Prune(s)
  PROVE  IInv'
<1>1. s \in Sessions /\ Fit(sess[s], listed, invited)
  BY DEF Sessions, IInv
<1>2. CASE sess[s].pc = "prune" /\ DeleteEntries(s, "pruneNext")
  BY <1>2, DeleteEntriesKeeps DEF Prune
<1>3. CASE sess[s].pc = "pruneNext" /\ DeleteScores(s, "activate")
  <2>1. /\ jd' = jd /\ listed' = listed /\ manual' = manual /\ entry' = entry
        /\ invited' = invited /\ locked' = locked /\ scored' = scored \cap sess[s].sel
        /\ sess' = [sess EXCEPT ![s] = [sess[s] EXCEPT !.pc = "activate"]]
    BY <1>3 DEF Prune, DeleteScores, GoTo
  <2>2. Fit([sess[s] EXCEPT !.pc = "activate"], listed, invited)
    <3>1. sess[s].kind \in ScorerKinds
      BY <1>1, <1>3 DEF Fit, ScorerPCs
    <3>2. QED
      BY <1>1, <3>1, Moves DEF PCs
  <2>3. Fit([sess[s] EXCEPT !.pc = "activate"], listed', invited')
    BY <2>1, <2>2
  <2>4. Plain(jd, listed, manual, scored, invited, locked)'
    BY <2>1 DEF IInv, Plain
  <2>5. Rows(entry, listed, invited)'
    BY <2>1 DEF IInv, Rows
  <2>6. QED
    BY <1>1, <2>1, <2>3, <2>4, <2>5, Step
<1>4. QED
  BY <1>2, <1>3 DEF Prune

\* The session ends and the status is set.
LEMMA StatusKeeps ==
  ASSUME IInv, NEW s \in Sessions, Close(s), jd' \in {"ACTIVE", "CLOSED"},
         UNCHANGED <<listed, manual, entry, scored, invited>>, locked' \subseteq locked
  PROVE  IInv'
<1>1. sess' = [sess EXCEPT ![s] = NoSession]
  BY DEF Close
<1>2. Plain(jd, listed, manual, scored, invited, locked)'
  BY DEF IInv, Plain
<1>3. Rows(entry, listed, invited)'
  BY DEF IInv, Rows
<1>4. QED
  BY <1>1, <1>2, <1>3, IdleFits, Step

LEMMA ScorerKeeps ==
  ASSUME IInv, NEW s \in Scorers, ScorerStep(s)
  PROVE  IInv'
<1>0. s \in Sessions /\ Fit(sess[s], listed, invited) /\ sess[s] \in Session
  BY DEF Sessions, IInv
<1>1. CASE NobodyAcquired(s) \/ NobodySelected(s) \/ Reauthorise(s)
  <2>1. UNCHANGED <<rows, invited, locked>> /\ sess[s].kind \in ScorerKinds
    BY <1>1 DEF NobodyAcquired, NobodySelected, Reauthorise, At, ScorerKinds
  <2>2. GoTo(s, "activate") \/ GoTo(s, "prune") \/ GoTo(s, "score")
    BY <1>1 DEF NobodyAcquired, NobodySelected, Reauthorise
  <2>3. QED
    BY <1>0, <2>1, <2>2, GoKeeps DEF PCs
<1>2. CASE Activate(s)
  BY <1>0, <1>2, StatusKeeps DEF Activate
<1>3. CASE PresumeLost(s)
  BY <1>0, <1>3, EndsKeeps
<1>4. QED
  BY <1>1, <1>2, <1>3, ScoredKeeps, UpsertKeeps, PruneKeeps DEF ScorerStep

-----------------------------------------------------------------------------
(* The hiring manager.                                                     *)

LEMMA ManagerKeeps ==
  ASSUME IInv, NEW s \in Managers, ManagerStep(s)
  PROVE  IInv'
<1>0. s \in Sessions /\ Fit(sess[s], listed, invited) /\ sess[s] \in Session
  BY DEF Sessions, IInv
<1>1. ASSUME NEW c \in Candidates, ReadShared(s, c)
      PROVE  IInv'
  <2> DEFINE pc == IF sess[s].kind = "review" THEN "write" ELSE "email"
             q == [sess[s] EXCEPT !.cand = c, !.row = "held", !.read = entry[c],
                                  !.pc = pc]
  <2>1. entry[c] \in Entry /\ c \in listed /\ sess[s].kind \in {"review", "schedule"}
    BY <1>1 DEF ReadShared, IInv, Rows
  <2>2. /\ q \in Session /\ q.pc = pc /\ q.kind = sess[s].kind
        /\ q.cand = c /\ q.row = "held"
    BY <1>0, <2>1 DEF Session, PCs
  <2>3. Fit(q, listed, invited)
    BY <2>1, <2>2 DEF Fit, ScorerPCs, ScorerKinds
  <2>4. sess' = [sess EXCEPT ![s] = q]
    BY <1>1 DEF ReadShared, Hold
  <2>5. UNCHANGED <<rows, invited>> /\ locked' \subseteq Scorers
    BY <1>1 DEF ReadShared, IInv, Plain
  <2>6. QED
    BY <1>0, <2>3, <2>4, <2>5, QuietStep
<1>2. CASE ReviewWrite(s)
  <2>1. PICK d \in Decisions, n \in {"none", "some"} :
          Save(s, [sess[s].read EXCEPT !.decision = d, !.notes = n])
    BY <1>2 DEF ReviewWrite
  <2> DEFINE new == [sess[s].read EXCEPT !.decision = d, !.notes = n]
  <2>2. sess[s].read \in Entry
    BY <1>0 DEF Session
  <2>3. new \in Entry /\ new.interview = sess[s].read.interview
    BY <2>2 DEF Entry
  <2>4. /\ sess' = [sess EXCEPT ![s] = NoSession]
        /\ UNCHANGED <<jd, listed, manual, scored, invited, locked>>
    BY <1>2 DEF ReviewWrite, Close
  <2> HIDE DEF new
  <2>5. Save(s, new)
    BY <2>1 DEF new
  <2>6. QED
    BY <1>0, <2>3, <2>4, <2>5, IdleFits, SaveKeeps
<1>3. CASE SendInvitation(s)
  <2> DEFINE q == [sess[s] EXCEPT !.pc = "write"]
  <2>1. /\ invited' = invited \cup ({sess[s].cand} \ NoEmail)
        /\ UNCHANGED <<rows, locked>> /\ sess' = [sess EXCEPT ![s] = q]
        /\ sess[s].kind = "schedule" /\ sess[s].pc = "email"
    BY <1>3 DEF SendInvitation, GoTo, At
  <2>2. sess[s].cand \in Candidates
    BY <1>0, <2>1 DEF Fit
  <2>3. /\ q \in Session /\ q.pc = "write" /\ q.kind = sess[s].kind
        /\ q.row = sess[s].row /\ q.cand = sess[s].cand
    BY <1>0 DEF Session, PCs
  <2>4. listed' = listed /\ entry' = entry
    BY <2>1 DEF rows
  <2>5. Fit(q, listed', invited')
    BY <1>0, <2>1, <2>3, <2>4 DEF Fit, ScorerPCs
  <2>6. Plain(jd, listed, manual, scored, invited, locked)'
    BY <2>1, <2>2 DEF IInv, Plain, rows
  <2>7. Rows(entry, listed, invited)'
    BY <2>1, <2>4 DEF IInv, Rows
  <2>8. QED
    BY <1>0, <2>1, <2>4, <2>5, <2>6, <2>7, Step
<1>4. CASE ScheduleWrite(s)
  <2> DEFINE new == [sess[s].read EXCEPT !.decision = "INTERVIEW_SENT",
                                         !.interview = "sent"]
  <2>1. sess[s].cand \in invited \cup NoEmail
    BY <1>0, <1>4 DEF ScheduleWrite, At, Fit
  <2>2. sess[s].read \in Entry
    BY <1>0 DEF Session
  <2>3. new \in Entry
    BY <2>2 DEF Entry, Decisions
  <2>4. /\ sess' = [sess EXCEPT ![s] = NoSession] /\ Save(s, new)
        /\ UNCHANGED <<jd, listed, manual, scored, invited, locked>>
    BY <1>4 DEF ScheduleWrite, Close
  <2> HIDE DEF new
  <2>5. QED
    BY <1>0, <2>1, <2>3, <2>4, IdleFits, SaveKeeps
<1>5. CASE EndCheck(s)
  <2>1. GoTo(s, "close") /\ UNCHANGED <<rows, invited, locked>>
    BY <1>5 DEF EndCheck
  <2>2. QED
    BY <1>0, <2>1, GoKeeps DEF PCs, ScorerPCs
<1>6. CASE EndClose(s) \/ Reopen(s)
  BY <1>0, <1>6, StatusKeeps DEF EndClose, Reopen
<1>7. QED
  BY <1>1, <1>2, <1>3, <1>4, <1>5, <1>6 DEF ManagerStep

-----------------------------------------------------------------------------
LEMMA InitEstablishes == Init => IInv
<1> SUFFICES ASSUME Init PROVE IInv
  OBVIOUS
<1>1. Plain(jd, listed, manual, scored, invited, locked)
  BY DEF Init, Plain
<1>2. Rows(entry, listed, invited)
  BY BlankType DEF Init, Rows
<1>3. sess \in [Sessions -> Session]
  BY IdleFits DEF Init, Fit
<1>4. \A s \in Sessions : Fit(sess[s], listed, invited)
  BY IdleFits DEF Init
<1>5. QED
  BY <1>1, <1>2, <1>3, <1>4 DEF IInv

LEMMA NextKeeps == IInv /\ [Next]_vars => IInv'
<1> SUFFICES ASSUME IInv, [Next]_vars PROVE IInv'
  OBVIOUS
<1>1. CASE UNCHANGED vars
  BY <1>1 DEF vars, rows, IInv, Plain, Rows, Fit
<1>2. ASSUME NEW s \in Sessions, Ends(s) \/ \E kind \in AnyKind : Begin(s, kind)
      PROVE  IInv'
  BY <1>2, EndsKeeps, BeginKeeps
<1>3. QED
  BY <1>1, <1>2, RecruiterKeeps, ScorerKeeps, ManagerKeeps DEF Next

THEOREM SessionsFit == Spec => []IInv
BY InitEstablishes, NextKeeps, PTL DEF Spec

\* The rows, the runs and the sessions of a campaign are well typed.
THEOREM TypeCorrect == Spec => []TypeOK
<1>1. IInv => TypeOK
  BY DEF IInv, Plain, Rows, TypeOK
<1>2. QED
  BY <1>1, SessionsFit, PTL

\* Interview details are on a row only after the invitation, whatever other
\* requests and runs write or delete in the meantime.
THEOREM InvitedFirst == Spec => []InvitationFirst
<1>1. IInv => InvitationFirst
  BY DEF IInv, Plain, Rows, InvitationFirst
<1>2. QED
  BY <1>1, SessionsFit, PTL

-----------------------------------------------------------------------------
(* Rows and scores.                                                        *)

\* What one scoring run has done so far: nobody else writes scores or lists
\* scored candidates.
Progress(q, L, M, C) ==
  /\ q.pc \in {"scores", "entries"} => q.todo \subseteq q.sel
  /\ q.pc = "scores" => q.sel \ q.todo \subseteq C
  /\ q.pc = "entries" => q.sel \subseteq C
  /\ q.pc = "pruneNext" => L \ M \subseteq q.sel

ScoresLead ==
  (\A s, t \in Scorers : s = t) =>
     /\ listed \ manual \subseteq scored
     /\ \A s \in Scorers : Progress(sess[s], listed, manual, scored)

\* A step that neither writes scores nor moves a run.
LEMMA Aside ==
  ASSUME ScoresLead, listed' \ manual' \subseteq listed \ manual, scored' = scored,
         \A t \in Scorers : sess'[t] = sess[t] \/ sess'[t].pc \in {"idle", "begun"}
  PROVE  ScoresLead'
BY DEF ScoresLead, Progress

LEMMA AsideOthers ==
  ASSUME IInv, ScoresLead, NEW s \in Sessions,
         \/ Ends(s) \/ \E kind \in AnyKind : Begin(s, kind)
         \/ s \in Recruiters /\ RecruiterStep(s)
         \/ s \in Managers /\ ManagerStep(s)
  PROVE  ScoresLead'
<1>0. sess \in [Sessions -> Session] /\ Scorers \subseteq Sessions
  BY DEF IInv, Sessions
<1>1. CASE Ends(s)
  <2>1. /\ sess' = [sess EXCEPT ![s] = NoSession] /\ scored' = scored
        /\ listed' = listed /\ manual' = manual
    BY <1>1 DEF Ends, Close, rows
  <2>2. QED
    BY <1>0, <2>1, Aside DEF NoSession
<1>2. ASSUME NEW kind \in AnyKind, Begin(s, kind)
      PROVE  ScoresLead'
  <2>1. /\ sess' = [sess EXCEPT ![s] = [sess[s] EXCEPT !.kind = kind, !.pc = "begun"]]
        /\ scored' = scored /\ listed' = listed /\ manual' = manual
    BY <1>2 DEF Begin, rows
  <2>2. [sess[s] EXCEPT !.kind = kind, !.pc = "begun"].pc = "begun"
    BY <1>0 DEF Session
  <2>3. QED
    BY <1>0, <2>1, <2>2, Aside
<1>3. CASE s \in Recruiters /\ RecruiterStep(s)
  <2>1. ASSUME NEW t \in Scorers PROVE sess'[t] = sess[t]
    <3>1. t # s
      BY <1>3, ConstantsOK
    <3>2. QED
      BY <1>0, <1>3, <3>1 DEF RecruiterStep, ShareValidate, ShareRead, ListByHand,
         ShareReset, ShareMark, ShareDone, UpdateUnlocked, UpdateLook, UpdateUnshare,
         GoTo, Close
  <2>2. scored' = scored /\ listed' \ manual' \subseteq listed \ manual
    BY <1>3 DEF RecruiterStep, ShareValidate, ShareRead, ListByHand, ShareReset,
       ShareMark, ShareDone, UpdateUnlocked, UpdateLook, UpdateUnshare, rows
  <2>3. QED
    BY <2>1, <2>2, Aside
<1>4. CASE s \in Managers /\ ManagerStep(s)
  <2>1. ASSUME NEW t \in Scorers PROVE sess'[t] = sess[t]
    <3>1. t # s
      BY <1>4, ConstantsOK
    <3>2. QED
      BY <1>0, <1>4, <3>1 DEF ManagerStep, ReadShared, ReviewWrite, SendInvitation,
         ScheduleWrite, EndCheck, EndClose, Reopen, Hold, GoTo, Close
  <2>2. scored' = scored /\ listed' = listed /\ manual' = manual
    BY <1>4 DEF ManagerStep, ReadShared, ReviewWrite, SendInvitation, ScheduleWrite,
       EndCheck, EndClose, Reopen, rows
  <2>3. QED
    BY <2>1, <2>2, Aside
<1>5. QED
  BY <1>1, <1>2, <1>3, <1>4

\* A step of the only run.
LEMMA RunStep ==
  ASSUME IInv, ScoresLead, NEW s \in Scorers, ScorerStep(s)
  PROVE  ScoresLead'
<1> SUFFICES ASSUME \A t, u \in Scorers : t = u
             PROVE  /\ listed' \ manual' \subseteq scored'
                    /\ Progress(sess'[s], listed', manual', scored')
  BY DEF ScoresLead, Progress
<1>0. /\ s \in Sessions /\ sess[s] \in Session /\ sess \in [Sessions -> Session]
      /\ listed \ manual \subseteq scored
      /\ Progress(sess[s], listed, manual, scored)
  BY DEF IInv, Sessions, ScoresLead
<1>1. CASE NobodyAcquired(s) \/ NobodySelected(s) \/ Reauthorise(s) \/ PresumeLost(s)
           \/ Activate(s)
  <2>1. scored' = scored /\ listed' = listed /\ manual' = manual
    BY <1>1 DEF NobodyAcquired, NobodySelected, Reauthorise, PresumeLost, Activate, rows
  <2>2. sess'[s] = sess[s] \/ sess'[s].pc \in {"activate", "prune", "score", "idle"}
    BY <1>0, <1>1 DEF NobodyAcquired, NobodySelected, Reauthorise, PresumeLost, Activate,
       GoTo, Close, Session, NoSession
  <2>3. QED
    BY <1>0, <2>1, <2>2 DEF Progress
<1>2. ASSUME NEW S \in SUBSET Candidates, Scored(s, S)
      PROVE  /\ listed' \ manual' \subseteq scored'
             /\ Progress(sess'[s], listed', manual', scored')
  <2>1. scored' = scored /\ listed' = listed /\ manual' = manual
    BY <1>2 DEF Scored, rows
  <2>2. /\ sess'[s].pc \in {"scores", "prune", "activate"}
        /\ sess'[s].sel = S /\ sess'[s].todo = S
    BY <1>0, <1>2 DEF Scored, Session
  <2>3. QED
    BY <1>0, <2>1, <2>2 DEF Progress
<1>3. ASSUME NEW c \in Candidates, UpsertScore(s, c)
      PROVE  /\ listed' \ manual' \subseteq scored'
             /\ Progress(sess'[s], listed', manual', scored')
  <2>1. /\ scored' = scored \cup {c} /\ listed' = listed /\ manual' = manual
        /\ sess[s].pc = "scores" /\ c \in sess[s].todo
    BY <1>3 DEF UpsertScore
  <2>2. /\ sess'[s].pc = IF sess[s].todo = {c} THEN "entries" ELSE "scores"
        /\ sess'[s].sel = sess[s].sel
        /\ sess'[s].todo = IF sess[s].todo = {c} THEN sess[s].sel ELSE sess[s].todo \ {c}
    BY <1>0, <1>3 DEF UpsertScore, Session
  <2>3. QED
    BY <1>0, <2>1, <2>2 DEF Progress
<1>4. ASSUME NEW c \in Candidates, UpsertEntry(s, c)
      PROVE  /\ listed' \ manual' \subseteq scored'
             /\ Progress(sess'[s], listed', manual', scored')
  <2>1. /\ listed' = listed \cup {c} /\ scored' = scored /\ manual' = manual
        /\ sess[s].pc = "entries" /\ c \in sess[s].todo
    BY <1>4 DEF UpsertEntry
  <2>2. /\ sess'[s].pc \in {"entries", "prune", "activate"}
        /\ sess'[s].sel = sess[s].sel
        /\ sess'[s].todo = sess[s].todo \ {c}
    BY <1>0, <1>4 DEF UpsertEntry, Session
  <2>3. QED
    BY <1>0, <2>1, <2>2 DEF Progress
<1>5. CASE Prune(s)
  <2>1. CASE sess[s].pc = "prune" /\ DeleteEntries(s, "pruneNext")
    <3>1. /\ listed' = listed \cap sess[s].sel /\ scored' = scored
          /\ manual' = manual \cap (listed \cap sess[s].sel)
      BY <2>1 DEF DeleteEntries
    <3>2. sess'[s] = [sess[s] EXCEPT !.pc = "pruneNext"]
      BY <1>0, <2>1 DEF DeleteEntries
    <3>3. sess'[s].pc = "pruneNext" /\ sess'[s].sel = sess[s].sel
      BY <1>0, <3>2 DEF Session
    <3>4. QED
      BY <1>0, <3>1, <3>3 DEF Progress
  <2>2. CASE sess[s].pc = "pruneNext" /\ DeleteScores(s, "activate")
    <3>1. /\ listed' = listed /\ manual' = manual /\ scored' = scored \cap sess[s].sel
          /\ sess'[s].pc = "activate"
      BY <1>0, <2>2 DEF DeleteScores, GoTo, Session
    <3>2. QED
      BY <1>0, <2>2, <3>1 DEF Progress
  <2>3. QED
    BY <1>5, <2>1, <2>2 DEF Prune
<1>6. QED
  BY <1>1, <1>2, <1>3, <1>4, <1>5 DEF ScorerStep

\* A scored row never outlives its score, however often a single run is
\* started, stopped and started again.
THEOREM RowsHaveScores == Spec => []ListedIsScored
<1>1. Init => ScoresLead
  BY DEF Init, ScoresLead, Progress, NoSession, Sessions
<1>2. IInv /\ ScoresLead /\ [Next]_vars => ScoresLead'
  <2> SUFFICES ASSUME IInv, ScoresLead, [Next]_vars PROVE ScoresLead'
    OBVIOUS
  <2>1. CASE UNCHANGED vars
    BY <2>1 DEF vars, rows, ScoresLead, Progress
  <2>2. CASE Next
    BY <2>2, AsideOthers, RunStep DEF Next, Sessions
  <2>3. QED BY <2>1, <2>2
<1>3. ScoresLead => ListedIsScored
  BY DEF ScoresLead, ListedIsScored
<1>4. QED
  BY <1>1, <1>2, <1>3, SessionsFit, PTL DEF Spec

-----------------------------------------------------------------------------
(* Sharing.                                                                *)

IsShared(c) == entry[c].shared = "yes"

\* How far the share of session r has come, when no run deletes rows.
Sharing(r) ==
  LET q == sess[r]
  IN  q.kind = "share" =>
        /\ q.pc \in {"reset", "read", "mark"} =>
             q.sel \subseteq listed /\ q.todo \subseteq q.sel
        /\ q.pc = "reset" => q.todo = q.sel
        /\ q.pc = "read" => \A c \in Candidates : IsShared(c) <=> c \in q.sel \ q.todo
        /\ q.pc = "mark" =>
             /\ q.cand \in q.sel \ q.todo /\ q.read.shared = "no"
             /\ \A c \in Candidates :
                  IsShared(c) <=> c \in (q.sel \ q.todo) \ {q.cand}

SharesExactly ==
  Scorers = {} => \A r \in Recruiters : Recruiters = {r} => Sharing(r)

\* The hiring manager's requests change neither marks nor the share.
LEMMA ManagerLeavesShares ==
  ASSUME IInv, NEW s \in Managers, ManagerStep(s)
  PROVE  /\ listed' = listed
         /\ \A c \in Candidates : entry'[c].shared = entry[c].shared
         /\ \A r \in Recruiters : sess'[r] = sess[r]
<1>0. /\ s \in Sessions /\ Fit(sess[s], listed, invited) /\ sess[s] \in Session
      /\ sess \in [Sessions -> Session] /\ entry \in [Candidates -> Entry]
      /\ listed \subseteq Candidates
  BY DEF Sessions, IInv, Rows, Plain
<1>1. listed' = listed
  BY DEF ManagerStep, ReadShared, ReviewWrite, SendInvitation, ScheduleWrite,
     EndCheck, EndClose, Reopen, rows
<1>2. ASSUME NEW r \in Recruiters PROVE sess'[r] = sess[r]
  <2>1. r # s /\ r \in Sessions
    BY ConstantsOK DEF Sessions
  <2>2. QED
    BY <1>0, <2>1 DEF ManagerStep, ReadShared, ReviewWrite, SendInvitation,
       ScheduleWrite, EndCheck, EndClose, Reopen, Hold, GoTo, Close
<1>3. ASSUME NEW new \in Entry, Save(s, new), new.shared = sess[s].read.shared
      PROVE  \A c \in Candidates : entry'[c].shared = entry[c].shared
  <2> DEFINE c == sess[s].cand
             f == Flush(entry[c], sess[s].read, new)
  <2>1. c \in Candidates /\ entry[c] \in Entry /\ sess[s].read \in Entry
    BY <1>0, <1>3 DEF Save, Fit, Session
  <2>2. f.shared = entry[c].shared
    BY <1>3, <2>1, FlushType
  <2>3. entry' = [entry EXCEPT ![c] = f]
    BY <1>3 DEF Save
  <2> HIDE DEF c, f
  <2>4. QED
    BY <1>0, <2>2, <2>3
<1>4. ASSUME NEW c \in Candidates PROVE entry'[c].shared = entry[c].shared
  <2>0. sess[s].read \in Entry
    BY <1>0 DEF Session
  <2>1. CASE ReviewWrite(s)
    <3>1. PICK d \in Decisions, n \in {"none", "some"} :
            Save(s, [sess[s].read EXCEPT !.decision = d, !.notes = n])
      BY <2>1 DEF ReviewWrite
    <3>2. /\ [sess[s].read EXCEPT !.decision = d, !.notes = n] \in Entry
          /\ [sess[s].read EXCEPT !.decision = d, !.notes = n].shared = sess[s].read.shared
      BY <2>0 DEF Entry
    <3>3. QED
      BY <1>3, <3>1, <3>2
  <2>2. CASE ScheduleWrite(s)
    <3> DEFINE new == [sess[s].read EXCEPT !.decision = "INTERVIEW_SENT",
                                           !.interview = "sent"]
    <3>1. Save(s, new)
      BY <2>2 DEF ScheduleWrite
    <3>2. new \in Entry /\ new.shared = sess[s].read.shared
      BY <2>0 DEF Entry, Decisions
    <3>3. QED
      BY <1>3, <3>1, <3>2
  <2>3. CASE ~ReviewWrite(s) /\ ~ScheduleWrite(s)
    <3>1. entry' = entry
      BY <2>3 DEF ManagerStep, ReadShared, SendInvitation, EndCheck, EndClose, Reopen, rows
    <3>2. QED BY <3>1
  <2>4. QED BY <2>1, <2>2, <2>3
<1>5. QED
  BY <1>1, <1>2, <1>4

\* The share proceeds.
LEMMA ShareStep ==
  ASSUME IInv, SharesExactly, NEW s \in Recruiters, RecruiterStep(s),
         Scorers = {}, Recruiters = {s}
  PROVE  Sharing(s)'
<1>0. /\ s \in Sessions /\ sess[s] \in Session /\ sess \in [Sessions -> Session]
      /\ Fit(sess[s], listed, invited)
      /\ entry \in [Candidates -> Entry] /\ listed \subseteq Candidates /\ Sharing(s)
  BY DEF Sessions, IInv, Rows, Plain, SharesExactly
<1>1. ASSUME NEW S \in SUBSET Candidates, ShareValidate(s, S)
      PROVE  Sharing(s)'
  <2>1. /\ sess'[s].pc = "reset" /\ sess'[s].sel = S /\ sess'[s].todo = S
        /\ S \subseteq listed' /\ listed' = listed
    BY <1>0, <1>1 DEF ShareValidate, Session, rows
  <2>2. QED
    BY <2>1 DEF Sharing
<1>2. CASE ShareReset(s)
  <2>1. ASSUME NEW c \in Candidates PROVE entry'[c].shared = "no"
    <3>1. entry[c] \in Entry /\ entry'[c] = [entry[c] EXCEPT !.shared = "no"]
      BY <1>0, <1>2 DEF ShareReset
    <3>2. QED BY <3>1 DEF Entry
  <2>2. /\ sess'[s].pc = "read" /\ sess'[s].sel = sess[s].sel
        /\ sess'[s].todo = sess[s].todo /\ sess[s].kind = "share"
        /\ sess[s].pc = "reset" /\ listed' = listed
    BY <1>0, <1>2 DEF ShareReset, GoTo, At, Session
  <2>3. QED
    BY <1>0, <2>1, <2>2 DEF Sharing, IsShared
<1>3. ASSUME NEW c \in Candidates, ShareRead(s, c)
      PROVE  Sharing(s)'
  <2>1. /\ sess[s].kind = "share" /\ sess[s].pc = "read" /\ c \in sess[s].todo
        /\ listed' = listed /\ entry' = entry
    BY <1>3 DEF ShareRead, At, rows
  <2>2. c \in listed /\ ~IsShared(c) /\ entry[c] \in Entry
    BY <1>0, <2>1 DEF Sharing
  <2>3. entry[c].shared = "no"
    BY <2>2 DEF IsShared, Entry
  <2>4. /\ sess'[s].pc = "mark" /\ sess'[s].sel = sess[s].sel
        /\ sess'[s].todo = sess[s].todo \ {c}
        /\ sess'[s].cand = c /\ sess'[s].read = entry[c]
    BY <1>0, <1>3, <2>2 DEF ShareRead, Session
  <2>5. QED
    BY <1>0, <2>1, <2>2, <2>3, <2>4 DEF Sharing, IsShared
<1>4. CASE ShareMark(s)
  <2> DEFINE c == sess[s].cand
             new == [sess[s].read EXCEPT !.shared = "yes", !.decision = "PENDING",
                                         !.notes = "none"]
             f == Flush(entry[c], sess[s].read, new)
  <2>1. /\ sess[s].kind = "share" /\ sess[s].pc = "mark" /\ listed' = listed
        /\ Save(s, new)
    BY <1>4 DEF ShareMark, At
  <2>2. c \in Candidates /\ sess[s].read \in Entry /\ entry[c] \in Entry
        /\ sess[s].read.shared = "no"
    BY <1>0, <2>1 DEF Sharing, Session
  <2>3. new \in Entry /\ new.shared = "yes"
    BY <2>2 DEF Entry, Decisions
  <2>5. entry' = [entry EXCEPT ![c] = f]
    BY <2>1 DEF Save
  <2> HIDE DEF new
  <2>4. f.shared = "yes"
    BY <2>2, <2>3, FlushType
  <2>6. /\ sess'[s].pc = "read" /\ sess'[s].sel = sess[s].sel
        /\ sess'[s].todo = sess[s].todo
    BY <1>0, <1>4 DEF ShareMark, Session
  <2> HIDE DEF f
  <2>7. ASSUME NEW d \in Candidates
        PROVE  IsShared(d)' <=> (d = c \/ IsShared(d))
    BY <1>0, <2>2, <2>4, <2>5 DEF IsShared
  <2>8. QED
    BY <1>0, <2>1, <2>6, <2>7 DEF Sharing
<1>5. ASSUME NEW c \in Candidates, ListByHand(s, c)
      PROVE  Sharing(s)'
  BY <1>0, <1>5 DEF ListByHand, At, Sharing
<1>6. CASE ShareDone(s) \/ UpdateUnshare(s)
  <2>1. sess'[s].kind = "none"
    BY <1>0, <1>6 DEF ShareDone, UpdateUnshare, Close, NoSession
  <2>2. QED BY <2>1 DEF Sharing
<1>7. CASE UpdateUnlocked(s) \/ UpdateLook(s)
  <2>1. sess'[s].kind = "update"
    BY <1>0, <1>7 DEF UpdateUnlocked, UpdateLook, GoTo, At, Session
  <2>2. QED BY <2>1 DEF Sharing
<1>8. QED
  BY <1>1, <1>2, <1>3, <1>4, <1>5, <1>6, <1>7 DEF RecruiterStep

LEMMA SharesExactlyStep ==
  ASSUME IInv, SharesExactly, [Next]_vars
  PROVE  SharesExactly'
<1> SUFFICES ASSUME Scorers = {}, NEW r \in Recruiters, Recruiters = {r}
             PROVE  Sharing(r)'
  BY DEF SharesExactly
<1>0. Sharing(r) /\ r \in Sessions /\ sess \in [Sessions -> Session]
      /\ listed \subseteq Candidates
  BY DEF SharesExactly, Sessions, IInv, Plain
<1>1. CASE UNCHANGED vars
  BY <1>0, <1>1 DEF vars, rows, Sharing, IsShared
<1>2. ASSUME NEW s \in Sessions, Ends(s)
      PROVE  Sharing(r)'
  <2>1. listed' = listed /\ entry' = entry /\ sess'[r] \in {sess[r], NoSession}
    BY <1>0, <1>2 DEF Ends, Close, rows
  <2>2. QED
    BY <1>0, <2>1 DEF Sharing, IsShared, NoSession
<1>3. ASSUME NEW s \in Sessions, NEW kind \in AnyKind, Begin(s, kind)
      PROVE  Sharing(r)'
  <2>1. /\ listed' = listed /\ entry' = entry
        /\ sess'[r] = sess[r] \/ sess'[r].pc = "begun"
    BY <1>0, <1>3 DEF Begin, rows, Session
  <2>2. QED
    BY <1>0, <2>1 DEF Sharing, IsShared
<1>4. ASSUME NEW s \in Recruiters, RecruiterStep(s)
      PROVE  Sharing(r)'
  <2>1. RecruiterStep(r)
    BY <1>4
  <2>2. QED
    BY <2>1, ShareStep
<1>5. ASSUME NEW s \in Managers, ManagerStep(s)
      PROVE  Sharing(r)'
  <2>1. /\ listed' = listed /\ sess'[r] = sess[r]
        /\ \A c \in Candidates : IsShared(c)' <=> IsShared(c)
    BY <1>5, ManagerLeavesShares DEF IsShared
  <2>2. QED
    BY <1>0, <2>1 DEF Sharing
<1>6. QED
  BY <1>1, <1>2, <1>3, <1>4, <1>5 DEF Next

\* The answer to a share finds exactly the selected candidates shared.
THEOREM ShareIsExact == Spec => SharedAsSelected
<1>1. Init => SharesExactly
  BY DEF Init, SharesExactly, Sharing, NoSession, Sessions
<1>2. IInv /\ SharesExactly /\ [Next]_vars =>
        [\A s \in Recruiters :
           (Recruiters = {s} /\ Scorers = {} /\ ShareDone(s)) => Shared = sess[s].sel]_vars
  <2> SUFFICES ASSUME IInv, SharesExactly, NEW s \in Recruiters, Recruiters = {s},
                      Scorers = {}, ShareDone(s)
               PROVE  Shared = sess[s].sel
    OBVIOUS
  <2>1. /\ Sharing(s) /\ sess[s].kind = "share" /\ sess[s].pc = "read"
        /\ sess[s].todo = {} /\ listed \subseteq Candidates
    BY DEF SharesExactly, ShareDone, At, IInv, Plain
  <2>2. QED
    BY <2>1 DEF Sharing, Shared, IsShared
<1>3. QED
  BY <1>1, <1>2, SharesExactlyStep, SessionsFit, PTL DEF Spec, SharedAsSelected

-----------------------------------------------------------------------------
(* A closed campaign.                                                      *)

\* A session that is not new is of the kind it was.
Continues(t) ==
  sess'[t].pc # "idle" => sess[t].pc # "idle" /\ sess'[t].kind = sess[t].kind

LEMMA OneContinues ==
  ASSUME IInv, NEW s \in Sessions, NEW t \in Sessions, NEW q,
         sess' = [sess EXCEPT ![s] = q],
         q = NoSession \/ (sess[s].pc # "idle" /\ q.kind = sess[s].kind)
  PROVE  Continues(t)
<1>1. sess'[t] = IF t = s THEN q ELSE sess[t]
  BY DEF IInv
<1>2. NoSession.pc = "idle"
  BY DEF NoSession
<1>3. QED
  BY <1>1, <1>2 DEF Continues

LEMMA GoContinues ==
  ASSUME IInv, NEW s \in Sessions, NEW t \in Sessions,
         Close(s) \/ (sess[s].pc # "idle" /\ \E pc \in PCs : GoTo(s, pc))
  PROVE  Continues(t)
<1>1. CASE Close(s)
  BY <1>1, OneContinues DEF Close
<1>2. ASSUME NEW pc \in PCs, GoTo(s, pc), sess[s].pc # "idle"
      PROVE  Continues(t)
  <2>1. [sess[s] EXCEPT !.pc = pc].kind = sess[s].kind
    BY DEF IInv, Session
  <2>2. QED
    BY <1>2, <2>1, OneContinues DEF GoTo
<1>3. QED
  BY <1>1, <1>2

LEMMA RecruiterContinues ==
  ASSUME IInv, NEW s \in Recruiters, NEW t \in Sessions, RecruiterStep(s)
  PROVE  Continues(t)
<1>0. s \in Sessions /\ sess[s] \in Session /\ sess \in [Sessions -> Session]
  BY DEF IInv, Sessions
<1>1. ASSUME NEW S \in SUBSET Candidates, ShareValidate(s, S)
      PROVE  Continues(t)
  <2> DEFINE q == [sess[s] EXCEPT !.pc = "reset", !.sel = S, !.todo = S]
  <2>1. q.kind = sess[s].kind /\ sess[s].pc # "idle" /\ sess' = [sess EXCEPT ![s] = q]
    BY <1>0, <1>1 DEF ShareValidate, At, Session
  <2>2. QED BY <1>0, <2>1, OneContinues
<1>2. ASSUME NEW c \in Candidates, ShareRead(s, c)
      PROVE  Continues(t)
  <2> DEFINE q == [sess[s] EXCEPT
                     !.todo = sess[s].todo \ {c},
                     !.pc = IF c \in listed THEN "mark" ELSE "read",
                     !.cand = IF c \in listed THEN c ELSE NoCandidate,
                     !.row = IF c \in listed THEN "held" ELSE "none",
                     !.read = entry[c]]
  <2>1. q.kind = sess[s].kind /\ sess[s].pc # "idle"
    BY <1>0, <1>2 DEF ShareRead, At, Session
  <2>2. sess' = [sess EXCEPT ![s] = q]
    BY <1>2 DEF ShareRead
  <2>3. QED BY <1>0, <2>1, <2>2, OneContinues
<1>3. CASE ShareMark(s)
  <2> DEFINE q == [sess[s] EXCEPT !.pc = "read", !.row = "none"]
  <2>1. q.kind = sess[s].kind /\ sess[s].pc # "idle" /\ sess' = [sess EXCEPT ![s] = q]
    BY <1>0, <1>3 DEF ShareMark, At, Session
  <2>2. QED BY <1>0, <2>1, OneContinues
<1>4. ASSUME NEW c \in Candidates, ListByHand(s, c)
      PROVE  Continues(t)
  BY <1>4 DEF ListByHand, Continues
<1>5. CASE ShareReset(s) \/ ShareDone(s) \/ UpdateUnlocked(s) \/ UpdateLook(s)
           \/ UpdateUnshare(s)
  <2>1. Close(s) \/ (sess[s].pc # "idle" /\ \E pc \in PCs : GoTo(s, pc))
    BY <1>5 DEF ShareReset, ShareDone, UpdateUnlocked, UpdateLook, UpdateUnshare, At, PCs
  <2>2. QED BY <1>0, <2>1, GoContinues
<1>6. QED
  BY <1>1, <1>2, <1>3, <1>4, <1>5 DEF RecruiterStep

LEMMA ManagerContinues ==
  ASSUME IInv, NEW s \in Managers, NEW t \in Sessions, ManagerStep(s)
  PROVE  Continues(t)
<1>0. s \in Sessions /\ sess[s] \in Session
  BY DEF IInv, Sessions
<1>1. ASSUME NEW c \in Candidates, ReadShared(s, c)
      PROVE  Continues(t)
  <2> DEFINE q == [sess[s] EXCEPT
                     !.cand = c, !.row = "held", !.read = entry[c],
                     !.pc = IF sess[s].kind = "review" THEN "write" ELSE "email"]
  <2>1. q.kind = sess[s].kind /\ sess[s].pc # "idle"
    BY <1>0, <1>1 DEF ReadShared, Session
  <2>2. sess' = [sess EXCEPT ![s] = q]
    BY <1>1 DEF ReadShared, Hold
  <2>3. QED BY <1>0, <2>1, <2>2, OneContinues
<1>2. CASE ~\E c \in Candidates : ReadShared(s, c)
  <2>1. Close(s) \/ (sess[s].pc # "idle" /\ \E pc \in PCs : GoTo(s, pc))
    BY <1>2 DEF ManagerStep, ReviewWrite, SendInvitation, ScheduleWrite, EndCheck,
       EndClose, Reopen, At, PCs
  <2>2. QED BY <1>0, <2>1, GoContinues
<1>3. QED
  BY <1>1, <1>2

LEMMA ScorerContinues ==
  ASSUME IInv, NEW s \in Scorers, NEW t \in Sessions, ScorerStep(s)
  PROVE  Continues(t)
<1>0. s \in Sessions /\ sess[s] \in Session /\ sess \in [Sessions -> Session]
  BY DEF IInv, Sessions
<1>1. ASSUME NEW S \in SUBSET Candidates, Scored(s, S)
      PROVE  Continues(t)
  <2> DEFINE q == [sess[s] EXCEPT
                     !.sel = S, !.todo = S,
                     !.pc = IF S # {} THEN "scores"
                            ELSE IF sess[s].kind = "run" THEN "prune" ELSE "activate"]
  <2>1. q.kind = sess[s].kind /\ sess[s].pc # "idle"
    BY <1>0, <1>1 DEF Scored, Session
  <2>2. sess' = [sess EXCEPT ![s] = q]
    BY <1>1 DEF Scored
  <2>3. QED BY <1>0, <2>1, <2>2, OneContinues
<1>2. ASSUME NEW c \in Candidates, UpsertScore(s, c)
      PROVE  Continues(t)
  <2> DEFINE q == [sess[s] EXCEPT
                     !.pc = IF sess[s].todo = {c} THEN "entries" ELSE sess[s].pc,
                     !.todo = IF sess[s].todo = {c} THEN sess[s].sel
                              ELSE sess[s].todo \ {c}]
  <2>1. q.kind = sess[s].kind /\ sess[s].pc # "idle"
    BY <1>0, <1>2 DEF UpsertScore, Session
  <2>2. sess' = [sess EXCEPT ![s] = q]
    BY <1>2 DEF UpsertScore
  <2>3. QED BY <1>0, <2>1, <2>2, OneContinues
<1>3. ASSUME NEW c \in Candidates, UpsertEntry(s, c)
      PROVE  Continues(t)
  <2> DEFINE q == [sess[s] EXCEPT
                     !.pc = IF sess[s].todo # {c} THEN sess[s].pc
                            ELSE IF sess[s].kind = "run" THEN "prune" ELSE "activate",
                     !.todo = sess[s].todo \ {c}]
  <2>1. q.kind = sess[s].kind /\ sess[s].pc # "idle"
    BY <1>0, <1>3 DEF UpsertEntry, Session
  <2>2. sess' = [sess EXCEPT ![s] = q]
    BY <1>3 DEF UpsertEntry
  <2>3. QED BY <1>0, <2>1, <2>2, OneContinues
<1>4. CASE sess[s].pc = "prune" /\ DeleteEntries(s, "pruneNext")
  <2>1. sess'[t].kind = sess[t].kind /\ (sess'[t].pc = sess[t].pc \/ t = s)
    BY <1>0, <1>4 DEF DeleteEntries, Session
  <2>2. QED
    BY <1>4, <2>1 DEF Continues
<1>5. CASE \/ sess[s].pc = "pruneNext" /\ DeleteScores(s, "activate")
           \/ NobodyAcquired(s) \/ NobodySelected(s) \/ Reauthorise(s) \/ Activate(s)
  <2>1. Close(s) \/ (sess[s].pc # "idle" /\ \E pc \in PCs : GoTo(s, pc))
    BY <1>5 DEF DeleteScores, NobodyAcquired, NobodySelected, Reauthorise, Activate, At, PCs
  <2>2. QED BY <1>0, <2>1, GoContinues
<1>6. CASE PresumeLost(s)
  BY <1>6 DEF PresumeLost, Continues
<1>7. QED
  BY <1>1, <1>2, <1>3, <1>4, <1>5, <1>6 DEF ScorerStep, Prune

LEMMA KindStays ==
  ASSUME IInv, Next, NEW t \in Sessions, ~\E kind \in AnyKind : Begin(t, kind)
  PROVE  Continues(t)
<1>1. ASSUME NEW s \in Sessions, Ends(s)
      PROVE  Continues(t)
  BY <1>1, GoContinues DEF Ends
<1>2. ASSUME NEW s \in Sessions, NEW kind \in AnyKind, Begin(s, kind)
      PROVE  Continues(t)
  <2>1. s # t
    BY <1>2
  <2>2. sess'[t] = sess[t]
    BY <1>2, <2>1 DEF Begin, IInv
  <2>3. QED BY <2>2 DEF Continues
<1>3. QED
  BY <1>1, <1>2, RecruiterContinues, ManagerContinues, ScorerContinues DEF Next

LEMMA NobodyStartsWriting ==
  ASSUME IInv, Next, jd = "CLOSED", NEW s \in Sessions, Writing(s)'
  PROVE  Writing(s)
<1>1. ASSUME NEW kind \in AnyKind, Begin(s, kind)
      PROVE  FALSE
  <2>1. kind \in {"reopen", "schedule"}
    BY <1>1 DEF Begin, Admits
  <2>2. sess'[s].kind = kind
    BY <1>1 DEF Begin, IInv, Session
  <2>3. QED
    BY <2>1, <2>2 DEF Writing
<1>2. sess'[s].pc # "idle" /\ sess'[s].kind \notin {"schedule", "end", "reopen"}
  BY DEF Writing
<1>3. QED
  BY <1>1, <1>2, KindStays DEF Continues, Writing

\* The recruiter's requests and the runs write, except that a task may be
\* presumed lost.
LEMMA WritersWrite ==
  ASSUME IInv, NEW s \in Sessions,
         \/ s \in Recruiters /\ RecruiterStep(s)
         \/ s \in Scorers /\ ScorerStep(s) /\ ~PresumeLost(s)
         \/ s \in Managers /\ ReviewWrite(s)
  PROVE  Writing(s)
<1>1. CASE RecruiterStep(s)
  BY <1>1 DEF RecruiterStep, ShareValidate, ShareRead, ListByHand, ShareReset,
     ShareMark, ShareDone, UpdateUnlocked, UpdateLook, UpdateUnshare, At, Writing
<1>2. CASE ScorerStep(s) /\ ~PresumeLost(s)
  <2>1. sess[s].pc # "idle" /\ sess[s].kind \in ScorerKinds
    BY <1>2 DEF ScorerStep, Scored, UpsertScore, UpsertEntry, NobodyAcquired,
       NobodySelected, Reauthorise, Prune, Activate, At, ScorerKinds, IInv, Fit, ScorerPCs
  <2>2. QED
    BY <2>1 DEF Writing, ScorerKinds
<1>3. CASE ReviewWrite(s)
  BY <1>3 DEF ReviewWrite, At, Writing
<1>4. QED
  BY <1>1, <1>2, <1>3

\* An interview may still be scheduled.
LEMMA ScheduleDecides ==
  ASSUME IInv, NEW s \in Managers, ScheduleWrite(s), NEW c \in Candidates
  PROVE  entry'[c].decision \in {entry[c].decision, "INTERVIEW_SENT"}
<1> DEFINE d == sess[s].cand
           new == [sess[s].read EXCEPT !.decision = "INTERVIEW_SENT", !.interview = "sent"]
           f == Flush(entry[d], sess[s].read, new)
<1>1. /\ sess[s] \in Session /\ Fit(sess[s], listed, invited)
      /\ entry \in [Candidates -> Entry] /\ listed \subseteq Candidates
  BY DEF IInv, Rows, Plain, Sessions
<1>2. Save(s, new)
  BY DEF ScheduleWrite
<1>3. /\ d \in Candidates /\ sess[s].read \in Entry /\ entry[d] \in Entry
      /\ entry' = [entry EXCEPT ![d] = f]
  BY <1>1, <1>2 DEF Save, Fit, Session
<1>4. new \in Entry /\ new.decision = "INTERVIEW_SENT"
  BY <1>3 DEF Entry, Decisions
<1> HIDE DEF d, new
<1>5. f.decision \in {entry[d].decision, "INTERVIEW_SENT"}
  BY <1>3, <1>4, FlushType
<1> HIDE DEF f
<1>6. QED
  BY <1>1, <1>3, <1>5

LEMMA ClosedStep ==
  ASSUME IInv, Next, jd = "CLOSED", \A s \in Sessions : ~Writing(s)
  PROVE  /\ jd' # "CLOSED" => \E s \in Managers : At(s, "reopen", "begun")
         /\ listed' = listed /\ scored' = scored
         /\ \A c \in listed :
              /\ entry'[c].shared = entry[c].shared
              /\ entry'[c].decision \in {entry[c].decision, "INTERVIEW_SENT"}
<1>1. CASE UNCHANGED rows
  BY <1>1 DEF rows
<1>2. ASSUME NEW s \in Managers, ManagerStep(s)
      PROVE  /\ jd' # "CLOSED" => \E t \in Managers : At(t, "reopen", "begun")
             /\ listed' = listed /\ scored' = scored
             /\ \A c \in listed :
                  /\ entry'[c].shared = entry[c].shared
                  /\ entry'[c].decision \in {entry[c].decision, "INTERVIEW_SENT"}
  <2>1. ~ReviewWrite(s)
    BY WritersWrite DEF Sessions
  <2>2. scored' = scored
    BY <1>2 DEF ManagerStep, ReadShared, ReviewWrite, SendInvitation, ScheduleWrite,
       EndCheck, EndClose, Reopen, rows
  <2>3. jd' # "CLOSED" => At(s, "reopen", "begun")
    BY <1>2 DEF ManagerStep, ReadShared, ReviewWrite, SendInvitation, ScheduleWrite,
       EndCheck, EndClose, Reopen, rows
  <2>4. ASSUME NEW c \in listed
        PROVE  entry'[c].decision \in {entry[c].decision, "INTERVIEW_SENT"}
    <3>1. c \in Candidates
      BY DEF IInv, Plain
    <3>2. CASE ScheduleWrite(s)
      BY <3>1, <3>2, ScheduleDecides
    <3>3. CASE ~ScheduleWrite(s)
      <4>1. entry' = entry
        BY <1>2, <2>1, <3>3 DEF ManagerStep, ReadShared, SendInvitation, EndCheck,
           EndClose, Reopen, rows
      <4>2. QED BY <4>1
    <3>4. QED BY <3>2, <3>3
  <2>5. listed \subseteq Candidates
    BY DEF IInv, Plain
  <2>6. QED
    BY <1>2, <2>2, <2>3, <2>4, <2>5, ManagerLeavesShares
<1>3. ASSUME NEW s \in Sessions,
             \/ Ends(s) \/ \E kind \in AnyKind : Begin(s, kind)
             \/ PresumeLost(s)
      PROVE  UNCHANGED rows
  BY <1>3 DEF Ends, Begin, PresumeLost
<1>4. QED
  BY <1>1, <1>2, <1>3, WritersWrite DEF Next, Sessions

\* A closed campaign gains no writers, and without writers it is frozen.
THEOREM ClosedIsFrozen == Spec => ClosedFrozen
<1>1. IInv /\ [Next]_vars => [ClosedStays]_vars
  BY NobodyStartsWriting, ClosedStep DEF ClosedStays
<1>2. QED
  BY <1>1, SessionsFit, PTL DEF Spec, ClosedFrozen
=============================================================================
