------------------------ MODULE GroqRotation_proofs ------------------------
(***************************************************************************)
(* Theorems about GroqRotation for any number of keys, of calls, and any   *)
(* cooldowns.                                                              *)
(***************************************************************************)
EXTENDS GroqRotation, WellFoundedInduction, TLAPS

LEMMA Minimum ==
  ASSUME NEW T \in SUBSET Nat, T # {}
  PROVE  \E x \in T : \A y \in T : x <= y
<1>1. PICK x \in T : \A y \in T : ~(<<y, x>> \in OpToRel(<, Nat))
  BY NatLessThanWellFounded, WFMin
<1>2. \A y \in T : ~(y < x)
  BY <1>1 DEF OpToRel
<1>3. QED
  BY <1>2

LEMMA AheadType ==
  ASSUME NEW s \in Keys, NEW k \in Keys
  PROVE  Ahead(s, k) \in 0..(NumKeys - 1)
BY ConstantsOK DEF Ahead, Keys

LEMMA NextType == \A k \in Keys : Next1(k) \in Keys
BY ConstantsOK DEF Next1, Keys

\* While a key is free, the free key that comes first is selected.
LEMMA SelectFree ==
  ASSUME now \in Nat, NEW cds \in [Keys -> Nat], NEW from \in Keys, Free(cds) # {}
  PROVE  /\ Select(cds, from) \in Free(cds)
         /\ \A j \in Free(cds) : Ahead(from, Select(cds, from)) <= Ahead(from, j)
<1> DEFINE T == {Ahead(from, k) : k \in Free(cds)}
<1>1. T \in SUBSET Nat /\ T # {}
  BY AheadType DEF Free
<1>2. PICK k \in Free(cds) : \A x \in T : Ahead(from, k) <= x
  BY <1>1, Minimum
<1>3. \E i \in Free(cds) : \A j \in Free(cds) : Ahead(from, i) <= Ahead(from, j)
  BY <1>2
<1>4. QED
  BY <1>3 DEF Select

\* When all keys rest, one of those that rest the shortest is.
LEMMA SelectResting ==
  ASSUME now \in Nat, NEW cds \in [Keys -> Nat], NEW from \in Keys, Free(cds) = {}
  PROVE  /\ Select(cds, from) \in Keys
         /\ \A k \in Keys : cds[Select(cds, from)] <= cds[k]
<1> DEFINE T == {cds[k] : k \in Keys}
<1>1. Keys # {} /\ T \in SUBSET Nat /\ T # {}
  BY ConstantsOK DEF Keys
<1>2. PICK m \in T : \A x \in T : m <= x
  BY <1>1, Minimum
<1> DEFINE K == {k \in Keys : cds[k] = m}
<1>3. K \in SUBSET Nat /\ K # {}
  BY <1>2, ConstantsOK DEF Keys
<1>4. PICK k \in K : \A j \in K : k <= j
  BY <1>3, Minimum
<1>5. \A j \in Keys : cds[k] < cds[j] \/ (cds[k] = cds[j] /\ k <= j)
  <2> TAKE j \in Keys
  <2>1. cds[j] \in Nat /\ cds[j] \in T /\ cds[k] = m /\ m \in Nat
    BY <1>1, <1>4
  <2>2. m <= cds[j]
    BY <1>2, <2>1
  <2>3. cds[j] = m => k <= j
    BY <1>4
  <2>4. QED
    BY <2>1, <2>2, <2>3
<1>6. \E i \in Keys : \A j \in Keys : cds[i] < cds[j] \/ (cds[i] = cds[j] /\ i <= j)
  BY <1>4, <1>5
<1>7. QED
  BY <1>6 DEF Select

\* Either way a key is selected, and when it rests all others rest as long.
Freshest(cds, k) == now >= cds[k] \/ \A j \in Keys : cds[k] <= cds[j]

LEMMA Selected ==
  ASSUME now \in Nat, NEW cds \in [Keys -> Nat], NEW from \in Keys
  PROVE  Select(cds, from) \in Keys /\ Freshest(cds, Select(cds, from))
<1>1. CASE Free(cds) = {}
  BY <1>1, SelectResting DEF Freshest
<1>2. CASE Free(cds) # {}
  BY <1>2, SelectFree DEF Free, Freshest
<1>3. QED
  BY <1>1, <1>2

\* The cooldowns after a rate limit.
LEMMA Rested ==
  ASSUME TypeOK, NEW c \in Calls, NEW rest \in Cooldowns
  PROVE  [cooldown EXCEPT ![active[c]] = now + rest] \in [Keys -> Nat]
<1>1. now + rest \in Nat
  BY ConstantsOK DEF TypeOK
<1>2. QED
  BY <1>1 DEF TypeOK

\* A call that has not been sent yet has no failed attempt.
Fresh == \A c \in Calls : pc[c] = "built" => attempts[c] = 0

LEMMA TypeInit == Init => TypeOK /\ Fresh
BY ConstantsOK DEF Init, TypeOK, Fresh, Keys, PCs, Ended

LEMMA TypeStep ==
  ASSUME TypeOK, Fresh, [Next]_vars
  PROVE  TypeOK' /\ Fresh'
<1> USE DEF TypeOK, Fresh
<1>1. ASSUME NEW c \in Calls, Construct(c)
      PROVE  TypeOK' /\ Fresh'
  <2>1. now \in Nat /\ cooldown \in [Keys -> Nat] /\ current \in Keys
    OBVIOUS
  <2>2. Select(cooldown, current) \in Keys
    BY <2>1, Selected
  <2> DEFINE k == Select(cooldown, current)
  <2>3. /\ current' = k /\ client' = [client EXCEPT ![c] = k]
        /\ pc' = [pc EXCEPT ![c] = "built"]
        /\ attempts' = [attempts EXCEPT ![c] = 0]
        /\ tired' = [tired EXCEPT ![c] = {}]
        /\ UNCHANGED <<cooldown, now, active>>
    BY <1>1 DEF Construct
  <2> HIDE DEF k
  <2>4. k \in Keys
    BY <2>2 DEF k
  <2>5. QED
    BY <2>3, <2>4, ConstantsOK DEF PCs, Ended
<1>2. ASSUME NEW c \in Calls, Invoke(c)
      PROVE  TypeOK' /\ Fresh'
  <2>1. attempts[c] = 0
    BY <1>2 DEF Invoke
  <2>2. QED
    BY <1>2, <2>1, ConstantsOK DEF Invoke, shared, PCs, Ended
<1>3. ASSUME NEW c \in Calls, Succeed(c) \/ Fail(c)
      PROVE  TypeOK' /\ Fresh'
  BY <1>3 DEF Succeed, Fail, shared, PCs, Ended
<1>4. ASSUME NEW c \in Calls, NEW rest \in Cooldowns, RateLimited(c, rest)
      PROVE  TypeOK' /\ Fresh'
  <2> DEFINE cds == [cooldown EXCEPT ![active[c]] = now + rest]
             k == Select(cds, Next1(active[c]))
  <2>1. cds \in [Keys -> Nat]
    BY Rested
  <2>2. k \in Keys
    BY <2>1, NextType, Selected
  <2>3. attempts[c] \in Nat /\ attempts[c] < NumKeys
    BY <1>4 DEF RateLimited
  <2>4. /\ cooldown' = cds /\ current' = k /\ now' = now
        /\ client' = [client EXCEPT ![c] = k]
        /\ active' = [active EXCEPT ![c] = k]
        /\ attempts' = [attempts EXCEPT ![c] = attempts[c] + 1]
        /\ pc' = [pc EXCEPT ![c] = IF attempts[c] + 1 = NumKeys THEN "exhausted"
                                  ELSE pc[c]]
        /\ tired' = [tired EXCEPT ![c] =
                       tired[c] \cup {active[c]} \cup (Keys \ Free(cooldown))]
    BY <1>4 DEF RateLimited
  <2> HIDE DEF cds, k
  <2>5. attempts' \in [Calls -> 0..NumKeys]
    BY <2>3, <2>4, ConstantsOK
  <2>6. pc' \in [Calls -> PCs]
    BY <2>4 DEF PCs, Ended
  <2>7. tired' \in [Calls -> SUBSET Keys]
    BY <2>4
  <2>8. \A d \in Calls : pc'[d] = "sent" => attempts'[d] < NumKeys
    BY <2>3, <2>4, ConstantsOK
  <2>9. \A d \in Calls : pc'[d] = "built" => attempts'[d] = 0
    <3>1. pc[c] = "sent"
      BY <1>4 DEF RateLimited
    <3>2. QED
      BY <2>4, <3>1
  <2>10. QED
    BY <2>1, <2>2, <2>4, <2>5, <2>6, <2>7, <2>8, <2>9
<1>5. CASE Tick
  BY <1>5, ConstantsOK DEF Tick, shared, perCall
<1>6. CASE UNCHANGED vars
  BY <1>6 DEF vars, shared, perCall
<1>7. QED
  BY <1>1, <1>2, <1>3, <1>4, <1>5, <1>6 DEF Next, Answered

\* The keys, the clock and the calls are well typed.
THEOREM TypeCorrect == Spec => [](TypeOK /\ Fresh)
BY TypeInit, TypeStep, PTL DEF Spec

-----------------------------------------------------------------------------
(* The blame.                                                              *)

\* The credentials are synchronised whenever the key in use changes, so the
\* key that is put to rest is the one the request was sent with.
THEOREM BlameStaysFair == Spec => []BlameIsFair
<1>1. Init => BlameIsFair
  BY DEF Init, BlameIsFair
<1>2. TypeOK /\ BlameIsFair /\ [Next]_vars => BlameIsFair'
  <2> SUFFICES ASSUME TypeOK, BlameIsFair, [Next]_vars
               PROVE  BlameIsFair'
    OBVIOUS
  <2> USE DEF TypeOK, BlameIsFair
  <2>1. ASSUME NEW c \in Calls, Construct(c)
        PROVE  BlameIsFair'
    BY <2>1 DEF Construct
  <2>2. ASSUME NEW c \in Calls, Invoke(c)
        PROVE  BlameIsFair'
    BY <2>2 DEF Invoke, shared
  <2>3. ASSUME NEW c \in Calls, Succeed(c) \/ Fail(c)
        PROVE  BlameIsFair'
    BY <2>3 DEF Succeed, Fail
  <2>4. ASSUME NEW c \in Calls, NEW rest \in Cooldowns, RateLimited(c, rest)
        PROVE  BlameIsFair'
    BY <2>4 DEF RateLimited
  <2>5. CASE Tick \/ UNCHANGED vars
    BY <2>5 DEF Tick, vars, shared, perCall
  <2>6. QED
    BY <2>1, <2>2, <2>3, <2>4, <2>5 DEF Next, Answered
<1>3. QED
  BY <1>1, <1>2, TypeCorrect, PTL DEF Spec

-----------------------------------------------------------------------------
(* The rest.                                                               *)

\* The current key is free, or rests no longer than any other: of all keys
\* it is then the first to be free again.
CurrentIsFreshest == Freshest(cooldown, current)

LEMMA FreshestStep ==
  ASSUME TypeOK, CurrentIsFreshest, [Next]_vars
  PROVE  CurrentIsFreshest'
<1>1. ASSUME NEW c \in Calls, Construct(c)
      PROVE  CurrentIsFreshest'
  <2>1. now \in Nat /\ cooldown \in [Keys -> Nat] /\ current \in Keys
    BY DEF TypeOK
  <2>2. Freshest(cooldown, Select(cooldown, current))
    BY <2>1, Selected
  <2>3. current' = Select(cooldown, current) /\ cooldown' = cooldown /\ now' = now
    BY <1>1 DEF Construct
  <2>4. QED
    BY <2>2, <2>3 DEF CurrentIsFreshest, Freshest
<1>2. ASSUME NEW c \in Calls, Invoke(c) \/ Succeed(c) \/ Fail(c)
      PROVE  CurrentIsFreshest'
  BY <1>2 DEF Invoke, Succeed, Fail, shared, CurrentIsFreshest, Freshest
<1>3. ASSUME NEW c \in Calls, NEW rest \in Cooldowns, RateLimited(c, rest)
      PROVE  CurrentIsFreshest'
  <2> DEFINE cds == [cooldown EXCEPT ![active[c]] = now + rest]
  <2>1. now \in Nat /\ active[c] \in Keys /\ cds \in [Keys -> Nat]
    BY Rested DEF TypeOK
  <2>2. Freshest(cds, Select(cds, Next1(active[c])))
    BY <2>1, NextType, Selected
  <2>3. /\ cooldown' = cds /\ now' = now
        /\ current' = Select(cds, Next1(active[c]))
    BY <1>3 DEF RateLimited
  <2> HIDE DEF cds
  <2>4. QED
    BY <2>2, <2>3 DEF CurrentIsFreshest, Freshest
<1>4. CASE Tick
  BY <1>4 DEF Tick, TypeOK, shared, CurrentIsFreshest, Freshest
<1>5. CASE UNCHANGED vars
  BY <1>5 DEF vars, shared, CurrentIsFreshest, Freshest
<1>6. QED
  BY <1>1, <1>2, <1>3, <1>4, <1>5 DEF Next, Answered

LEMMA FreshestInit == Init => CurrentIsFreshest
BY ConstantsOK DEF Init, CurrentIsFreshest, Freshest, Keys

LEMMA SendsWithCurrent ==
  ASSUME TypeOK, Next, NEW c \in Calls, Sends(c)
  PROVE  client'[c] = current' /\ now' = now
<1> USE DEF TypeOK, Sends
<1>1. ASSUME NEW d \in Calls, Construct(d)
      PROVE  FALSE
  BY <1>1 DEF Construct
<1>2. ASSUME NEW d \in Calls, Invoke(d)
      PROVE  client'[c] = current' /\ now' = now
  BY <1>2 DEF Invoke, shared
<1>3. ASSUME NEW d \in Calls, Succeed(d) \/ Fail(d)
      PROVE  FALSE
  BY <1>3 DEF Succeed, Fail
<1>4. ASSUME NEW d \in Calls, NEW rest \in Cooldowns, RateLimited(d, rest)
      PROVE  client'[c] = current' /\ now' = now
  <2>1. d = c
    BY <1>4 DEF RateLimited
  <2>2. QED
    BY <1>4, <2>1 DEF RateLimited
<1>5. CASE Tick
  BY <1>5 DEF Tick, perCall
<1>6. QED
  BY <1>1, <1>2, <1>3, <1>4, <1>5 DEF Next, Answered

\* No request is sent with a resting key while another one is free.
THEOREM RestingKeysAreSpared == Spec => RestingKeysRest
<1>1. TypeOK /\ TypeOK' /\ CurrentIsFreshest' /\ [Next]_vars => [SentWithFreeKey]_vars
  <2> SUFFICES ASSUME TypeOK, TypeOK', CurrentIsFreshest', Next
               PROVE  SentWithFreeKey
    OBVIOUS
  <2>1. now' >= cooldown'[current'] \/ \A k \in Keys : now' < cooldown'[k]
    <3>1. /\ now' \in Nat /\ current' \in Keys /\ \A k \in Keys : cooldown'[k] \in Nat
      BY DEF TypeOK
    <3>2. QED
      BY <3>1 DEF CurrentIsFreshest, Freshest
  <2>2. QED
    BY <2>1, SendsWithCurrent DEF SentWithFreeKey
<1>2. QED
  BY <1>1, TypeCorrect, FreshestInit, FreshestStep, PTL DEF Spec, RestingKeysRest

-----------------------------------------------------------------------------
(* Giving up.                                                              *)

\* The keys from s on around the ring, up to but not including k, are in T.
Passed(s, k, T) == \A j \in Keys : Ahead(s, j) < Ahead(s, k) => j \in T

\* A key between s and k is before a, is a, or is between a's successor and
\* k; when k is not beyond a, this is so of every key.
LEMMA Ring ==
  ASSUME NEW s \in Keys, NEW a \in Keys, NEW k \in Keys, NEW j \in Keys,
         Ahead(s, j) < Ahead(s, k) \/ Ahead(s, k) <= Ahead(s, a)
  PROVE  \/ Ahead(s, j) < Ahead(s, a) \/ j = a
         \/ Ahead(Next1(a), j) < Ahead(Next1(a), k)
BY ConstantsOK DEF Ahead, Next1, Keys

\* One turn: either the ring has been gone round, or the turn has advanced.
LEMMA Turn ==
  ASSUME NEW s \in Keys, NEW a \in Keys, NEW k \in Keys,
         NEW S \in SUBSET Keys, NEW T \in SUBSET Keys, S \subseteq T, a \in T,
         Passed(s, a, S), Passed(Next1(a), k, T)
  PROVE  T = Keys \/ (Ahead(s, a) < Ahead(s, k) /\ Passed(s, k, T))
<1>1. Ahead(s, a) \in Nat /\ Ahead(s, k) \in Nat
  BY AheadType
<1>2. CASE Ahead(s, k) <= Ahead(s, a)
  <2>1. ASSUME NEW j \in Keys PROVE j \in T
    BY <1>2, Ring DEF Passed
  <2>2. QED BY <2>1
<1>3. CASE Ahead(s, a) < Ahead(s, k)
  <2>1. ASSUME NEW j \in Keys, Ahead(s, j) < Ahead(s, k) PROVE j \in T
    BY <2>1, Ring DEF Passed
  <2>2. QED BY <1>3, <2>1 DEF Passed
<1>4. QED
  BY <1>1, <1>2, <1>3

\* Where a call stands: every key is tired, or those it has gone through
\* since its first one are, which are as many as its failed attempts.
Turning(n, k, T) ==
  T = Keys \/ \E s \in Keys : n <= Ahead(s, k) /\ Passed(s, k, T)

Turned ==
  \A c \in Calls : /\ pc[c] = "sent" => Turning(attempts[c], active[c], tired[c])
                   /\ pc[c] = "exhausted" => tired[c] = Keys

LEMMA TurnedLimited ==
  ASSUME TypeOK, Turned, NEW c \in Calls, NEW rest \in Cooldowns, RateLimited(c, rest)
  PROVE  Turned'
<1> DEFINE a == active[c]
           cds == [cooldown EXCEPT ![a] = now + rest]
           k == Select(cds, Next1(a))
           S == tired[c]
           T == S \cup {a} \cup (Keys \ Free(cooldown))
           n == attempts[c]
<1>1. /\ now \in Nat /\ a \in Keys /\ cds \in [Keys -> Nat]
      /\ cooldown \in [Keys -> Nat] /\ S \in SUBSET Keys
      /\ n \in Nat /\ n < NumKeys /\ pc[c] = "sent"
  BY Rested DEF TypeOK, RateLimited
<1>2. /\ active' = [active EXCEPT ![c] = k]
      /\ attempts' = [attempts EXCEPT ![c] = n + 1]
      /\ pc' = [pc EXCEPT ![c] = IF n + 1 = NumKeys THEN "exhausted" ELSE pc[c]]
      /\ tired' = [tired EXCEPT ![c] = T]
  BY DEF RateLimited
<1>3. k \in Keys /\ T \in SUBSET Keys
  BY <1>1, NextType, Selected
<1>4. ASSUME NEW j \in Keys, j \notin Free(cds) PROVE j \in T
  BY <1>1, <1>4 DEF Free
<1>5. T = Keys \/ Passed(Next1(a), k, T)
  <2>1. CASE Free(cds) = {}
    BY <1>3, <1>4, <2>1
  <2>2. CASE Free(cds) # {}
    <3>1. \A j \in Free(cds) : Ahead(Next1(a), k) <= Ahead(Next1(a), j)
      BY <1>1, <2>2, NextType, SelectFree
    <3>2. ASSUME NEW j \in Keys, Ahead(Next1(a), j) < Ahead(Next1(a), k)
          PROVE  j \notin Free(cds)
      <4>1. Ahead(Next1(a), j) \in Nat /\ Ahead(Next1(a), k) \in Nat
        BY <1>1, <1>3, NextType, AheadType
      <4> HIDE DEF k, cds, a
      <4>2. ASSUME j \in Free(cds) PROVE FALSE
        <5>1. Ahead(Next1(a), k) <= Ahead(Next1(a), j)
          BY <3>1, <4>2
        <5>2. QED BY <3>2, <4>1, <5>1
      <4>3. QED BY <4>2
    <3>3. QED
      BY <3>2, <1>4 DEF Passed
  <2>3. QED BY <2>1, <2>2
<1>6. Turning(n, a, S)
  BY <1>1 DEF Turned
<1> HIDE DEF a, cds, k, T, S, n
<1>7. Turning(n + 1, k, T)
  <2>1. CASE T = Keys
    BY <2>1 DEF Turning
  <2>2. CASE T # Keys
    <3>1. S # Keys
      BY <2>2, <1>3 DEF T
    <3>2. PICK s \in Keys : n <= Ahead(s, a) /\ Passed(s, a, S)
      BY <1>6, <3>1 DEF Turning
    <3>3. S \subseteq T /\ a \in T
      BY DEF T
    <3>4. Ahead(s, a) < Ahead(s, k) /\ Passed(s, k, T)
      BY <1>1, <1>3, <1>5, <2>2, <3>2, <3>3, Turn
    <3>5. Ahead(s, a) \in Nat /\ Ahead(s, k) \in Nat
      BY <1>1, <1>3, AheadType
    <3>6. n + 1 <= Ahead(s, k)
      BY <1>1, <3>2, <3>4, <3>5
    <3>7. QED
      BY <3>4, <3>6 DEF Turning
  <2>3. QED BY <2>1, <2>2
<1>8. n + 1 = NumKeys => T = Keys
  <2>1. \A s \in Keys : Ahead(s, k) < NumKeys
    BY <1>3, AheadType, ConstantsOK
  <2>2. QED
    BY <1>1, <1>3, <1>7, <2>1, AheadType, ConstantsOK DEF Turning
<1>9. ASSUME NEW d \in Calls
      PROVE  /\ pc'[d] = "sent" => Turning(attempts[d], active[d], tired[d])'
             /\ pc'[d] = "exhausted" => tired'[d] = Keys
  <2>1. CASE d = c
    <3>1. /\ attempts'[d] = n + 1 /\ active'[d] = k /\ tired'[d] = T
          /\ pc'[d] = IF n + 1 = NumKeys THEN "exhausted" ELSE "sent"
      BY <1>1, <1>2, <2>1 DEF TypeOK
    <3>2. QED
      BY <1>7, <1>8, <3>1 DEF Turning, Passed
  <2>2. CASE d # c
    <3>1. /\ attempts'[d] = attempts[d] /\ active'[d] = active[d]
          /\ tired'[d] = tired[d] /\ pc'[d] = pc[d]
      BY <1>2, <2>2 DEF TypeOK
    <3>2. QED
      BY <3>1 DEF Turned, Turning, Passed
  <2>3. QED BY <2>1, <2>2
<1>10. QED
  BY <1>9 DEF Turned

LEMMA TurnedStep ==
  ASSUME TypeOK, Fresh, Turned, [Next]_vars
  PROVE  Turned'
<1>1. ASSUME NEW c \in Calls, Construct(c)
      PROVE  Turned'
  <2>1. /\ active' = active
        /\ \A d \in Calls :
             /\ pc'[d] = IF d = c THEN "built" ELSE pc[d]
             /\ d # c => attempts'[d] = attempts[d] /\ tired'[d] = tired[d]
    BY <1>1 DEF Construct, TypeOK
  <2>2. QED
    BY <2>1 DEF Turned, Turning, Passed
<1>2. ASSUME NEW c \in Calls, Invoke(c)
      PROVE  Turned'
  <2>1. /\ attempts' = attempts /\ tired' = tired /\ attempts[c] = 0
        /\ current \in Keys
        /\ \A d \in Calls : /\ pc'[d] = IF d = c THEN "sent" ELSE pc[d]
                            /\ active'[d] = IF d = c THEN current ELSE active[d]
    BY <1>2 DEF Invoke, TypeOK, Fresh
  <2>2. Turning(0, current, tired[c])
    <3>1. Ahead(current, current) = 0
      BY <2>1, ConstantsOK DEF Ahead, Keys
    <3>2. ASSUME NEW j \in Keys PROVE ~(Ahead(current, j) < 0)
      BY <2>1, AheadType
    <3>3. Passed(current, current, tired[c])
      BY <3>1, <3>2 DEF Passed
    <3>4. QED
      BY <2>1, <3>1, <3>3 DEF Turning
  <2>3. QED
    BY <2>1, <2>2 DEF Turned, Turning, Passed
<1>3. ASSUME NEW c \in Calls, Succeed(c) \/ Fail(c)
      PROVE  Turned'
  <2>1. /\ attempts' = attempts /\ tired' = tired /\ active' = active
        /\ \A d \in Calls : pc'[d] \in {pc[d], "answered", "raised"}
    BY <1>3 DEF Succeed, Fail, TypeOK
  <2>2. QED
    BY <2>1 DEF Turned, Turning, Passed
<1>4. ASSUME NEW c \in Calls, NEW rest \in Cooldowns, RateLimited(c, rest)
      PROVE  Turned'
  BY <1>4, TurnedLimited
<1>5. CASE Tick \/ UNCHANGED vars
  <2>1. attempts' = attempts /\ tired' = tired /\ active' = active /\ pc' = pc
    BY <1>5 DEF Tick, vars, perCall
  <2>2. QED
    BY <2>1 DEF Turned, Turning, Passed
<1>6. QED
  BY <1>1, <1>2, <1>3, <1>4, <1>5 DEF Next, Answered

\* A call that gives up has seen each key fail or rest.
THEOREM GivingUpIsJustified == Spec => []GivesUpExhausted
<1>1. Init => Turned
  BY DEF Init, Turned
<1>2. Turned => GivesUpExhausted
  BY DEF Turned, GivesUpExhausted
<1>3. QED
  BY <1>1, <1>2, TurnedStep, TypeCorrect, PTL DEF Spec
=============================================================================
