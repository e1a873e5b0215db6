---------------------------- MODULE GroqRotation ----------------------------
(***************************************************************************)
(* The client of the language model: concurrent calls of one process that  *)
(* share, as class attributes of RotationalChatGroq, the configured API    *)
(* keys, the index of the current one and a cooldown per key.  The server  *)
(* and the sourcing service each have a copy of it.                        *)
(*                                                                         *)
(* Each call constructs a client of its own and invokes it; between the    *)
(* two, and while a request is on its way, other calls of the event loop   *)
(* run.  Time is a count of ticks; what happens between two awaits happens *)
(* at one instant.                                                         *)
(***************************************************************************)
EXTENDS Naturals

CONSTANTS
  NumKeys,   \* configured keys; a single key is never rotated
  Calls,     \* calls in flight at the same time
  Cooldowns, \* what _get_cooldown_from_error may return, in ticks
  MaxTime    \* bound on the clock

ASSUME ConstantsOK ==
  /\ NumKeys \in Nat /\ NumKeys >= 2
  /\ Cooldowns \subseteq Nat
  /\ MaxTime \in Nat

Keys == 0..(NumKeys - 1)

VARIABLES
  current,  \* _current_key_idx
  cooldown, \* _key_cooldowns: the time until which each key rests
  now,      \* the clock
  pc,       \* where each call is
  client,   \* the key in the credentials of the call's client
  active,   \* active_idx: the key the call takes itself to be using
  attempts, \* requests of the call that were rate limited
  tired     \* keys that failed in the call, or were seen resting by it

shared == <<current, cooldown>>
perCall == <<pc, client, active, attempts, tired>>
vars == <<shared, now, perCall>>

Ended == {"answered", "raised", "exhausted"}
PCs == {"idle", "built", "sent"} \cup Ended

TypeOK ==
  /\ current \in Keys
  /\ cooldown \in [Keys -> Nat]
  /\ now \in Nat
  /\ pc \in [Calls -> PCs]
  /\ client \in [Calls -> Keys]
  /\ active \in [Calls -> Keys]
  /\ attempts \in [Calls -> 0..NumKeys]
  /\ tired \in [Calls -> SUBSET Keys]
  /\ \A c \in Calls : pc[c] = "sent" => attempts[c] < NumKeys

Init ==
  /\ current = 0
  /\ cooldown = [k \in Keys |-> 0]
  /\ now = 0
  /\ pc = [c \in Calls |-> "idle"]
  /\ client = [c \in Calls |-> 0]
  /\ active = [c \in Calls |-> 0]
  /\ attempts = [c \in Calls |-> 0]
  /\ tired = [c \in Calls |-> {}]

-----------------------------------------------------------------------------
(* The choice of a key.                                                    *)

\* The steps around the ring of keys from one to another.
Ahead(from, k) == IF k >= from THEN k - from ELSE (k + NumKeys) - from

\* Mutant of Next1: the search begins with the key that has just failed.
Same(k) == k

\* The key after k in the ring.
Next1(k) == IF k = NumKeys - 1 THEN 0 ELSE k + 1

Free(cds) == {k \in Keys : now >= cds[k]}

\* Mutant of Select: the plain next key, whether or not it rests.
SelectNext(cds, from) == from

\* The first free key around the ring; when all rest, the one that rests
\* the shortest, the lowest index among equals.
Select(cds, from) ==
  IF Free(cds) # {}
  THEN CHOOSE k \in Free(cds) : \A j \in Free(cds) : Ahead(from, k) <= Ahead(from, j)
  ELSE CHOOSE k \in Keys : \A j \in Keys :
         cds[k] < cds[j] \/ (cds[k] = cds[j] /\ k <= j)

-----------------------------------------------------------------------------
(* A call.                                                                 *)

\* __init__ of the client.
Construct(c) ==
  LET k == Select(cooldown, current)
  IN /\ pc[c] \in Ended \cup {"idle"}
     /\ current' = k
     /\ client' = [client EXCEPT ![c] = k]
     /\ pc' = [pc EXCEPT ![c] = "built"]
     /\ attempts' = [attempts EXCEPT ![c] = 0]
     /\ tired' = [tired EXCEPT ![c] = {}]
     /\ UNCHANGED <<cooldown, now, active>>

\* Mutant of Invoke: the credentials chosen at construction are kept.
InvokeUnsynchronized(c) ==
  /\ pc[c] = "built"
  /\ active' = [active EXCEPT ![c] = current]
  /\ pc' = [pc EXCEPT ![c] = "sent"]
  /\ UNCHANGED <<shared, now, client, attempts, tired>>

\* _generate or _agenerate: synchronise with the current key, send.
Invoke(c) ==
  /\ pc[c] = "built"
  /\ client' = [client EXCEPT ![c] = current]
  /\ active' = [active EXCEPT ![c] = current]
  /\ pc' = [pc EXCEPT ![c] = "sent"]
  /\ UNCHANGED <<shared, now, attempts, tired>>

Succeed(c) ==
  /\ pc[c] = "sent"
  /\ pc' = [pc EXCEPT ![c] = "answered"]
  /\ UNCHANGED <<shared, now, client, active, attempts, tired>>

\* Any other exception is not retried.
Fail(c) ==
  /\ pc[c] = "sent"
  /\ pc' = [pc EXCEPT ![c] = "raised"]
  /\ UNCHANGED <<shared, now, client, active, attempts, tired>>

\* Mutant of RateLimited: the failed attempt is not counted.
RateLimitedUncounted(c, rest) ==
  LET cds == [cooldown EXCEPT ![active[c]] = now + rest]
      k   == Select(cds, Next1(active[c]))
  IN /\ pc[c] = "sent"
     /\ cooldown' = cds
     /\ current' = k
     /\ client' = [client EXCEPT ![c] = k]
     /\ active' = [active EXCEPT ![c] = k]
     /\ tired' = [tired EXCEPT ![c] =
                    @ \cup {active[c]} \cup (Keys \ Free(cooldown))]
     /\ UNCHANGED <<now, pc, attempts>>

\* Mutant of RateLimited: one attempt too many.
RateLimitedOnceMore(c, rest) ==
  LET cds == [cooldown EXCEPT ![active[c]] = now + rest]
      k   == Select(cds, Next1(active[c]))
  IN /\ pc[c] = "sent"
     /\ cooldown' = cds
     /\ current' = k
     /\ client' = [client EXCEPT ![c] = k]
     /\ active' = [active EXCEPT ![c] = k]
     /\ attempts' = [attempts EXCEPT ![c] = @ + 1]
     /\ pc' = [pc EXCEPT ![c] = IF attempts[c] = NumKeys THEN "exhausted" ELSE @]
     /\ tired' = [tired EXCEPT ![c] =
                    @ \cup {active[c]} \cup (Keys \ Free(cooldown))]
     /\ UNCHANGED now

\* RateLimitError: the key rests, the next one becomes current for all calls,
\* and the client is synchronised with it for the next attempt, if one is left.
RateLimited(c, rest) ==
  LET cds == [cooldown EXCEPT ![active[c]] = now + rest]
      k   == Select(cds, Next1(active[c]))
  IN /\ pc[c] = "sent"
     /\ cooldown' = cds
     /\ current' = k
     /\ client' = [client EXCEPT ![c] = k]
     /\ active' = [active EXCEPT ![c] = k]
     /\ attempts' = [attempts EXCEPT ![c] = @ + 1]
     /\ pc' = [pc EXCEPT ![c] = IF attempts[c] + 1 = NumKeys THEN "exhausted" ELSE @]
     /\ tired' = [tired EXCEPT ![c] =
                    @ \cup {active[c]} \cup (Keys \ Free(cooldown))]
     /\ UNCHANGED now

Tick ==
  /\ now < MaxTime
  /\ now' = now + 1
  /\ UNCHANGED <<shared, perCall>>

Answered(c) == Succeed(c) \/ Fail(c) \/ \E rest \in Cooldowns : RateLimited(c, rest)

Next ==
  \/ \E c \in Calls : Construct(c) \/ Invoke(c) \/ Answered(c)
  \/ Tick

Spec == Init /\ [][Next]_vars

\* The event loop goes on with every call, and every request is answered or
\* times out.
FairSpec == Spec /\ \A c \in Calls : WF_vars(Invoke(c) \/ Answered(c))

-----------------------------------------------------------------------------
(* What the code promises.                                                 *)

\* The key a failure is blamed on is the key the request was sent with,
\* whatever other calls have made of the current index meanwhile.
BlameIsFair == \A c \in Calls : pc[c] = "sent" => active[c] = client[c]

Sends(c) == pc'[c] = "sent" /\ (pc[c] # "sent" \/ attempts'[c] # attempts[c])

\* No request is sent with a key that rests while another one is free, even
\* when the current index was last moved by a call with an older view.
SentWithFreeKey ==
  \A c \in Calls : Sends(c) =>
     \/ now >= cooldown'[client'[c]]
     \/ \A k \in Keys : now < cooldown'[k]
RestingKeysRest == [][SentWithFreeKey]_vars

\* "All configured Groq API keys are currently rate limited" is true: each
\* key has failed in this very call or was resting during it, although other
\* calls moved the index and the cooldowns in between.
GivesUpExhausted == \A c \in Calls : pc[c] = "exhausted" => tired[c] = Keys

\* Every call ends, and none tries more often than there are keys.
EveryCallEnds == \A c \in Calls : pc[c] = "built" ~> pc[c] \in Ended
=============================================================================
