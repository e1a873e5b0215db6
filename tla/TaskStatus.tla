----------------------------- MODULE TaskStatus -----------------------------
(***************************************************************************)
(* What the users of a scoring task are promised of its status: it moves   *)
(* from PENDING over RUNNING to one outcome, and the outcome is final.     *)
(* The promise is suspended for a task that is suspected: one that looks   *)
(* lost to a recovery, or whose message the broker has handed out twice.   *)
(* Only an unsettled task can come under suspicion.                        *)
(***************************************************************************)
CONSTANT Tasks
VARIABLES status, suspected

vars == <<status, suspected>>

Init ==
  /\ status = [t \in Tasks |-> "NONE"]
  /\ suspected = {}

Becomes(t, s) ==
  /\ status' = [status EXCEPT ![t] = s]
  /\ UNCHANGED suspected

Enqueue(t) == status[t] = "NONE" /\ Becomes(t, "PENDING")

Start(t) == status[t] = "PENDING" /\ Becomes(t, "RUNNING")

Succeed(t) == status[t] = "RUNNING" /\ Becomes(t, "SUCCESS")

Fail(t) == status[t] \in {"PENDING", "RUNNING"} /\ Becomes(t, "FAILED")

\* A suspected task may be declared failed, and may prove to be alive.
Revise(t) ==
  /\ t \in suspected
  /\ \E s \in {"RUNNING", "SUCCESS", "FAILED"} : Becomes(t, s)

\* Tasks come under suspicion and are cleared of it.
Suspect ==
  /\ suspected' \subseteq Tasks
  /\ \A t \in suspected' \ suspected : status[t] \in {"PENDING", "RUNNING"}
  /\ UNCHANGED status

Next ==
  \/ \E t \in Tasks : Enqueue(t) \/ Start(t) \/ Succeed(t) \/ Fail(t) \/ Revise(t)
  \/ Suspect

Spec == Init /\ [][Next]_vars
=============================================================================
