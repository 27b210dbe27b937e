----------------------------- MODULE JobPromise -----------------------------
(***************************************************************************)
(* What the scheduler promises about each job, with no database, worker,   *)
(* snapshot or process in it.  A job waits; once it is due a round may     *)
(* claim it; a claim gives it at most one attempt, and an attempt at most  *)
(* one message; then the job waits again or is gone for good.  The owner   *)
(* can withdraw a job that waits, but not one that is claimed.             *)
(***************************************************************************)
EXTENDS Naturals

CONSTANTS Job, MaxTime

VARIABLES now, status, at, sends

vars == <<now, status, at, sends>>

Status == {"absent", "waiting", "claimed", "attempted", "gone"}

Init ==
    /\ now = 0
    /\ status = [j \in Job |-> "absent"]
    /\ at = [j \in Job |-> 0]
    /\ sends = [j \in Job |-> 0]

Tick ==
    /\ now < MaxTime
    /\ now' = now + 1
    /\ UNCHANGED <<status, at, sends>>

Register(j, t) ==
    /\ status[j] = "absent"
    /\ status' = [status EXCEPT ![j] = "waiting"]
    /\ at' = [at EXCEPT ![j] = t]
    /\ UNCHANGED <<now, sends>>

Withdraw(j) ==
    /\ status[j] = "waiting"
    /\ status' = [status EXCEPT ![j] = "gone"]
    /\ UNCHANGED <<now, at, sends>>

\* One round claims all that is due at some instant up to now, and starts
\* only when the round before it has nothing left in hand.
Claim(t) ==
    /\ t <= now
    /\ \A j \in Job : status[j] \notin {"claimed", "attempted"}
    /\ status' = [j \in Job |-> IF status[j] = "waiting" /\ at[j] <= t
                                THEN "claimed" ELSE status[j]]
    /\ UNCHANGED <<now, at, sends>>

Attempt(j) ==
    /\ status[j] = "claimed"
    /\ \A i \in Job : status[i] # "attempted"
    /\ status' = [status EXCEPT ![j] = "attempted"]
    /\ \/ UNCHANGED sends
       \/ sends' = [sends EXCEPT ![j] = @ + 1]
    /\ UNCHANGED <<now, at>>

\* Some jobs leave the round's hands: gone, or to be claimed again later.
Resolve(S) ==
    /\ \A j \in S : status[j] \in {"claimed", "attempted"}
    /\ \E T \in SUBSET S :
          status' = [j \in Job |-> IF j \in T THEN "gone"
                                   ELSE IF j \in S THEN "waiting"
                                   ELSE status[j]]
    /\ UNCHANGED <<now, at, sends>>

Next ==
    \/ Tick
    \/ \E j \in Job : Withdraw(j) \/ Attempt(j)
    \/ \E j \in Job, t \in 0..MaxTime : Register(j, t)
    \/ \E t \in 0..MaxTime : Claim(t)
    \/ \E S \in SUBSET Job : Resolve(S)

Spec == Init /\ [][Next]_vars
=============================================================================
