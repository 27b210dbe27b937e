----------------------------- MODULE Environment -----------------------------
(***************************************************************************)
(* What the parts of the bot share with the world: time, calls that fail,  *)
(* and an owner who gives commands.  A fault is a call that raises, a flood*)
(* wait, or the death of the process; the modules say which.               *)
(***************************************************************************)
EXTENDS Integers, Sequences, FiniteSets

CONSTANTS MaxTime,    \* bound: instants of a behaviour
          MaxFaults,  \* bound: faults of a behaviour
          MaxOrders   \* bound: commands of a behaviour, where a module counts them

VARIABLES now, faults, orders

envVars == <<now, faults, orders>>

EnvironmentAssumption == MaxTime \in Nat /\ MaxFaults \in Nat /\ MaxOrders \in Nat

EnvInit == now = 0 /\ faults = 0 /\ orders = 0

EnvTypeOK == now \in 0..MaxTime /\ faults \in 0..MaxFaults /\ orders \in 0..MaxOrders

\* One more fault, and no time passes.
Fault == faults < MaxFaults /\ faults' = faults + 1 /\ UNCHANGED <<now, orders>>

\* One more command.
Ordered == orders < MaxOrders /\ orders' = orders + 1 /\ UNCHANGED <<now, faults>>

\* A step of the program in which nothing fails and no time passes.
Calm == UNCHANGED envVars

Advance == now < MaxTime /\ now' = now + 1 /\ UNCHANGED <<faults, orders>>
=============================================================================
