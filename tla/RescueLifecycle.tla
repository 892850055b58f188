-------------------------- MODULE RescueLifecycle --------------------------
(***************************************************************************)
(* What the rescue tables promise, without the tables: each civilian goes  *)
(* once through missing, assigned, attached and safe, in that order; a     *)
(* rescuer works for one civilian in danger at a time and stays with it    *)
(* until it is safe.  RescueDispatch implements this specification.        *)
(***************************************************************************)
CONSTANTS Civilians, GroundSars, NoSar

VARIABLES
  stage,  \* civilian -> how far its rescue has come
  crew    \* civilian -> the rescuer working for it, while it is in danger

lifecycleVars == <<stage, crew>>

LifecycleInit ==
  /\ stage = [c \in Civilians |-> "missing"]
  /\ crew = [c \in Civilians |-> NoSar]

\* A rescuer that works for nobody in danger takes a missing civilian.
Take(s, c) ==
  /\ stage[c] = "missing"
  /\ \A d \in Civilians : crew[d] # s
  /\ stage' = [stage EXCEPT ![c] = "assigned"]
  /\ crew' = [crew EXCEPT ![c] = s]

Reach(c) ==
  /\ stage[c] = "assigned"
  /\ stage' = [stage EXCEPT ![c] = "attached"]
  /\ UNCHANGED crew

Deliver(c) ==
  /\ stage[c] = "attached"
  /\ stage' = [stage EXCEPT ![c] = "safe"]
  /\ crew' = [crew EXCEPT ![c] = NoSar]

LifecycleNext ==
  \E c \in Civilians : (\E s \in GroundSars : Take(s, c)) \/ Reach(c) \/ Deliver(c)

LifecycleSpec == LifecycleInit /\ [][LifecycleNext]_lifecycleVars
=============================================================================
