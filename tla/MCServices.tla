----------------------------- MODULE MCServices -----------------------------
(***************************************************************************)
(* Small instances of the services beside the harness.  They share no      *)
(* state, so a behaviour of this module is a behaviour of one of them,     *)
(* chosen at the beginning, while the others stay as they began.           *)
(***************************************************************************)
EXTENDS BrowserJobs, MemorySourceMove, DshRuntime, OpenCodeBoundary,
        AddonDelegation, ChatSessions, TLC

CONSTANTS Parts,              \* the services of the run
          k1, p, c1, c2, r1, r2, s1, s2, x1, panel, main

VARIABLE part

OnePage == [j \in Jobs |-> p]

Symmetry == Permutations(Requests) \cup Permutations(Starts)

\* The OpenCode boundary: calls of the routes, starts of a context, changes of
\* the switch.
Bound(c, s, u) == [calls |-> c, starts |-> s, updates |-> u]
SafetyBounds   == {Bound(2, 1, 1), Bound(3, 2, 0), Bound(1, 1, 2)}
LiveBounds     == {Bound(2, 1, 0), Bound(1, 1, 1)}

\* A delegation packet: starts, cancels, deletions, incidents.
Load(s, c, d, i) == [starts |-> s, cancels |-> c, purges |-> d, incidents |-> i]
SafetyLoads == {Load(2, 1, 0, 0), Load(1, 1, 1, 0), Load(1, 1, 0, 2),
                Load(2, 0, 0, 1), Load(1, 0, 1, 1)}
LiveLoads   == {Load(1, 1, 0, 0), Load(1, 0, 1, 0), Load(1, 0, 0, 1)}

\* The chats: changes, openings of a surface, failing calls of the storage.
Visit(c, o, f) == [changes |-> c, opens |-> o, faults |-> f]
SafetyVisits   == {Visit(2, 2, 0), Visit(1, 2, 1), Visit(2, 1, 1), Visit(3, 1, 0)}
NoVisits       == {Visit(0, 0, 0)}

ServicesInit ==
  /\ part \in Parts
  /\ JobsInit /\ MoveInit /\ DshInit /\ BoundaryInit /\ DelegationInit /\ ChatInit
  \* One initial state of each service that is not the one chosen.
  /\ part # "move" => oneVolume
  /\ part # "opencode" => left = CHOOSE b \in Bounds : TRUE
  /\ part # "delegation" => room = CHOOSE load \in Loads : TRUE
  /\ part # "chat" => visit = CHOOSE v \in Visits : TRUE
  /\ part # "chat" => made.projects = 0

ServicesNext ==
  /\ UNCHANGED part
  /\ IF part = "jobs" THEN JobsNext ELSE UNCHANGED jobsVars
  /\ IF part = "move" THEN MoveNext ELSE UNCHANGED moveVars
  /\ IF part = "dsh" THEN DshNext ELSE UNCHANGED dshVars
  /\ IF part = "opencode" THEN BoundaryNext ELSE UNCHANGED boundaryVars
  /\ IF part = "delegation" THEN DelegationNext ELSE UNCHANGED delegationVars
  /\ IF part = "chat" THEN ChatNext ELSE UNCHANGED chatVars

servicesVars ==
  <<part, jobsVars, moveVars, dshVars, boundaryVars, delegationVars, chatVars>>

ServicesSpec == ServicesInit /\ [][ServicesNext]_servicesVars

\* A service that stays as it began has no step its fairness could ask for.
ServicesFairSpec ==
  ServicesSpec /\ DshFairness /\ BoundaryFairness /\ DelegationFairness

\* Every variable of the service under way has its shape.
ServicesTypeOK ==
  /\ part = "jobs" => JobsTypeOK
  /\ part = "move" => MoveTypeOK
  /\ part = "dsh" => DshTypeOK
  /\ part = "opencode" => BoundaryTypeOK
  /\ part = "delegation" => DelegationTypeOK
  /\ part = "chat" => ChatTypeOK
=============================================================================
