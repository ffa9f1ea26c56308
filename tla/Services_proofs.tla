-------------------------- MODULE Services_proofs ---------------------------
(***************************************************************************)
(* The services as they are checked together: a behaviour of MCServices is *)
(* a behaviour of every service by itself, so each theorem about a service *)
(* is one about the run that checks it.                                    *)
(***************************************************************************)
EXTENDS MCServices, Extension_proofs, Runtimes_proofs, MemorySourceMove_proofs,
        AddonDelegation_proofs

\* The services share no state: what is checked of them side by side is what each of them
\* does by itself (the extension, the bridge and its child processes of src/browser-first).
THEOREM ServicesStandAlone ==
  ServicesSpec => /\ JobsSpec /\ MoveSpec /\ DshSpec
                  /\ BoundarySpec /\ DelegationSpec /\ ChatSpec
<1>1. ServicesInit => /\ JobsInit /\ MoveInit /\ DshInit
                      /\ BoundaryInit /\ DelegationInit /\ ChatInit
  BY DEF ServicesInit
<1>2. [ServicesNext]_servicesVars =>
        /\ [JobsNext]_jobsVars /\ [MoveNext]_moveVars /\ [DshNext]_dshVars
        /\ [BoundaryNext]_boundaryVars /\ [DelegationNext]_delegationVars
        /\ [ChatNext]_chatVars
  BY DEF ServicesNext, servicesVars
<1>3. QED
  BY <1>1, <1>2, PTL
     DEF ServicesSpec, JobsSpec, MoveSpec, DshSpec, BoundarySpec, DelegationSpec, ChatSpec

\* The type invariant of the services: every variable of the one under way has its shape.
THEOREM ServicesTypeCorrect == ServicesSpec => []ServicesTypeOK
<1> DEFINE Shapes == /\ JobsTypeOK /\ MoveTypeOK /\ DshTypeOK
                     /\ BoundaryTypeOK /\ DelegationTypeOK /\ ChatTypeOK
<1>1. Shapes => ServicesTypeOK
  BY DEF ServicesTypeOK
<1>2. ServicesSpec => []Shapes
  BY ServicesStandAlone, JobsTypeCorrect, MoveTypeCorrect, DshTypeCorrect,
     OpenCodeTypeCorrect, DelegationTypeCorrect, ChatTypeCorrect, PTL
<1>3. QED
  BY <1>1, <1>2, PTL
=============================================================================
