-------------------------- MODULE MCHarnessRegistry --------------------------
(***************************************************************************)
(* Small instances of the governance registry.                             *)
(*                                                                         *)
(* Add-on A has three editions: one whose invocation tool needs a          *)
(* capability of its own, one whose slots outlive the plain revocation of  *)
(* that capability, and one that understates its adapter.  Add-on B serves *)
(* the primary slot and may not be replaced.                               *)
(***************************************************************************)
EXTENDS HarnessRegistry

CONSTANTS A, B, primary, memory, run, delegate, remember, tool

PrimaryOnly == [s \in {primary} |-> run]
BothSlots   == [s \in {primary, memory} |->
                  IF s = primary THEN run ELSE remember]

Runtime(id, edition, slots, replaceable, requests, hardStop, floor, toolNeeds) ==
  [ id |-> id, edition |-> edition,
    systemSlots |-> slots, replaceable |-> replaceable,
    requests |-> requests, hardStop |-> hardStop,
    runtime |-> TRUE, bound |-> TRUE,
    supported |-> {"createSession", "invoke"},
    required |-> {run}, floor |-> floor,
    toolNeeds |-> [op \in {"createSession", "invoke"} |->
                     IF op = "invoke" THEN toolNeeds ELSE {}] ]

ATool    == Runtime(A, 1, {primary}, {primary}, {run, tool}, {run}, {}, {tool})
ABoth    == Runtime(A, 2, {primary, memory}, {primary}, {run, remember, tool},
                    {remember}, {}, {tool})
AShort   == Runtime(A, 3, {primary}, {primary}, {run}, {run}, {run, tool}, {})
BPinned  == Runtime(B, 1, {primary}, {}, {run}, {run}, {}, {})
BMemory  == [Runtime(B, 2, {memory}, {memory}, {remember}, {}, {}, {})
              EXCEPT !.runtime = FALSE, !.bound = FALSE,
                     !.supported = {}, !.required = {}]
ALegacy  == Runtime(A, 4, {primary}, {primary}, {delegate}, {}, {}, {})

\* A state an earlier release left: the primary owner understates its adapter.
Understating ==
  [Empty EXCEPT !.revision = 1, !.governed = TRUE,
     !.manifest = [a \in AddOns |-> IF a = A THEN AShort ELSE None],
     !.enabled = {A}, !.grants = [a \in AddOns |-> IF a = A THEN {run} ELSE {}],
     !.owner = [s \in Slots |-> IF s = primary THEN A ELSE None],
     !.generation = [s \in Slots |-> IF s = primary THEN 1 ELSE 0]]

\* ... and one with delegation consent only.
Delegating ==
  [Empty EXCEPT !.revision = 1,
     !.manifest = [a \in AddOns |-> IF a = A THEN ALegacy ELSE None],
     !.enabled = {A}, !.grants = [a \in AddOns |-> IF a = A THEN {delegate} ELSE {}]]

CoreManifests    == {ATool, BPinned}
ConsentManifests == {ATool, [ATool EXCEPT !.edition = 5, !.hardStop = {tool}]}
CoreLegacy       == {}
BatchManifests   == { [ATool EXCEPT !.requests = @ \cup {remember}] }
SlotManifests    == {ABoth, BMemory}
StorageManifests == {ATool}
StorageLegacy    == {Understating, Delegating}
=============================================================================
