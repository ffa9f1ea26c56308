-------------------------- MODULE MCBoundaryScenes --------------------------
(***************************************************************************)
(* A behaviour of the boundary in one of two scenes: "sessions" has two    *)
(* contexts, two owners and a runtime epoch, and no work; "work" has one   *)
(* context of one owner, with its turns and calls.                         *)
(***************************************************************************)
EXTENDS MCHarnessBoundary

VARIABLE scene

InScene ==
  IF scene = "sessions"
  THEN /\ allowed[Primary] \in SessionSets
       /\ \A c \in Contexts : /\ ctx[c].turns = 0
                              /\ \A op \in CallOps : ctx[c].calls[op] = NoCall
  ELSE /\ allowed[Primary] \in WorkSets \cup {{}}
       /\ holder[Primary] # B /\ generation[Primary] <= 1 /\ dead = {}
       /\ Cardinality({c \in Contexts : ctx[c] # Free}) <= 1
       /\ \A c \in Contexts : ctx[c].runtime = None

SceneInit == Init /\ scene \in {"sessions", "work"}

SceneSpec == SceneInit /\ [][UNCHANGED scene /\ Next /\ InScene']_<<vars, scene>>
=============================================================================
