--------------------------- MODULE HarnessTenancy ---------------------------
(***************************************************************************)
(* What the governance registry promises everyone who asks it for          *)
(* authority: a slot is lent to one holder at a time under a generation,   *)
(* and taken back before it is lent again.                                 *)
(*                                                                         *)
(* A slot is live (its holder may act), dormant (its holder keeps the slot *)
(* but lacks a grant or is disabled) or fenced (being changed).  A fence   *)
(* ends only in a higher generation or in the registry closing, so no      *)
(* authorization taken before a fence is good after it.  The operations a  *)
(* holder may perform shrink only in a Fence, the step everyone is told of *)
(* before it ends; when a change takes effect nothing is lost silently.    *)
(***************************************************************************)
EXTENDS Naturals

CONSTANTS
  Slots,
  Primary,      \* the slot whose holder executes operations
  Holders,
  Ops,
  None

VARIABLES
  epoch,        \* the boot the answers come from
  open,         \* the registry answers at all
  status,       \* of each slot: live, dormant or fenced
  holder,
  generation,
  allowed       \* the operations the holder of each slot is not denied

vars == << epoch, open, status, holder, generation, allowed >>

TypeOK ==
  /\ epoch \in Nat
  /\ open \in BOOLEAN
  /\ status \in [Slots -> {"live", "dormant", "fenced"}]
  /\ holder \in [Slots -> Holders \cup {None}]
  /\ generation \in [Slots -> Nat]
  /\ allowed \in [Slots -> SUBSET Ops]

Init ==
  /\ epoch = 0
  /\ open = FALSE
  /\ status = [s \in Slots |-> "dormant"]
  /\ holder = [s \in Slots |-> None]
  /\ generation = [s \in Slots |-> 0]
  /\ allowed = [s \in Slots |-> {}]

\* Authority over some slots and operations is withdrawn at once; nothing
\* else changes.
Fence ==
  /\ open
  /\ \E S \in SUBSET Slots :
       status' = [s \in Slots |-> IF s \in S THEN "fenced" ELSE status[s]]
  /\ allowed' \in [Slots -> SUBSET Ops]
  /\ UNCHANGED << epoch, open, holder, generation >>

\* A change becomes effective: every fenced slot enters its next generation;
\* no other slot changes hands or loses an operation, and the primary holder
\* keeps its eligibility unless every operation was denied before.
Settle ==
  /\ open
  /\ UNCHANGED << epoch, open >>
  /\ status' \in [Slots -> {"live", "dormant"}]
  /\ generation' = [s \in Slots |->
       IF status[s] = "fenced" THEN generation[s] + 1 ELSE generation[s]]
  /\ holder' \in [Slots -> Holders \cup {None}]
  /\ allowed' \in [Slots -> SUBSET Ops]
  /\ \A s \in Slots :
       status[s] # "fenced" =>
         holder'[s] = holder[s] /\ allowed[s] \subseteq allowed'[s]
  /\ status[Primary] = "live" /\ status'[Primary] = "dormant" =>
       allowed[Primary] = {}
  /\ \A s \in Slots : holder'[s] = None => status'[s] = "dormant"

\* The registry stops answering until the next boot.
Close ==
  /\ open' = FALSE
  /\ epoch' = epoch
  /\ status' \in [Slots -> {"live", "dormant", "fenced"}]
  /\ holder' \in [Slots -> Holders \cup {None}]
  /\ generation' \in [Slots -> Nat]
  /\ allowed' \in [Slots -> SUBSET Ops]

Reboot ==
  /\ ~open
  /\ epoch' = epoch + 1
  /\ open' \in BOOLEAN
  /\ status' \in [Slots -> {"live", "dormant"}]
  /\ holder' \in [Slots -> Holders \cup {None}]
  /\ generation' \in [Slots -> Nat]
  /\ allowed' \in [Slots -> SUBSET Ops]

Next == Fence \/ Settle \/ Close \/ Reboot

Spec == Init /\ [][Next]_vars
=============================================================================
