---------------------------- MODULE HarnessFeed ----------------------------
(***************************************************************************)
(* What a session's event bus promises its readers: one log of events, and *)
(* to every reader a gapless run of it from the moment of subscription.    *)
(* A reader that is cut off, because it was too slow or because the feed   *)
(* closed, is told so once and gets nothing more.                          *)
(***************************************************************************)
EXTENDS Naturals, Sequences

CONSTANTS
  Readers,
  Events

VARIABLES
  log,        \* the events published
  open,
  stage,      \* of each reader: unused, open, cut, told or left
  from,       \* where in the log each reader started
  got         \* the events each reader was handed

vars == << log, open, stage, from, got >>

Stages == {"unused", "open", "cut", "told", "left"}

TypeOK ==
  /\ log \in Seq(Events)
  /\ open \in BOOLEAN
  /\ stage \in [Readers -> Stages]
  /\ from \in [Readers -> Nat]
  /\ got \in [Readers -> Seq(Events)]

Init ==
  /\ log = << >>
  /\ open = TRUE
  /\ stage = [r \in Readers |-> "unused"]
  /\ from = [r \in Readers |-> 0]
  /\ got = [r \in Readers |-> << >>]

\* The position of a reader in the log.
At(r) == from[r] + Len(got[r])

Subscribe(r) ==
  /\ open
  /\ stage[r] = "unused"
  /\ stage' = [stage EXCEPT ![r] = "open"]
  /\ from' = [from EXCEPT ![r] = Len(log)]
  /\ UNCHANGED << log, open, got >>

\* Readers that were waiting at the end receive the event at once; others
\* may be cut off.
Publish(e, served, slow) ==
  /\ open
  /\ e \in Events
  /\ served \cap slow = {}
  /\ \A r \in served : stage[r] = "open" /\ At(r) = Len(log)
  /\ \A r \in slow : stage[r] = "open"
  /\ log' = Append(log, e)
  /\ got' = [r \in Readers |-> IF r \in served THEN Append(got[r], e) ELSE got[r]]
  /\ stage' = [r \in Readers |-> IF r \in slow THEN "cut" ELSE stage[r]]
  /\ UNCHANGED << open, from >>

Read(r) ==
  /\ stage[r] = "open"
  /\ At(r) < Len(log)
  /\ got' = [got EXCEPT ![r] = Append(@, log[At(r) + 1])]
  /\ UNCHANGED << log, open, stage, from >>

Tell(r) ==
  /\ stage[r] = "cut"
  /\ stage' = [stage EXCEPT ![r] = "told"]
  /\ UNCHANGED << log, open, from, got >>

Leave(r) ==
  /\ stage[r] \in {"open", "cut"}
  /\ stage' = [stage EXCEPT ![r] = "left"]
  /\ UNCHANGED << log, open, from, got >>

\* Every reader is cut off; those waiting are told at once.
Close(waiting) ==
  /\ open
  /\ open' = FALSE
  /\ \A r \in waiting : stage[r] = "open"
  /\ stage' = [r \in Readers |->
       IF stage[r] # "open" THEN stage[r]
       ELSE IF r \in waiting THEN "told" ELSE "cut"]
  /\ UNCHANGED << log, from, got >>

Next ==
  \/ \E i \in DOMAIN log' \ DOMAIN log, served, slow \in SUBSET Readers :
       Publish(log'[i], served, slow)
  \/ \E r \in Readers : Subscribe(r) \/ Read(r) \/ Tell(r) \/ Leave(r)
  \/ \E waiting \in SUBSET Readers : Close(waiting)

Spec == Init /\ [][Next]_vars
=============================================================================
