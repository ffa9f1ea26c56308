-------------------------- MODULE Runtimes_proofs ---------------------------
(***************************************************************************)
(* Proofs about the runtimes the bridge starts: the native one (DSH) and   *)
(* the boundary to OpenCode.                                               *)
(*                                                                         *)
(* HomeInv and LeaseInv are inductive: the first accounts for every live   *)
(* child by the lock of its home, the second for every lease by the epoch  *)
(* it is on.                                                               *)
(*                                                                         *)
(* OpenCodeInv is inductive: it says which contexts exist and in what      *)
(* order they start, that at most one server is up and whose it is, and    *)
(* what a call under way has seen of the switch and of its context.  Most  *)
(* steps only go on with a context or retire it, and a call then only      *)
(* moves on: OldOrNone and MovesOn say so once, and two lemmas carry the   *)
(* invariant over any such step.  The ownership of the servers and "off is *)
(* off" follow.                                                            *)
(***************************************************************************)
EXTENDS DshRuntime, OpenCodeBoundary, FiniteSetTheorems, TLAPS

-----------------------------------------------------------------------------
(***************************************************************************)
(* The native runtime, for any callers, any number of starts of the child  *)
(* and any number of lives of the host.                                    *)
(***************************************************************************)

ChildKinds == {"none", "live", "lost", "exited"}
EpochType  == [phase : Phases, fenced : BOOLEAN, stop : StopStages, home : BOOLEAN,
               child : ChildKinds, ready : BOOLEAN]

\* A caller that waits for an epoch or is on one names it.
LeaseType == {l \in [state : {"away", "queued", "joined", "held"}, epoch : 0 .. MaxEpochs] :
                l.state # "away" => l.epoch # 0}
DshTyped     == DshTypeOK /\ lease \in [Leasers -> LeaseType]

\* The home before the lock of an epoch has become its own.
Homeless == {"none", "validating", "locking", "homing", "unlocking"}

(***************************************************************************)
(* The lock file is accounted for.  Who has the home, or a live child, or  *)
(* is between the creation of the lock and the end of the preparation has  *)
(* written it; an unfenced start past the preparation has the home, so     *)
(* that the child it spawns finds it locked; and the home is not released  *)
(* under a live child.                                                     *)
(***************************************************************************)
AccountedFor(r, e, lock) ==
  /\ r.home => lock = e
  /\ r.child = "live" => lock = e
  /\ r.phase \in {"homing", "unlocking"} => lock = e
  /\ r.phase \in Homeless => ~ r.home
  /\ r.phase \in {"reserving", "verifying"} /\ ~ r.fenced => r.home
  /\ r.child # "none" => r.phase \in {"spawned", "announced", "ended"}
  /\ r.fenced <=> r.stop # "none"
  /\ r.stop = "releasing" => r.child # "live"

HomeInv == DshTyped /\ \A e \in Epochs : AccountedFor(epoch[e], e, homeLock)

\* A held lease is on the epoch in service, which has been announced and is not stopped.
Served(c) == lease[c].state = "held" => /\ lease[c].epoch = current
                                        /\ epoch[current].phase = "announced"
                                        /\ epoch[current].stop = "none"

LeaseInv == HomeInv /\ \A c \in Leasers : Served(c)

-----------------------------------------------------------------------------
(***************************************************************************)
(* Types.                                                                  *)
(***************************************************************************)

LEMMA EpochsAre ==
  ASSUME DshTyped
  PROVE  DshTypeOK /\ epoch \in [Epochs -> EpochType] /\ lease \in [Leasers -> LeaseType]
  BY DEF DshTyped, DshTypeOK, EpochType, ChildKinds

LEMMA FenceType ==
  ASSUME NEW r \in EpochType
  PROVE  Fence(r) \in EpochType
  BY DEF Fence, FirstPhase, EpochType, StopStages

LEMMA FencedLeasesType ==
  ASSUME DshTyped, NEW e \in Epochs
  PROVE  FencedLeases(e) \in [Leasers -> LeaseType]
  BY DshAssumption DEF FencedLeases, DshTyped, LeaseType, Away

LEMMA StopEpochType ==
  ASSUME DshTyped, NEW e \in Epochs, NEW r \in EpochType, StopEpoch(e, r)
  PROVE  epoch' \in [Epochs -> EpochType] /\ lease' \in [Leasers -> LeaseType]
  BY FenceType, FencedLeasesType DEF StopEpoch, DshTyped, DshTypeOK, EpochType, ChildKinds

LEMMA JoinType ==
  ASSUME DshTyped, NEW c \in Leasers, Join(c)
  PROVE  /\ epoch' \in [Epochs -> EpochType] /\ lease' \in [Leasers -> LeaseType]
         /\ current' \in 0 .. MaxEpochs
         /\ dshSpent' \in [epochs : 0 .. MaxEpochs, lives : 0 .. MaxLives]
<1> USE EpochsAre
<1>1. CASE current # 0
  BY <1>1 DEF Join, DshTypeOK, LeaseType
<1>2. CASE current = 0
  <2>1. Begun \in Epochs /\ Begun \in 0 .. MaxEpochs
    BY <1>2, DshAssumption DEF Join, Begun, Epochs, DshTypeOK
  <2>2. Epochs \cup {Begun} = Epochs
    BY <2>1
  <2>3. epoch' \in [Epochs -> EpochType]
    <3> DEFINE new == [phase |-> "validating", fenced |-> FALSE, stop |-> "none",
                       child |-> "none", home |-> FALSE, ready |-> FALSE]
    <3>1. epoch' = [e \in Epochs |-> IF e = Begun THEN new ELSE epoch[e]]
      BY <1>2, <2>2 DEF Join
    <3>2. new \in EpochType
      BY DEF EpochType, ChildKinds, Phases, StopStages
    <3>3. epoch \in [Epochs -> EpochType]
      OBVIOUS
    <3>4. QED
      BY <3>1, <3>2, <3>3
  <2>4. [state |-> "joined", epoch |-> Begun] \in LeaseType
    BY <2>1, DshAssumption DEF LeaseType, Epochs
  <2>5. lease' \in [Leasers -> LeaseType]
    BY <1>2, <2>4 DEF Join
  <2>6. dshSpent' \in [epochs : 0 .. MaxEpochs, lives : 0 .. MaxLives]
    BY <1>2, <2>1 DEF Join, DshTypeOK, Begun
  <2>7. QED
    BY <1>2, <2>1, <2>3, <2>5, <2>6 DEF Join
<1>3. QED BY <1>1, <1>2

\* What the fence leaves alone, and what it sees to.
LEMMA FenceEffect ==
  ASSUME NEW r \in EpochType
  PROVE  /\ Fence(r) \in EpochType
         /\ Fence(r).phase = r.phase /\ Fence(r).child = r.child
         /\ Fence(r).home = r.home /\ Fence(r).ready = r.ready
         /\ Fence(r).stop # "none"
         /\ r.stop # "none" => Fence(r) = r
         /\ r.stop = "none" => /\ Fence(r).fenced
                               /\ Fence(r).stop = "releasing" => Fence(r).child # "live"
  BY DEF Fence, FirstPhase, EpochType, StopStages, ChildKinds

LEMMA StopEpochEffect ==
  ASSUME DshTyped, NEW e \in Epochs, NEW r \in EpochType, StopEpoch(e, r)
  PROVE  /\ epoch'[e] = Fence(r)
         /\ \A f \in Epochs \ {e} : epoch'[f] = epoch[f]
  BY DEF StopEpoch, DshTyped, DshTypeOK

-----------------------------------------------------------------------------
(***************************************************************************)
(* Every action keeps the lock accounted for.                              *)
(***************************************************************************)

LEMMA HomeInit == DshInit => HomeInv
<1> SUFFICES ASSUME DshInit PROVE HomeInv
  OBVIOUS
<1>1. DshTyped
  <2>1. 0 \in 0 .. MaxEpochs /\ 0 \in 0 .. MaxLives
    BY DshAssumption
  <2>2. lease \in [Leasers -> LeaseType] /\ Away \in LeaseType
    BY <2>1 DEF DshInit, Away, LeaseType
  <2>3. [phase |-> "none", fenced |-> FALSE, stop |-> "none", child |-> "none",
         home |-> FALSE, ready |-> FALSE] \in EpochType
    BY DEF EpochType, Phases, StopStages, ChildKinds
  <2>4. epoch \in [Epochs -> EpochType]
    BY <2>3 DEF DshInit
  <2>5. dshSpent \in [epochs : 0 .. MaxEpochs, lives : 0 .. MaxLives]
    BY <2>1 DEF DshInit
  <2>6. QED
    BY <2>1, <2>2, <2>4, <2>5 DEF DshInit, DshTyped, DshTypeOK, EpochType, ChildKinds, LeaseType
<1>2. \A e \in Epochs : AccountedFor(epoch[e], e, homeLock)
  BY DEF DshInit, AccountedFor, Homeless
<1>3. QED BY <1>1, <1>2 DEF HomeInv

LEMMA FenceAccounts ==
  ASSUME NEW r \in EpochType, NEW e, NEW lock, AccountedFor(r, e, lock)
  PROVE  AccountedFor(Fence(r), e, lock)
  BY FenceEffect DEF AccountedFor

\* A step of one epoch, which touches the lock only if no other epoch has it.
LEMMA OneEpochHome ==
  ASSUME HomeInv, NEW e \in Epochs, NEW r \in EpochType, epoch' = [epoch EXCEPT ![e] = r],
         lease' \in [Leasers -> LeaseType],
         homeLock' \in {0, homeLock, e},
         homeLock' # homeLock => homeLock \in {0, e},
         AccountedFor(r, e, homeLock'),
         current' \in {0, current}, blocked' \in BOOLEAN,
         closing' \in {"open", "closing", "closed"}, UNCHANGED dshSpent
  PROVE  HomeInv'
<1>1. epoch \in [Epochs -> EpochType] /\ DshTypeOK
  BY EpochsAre DEF HomeInv
<1>2. epoch' \in [Epochs -> EpochType]
  BY <1>1
<1>3. homeLock' \in 0 .. MaxEpochs /\ current' \in 0 .. MaxEpochs
  BY <1>1, DshAssumption DEF DshTypeOK, Epochs
<1>4. DshTyped'
  BY <1>1, <1>2, <1>3 DEF DshTyped, DshTypeOK, EpochType, ChildKinds, LeaseType
<1>5. ASSUME NEW f \in Epochs PROVE AccountedFor(epoch'[f], f, homeLock')
  <2>1. CASE f = e
    BY <1>1, <2>1
  <2>2. CASE f # e
    <3>1. epoch'[f] = epoch[f]
      BY <1>1, <2>2
    <3>2. AccountedFor(epoch[f], f, homeLock) /\ f # 0
      BY DshAssumption DEF HomeInv, Epochs
    <3>3. AccountedFor(epoch[f], f, homeLock')
      BY <2>2, <3>2 DEF AccountedFor
    <3>4. QED
      BY <3>1, <3>3
  <2>3. QED BY <2>1, <2>2
<1>6. QED
  BY <1>4, <1>5 DEF HomeInv

LEMMA StopEpochHome ==
  ASSUME HomeInv, NEW e \in Epochs, NEW r \in EpochType, StopEpoch(e, r),
         homeLock' \in {0, homeLock, e},
         homeLock' # homeLock => homeLock \in {0, e},
         AccountedFor(r, e, homeLock'),
         current' \in {0, current}, blocked' \in BOOLEAN,
         closing' \in {"open", "closing", "closed"}, UNCHANGED dshSpent
  PROVE  HomeInv'
<1>1. Fence(r) \in EpochType /\ AccountedFor(Fence(r), e, homeLock')
  BY FenceEffect, FenceAccounts
<1>2. lease' \in [Leasers -> LeaseType]
  BY StopEpochType DEF HomeInv
<1>3. epoch' = [epoch EXCEPT ![e] = Fence(r)]
  BY DEF StopEpoch
<1>4. QED
  BY <1>1, <1>2, <1>3, OneEpochHome

\* A start that ends: a lock that was still to be given back is given back.
LEMMA StartFailsHome ==
  ASSUME HomeInv, NEW e \in Epochs, StartFails(e), epoch[e].phase \notin {"none", "homing"},
         \/ UNCHANGED homeLock
         \/ epoch[e].phase = "locking" /\ homeLock = 0 /\ homeLock' = e
         \/ epoch[e].phase = "unlocking" /\ homeLock' = 0,
         UNCHANGED <<current, blocked, closing, dshSpent>>
  PROVE  HomeInv'
<1> DEFINE r == [epoch[e] EXCEPT !.phase = "ended"]
<1>1. epoch[e] \in EpochType /\ AccountedFor(epoch[e], e, homeLock) /\ DshTypeOK
  BY EpochsAre DEF HomeInv
<1>2. r \in EpochType
  BY <1>1 DEF EpochType, Phases
<1>3. AccountedFor(r, e, homeLock')
  BY <1>1 DEF AccountedFor, EpochType, Homeless
<1>4. homeLock' # homeLock => homeLock \in {0, e}
  BY <1>1 DEF AccountedFor
<1>5. StopEpoch(e, r)
  BY DEF StartFails
<1> HIDE DEF r
<1>6. QED
  BY <1>1, <1>2, <1>3, <1>4, <1>5, StopEpochHome DEF DshTypeOK
LEMMA PhaseGoesHome ==
  ASSUME HomeInv, NEW e \in Epochs, NEW phase \in Phases, PhaseGoes(e, phase),
         homeLock' \in {0, homeLock, e},
         homeLock' # homeLock => homeLock \in {0, e},
         AccountedFor([epoch[e] EXCEPT !.phase = phase], e, homeLock'),
         UNCHANGED <<current, blocked, closing, dshSpent>>
  PROVE  HomeInv'
<1> DEFINE r == [epoch[e] EXCEPT !.phase = phase]
<1>1. epoch[e] \in EpochType /\ epoch \in [Epochs -> EpochType]
      /\ lease \in [Leasers -> LeaseType] /\ DshTypeOK
  BY EpochsAre DEF HomeInv
<1>2. r \in EpochType
  BY <1>1 DEF EpochType
<1>3. epoch' = [epoch EXCEPT ![e] = r] /\ lease' \in [Leasers -> LeaseType]
  BY <1>1 DEF PhaseGoes
<1> HIDE DEF r
<1>4. AccountedFor(r, e, homeLock')
  BY DEF r
<1>5. QED
  BY <1>1, <1>2, <1>3, <1>4, OneEpochHome DEF DshTypeOK

LEMMA StartKeepsHome ==
  ASSUME HomeInv, NEW e \in Epochs, StartStep(e) \/ Announces(e) \/ AnnouncementFails(e)
  PROVE  HomeInv'
<1> DEFINE r == epoch[e]
<1>1. r \in EpochType /\ AccountedFor(r, e, homeLock) /\ DshTypeOK
      /\ epoch \in [Epochs -> EpochType] /\ lease \in [Leasers -> LeaseType]
  BY EpochsAre DEF HomeInv
<1>2. CASE Validated(e)
  <2>1. CASE Active(e) /\ PhaseGoes(e, "locking")
    <3>1. AccountedFor([r EXCEPT !.phase = "locking"], e, homeLock')
      BY <1>1, <1>2 DEF Validated, AccountedFor, EpochType, Homeless
    <3>2. QED
      BY <1>2, <2>1, <3>1, PhaseGoesHome DEF Validated, Phases
  <2>2. CASE StartFails(e)
    BY <1>2, <2>2, StartFailsHome DEF Validated
  <2>3. QED BY <1>2, <2>1, <2>2 DEF Validated
<1>3. CASE TakesLock(e)
  <2>1. CASE homeLock = 0 /\ homeLock' = e /\ PhaseGoes(e, "homing")
    <3>1. AccountedFor([r EXCEPT !.phase = "homing"], e, homeLock')
      BY <1>1, <1>3, <2>1 DEF TakesLock, AccountedFor, EpochType, Homeless
    <3>2. QED
      BY <1>3, <2>1, <3>1, PhaseGoesHome DEF TakesLock, Phases
  <2>2. CASE StartFails(e)
    BY <1>3, <2>2, StartFailsHome DEF TakesLock
  <2>3. QED BY <1>3, <2>1, <2>2 DEF TakesLock
<1>4. CASE Homed(e)
  <2>1. CASE /\ Active(e)
             /\ epoch' = [epoch EXCEPT ![e].phase = "reserving", ![e].home = TRUE]
             /\ UNCHANGED lease
    <3> DEFINE g == [r EXCEPT !.phase = "reserving", !.home = TRUE]
    <3>1. g \in EpochType /\ AccountedFor(g, e, homeLock')
      BY <1>1, <1>4 DEF Homed, AccountedFor, EpochType, Homeless, Phases
    <3>2. epoch' = [epoch EXCEPT ![e] = g]
      BY <1>1, <2>1
    <3> HIDE DEF g
    <3>3. QED
      BY <1>1, <1>4, <2>1, <3>1, <3>2, OneEpochHome DEF Homed, DshTypeOK
  <2>2. CASE PhaseGoes(e, "unlocking")
    <3>1. AccountedFor([r EXCEPT !.phase = "unlocking"], e, homeLock')
      BY <1>1, <1>4 DEF Homed, AccountedFor, EpochType, Homeless
    <3>2. QED
      BY <1>4, <2>2, <3>1, PhaseGoesHome DEF Homed, Phases
  <2>3. QED BY <1>4, <2>1, <2>2 DEF Homed
<1>5. CASE Unlocks(e)
  BY <1>5, StartFailsHome DEF Unlocks
<1>6. CASE Reserved(e)
  <2>1. CASE Active(e) /\ PhaseGoes(e, "verifying")
    <3>1. AccountedFor([r EXCEPT !.phase = "verifying"], e, homeLock')
      BY <1>1, <1>6 DEF Reserved, AccountedFor, EpochType, Homeless
    <3>2. QED
      BY <1>6, <2>1, <3>1, PhaseGoesHome DEF Reserved, Phases
  <2>2. CASE StartFails(e)
    BY <1>6, <2>2, StartFailsHome DEF Reserved
  <2>3. QED BY <1>6, <2>1, <2>2 DEF Reserved
<1>7. CASE Spawns(e)
  <2>1. ASSUME NEW child \in {"live", "lost"}, Active(e), UNCHANGED lease,
               epoch' = [epoch EXCEPT ![e].phase = "spawned", ![e].child = child]
        PROVE  HomeInv'
    <3> DEFINE g == [r EXCEPT !.phase = "spawned", !.child = child]
    <3>1. g \in EpochType
      BY <1>1 DEF EpochType, Phases, ChildKinds
    <3>2. AccountedFor(g, e, homeLock')
      BY <1>1, <1>7, <2>1 DEF Spawns, Active, AccountedFor, EpochType, Homeless
    <3>3. epoch' = [epoch EXCEPT ![e] = g]
      BY <1>1, <2>1
    <3> HIDE DEF g
    <3>4. QED
      BY <1>1, <1>7, <2>1, <3>1, <3>2, <3>3, OneEpochHome DEF Spawns, DshTypeOK
  <2>2. CASE StartFails(e)
    BY <1>7, <2>2, StartFailsHome DEF Spawns
  <2>3. QED BY <1>7, <2>1, <2>2 DEF Spawns
<1>8. CASE Announces(e)
  <2>1. AccountedFor([r EXCEPT !.phase = "announced"], e, homeLock')
    BY <1>1, <1>8 DEF Announces, AccountedFor, EpochType, Homeless
  <2>2. QED
    BY <1>8, <2>1, PhaseGoesHome DEF Announces, Phases
<1>9. CASE AnnouncementFails(e)
  BY <1>9, StartFailsHome DEF AnnouncementFails
<1>10. QED
  BY <1>2, <1>3, <1>4, <1>5, <1>6, <1>7, <1>8, <1>9 DEF StartStep

\* The stages of the stop.  The home is released when the child is known to be gone.
LEMMA StopKeepsHome ==
  ASSUME HomeInv, NEW e \in Epochs, StopStep(e)
  PROVE  HomeInv'
<1> DEFINE r == epoch[e]
<1>1. r \in EpochType /\ AccountedFor(r, e, homeLock) /\ DshTypeOK
      /\ epoch \in [Epochs -> EpochType] /\ lease \in [Leasers -> LeaseType]
  BY EpochsAre DEF HomeInv
<1>2. ASSUME NEW stage \in {"terminating", "killing", "releasing", "done"},
             stage = "releasing" => r.child # "live",
             r.stop # "none", StopGoes(e, stage), blocked' \in BOOLEAN,
             UNCHANGED <<current, lease, homeLock, closing, dshSpent>>
      PROVE  HomeInv'
  <2> DEFINE g == [r EXCEPT !.stop = stage]
  <2>1. g \in EpochType
    BY <1>1, <1>2 DEF EpochType, StopStages
  <2>2. AccountedFor(g, e, homeLock')
    BY <1>1, <1>2 DEF AccountedFor, EpochType
  <2>3. epoch' = [epoch EXCEPT ![e] = g]
    BY <1>1, <1>2 DEF StopGoes
  <2> HIDE DEF g
  <2>4. QED
    BY <1>1, <1>2, <2>1, <2>2, <2>3, OneEpochHome DEF DshTypeOK
<1>3. CASE Cancelled(e)
  BY <1>1, <1>2, <1>3 DEF Cancelled, DshTypeOK
<1>4. CASE Terminated(e)
  BY <1>1, <1>2, <1>4 DEF Terminated, DshTypeOK
<1>5. CASE Killed(e)
  BY <1>1, <1>2, <1>5 DEF Killed, DshTypeOK
<1>6. CASE ReleasesHome(e) /\ StopGoes(e, "done") /\ UNCHANGED <<homeLock, current>>
  BY <1>1, <1>2, <1>6 DEF ReleasesHome, DshTypeOK
<1>7. CASE ReleasesHome(e) /\ ~ (StopGoes(e, "done") /\ UNCHANGED <<homeLock, current>>)
  <2> DEFINE g == [r EXCEPT !.stop = "done", !.home = FALSE]
  <2>1. g \in EpochType
    BY <1>1 DEF EpochType, StopStages
  <2>2. AccountedFor(g, e, homeLock')
    BY <1>1, <1>7 DEF ReleasesHome, AccountedFor, EpochType, Homeless
  <2>3. epoch' = [epoch EXCEPT ![e] = g]
    BY <1>1, <1>7 DEF ReleasesHome
  <2>4. homeLock' # homeLock => homeLock \in {0, e}
    BY <1>1, <1>7 DEF ReleasesHome, AccountedFor
  <2> HIDE DEF g
  <2>5. QED
    BY <1>1, <1>7, <2>1, <2>2, <2>3, <2>4, OneEpochHome DEF ReleasesHome, DshTypeOK
<1>8. QED
  BY <1>3, <1>4, <1>5, <1>6, <1>7 DEF StopStep

\* What stops an epoch from outside its start.
LEMMA FencedHome ==
  ASSUME HomeInv, NEW e \in Epochs, StopEpoch(e, epoch[e]),
         closing' \in {"open", "closing", "closed"},
         UNCHANGED <<current, homeLock, blocked, dshSpent>>
  PROVE  HomeInv'
<1>1. epoch[e] \in EpochType /\ AccountedFor(epoch[e], e, homeLock) /\ DshTypeOK
  BY EpochsAre DEF HomeInv
<1>2. QED
  BY <1>1, StopEpochHome DEF DshTypeOK

LEMMA ExitKeepsHome ==
  ASSUME HomeInv, NEW e \in Epochs, ChildExits(e)
  PROVE  HomeInv'
<1> DEFINE r == [epoch[e] EXCEPT !.child = "exited"]
<1>1. epoch[e] \in EpochType /\ AccountedFor(epoch[e], e, homeLock) /\ DshTypeOK
      /\ epoch \in [Epochs -> EpochType] /\ lease \in [Leasers -> LeaseType]
  BY EpochsAre DEF HomeInv
<1>2. r \in EpochType
  BY <1>1 DEF EpochType, ChildKinds
<1>3. AccountedFor(r, e, homeLock')
  BY <1>1 DEF ChildExits, AccountedFor, EpochType
<1>4. IF current = e THEN StopEpoch(e, r)
      ELSE epoch' = [epoch EXCEPT ![e] = r] /\ UNCHANGED lease
  BY DEF ChildExits
<1> HIDE DEF r
<1>5. QED
  BY <1>1, <1>2, <1>3, <1>4, StopEpochHome, OneEpochHome DEF ChildExits, DshTypeOK

\* A new epoch begins without a child, and the lock is not its business yet.
LEMMA JoinKeepsHome ==
  ASSUME HomeInv, NEW c \in Leasers, Join(c), UNCHANGED <<homeLock, blocked, closing>>
  PROVE  HomeInv'
<1>1. DshTyped /\ DshTypeOK
  BY EpochsAre DEF HomeInv
<1>2. DshTyped'
  BY <1>1, JoinType DEF DshTyped, DshTypeOK, EpochType, ChildKinds, LeaseType
<1>3. ASSUME NEW f \in Epochs PROVE AccountedFor(epoch'[f], f, homeLock')
  <2>1. AccountedFor(epoch[f], f, homeLock)
    BY DEF HomeInv
  <2>2. CASE current # 0
    BY <2>1, <2>2 DEF Join
  <2>3. CASE current = 0
    <3>1. CASE f = Begun
      BY <2>3, <3>1 DEF Join, AccountedFor, Homeless
    <3>2. CASE f # Begun
      BY <2>1, <2>3, <3>2 DEF Join
    <3>3. QED BY <3>1, <3>2
  <2>4. QED BY <2>2, <2>3
<1>4. QED
  BY <1>2, <1>3 DEF HomeInv

LEMMA LeasesHome ==
  ASSUME HomeInv, lease' \in [Leasers -> LeaseType],
         UNCHANGED <<epoch, current, homeLock, blocked, closing, dshSpent>>
  PROVE  HomeInv'
<1>1. DshTyped /\ DshTypeOK
  BY EpochsAre DEF HomeInv
<1>2. DshTyped'
  BY <1>1 DEF DshTyped, DshTypeOK, LeaseType
<1>3. QED
  BY <1>2 DEF HomeInv

LEMMA LeaserKeepsHome ==
  ASSUME HomeInv, NEW c \in Leasers,
         \/ Acquire(c) \/ StopAwaited(c) \/ Granted(c) \/ Refused(c)
         \/ Leave(c) \/ Ready(c) \/ Fail(c)
  PROVE  HomeInv'
<1>1. /\ DshTyped /\ DshTypeOK /\ lease \in [Leasers -> LeaseType]
      /\ epoch \in [Epochs -> EpochType] /\ Away \in LeaseType
  BY EpochsAre, DshAssumption DEF HomeInv, LeaseType, Away
<1>2. lease[c].state # "away" => /\ lease[c].epoch \in Epochs
                                 /\ lease[c].epoch \in 0 .. MaxEpochs
  BY <1>1, DshAssumption DEF LeaseType, Epochs
<1>3. [lease EXCEPT ![c] = Away] \in [Leasers -> LeaseType]
  BY <1>1
<1>4. CASE Acquire(c)
  <2>1. CASE current # 0 /\ epoch[current].stop # "none"
    <3>1. [state |-> "queued", epoch |-> current] \in LeaseType
      BY <1>1, <2>1 DEF LeaseType, DshTypeOK
    <3>2. lease' \in [Leasers -> LeaseType]
      BY <1>1, <1>4, <2>1, <3>1 DEF Acquire
    <3>3. QED
      BY <1>4, <2>1, <3>2, LeasesHome DEF Acquire
  <2>2. CASE ~ (current # 0 /\ epoch[current].stop # "none")
    BY <1>4, <2>2, JoinKeepsHome DEF Acquire
  <2>3. QED BY <2>1, <2>2
<1>5. CASE StopAwaited(c)
  BY <1>3, <1>5, JoinKeepsHome, LeasesHome DEF StopAwaited
<1>6. CASE Granted(c)
  <2>1. [lease[c] EXCEPT !.state = "held"] \in LeaseType
    BY <1>1, <1>2, <1>6 DEF Granted, LeaseType
  <2>2. lease' \in [Leasers -> LeaseType]
    BY <1>1, <1>6, <2>1 DEF Granted
  <2>3. QED
    BY <1>6, <2>2, LeasesHome DEF Granted
<1>7. CASE Refused(c)
  BY <1>3, <1>7, LeasesHome DEF Refused
<1>8. CASE Leave(c)
  <2> DEFINE e == lease[c].epoch
  <2>1. e \in Epochs
    BY <1>2, <1>8 DEF Leave
  <2>2. CASE LastOf(c)
    <3>1. epoch' = [epoch EXCEPT ![e] = Fence(epoch[e])]
      BY <1>8, <2>2 DEF Leave
    <3>2. lease' \in [Leasers -> LeaseType]
      BY <1>1, <1>8, <2>1, <2>2, FencedLeasesType DEF Leave
    <3>3. epoch[e] \in EpochType /\ AccountedFor(epoch[e], e, homeLock)
      BY <1>1, <2>1 DEF HomeInv
    <3>4. Fence(epoch[e]) \in EpochType /\ AccountedFor(Fence(epoch[e]), e, homeLock)
      BY <3>3, FenceEffect, FenceAccounts
    <3> HIDE DEF e
    <3>5. QED
      BY <1>1, <1>8, <2>1, <3>1, <3>2, <3>4, OneEpochHome DEF Leave, DshTypeOK
  <2>3. CASE ~ LastOf(c)
    BY <1>3, <1>8, <2>3, LeasesHome DEF Leave
  <2>4. QED BY <2>2, <2>3
<1>9. CASE Ready(c)
  <2> DEFINE e == lease[c].epoch
             g == [epoch[e] EXCEPT !.ready = TRUE]
  <2>1. e \in Epochs
    BY <1>2, <1>9 DEF Ready
  <2>2. epoch[e] \in EpochType /\ AccountedFor(epoch[e], e, homeLock)
    BY <1>1, <2>1 DEF HomeInv
  <2>3. g \in EpochType /\ AccountedFor(g, e, homeLock)
    BY <2>2 DEF EpochType, AccountedFor
  <2>4. epoch' = [epoch EXCEPT ![e] = g]
    BY <1>1, <1>9, <2>1 DEF Ready
  <2> HIDE DEF e, g
  <2>5. QED
    BY <1>1, <1>9, <2>1, <2>3, <2>4, OneEpochHome DEF Ready, DshTypeOK
<1>10. CASE Fail(c)
  <2>1. lease[c].epoch \in Epochs
    BY <1>2, <1>10 DEF Fail
  <2>2. QED
    BY <1>1, <1>10, <2>1, FencedHome DEF Fail, DshTypeOK
<1>11. QED
  BY <1>4, <1>5, <1>6, <1>7, <1>8, <1>9, <1>10

LEMMA HostKeepsHome ==
  ASSUME HomeInv, Close \/ Closed \/ HostRestarts
  PROVE  HomeInv'
<1>1. /\ DshTyped /\ DshTypeOK /\ lease \in [Leasers -> LeaseType]
      /\ epoch \in [Epochs -> EpochType]
  BY EpochsAre DEF HomeInv
<1>2. CASE Close
  <2>1. CASE current = 0
    <3>1. DshTyped'
      BY <1>1, <1>2, <2>1 DEF Close, DshTyped, DshTypeOK, LeaseType
    <3>2. QED
      BY <1>2, <2>1, <3>1 DEF Close, HomeInv
  <2>2. CASE current # 0
    <3>1. current \in Epochs
      BY <1>1, <2>2, DshAssumption DEF DshTypeOK, Epochs
    <3>2. QED
      BY <1>1, <1>2, <2>2, <3>1, FencedHome DEF Close, DshTypeOK
  <2>3. QED BY <2>1, <2>2
<1>3. CASE Closed
  <2>1. DshTyped'
    BY <1>1, <1>3 DEF Closed, DshTyped, DshTypeOK, LeaseType
  <2>2. QED
    BY <1>3, <2>1 DEF Closed, HomeInv
<1>4. CASE HostRestarts
  <2>1. ASSUME NEW e \in Epochs
        PROVE  epoch'[e] \in EpochType /\ AccountedFor(epoch'[e], e, homeLock')
    <3> DEFINE g == [epoch[e] EXCEPT !.phase = "ended", !.fenced = TRUE, !.stop = "done",
                                     !.home = FALSE]
    <3>1. epoch[e] \in EpochType /\ AccountedFor(epoch[e], e, homeLock)
      BY <1>1 DEF HomeInv
    <3>2. g \in EpochType /\ AccountedFor(g, e, homeLock)
      BY <3>1 DEF EpochType, AccountedFor, Homeless, Phases, StopStages
    <3>3. epoch'[e] = IF epoch[e].phase = "none" THEN epoch[e] ELSE g
      BY <1>4 DEF HostRestarts
    <3>4. QED
      BY <1>4, <3>1, <3>2, <3>3 DEF HostRestarts
  <2>2. epoch' \in [Epochs -> EpochType]
    BY <1>4, <2>1 DEF HostRestarts
  <2>3. lease' \in [Leasers -> LeaseType]
    <3>1. Away \in LeaseType
      BY DshAssumption DEF LeaseType, Away
    <3>2. QED
      BY <1>4, <3>1 DEF HostRestarts
  <2>4. dshSpent' \in [epochs : 0 .. MaxEpochs, lives : 0 .. MaxLives]
    <3> DEFINE lives == dshSpent.lives
    <3>1. lives \in 0 .. MaxLives /\ lives < MaxLives
      BY <1>1, <1>4 DEF HostRestarts, DshTypeOK
    <3>2. lives + 1 \in 0 .. MaxLives
      BY <3>1, DshAssumption
    <3>3. QED
      BY <1>1, <1>4, <3>2 DEF HostRestarts, DshTypeOK
  <2>5. /\ current' \in 0 .. MaxEpochs /\ homeLock' \in 0 .. MaxEpochs
        /\ blocked' \in BOOLEAN /\ closing' \in {"open", "closing", "closed"}
    <3>1. current' = 0 /\ homeLock' = homeLock /\ blocked' = FALSE /\ closing' = "open"
      BY <1>4, Zenon DEF HostRestarts
    <3>2. 0 \in 0 .. MaxEpochs
      BY DshAssumption
    <3>3. homeLock \in 0 .. MaxEpochs
      BY <1>1 DEF DshTypeOK
    <3>4. QED
      BY <3>1, <3>2, <3>3
  <2>6. DshTyped'
    <3>1. lease' \in [Leasers -> [state : {"away", "queued", "joined", "held"},
                                 epoch : 0 .. MaxEpochs]]
      BY <2>3 DEF LeaseType
    <3>2. QED
      BY <2>2, <2>3, <2>4, <2>5, <3>1 DEF DshTyped, DshTypeOK, EpochType, ChildKinds
  <2>7. QED
    BY <2>1, <2>6 DEF HomeInv
<1>5. QED
  BY <1>2, <1>3, <1>4

LEMMA HomeNext == HomeInv /\ [DshNext]_dshVars => HomeInv'
<1> SUFFICES ASSUME HomeInv, [DshNext]_dshVars PROVE HomeInv'
  OBVIOUS
<1>1. ASSUME NEW e \in Epochs, Deadline(e) PROVE HomeInv'
  BY <1>1, EpochsAre, FencedHome DEF Deadline, HomeInv, DshTypeOK
<1>2. CASE UNCHANGED dshVars
  BY <1>2 DEF dshVars, HomeInv, DshTyped, DshTypeOK, LeaseType, EpochType
<1>3. QED
  BY <1>1, <1>2, LeaserKeepsHome, StartKeepsHome, StopKeepsHome, ExitKeepsHome, HostKeepsHome
     DEF DshNext

\* The lock file is accounted for in every state the runtime reaches: every start, stop,
\* exit of the child and restart of the host keeps it so.
THEOREM HomeInvariant == DshSpec => []HomeInv
<1>1. DshInit => HomeInv
  BY HomeInit
<1>2. HomeInv /\ [DshNext]_dshVars => HomeInv'
  BY HomeNext
<1>3. QED
  BY <1>1, <1>2, PTL DEF DshSpec

\* A live child has its home locked, whoever stopped it, in this life of the host
\* or in a former one: two children never run on one home.
THEOREM HomesAreLocked == DshSpec => []ChildrenHoldTheHome
<1>1. HomeInv => ChildrenHoldTheHome
  BY DEF HomeInv, AccountedFor, ChildrenHoldTheHome
<1>2. QED
  BY <1>1, HomeInvariant, PTL

\* The runtime's records keep their shape, and no start is numbered past the bound.
THEOREM DshTypeCorrect == DshSpec => []DshTypeOK
<1>1. HomeInv => DshTypeOK
  BY DEF HomeInv, DshTyped
<1>2. QED
  BY <1>1, HomeInvariant, PTL
-----------------------------------------------------------------------------
(***************************************************************************)
(* Held leases.                                                            *)
(***************************************************************************)

LEMMA StopEpochServes ==
  ASSUME LeaseInv, NEW e \in Epochs, NEW r \in EpochType, r.stop = epoch[e].stop,
         StopEpoch(e, r), UNCHANGED current
  PROVE  \A c \in Leasers : Served(c)'
<1>1. /\ DshTyped /\ epoch' = [epoch EXCEPT ![e] = Fence(r)] /\ lease' = FencedLeases(e)
      /\ epoch \in [Epochs -> EpochType] /\ lease \in [Leasers -> LeaseType]
  BY EpochsAre DEF LeaseInv, HomeInv, StopEpoch
<1>2. SUFFICES ASSUME NEW c \in Leasers, lease'[c].state = "held"
               PROVE  /\ lease'[c].epoch = current /\ epoch'[current].phase = "announced"
                      /\ epoch'[current].stop = "none"
  BY DEF Served
<1>3. lease'[c] = lease[c] /\ (epoch[e].stop = "none" => c \notin Clients(e))
  BY <1>1, <1>2 DEF FencedLeases, Away
<1>4. /\ lease[c].epoch = current /\ epoch[current].phase = "announced"
      /\ epoch[current].stop = "none"
  BY <1>2, <1>3 DEF LeaseInv, Served
<1>5. current # e
  BY <1>2, <1>3, <1>4 DEF Clients
<1>6. QED
  BY <1>1, <1>3, <1>4, <1>5

\* A step that leaves leases alone, of an epoch that no lease is held on.
LEMMA OneEpochServes ==
  ASSUME LeaseInv, NEW e \in Epochs, \A f \in Epochs \ {e} : epoch'[f] = epoch[f],
         epoch[e].phase # "announced" \/ epoch[e].stop # "none", UNCHANGED <<current, lease>>
  PROVE  \A c \in Leasers : Served(c)'
<1>1. ASSUME NEW c \in Leasers, lease[c].state = "held"
      PROVE  lease[c].epoch = current /\ current \in Epochs
  BY <1>1, EpochsAre, DshAssumption DEF LeaseInv, HomeInv, Served, Epochs, LeaseType, DshTyped
<1>2. QED
  BY <1>1 DEF LeaseInv, Served

LEMMA StartServes ==
  ASSUME LeaseInv, NEW e \in Epochs, StartStep(e) \/ Announces(e) \/ AnnouncementFails(e)
  PROVE  \A c \in Leasers : Served(c)'
<1>1. DshTyped /\ epoch \in [Epochs -> EpochType] /\ UNCHANGED current
  BY EpochsAre DEF LeaseInv, HomeInv, StartStep, Validated, TakesLock, Homed, Unlocks, Reserved,
                   Spawns, Announces, AnnouncementFails
<1>2. CASE StartFails(e)
  <2> DEFINE r == [epoch[e] EXCEPT !.phase = "ended"]
  <2>1. r \in EpochType /\ r.stop = epoch[e].stop
    BY <1>1 DEF EpochType, Phases
  <2>2. StopEpoch(e, r)
    BY <1>2 DEF StartFails
  <2> HIDE DEF r
  <2>3. QED
    BY <1>1, <2>1, <2>2, StopEpochServes
<1>3. CASE ~ StartFails(e)
  <2>1. /\ epoch[e].phase # "announced" /\ UNCHANGED lease
        /\ \A f \in Epochs \ {e} : epoch'[f] = epoch[f]
    BY <1>1, <1>3 DEF StartStep, Validated, TakesLock, Homed, Unlocks, Reserved,
                   Spawns, Announces, AnnouncementFails, PhaseGoes
  <2>2. QED
    BY <1>1, <2>1, OneEpochServes
<1>4. QED BY <1>2, <1>3

LEMMA StopServes ==
  ASSUME LeaseInv, NEW e \in Epochs, StopStep(e)
  PROVE  \A c \in Leasers : Served(c)'
<1>1. /\ DshTyped /\ epoch \in [Epochs -> EpochType] /\ UNCHANGED lease
      /\ lease \in [Leasers -> LeaseType] /\ epoch[e].stop # "none"
      /\ \A f \in Epochs \ {e} : epoch'[f] = epoch[f]
  BY EpochsAre DEF LeaseInv, HomeInv, StopStep, Cancelled, Terminated, Killed, ReleasesHome,
                   StopGoes
<1>2. CASE UNCHANGED current
  BY <1>1, <1>2, OneEpochServes
<1>3. CASE ~ UNCHANGED current
  <2>1. current = e
    BY <1>3 DEF StopStep, Cancelled, Terminated, Killed, ReleasesHome
  <2>2. \A c \in Leasers : lease[c].state # "held"
    BY <1>1, <2>1 DEF LeaseInv, Served
  <2>3. QED
    BY <1>1, <2>2 DEF Served
<1>4. QED BY <1>2, <1>3

LEMMA JoinServes ==
  ASSUME LeaseInv, NEW c \in Leasers, Join(c)
  PROVE  \A d \in Leasers : Served(d)'
<1>1. DshTyped /\ lease \in [Leasers -> LeaseType] /\ epoch \in [Epochs -> EpochType]
  BY EpochsAre DEF LeaseInv, HomeInv
<1>2. CASE current # 0
  BY <1>1, <1>2 DEF Join, LeaseInv, Served
<1>3. CASE current = 0
  <2>1. \A d \in Leasers : lease[d].state # "held"
    BY <1>1, <1>3 DEF LeaseInv, Served, LeaseType
  <2>2. \A d \in Leasers : lease'[d].state # "held"
    BY <1>1, <1>3, <2>1 DEF Join
  <2>3. QED BY <2>2 DEF Served
<1>4. QED BY <1>2, <1>3

LEMMA LeaserServes ==
  ASSUME LeaseInv, NEW c \in Leasers,
         \/ Acquire(c) \/ StopAwaited(c) \/ Granted(c) \/ Refused(c)
         \/ Leave(c) \/ Ready(c) \/ Fail(c)
  PROVE  \A d \in Leasers : Served(d)'
<1>1. /\ DshTyped /\ lease \in [Leasers -> LeaseType] /\ epoch \in [Epochs -> EpochType]
      /\ Away.state # "held"
  BY EpochsAre DEF LeaseInv, HomeInv, Away
<1>2. lease[c].state # "away" => lease[c].epoch \in Epochs
  BY <1>1, DshAssumption DEF LeaseType, Epochs
<1>3. ASSUME NEW l, l.state # "held", lease' = [lease EXCEPT ![c] = l],
             UNCHANGED <<epoch, current>>
      PROVE  \A d \in Leasers : Served(d)'
  BY <1>1, <1>3 DEF LeaseInv, Served
<1>4. CASE Acquire(c)
  <2>1. CASE Join(c)
    BY <2>1, JoinServes
  <2>2. CASE /\ lease' = [lease EXCEPT ![c] = [state |-> "queued", epoch |-> current]]
             /\ UNCHANGED <<epoch, current, dshSpent>>
    <3>1. [state |-> "queued", epoch |-> current].state # "held"
      OBVIOUS
    <3>2. QED
      BY <1>3, <2>2, <3>1
  <2>3. QED BY <1>4, <2>1, <2>2 DEF Acquire
<1>5. CASE StopAwaited(c)
  BY <1>3, <1>1, <1>5, JoinServes DEF StopAwaited
<1>6. CASE Granted(c)
  <2>1. /\ lease[c].epoch = current /\ epoch[current].phase = "announced"
        /\ epoch[current].stop = "none"
    <3>1. lease[c].epoch = current /\ ~ epoch[current].fenced /\ current \in Epochs
      BY <1>2, <1>6 DEF Granted, Active
    <3>2. QED
      BY <1>6, <3>1 DEF Granted, LeaseInv, HomeInv, AccountedFor
  <2>2. QED
    BY <1>1, <1>6, <2>1 DEF Granted, LeaseInv, Served
<1>7. CASE Refused(c)
  BY <1>3, <1>1, <1>7 DEF Refused
<1>8. CASE Leave(c)
  <2> DEFINE e == lease[c].epoch
  <2>1. e \in Epochs
    BY <1>2, <1>8 DEF Leave
  <2>2. CASE LastOf(c)
    <3>1. /\ epoch' = [epoch EXCEPT ![e] = Fence(epoch[e])]
          /\ lease' = [FencedLeases(e) EXCEPT ![c] = Away] /\ UNCHANGED current
      BY <1>8, <2>2 DEF Leave
    <3>2. ASSUME NEW d \in Leasers, lease'[d].state = "held"
          PROVE  d # c /\ lease[d].state = "held" /\ lease'[d] = lease[d] /\ lease[d].epoch # e
      <4>1. d # c
        BY <1>1, <2>1, <3>1, <3>2, FencedLeasesType DEF Away
      <4>2. lease'[d] = FencedLeases(e)[d]
        BY <1>1, <2>1, <3>1, <4>1, FencedLeasesType
      <4>3. lease'[d] = lease[d]
        BY <3>2, <4>2 DEF FencedLeases, Away
      <4>4. d \notin Clients(e)
        BY <2>2, <4>1 DEF LastOf
      <4>5. QED
        BY <3>2, <4>1, <4>3, <4>4 DEF Clients
    <3>3. QED
      BY <1>1, <2>1, <3>1, <3>2 DEF LeaseInv, Served
  <2>3. CASE ~ LastOf(c)
    BY <1>3, <1>1, <1>8, <2>3 DEF Leave
  <2>4. QED BY <2>2, <2>3
<1>9. CASE Ready(c)
  BY <1>1, <1>2, <1>9 DEF Ready, LeaseInv, Served, EpochType
<1>10. CASE Fail(c)
  BY <1>1, <1>2, <1>10, StopEpochServes DEF Fail
<1>11. QED
  BY <1>4, <1>5, <1>6, <1>7, <1>8, <1>9, <1>10

LEMMA LeaseNext == LeaseInv /\ [DshNext]_dshVars => LeaseInv'
<1> SUFFICES ASSUME LeaseInv, [DshNext]_dshVars PROVE \A c \in Leasers : Served(c)'
  BY HomeNext DEF LeaseInv
<1>1. DshTyped /\ DshTypeOK /\ epoch \in [Epochs -> EpochType]
  BY EpochsAre DEF LeaseInv, HomeInv
<1>2. ASSUME NEW e \in Epochs, Deadline(e) PROVE \A c \in Leasers : Served(c)'
  BY <1>1, <1>2, StopEpochServes DEF Deadline
<1>3. ASSUME NEW e \in Epochs, ChildExits(e) PROVE \A c \in Leasers : Served(c)'
  <2> DEFINE r == [epoch[e] EXCEPT !.child = "exited"]
  <2>1. r \in EpochType /\ r.stop = epoch[e].stop
    BY <1>1 DEF EpochType, ChildKinds
  <2>2. IF current = e THEN StopEpoch(e, r)
        ELSE epoch' = [epoch EXCEPT ![e] = r] /\ UNCHANGED lease
    BY <1>3 DEF ChildExits
  <2> HIDE DEF r
  <2>3. CASE current = e
    BY <1>3, <2>1, <2>2, <2>3, StopEpochServes DEF ChildExits
  <2>4. CASE current # e
    <3>1. ASSUME NEW c \in Leasers, lease[c].state = "held"
          PROVE  current \in Epochs \ {e} /\ lease[c].epoch = current
      BY <2>4, <3>1, EpochsAre, DshAssumption
         DEF LeaseInv, HomeInv, Served, DshTyped, LeaseType, Epochs
    <3>2. QED
      BY <1>1, <1>3, <2>2, <2>4, <3>1 DEF ChildExits, LeaseInv, Served
  <2>5. QED BY <2>3, <2>4
<1>4. CASE Close
  <2>1. CASE current = 0
    BY <1>4, <2>1 DEF Close, LeaseInv, Served
  <2>2. CASE current # 0
    <3>1. current \in Epochs
      BY <1>1, <2>2, DshAssumption DEF DshTypeOK, Epochs
    <3>2. QED
      BY <1>1, <1>4, <2>2, <3>1, StopEpochServes DEF Close
  <2>3. QED BY <2>1, <2>2
<1>5. CASE Closed
  BY <1>5 DEF Closed, LeaseInv, Served
<1>6. CASE HostRestarts
  BY <1>6 DEF HostRestarts, Served, Away
<1>7. CASE UNCHANGED dshVars
  BY <1>7 DEF dshVars, LeaseInv, Served
<1>8. QED
  BY <1>2, <1>3, <1>4, <1>5, <1>6, <1>7, LeaserServes, StartServes, StopServes DEF DshNext

\* The lock is accounted for, and every held lease is on the epoch in service.
THEOREM LeaseInvariant == DshSpec => []LeaseInv
<1>1. DshInit => LeaseInv
  BY HomeInit DEF LeaseInv, Served, DshInit, Away
<1>2. QED
  BY <1>1, LeaseNext, PTL DEF DshSpec

\* A lease that nobody has ended is on the epoch in service, announced and not being
\* stopped: no caller talks to a child that another caller's end has taken away.
THEOREM LeasesAreServed == DshSpec => []HeldLeasesAreServed
<1>1. LeaseInv => HeldLeasesAreServed
  BY DEF LeaseInv, Served, HeldLeasesAreServed
<1>2. QED
  BY <1>1, LeaseInvariant, PTL
-----------------------------------------------------------------------------
(***************************************************************************)
(* The fence.                                                              *)
(***************************************************************************)

Unmoved(e) ==
  /\ epoch[e].child = "none" => epoch'[e].child = "none"
  /\ epoch'[e].phase = "announced" => epoch[e].phase = "announced"
Ungranted(e) ==
  \A c \in Leasers : lease'[c] = [state |-> "held", epoch |-> e] => lease'[c] = lease[c]

\* Only a grant, which looks at the fence, makes a lease held.
LEMMA OnlyGrants ==
  ASSUME HomeInv, [DshNext]_dshVars, NEW c \in Leasers, lease'[c].state = "held",
         lease'[c] # lease[c]
  PROVE  Granted(c)
<1>1. /\ DshTyped /\ DshTypeOK /\ lease \in [Leasers -> LeaseType]
      /\ epoch \in [Epochs -> EpochType] /\ Away.state # "held"
  BY EpochsAre DEF HomeInv, Away
<1>2. \A e \in Epochs : FencedLeases(e)[c] \in {lease[c], Away}
  BY <1>1 DEF FencedLeases
<1>3. ASSUME NEW d \in Leasers, Join(d) PROVE FALSE
  BY <1>1, <1>3 DEF Join
<1>4. ASSUME NEW e \in Epochs, NEW r, StopEpoch(e, r) PROVE FALSE
  BY <1>1, <1>2, <1>4 DEF StopEpoch
<1>5. ~ UNCHANGED lease
  OBVIOUS
<1>6. ASSUME NEW d \in Leasers, lease' = [lease EXCEPT ![d] = Away] PROVE FALSE
  BY <1>1, <1>6
<1>7. \A d \in Leasers : lease[d].state # "away" => lease[d].epoch \in Epochs
  BY <1>1, DshAssumption DEF LeaseType, Epochs
<1>8. ASSUME NEW d \in Leasers,
             \/ Acquire(d) \/ StopAwaited(d) \/ Granted(d) \/ Refused(d)
             \/ Leave(d) \/ Ready(d) \/ Fail(d)
      PROVE  Granted(c)
  <2>1. CASE Acquire(d)
    BY <1>1, <1>3, <2>1 DEF Acquire
  <2>2. CASE StopAwaited(d)
    BY <1>3, <1>6, <2>2 DEF StopAwaited
  <2>3. CASE Granted(d)
    BY <1>1, <2>3 DEF Granted
  <2>4. CASE Refused(d)
    BY <1>6, <2>4 DEF Refused
  <2>5. CASE Leave(d)
    <3>1. lease[d].epoch \in Epochs
      BY <1>7, <2>5 DEF Leave
    <3>2. CASE LastOf(d)
      <4>1. lease' = [FencedLeases(lease[d].epoch) EXCEPT ![d] = Away]
        BY <2>5, <3>2 DEF Leave
      <4>2. FencedLeases(lease[d].epoch) \in [Leasers -> LeaseType]
        BY <1>1, <3>1, FencedLeasesType
      <4>3. lease'[c] \in {FencedLeases(lease[d].epoch)[c], Away}
        BY <4>1, <4>2
      <4>4. QED
        BY <1>1, <1>2, <3>1, <4>3
    <3>3. CASE ~ LastOf(d)
      BY <1>6, <2>5, <3>3 DEF Leave
    <3>4. QED BY <3>2, <3>3
  <2>6. CASE Ready(d)
    BY <1>5, <2>6 DEF Ready
  <2>7. CASE Fail(d)
    BY <1>4, <1>7, <2>7 DEF Fail
  <2>8. QED BY <1>8, <2>1, <2>2, <2>3, <2>4, <2>5, <2>6, <2>7
<1>9. ASSUME NEW e \in Epochs,
             \/ StartStep(e) \/ StopStep(e) \/ Announces(e)
             \/ AnnouncementFails(e) \/ Deadline(e) \/ ChildExits(e)
      PROVE  FALSE
  BY <1>4, <1>5, <1>9 DEF StartStep, Validated, TakesLock, Homed, Unlocks, Reserved, Spawns,
       Announces, AnnouncementFails, PhaseGoes, StartFails, StopStep, Cancelled, Terminated,
       Killed, ReleasesHome, Deadline, ChildExits
<1>10. ASSUME Close \/ Closed \/ HostRestarts PROVE FALSE
  <2>1. CASE Close
    <3>1. current # 0 => current \in Epochs
      BY <1>1, DshAssumption DEF DshTypeOK, Epochs
    <3>2. QED
      BY <1>4, <1>5, <2>1, <3>1 DEF Close
  <2>2. CASE Closed
    BY <1>5, <2>2 DEF Closed
  <2>3. CASE HostRestarts
    BY <1>1, <2>3 DEF HostRestarts
  <2>4. QED BY <1>10, <2>1, <2>2, <2>3
<1>11. QED
  BY <1>5, <1>8, <1>9, <1>10 DEF DshNext, dshVars

\* A step of one epoch that neither spawns nor announces, or is of an unfenced epoch.
LEMMA OneEpochUnmoved ==
  ASSUME DshTyped, NEW e \in Epochs, epoch[e].fenced, NEW f \in Epochs, NEW r \in EpochType,
         epoch' = [epoch EXCEPT ![f] = r],
         \/ ~ epoch[f].fenced
         \/ /\ epoch[f].child = "none" => r.child = "none"
            /\ r.phase = "announced" => epoch[f].phase = "announced"
  PROVE  Unmoved(e)
<1>1. epoch'[e] = IF e = f THEN r ELSE epoch[e]
  BY EpochsAre
<1>2. QED
  BY <1>1 DEF Unmoved

LEMMA StopUnmoved ==
  ASSUME DshTyped, NEW e \in Epochs, epoch[e].fenced, NEW f \in Epochs, NEW r \in EpochType,
         StopEpoch(f, r), epoch[f].child = "none" => r.child = "none",
         r.phase = "announced" => epoch[f].phase = "announced"
  PROVE  Unmoved(e)
<1>1. epoch' = [epoch EXCEPT ![f] = Fence(r)]
  BY DEF StopEpoch
<1>2. /\ Fence(r) \in EpochType
      /\ epoch[f].child = "none" => Fence(r).child = "none"
      /\ Fence(r).phase = "announced" => epoch[f].phase = "announced"
  BY FenceEffect
<1>3. QED
  BY <1>1, <1>2, OneEpochUnmoved

LEMMA StartUnmoved ==
  ASSUME DshTyped, NEW e \in Epochs, epoch[e].fenced, NEW f \in Epochs,
         StartStep(f) \/ Announces(f) \/ AnnouncementFails(f)
  PROVE  Unmoved(e)
<1>1. epoch[f] \in EpochType /\ epoch \in [Epochs -> EpochType]
  BY EpochsAre
<1>2. CASE StartFails(f)
  <2> DEFINE r == [epoch[f] EXCEPT !.phase = "ended"]
  <2>1. r \in EpochType /\ r.child = epoch[f].child /\ r.phase = "ended"
    BY <1>1 DEF EpochType, Phases
  <2>2. StopEpoch(f, r)
    BY <1>2 DEF StartFails
  <2> HIDE DEF r
  <2>3. QED
    BY <2>1, <2>2, StopUnmoved
<1>3. CASE Active(f) /\ (Spawns(f) \/ Announces(f) \/ Homed(f))
  <2>1. f # e
    BY <1>3 DEF Active
  <2>2. epoch'[e] = epoch[e]
    BY <1>1, <1>3, <2>1 DEF Spawns, Announces, Homed, PhaseGoes, StartFails, StopEpoch
  <2>3. QED
    BY <2>2 DEF Unmoved
<1>4. ASSUME NEW phase \in Phases \ {"announced"}, PhaseGoes(f, phase)
      PROVE  Unmoved(e)
  BY <1>1, <1>4 DEF PhaseGoes, Unmoved, EpochType
<1>5. QED
  BY <1>2, <1>3, <1>4 DEF StartStep, Validated, TakesLock, Homed, Unlocks, Reserved, Spawns,
     Announces, AnnouncementFails, Phases

LEMMA OnlyTheUnfenced ==
  ASSUME HomeInv, [DshNext]_dshVars, NEW e \in Epochs, epoch[e].fenced
  PROVE  Unmoved(e)
<1>1. /\ DshTyped /\ DshTypeOK /\ epoch \in [Epochs -> EpochType]
      /\ lease \in [Leasers -> LeaseType]
  BY EpochsAre DEF HomeInv
<1>2. CASE UNCHANGED epoch
  BY <1>2 DEF Unmoved
<1>3. ASSUME NEW f \in Epochs, StopEpoch(f, epoch[f]) PROVE Unmoved(e)
  BY <1>1, <1>3, StopUnmoved
<1>4. \A c \in Leasers : lease[c].state # "away" => lease[c].epoch \in Epochs
  BY <1>1, DshAssumption DEF LeaseType, Epochs
<1>5. ASSUME NEW c \in Leasers, Join(c) PROVE Unmoved(e)
  BY <1>1, <1>2, <1>5 DEF Join, Unmoved
<1>6. ASSUME NEW c \in Leasers,
             \/ Acquire(c) \/ StopAwaited(c) \/ Granted(c) \/ Refused(c)
             \/ Leave(c) \/ Ready(c) \/ Fail(c)
      PROVE  Unmoved(e)
  <2>1. CASE Leave(c) /\ ~ UNCHANGED epoch
    <3> DEFINE f == lease[c].epoch
    <3>1. f \in Epochs /\ epoch' = [epoch EXCEPT ![f] = Fence(epoch[f])]
      BY <1>4, <2>1 DEF Leave
    <3> HIDE DEF f
    <3>2. QED
      BY <1>1, <3>1, FenceEffect, OneEpochUnmoved
  <2>2. CASE Ready(c)
    <3>1. lease[c].epoch \in Epochs
      BY <1>4, <2>2 DEF Ready
    <3>2. QED
      BY <1>1, <2>2, <3>1 DEF Ready, Unmoved, EpochType
  <2>3. CASE Fail(c)
    BY <1>3, <1>4, <2>3 DEF Fail
  <2>4. QED
    BY <1>2, <1>5, <1>6, <2>1, <2>2, <2>3 DEF Acquire, StopAwaited, Granted, Refused
<1>7. ASSUME NEW f \in Epochs, StopStep(f) PROVE Unmoved(e)
  BY <1>1, <1>7 DEF StopStep, Cancelled, Terminated, Killed, ReleasesHome, StopGoes, Unmoved,
     EpochType
<1>8. ASSUME NEW f \in Epochs, ChildExits(f) PROVE Unmoved(e)
  <2> DEFINE r == [epoch[f] EXCEPT !.child = "exited"]
  <2>1. r \in EpochType /\ r.phase = epoch[f].phase /\ epoch[f].child = "live"
    BY <1>1, <1>8 DEF ChildExits, EpochType, ChildKinds
  <2>2. StopEpoch(f, r) \/ epoch' = [epoch EXCEPT ![f] = r]
    BY <1>8 DEF ChildExits
  <2> HIDE DEF r
  <2>3. QED
    BY <1>1, <2>1, <2>2, StopUnmoved, OneEpochUnmoved
<1>9. ASSUME Close PROVE Unmoved(e)
  <2>1. current # 0 => current \in Epochs
    BY <1>1, DshAssumption DEF DshTypeOK, Epochs
  <2>2. QED
    BY <1>2, <1>3, <1>9, <2>1 DEF Close
<1>10. ASSUME HostRestarts PROVE Unmoved(e)
  BY <1>1, <1>10 DEF HostRestarts, Unmoved, EpochType
<1>11. QED
  BY <1>1, <1>2, <1>3, <1>6, <1>7, <1>8, <1>9, <1>10, StartUnmoved
     DEF DshNext, dshVars, Deadline, Closed

\* After the fence of an epoch its start brings nothing about: whatever continuation
\* is still under way spawns no child for it, announces nothing and grants no lease.
THEOREM FencesHold == DshSpec => FencedStaysDown
<1>1. HomeInv /\ [DshNext]_dshVars
        => \A e \in Epochs : epoch[e].fenced => Unmoved(e) /\ Ungranted(e)
  <2> SUFFICES ASSUME HomeInv, [DshNext]_dshVars, NEW e \in Epochs, epoch[e].fenced
               PROVE  Unmoved(e) /\ Ungranted(e)
    OBVIOUS
  <2>1. ASSUME NEW c \in Leasers, lease'[c] = [state |-> "held", epoch |-> e],
               lease'[c] # lease[c]
        PROVE  FALSE
    <3>1. Granted(c)
      BY <2>1, OnlyGrants
    <3>2. lease[c].epoch = e
      BY <2>1, <3>1, EpochsAre DEF Granted, HomeInv, LeaseType
    <3>3. QED
      BY <3>1, <3>2 DEF Granted, Active
  <2>2. QED
    BY <2>1, OnlyTheUnfenced DEF Ungranted
<1>2. HomeInv /\ [DshNext]_dshVars => [\A e \in Epochs : epoch[e].fenced =>
       /\ epoch[e].child = "none" => epoch'[e].child = "none"
       /\ epoch'[e].phase = "announced" => epoch[e].phase = "announced"
       /\ \A c \in Leasers : lease'[c] = [state |-> "held", epoch |-> e] => lease'[c] = lease[c]
    ]_dshVars
  BY <1>1 DEF Unmoved, Ungranted
<1>3. QED
  BY <1>2, HomeInvariant, PTL DEF DshSpec, FencedStaysDown

-----------------------------------------------------------------------------
(***************************************************************************)
(* The boundary to OpenCode.                                               *)
(***************************************************************************)

\* The values of the records of the model.
BootStages == {"none", "waiting", "ensuring", "gate1", "starting", "gate2", "up", "cleaning",
          "failed"}
Gates == [seen : Nat, latched : BOOLEAN, file : BOOLEAN]
Numbers == 0 .. MaxContexts

Ctx == [boot : BootStages, preds : SUBSET Contexts, target : Numbers, server : Numbers,
        known : SUBSET Sessions, gate : Gates]
Req == [op : Operations \cup {"none"},
        pc : {"idle", "gate", "booting", "acting", "answered", "ok", "failed"},
        then : {"none", "enter", "booted", "acted", "removed", "final"},
        ctx : Numbers, sid : 0 .. MaxSessions, ids : SUBSET Sessions, gate : Gates, offs : Nat]
Switching == [file : BOOLEAN, latch : BOOLEAN, op : {"none", "off", "offWrite", "on"},
              offs : Nat, off : BOOLEAN]
Servers == {"none", "up", "terminating", "killed", "stray", "dead"}
Ups == {u \in [live : SUBSET Sessions, made : 0 .. MaxSessions] : u.live \subseteq 1 .. u.made}

\* The part of the types that the host's steps maintain.
HostTyped ==
  /\ gen \in Nat /\ active \in Numbers /\ entry \in Numbers
  /\ disabled \in BOOLEAN /\ disposal \in {"no", "closing", "done"}
  /\ context \in [Contexts -> Ctx]
  /\ server \in [Contexts -> Servers]
  /\ switch \in Switching
  /\ upstream \in Ups
  /\ left \in [calls : Nat, starts : Nat, updates : Nat]
  /\ streams \subseteq Contexts \X Sessions
  /\ request \in [Requests -> Req]

\* A context that has begun, and one whose start is under way.
Used(c) == context[c].boot # "none"
IsPending(c) == context[c].boot \notin {"none", "up", "failed"}

\* Contexts are numbered as they begin; only the last one can be in service.
Counted ==
  \E n \in Nat :
    /\ \A c \in Contexts : Used(c) <=> c <= n
    /\ n + left.starts <= MaxContexts
    /\ active \in {0, n}

\* A context waits for every earlier one whose start is still under way.
InTurn ==
  \A c, d \in Contexts :
    IsPending(c) /\ Used(d) /\ c < d =>
      context[d].boot = "waiting" /\ c \in context[d].preds

\* The one server that has not been told to end is the singleton's entry...
OneUp == \A s \in Contexts : server[s] = "up" <=> entry = s

\* ... and it belongs to the context in service, or to a start that waits for it.
InService(s) == active # 0 /\ context[active].server = s
EntryOwned ==
  entry # 0 =>
    \/ InService(entry)
    \/ \E c \in Contexts : context[c].boot = "ensuring" /\ context[c].target = entry

\* The context in service has a server that nobody has told to end.
ServiceIsUp ==
  active # 0 /\ context[active].server # 0 => server[context[active].server] = "up"

\* A start has no server of its own before ensureServer returns.
StartsFit ==
  \A c \in Contexts :
    /\ context[c].boot \in {"none", "waiting", "ensuring"} => context[c].server = 0
    /\ context[c].boot = "ensuring" =>
         context[c].target \in Contexts /\ server[context[c].target] \in {"up", "dead"}

\* Disposal retires the context, and ends after every start.
DisposalFits ==
  /\ disposal # "no" => active = 0
  /\ disposal = "done" => \A c \in Contexts : ~ IsPending(c)

\* The contexts and their servers, without the calls.
Hosting ==
  /\ Counted /\ InTurn /\ OneUp /\ EntryOwned /\ ServiceIsUp /\ StartsFit /\ DisposalFits

\* Execution that is switched off is latched off in memory.
OffIsLatched == switch.off \/ switch.op = "off" => switch.latch

\* What a call under way holds.
CallFits(r) ==
  /\ request[r] \in Req
  /\ request[r].op \in Scoped => request[r].sid # 0
  /\ request[r].op = "start" /\ request[r].pc = "answered" => request[r].sid # 0
  /\ request[r].op = "start" /\ request[r].then \in {"acted", "final"} => request[r].sid # 0
  /\ request[r].ctx # 0 => Used(request[r].ctx)
  /\ request[r].pc \in {"booting", "acting", "answered"} => request[r].ctx # 0
  /\ request[r].then \in {"booted", "acted", "removed", "final"} => request[r].ctx # 0
  /\ request[r].gate.seen <= gen
  /\ request[r].pc = "gate" /\ request[r].gate.seen = gen /\ switch.off =>
       request[r].gate.latched
  /\ request[r].pc \in {"gate", "booting", "acting", "answered"} =>
       \/ request[r].offs = switch.offs
       \/ request[r].pc = "gate" /\ request[r].gate.seen # gen
       \/ request[r].ctx # 0 /\ request[r].ctx # active

CallsFit == \A r \in Requests : CallFits(r)

\* The inductive invariant.
OpenCodeInv == HostTyped /\ Hosting /\ OffIsLatched /\ CallsFit

-----------------------------------------------------------------------------
(***************************************************************************)
(* Records.                                                                *)
(***************************************************************************)
LEMMA CtxFields ==
  ASSUME NEW x \in Ctx
  PROVE  /\ x.boot \in BootStages /\ x.preds \subseteq Contexts /\ x.target \in Numbers
         /\ x.server \in Numbers /\ x.known \subseteq Sessions /\ x.gate \in Gates
  BY DEF Ctx

LEMMA ReqFields ==
  ASSUME NEW q \in Req
  PROVE  /\ q.op \in Operations \cup {"none"}
         /\ q.pc \in {"idle", "gate", "booting", "acting", "answered", "ok", "failed"}
         /\ q.then \in {"none", "enter", "booted", "acted", "removed", "final"}
         /\ q.ctx \in Numbers /\ q.sid \in 0 .. MaxSessions /\ q.ids \subseteq Sessions
         /\ q.gate \in Gates /\ q.offs \in Nat
  BY DEF Req

LEMMA GateFields ==
  ASSUME NEW g \in Gates
  PROVE  g.seen \in Nat /\ g.latched \in BOOLEAN /\ g.file \in BOOLEAN
  BY DEF Gates

LEMMA SwitchFields ==
  ASSUME NEW s \in Switching
  PROVE  /\ s.file \in BOOLEAN /\ s.latch \in BOOLEAN
         /\ s.op \in {"none", "off", "offWrite", "on"} /\ s.offs \in Nat /\ s.off \in BOOLEAN
  BY DEF Switching

LEMMA GateNow ==
  ASSUME HostTyped
  PROVE  /\ Gate \in Gates /\ Gate.seen = gen /\ (Gate.latched <=> switch.latch)
         /\ (Gate.file <=> switch.file)
<1>1. switch.latch \in BOOLEAN /\ switch.file \in BOOLEAN /\ gen \in Nat
  BY SwitchFields DEF HostTyped
<1>2. QED
  BY <1>1 DEF Gate, Gates

LEMMA NoGateIs == NoGate \in Gates /\ NoGate.seen = 0
  BY DEF NoGate, Gates

-----------------------------------------------------------------------------
(***************************************************************************)
(* What a step makes of the contexts.                                      *)
(***************************************************************************)
\* A context gone on or given up once it has its server; nothing else changed in it.
Advanced(cx) ==
  /\ cx \in [Contexts -> Ctx]
  /\ \A c \in Contexts :
       /\ cx[c].server = context[c].server /\ cx[c].preds = context[c].preds
       /\ \/ cx[c].boot = context[c].boot /\ cx[c].target = context[c].target
          \/ /\ context[c].boot \in {"gate1", "starting", "gate2", "cleaning"}
             /\ cx[c].boot \in {"starting", "gate2", "up", "failed"}

LEMMA SameAdvances ==
  ASSUME HostTyped
  PROVE  Advanced(context)
  BY DEF HostTyped, Advanced

LEMMA ContextReplaced ==
  ASSUME NEW cx \in [Contexts -> Ctx], NEW c \in Contexts, NEW x \in Ctx
  PROVE  /\ [cx EXCEPT ![c] = x] \in [Contexts -> Ctx]
         /\ [cx EXCEPT ![c] = x][c] = x
         /\ \A d \in Contexts : d # c => [cx EXCEPT ![c] = x][d] = cx[d]
  OBVIOUS

LEMMA KnownAdvances ==
  ASSUME NEW cx, Advanced(cx), NEW c \in Contexts, NEW K \in SUBSET Sessions,
         NEW z, z = [cx EXCEPT ![c].known = K]
  PROVE  Advanced(z)
<1> DEFINE y == [cx[c] EXCEPT !.known = K]
<1>1. cx \in [Contexts -> Ctx] /\ cx[c] \in Ctx
  BY DEF Advanced
<1>2. /\ y \in Ctx /\ y.boot = cx[c].boot /\ y.preds = cx[c].preds
      /\ y.target = cx[c].target /\ y.server = cx[c].server
  BY <1>1 DEF Ctx
<1>3. z = [cx EXCEPT ![c] = y]
  BY <1>1
<1> HIDE DEF y
<1>4. /\ z \in [Contexts -> Ctx] /\ z[c] = y
      /\ \A d \in Contexts : d # c => z[d] = cx[d]
  BY <1>1, <1>2, <1>3, ContextReplaced
<1>5. QED
  BY <1>2, <1>4 DEF Advanced

LEMMA BootedIs ==
  ASSUME HostTyped, NEW c \in Contexts, NEW stage \in BootStages
  PROVE  /\ Booted(c, stage) \in [Contexts -> Ctx]
         /\ Booted(c, stage)[c].boot = stage
         /\ Booted(c, stage)[c].preds = context[c].preds
         /\ Booted(c, stage)[c].server = context[c].server
         /\ stage \notin {"up", "failed"} => Booted(c, stage)[c].target = context[c].target
         /\ \A d \in Contexts : d # c => Booted(c, stage)[d] = context[d]
<1> DEFINE t == IF stage \in {"up", "failed"} THEN 0 ELSE context[c].target
           y == [context[c] EXCEPT !.boot = stage, !.gate = NoGate, !.target = t]
<1>1. context \in [Contexts -> Ctx] /\ context[c] \in Ctx
  BY DEF HostTyped
<1>2. t \in Numbers
  BY <1>1, CtxFields, OpenCodeAssumption DEF Numbers
<1>3. Booted(c, stage) = [context EXCEPT ![c] = y]
  BY <1>1 DEF Booted
<1>4. stage \notin {"up", "failed"} => t = context[c].target
  OBVIOUS
<1> HIDE DEF t
<1>5. /\ y \in Ctx /\ y.boot = stage /\ y.preds = context[c].preds
      /\ y.server = context[c].server /\ y.target = t
  BY <1>1, <1>2, NoGateIs DEF Ctx
<1> HIDE DEF y
<1>6. QED
  BY <1>1, <1>3, <1>4, <1>5, ContextReplaced

LEMMA BootedAdvances ==
  ASSUME HostTyped, NEW c \in Contexts,
         context[c].boot \in {"gate1", "starting", "gate2", "cleaning"},
         NEW stage \in {"starting", "gate2", "up", "failed"}
  PROVE  Advanced(Booted(c, stage))
<1>1. stage \in BootStages
  BY DEF BootStages
<1> DEFINE z == Booted(c, stage)
<1>2. /\ z \in [Contexts -> Ctx] /\ z[c].boot = stage /\ z[c].preds = context[c].preds
      /\ z[c].server = context[c].server
      /\ \A d \in Contexts : d # c => z[d] = context[d]
  BY <1>1, BootedIs
<1> HIDE DEF z
<1>3. Advanced(z)
  BY <1>2 DEF Advanced
<1>4. QED
  BY <1>3 DEF z

-----------------------------------------------------------------------------
(***************************************************************************)
(* Retirements.                                                            *)
(***************************************************************************)
LEMMA CleansServer ==
  ASSUME HostTyped, OneUp, NEW s \in Numbers, NEW how \in {"terminating", "killed", "stray"},
         Cleans(s, how)
  PROVE  /\ server' \in [Contexts -> Servers] /\ entry' \in Numbers
         /\ entry' = IF s # 0 /\ entry = s THEN 0 ELSE entry
         /\ OneUp'
         /\ \A d \in Contexts : d # s => server'[d] = server[d]
<1>1. 0 \in Numbers
  BY OpenCodeAssumption DEF Numbers
<1>2. /\ server \in [Contexts -> Servers] /\ entry \in Numbers
      /\ entry' = IF s # 0 /\ entry = s THEN 0 ELSE entry
  BY DEF HostTyped, Cleans, Forgotten
<1>3. CASE s # 0 /\ server[s] = "up"
  <2>1. s \in Contexts
    BY <1>3 DEF Numbers, Contexts
  <2>2. server' = [server EXCEPT ![s] = how]
    BY <1>3 DEF Cleans
  <2>3. entry = s /\ entry' = 0
    BY <1>2, <1>3, <2>1 DEF OneUp
  <2>4. OneUp'
    BY <1>2, <2>1, <2>2, <2>3 DEF OneUp, Contexts
  <2>5. QED
    BY <1>1, <1>2, <2>1, <2>2, <2>3, <2>4 DEF Servers
<1>4. CASE ~(s # 0 /\ server[s] = "up")
  <2>1. server' = server
    BY <1>4 DEF Cleans
  <2>2. entry' = entry
    BY <1>2, <1>4 DEF OneUp, Numbers, Contexts
  <2>3. QED
    BY <1>2, <2>1, <2>2 DEF OneUp
<1>5. QED
  BY <1>3, <1>4

\* The context in service goes on, or is retired with its server.
OldOrNone ==
  /\ Advanced(context')
  /\ gen' \in Nat /\ gen' >= gen
  /\ \/ UNCHANGED <<active, server, entry>>
     \/ /\ active # 0 /\ active' = 0
        /\ Cleans(context[active].server, "terminating")

LEMMA RetiresTo ==
  ASSUME HostTyped, NEW c \in Contexts, active = c, NEW cx, Advanced(cx), Retires(c, cx)
  PROVE  /\ OldOrNone /\ gen' > gen /\ active' = 0
         /\ streams' \subseteq Contexts \X Sessions
<1>1. context' = [cx EXCEPT ![c].known = {}] /\ gen' = gen + 1 /\ active' = 0
      /\ Cleans(context[c].server, "terminating")
      /\ streams' \subseteq streams
  BY DEF Retires
<1>2. Advanced(context')
  BY <1>1, KnownAdvances
<1>3. gen' \in Nat /\ gen' > gen
  BY <1>1 DEF HostTyped
<1>4. c # 0
  BY DEF Contexts
<1>5. QED
  BY <1>1, <1>2, <1>3, <1>4 DEF OldOrNone, HostTyped

LEMMA RevokedTo ==
  ASSUME HostTyped, NEW cx, Advanced(cx), Revoked(cx)
  PROVE  /\ OldOrNone /\ gen' > gen /\ active' = 0
         /\ streams' \subseteq Contexts \X Sessions
<1>1. CASE active # 0
  <2>1. active \in Contexts /\ Retires(active, cx)
    BY <1>1 DEF HostTyped, Revoked, Numbers, Contexts
  <2>2. QED
    BY <2>1, RetiresTo
<1>2. CASE active = 0
  <2>1. gen' = gen + 1 /\ context' = cx /\ UNCHANGED <<active, streams, server, entry>>
    BY <1>2 DEF Revoked
  <2>2. QED
    BY <2>1, <1>2 DEF OldOrNone, HostTyped
<1>3. QED
  BY <1>1, <1>2

LEMMA StaysTo ==
  ASSUME HostTyped, Advanced(context'), UNCHANGED <<gen, active, server, entry>>
  PROVE  OldOrNone
  BY DEF OldOrNone, HostTyped

LEMMA RetiresIfCurrentTo ==
  ASSUME HostTyped, NEW c \in Numbers, NEW cx, Advanced(cx), RetiresIfCurrent(c, cx)
  PROVE  /\ OldOrNone
         /\ streams' \subseteq Contexts \X Sessions
         /\ active' # 0 => active' = active
<1>1. CASE Current(c)
  <2>1. c \in Contexts /\ active = c /\ Retires(c, cx)
    BY <1>1 DEF Current, RetiresIfCurrent, Numbers, Contexts
  <2>2. QED
    BY <2>1, RetiresTo
<1>2. CASE ~Current(c)
  <2>1. context' = cx /\ UNCHANGED <<gen, active, streams, server, entry>>
    BY <1>2 DEF RetiresIfCurrent, Unretired
  <2>2. QED
    BY <2>1, StaysTo DEF HostTyped
<1>3. QED
  BY <1>1, <1>2

-----------------------------------------------------------------------------
(***************************************************************************)
(* The structure of the starts survives a step that only advances or       *)
(* retires.                                                                *)
(***************************************************************************)
\* Disposal begins with a retirement and ends when no start is under way.
DisposalMoves ==
  /\ disposal' \in {"no", "closing", "done"}
  /\ disposal' # "no" => disposal # "no" \/ active' = 0
  /\ disposal' = "done" =>
       disposal # "no" /\ (disposal = "done" \/ \A c \in Contexts : ~IsPending(c))

LEMMA AdvancedFacts ==
  ASSUME NEW c \in Contexts, Advanced(context')
  PROVE  /\ Used(c)' <=> Used(c)
         /\ IsPending(c)' => IsPending(c)
         /\ context'[c].boot \in {"none", "waiting", "ensuring"} =>
              context'[c].boot = context[c].boot
         /\ context[c].boot = "waiting" => context'[c].boot = "waiting"
         /\ context[c].boot = "ensuring" =>
              context'[c].boot = "ensuring" /\ context'[c].target = context[c].target
         /\ context'[c].server = context[c].server
         /\ context'[c].preds = context[c].preds
         /\ context'[c].boot = "ensuring" => context'[c].target = context[c].target
  BY DEF Advanced, Used, IsPending

\* While a start has yet to get its server, the context in service has none.
LEMMA ServiceAlone ==
  ASSUME HostTyped, Hosting, NEW c \in Contexts, context[c].boot = "ensuring", active # 0
  PROVE  context[active].server = 0
<1>1. active \in Contexts
  BY DEF HostTyped, Numbers, Contexts
<1>2. PICK n \in Nat : (\A d \in Contexts : Used(d) <=> d <= n) /\ active \in {0, n}
  BY DEF Hosting, Counted
<1>3. c <= active
  BY <1>1, <1>2 DEF Used
<1>4. CASE c = active
  BY <1>4, <1>1 DEF Hosting, StartsFit
<1>5. CASE c < active
  <2>1. Used(active) /\ IsPending(c)
    BY <1>1, <1>2 DEF Used, IsPending, Contexts
  <2>2. context[active].boot = "waiting"
    BY <1>1, <1>5, <2>1 DEF Hosting, InTurn
  <2>3. QED
    BY <1>1, <2>2 DEF Hosting, StartsFit
<1>6. QED
  BY <1>1, <1>3, <1>4, <1>5 DEF Contexts

LEMMA OutcomeKeeps ==
  ASSUME HostTyped, Hosting, OldOrNone, DisposalMoves, left'.starts = left.starts
  PROVE  /\ Hosting'
         /\ context' \in [Contexts -> Ctx] /\ server' \in [Contexts -> Servers]
         /\ entry' \in Numbers /\ active' \in Numbers
         /\ \A c \in Contexts : Used(c)' <=> Used(c)
<1>1. /\ context \in [Contexts -> Ctx] /\ server \in [Contexts -> Servers]
      /\ entry \in Numbers /\ active \in Numbers /\ 0 \in Numbers
      /\ Counted /\ InTurn /\ OneUp /\ EntryOwned /\ ServiceIsUp /\ StartsFit /\ DisposalFits
  BY OpenCodeAssumption DEF HostTyped, Hosting, Numbers
<1>2. context' \in [Contexts -> Ctx] /\ Advanced(context')
  BY DEF OldOrNone, Advanced
<1>3. \A c \in Contexts :
         /\ Used(c)' <=> Used(c)
         /\ IsPending(c)' => IsPending(c)
         /\ context'[c].boot \in {"none", "waiting", "ensuring"} =>
              context'[c].boot = context[c].boot
         /\ context[c].boot = "waiting" => context'[c].boot = "waiting"
         /\ context[c].boot = "ensuring" =>
              context'[c].boot = "ensuring" /\ context'[c].target = context[c].target
         /\ context'[c].server = context[c].server
         /\ context'[c].preds = context[c].preds
         /\ context'[c].boot = "ensuring" => context'[c].target = context[c].target
  BY <1>2, AdvancedFacts
<1>4. active' = active \/ active' = 0
  BY DEF OldOrNone
<1>5. Counted'
  BY <1>1, <1>3, <1>4 DEF Counted
<1>6. InTurn'
  BY <1>1, <1>3 DEF InTurn
<1>7. DisposalFits'
  BY <1>1, <1>3, <1>4 DEF DisposalFits, DisposalMoves
<1>8. CASE UNCHANGED <<active, server, entry>>
  <2>1. OneUp'
    BY <1>1, <1>8 DEF OneUp
  <2>2. ServiceIsUp' /\ StartsFit'
    <3>1. active # 0 => active \in Contexts
      BY <1>1 DEF Numbers, Contexts
    <3>2. ServiceIsUp'
      BY <1>1, <1>3, <1>8, <3>1 DEF ServiceIsUp
    <3>3. StartsFit'
      BY <1>1, <1>3, <1>8 DEF StartsFit
    <3>4. QED
      BY <3>2, <3>3
  <2>3. EntryOwned'
    <3>1. active # 0 => active \in Contexts
      BY <1>1 DEF Numbers, Contexts
    <3>2. QED
      BY <1>1, <1>3, <1>8, <3>1 DEF EntryOwned, InService
  <2>4. QED
    BY <1>1, <1>2, <1>3, <1>5, <1>6, <1>7, <1>8, <2>1, <2>2, <2>3 DEF Hosting
<1>9. CASE active # 0 /\ active' = 0 /\ Cleans(context[active].server, "terminating")
  <2> DEFINE s == context[active].server
  <2>1. active \in Contexts /\ s \in Numbers
    BY <1>1, <1>9, CtxFields DEF Numbers, Contexts
  <2>2. /\ server' \in [Contexts -> Servers] /\ entry' \in Numbers
        /\ entry' = IF s # 0 /\ entry = s THEN 0 ELSE entry
        /\ OneUp'
        /\ \A d \in Contexts : d # s => server'[d] = server[d]
    BY <1>1, <1>9, <2>1, CleansServer
  <2>3. ServiceIsUp'
    BY <1>9 DEF ServiceIsUp
  <2>4. StartsFit'
    <3> SUFFICES ASSUME NEW c \in Contexts
                 PROVE  /\ context'[c].boot \in {"none", "waiting", "ensuring"} =>
                             context'[c].server = 0
                        /\ context'[c].boot = "ensuring" =>
                             /\ context'[c].target \in Contexts
                             /\ server'[context'[c].target] \in {"up", "dead"}
      BY DEF StartsFit
    <3>1. context'[c].boot \in {"none", "waiting", "ensuring"} => context'[c].server = 0
      BY <1>1, <1>3 DEF StartsFit
    <3>2. ASSUME context'[c].boot = "ensuring"
          PROVE  context'[c].target \in Contexts /\ server'[context'[c].target] \in {"up",
                                                                                     "dead"}
      <4>1. context[c].boot = "ensuring" /\ context'[c].target = context[c].target
        BY <1>3, <3>2
      <4>2. context[c].target \in Contexts /\ server[context[c].target] \in {"up", "dead"}
        BY <1>1, <4>1 DEF StartsFit
      <4>3. s = 0
        BY <1>9, <4>1, ServiceAlone
      <4>4. context[c].target # s
        BY <4>2, <4>3 DEF Contexts
      <4>5. QED
        BY <2>2, <4>1, <4>2, <4>4
    <3>3. QED
      BY <3>1, <3>2
  <2>5. EntryOwned'
    <3> SUFFICES ASSUME entry' # 0
                 PROVE  \E c \in Contexts : /\ context'[c].boot = "ensuring"
                                            /\ context'[c].target = entry'
      BY DEF EntryOwned
    <3>1. entry' = entry /\ entry # s
      BY <2>2
    <3>2. ~InService(entry)
      BY <3>1 DEF InService
    <3>3. PICK c \in Contexts : context[c].boot = "ensuring" /\ context[c].target = entry
      BY <1>1, <3>1, <3>2 DEF EntryOwned
    <3>4. QED
      BY <1>3, <3>1, <3>3
  <2>6. QED
    BY <1>1, <1>2, <1>3, <1>5, <1>6, <1>7, <1>9, <2>2, <2>3, <2>4, <2>5 DEF Hosting
<1>10. QED
  BY <1>8, <1>9 DEF OldOrNone

-----------------------------------------------------------------------------
(***************************************************************************)
(* The calls that do not act in a step keep what they hold.                *)
(***************************************************************************)
\* The generation does not go back, a context in service is the old one or a new one, and
\* execution is switched off only together with a new generation.
MovesOn ==
  /\ gen' \in Nat /\ gen' >= gen
  /\ active' # 0 /\ active' # active => ~(active' \in Contexts /\ Used(active'))
  /\ \A c \in Contexts : Used(c) => Used(c)'
  /\ switch'.off /\ gen' = gen => switch.off
  /\ switch'.offs # switch.offs => gen' > gen /\ active' = 0

LEMMA CallKept ==
  ASSUME HostTyped, MovesOn, NEW r \in Requests, CallFits(r), request'[r] = request[r]
  PROVE  CallFits(r)'
<1> DEFINE q == request[r]
<1>1. q \in Req /\ gen \in Nat /\ gen' \in Nat /\ gen' >= gen /\ request'[r] = q
  BY DEF CallFits, HostTyped, MovesOn
<1>2. /\ q.ctx \in Numbers /\ q.gate.seen \in Nat
  BY <1>1, ReqFields, GateFields
<1>3. q.gate.seen <= gen
  BY DEF CallFits
<1>4. q.gate.seen <= gen' /\ (q.gate.seen # gen => q.gate.seen # gen')
      /\ (gen' > gen => q.gate.seen # gen')
      /\ (q.gate.seen = gen' => gen' = gen)
  BY <1>1, <1>2, <1>3
<1>5. q.ctx # 0 => q.ctx \in Contexts /\ Used(q.ctx) /\ Used(q.ctx)'
  BY <1>2 DEF Numbers, Contexts, CallFits, MovesOn
<1>6. q.pc = "gate" /\ q.gate.seen = gen' /\ switch'.off => q.gate.latched
  BY <1>4 DEF CallFits, MovesOn
<1>7. q.ctx # 0 /\ q.ctx # active => q.ctx # active'
  BY <1>5 DEF MovesOn
<1>8. ASSUME q.pc \in {"gate", "booting", "acting", "answered"}
      PROVE  \/ q.offs = switch'.offs
             \/ q.pc = "gate" /\ q.gate.seen # gen'
             \/ q.ctx # 0 /\ q.ctx # active'
  <2>1. \/ q.offs = switch.offs
        \/ q.pc = "gate" /\ q.gate.seen # gen
        \/ q.ctx # 0 /\ q.ctx # active
    BY <1>8 DEF CallFits
  <2>2. CASE q.offs = switch.offs /\ switch'.offs # switch.offs
    <3>1. gen' > gen /\ active' = 0
      BY <2>2 DEF MovesOn
    <3>2. q.pc # "gate" => q.ctx # 0
      BY <1>8 DEF CallFits
    <3>3. QED
      BY <1>4, <1>8, <3>1, <3>2
  <2>3. QED
    BY <2>1, <2>2, <1>4, <1>7
<1> HIDE DEF q
<1>9. QED
  BY <1>1, <1>4, <1>5, <1>6, <1>8 DEF CallFits, q

LEMMA OutcomeOnward ==
  ASSUME HostTyped, Hosting, OldOrNone,
         switch'.off /\ gen' = gen => switch.off,
         switch'.offs # switch.offs => gen' > gen /\ active' = 0
  PROVE  MovesOn
<1>1. \A c \in Contexts : Used(c) => Used(c)'
  BY AdvancedFacts DEF OldOrNone
<1>2. QED
  BY <1>1 DEF MovesOn, OldOrNone

\* What a step leaves typed beside the contexts and the servers.
SideTyped ==
  /\ disabled' \in BOOLEAN
  /\ switch' \in Switching
  /\ upstream' \in Ups
  /\ left' \in [calls : Nat, starts : Nat, updates : Nat]
  /\ streams' \subseteq Contexts \X Sessions
  /\ request' \in [Requests -> Req]

LEMMA OutcomeStep ==
  ASSUME OpenCodeInv, OldOrNone, DisposalMoves, SideTyped, left'.starts = left.starts,
         switch'.off /\ gen' = gen => switch.off,
         switch'.offs # switch.offs => gen' > gen /\ active' = 0,
         OffIsLatched',
         \A r \in Requests : request'[r] = request[r] \/ CallFits(r)'
  PROVE  OpenCodeInv'
<1>1. HostTyped /\ Hosting /\ CallsFit
  BY DEF OpenCodeInv
<1>2. MovesOn
  BY <1>1, OutcomeOnward
<1>3. /\ Hosting'
      /\ context' \in [Contexts -> Ctx] /\ server' \in [Contexts -> Servers]
      /\ entry' \in Numbers /\ active' \in Numbers
  BY <1>1, OutcomeKeeps
<1>4. HostTyped'
  BY <1>3 DEF HostTyped, SideTyped, DisposalMoves, OldOrNone
<1>5. CallsFit'
  BY <1>1, <1>2, CallKept DEF CallsFit
<1>6. QED
  BY <1>3, <1>4, <1>5 DEF OpenCodeInv
-----------------------------------------------------------------------------
(***************************************************************************)
(* The host's steps that advance or retire.                                *)
(***************************************************************************)
\* The switch is left alone.
SwitchStays == switch' = switch

\* A step of the host leaves the switch and the calls alone.
LEMMA HostOutcome ==
  ASSUME OpenCodeInv, OldOrNone, DisposalMoves, SwitchStays,
         disabled' \in BOOLEAN, streams' \subseteq Contexts \X Sessions,
         UNCHANGED <<upstream, request, left>>
  PROVE  OpenCodeInv'
<1>1. HostTyped /\ OffIsLatched
  BY DEF OpenCodeInv
<1>2. SideTyped /\ left'.starts = left.starts
  BY <1>1 DEF SideTyped, HostTyped, SwitchStays
<1>3. OffIsLatched' /\ (switch'.off => switch.off) /\ switch'.offs = switch.offs
  BY <1>1 DEF OffIsLatched, SwitchStays
<1>4. QED
  BY <1>2, <1>3, OutcomeStep

LEMMA DisposalStays ==
  ASSUME HostTyped, Hosting, disposal' = disposal
  PROVE  DisposalMoves
  BY DEF DisposalMoves, HostTyped, Hosting, DisposalFits

LEMMA BootGateKeeps ==
  ASSUME OpenCodeInv, NEW c \in Contexts, BootGate(c), UNCHANGED left
  PROVE  OpenCodeInv'
<1>1. /\ HostTyped /\ Hosting /\ c \in Numbers /\ DisposalMoves /\ SwitchStays
      /\ UNCHANGED <<upstream, request, left>>
  BY DisposalStays DEF OpenCodeInv, BootGate, Contexts, Numbers, SwitchStays
<1>2. context[c].boot \in {"gate1", "gate2"}
  BY DEF BootGate
<1>3. Advanced(Booted(c, "failed")) /\ Advanced(Booted(c, "starting"))
      /\ Advanced(Booted(c, "up"))
  BY <1>1, <1>2, BootedAdvances
<1>4. \/ /\ \E stage \in {"starting", "up"} : context' = Booted(c, stage)
         /\ Unretired /\ UNCHANGED disabled
      \/ Revoked(Booted(c, "failed")) /\ disabled' = TRUE
      \/ RetiresIfCurrent(c, Booted(c, "failed")) /\ UNCHANGED disabled
  BY DEF BootGate
<1>5. CASE /\ \E stage \in {"starting", "up"} : context' = Booted(c, stage)
           /\ Unretired /\ UNCHANGED disabled
  <2>1. OldOrNone
    BY <1>1, <1>3, <1>5, StaysTo DEF Unretired
  <2>2. disabled' \in BOOLEAN /\ streams' \subseteq Contexts \X Sessions
    BY <1>1, <1>5 DEF Unretired, HostTyped
  <2>3. QED
    BY <1>1, <2>1, <2>2, HostOutcome
<1>6. CASE Revoked(Booted(c, "failed")) /\ disabled' = TRUE
  <2>1. OldOrNone /\ streams' \subseteq Contexts \X Sessions
    BY <1>1, <1>3, <1>6, RevokedTo
  <2>2. QED
    BY <1>1, <1>6, <2>1, HostOutcome
<1>7. CASE RetiresIfCurrent(c, Booted(c, "failed")) /\ UNCHANGED disabled
  <2>1. OldOrNone /\ streams' \subseteq Contexts \X Sessions
    BY <1>1, <1>3, <1>7, RetiresIfCurrentTo
  <2>2. disabled' \in BOOLEAN
    BY <1>1, <1>7 DEF HostTyped
  <2>3. QED
    BY <1>1, <2>1, <2>2, HostOutcome
<1>8. QED
  BY <1>4, <1>5, <1>6, <1>7

LEMMA BusStartsKeeps ==
  ASSUME OpenCodeInv, NEW c \in Contexts, BusStarts(c), UNCHANGED left
  PROVE  OpenCodeInv'
<1>1. /\ HostTyped /\ Hosting /\ c \in Numbers /\ DisposalMoves /\ SwitchStays
      /\ UNCHANGED <<upstream, request, left>> /\ disabled' \in BOOLEAN
      /\ context[c].boot = "starting"
  BY DisposalStays DEF OpenCodeInv, BusStarts, Contexts, Numbers, SwitchStays, HostTyped
<1>2. CASE RetiresIfCurrent(c, Booted(c, "failed"))
  <2>1. Advanced(Booted(c, "failed"))
    BY <1>1, BootedAdvances
  <2>2. OldOrNone /\ streams' \subseteq Contexts \X Sessions
    BY <1>1, <1>2, <2>1, RetiresIfCurrentTo
  <2>3. QED
    BY <1>1, <2>2, HostOutcome
<1>3. CASE /\ context' = [context EXCEPT ![c].boot = "gate2", ![c].gate = Gate]
           /\ Unretired
  <2> DEFINE y == [context[c] EXCEPT !.boot = "gate2", !.gate = Gate]
  <2>1. context \in [Contexts -> Ctx] /\ context[c] \in Ctx
    BY <1>1 DEF HostTyped
  <2>2. /\ y \in Ctx /\ y.boot = "gate2" /\ y.preds = context[c].preds
        /\ y.server = context[c].server
    BY <1>1, <2>1, GateNow DEF Ctx, BootStages
  <2>3. context' = [context EXCEPT ![c] = y]
    BY <1>3, <2>1
  <2> HIDE DEF y
  <2>4. /\ context' \in [Contexts -> Ctx] /\ context'[c] = y
        /\ \A d \in Contexts : d # c => context'[d] = context[d]
    BY <2>1, <2>2, <2>3, ContextReplaced
  <2>5. Advanced(context')
    BY <1>1, <2>2, <2>4 DEF Advanced
  <2>6. OldOrNone /\ streams' \subseteq Contexts \X Sessions
    BY <1>1, <1>3, <2>5, StaysTo DEF Unretired, HostTyped
  <2>7. QED
    BY <1>1, <2>6, HostOutcome
<1>4. QED
  BY <1>2, <1>3 DEF BusStarts

LEMMA BusFailsKeeps ==
  ASSUME OpenCodeInv, NEW c \in Contexts, BusFails(c), UNCHANGED left
  PROVE  OpenCodeInv'
<1>1. /\ HostTyped /\ Hosting /\ DisposalMoves /\ SwitchStays
      /\ UNCHANGED <<upstream, request, left>> /\ disabled' \in BOOLEAN
  BY DisposalStays DEF OpenCodeInv, BusFails, SwitchStays, HostTyped
<1>2. active = c /\ Retires(c, context)
  BY DEF BusFails, Current
<1>3. OldOrNone /\ streams' \subseteq Contexts \X Sessions
  BY <1>1, <1>2, SameAdvances, RetiresTo
<1>4. QED
  BY <1>1, <1>3, HostOutcome

LEMMA CleanedKeeps ==
  ASSUME OpenCodeInv, NEW c \in Contexts, Cleaned(c), UNCHANGED left
  PROVE  OpenCodeInv'
<1>1. /\ HostTyped /\ Hosting /\ DisposalMoves /\ SwitchStays
      /\ UNCHANGED <<upstream, request, left>> /\ disabled' \in BOOLEAN
      /\ context[c].boot = "cleaning" /\ context' = Booted(c, "failed")
  BY DisposalStays DEF OpenCodeInv, Cleaned, SwitchStays, HostTyped
<1>2. Advanced(context')
  BY <1>1, BootedAdvances
<1>3. OldOrNone /\ streams' \subseteq Contexts \X Sessions
  BY <1>1, <1>2, StaysTo DEF Cleaned, Unretired, HostTyped
<1>4. QED
  BY <1>1, <1>3, HostOutcome

LEMMA MonitorKeeps ==
  ASSUME OpenCodeInv, Monitor, UNCHANGED left
  PROVE  OpenCodeInv'
<1>1. /\ HostTyped /\ Hosting /\ DisposalMoves /\ SwitchStays
      /\ UNCHANGED <<upstream, request, left>> /\ disabled' \in BOOLEAN
      /\ active \in Contexts
  BY DisposalStays DEF OpenCodeInv, Monitor, SwitchStays, HostTyped, Numbers, Contexts
<1>2. Retires(active, context)
  BY DEF Monitor
<1>3. OldOrNone /\ streams' \subseteq Contexts \X Sessions
  BY <1>1, <1>2, SameAdvances, RetiresTo
<1>4. QED
  BY <1>1, <1>3, HostOutcome

LEMMA DisposeKeeps ==
  ASSUME OpenCodeInv, Dispose, UNCHANGED left
  PROVE  OpenCodeInv'
<1>1. /\ HostTyped /\ Hosting /\ SwitchStays
      /\ UNCHANGED <<upstream, request, left>> /\ disabled' \in BOOLEAN
      /\ disposal' = "closing" /\ Revoked(context)
  BY DEF OpenCodeInv, Dispose, SwitchStays
<1>2. OldOrNone /\ streams' \subseteq Contexts \X Sessions /\ active' = 0
  BY <1>1, SameAdvances, RevokedTo
<1>3. DisposalMoves
  BY <1>1, <1>2 DEF DisposalMoves
<1>4. QED
  BY <1>1, <1>2, <1>3, HostOutcome

LEMMA DisposedKeeps ==
  ASSUME OpenCodeInv, Disposed, UNCHANGED left
  PROVE  OpenCodeInv'
<1>1. /\ HostTyped /\ Hosting /\ SwitchStays
      /\ UNCHANGED <<upstream, request, left>> /\ disabled' \in BOOLEAN
  BY DEF OpenCodeInv, Disposed, SwitchStays, HostTyped
<1>2. OldOrNone /\ streams' \subseteq Contexts \X Sessions
  BY <1>1, SameAdvances, StaysTo DEF Disposed, Unretired, HostTyped
<1>3. disposal = "closing" /\ disposal' = "done" /\ Pending = {}
  BY DEF Disposed, StartsOver
<1>4. \A c \in Contexts : ~IsPending(c)
  BY <1>3 DEF Pending, IsPending, Settled
<1>5. DisposalMoves
  BY <1>3, <1>4 DEF DisposalMoves
<1>6. QED
  BY <1>1, <1>2, <1>5, HostOutcome

-----------------------------------------------------------------------------
(***************************************************************************)
(* The switch.                                                             *)
(***************************************************************************)
LEMMA SpendsFrom ==
  ASSUME HostTyped, NEW what \in {"calls", "updates"}, Spends(what)
  PROVE  left' \in [calls : Nat, starts : Nat, updates : Nat] /\ left'.starts = left.starts
<1> DEFINE n == left[what] - 1
<1>1. left \in [calls : Nat, starts : Nat, updates : Nat] /\ n \in Nat
  BY DEF HostTyped, Spends
<1>2. left' = [left EXCEPT ![what] = n]
  BY <1>1 DEF Spends
<1> HIDE DEF n
<1>3. QED
  BY <1>1, <1>2

\* The switch changes, everything else stays.
LEMMA SwitchOnly ==
  ASSUME OpenCodeInv, NEW s \in Switching, Switches(s),
         left' \in [calls : Nat, starts : Nat, updates : Nat], left'.starts = left.starts,
         s.off => switch.off, s.off \/ s.op = "off" => s.latch, s.offs = switch.offs
  PROVE  OpenCodeInv'
<1>1. /\ HostTyped /\ Hosting /\ DisposalMoves
      /\ switch' = s /\ context' = context /\ UNCHANGED <<gen, active, server, entry>>
      /\ UNCHANGED <<disabled, upstream, request, streams>>
  BY DisposalStays DEF OpenCodeInv, Switches, Unretired, Elsewhere
<1>2. OldOrNone
  BY <1>1, SameAdvances, StaysTo
<1>3. SideTyped
  BY <1>1 DEF SideTyped, HostTyped
<1>4. OffIsLatched'
  BY <1>1 DEF OffIsLatched
<1>5. QED
  BY <1>1, <1>2, <1>3, <1>4, OutcomeStep

LEMMA UpdatesKeeps ==
  ASSUME OpenCodeInv, NEW to \in {"on", "off"}, Updates(to)
  PROVE  OpenCodeInv'
<1> DEFINE s == [switch EXCEPT !.op = to, !.latch = switch.latch \/ to = "off"]
<1>1. HostTyped /\ OffIsLatched /\ switch \in Switching
  BY DEF OpenCodeInv, HostTyped
<1>2. switch.latch \in BOOLEAN
  BY <1>1, SwitchFields
<1>3. /\ s \in Switching /\ (s.latch <=> switch.latch \/ to = "off")
      /\ (s.off <=> switch.off) /\ s.offs = switch.offs /\ s.op = to
  BY <1>1, <1>2 DEF Switching
<1>4. Switches(s)
  BY DEF Updates
<1>5. left' \in [calls : Nat, starts : Nat, updates : Nat] /\ left'.starts = left.starts
  BY <1>1, SpendsFrom DEF Updates
<1> HIDE DEF s
<1>6. (s.off => switch.off) /\ (s.off \/ s.op = "off" => s.latch)
  BY <1>1, <1>3 DEF OffIsLatched
<1>7. QED
  BY <1>3, <1>4, <1>5, <1>6, SwitchOnly

LEMMA FileChangesKeeps ==
  ASSUME OpenCodeInv, FileChanges
  PROVE  OpenCodeInv'
<1> DEFINE s == [switch EXCEPT !.file = FALSE]
<1>1. HostTyped /\ OffIsLatched /\ switch \in Switching
  BY DEF OpenCodeInv, HostTyped
<1>2. /\ s \in Switching /\ (s.latch <=> switch.latch)
      /\ (s.off <=> switch.off) /\ s.offs = switch.offs /\ s.op = switch.op
  BY <1>1 DEF Switching
<1>3. Switches(s)
  BY DEF FileChanges
<1>4. left' \in [calls : Nat, starts : Nat, updates : Nat] /\ left'.starts = left.starts
  BY <1>1, SpendsFrom DEF FileChanges
<1> HIDE DEF s
<1>5. (s.off => switch.off) /\ (s.off \/ s.op = "off" => s.latch)
  BY <1>1, <1>2 DEF OffIsLatched
<1>6. QED
  BY <1>2, <1>3, <1>4, <1>5, SwitchOnly

LEMMA WritesOffKeeps ==
  ASSUME OpenCodeInv, WritesOff, UNCHANGED left
  PROVE  OpenCodeInv'
<1>1. HostTyped /\ OffIsLatched /\ switch \in Switching /\ switch.file \in BOOLEAN
      /\ left' \in [calls : Nat, starts : Nat, updates : Nat] /\ left'.starts = left.starts
  BY SwitchFields DEF OpenCodeInv, HostTyped
<1>2. PICK file \in {FALSE, switch.file} : Switches([switch EXCEPT !.op = "none",
                                                     !.file = file])
  BY DEF WritesOff
<1>3. file \in BOOLEAN
  BY <1>1
<1> DEFINE s == [switch EXCEPT !.op = "none", !.file = file]
<1>4. /\ s \in Switching /\ (s.latch <=> switch.latch)
      /\ (s.off <=> switch.off) /\ s.offs = switch.offs /\ s.op = "none"
  BY <1>1, <1>3 DEF Switching
<1>5. Switches(s)
  BY <1>2
<1> HIDE DEF s
<1>6. (s.off => switch.off) /\ (s.off \/ s.op = "off" => s.latch)
  BY <1>1, <1>4 DEF OffIsLatched
<1>7. QED
  BY <1>1, <1>4, <1>5, <1>6, SwitchOnly

LEMMA WritesOnKeeps ==
  ASSUME OpenCodeInv, WritesOn, UNCHANGED left
  PROVE  OpenCodeInv'
<1>1. HostTyped /\ OffIsLatched /\ switch \in Switching /\ switch.file \in BOOLEAN
      /\ left' \in [calls : Nat, starts : Nat, updates : Nat] /\ left'.starts = left.starts
  BY SwitchFields DEF OpenCodeInv, HostTyped
<1>2. CASE Switches([switch EXCEPT !.op = "none", !.file = TRUE, !.latch = FALSE,
                     !.off = FALSE])
  <2> DEFINE s == [switch EXCEPT !.op = "none", !.file = TRUE, !.latch = FALSE, !.off = FALSE]
  <2>1. s \in Switching /\ ~s.off /\ s.offs = switch.offs /\ s.op = "none"
    BY <1>1 DEF Switching
  <2>2. Switches(s)
    BY <1>2
  <2> HIDE DEF s
  <2>3. QED
    BY <1>1, <2>1, <2>2, SwitchOnly
<1>3. CASE \E file \in {TRUE, switch.file} :
             Switches([switch EXCEPT !.op = "none", !.file = file, !.latch = TRUE])
  <2>1. PICK file \in {TRUE, switch.file} :
             Switches([switch EXCEPT !.op = "none", !.file = file, !.latch = TRUE])
    BY <1>3
  <2>2. file \in BOOLEAN
    BY <1>1
  <2> DEFINE s == [switch EXCEPT !.op = "none", !.file = file, !.latch = TRUE]
  <2>3. s \in Switching /\ s.latch /\ s.op = "none" /\ (s.off <=> switch.off) /\ s.offs = switch.offs
    BY <1>1, <2>2 DEF Switching
  <2>4. Switches(s)
    BY <2>1
  <2> HIDE DEF s
  <2>5. QED
    BY <1>1, <2>3, <2>4, SwitchOnly
<1>4. QED
  BY <1>2, <1>3 DEF WritesOn

LEMMA NotifiesKeeps ==
  ASSUME OpenCodeInv, Notifies, UNCHANGED left
  PROVE  OpenCodeInv'
<1>1. /\ HostTyped /\ Hosting /\ DisposalMoves /\ switch \in Switching
      /\ UNCHANGED <<upstream, request, left>> /\ disabled' = TRUE /\ Revoked(context)
  BY DisposalStays DEF OpenCodeInv, HostTyped, Notifies, Revokes, Elsewhere
<1> DEFINE n == switch.offs + 1
           s == [switch EXCEPT !.op = "offWrite", !.offs = n, !.off = TRUE]
<1>2. n \in Nat
  BY <1>1, SwitchFields
<1>3. switch' = s
  BY DEF Notifies
<1> HIDE DEF n
<1>4. s \in Switching /\ (s.latch <=> switch.latch)
  BY <1>1, <1>2 DEF Switching
<1>a. switch.latch
  BY DEF OpenCodeInv, OffIsLatched, Notifies
<1> HIDE DEF s
<1>5. /\ OldOrNone /\ streams' \subseteq Contexts \X Sessions /\ active' = 0
      /\ gen' > gen
  BY <1>1, SameAdvances, RevokedTo
<1>6. SideTyped /\ left'.starts = left.starts
  BY <1>1, <1>3, <1>4, <1>5 DEF SideTyped, HostTyped
<1>7. OffIsLatched'
  BY <1>3, <1>4, <1>a DEF OffIsLatched
<1>8. gen' # gen
  BY <1>1, <1>5 DEF HostTyped, OldOrNone
<1>9. QED
  BY <1>1, <1>5, <1>6, <1>7, <1>8, OutcomeStep
-----------------------------------------------------------------------------
(***************************************************************************)
(* The steps in which a server is started, taken over or dies.             *)
(***************************************************************************)
LEMMA ServerStepKeeps ==
  ASSUME OpenCodeInv, Hosting',
         context' \in [Contexts -> Ctx], server' \in [Contexts -> Servers], entry' \in Numbers,
         active' \in {active, 0}, gen' \in Nat, gen' >= gen,
         \A c \in Contexts : Used(c) => Used(c)',
         streams' \subseteq Contexts \X Sessions,
         UNCHANGED <<disabled, disposal, switch, upstream, request, left>>
  PROVE  OpenCodeInv'
<1>1. HostTyped /\ OffIsLatched /\ CallsFit /\ 0 \in Numbers
  BY OpenCodeAssumption DEF OpenCodeInv, Numbers
<1>2. MovesOn
  BY DEF MovesOn
<1>3. HostTyped'
  BY <1>1 DEF HostTyped
<1>4. OffIsLatched'
  BY <1>1 DEF OffIsLatched
<1>5. CallsFit'
  BY <1>1, <1>2, CallKept DEF CallsFit
<1>6. QED
  BY <1>3, <1>4, <1>5 DEF OpenCodeInv

LEMMA HostingParts ==
  ASSUME OpenCodeInv
  PROVE  /\ HostTyped /\ Hosting
         /\ Counted /\ InTurn /\ OneUp /\ EntryOwned /\ ServiceIsUp /\ StartsFit /\ DisposalFits
         /\ context \in [Contexts -> Ctx] /\ server \in [Contexts -> Servers]
         /\ gen \in Nat /\ active \in Numbers /\ entry \in Numbers
         /\ active # 0 => active \in Contexts
         /\ entry # 0 => entry \in Contexts
         /\ 0 \in Numbers /\ Contexts \subseteq Numbers /\ 0 \notin Contexts
  BY OpenCodeAssumption DEF OpenCodeInv, Hosting, HostTyped, Numbers, Contexts

\* At most one start has asked for its server and waits for it.
LEMMA OneEnsures ==
  ASSUME InTurn, NEW c \in Contexts, NEW d \in Contexts,
         context[c].boot = "ensuring", context[d].boot = "ensuring"
  PROVE  c = d
<1>1. Used(c) /\ Used(d) /\ IsPending(c) /\ IsPending(d)
  BY DEF Used, IsPending
<1>2. ~(c < d) /\ ~(d < c)
  BY <1>1 DEF InTurn
<1>3. QED
  BY <1>2 DEF Contexts

\* A context whose predecessors have settled is the only one under way so far.
LEMMA FirstInTurn ==
  ASSUME InTurn, NEW c \in Contexts, context[c].boot = "waiting",
         \A p \in context[c].preds : Settled(p)
  PROVE  \A d \in Contexts : d < c => ~IsPending(d)
<1> SUFFICES ASSUME NEW d \in Contexts, d < c, IsPending(d) PROVE FALSE
  OBVIOUS
<1>1. Used(c)
  BY DEF Used
<1>2. d \in context[c].preds
  BY <1>1 DEF InTurn
<1>3. QED
  BY <1>2 DEF Settled, IsPending

LEMMA EnsuresKeeps ==
  ASSUME OpenCodeInv, NEW c \in Contexts, Ensures(c), UNCHANGED left
  PROVE  OpenCodeInv'
<1>1. /\ HostTyped /\ Hosting
      /\ Counted /\ InTurn /\ OneUp /\ EntryOwned /\ ServiceIsUp /\ StartsFit /\ DisposalFits
      /\ context \in [Contexts -> Ctx] /\ server \in [Contexts -> Servers]
      /\ gen \in Nat /\ active \in Numbers /\ entry \in Numbers
      /\ active # 0 => active \in Contexts
      /\ entry # 0 => entry \in Contexts
      /\ 0 \in Numbers /\ Contexts \subseteq Numbers /\ 0 \notin Contexts
  BY HostingParts
<1>2. /\ context[c].boot = "waiting" /\ \A p \in context[c].preds : Settled(p)
      /\ UNCHANGED <<gen, active, disabled, disposal, switch, upstream, request, streams,
                     left>>
  BY DEF Ensures
<1>3. \A d \in Contexts : d < c => ~IsPending(d)
  BY <1>1, <1>2, FirstInTurn
<1>4. Used(c) /\ IsPending(c) /\ streams' \subseteq Contexts \X Sessions
  BY <1>1, <1>2 DEF Used, IsPending, HostTyped
<1>5. CASE ~Current(c)
  <2>1. context' = Booted(c, "failed") /\ UNCHANGED <<server, entry>>
    BY <1>5 DEF Ensures
  <2>2. /\ context' \in [Contexts -> Ctx] /\ context'[c].boot = "failed"
        /\ context'[c].server = context[c].server
        /\ \A d \in Contexts : d # c => context'[d] = context[d]
    BY <1>1, <2>1, BootedIs DEF BootStages
  <2>3. \A d \in Contexts : Used(d)' <=> Used(d)
    BY <1>4, <2>2 DEF Used
  <2>4. \A d \in Contexts : (IsPending(d)' => IsPending(d)) /\ ~IsPending(c)'
    BY <1>4, <2>2 DEF IsPending
  <2>5. Counted'
    BY <1>1, <1>2, <2>3 DEF Counted
  <2>6. InTurn'
    <3> SUFFICES ASSUME NEW b \in Contexts, NEW d \in Contexts, IsPending(b)', Used(d)', b < d
                 PROVE  context'[d].boot = "waiting" /\ b \in context'[d].preds
      BY DEF InTurn
    <3>1. b # c /\ IsPending(b) /\ Used(d)
      BY <2>3, <2>4
    <3>2. d # c
      BY <1>3, <3>1
    <3>3. QED
      BY <1>1, <2>2, <3>1, <3>2 DEF InTurn
  <2>7. OneUp' /\ DisposalFits'
    BY <1>1, <1>2, <2>1, <2>4 DEF OneUp, DisposalFits
  <2>8. EntryOwned'
    BY <1>1, <1>2, <2>1, <2>2 DEF EntryOwned, InService
  <2>9. ServiceIsUp'
    BY <1>1, <1>2, <2>1, <2>2 DEF ServiceIsUp
  <2>10. StartsFit'
    BY <1>1, <2>1, <2>2 DEF StartsFit
  <2>11. QED
    BY <1>1, <1>2, <1>4, <2>1, <2>2, <2>3, <2>5, <2>6, <2>7, <2>8, <2>9, <2>10,
       ServerStepKeeps DEF Hosting
<1>6. CASE Current(c)
  <2>1. active = c /\ disposal = "no"
    BY <1>6 DEF Current
  <2>2. \A d \in Contexts : context[d].boot # "ensuring"
    <3> SUFFICES ASSUME NEW d \in Contexts, context[d].boot = "ensuring" PROVE FALSE
      OBVIOUS
    <3>1. IsPending(d) /\ Used(d) /\ d # c
      BY <1>2 DEF IsPending, Used
    <3>2. ~(d < c) /\ ~(c < d)
      BY <1>1, <1>3, <1>4, <3>1 DEF InTurn
    <3>3. QED
      BY <3>1, <3>2 DEF Contexts
  <2>3. context[c].server = 0
    BY <1>1, <1>2 DEF StartsFit
  <2>4. entry = 0
    BY <2>1, <2>2, <2>3, <1>1 DEF EntryOwned, InService
  <2> DEFINE y == [context[c] EXCEPT !.boot = "ensuring", !.target = c, !.preds = {}]
  <2>5. /\ context' = [context EXCEPT ![c].boot = "ensuring", ![c].target = c, ![c].preds = {}]
        /\ server' = [server EXCEPT ![c] = "up"]
        /\ entry' = c
    BY <1>6, <2>4 DEF Ensures
  <2>6. context[c] \in Ctx /\ c \in Numbers
    BY <1>1
  <2>7. /\ y \in Ctx /\ y.boot = "ensuring" /\ y.target = c
        /\ y.server = context[c].server
    BY <2>6 DEF Ctx, BootStages
  <2>8. context' = [context EXCEPT ![c] = y]
    BY <2>5, <1>1
  <2> HIDE DEF y
  <2>9. /\ context' \in [Contexts -> Ctx] /\ context'[c] = y
        /\ \A d \in Contexts : d # c => context'[d] = context[d]
    BY <1>1, <2>7, <2>8, ContextReplaced
  <2>10. /\ server' \in [Contexts -> Servers] /\ server'[c] = "up"
         /\ \A d \in Contexts : d # c => server'[d] = server[d]
    BY <1>1, <2>5 DEF Servers
  <2>11. \A d \in Contexts : (Used(d)' <=> Used(d)) /\ (IsPending(d)' <=> IsPending(d))
    BY <1>4, <2>7, <2>9 DEF Used, IsPending
  <2>12. Counted'
    BY <1>1, <1>2, <2>11 DEF Counted
  <2>13. InTurn'
    <3> SUFFICES ASSUME NEW b \in Contexts, NEW d \in Contexts, IsPending(b)', Used(d)', b < d
                 PROVE  context'[d].boot = "waiting" /\ b \in context'[d].preds
      BY DEF InTurn
    <3>1. IsPending(b) /\ Used(d)
      BY <2>11
    <3>2. d # c
      BY <1>3, <3>1
    <3>3. QED
      BY <1>1, <2>9, <3>1, <3>2 DEF InTurn
  <2>14. OneUp'
    BY <1>1, <2>4, <2>5, <2>10 DEF OneUp
  <2>15. EntryOwned'
    BY <2>5, <2>7, <2>9 DEF EntryOwned
  <2>16. ServiceIsUp'
    BY <1>2, <2>1, <2>3, <2>7, <2>9 DEF ServiceIsUp
  <2>17. StartsFit'
    BY <1>1, <2>2, <2>3, <2>7, <2>9, <2>10 DEF StartsFit
  <2>18. DisposalFits'
    BY <1>2, <2>1 DEF DisposalFits
  <2>19. QED
    BY <1>1, <1>2, <1>4, <2>5, <2>6, <2>9, <2>10, <2>11, <2>12, <2>13, <2>14, <2>15, <2>16,
       <2>17, <2>18, ServerStepKeeps DEF Hosting
<1>7. QED
  BY <1>5, <1>6

\* Contexts whose start has its server or has failed: c gets stage in context'.
LEMMA EnsuringEnds ==
  ASSUME OpenCodeInv, NEW c \in Contexts, context[c].boot = "ensuring",
         context' \in [Contexts -> Ctx],
         context'[c].boot \in {"gate1", "cleaning", "failed"},
         \A d \in Contexts : d # c => context'[d] = context[d],
         active' \in {active, 0}, disposal' = disposal, left' = left
  PROVE  /\ Counted' /\ InTurn' /\ DisposalFits'
         /\ \A d \in Contexts : context'[d].boot # "ensuring"
         /\ \A d \in Contexts : Used(d)' <=> Used(d)
<1>1. Counted /\ InTurn /\ DisposalFits
  BY HostingParts
<1>2. Used(c) /\ IsPending(c)
  BY DEF Used, IsPending
<1>3. \A d \in Contexts : (Used(d)' <=> Used(d)) /\ (IsPending(d)' => IsPending(d))
  BY <1>2 DEF Used, IsPending
<1>4. Counted'
  BY <1>1, <1>3 DEF Counted
<1>5. InTurn'
  <2> SUFFICES ASSUME NEW b \in Contexts, NEW d \in Contexts, IsPending(b)', Used(d)', b < d
               PROVE  context'[d].boot = "waiting" /\ b \in context'[d].preds
    BY DEF InTurn
  <2>1. context[d].boot = "waiting" /\ b \in context[d].preds
    BY <1>1, <1>3 DEF InTurn
  <2>2. d # c
    BY <2>1
  <2>3. QED
    BY <2>1, <2>2
<1>6. DisposalFits'
  BY <1>1, <1>3 DEF DisposalFits
<1>7. \A d \in Contexts : context'[d].boot # "ensuring"
  BY <1>1, OneEnsures
<1>8. QED
  BY <1>3, <1>4, <1>5, <1>6, <1>7

LEMMA EnsuredKeeps ==
  ASSUME OpenCodeInv, NEW c \in Contexts, Ensured(c), UNCHANGED left
  PROVE  OpenCodeInv'
<1> DEFINE s == context[c].target
<1>1. /\ HostTyped /\ Hosting
      /\ Counted /\ InTurn /\ OneUp /\ EntryOwned /\ ServiceIsUp /\ StartsFit /\ DisposalFits
      /\ context \in [Contexts -> Ctx] /\ server \in [Contexts -> Servers]
      /\ gen \in Nat /\ active \in Numbers /\ entry \in Numbers
      /\ active # 0 => active \in Contexts
      /\ entry # 0 => entry \in Contexts
      /\ 0 \in Numbers /\ Contexts \subseteq Numbers /\ 0 \notin Contexts
  BY HostingParts
<1>2. /\ context[c].boot = "ensuring" /\ server[s] # "dead"
      /\ UNCHANGED <<gen, active, disabled, disposal, switch, upstream, request, streams,
                     left>>
  BY DEF Ensured
<1>3. s \in Contexts /\ server[s] = "up" /\ entry = s
  BY <1>1, <1>2 DEF StartsFit, OneUp
<1>4. streams' \subseteq Contexts \X Sessions
  BY <1>1, <1>2 DEF HostTyped
<1>5. active # 0 => context[active].server = 0
  BY <1>1, <1>2, ServiceAlone
<1>6. CASE Current(c)
  <2>1. active = c /\ UNCHANGED <<server, entry>>
    BY <1>6 DEF Ensured, Current
  <2> DEFINE y == [context[c] EXCEPT !.boot = "gate1", !.gate = Gate, !.server = s]
  <2>2. context' = [context EXCEPT ![c].boot = "gate1", ![c].gate = Gate, ![c].server = s]
    BY <1>6 DEF Ensured
  <2>3. context[c] \in Ctx /\ s \in Numbers
    BY <1>1, <1>3
  <2>4. y \in Ctx /\ y.boot = "gate1" /\ y.server = s
    BY <1>1, <2>3, GateNow DEF Ctx, BootStages
  <2>5. context' = [context EXCEPT ![c] = y]
    BY <1>1, <2>2
  <2> HIDE DEF y
  <2>6. /\ context' \in [Contexts -> Ctx] /\ context'[c] = y
        /\ \A d \in Contexts : d # c => context'[d] = context[d]
    BY <1>1, <2>4, <2>5, ContextReplaced
  <2> HIDE DEF s
  <2>7. /\ Counted' /\ InTurn' /\ DisposalFits'
        /\ \A d \in Contexts : context'[d].boot # "ensuring"
        /\ \A d \in Contexts : Used(d)' <=> Used(d)
    BY <1>2, <2>4, <2>6, EnsuringEnds
  <2>8. OneUp' /\ EntryOwned'
    BY <1>1, <1>2, <1>3, <2>1, <2>4, <2>6 DEF OneUp, EntryOwned, InService
  <2>9. ServiceIsUp'
    BY <1>2, <1>3, <2>1, <2>4, <2>6 DEF ServiceIsUp
  <2>10. StartsFit'
    BY <1>1, <2>4, <2>6, <2>7 DEF StartsFit
  <2>11. QED
    BY <1>1, <1>2, <1>4, <2>1, <2>6, <2>7, <2>8, <2>9, <2>10, ServerStepKeeps DEF Hosting
<1>7. CASE ~Current(c)
  <2>1. context' = Booted(c, "cleaning") /\ Cleans(s, "terminating")
    BY <1>7 DEF Ensured, Lost
  <2>2. /\ context' \in [Contexts -> Ctx] /\ context'[c].boot = "cleaning"
        /\ context'[c].server = context[c].server
        /\ \A d \in Contexts : d # c => context'[d] = context[d]
    BY <1>1, <2>1, BootedIs DEF BootStages
  <2> HIDE DEF s
  <2>3. /\ server' \in [Contexts -> Servers] /\ entry' = 0 /\ OneUp'
    BY <1>1, <1>3, <2>1, CleansServer
  <2>4. /\ Counted' /\ InTurn' /\ DisposalFits'
        /\ \A d \in Contexts : context'[d].boot # "ensuring"
        /\ \A d \in Contexts : Used(d)' <=> Used(d)
    BY <1>2, <2>2, EnsuringEnds
  <2>5. EntryOwned'
    BY <2>3 DEF EntryOwned
  <2>6. ServiceIsUp'
    BY <1>1, <1>2, <1>5, <2>2 DEF ServiceIsUp
  <2>7. StartsFit'
    BY <1>1, <2>2, <2>4 DEF StartsFit
  <2>8. QED
    BY <1>1, <1>2, <1>4, <2>2, <2>3, <2>4, <2>5, <2>6, <2>7, ServerStepKeeps DEF Hosting
<1>8. QED
  BY <1>6, <1>7

LEMMA EnsureFailsKeeps ==
  ASSUME OpenCodeInv, NEW c \in Contexts, EnsureFails(c), UNCHANGED left
  PROVE  OpenCodeInv'
<1> DEFINE s == context[c].target
<1>1. /\ HostTyped /\ Hosting
      /\ Counted /\ InTurn /\ OneUp /\ EntryOwned /\ ServiceIsUp /\ StartsFit /\ DisposalFits
      /\ context \in [Contexts -> Ctx] /\ server \in [Contexts -> Servers]
      /\ gen \in Nat /\ active \in Numbers /\ entry \in Numbers
      /\ active # 0 => active \in Contexts
      /\ entry # 0 => entry \in Contexts
      /\ 0 \in Numbers /\ Contexts \subseteq Numbers /\ 0 \notin Contexts
  BY HostingParts
<1>2. /\ context[c].boot = "ensuring"
      /\ context' = Booted(c, "failed")
      /\ \E how \in {"killed", "stray"} : Cleans(s, how)
      /\ UNCHANGED <<disabled, disposal, switch, upstream, request, left>>
  BY DEF EnsureFails
<1>3. /\ active' \in {active, 0} /\ gen' \in Nat /\ gen' >= gen
      /\ streams' \subseteq Contexts \X Sessions
  BY <1>1 DEF EnsureFails, HostTyped
<1>4. s \in Contexts
  BY <1>1, <1>2 DEF StartsFit
<1>5. active # 0 => context[active].server = 0
  BY <1>1, <1>2, ServiceAlone
<1>6. entry # 0 => entry = s
  <2> SUFFICES ASSUME entry # 0 PROVE entry = s
    OBVIOUS
  <2>1. ~InService(entry)
    BY <1>5 DEF InService
  <2>2. PICK d \in Contexts : context[d].boot = "ensuring" /\ context[d].target = entry
    BY <1>1, <2>1 DEF EntryOwned
  <2>3. d = c
    BY <1>1, <1>2, <2>2, OneEnsures
  <2>4. QED
    BY <2>2, <2>3
<1>7. /\ context' \in [Contexts -> Ctx] /\ context'[c].boot = "failed"
      /\ context'[c].server = context[c].server
      /\ \A d \in Contexts : d # c => context'[d] = context[d]
  BY <1>1, <1>2, BootedIs DEF BootStages
<1> HIDE DEF s
<1>8. /\ server' \in [Contexts -> Servers] /\ entry' = 0 /\ OneUp'
  BY <1>1, <1>2, <1>4, <1>6, CleansServer
<1>9. /\ Counted' /\ InTurn' /\ DisposalFits'
      /\ \A d \in Contexts : context'[d].boot # "ensuring"
      /\ \A d \in Contexts : Used(d)' <=> Used(d)
  BY <1>2, <1>3, <1>7, EnsuringEnds
<1>10. EntryOwned'
  BY <1>8 DEF EntryOwned
<1>11. ServiceIsUp'
  BY <1>1, <1>3, <1>5, <1>7 DEF ServiceIsUp
<1>12. StartsFit'
  BY <1>1, <1>7, <1>9 DEF StartsFit
<1>13. QED
  BY <1>1, <1>2, <1>3, <1>7, <1>8, <1>9, <1>10, <1>11, <1>12, ServerStepKeeps DEF Hosting

LEMMA ServerExitsKeeps ==
  ASSUME OpenCodeInv, NEW s \in Contexts, ServerExits(s), UNCHANGED left
  PROVE  OpenCodeInv'
<1>1. /\ HostTyped /\ Hosting
      /\ Counted /\ InTurn /\ OneUp /\ EntryOwned /\ ServiceIsUp /\ StartsFit /\ DisposalFits
      /\ context \in [Contexts -> Ctx] /\ server \in [Contexts -> Servers]
      /\ gen \in Nat /\ active \in Numbers /\ entry \in Numbers
      /\ active # 0 => active \in Contexts
      /\ entry # 0 => entry \in Contexts
      /\ 0 \in Numbers /\ Contexts \subseteq Numbers /\ 0 \notin Contexts
  BY HostingParts
<1>2. /\ server' = [server EXCEPT ![s] = "dead"]
      /\ entry' = IF entry = s THEN 0 ELSE entry
      /\ UNCHANGED <<disabled, disposal, switch, upstream, request, left>>
      /\ \/ /\ active # 0 /\ context[active].server = s
            /\ gen' = gen + 1 /\ active' = 0
            /\ context' = [context EXCEPT ![active].known = {}]
            /\ streams' \subseteq streams
         \/ /\ ~(active # 0 /\ context[active].server = s)
            /\ UNCHANGED <<gen, active, context, streams>>
  BY DEF ServerExits
<1>3. Advanced(context')
  BY <1>1, <1>2, KnownAdvances, SameAdvances
<1>4. /\ gen' \in Nat /\ gen' >= gen /\ active' \in {active, 0}
      /\ streams' \subseteq Contexts \X Sessions
  BY <1>1, <1>2 DEF HostTyped
<1>5. \A c \in Contexts :
         /\ Used(c)' <=> Used(c)
         /\ IsPending(c)' => IsPending(c)
         /\ context'[c].boot \in {"none", "waiting", "ensuring"} =>
              context'[c].boot = context[c].boot
         /\ context[c].boot = "waiting" => context'[c].boot = "waiting"
         /\ context[c].boot = "ensuring" =>
              context'[c].boot = "ensuring" /\ context'[c].target = context[c].target
         /\ context'[c].server = context[c].server
         /\ context'[c].preds = context[c].preds
         /\ context'[c].boot = "ensuring" => context'[c].target = context[c].target
  BY <1>3, AdvancedFacts
<1>6. /\ server' \in [Contexts -> Servers] /\ server'[s] = "dead"
      /\ \A d \in Contexts : d # s => server'[d] = server[d]
  BY <1>1, <1>2 DEF Servers
<1>7. Counted'
  BY <1>1, <1>2, <1>4, <1>5 DEF Counted
<1>8. InTurn'
  BY <1>1, <1>5 DEF InTurn
<1>9. DisposalFits'
  BY <1>1, <1>2, <1>4, <1>5 DEF DisposalFits
<1>10. OneUp'
  BY <1>1, <1>2, <1>6 DEF OneUp
<1>11. EntryOwned'
  <2> SUFFICES ASSUME entry' # 0
               PROVE  \/ active' # 0 /\ context'[active'].server = entry'
                      \/ \E c \in Contexts : /\ context'[c].boot = "ensuring"
                                             /\ context'[c].target = entry'
    BY DEF EntryOwned, InService
  <2>1. entry' = entry /\ entry # s
    BY <1>2
  <2>2. CASE InService(entry)
    <3>1. UNCHANGED <<active, context>>
      BY <1>2, <2>1, <2>2 DEF InService
    <3>2. QED
      BY <2>1, <2>2, <3>1 DEF InService
  <2>3. CASE \E c \in Contexts : context[c].boot = "ensuring" /\ context[c].target = entry
    BY <1>5, <2>1, <2>3
  <2>4. QED
    BY <1>1, <2>1, <2>2, <2>3 DEF EntryOwned
<1>12. ServiceIsUp'
  <2> SUFFICES ASSUME active' # 0, context'[active'].server # 0
               PROVE  server'[context'[active'].server] = "up"
    BY DEF ServiceIsUp
  <2>1. UNCHANGED <<active, context>> /\ context[active].server # s
    BY <1>2
  <2>2. context[active].server \in Contexts
    BY <1>1, <2>1, CtxFields DEF Numbers, Contexts
  <2>3. QED
    BY <1>1, <1>6, <2>1, <2>2 DEF ServiceIsUp
<1>13. StartsFit'
  BY <1>1, <1>5, <1>6 DEF StartsFit
<1>14. context' \in [Contexts -> Ctx] /\ entry' \in Numbers
  BY <1>1, <1>2, <1>3 DEF Advanced
<1>15. QED
  BY <1>2, <1>4, <1>5, <1>6, <1>7, <1>8, <1>9, <1>10, <1>11, <1>12, <1>13, <1>14,
     ServerStepKeeps DEF Hosting
-----------------------------------------------------------------------------
(***************************************************************************)
(* The calls.                                                              *)
(***************************************************************************)
LEMMA UncalledIs ==
  /\ Uncalled \in Req /\ Uncalled.op = "none" /\ Uncalled.pc = "idle" /\ Uncalled.then = "none"
  /\ Uncalled.ctx = 0 /\ Uncalled.sid = 0 /\ Uncalled.gate.seen = 0
  BY NoGateIs, OpenCodeAssumption DEF Uncalled, Req, Numbers

LEMMA EndsIs ==
  ASSUME NEW how \in {"ok", "failed"}
  PROVE  /\ Ends(how) \in Req /\ Ends(how).op = "none" /\ Ends(how).pc = how
         /\ Ends(how).then = "none" /\ Ends(how).ctx = 0 /\ Ends(how).gate.seen = 0
<1> HIDE DEF Uncalled
<1>1. /\ Uncalled \in Req /\ Uncalled.op = "none" /\ Uncalled.then = "none"
      /\ Uncalled.ctx = 0 /\ Uncalled.gate.seen = 0
  BY UncalledIs
<1>2. QED
  BY <1>1 DEF Ends, Req

\* What a call can wait for at a gate.
Awaits == {"none", "enter", "booted", "acted", "removed", "final"}

LEMMA AsksIs ==
  ASSUME HostTyped, NEW q \in Req, NEW then \in Awaits
  PROVE  /\ Asks(q, then) \in Req /\ Asks(q, then).pc = "gate" /\ Asks(q, then).then = then
         /\ Asks(q, then).gate = Gate /\ Asks(q, then).op = q.op /\ Asks(q, then).ctx = q.ctx
         /\ Asks(q, then).sid = q.sid /\ Asks(q, then).offs = q.offs
<1>1. Gate \in Gates
  BY GateNow
<1>2. QED
  BY <1>1 DEF Asks, Req, Awaits

LEMMA MovesIs ==
  ASSUME NEW q \in Req, NEW pc \in {"booting", "acting"}
  PROVE  /\ Moves(q, pc) \in Req /\ Moves(q, pc).pc = pc /\ Moves(q, pc).then = "none"
         /\ Moves(q, pc).gate.seen = 0 /\ Moves(q, pc).op = q.op /\ Moves(q, pc).ctx = q.ctx
         /\ Moves(q, pc).sid = q.sid /\ Moves(q, pc).offs = q.offs
<1>1. NoGate \in Gates /\ NoGate.seen = 0
  BY NoGateIs
<1>2. QED
  BY <1>1 DEF Moves, Req

LEMMA SetsTo ==
  ASSUME HostTyped, NEW r \in Requests, NEW q \in Req, Sets(r, q)
  PROVE  /\ request' \in [Requests -> Req] /\ request'[r] = q
         /\ \A v \in Requests : v # r => request'[v] = request[v]
  BY DEF HostTyped, Sets

LEMMA RequestOutcome ==
  ASSUME OpenCodeInv, NEW r \in Requests, NEW q \in Req, Sets(r, q),
         OldOrNone, DisposalMoves, SwitchStays,
         disabled' \in BOOLEAN, streams' \subseteq Contexts \X Sessions, upstream' \in Ups,
         left' \in [calls : Nat, starts : Nat, updates : Nat], left'.starts = left.starts,
         CallFits(r)'
  PROVE  OpenCodeInv'
<1>1. HostTyped /\ OffIsLatched
  BY DEF OpenCodeInv
<1>2. /\ request' \in [Requests -> Req]
      /\ \A v \in Requests : v # r => request'[v] = request[v]
  BY <1>1, SetsTo
<1>3. SideTyped
  BY <1>1, <1>2 DEF SideTyped, HostTyped, SwitchStays
<1>4. OffIsLatched' /\ (switch'.off => switch.off) /\ switch'.offs = switch.offs
  BY <1>1 DEF OffIsLatched, SwitchStays
<1>5. \A v \in Requests : request'[v] = request[v] \/ CallFits(v)'
  BY <1>2
<1>6. QED
  BY <1>3, <1>4, <1>5, OutcomeStep

LEMMA CallFacts ==
  ASSUME OpenCodeInv, NEW r \in Requests
  PROVE  /\ HostTyped /\ Hosting /\ OffIsLatched /\ CallFits(r) /\ request[r] \in Req
         /\ gen \in Nat /\ disabled \in BOOLEAN /\ upstream \in Ups
         /\ streams \subseteq Contexts \X Sessions
         /\ left \in [calls : Nat, starts : Nat, updates : Nat]
         /\ request[r].ctx \in Numbers /\ request[r].sid \in 0 .. MaxSessions
         /\ request[r].ids \subseteq Sessions /\ request[r].gate \in Gates
         /\ request[r].ctx # 0 => request[r].ctx \in Contexts /\ Used(request[r].ctx)
         /\ request[r].sid # 0 => request[r].sid \in Sessions
<1>1. /\ HostTyped /\ Hosting /\ OffIsLatched /\ CallFits(r) /\ request[r] \in Req
      /\ gen \in Nat /\ disabled \in BOOLEAN /\ upstream \in Ups
      /\ streams \subseteq Contexts \X Sessions
      /\ left \in [calls : Nat, starts : Nat, updates : Nat]
  BY DEF OpenCodeInv, HostTyped, CallsFit, CallFits
<1>2. /\ request[r].ctx \in Numbers /\ request[r].sid \in 0 .. MaxSessions
      /\ request[r].ids \subseteq Sessions /\ request[r].gate \in Gates
  BY <1>1, ReqFields
<1>3. request[r].ctx # 0 => request[r].ctx \in Contexts /\ Used(request[r].ctx)
  BY <1>1, <1>2 DEF CallFits, Numbers, Contexts
<1>4. request[r].sid # 0 => request[r].sid \in Sessions
  BY <1>2, OpenCodeAssumption DEF Sessions
<1>5. QED
  BY <1>1, <1>2, <1>3, <1>4

\* A call whose gate lets it pass has seen the switch as it stands, since it was made.
LEMMA PastFacts ==
  ASSUME OpenCodeInv, NEW r \in Requests, NEW then, Past(r, then)
  PROVE  /\ request[r].pc = "gate" /\ request[r].then = then
         /\ ~switch.off /\ request[r].offs = switch.offs /\ disposal = "no"
         /\ request[r].ctx # 0 => request[r].ctx = active
<1>1. PICK allowed \in Answers(request[r].gate) :
        GatePasses(request[r].gate, allowed, request[r].ctx,
                   then = "enter" /\ request[r].op \in {"start", "list"})
  BY DEF Past
<1>2. request[r].pc = "gate" /\ request[r].then = then
  BY DEF Past
<1>3. /\ request[r].gate.seen = gen /\ allowed /\ disposal = "no"
      /\ request[r].ctx # 0 => request[r].ctx = active
  BY <1>1 DEF GatePasses, Stale, Current
<1>4. CallFits(r)
  BY CallFacts
<1>5. ~switch.off
  <2> SUFFICES ASSUME switch.off PROVE FALSE
    OBVIOUS
  <2>1. request[r].gate.latched
    BY <1>2, <1>3, <1>4 DEF CallFits
  <2>2. QED
    BY <1>1, <1>3, <2>1 DEF Answers
<1>6. request[r].offs = switch.offs
  BY <1>2, <1>3, <1>4 DEF CallFits
<1>7. QED
  BY <1>2, <1>3, <1>5, <1>6

\* A call in the context in service was made since the switch was last off.
LEMMA CurrentFacts ==
  ASSUME OpenCodeInv, NEW r \in Requests, Current(request[r].ctx),
         request[r].pc \in {"booting", "acting", "answered"}
  PROVE  /\ request[r].offs = switch.offs /\ request[r].ctx = active
         /\ request[r].ctx \in Contexts /\ Used(request[r].ctx)
<1>1. CallFits(r) /\ (request[r].ctx # 0 => request[r].ctx \in Contexts /\ Used(request[r].ctx))
  BY CallFacts
<1>2. request[r].ctx # 0 /\ request[r].ctx = active
  BY DEF Current
<1>3. QED
  BY <1>1, <1>2 DEF CallFits

LEMMA EndFits ==
  ASSUME HostTyped, NEW r \in Requests, NEW how \in {"ok", "failed"},
         request'[r] = Ends(how), gen' \in Nat
  PROVE  CallFits(r)'
<1>1. /\ Ends(how) \in Req /\ Ends(how).op = "none" /\ Ends(how).pc = how
      /\ Ends(how).then = "none" /\ Ends(how).ctx = 0 /\ Ends(how).gate.seen = 0
  BY EndsIs
<1> DEFINE q == Ends(how)
<1> HIDE DEF q
<1>2. /\ q \in Req /\ q.op = "none" /\ q.pc \in {"ok", "failed"}
      /\ q.then = "none" /\ q.ctx = 0 /\ q.gate.seen = 0 /\ request'[r] = q
  BY <1>1 DEF q
<1>3. QED
  BY <1>2 DEF CallFits, Scoped

\* An answer within the same generation: the call asks the switch again.
LEMMA AskFits ==
  ASSUME OpenCodeInv, NEW r \in Requests, NEW q \in Req, NEW then \in {"booted", "acted",
         "removed", "final"},
         request'[r] = Asks(q, then), UNCHANGED <<gen, switch>>,
         q.op \in Scoped => q.sid # 0, q.op = "start" /\ then # "booted" => q.sid # 0,
         q.ctx # 0, Used(q.ctx)', q.offs = switch.offs
  PROVE  CallFits(r)'
<1> DEFINE z == Asks(q, then)
<1>1. HostTyped /\ OffIsLatched
  BY DEF OpenCodeInv
<1>2. then \in Awaits
  BY DEF Awaits
<1>3. /\ z \in Req /\ z.pc = "gate" /\ z.then = then
      /\ z.gate = Gate /\ z.op = q.op /\ z.ctx = q.ctx
      /\ z.sid = q.sid /\ z.offs = q.offs
  BY <1>1, <1>2, AsksIs
<1>4. z.gate.seen = gen /\ (z.gate.latched <=> switch.latch) /\ gen \in Nat
  BY <1>1, <1>3, GateNow DEF HostTyped
<1>5. request'[r] = z
  OBVIOUS
<1> HIDE DEF z
<1>6. QED
  BY <1>1, <1>3, <1>4, <1>5 DEF CallFits, OffIsLatched

LEMMA InContextOutcome ==
  ASSUME OpenCodeInv, NEW r \in Requests, NEW q \in Req, Sets(r, q), InContext, UNCHANGED left,
         Advanced(context'), streams' \subseteq Contexts \X Sessions, CallFits(r)'
  PROVE  OpenCodeInv'
<1>1. /\ HostTyped /\ Hosting /\ disabled \in BOOLEAN /\ upstream \in Ups
      /\ left \in [calls : Nat, starts : Nat, updates : Nat]
  BY CallFacts
<1>2. OldOrNone /\ DisposalMoves /\ SwitchStays
  BY <1>1, StaysTo, DisposalStays DEF InContext, SwitchStays
<1>3. QED
  BY <1>1, <1>2, RequestOutcome DEF InContext

LEMMA QuietOutcome ==
  ASSUME OpenCodeInv, NEW r \in Requests, NEW q \in Req, Sets(r, q), Quietly, UNCHANGED left,
         CallFits(r)'
  PROVE  OpenCodeInv'
<1>1. HostTyped /\ streams \subseteq Contexts \X Sessions
  BY CallFacts
<1>2. Advanced(context') /\ InContext /\ streams' \subseteq Contexts \X Sessions
  BY <1>1, SameAdvances DEF Quietly, Unretired, InContext
<1>3. QED
  BY <1>2, InContextOutcome

\* A call that ends and changes nothing.
LEMMA QuietEnd ==
  ASSUME OpenCodeInv, NEW r \in Requests, NEW how \in {"ok", "failed"}, Sets(r, Ends(how)),
         Quietly, UNCHANGED left
  PROVE  OpenCodeInv'
<1>1. HostTyped /\ Ends(how) \in Req /\ gen' \in Nat
  BY CallFacts, EndsIs DEF Quietly, Unretired
<1>2. request'[r] = Ends(how)
  BY <1>1, SetsTo
<1>3. CallFits(r)'
  BY <1>1, <1>2, EndFits
<1>4. QED
  BY <1>1, <1>3, QuietOutcome

LEMMA QuietAsk ==
  ASSUME OpenCodeInv, NEW r \in Requests, NEW then \in {"booted", "acted", "removed", "final"},
         Sets(r, Asks(request[r], then)), Quietly, UNCHANGED left,
         request[r].op = "start" /\ then # "booted" => request[r].sid # 0,
         request[r].ctx # 0, request[r].offs = switch.offs
  PROVE  OpenCodeInv'
<1>1. /\ HostTyped /\ CallFits(r) /\ request[r] \in Req
      /\ request[r].ctx \in Contexts /\ Used(request[r].ctx) /\ then \in Awaits
  BY CallFacts DEF Awaits
<1> DEFINE z == Asks(request[r], then)
<1>2. z \in Req
  BY <1>1, AsksIs
<1>3. Sets(r, z)
  OBVIOUS
<1> HIDE DEF z
<1>4. request'[r] = z
  BY <1>1, <1>2, <1>3, SetsTo
<1>6. context' = context /\ UNCHANGED <<gen, switch>>
  BY DEF Quietly, Unretired
<1>7. context'[request[r].ctx].boot # "none"
  BY <1>1, <1>6 DEF Used
<1>8. request[r].op \in Scoped => request[r].sid # 0
  BY <1>1 DEF CallFits
<1>9. CallFits(r)'
  <2> DEFINE q == request[r]
  <2>1. /\ q \in Req /\ request'[r] = Asks(q, then)
        /\ q.op \in Scoped => q.sid # 0
        /\ q.op = "start" /\ then # "booted" => q.sid # 0
        /\ q.ctx # 0 /\ context'[q.ctx].boot # "none" /\ q.offs = switch.offs
    BY <1>1, <1>4, <1>7, <1>8 DEF z
  <2> HIDE DEF q
  <2>2. QED
    BY <1>6, <2>1, AskFits DEF Used
<1>10. QED
  BY <1>2, <1>3, <1>9, QuietOutcome

LEMMA FinishesKeeps ==
  ASSUME OpenCodeInv, NEW r \in Requests, Finishes(r), UNCHANGED left
  PROVE  OpenCodeInv'
  BY QuietEnd DEF Finishes

LEMMA AbortsKeeps ==
  ASSUME OpenCodeInv, NEW r \in Requests, Aborts(r), UNCHANGED left
  PROVE  OpenCodeInv'
  BY QuietEnd DEF Aborts

LEMMA BootsKeeps ==
  ASSUME OpenCodeInv, NEW r \in Requests, Boots(r), UNCHANGED left
  PROVE  OpenCodeInv'
<1>1. Current(request[r].ctx) /\ request[r].pc = "booting"
  BY DEF Boots
<1>2. request[r].offs = switch.offs /\ request[r].ctx # 0
  BY <1>1, CurrentFacts DEF Contexts
<1>3. QED
  BY <1>2, QuietAsk DEF Boots

LEMMA AnsweredKeeps ==
  ASSUME OpenCodeInv, NEW r \in Requests, Answered(r), UNCHANGED left
  PROVE  OpenCodeInv'
<1>1. Current(request[r].ctx) /\ request[r].pc = "answered"
  BY DEF Answered
<1>2. request[r].offs = switch.offs /\ request[r].ctx # 0
  BY <1>1, CurrentFacts DEF Contexts
<1>3. request[r].op = "start" => request[r].sid # 0
  BY <1>1, CallFacts DEF CallFits
<1>4. QED
  BY <1>2, <1>3, QuietAsk DEF Answered

LEMMA ActsKeeps ==
  ASSUME OpenCodeInv, NEW r \in Requests, Acts(r), UNCHANGED left
  PROVE  OpenCodeInv'
<1>1. Past(r, "booted") /\ Quietly
  BY DEF Acts
<1>2. CASE Sets(r, Ends("failed"))
  BY <1>1, <1>2, QuietEnd
<1>3. CASE Sets(r, Moves(request[r], "acting"))
  <2>1. /\ HostTyped /\ CallFits(r) /\ request[r] \in Req /\ gen \in Nat
        /\ request[r].ctx # 0 => request[r].ctx \in Contexts /\ Used(request[r].ctx)
    BY CallFacts
  <2>2. request[r].offs = switch.offs /\ request[r].pc = "gate" /\ request[r].then = "booted"
    BY <1>1, PastFacts
  <2>3. request[r].ctx # 0
    BY <2>1, <2>2 DEF CallFits
  <2> DEFINE z == Moves(request[r], "acting")
  <2>4. /\ z \in Req /\ z.pc = "acting" /\ z.then = "none"
        /\ z.gate.seen = 0 /\ z.op = request[r].op /\ z.ctx = request[r].ctx
        /\ z.sid = request[r].sid /\ z.offs = request[r].offs
    BY <2>1, MovesIs
  <2>5. Sets(r, z)
    BY <1>3
  <2> HIDE DEF z
  <2>6. request'[r] = z
    BY <2>1, <2>4, <2>5, SetsTo
  <2>7. UNCHANGED <<gen, switch, context>>
    BY <1>1 DEF Quietly, Unretired
  <2>8. z.ctx # 0 /\ context'[z.ctx].boot # "none"
    BY <2>1, <2>3, <2>4, <2>7 DEF Used
  <2>9. z.op \in Scoped => z.sid # 0
    BY <2>1, <2>4 DEF CallFits
  <2>10. CallFits(r)'
    BY <2>1, <2>2, <2>4, <2>6, <2>7, <2>8, <2>9 DEF CallFits, Used
  <2>11. QED
    BY <1>1, <2>4, <2>5, <2>10, QuietOutcome
<1>4. QED
  BY <1>2, <1>3 DEF Acts

LEMMA EntersKeeps ==
  ASSUME OpenCodeInv, NEW r \in Requests, Enters(r), UNCHANGED left
  PROVE  OpenCodeInv'
<1>1. Past(r, "enter") /\ Quietly
  BY DEF Enters
<1>2. CASE Sets(r, Ends("failed"))
  BY <1>1, <1>2, QuietEnd
<1>3. CASE ~Sets(r, Ends("failed"))
  <2>1. /\ HostTyped /\ Hosting /\ CallFits(r) /\ request[r] \in Req /\ gen \in Nat
        /\ request[r].ctx # 0 => request[r].ctx \in Contexts /\ Used(request[r].ctx)
    BY CallFacts
  <2>2. request[r].offs = switch.offs /\ request[r].pc = "gate" /\ request[r].then = "enter"
    BY <1>1, PastFacts
  <2>3. PICK c \in {active, request[r].ctx} :
           c # 0 /\ Sets(r, [Moves(request[r], "booting") EXCEPT !.ctx = c])
    BY <1>3 DEF Enters
  <2>4. active # 0 => active \in Contexts /\ Used(active)
    BY <2>1 DEF HostTyped, Hosting, Counted, Numbers, Contexts
  <2>5. c \in Contexts /\ Used(c) /\ c \in Numbers
    BY <2>1, <2>3, <2>4 DEF Numbers, Contexts
  <2> DEFINE y == Moves(request[r], "booting")
             z == [y EXCEPT !.ctx = c]
  <2>6. /\ y \in Req /\ y.pc = "booting" /\ y.then = "none"
        /\ y.gate.seen = 0 /\ y.op = request[r].op
        /\ y.sid = request[r].sid /\ y.offs = request[r].offs
    BY <2>1, MovesIs
  <2>a. Sets(r, z)
    BY <2>3
  <2> HIDE DEF y
  <2>7. /\ z \in Req /\ z.pc = "booting" /\ z.then = "none"
        /\ z.gate.seen = 0 /\ z.op = request[r].op /\ z.ctx = c
        /\ z.sid = request[r].sid /\ z.offs = request[r].offs
    BY <2>5, <2>6 DEF Req
  <2> HIDE DEF z
  <2>8. request'[r] = z
    BY <2>1, <2>7, <2>a, SetsTo
  <2>9. UNCHANGED <<gen, switch, context>>
    BY <1>1 DEF Quietly, Unretired
  <2>10. z.ctx # 0 /\ context'[z.ctx].boot # "none"
    BY <2>3, <2>5, <2>7, <2>9 DEF Used
  <2>11. z.op \in Scoped => z.sid # 0
    BY <2>1, <2>7 DEF CallFits
  <2>12. CallFits(r)'
    BY <2>1, <2>2, <2>7, <2>8, <2>9, <2>10, <2>11 DEF CallFits, Used
  <2>13. QED
    BY <1>1, <2>7, <2>a, <2>12, QuietOutcome
<1>4. QED
  BY <1>2, <1>3

LEMMA CallKeeps ==
  ASSUME OpenCodeInv, NEW r \in Requests, NEW op \in Operations, NEW s \in 0 .. MaxSessions,
         Call(r, op, s)
  PROVE  OpenCodeInv'
<1>a. HostTyped /\ Hosting /\ OffIsLatched
  BY CallFacts
<1>b. switch.offs \in Nat
  BY <1>a, SwitchFields DEF HostTyped
<1>c. /\ disabled \in BOOLEAN /\ upstream \in Ups
      /\ streams \subseteq Contexts \X Sessions /\ gen \in Nat /\ active \in Numbers
  BY <1>a DEF HostTyped
<1>d. active # 0 => Used(active)
  BY <1>a, <1>c DEF Hosting, Counted, Numbers, Contexts
<1>1. /\ HostTyped /\ Hosting /\ OffIsLatched /\ disabled \in BOOLEAN /\ upstream \in Ups
      /\ streams \subseteq Contexts \X Sessions /\ gen \in Nat /\ switch.offs \in Nat
      /\ active \in Numbers /\ (active # 0 => Used(active))
  BY <1>a, <1>b, <1>c, <1>d
<1> DEFINE y == [Uncalled EXCEPT !.op = op, !.sid = s, !.ctx = active, !.offs = switch.offs]
           z == Asks(y, "enter")
<1>2. Uncalled \in Req /\ Uncalled.then = "none"
  BY UncalledIs
<1> HIDE DEF Uncalled
<1>3. /\ y \in Req /\ y.op = op /\ y.sid = s /\ y.ctx = active /\ y.offs = switch.offs
  BY <1>1, <1>2 DEF Req
<1>4. Sets(r, z)
  BY DEF Call
<1> HIDE DEF y
<1>5. /\ z \in Req /\ z.pc = "gate" /\ z.then = "enter"
      /\ z.gate = Gate /\ z.op = op /\ z.ctx = active
      /\ z.sid = s /\ z.offs = switch.offs
  BY <1>1, <1>3, AsksIs DEF Awaits
<1>6. z.gate.seen = gen /\ (z.gate.latched <=> switch.latch)
  BY <1>1, <1>5, GateNow
<1> HIDE DEF z
<1>7. request'[r] = z
  BY <1>1, <1>4, <1>5, SetsTo
<1>8. UNCHANGED <<gen, active, context, disabled, disposal, switch, server, entry, upstream,
                  streams>>
  BY DEF Call
<1>9. z.op \in Scoped => z.sid # 0
  BY <1>5 DEF Call
<1>10. z.ctx # 0 => context'[z.ctx].boot # "none"
  BY <1>1, <1>5, <1>8 DEF Used
<1>11. CallFits(r)'
  BY <1>1, <1>5, <1>6, <1>7, <1>8, <1>9, <1>10 DEF CallFits, Used, OffIsLatched
<1>12. left' \in [calls : Nat, starts : Nat, updates : Nat] /\ left'.starts = left.starts
  BY <1>1, SpendsFrom DEF Call
<1>13. OldOrNone /\ DisposalMoves /\ SwitchStays
  BY <1>1, <1>8, SameAdvances, StaysTo, DisposalStays DEF SwitchStays
<1>14. QED
  BY <1>1, <1>4, <1>5, <1>8, <1>11, <1>12, <1>13, RequestOutcome

\* A call that ends while the context may be retired.
LEMMA EndOutcome ==
  ASSUME OpenCodeInv, NEW r \in Requests, NEW how \in {"ok", "failed"}, Sets(r, Ends(how)),
         OldOrNone, disabled' \in BOOLEAN, streams' \subseteq Contexts \X Sessions,
         UNCHANGED <<disposal, switch, upstream, left>>
  PROVE  OpenCodeInv'
<1>1. /\ HostTyped /\ Hosting /\ upstream \in Ups /\ Ends(how) \in Req
      /\ left \in [calls : Nat, starts : Nat, updates : Nat]
  BY CallFacts, EndsIs
<1>2. request'[r] = Ends(how)
  BY <1>1, SetsTo
<1>3. CallFits(r)'
  BY <1>1, <1>2, EndFits DEF OldOrNone
<1>4. DisposalMoves /\ SwitchStays
  BY <1>1, DisposalStays DEF SwitchStays
<1>5. QED
  BY <1>1, <1>3, <1>4, RequestOutcome

LEMMA GateFailsKeeps ==
  ASSUME OpenCodeInv, NEW r \in Requests, GateFails(r), UNCHANGED left
  PROVE  OpenCodeInv'
<1>1. HostTyped /\ disabled \in BOOLEAN /\ streams \subseteq Contexts \X Sessions
  BY CallFacts
<1>2. Sets(r, Ends("failed")) /\ UNCHANGED <<disposal, switch, upstream>>
  BY DEF GateFails
<1>3. \/ Revoked(context) /\ disabled' = TRUE
      \/ Unretired /\ UNCHANGED <<context, disabled>>
  BY DEF GateFails
<1>4. OldOrNone /\ disabled' \in BOOLEAN /\ streams' \subseteq Contexts \X Sessions
  <2>1. CASE Revoked(context) /\ disabled' = TRUE
    BY <1>1, <2>1, SameAdvances, RevokedTo
  <2>2. CASE Unretired /\ UNCHANGED <<context, disabled>>
    BY <1>1, <2>2, SameAdvances, StaysTo DEF Unretired
  <2>3. QED
    BY <1>3, <2>1, <2>2
<1>5. QED
  BY <1>2, <1>4, EndOutcome

LEMMA StopsKeeps ==
  ASSUME OpenCodeInv, NEW r \in Requests, Stops(r), UNCHANGED left
  PROVE  OpenCodeInv'
<1>1. HostTyped /\ disabled \in BOOLEAN /\ request[r].ctx \in Numbers
  BY CallFacts
<1>2. OldOrNone /\ streams' \subseteq Contexts \X Sessions
  BY <1>1, SameAdvances, RetiresIfCurrentTo DEF Stops
<1>3. QED
  BY <1>1, <1>2, EndOutcome DEF Stops

LEMMA UpstreamFailsKeeps ==
  ASSUME OpenCodeInv, NEW r \in Requests, UpstreamFails(r), UNCHANGED left
  PROVE  OpenCodeInv'
<1>1. HostTyped /\ disabled \in BOOLEAN
  BY CallFacts
<1>2. request[r].ctx \in Contexts /\ active = request[r].ctx
  BY CurrentFacts DEF UpstreamFails
<1>3. OldOrNone /\ streams' \subseteq Contexts \X Sessions
  BY <1>1, <1>2, SameAdvances, RetiresTo DEF UpstreamFails
<1>4. QED
  BY <1>1, <1>3, EndOutcome DEF UpstreamFails

LEMMA SubscribesKeeps ==
  ASSUME OpenCodeInv, NEW r \in Requests, Subscribes(r), UNCHANGED left
  PROVE  OpenCodeInv'
<1>1. /\ HostTyped /\ CallFits(r) /\ disabled \in BOOLEAN /\ streams \subseteq Contexts \X Sessions
      /\ request[r].ctx # 0 => request[r].ctx \in Contexts /\ Used(request[r].ctx)
      /\ request[r].sid # 0 => request[r].sid \in Sessions
  BY CallFacts
<1>2. /\ request[r].op = "events" /\ context' = context /\ InContext
      /\ \/ /\ Sets(r, Ends("ok")) /\ request[r].ctx # 0
            /\ streams' = streams \cup {<<request[r].ctx, request[r].sid>>}
         \/ Sets(r, Ends("failed")) /\ UNCHANGED streams
  BY DEF Subscribes
<1>3. request[r].sid \in Sessions
  BY <1>1, <1>2 DEF CallFits, Scoped
<1>4. streams' \subseteq Contexts \X Sessions
  BY <1>1, <1>2, <1>3
<1>5. OldOrNone
  BY <1>1, <1>2, SameAdvances, StaysTo DEF InContext
<1>6. QED
  BY <1>1, <1>2, <1>4, <1>5, EndOutcome DEF InContext

LEMMA UpstreamKeeps ==
  ASSUME OpenCodeInv, NEW r \in Requests, Upstream(r), UNCHANGED left
  PROVE  OpenCodeInv'
<1> DEFINE q == request[r]
<1>1. /\ HostTyped /\ Hosting /\ CallFits(r) /\ q \in Req /\ gen \in Nat
      /\ disabled \in BOOLEAN /\ upstream \in Ups
      /\ streams \subseteq Contexts \X Sessions
      /\ left \in [calls : Nat, starts : Nat, updates : Nat]
  BY CallFacts
<1>2. q.pc = "acting" /\ Unretired /\ UNCHANGED <<context, disabled, disposal, switch>>
  BY DEF Upstream
<1>3. q.offs = switch.offs /\ q.ctx \in Contexts /\ Used(q.ctx) /\ q.ctx # 0
  BY <1>2, CurrentFacts DEF Upstream, Contexts
<1>4. /\ upstream.live \subseteq Sessions /\ upstream.made \in 0 .. MaxSessions
      /\ upstream.live \subseteq 1 .. upstream.made
  BY <1>1 DEF Ups
<1>5. \E z \in Req :
        /\ Sets(r, z) /\ z.pc = "answered" /\ z.op = q.op /\ z.then = q.then
        /\ z.ctx = q.ctx /\ z.gate = q.gate /\ z.offs = q.offs
        /\ z.sid = q.sid \/ z.sid # 0
        /\ z.op = "start" => z.sid # 0
        /\ upstream' \in Ups
  <2>1. CASE q.op = "start"
    <3> DEFINE n == upstream.made + 1
    <3>1. n \in 1 .. MaxSessions /\ n \in Sessions /\ n \in 0 .. MaxSessions
      BY <1>4, <2>1, OpenCodeAssumption DEF Upstream, Sessions
    <3>2. /\ upstream' = [live |-> upstream.live \cup {n}, made |-> n]
          /\ Sets(r, [q EXCEPT !.pc = "answered", !.sid = n])
      BY <2>1 DEF Upstream
    <3>3. upstream.live \cup {n} \subseteq 1 .. n
      BY <1>4
    <3> HIDE DEF n
    <3>4. upstream' \in Ups
      BY <1>4, <3>1, <3>2, <3>3 DEF Ups
    <3> DEFINE z == [q EXCEPT !.pc = "answered", !.sid = n]
    <3> HIDE DEF q
    <3>5. /\ z \in Req /\ z.pc = "answered" /\ z.op = q.op /\ z.then = q.then
          /\ z.ctx = q.ctx /\ z.gate = q.gate /\ z.offs = q.offs /\ z.sid = n
      BY <1>1, <3>1 DEF Req
    <3>6. n # 0
      BY <3>1
    <3>7. Sets(r, z)
      BY <3>2 DEF q
    <3> HIDE DEF z
    <3>8. QED
      BY <3>4, <3>5, <3>6, <3>7
  <2>2. CASE q.op = "list"
    <3>1. UNCHANGED upstream /\ Sets(r, [q EXCEPT !.pc = "answered", !.ids = upstream.live])
      BY <2>2 DEF Upstream
    <3> DEFINE z == [q EXCEPT !.pc = "answered", !.ids = upstream.live]
    <3>2. Sets(r, z)
      BY <3>1
    <3> HIDE DEF q
    <3>3. /\ z \in Req /\ z.pc = "answered" /\ z.op = q.op /\ z.then = q.then
          /\ z.ctx = q.ctx /\ z.gate = q.gate /\ z.offs = q.offs /\ z.sid = q.sid
      BY <1>1, <1>4 DEF Req
    <3> HIDE DEF z
    <3>4. QED
      BY <1>1, <2>2, <3>1, <3>2, <3>3
  <2>3. CASE q.op \notin {"start", "list"}
    <3>1. Sets(r, [q EXCEPT !.pc = "answered"])
      BY <2>3 DEF Upstream
    <3>2. upstream' = upstream \/ upstream' = [upstream EXCEPT !.live = @ \ {q.sid}]
      BY <2>3 DEF Upstream
    <3>3. upstream' \in Ups
      BY <1>1, <1>4, <3>2 DEF Ups
    <3> DEFINE z == [q EXCEPT !.pc = "answered"]
    <3>4. Sets(r, z)
      BY <3>1
    <3> HIDE DEF q
    <3>5. /\ z \in Req /\ z.pc = "answered" /\ z.op = q.op /\ z.then = q.then
          /\ z.ctx = q.ctx /\ z.gate = q.gate /\ z.offs = q.offs /\ z.sid = q.sid
      BY <1>1 DEF Req
    <3> HIDE DEF z
    <3>6. QED
      BY <2>3, <3>3, <3>4, <3>5
  <2>4. QED
    BY <2>1, <2>2, <2>3
<1>6. PICK z \in Req :
        /\ Sets(r, z) /\ z.pc = "answered" /\ z.op = q.op /\ z.then = q.then
        /\ z.ctx = q.ctx /\ z.gate = q.gate /\ z.offs = q.offs
        /\ z.sid = q.sid \/ z.sid # 0
        /\ z.op = "start" => z.sid # 0
        /\ upstream' \in Ups
  BY <1>5
<1>7. request'[r] = z
  BY <1>1, <1>6, SetsTo
<1>8. context'[q.ctx].boot # "none" /\ UNCHANGED <<gen, switch>>
  BY <1>2, <1>3 DEF Used, Unretired
<1>9. CallFits(r)'
  <2>1. /\ q.op \in Scoped => q.sid # 0
        /\ q.gate.seen <= gen
    BY <1>1 DEF CallFits
  <2> HIDE DEF q
  <2>2. context'[z.ctx].boot # "none"
    BY <1>6, <1>8
  <2>3. QED
    BY <1>6, <1>7, <1>8, <1>3, <2>1, <2>2 DEF CallFits, Used
<1>10. OldOrNone /\ DisposalMoves /\ SwitchStays /\ streams' \subseteq Contexts \X Sessions
  BY <1>1, <1>2, SameAdvances, StaysTo, DisposalStays DEF Unretired, SwitchStays
<1>11. QED
  BY <1>1, <1>2, <1>6, <1>9, <1>10, RequestOutcome
\* A call that asks on while only the sessions of its context change.
LEMMA AskOutcome ==
  ASSUME OpenCodeInv, NEW r \in Requests, NEW then \in {"removed", "final"},
         Sets(r, Asks(request[r], then)), InContext, UNCHANGED left,
         Advanced(context'), streams' \subseteq Contexts \X Sessions,
         request[r].op = "start" => request[r].sid # 0,
         request[r].ctx # 0, request[r].offs = switch.offs
  PROVE  OpenCodeInv'
<1>1. /\ HostTyped /\ CallFits(r) /\ request[r] \in Req
      /\ request[r].ctx \in Contexts /\ Used(request[r].ctx) /\ then \in Awaits
  BY CallFacts DEF Awaits
<1> DEFINE z == Asks(request[r], then)
<1>2. z \in Req
  BY <1>1, AsksIs
<1>3. Sets(r, z)
  OBVIOUS
<1> HIDE DEF z
<1>4. request'[r] = z
  BY <1>1, <1>2, <1>3, SetsTo
<1>5. UNCHANGED <<gen, switch>>
  BY DEF InContext
<1>6. context'[request[r].ctx].boot # "none"
  BY <1>1, AdvancedFacts DEF Used
<1>7. request[r].op \in Scoped => request[r].sid # 0
  BY <1>1 DEF CallFits
<1>8. CallFits(r)'
  <2> DEFINE q == request[r]
  <2>1. /\ q \in Req /\ request'[r] = Asks(q, then)
        /\ q.op \in Scoped => q.sid # 0
        /\ q.op = "start" => q.sid # 0
        /\ q.ctx # 0 /\ context'[q.ctx].boot # "none" /\ q.offs = switch.offs
    BY <1>1, <1>4, <1>6, <1>7 DEF z
  <2> HIDE DEF q
  <2>2. QED
    BY <1>5, <2>1, AskFits DEF Used
<1>9. QED
  BY <1>2, <1>3, <1>8, InContextOutcome

\* What a call holds once OpenCode has answered it.
LEMMA ActedFacts ==
  ASSUME OpenCodeInv, NEW r \in Requests, NEW then \in {"acted", "removed"}, Past(r, then)
  PROVE  /\ HostTyped /\ request[r].ctx \in Contexts /\ request[r].offs = switch.offs
         /\ request[r].ctx # 0
         /\ streams \subseteq Contexts \X Sessions /\ Advanced(context)
         /\ context[request[r].ctx].known \subseteq Sessions
         /\ request[r].ids \subseteq Sessions
         /\ then = "acted" /\ request[r].op = "start" => request[r].sid # 0
         /\ request[r].sid # 0 => request[r].sid \in Sessions
<1>1. /\ HostTyped /\ CallFits(r) /\ streams \subseteq Contexts \X Sessions
      /\ request[r].ids \subseteq Sessions
      /\ request[r].ctx # 0 => request[r].ctx \in Contexts /\ Used(request[r].ctx)
      /\ request[r].sid # 0 => request[r].sid \in Sessions
  BY CallFacts
<1>2. request[r].offs = switch.offs /\ request[r].then = then
  BY PastFacts
<1>3. request[r].ctx # 0 /\ request[r].ctx \in Contexts
  BY <1>1, <1>2 DEF CallFits
<1>4. context[request[r].ctx].known \subseteq Sessions
  BY <1>1, <1>3, CtxFields DEF HostTyped
<1>5. QED
  BY <1>1, <1>2, <1>3, <1>4, SameAdvances DEF CallFits

LEMMA RegistersKeeps ==
  ASSUME OpenCodeInv, NEW r \in Requests, Registers(r), UNCHANGED left
  PROVE  OpenCodeInv'
<1> DEFINE c == request[r].ctx
           K == context[c].known \cup {request[r].sid}
<1>1. /\ HostTyped /\ c \in Contexts /\ request[r].offs = switch.offs /\ c # 0
      /\ streams \subseteq Contexts \X Sessions /\ Advanced(context)
      /\ context[c].known \subseteq Sessions
      /\ request[r].op = "start" => request[r].sid \in Sessions /\ request[r].sid # 0
  BY ActedFacts DEF Registers
<1>2. Sets(r, Asks(request[r], "final")) /\ UNCHANGED streams /\ InContext
  BY DEF Registers
<1>3. Advanced(context')
  <2>1. CASE request[r].op = "use"
    <3>1. context' = context
      BY <2>1 DEF Registers
    <3>2. QED
      BY <1>1, <3>1
  <2>2. CASE request[r].op = "start"
    <3>1. context' = [context EXCEPT ![c].known = K]
      BY <1>1, <2>2 DEF Registers, HostTyped
    <3>2. K \in SUBSET Sessions
      BY <1>1, <2>2
    <3> HIDE DEF K, c
    <3>3. QED
      BY <1>1, <3>1, <3>2, KnownAdvances
  <2>3. QED
    BY <2>1, <2>2 DEF Registers
<1>4. QED
  BY <1>1, <1>2, <1>3, AskOutcome

\* The removal of a session from the context of a call.
LEMMA RemovesKeeps ==
  ASSUME OpenCodeInv, NEW r \in Requests, NEW then \in {"removed", "final"}, NEW s,
         Removes(r, s, then), InContext, UNCHANGED left,
         request[r].ctx \in Contexts, request[r].offs = switch.offs,
         request[r].op # "start"
  PROVE  OpenCodeInv'
<1> DEFINE c == request[r].ctx
           K == context[c].known \ {s}
<1>1. /\ HostTyped /\ streams \subseteq Contexts \X Sessions /\ Advanced(context) /\ c # 0
  BY CallFacts, SameAdvances DEF Contexts
<1>2. context[c].known \subseteq Sessions
  BY <1>1, CtxFields DEF HostTyped
<1>3. context' = [context EXCEPT ![c].known = K]
  BY <1>1 DEF Removes, HostTyped
<1>4. K \in SUBSET Sessions
  BY <1>2
<1>5. streams' \subseteq Contexts \X Sessions
  BY <1>1 DEF Removes, WithoutSession
<1>6. Sets(r, Asks(request[r], then))
  BY DEF Removes
<1> HIDE DEF K, c
<1>7. Advanced(context')
  <2>1. c \in Contexts
    BY DEF c
  <2>2. QED
    BY <1>1, <1>3, <1>4, <2>1, KnownAdvances
<1>8. QED
  BY <1>1, <1>5, <1>6, <1>7, AskOutcome DEF c

LEMMA DeletesKeeps ==
  ASSUME OpenCodeInv, NEW r \in Requests, Deletes(r), UNCHANGED left
  PROVE  OpenCodeInv'
<1>1. Past(r, "acted") /\ request[r].op # "start" /\ InContext
      /\ Removes(r, request[r].sid, "final")
  BY DEF Deletes
<1>2. request[r].ctx \in Contexts /\ request[r].offs = switch.offs
  BY <1>1, ActedFacts
<1>3. QED
  BY <1>1, <1>2, RemovesKeeps

LEMMA ListsKeeps ==
  ASSUME OpenCodeInv, NEW r \in Requests, Lists(r), UNCHANGED left
  PROVE  OpenCodeInv'
<1> DEFINE c == request[r].ctx
           K == context[c].known \cup request[r].ids
<1>1. /\ request[r].op # "start" /\ InContext
      /\ \/ Sets(r, Ends("failed")) /\ UNCHANGED <<context, streams>>
         \/ \E s \in context[c].known \ request[r].ids : Removes(r, s, "removed")
         \/ /\ context' = [context EXCEPT ![c].known = @ \cup request[r].ids]
            /\ Sets(r, Asks(request[r], "final")) /\ UNCHANGED streams
  BY DEF Lists
<1>2. \E then \in {"acted", "removed"} : Past(r, then)
  BY DEF Lists
<1>3. /\ HostTyped /\ c \in Contexts /\ request[r].offs = switch.offs /\ c # 0
      /\ streams \subseteq Contexts \X Sessions /\ Advanced(context)
      /\ context[c].known \subseteq Sessions
      /\ request[r].ids \subseteq Sessions
  BY <1>2, ActedFacts
<1>4. CASE Sets(r, Ends("failed")) /\ UNCHANGED <<context, streams>>
  <2>1. OldOrNone /\ disabled' \in BOOLEAN
    BY <1>1, <1>3, <1>4, StaysTo DEF InContext, HostTyped
  <2>2. QED
    BY <1>1, <1>3, <1>4, <2>1, EndOutcome DEF InContext
<1>5. CASE \E s \in context[c].known \ request[r].ids : Removes(r, s, "removed")
  BY <1>1, <1>3, <1>5, RemovesKeeps
<1>6. CASE /\ context' = [context EXCEPT ![c].known = @ \cup request[r].ids]
           /\ Sets(r, Asks(request[r], "final")) /\ UNCHANGED streams
  <2>1. context' = [context EXCEPT ![c].known = K]
    BY <1>3, <1>6 DEF HostTyped
  <2>2. K \in SUBSET Sessions
    BY <1>3
  <2>3. Advanced(context')
    <3> HIDE DEF K, c
    <3>1. QED
      BY <1>3, <2>1, <2>2, KnownAdvances
  <2>4. QED
    BY <1>1, <1>3, <1>6, <2>3, AskOutcome
<1>7. QED
  BY <1>1, <1>4, <1>5, <1>6

-----------------------------------------------------------------------------
(***************************************************************************)
(* The start of a new context.                                             *)
(***************************************************************************)
LEMMA NextNumber ==
  ASSUME OpenCodeInv, left.starts > 0
  PROVE  /\ NewContext \in Contexts /\ ~Used(NewContext)
         /\ \A c \in Contexts : Used(c) <=> c < NewContext
         /\ NewContext + (left.starts - 1) <= MaxContexts
         /\ active # 0 => active = NewContext - 1
<1>1. PICK n \in Nat : /\ \A c \in Contexts : Used(c) <=> c <= n
                       /\ n + left.starts <= MaxContexts
                       /\ active \in {0, n}
  BY DEF OpenCodeInv, Hosting, Counted
<1>2. left.starts \in Nat /\ MaxContexts \in Nat
  BY OpenCodeAssumption DEF OpenCodeInv, HostTyped
<1>3. {c \in Contexts : context[c].boot # "none"} = 1 .. n
  BY <1>1, <1>2 DEF Contexts, Used
<1>4. Cardinality(1 .. n) = n
  <2>1. Cardinality(1 .. n) = IF 1 > n THEN 0 ELSE n - 1 + 1
    BY <1>1, FS_Interval
  <2>2. QED
    BY <1>1, <2>1
<1>5. NewContext = n + 1
  BY <1>3, <1>4 DEF NewContext
<1>6. QED
  BY <1>1, <1>2, <1>5 DEF Contexts

LEMMA BeginsKeeps ==
  ASSUME OpenCodeInv, NEW r \in Requests, Begins(r)
  PROVE  OpenCodeInv'
<1> DEFINE n == NewContext
           y == [Fresh EXCEPT !.boot = "waiting", !.preds = Predecessors]
<1>1. /\ HostTyped /\ Hosting
      /\ Counted /\ InTurn /\ OneUp /\ EntryOwned /\ ServiceIsUp /\ StartsFit /\ DisposalFits
      /\ context \in [Contexts -> Ctx] /\ server \in [Contexts -> Servers]
      /\ gen \in Nat /\ active \in Numbers /\ entry \in Numbers
      /\ active # 0 => active \in Contexts
      /\ entry # 0 => entry \in Contexts
      /\ 0 \in Numbers /\ Contexts \subseteq Numbers /\ 0 \notin Contexts
  BY HostingParts
<1>2. /\ Past(r, "enter") /\ request[r].ctx = 0 /\ active = 0 /\ left.starts > 0
      /\ left' = [left EXCEPT !["starts"] = @ - 1]
      /\ active' = n /\ disabled' = FALSE
      /\ context' = [context EXCEPT ![n] = y]
      /\ Sets(r, [Moves(request[r], "booting") EXCEPT !.ctx = n])
      /\ UNCHANGED <<gen, streams, server, entry, disposal, switch, upstream>>
  BY DEF Begins, Spends
<1>3. request[r].offs = switch.offs /\ disposal = "no"
  BY <1>2, PastFacts
<1>4. /\ n \in Contexts /\ ~Used(n)
      /\ \A c \in Contexts : Used(c) <=> c < n
      /\ n + (left.starts - 1) <= MaxContexts
  BY <1>2, NextNumber
<1>5. left.starts \in Nat /\ left.starts - 1 \in Nat
      /\ left \in [calls : Nat, starts : Nat, updates : Nat]
  BY <1>1, <1>2 DEF HostTyped
<1>6. left' \in [calls : Nat, starts : Nat, updates : Nat] /\ left'.starts = left.starts - 1
  <2> DEFINE k == left.starts - 1
  <2>1. left' = [left EXCEPT !.starts = k]
    BY <1>2, <1>5
  <2>2. k \in Nat
    BY <1>5
  <2> HIDE DEF k
  <2>3. left' \in [calls : Nat, starts : Nat, updates : Nat] /\ left'.starts = k
    BY <1>5, <2>1, <2>2
  <2>4. QED
    BY <2>3 DEF k
<1>7. Fresh \in Ctx /\ Fresh.server = 0
  BY <1>1, NoGateIs DEF Fresh, Ctx, BootStages
<1>8. Predecessors \subseteq Contexts
  BY DEF Predecessors, Pending
<1>9. /\ y \in Ctx /\ y.boot = "waiting" /\ y.preds = Predecessors /\ y.server = 0
  <2> HIDE DEF Fresh, Predecessors
  <2>1. QED
    BY <1>7, <1>8 DEF Ctx, BootStages
<1> HIDE DEF y, n
<1>10. /\ context' \in [Contexts -> Ctx] /\ context'[n] = y
       /\ \A d \in Contexts : d # n => context'[d] = context[d]
  BY <1>1, <1>2, <1>4, <1>9, ContextReplaced
<1>11. \A d \in Contexts : d # n => (Used(d)' <=> Used(d)) /\ (IsPending(d)' <=> IsPending(d))
  BY <1>10 DEF Used, IsPending
<1>12. context'[n].boot # "none" /\ \A d \in Contexts : Used(d) => Used(d)'
  BY <1>4, <1>9, <1>10, <1>11 DEF Used
<1>13. Counted'
  <2>1. n \in Nat /\ \A c \in Contexts : Used(c)' <=> c <= n
    <3>1. n \in Nat
      BY <1>4 DEF Contexts
    <3>2. ASSUME NEW c \in Contexts PROVE Used(c)' <=> c <= n
      <4>1. CASE c = n
        BY <1>4, <1>9, <1>10, <4>1 DEF Used, Contexts
      <4>2. CASE c # n
        <5>1. Used(c)' <=> c < n
          BY <1>4, <1>11, <4>2
        <5>2. QED
          BY <3>1, <4>2, <5>1 DEF Contexts
      <4>3. QED
        BY <4>1, <4>2
    <3>3. QED
      BY <3>1, <3>2
  <2>2. n + left'.starts <= MaxContexts /\ active' = n
    BY <1>2, <1>4, <1>6
  <2>3. QED
    BY <2>1, <2>2 DEF Counted
<1>14. InTurn'
  <2> SUFFICES ASSUME NEW b \in Contexts, NEW d \in Contexts, IsPending(b)', Used(d)', b < d
               PROVE  context'[d].boot = "waiting" /\ b \in context'[d].preds
    BY DEF InTurn
  <2>1. CASE d = n
    <3>1. b # n
      BY <2>1 DEF Contexts
    <3>2. IsPending(b)
      BY <1>11, <3>1
    <3>3. b \in Predecessors
      BY <3>2 DEF Predecessors, Pending, IsPending, Settled
    <3>4. QED
      BY <1>9, <1>10, <2>1, <3>3
  <2>2. CASE d # n
    <3>1. Used(d) /\ d < n
      BY <1>4, <1>11, <2>2
    <3>2. b # n
      BY <3>1, <1>4 DEF Contexts
    <3>3. IsPending(b)
      BY <1>11, <3>2
    <3>4. QED
      BY <1>1, <1>10, <2>2, <3>1, <3>3 DEF InTurn
  <2>3. QED
    BY <2>1, <2>2
<1>15. OneUp' /\ DisposalFits'
  BY <1>1, <1>2, <1>3 DEF OneUp, DisposalFits
<1>16. EntryOwned'
  <2> SUFFICES ASSUME entry # 0
               PROVE  \E c \in Contexts :
                        context'[c].boot = "ensuring" /\ context'[c].target = entry
    BY <1>2 DEF EntryOwned
  <2>1. PICK c \in Contexts : context[c].boot = "ensuring" /\ context[c].target = entry
    BY <1>1, <1>2 DEF EntryOwned, InService
  <2>2. c # n
    BY <1>4, <2>1 DEF Used
  <2>3. QED
    BY <1>10, <2>1, <2>2
<1>17. ServiceIsUp'
  BY <1>2, <1>9, <1>10 DEF ServiceIsUp
<1>18. StartsFit'
  BY <1>1, <1>2, <1>9, <1>10 DEF StartsFit
<1>19. Hosting'
  BY <1>13, <1>14, <1>15, <1>16, <1>17, <1>18 DEF Hosting
<1> DEFINE q == request[r]
           m == Moves(q, "booting")
           z == [m EXCEPT !.ctx = n]
<1>20. q \in Req /\ CallFits(r)
  BY CallFacts
<1>21. /\ m \in Req /\ m.pc = "booting" /\ m.then = "none"
       /\ m.gate.seen = 0 /\ m.op = q.op /\ m.sid = q.sid /\ m.offs = q.offs
  BY <1>20, MovesIs
<1>22. Sets(r, z)
  BY <1>2
<1> HIDE DEF m
<1>23. n \in Numbers /\ n # 0
  BY <1>1, <1>4
<1>24. /\ z \in Req /\ z.pc = "booting" /\ z.then = "none"
       /\ z.gate.seen = 0 /\ z.op = q.op /\ z.sid = q.sid /\ z.offs = q.offs /\ z.ctx = n
  BY <1>21, <1>23 DEF Req
<1> HIDE DEF z
<1>25. /\ request' \in [Requests -> Req] /\ request'[r] = z
       /\ \A v \in Requests : v # r => request'[v] = request[v]
  BY <1>1, <1>22, <1>24, SetsTo
<1>26. CallFits(r)'
  <2>1. q.op \in Scoped => q.sid # 0
    BY <1>20 DEF CallFits
  <2>2. context'[z.ctx].boot # "none"
    BY <1>9, <1>10, <1>24
  <2>3. q.offs = switch.offs
    BY <1>3
  <2> HIDE DEF q
  <2>4. QED
    BY <1>1, <1>2, <1>23, <1>24, <1>25, <2>1, <2>2, <2>3 DEF CallFits, Used
<1>27. MovesOn
  BY <1>1, <1>2, <1>4, <1>12 DEF MovesOn
<1>28. CallsFit'
  <2> SUFFICES ASSUME NEW v \in Requests PROVE CallFits(v)'
    BY DEF CallsFit
  <2>1. CASE v = r
    BY <1>26, <2>1
  <2>2. CASE v # r
    BY <1>1, <1>25, <1>27, <2>2, CallKept, CallFacts
  <2>3. QED
    BY <2>1, <2>2
<1>29. HostTyped'
  BY <1>1, <1>2, <1>6, <1>10, <1>23, <1>25 DEF HostTyped
<1>30. OffIsLatched'
  BY <1>2 DEF OpenCodeInv, OffIsLatched
<1>31. QED
  BY <1>19, <1>28, <1>29, <1>30 DEF OpenCodeInv
-----------------------------------------------------------------------------
(***************************************************************************)
(* The invariant and what follows from it.                                 *)
(***************************************************************************)
LEMMA InitFits ==
  ASSUME BoundaryInit
  PROVE  OpenCodeInv
<1>1. Fresh \in Ctx /\ Fresh.server = 0 /\ Fresh.boot = "none"
  BY NoGateIs, OpenCodeAssumption DEF Fresh, Ctx, BootStages, Numbers
<1>2. /\ Uncalled \in Req /\ Uncalled.op = "none" /\ Uncalled.pc = "idle"
      /\ Uncalled.then = "none" /\ Uncalled.ctx = 0 /\ Uncalled.gate.seen = 0
  BY UncalledIs
<1> HIDE DEF Fresh, Uncalled
<1>3. /\ gen = 0 /\ active = 0 /\ entry = 0 /\ disabled = FALSE /\ disposal = "no" /\ streams = {}
      /\ context = [c \in Contexts |-> Fresh] /\ server = [c \in Contexts |-> "none"]
      /\ upstream = [live |-> {}, made |-> 0]
      /\ request = [r \in Requests |-> Uncalled] /\ left \in Bounds
      /\ switch = [file |-> TRUE, latch |-> FALSE, op |-> "none", offs |-> 0, off |-> FALSE]
  BY DEF BoundaryInit
<1>4. MaxContexts \in Nat /\ MaxSessions \in Nat /\ 0 \in Numbers
  BY OpenCodeAssumption DEF Numbers
<1>5. left \in [calls : Nat, starts : 0 .. MaxContexts, updates : Nat]
  BY <1>3, OpenCodeAssumption
<1>6. left \in [calls : Nat, starts : Nat, updates : Nat]
  BY <1>4, <1>5
<1>7. switch \in Switching /\ ~switch.off /\ switch.op = "none"
  BY <1>3 DEF Switching
<1>8. upstream \in Ups
  BY <1>3, <1>4 DEF Ups
<1>9. context \in [Contexts -> Ctx] /\ server \in [Contexts -> Servers] /\ request \in [Requests -> Req]
  BY <1>1, <1>2, <1>3 DEF Servers
<1>10. HostTyped
  BY <1>3, <1>4, <1>6, <1>7, <1>8, <1>9 DEF HostTyped
<1>11. \A c \in Contexts : context[c].boot = "none" /\ context[c].server = 0 /\ server[c] # "up"
  BY <1>1, <1>3
<1>12. Counted
  <2>1. 0 + left.starts <= MaxContexts
    BY <1>4, <1>5
  <2>2. \A c \in Contexts : ~Used(c) /\ ~(c <= 0)
    BY <1>4, <1>11 DEF Used, Contexts
  <2>3. QED
    BY <1>3, <2>1, <2>2 DEF Counted
<1>13. Hosting
  BY <1>3, <1>11, <1>12
     DEF Hosting, InTurn, OneUp, EntryOwned, ServiceIsUp, StartsFit, DisposalFits,
     Used, Contexts
<1>14. CallsFit
  BY <1>2, <1>3, <1>9 DEF CallsFit, CallFits, Scoped
<1>15. QED
  BY <1>7, <1>10, <1>13, <1>14 DEF OpenCodeInv, OffIsLatched

LEMMA StutterFits ==
  ASSUME OpenCodeInv, UNCHANGED boundaryVars
  PROVE  OpenCodeInv'
<1>1. HostTyped /\ Hosting /\ OffIsLatched /\ CallsFit
  BY DEF OpenCodeInv
<1> USE DEF boundaryVars
<1>2. HostTyped'
  BY <1>1 DEF HostTyped
<1>3. Counted' /\ InTurn' /\ OneUp' /\ EntryOwned' /\ ServiceIsUp' /\ StartsFit' /\ DisposalFits'
  <2>1. Counted /\ InTurn /\ OneUp /\ EntryOwned /\ ServiceIsUp /\ StartsFit /\ DisposalFits
    BY <1>1 DEF Hosting
  <2>2. Counted' /\ InTurn'
    BY <2>1 DEF Counted, InTurn, Used, IsPending
  <2>3. OneUp' /\ EntryOwned' /\ ServiceIsUp'
    BY <2>1 DEF OneUp, EntryOwned, InService, ServiceIsUp
  <2>4. StartsFit' /\ DisposalFits'
    BY <2>1 DEF StartsFit, DisposalFits, IsPending
  <2>5. QED
    BY <2>2, <2>3, <2>4
<1>4. OffIsLatched' /\ CallsFit'
  BY <1>1 DEF OffIsLatched, CallsFit, CallFits, Used
<1>5. QED
  BY <1>2, <1>3, <1>4 DEF OpenCodeInv, Hosting

LEMMA RequestStepKeeps ==
  ASSUME OpenCodeInv, NEW r \in Requests, RequestStep(r)
  PROVE  OpenCodeInv'
  BY BeginsKeeps, GateFailsKeeps, StopsKeeps, SubscribesKeeps, EntersKeeps, BootsKeeps,
     AbortsKeeps, ActsKeeps, UpstreamKeeps, UpstreamFailsKeeps, AnsweredKeeps, RegistersKeeps,
     DeletesKeeps, ListsKeeps, FinishesKeeps
     DEF RequestStep

LEMMA NextFits ==
  ASSUME OpenCodeInv, [BoundaryNext]_boundaryVars
  PROVE  OpenCodeInv'
<1>1. ASSUME NEW r \in Requests, NEW op \in Operations, NEW s \in 0 .. MaxSessions, Call(r,
             op, s)
      PROVE  OpenCodeInv'
  BY <1>1, CallKeeps
<1>2. ASSUME NEW r \in Requests, RequestStep(r) PROVE OpenCodeInv'
  BY <1>2, RequestStepKeeps
<1>3. ASSUME NEW c \in Contexts, BootStep(c) PROVE OpenCodeInv'
  BY <1>3, EnsuresKeeps, EnsuredKeeps, EnsureFailsKeeps, CleanedKeeps, BootGateKeeps,
     BusStartsKeeps DEF BootStep
<1>4. ASSUME NEW c \in Contexts, ServerStep(c) PROVE OpenCodeInv'
  BY <1>4, BusFailsKeeps, ServerExitsKeeps DEF ServerStep
<1>5. ASSUME SwitchStep PROVE OpenCodeInv'
  BY <1>5, NotifiesKeeps, WritesOffKeeps, WritesOnKeeps DEF SwitchStep
<1>6. ASSUME HostStep PROVE OpenCodeInv'
  BY <1>6, MonitorKeeps, DisposeKeeps, DisposedKeeps DEF HostStep
<1>7. QED
  BY <1>1, <1>2, <1>3, <1>4, <1>5, <1>6, UpdatesKeeps, FileChangesKeeps, StutterFits
     DEF BoundaryNext

\* The numbering of the contexts, the singleton server and its owner, and the view a call
\* has of the switch hold in every reachable state, for any number of calls, contexts and
\* sessions (opencode-boundary.mjs, gate, retire and revoke).
THEOREM OpenCodeInvariant == BoundarySpec => []OpenCodeInv
<1>1. BoundaryInit => OpenCodeInv
  BY InitFits
<1>2. OpenCodeInv /\ [BoundaryNext]_boundaryVars => OpenCodeInv'
  BY NextFits
<1>3. QED
  BY <1>1, <1>2, PTL DEF BoundarySpec

LEMMA InvariantIsTyped ==
  ASSUME OpenCodeInv
  PROVE  BoundaryTypeOK
<1>1. HostTyped
  BY DEF OpenCodeInv
<1>2. ASSUME NEW c \in Contexts
      PROVE  /\ context[c].boot \in BootStages /\ context[c].known \subseteq Sessions
             /\ context[c].target \in Numbers /\ context[c].server \in Numbers
             /\ server[c] \in Servers
  BY <1>1, CtxFields DEF HostTyped
<1>3. ASSUME NEW r \in Requests
      PROVE  /\ request[r].op \in Operations \cup {"none"}
             /\ request[r].pc \in {"idle", "gate", "booting", "acting", "answered", "ok",
                                   "failed"}
  BY <1>1, ReqFields DEF HostTyped
<1>4. switch.op \in {"none", "off", "offWrite", "on"}
  BY <1>1, SwitchFields DEF HostTyped
<1>5. upstream.live \subseteq 1 .. upstream.made /\ upstream.made <= MaxSessions
  BY <1>1, OpenCodeAssumption DEF HostTyped, Ups
<1>6. QED
  BY <1>1, <1>2, <1>3, <1>4, <1>5 DEF BoundaryTypeOK, HostTyped, Numbers, BootStages, Servers

\* The boundary's state keeps its types.
THEOREM OpenCodeTypeCorrect == BoundarySpec => []BoundaryTypeOK
<1>1. OpenCodeInv => BoundaryTypeOK
  BY InvariantIsTyped
<1>2. QED
  BY <1>1, OpenCodeInvariant, PTL

LEMMA InvariantOwns ==
  ASSUME OpenCodeInv
  PROVE  ServersAreOwned
<1>1. /\ OneUp /\ EntryOwned /\ ServiceIsUp /\ DisposalFits /\ 0 \notin Contexts
  BY HostingParts
<1>2. ASSUME NEW s \in Contexts, server[s] = "up"
      PROVE  \/ active # 0 /\ context[active].server = s
             \/ \E c \in Contexts : context[c].boot = "ensuring" /\ context[c].target = s
  <2>1. entry = s /\ entry # 0
    BY <1>1, <1>2 DEF OneUp
  <2>2. QED
    BY <1>1, <2>1 DEF EntryOwned, InService
<1>3. ASSUME disposal = "done", NEW s \in Contexts, server[s] = "up" PROVE FALSE
  <2>1. active = 0 /\ \A c \in Contexts : context[c].boot # "ensuring"
    BY <1>1, <1>3 DEF DisposalFits, IsPending
  <2>2. QED
    BY <1>2, <1>3, <2>1
<1>4. QED
  BY <1>1, <1>2, <1>3 DEF ServersAreOwned, ServiceIsUp

\* A server that nobody has told to end is the one in service or one a start waits for, the
\* server in service has not been told to end, and a disposal leaves none, for any number of
\* contexts retired while they start (opencode-boundary.mjs, cleanupInfo, retire and
\* dispose): all this but for the strays, whose process could not be recorded and which
\* startOpencodeServer gives up alive.
THEOREM NoServerIsLost == BoundarySpec => []ServersAreOwned
<1>1. OpenCodeInv => ServersAreOwned
  BY InvariantOwns
<1>2. QED
  BY <1>1, OpenCodeInvariant, PTL

-----------------------------------------------------------------------------
(***************************************************************************)
(* Off is off.                                                             *)
(***************************************************************************)
\* The two halves of OffIsOff.
EndsWell(r) ==
  request[r].pc # "ok" /\ request'[r].pc = "ok" /\ request[r].op # "stop" =>
    ~switch.off /\ request[r].offs = switch.offs

NoneBegins == switch.off => active' \in {0, active}

LEMMA SameCalls ==
  ASSUME UNCHANGED request
  PROVE  \A r \in Requests : EndsWell(r)
  BY DEF EndsWell

LEMMA SetCall ==
  ASSUME OpenCodeInv, NEW r \in Requests, NEW q, Sets(r, q),
         q.pc = "ok" /\ request[r].op # "stop" =>
            ~switch.off /\ request[r].offs = switch.offs
  PROVE  \A v \in Requests : EndsWell(v)
<1>1. request \in [Requests -> Req]
  BY DEF OpenCodeInv, HostTyped
<1>2. request'[r] = q /\ \A v \in Requests : v # r => request'[v] = request[v]
  BY <1>1 DEF Sets
<1>3. QED
  BY <1>2 DEF EndsWell

LEMMA AskIsNoEnd ==
  ASSUME OpenCodeInv, NEW r \in Requests, NEW q \in Req, NEW then, Sets(r, Asks(q, then))
  PROVE  \A v \in Requests : EndsWell(v)
<1>1. Asks(q, then).pc = "gate"
  BY DEF Asks, Req
<1>2. QED
  BY <1>1, SetCall

LEMMA FailIsNoEnd ==
  ASSUME OpenCodeInv, NEW r \in Requests, Sets(r, Ends("failed"))
  PROVE  \A v \in Requests : EndsWell(v)
<1>1. Ends("failed").pc = "failed"
  BY EndsIs
<1>2. QED
  BY <1>1, SetCall

LEMMA PassedEnd ==
  ASSUME OpenCodeInv, NEW r \in Requests, NEW then, Past(r, then), Sets(r, Ends("ok"))
  PROVE  \A v \in Requests : EndsWell(v)
<1>1. ~switch.off /\ request[r].offs = switch.offs
  BY PastFacts
<1>2. QED
  BY <1>1, SetCall

LEMMA MoveIsNoEnd ==
  ASSUME OpenCodeInv, NEW r \in Requests, NEW q \in Req, NEW pc \in {"booting", "acting"},
         NEW c, \/ Sets(r, Moves(q, pc))
                \/ Sets(r, [Moves(q, pc) EXCEPT !.ctx = c])
  PROVE  \A v \in Requests : EndsWell(v)
<1> DEFINE y == Moves(q, pc)
           z == [y EXCEPT !.ctx = c]
<1>1. y \in Req /\ y.pc = pc
  BY MovesIs
<1>2. Sets(r, y) \/ Sets(r, z)
  OBVIOUS
<1> HIDE DEF y
<1>3. z.pc = pc
  BY <1>1 DEF Req
<1> HIDE DEF z
<1>4. QED
  BY <1>1, <1>2, <1>3, SetCall

LEMMA RetiresOrStays ==
  /\ \A cx : Revoked(cx) => active' \in {0, active}
  /\ \A c, cx : Retires(c, cx) => active' \in {0, active}
  /\ \A c, cx : RetiresIfCurrent(c, cx) => active' \in {0, active}
  BY DEF Revoked, Retires, RetiresIfCurrent, Unretired

LEMMA RequestStepEndsWell ==
  ASSUME OpenCodeInv, NEW r \in Requests, RequestStep(r)
  PROVE  (\A v \in Requests : EndsWell(v)) /\ NoneBegins
<1> USE DEF NoneBegins
<1>1. request[r] \in Req
  BY CallFacts
<1>2. CASE Begins(r)
  <2>1. Past(r, "enter")
    BY <1>2 DEF Begins
  <2>2. ~switch.off
    BY <2>1, PastFacts
  <2>3. QED
    BY <1>1, <1>2, <2>2, MoveIsNoEnd DEF Begins
<1>3. CASE GateFails(r)
  BY <1>3, FailIsNoEnd, RetiresOrStays DEF GateFails, Unretired
<1>4. CASE Stops(r)
  <2>1. request[r].op = "stop"
    BY <1>4 DEF Stops
  <2>2. QED
    BY <1>4, <2>1, SetCall, RetiresOrStays DEF Stops
<1>5. CASE Subscribes(r)
  BY <1>5, FailIsNoEnd, PassedEnd DEF Subscribes, InContext
<1>6. CASE Enters(r)
  BY <1>1, <1>6, FailIsNoEnd, MoveIsNoEnd DEF Enters, Quietly, Unretired
<1>7. CASE Boots(r) \/ Answered(r)
  BY <1>1, <1>7, AskIsNoEnd DEF Boots, Answered, Quietly, Unretired
<1>8. CASE Aborts(r)
  BY <1>8, FailIsNoEnd DEF Aborts, Quietly, Unretired
<1>9. CASE Acts(r)
  BY <1>1, <1>9, FailIsNoEnd, MoveIsNoEnd DEF Acts, Quietly, Unretired
<1>10. CASE Upstream(r)
  <2> DEFINE q == request[r]
  <2> HIDE DEF q
  <2>1. \E z : Sets(r, z) /\ z.pc = "answered"
    <3>1. q \in Req
      BY <1>1 DEF q
    <3>2. \A n, ids : /\ [q EXCEPT !.pc = "answered", !.sid = n].pc = "answered"
                      /\ [q EXCEPT !.pc = "answered", !.ids = ids].pc = "answered"
                      /\ [q EXCEPT !.pc = "answered"].pc = "answered"
      BY <3>1 DEF Req
    <3>3. CASE q.op = "start"
      BY <1>10, <3>2, <3>3 DEF Upstream, q
    <3>4. CASE q.op = "list"
      BY <1>10, <3>2, <3>4 DEF Upstream, q
    <3>5. CASE q.op \notin {"start", "list"}
      BY <1>10, <3>2, <3>5 DEF Upstream, q
    <3>6. QED
      BY <3>3, <3>4, <3>5
  <2>2. QED
    BY <1>10, <2>1, SetCall DEF Upstream, Unretired
<1>11. CASE UpstreamFails(r)
  BY <1>11, FailIsNoEnd, RetiresOrStays DEF UpstreamFails
<1>12. CASE Registers(r)
  BY <1>1, <1>12, AskIsNoEnd DEF Registers, InContext
<1>13. CASE Deletes(r)
  BY <1>1, <1>13, AskIsNoEnd DEF Deletes, Removes, InContext
<1>14. CASE Lists(r)
  BY <1>1, <1>14, AskIsNoEnd, FailIsNoEnd DEF Lists, Removes, InContext
<1>15. CASE Finishes(r)
  BY <1>15, PassedEnd DEF Finishes, Quietly, Unretired
<1>16. QED
  BY <1>2, <1>3, <1>4, <1>5, <1>6, <1>7, <1>8, <1>9, <1>10, <1>11, <1>12, <1>13, <1>14, <1>15
     DEF RequestStep

LEMMA StepEndsWell ==
  ASSUME OpenCodeInv, [BoundaryNext]_boundaryVars
  PROVE  (\A v \in Requests : EndsWell(v)) /\ NoneBegins
<1> USE DEF NoneBegins
<1>1. ASSUME NEW r \in Requests, NEW op \in Operations, NEW s \in 0 .. MaxSessions, Call(r,
             op, s)
      PROVE  (\A v \in Requests : EndsWell(v)) /\ NoneBegins
  <2> DEFINE y == [Uncalled EXCEPT !.op = op, !.sid = s, !.ctx = active, !.offs = switch.offs]
  <2>1. /\ Uncalled \in Req /\ active \in Numbers /\ switch.offs \in Nat
    BY UncalledIs, SwitchFields DEF OpenCodeInv, HostTyped
  <2> HIDE DEF Uncalled
  <2>2. y \in Req
    BY <2>1 DEF Req
  <2>3. Sets(r, Asks(y, "enter")) /\ active' = active
    BY <1>1 DEF Call
  <2> HIDE DEF y
  <2>4. QED
    BY <2>2, <2>3, AskIsNoEnd
<1>2. ASSUME NEW r \in Requests, RequestStep(r)
      PROVE  (\A v \in Requests : EndsWell(v)) /\ NoneBegins
  BY <1>2, RequestStepEndsWell
<1>3. ASSUME NEW c \in Contexts, BootStep(c)
      PROVE  (\A v \in Requests : EndsWell(v)) /\ NoneBegins
  <2>1. UNCHANGED request
    BY <1>3 DEF BootStep, Ensures, Ensured, EnsureFails, Cleaned, BootGate, BusStarts
  <2>2. active' \in {0, active}
    BY <1>3, RetiresOrStays DEF BootStep, Ensures, Ensured, EnsureFails, Cleaned, BootGate,
       BusStarts, Unretired
  <2>3. QED
    BY <2>1, <2>2, SameCalls
<1>4. ASSUME NEW c \in Contexts, ServerStep(c)
      PROVE  (\A v \in Requests : EndsWell(v)) /\ NoneBegins
  BY <1>4, SameCalls, RetiresOrStays DEF ServerStep, BusFails, ServerExits
<1>5. ASSUME SwitchStep \/ FileChanges \/ \E to \in {"on", "off"} : Updates(to)
      PROVE  (\A v \in Requests : EndsWell(v)) /\ NoneBegins
  BY <1>5, SameCalls, RetiresOrStays
     DEF SwitchStep, Notifies, WritesOff, WritesOn, FileChanges,
     Updates, Switches, Revokes, Elsewhere, Unretired
<1>6. ASSUME HostStep
      PROVE  (\A v \in Requests : EndsWell(v)) /\ NoneBegins
  BY <1>6, SameCalls, RetiresOrStays DEF HostStep, Monitor, Dispose, Disposed, Unretired
<1>7. ASSUME UNCHANGED boundaryVars
      PROVE  (\A v \in Requests : EndsWell(v)) /\ NoneBegins
  BY <1>7, SameCalls DEF boundaryVars
<1>8. QED
  BY <1>1, <1>2, <1>3, <1>4, <1>5, <1>6, <1>7 DEF BoundaryNext

\* No call under way when local execution is switched off ends well, nor one made while it
\* is off, and no context begins meanwhile (opencode-boundary.mjs, gate, with the update of
\* the switch in addon-delegation-service.mjs).
THEOREM OffStaysOff == BoundarySpec => OffIsOff
<1>1. OpenCodeInv /\ [BoundaryNext]_boundaryVars =>
        [/\ \A r \in Requests :
              request[r].pc # "ok" /\ request'[r].pc = "ok" /\ request[r].op # "stop" =>
                ~ switch.off /\ request[r].offs = switch.offs
         /\ switch.off => active' \in {0, active}]_boundaryVars
  BY StepEndsWell DEF EndsWell, NoneBegins
<1>2. QED
  BY <1>1, OpenCodeInvariant, PTL DEF BoundarySpec, OffIsOff
=============================================================================
