------------------------------ MODULE DshRuntime ------------------------------
(***************************************************************************)
(* The native DSH runtime of the host (dsh-runtime.mjs): one child process *)
(* for all sessions, started by the first lease, stopped with the last,    *)
(* behind a lock file in its home.  An epoch is one start of the child.    *)
(*                                                                         *)
(* Every await of the start-up and of the stop is a step of its own; the   *)
(* clock only decides which timer ends.  The host may be killed at any     *)
(* point: the lock and the child stay behind.                              *)
(***************************************************************************)
EXTENDS Naturals, FiniteSets

CONSTANTS Leasers,    \* the callers of acquire
          MaxEpochs,  \* bound: starts of the child
          MaxLives    \* bound: restarts of the host

ASSUME DshAssumption == MaxEpochs \in Nat \ {0} /\ MaxLives \in Nat

Epochs == 1 .. MaxEpochs

VARIABLES epoch,    \* the record of each epoch
          current,  \* the epoch in service, or 0
          lease,    \* what each caller of acquire has
          homeLock, \* the epoch that wrote the lock file, or 0
          blocked,  \* an exit could not be confirmed
          closing,  \* close() of the runtime
          dshSpent  \* the epochs so far, those of former lives, and the lives

dshVars == <<epoch, current, lease, homeLock, blocked, closing, dshSpent>>

Phases == {"none", "validating", "locking", "homing", "unlocking", "reserving", "verifying",
           "spawned", "announced", "ended"}
StopStages  == {"none", "cancelling", "terminating", "killing", "releasing", "done"}
Away   == [state |-> "away", epoch |-> 0]

DshInit ==
  /\ epoch = [e \in Epochs |-> [phase |-> "none", fenced |-> FALSE, stop |-> "none",
                                child |-> "none", home |-> FALSE, ready |-> FALSE]]
  /\ current = 0 /\ homeLock = 0 /\ blocked = FALSE /\ closing = "open"
  /\ lease = [c \in Leasers |-> Away]
  /\ dshSpent = [epochs |-> 0, lives |-> 0]

Clients(e) == {c \in Leasers : lease[c].epoch = e /\ lease[c].state \in {"joined", "held"}}

\* The check every continuation makes: a fenced epoch goes no further.  Mutant: it
\* only asks whether the epoch is the current one.
Active_Bug(e) == current = e /\ Clients(e) # {}
Active(e) == current = e /\ ~ epoch[e].fenced /\ closing = "open" /\ Clients(e) # {}

----------------------------------------------------------------------------
(* The stop of an epoch: fenced at once, then cleaned up in phases. *)

FirstPhase(r) == CASE r.child = "live" -> "cancelling"
                   [] r.child = "lost" -> "terminating"
                   [] OTHER -> "releasing"

Fence(r) == IF r.stop # "none" THEN r
            ELSE [r EXCEPT !.fenced = TRUE, !.stop = FirstPhase(r)]

\* The signal of the epoch ends the leases on it, the first time it is stopped.  Mutant:
\* it is not fired.
FencedLeases_Bug(e) == lease
FencedLeases(e) == IF epoch[e].stop # "none" THEN lease
                   ELSE [c \in Leasers |-> IF c \in Clients(e) THEN Away ELSE lease[c]]

StopEpoch(e, r) == epoch' = [epoch EXCEPT ![e] = Fence(r)] /\ lease' = FencedLeases(e)

StopGoes(e, stage) == epoch' = [epoch EXCEPT ![e].stop = stage]

\* beforeStop has ended, or its second is over: SIGTERM, unless the child is gone.
Cancelled(e) ==
  /\ epoch[e].stop = "cancelling"
  /\ StopGoes(e, IF epoch[e].child = "live" THEN "terminating" ELSE "releasing")
  /\ UNCHANGED <<current, lease, homeLock, blocked, closing, dshSpent>>

\* The child has exited, or its second is over: SIGKILL.
Terminated(e) ==
  /\ epoch[e].stop = "terminating"
  /\ StopGoes(e, IF epoch[e].child = "exited" THEN "releasing" ELSE "killing")
  /\ UNCHANGED <<current, lease, homeLock, blocked, closing, dshSpent>>

\* The last second is over: without a confirmed exit the lock stays.  Mutant: the home
\* is released all the same.
Killed_Bug(e) ==
  /\ epoch[e].stop = "killing"
  /\ StopGoes(e, "releasing")
  /\ UNCHANGED <<current, lease, homeLock, blocked, closing, dshSpent>>
Killed(e) ==
  /\ epoch[e].stop = "killing"
  /\ IF epoch[e].child = "exited"
       THEN StopGoes(e, "releasing") /\ UNCHANGED blocked
       ELSE StopGoes(e, "done") /\ blocked' = TRUE
  /\ UNCHANGED <<current, lease, homeLock, closing, dshSpent>>

\* The lock file of the home is removed, and the epoch retired; or the file cannot be
\* removed, and the runtime is blocked like after an exit nobody confirmed.
ReleasesHome(e) ==
  /\ epoch[e].stop = "releasing"
  /\ \/ /\ homeLock' = IF epoch[e].home THEN 0 ELSE homeLock
        /\ current' = IF current = e THEN 0 ELSE current
        /\ epoch' = [epoch EXCEPT ![e].stop = "done", ![e].home = FALSE]
        /\ UNCHANGED blocked
     \/ /\ epoch[e].home /\ StopGoes(e, "done") /\ blocked' = TRUE
        /\ UNCHANGED <<homeLock, current>>
  /\ UNCHANGED <<lease, closing, dshSpent>>

----------------------------------------------------------------------------
(* acquire, and the lease it returns. *)

\* A caller takes part in the epoch in service, or begins one.  Mutant: the epoch's
\* number is one too high.
Begun_Bug == dshSpent.epochs + 2
Begun == dshSpent.epochs + 1

Join(c) ==
  IF current # 0
    THEN /\ lease' = [lease EXCEPT ![c] = [state |-> "joined", epoch |-> current]]
         /\ UNCHANGED <<epoch, current, dshSpent>>
    ELSE /\ dshSpent.epochs < MaxEpochs
         /\ epoch' = [e \in Epochs \cup {Begun} |->
                        IF e = Begun THEN [phase |-> "validating", fenced |-> FALSE,
                                           stop |-> "none", child |-> "none",
                                           home |-> FALSE, ready |-> FALSE]
                                     ELSE epoch[e]]
         /\ current' = Begun
         /\ lease' = [lease EXCEPT ![c] = [state |-> "joined", epoch |-> Begun]]
         /\ dshSpent' = [dshSpent EXCEPT !.epochs = @ + 1]

Acquire(c) ==
  /\ lease[c] = Away /\ closing = "open" /\ ~ blocked
  /\ IF current # 0 /\ epoch[current].stop # "none"
       THEN /\ lease' = [lease EXCEPT ![c] = [state |-> "queued", epoch |-> current]]
            /\ UNCHANGED <<epoch, current, dshSpent>>
       ELSE Join(c)
  /\ UNCHANGED <<homeLock, blocked, closing>>

\* The stop a caller waited for is over; it does not look whether another has begun.
\* A caller whose own signal has fired meanwhile leaves.
StopAwaited(c) ==
  /\ lease[c].state = "queued" /\ epoch[lease[c].epoch].stop = "done"
  /\ \/ closing = "open" /\ ~ blocked /\ Join(c)
     \/ /\ lease' = [lease EXCEPT ![c] = Away]
        /\ UNCHANGED <<epoch, current, dshSpent>>
  /\ UNCHANGED <<homeLock, blocked, closing>>

Granted(c) ==
  /\ lease[c].state = "joined" /\ epoch[lease[c].epoch].phase = "announced"
  /\ Active(lease[c].epoch)
  /\ lease' = [lease EXCEPT ![c].state = "held"]
  /\ UNCHANGED <<epoch, current, homeLock, blocked, closing, dshSpent>>

\* The start ended without a runtime, for one who joined too late to see the fence.
Refused(c) ==
  /\ lease[c].state = "joined"
  /\ LET r == epoch[lease[c].epoch]
     IN  \/ r.phase = "ended" /\ r.stop = "done"
         \/ r.phase = "announced" /\ ~ Active(lease[c].epoch)
  /\ lease' = [lease EXCEPT ![c] = Away]
  /\ UNCHANGED <<epoch, current, homeLock, blocked, closing, dshSpent>>

\* A caller aborts or releases its lease; the last one stops the child.
LastOf(c) == Clients(lease[c].epoch) = {c}

Leave(c) ==
  /\ lease[c].state \in {"joined", "held"}
  /\ LET e == lease[c].epoch
     IN  IF LastOf(c) THEN /\ epoch' = [epoch EXCEPT ![e] = Fence(epoch[e])]
                           /\ lease' = [FencedLeases(e) EXCEPT ![c] = Away]
         ELSE lease' = [lease EXCEPT ![c] = Away] /\ UNCHANGED epoch
  /\ UNCHANGED <<current, homeLock, blocked, closing, dshSpent>>

\* ready() of a lease: the start has no deadline any more.
Ready(c) ==
  /\ lease[c].state = "held" /\ Active(lease[c].epoch) /\ ~ epoch[lease[c].epoch].ready
  /\ epoch' = [epoch EXCEPT ![lease[c].epoch].ready = TRUE]
  /\ UNCHANGED <<current, lease, homeLock, blocked, closing, dshSpent>>

\* fail() of a lease.
Fail(c) ==
  /\ lease[c].state = "held"
  /\ StopEpoch(lease[c].epoch, epoch[lease[c].epoch])
  /\ UNCHANGED <<current, homeLock, blocked, closing, dshSpent>>

----------------------------------------------------------------------------
(* The start of an epoch. *)

PhaseGoes(e, phase) == epoch' = [epoch EXCEPT ![e].phase = phase] /\ UNCHANGED lease
StartFails(e) == StopEpoch(e, [epoch[e] EXCEPT !.phase = "ended"])

Validated(e) ==
  /\ epoch[e].phase = "validating"
  /\ \/ Active(e) /\ PhaseGoes(e, "locking")
     \/ StartFails(e)
  /\ UNCHANGED <<current, homeLock, blocked, closing, dshSpent>>

\* prepareDshHome: the lock is created, never taken over.  One that could not be
\* written stays.
TakesLock(e) ==
  /\ epoch[e].phase = "locking"
  /\ \/ homeLock = 0 /\ homeLock' = e /\ (PhaseGoes(e, "homing") \/ StartFails(e))
     \/ StartFails(e) /\ UNCHANGED homeLock
  /\ UNCHANGED <<current, blocked, closing, dshSpent>>

\* The rest of the home is ready, or is not; who was fenced meanwhile gives the lock back.
Homed(e) ==
  /\ epoch[e].phase = "homing"
  /\ \/ /\ Active(e)
        /\ epoch' = [epoch EXCEPT ![e].phase = "reserving", ![e].home = TRUE]
        /\ UNCHANGED lease
     \/ PhaseGoes(e, "unlocking")
  /\ UNCHANGED <<current, homeLock, blocked, closing, dshSpent>>

Unlocks(e) ==
  /\ epoch[e].phase = "unlocking"
  /\ homeLock' \in {0, homeLock} /\ StartFails(e)
  /\ UNCHANGED <<current, blocked, closing, dshSpent>>

Reserved(e) ==
  /\ epoch[e].phase = "reserving"
  /\ \/ Active(e) /\ PhaseGoes(e, "verifying")
     \/ StartFails(e)
  /\ UNCHANGED <<current, homeLock, blocked, closing, dshSpent>>

\* The home is still the same directory: spawn.  A child that could not be started has
\* no exit event.
Spawns(e) ==
  /\ epoch[e].phase = "verifying"
  /\ \/ /\ Active(e)
        /\ \E child \in {"live", "lost"} :
             epoch' = [epoch EXCEPT ![e].phase = "spawned", ![e].child = child]
        /\ UNCHANGED lease
     \/ StartFails(e)
  /\ UNCHANGED <<current, homeLock, blocked, closing, dshSpent>>

Announces(e) ==
  /\ epoch[e].phase = "spawned" /\ epoch[e].child = "live" /\ Active(e)
  /\ PhaseGoes(e, "announced")
  /\ UNCHANGED <<current, homeLock, blocked, closing, dshSpent>>

\* The announcement is malformed, the stream ends, or the fence has rejected the wait.
AnnouncementFails(e) ==
  /\ epoch[e].phase = "spawned" /\ StartFails(e)
  /\ UNCHANGED <<current, homeLock, blocked, closing, dshSpent>>

\* The timer of 30 seconds.  Mutant: the spawn clears it.
Unready_Bug(e) == ~ epoch[e].ready /\ epoch[e].child = "none"
Unready(e) == ~ epoch[e].ready

Deadline(e) ==
  /\ epoch[e].phase # "none" /\ Unready(e) /\ epoch[e].stop = "none"
  /\ StopEpoch(e, epoch[e])
  /\ UNCHANGED <<current, homeLock, blocked, closing, dshSpent>>

ChildExits(e) ==
  /\ epoch[e].child = "live"
  /\ LET r == [epoch[e] EXCEPT !.child = "exited"]
     IN  IF current = e THEN StopEpoch(e, r)
         ELSE epoch' = [epoch EXCEPT ![e] = r] /\ UNCHANGED lease
  /\ UNCHANGED <<current, homeLock, blocked, closing, dshSpent>>

----------------------------------------------------------------------------
(* The end of the host. *)

Close ==
  /\ closing = "open" /\ closing' = "closing"
  /\ IF current = 0 THEN UNCHANGED <<epoch, lease>> ELSE StopEpoch(current, epoch[current])
  /\ UNCHANGED <<current, homeLock, blocked, dshSpent>>

\* close() waits for the stops, not for the starts.
Closed ==
  /\ closing = "closing" /\ \A e \in Epochs : epoch[e].stop \in {"none", "done"}
  /\ closing' = "closed"
  /\ UNCHANGED <<epoch, current, lease, homeLock, blocked, dshSpent>>

\* The host exits or is killed, and another one starts: what is left is the lock and
\* the child.
HostRestarts ==
  /\ dshSpent.lives < MaxLives
  /\ epoch' = [e \in Epochs |-> IF epoch[e].phase = "none" THEN epoch[e]
                 ELSE [epoch[e] EXCEPT !.phase = "ended", !.fenced = TRUE, !.stop = "done",
                                       !.home = FALSE]]
  /\ current' = 0 /\ lease' = [c \in Leasers |-> Away]
  /\ blocked' = FALSE /\ closing' = "open"
  /\ dshSpent' = [dshSpent EXCEPT !.lives = @ + 1]
  /\ UNCHANGED homeLock

StartStep(e) == \/ Validated(e) \/ TakesLock(e) \/ Homed(e) \/ Unlocks(e) \/ Reserved(e)
                \/ Spawns(e)
StopStep(e)  == Cancelled(e) \/ Terminated(e) \/ Killed(e) \/ ReleasesHome(e)

DshNext ==
  \/ \E c \in Leasers : \/ Acquire(c) \/ StopAwaited(c) \/ Granted(c) \/ Refused(c)
                        \/ Leave(c) \/ Ready(c) \/ Fail(c)
  \/ \E e \in Epochs : \/ StartStep(e) \/ StopStep(e) \/ Announces(e)
                       \/ AnnouncementFails(e) \/ Deadline(e) \/ ChildExits(e)
  \/ Close \/ Closed \/ HostRestarts

DshSpec == DshInit /\ [][DshNext]_dshVars

\* File system calls and timers end, and a settled promise resumes who awaits it.
\* Nothing is asked of the child: it may hang before and after the announcement.
DshFairness ==
  /\ \A e \in Epochs : /\ WF_dshVars(StartStep(e)) /\ WF_dshVars(StopStep(e))
                       /\ WF_dshVars(Deadline(e))
                       /\ WF_dshVars(epoch[e].fenced /\ AnnouncementFails(e))
  /\ \A c \in Leasers : WF_dshVars(StopAwaited(c) \/ Granted(c) \/ Refused(c))
DshFairSpec == DshSpec /\ DshFairness

----------------------------------------------------------------------------
(* Properties. *)

DshTypeOK ==
  /\ epoch \in [Epochs -> [phase : Phases, fenced : BOOLEAN, stop : StopStages, home : BOOLEAN,
                           child : {"none", "live", "lost", "exited"}, ready : BOOLEAN]]
  /\ current \in 0 .. MaxEpochs /\ homeLock \in 0 .. MaxEpochs
  /\ lease \in [Leasers -> [state : {"away", "queued", "joined", "held"},
                            epoch : 0 .. MaxEpochs]]
  /\ blocked \in BOOLEAN /\ closing \in {"open", "closing", "closed"}
  /\ dshSpent \in [epochs : 0 .. MaxEpochs, lives : 0 .. MaxLives]

\* A live child has its home locked, whatever stopped it, timed out or crashed: so a
\* second child never runs on the same home, not even in the next life of the host.
ChildrenHoldTheHome == \A e \in Epochs : epoch[e].child = "live" => homeLock = e

\* A lease that has not been told otherwise is on the epoch in service, and that epoch
\* has been announced and is not being stopped.
HeldLeasesAreServed ==
  \A c \in Leasers : lease[c].state = "held" =>
    /\ lease[c].epoch = current
    /\ epoch[current].phase = "announced" /\ epoch[current].stop = "none"

\* After the fence of an epoch its start brings nothing about any more: no child is
\* spawned for it, it is not announced, and no lease on it is granted.
FencedStaysDown ==
  [][\A e \in Epochs : epoch[e].fenced =>
       /\ epoch[e].child = "none" => epoch'[e].child = "none"
       /\ epoch'[e].phase = "announced" => epoch[e].phase = "announced"
       /\ \A c \in Leasers : lease'[c] = [state |-> "held", epoch |-> e] => lease'[c] = lease[c]
    ]_dshVars

\* Every acquire settles, with a lease or an error, though the child hangs.
AcquireSettles ==
  \A c \in Leasers : lease[c].state \in {"queued", "joined"} ~> lease[c].state \in {"held", "away"}

=============================================================================
