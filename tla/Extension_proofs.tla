-------------------------- MODULE Extension_proofs --------------------------
(***************************************************************************)
(* Proofs about what the pages of the extension share: the browser jobs    *)
(* and the chats.                                                          *)
(*                                                                         *)
(* JobsInv is inductive: the shape of the state (a run under way has a     *)
(* job, a pass under way has a job to start); that a running job is held   *)
(* by an execution that has yet to settle it or by a pass about to start   *)
(* it; and what an execution that acted after a stop may still do.  Every  *)
(* write of the machine goes through updateJob, so the proofs rest on what *)
(* one such write does (SetIs, Heeds).                                     *)
(*                                                                         *)
(* ChatInv is inductive: every copy of the chats, stored, on its way or in *)
(* memory, fits what was made and said so far; and a surface that has no   *)
(* read to begin and changed nothing since the last write of another shows *)
(* what is stored, or has it as the last of its reads.  Every change of a  *)
(* surface ends in one write (Write), so an action only has to say what it *)
(* makes of the memory, and WriteFits what is made of that.                *)
(***************************************************************************)
EXTENDS BrowserJobs, ChatSessions, FiniteSetTheorems, WellFoundedInduction,
        SequenceTheorems, TLAPS

-----------------------------------------------------------------------------
(***************************************************************************)
(* The browser jobs.                                                       *)
(***************************************************************************)

\* The records of the model.
JobRecords == [status : Statuses, lock : Pages \cup {None}]
CommandRecords == [pc : {"idle", "resuming", "locking", "tick"}, job : Jobs \cup {None}]
TickRecords == [pc : {"idle", "focusing", "starting"}, todo : Seq(Jobs)]
RunPlaces == {"off", "top", "deciding", "waiting", "fronting", "acted", "stopping",
              "settling", "leaving"}
RunRecords == [pc : RunPlaces, job : Jobs \cup {None},
               result : Terminal \cup {"paused", "approval", None},
               steps : 0 .. MaxSteps, halted : BOOLEAN, late : 0 .. 2]

\* A pass under way has a job to start.
TickFits(t) == (tick[t].pc = "idle") = (tick[t].todo = << >>)

\* A run that is off is nothing; one under way has a job, and steps left where it may act.
RunFits(r) ==
  /\ run[r].pc = "off" => run[r] = NoRun
  /\ run[r].pc # "off" => run[r].job \in Jobs
  /\ run[r].pc \in {"deciding", "waiting", "fronting"} => run[r].steps < MaxSteps
  /\ run[r].pc = "stopping" => run[r].result \in HumanStop

\* The types, and what keeps them.
JobsShaped ==
  /\ job \in [Jobs -> JobRecords] /\ focusId \in Jobs \cup {None}
  /\ cmd \in [Commands -> CommandRecords] /\ tick \in [Ticks -> TickRecords]
  /\ running \in [Jobs -> Runs \cup {None}] /\ run \in [Runs -> RunRecords]
  /\ lockedBy \in Runs \cup {None} /\ acts \in 0 .. MaxActs
  /\ \A t \in Ticks : TickFits(t)
  /\ \A r \in Runs : RunFits(r)
  /\ \A k \in Commands : cmd[k].pc \in {"resuming", "locking"} => cmd[k].job \in Jobs

\* The run has yet to settle the job.
Holds(r, j) == run[r].pc \notin {"off", "leaving"} /\ run[r].job = j
\* The pass has marked the job and is about to start its run.
StartsJob(t, j) == tick[t].pc = "starting" /\ Head(tick[t].todo) = j
\* A job shown as running has an owner.
JobOwned(j) == (\E r \in Runs : Holds(r, j)) \/ \E t \in Ticks : StartsJob(t, j)
AllOwned == \A j \in Jobs : Status(j) = "running" => JobOwned(j)

\* Where a run looks at the status of its job before it can act again.
Ending == {"acted", "stopping", "settling", "leaving"}
\* A run whose job was stopped acts at most once more, unless the job is gone.
Seen(r) ==
  /\ run[r].halted => Status(run[r].job) \in HumanStop \cup {"gone"}
  /\ run[r].late > 0 => run[r].halted
  /\ run[r].late > 0 => run[r].pc \in Ending \/ Status(run[r].job) = "gone"
  /\ run[r].late > 1 => Status(run[r].job) = "gone"
AllSeen == \A r \in Runs : Seen(r)

\* The inductive invariant.
JobsInv == JobsShaped /\ AllOwned /\ AllSeen

-----------------------------------------------------------------------------
(* The least number of a finite set, by induction over its subsets. *)
LEMMA LeastIs ==
  ASSUME NEW S, S \subseteq Nat, S # {}, IsFiniteSet(S)
  PROVE  \E m \in S : \A g \in S : m <= g
<1> DEFINE Bad == {T \in SUBSET S : T # {} /\ ~\E m \in T : \A g \in T : m <= g}
           R == StrictSubsetOrdering(S)
<1>1. Bad = {}
  <2>1. SUFFICES ASSUME Bad # {} PROVE FALSE
    OBVIOUS
  <2>2. IsWellFoundedOn(R, FiniteSubsetsOf(S)) /\ FiniteSubsetsOf(S) = SUBSET S
    BY FS_StrictSubsetOrderingWellFounded, FS_FiniteSubsetsOfFinite
  <2>3. \E T \in Bad : \A U \in Bad : <<U, T>> \notin R
    <3>1. Bad \subseteq FiniteSubsetsOf(S)
      BY <2>2
    <3> HIDE DEF R, Bad
    <3>2. QED
      BY <2>1, <2>2, <3>1, WFMin
  <2>4. PICK T \in Bad : \A U \in Bad : <<U, T>> \notin R
    BY <2>3
  <2>5. PICK t \in T : TRUE
    BY <2>4
  <2>6. /\ T \in SUBSET S /\ t \in Nat /\ \A g \in T : g \in Nat
        /\ ~\E m \in T : \A g \in T : m <= g
    BY <2>4, <2>5
  <2>7. T \ {t} \notin Bad
    <3>1. <<T \ {t}, T>> \in R
      BY <2>5, <2>6 DEF StrictSubsetOrdering
    <3>2. QED
      BY <2>4, <3>1
  <2>8. T \ {t} # {}
    <3>1. SUFFICES ASSUME T \ {t} = {} PROVE FALSE
      OBVIOUS
    <3>2. T = {t}
      BY <2>5, <3>1
    <3>3. QED
      BY <2>6, <3>2
  <2>9. PICK m \in T \ {t} : \A g \in T \ {t} : m <= g
    BY <2>6, <2>7, <2>8
  <2>10. m \in T /\ m \in Nat
    BY <2>6, <2>9
  <2>11. \A g \in T : g = t \/ m <= g
    BY <2>9
  <2>12. CASE m <= t
    BY <2>6, <2>10, <2>11, <2>12
  <2>13. CASE ~(m <= t)
    <3>1. \A g \in T : t <= g
      BY <2>6, <2>10, <2>11, <2>13
    <3>2. QED
      BY <2>5, <2>6, <3>1
  <2>14. QED
    BY <2>12, <2>13
<1>2. QED
  BY <1>1

(* The records, and what the invariant says. *)
LEMMA JobFields ==
  ASSUME NEW x \in JobRecords
  PROVE  x.status \in Statuses /\ x.lock \in Pages \cup {None}
  BY DEF JobRecords

LEMMA RunFields ==
  ASSUME NEW x \in RunRecords
  PROVE  /\ x.pc \in RunPlaces /\ x.job \in Jobs \cup {None}
         /\ x.result \in Terminal \cup {"paused", "approval", None}
         /\ x.steps \in 0 .. MaxSteps /\ x.halted \in BOOLEAN /\ x.late \in 0 .. 2
  BY DEF RunRecords

LEMMA NoRunIs ==
  /\ NoRun \in RunRecords /\ NoRun.pc = "off" /\ NoRun.job = None /\ NoRun.halted = FALSE
  /\ NoRun.late = 0 /\ NoRun.steps = 0
  BY JobsAssumption DEF NoRun, RunRecords, RunPlaces

LEMMA JobFacts ==
  ASSUME JobsInv
  PROVE  /\ JobsShaped /\ AllOwned /\ AllSeen
         /\ job \in [Jobs -> JobRecords] /\ run \in [Runs -> RunRecords]
         /\ tick \in [Ticks -> TickRecords] /\ cmd \in [Commands -> CommandRecords]
         /\ \A j \in Jobs : job[j] \in JobRecords /\ Status(j) \in Statuses
         /\ \A r \in Runs : run[r] \in RunRecords /\ RunFits(r) /\ Seen(r)
         /\ None \notin Jobs /\ None \notin Runs /\ None \notin Pages
         /\ Jobs \subseteq Nat /\ MaxSteps \in Nat /\ MaxSteps > 0 /\ MaxActs \in Nat
         /\ MaxConcurrent \in Nat /\ MaxConcurrent > 0
  BY JobsAssumption, JobFields DEF JobsInv, JobsShaped, AllSeen, Status

\* A write of the machine: a stop stands, and what is not in the store stays out.
LEMMA SetIs ==
  ASSUME job \in [Jobs -> JobRecords], NEW j \in Jobs,
         NEW status \in Statuses \ {"absent", "gone"}
  PROVE  /\ Set(j, status) \in [Jobs -> JobRecords]
         /\ \A i \in Jobs : i # j => Set(j, status)[i] = job[i]
         /\ Status(j) \in HumanStop => Set(j, status)[j].status \in HumanStop
         /\ ~Known(j) => Set(j, status) = job
         /\ Known(j) => Set(j, status)[j].status \in {status, Status(j)}
         /\ status # "running" => Set(j, status)[j].status # "running"
         /\ Known(j) /\ status \in HumanStop => Set(j, status)[j].status \in HumanStop
<1> DEFINE kept == IF KeepsHumanStop(j, status, FALSE) THEN Status(j) ELSE status
           x == Normalized(kept, job[j].lock)
<1>1. job[j] \in JobRecords /\ Status(j) \in Statuses
  BY JobFields DEF Status
<1>2. kept \in Statuses /\ kept \in {status, Status(j)}
      /\ (Status(j) \in HumanStop => kept \in HumanStop)
      /\ (status # "running" => kept # "running")
      /\ (status \in HumanStop => kept \in HumanStop)
  BY <1>1 DEF KeepsHumanStop, HumanStop
<1>3. x \in JobRecords /\ x.status = kept
  BY <1>1, <1>2, JobFields DEF Normalized, JobRecords
<1> HIDE DEF kept, x
<1>4. Set(j, status) = IF Known(j) THEN [job EXCEPT ![j] = x] ELSE job
  BY DEF Set, Updated, x, kept
<1>5. CASE Known(j)
  BY <1>2, <1>3, <1>4, <1>5
<1>6. CASE ~Known(j)
  BY <1>1, <1>4, <1>6 DEF Known, HumanStop, Status
<1>7. QED
  BY <1>5, <1>6

LEMMA FocusIs ==
  ASSUME focusId \in Jobs \cup {None}, NEW j \in Jobs, NEW jobs
  PROVE  FocusAfter(j, jobs) \subseteq Jobs \cup {None}
  BY DEF FocusAfter

\* The rest of a pass.
LEMMA RemainingIs ==
  ASSUME NEW todo \in Seq(Jobs), NEW map
  PROVE  /\ Remaining(todo, map) \in Seq(Jobs)
         /\ Remaining(todo, map) # << >> => Head(Remaining(todo, map)) \in Jobs
<1> DEFINE ready == {i \in DOMAIN todo : Startable(todo[i], map)}
           first == CHOOSE i \in ready : \A k \in ready : i <= k
<1>1. Len(todo) \in Nat /\ DOMAIN todo = 1 .. Len(todo)
  OBVIOUS
<1>2. CASE Remaining(todo, map) = << >>
  BY <1>2
<1>3. CASE Remaining(todo, map) # << >>
  <2>1. ready # {} /\ Remaining(todo, map) = SubSeq(todo, first, Len(todo))
    BY <1>3 DEF Remaining
  <2>2. ready \subseteq Nat /\ IsFiniteSet(ready)
    <3>1. ready \subseteq 1 .. Len(todo) /\ IsFiniteSet(1 .. Len(todo))
      BY <1>1, FS_Interval
    <3>2. QED
      BY <1>1, <3>1, FS_Subset
  <2>3. first \in ready
    BY <2>1, <2>2, LeastIs
  <2>4. first \in 1 .. Len(todo)
    BY <1>1, <2>3
  <2> HIDE DEF first, ready
  <2>5. /\ SubSeq(todo, first, Len(todo)) \in Seq(Jobs)
        /\ Len(SubSeq(todo, first, Len(todo))) = Len(todo) - first + 1
    BY <1>1, <2>4, SubSeqProperties
  <2>6. Len(SubSeq(todo, first, Len(todo))) > 0
    BY <1>1, <2>4, <2>5
  <2>7. QED
    BY <2>1, <2>5, <1>3, HeadTailProperties
<1>4. QED
  BY <1>2, <1>3

\* What a pass does when it goes on: it stays out of the store, or marks its next job.
LEMMA GoOnIs ==
  ASSUME JobsInv, NEW t \in Ticks, NEW todo \in Seq(Jobs), NEW map, NEW queue,
         GoOn(t, todo, map, queue)
  PROVE  \E x \in TickRecords :
           /\ tick' = [tick EXCEPT ![t] = x] /\ ((x.pc = "idle") = (x.todo = << >>))
           /\ focusId' \in Jobs \cup {None}
           /\ \/ x.pc \in {"idle", "focusing"} /\ UNCHANGED job
              \/ /\ x.pc = "starting" /\ Head(x.todo) \in Jobs
                 /\ job' = Set(Head(x.todo), "running")
<1> DEFINE rest == Remaining(todo, map)
<1>1. rest \in Seq(Jobs) /\ (rest # << >> => Head(rest) \in Jobs)
  BY RemainingIs
<1>2. focusId \in Jobs \cup {None}
  BY DEF JobsInv, JobsShaped
<1>3. \/ rest = << >> /\ tick' = [tick EXCEPT ![t] = NoTick] /\ UNCHANGED <<job, focusId>>
      \/ /\ rest # << >> /\ focusId' = Head(rest) /\ UNCHANGED job
         /\ tick' = [tick EXCEPT ![t] = [pc |-> "focusing", todo |-> rest]]
      \/ /\ rest # << >> /\ job' = Set(Head(rest), "running") /\ UNCHANGED focusId
         /\ tick' = [tick EXCEPT ![t] = [pc |-> "starting", todo |-> rest]]
  BY DEF GoOn
<1> HIDE DEF rest
<1>4. CASE rest = << >> /\ tick' = [tick EXCEPT ![t] = NoTick] /\ UNCHANGED <<job, focusId>>
  <2>1. NoTick \in TickRecords /\ NoTick.pc = "idle" /\ NoTick.todo = << >>
    BY DEF NoTick, TickRecords
  <2>2. QED
    BY <1>2, <1>4, <2>1
<1>5. CASE /\ rest # << >> /\ focusId' = Head(rest) /\ UNCHANGED job
           /\ tick' = [tick EXCEPT ![t] = [pc |-> "focusing", todo |-> rest]]
  <2> DEFINE x == [pc |-> "focusing", todo |-> rest]
  <2>1. x \in TickRecords /\ x.pc = "focusing" /\ x.todo = rest
    BY <1>1 DEF TickRecords
  <2> HIDE DEF x
  <2>2. tick' = [tick EXCEPT ![t] = x]
    BY <1>5 DEF x
  <2>3. QED
    BY <1>1, <1>5, <2>1, <2>2
<1>6. CASE /\ rest # << >> /\ job' = Set(Head(rest), "running") /\ UNCHANGED focusId
           /\ tick' = [tick EXCEPT ![t] = [pc |-> "starting", todo |-> rest]]
  <2> DEFINE x == [pc |-> "starting", todo |-> rest]
  <2>1. x \in TickRecords /\ x.pc = "starting" /\ x.todo = rest
    BY <1>1 DEF TickRecords
  <2> HIDE DEF x
  <2>2. tick' = [tick EXCEPT ![t] = x]
    BY <1>6 DEF x
  <2>3. Head(x.todo) \in Jobs /\ job' = Set(Head(x.todo), "running")
    BY <1>1, <1>6, <2>1
  <2>4. focusId' \in Jobs \cup {None} /\ (x.pc = "idle") = (x.todo = << >>)
    BY <1>2, <1>6, <2>1
  <2>5. QED
    BY <2>1, <2>2, <2>3, <2>4
<1>7. QED
  BY <1>3, <1>4, <1>5, <1>6

-----------------------------------------------------------------------------
(* What a step does to the stops. *)
Heeds(j) ==
  /\ Status(j) \in HumanStop => job'[j].status \in HumanStop \cup {"gone"}
  /\ Status(j) = "gone" => job'[j].status = "gone"

\* A run goes on under a stop only to end.
Calm(r) ==
  /\ run'[r].job = run[r].job /\ run'[r].halted = run[r].halted /\ run'[r].late = run[r].late
  /\ run[r].late > 0 => run'[r].pc \in Ending \/ Status(run[r].job) = "gone"
  /\ run[r].job \in Jobs => Heeds(run[r].job)

\* A run that is new, or whose job the human has just stopped or taken back.
Fresher(r) ==
  /\ run'[r].late = 0
  /\ run'[r].halted => /\ run'[r].job \in Jobs
                       /\ job'[run'[r].job].status \in HumanStop \cup {"gone"}

LEMMA OffIs ==
  ASSUME JobsInv, NEW r \in Runs, run[r].job \notin Jobs
  PROVE  run[r].halted = FALSE /\ run[r].late = 0
  BY JobFacts, NoRunIs DEF RunFits

LEMMA CalmIsSeen ==
  ASSUME JobsInv, NEW r \in Runs, Calm(r)
  PROVE  Seen(r)'
<1>1. CASE run[r].job \in Jobs
  <2>1. Seen(r)
    BY JobFacts
  <2>2. /\ job[run[r].job].status \in HumanStop
             => job'[run'[r].job].status \in HumanStop \cup {"gone"}
        /\ job[run[r].job].status = "gone" => job'[run'[r].job].status = "gone"
    BY <1>1 DEF Calm, Heeds, Status
  <2>3. (run[r].halted => job[run[r].job].status \in HumanStop \cup {"gone"})
    BY <2>1 DEF Seen, Status
  <2>4. (run'[r].halted => job'[run'[r].job].status \in HumanStop \cup {"gone"})
    BY <2>2, <2>3 DEF Calm
  <2>5. run'[r].late > 0 => run'[r].halted
    BY <2>1 DEF Calm, Seen
  <2>6. run'[r].late > 0 => run'[r].pc \in Ending \/ job'[run'[r].job].status = "gone"
    BY <2>2 DEF Calm, Status
  <2>7. run'[r].late > 1 => job'[run'[r].job].status = "gone"
    BY <2>1, <2>2 DEF Calm, Seen, Status
  <2>8. QED
    BY <2>4, <2>5, <2>6, <2>7 DEF Seen, Status
<1>2. CASE run[r].job \notin Jobs
  <2>1. run'[r].halted = FALSE /\ run'[r].late = 0
    BY <1>2, OffIs DEF Calm
  <2>2. QED
    BY <2>1 DEF Seen
<1>3. QED
  BY <1>1, <1>2

LEMMA SeenStays ==
  ASSUME JobsInv, \A r \in Runs : Calm(r) \/ Fresher(r) \/ Seen(r)'
  PROVE  AllSeen'
<1> SUFFICES ASSUME NEW r \in Runs PROVE Seen(r)'
  BY DEF AllSeen
<1>1. CASE Fresher(r)
  BY <1>1 DEF Fresher, Seen, Status
<1>2. QED
  BY <1>1, CalmIsSeen

LEMMA SameRunIsCalm ==
  ASSUME JobsInv, NEW r \in Runs, run'[r] = run[r],
         run[r].job \in Jobs => Heeds(run[r].job)
  PROVE  Calm(r)
  BY JobFacts, OffIs DEF Calm, Seen

\* A write of the machine heeds every stop.
LEMMA SetHeeds ==
  ASSUME JobsInv, NEW j \in Jobs, NEW status \in Statuses \ {"absent", "gone"},
         job' = Set(j, status)
  PROVE  /\ job' \in [Jobs -> JobRecords] /\ \A i \in Jobs : Heeds(i)
         /\ \A i \in Jobs : i # j => job'[i] = job[i]
         /\ status # "running" => Status(j)' # "running"
<1>1. /\ job' \in [Jobs -> JobRecords] /\ \A i \in Jobs : i # j => job'[i] = job[i]
      /\ Status(j) \in HumanStop => job'[j].status \in HumanStop
      /\ ~Known(j) => job' = job
      /\ status # "running" => job'[j].status # "running"
  BY SetIs, JobFacts
<1>2. Heeds(j)
  BY <1>1 DEF Heeds, Status, Known
<1>3. \A i \in Jobs : Heeds(i)
  BY <1>1, <1>2 DEF Heeds, Status
<1>4. QED
  BY <1>1, <1>3 DEF Status

-----------------------------------------------------------------------------
(* A run. *)
RunStays == UNCHANGED <<cmd, tick, running, acts>>

\* A step of a run that keeps its job: it goes on with it, or settles it.
LEMMA RunGoesOn ==
  ASSUME JobsInv, NEW r \in Runs, RunStays, lockedBy' \in Runs \cup {None},
         focusId' \in Jobs \cup {None}, run[r].pc \notin {"off", "leaving"},
         NEW x \in RunRecords, run' = [run EXCEPT ![r] = x],
         x.job = run[r].job, x.pc # "off",
         x.pc = "leaving" => job'[run[r].job].status # "running",
         x.pc \in {"deciding", "waiting", "fronting"} => x.steps < MaxSteps,
         x.pc = "stopping" => x.result \in HumanStop,
         job' \in [Jobs -> JobRecords], \A i \in Jobs : i # run[r].job => job'[i] = job[i],
         \A i \in Jobs : Heeds(i),
         x.halted = run[r].halted,
         x.late > 0 => x.halted /\ (x.pc \in Ending \/ Status(run[r].job) = "gone"),
         x.late > 1 => Status(run[r].job) = "gone"
  PROVE  JobsInv'
<1>1. run[r].job \in Jobs
  BY JobFacts DEF RunFits
<1>2. /\ run' \in [Runs -> RunRecords] /\ run'[r] = x
      /\ \A q \in Runs : q # r => run'[q] = run[q]
  BY JobFacts
<1>3. JobsShaped'
  <2>1. \A q \in Runs : RunFits(q)'
    BY <1>1, <1>2, JobFacts DEF RunFits
  <2>2. \A t \in Ticks : TickFits(t)'
    BY DEF JobsInv, JobsShaped, TickFits, RunStays
  <2>3. QED
    BY <1>2, <2>1, <2>2 DEF JobsInv, JobsShaped, RunStays
<1>4. AllOwned'
  <2> SUFFICES ASSUME NEW i \in Jobs, Status(i)' = "running" PROVE JobOwned(i)'
    BY DEF AllOwned
  <2>1. CASE i = run[r].job
    <3>1. x.pc # "leaving"
      BY <2>1 DEF Status
    <3>2. Holds(r, i)'
      BY <1>2, <2>1, <3>1 DEF Holds
    <3>3. QED
      BY <3>2 DEF JobOwned
  <2>2. CASE i # run[r].job
    <3>1. JobOwned(i)
      BY <2>2, JobFacts DEF AllOwned, Status
    <3>2. CASE \E q \in Runs : Holds(q, i)
      <4>1. PICK q \in Runs : Holds(q, i)
        BY <3>2
      <4>2. Holds(q, i)'
        BY <1>2, <2>2, <4>1 DEF Holds
      <4>3. QED
        BY <4>2 DEF JobOwned
    <3>3. CASE \E t \in Ticks : StartsJob(t, i)
      BY <3>3 DEF JobOwned, StartsJob, RunStays
    <3>4. QED
      BY <3>1, <3>2, <3>3 DEF JobOwned
  <2>3. QED
    BY <2>1, <2>2
<1>5. Seen(r)'
  BY <1>1, <1>2, JobFacts DEF Seen, Heeds, Status
<1>6. AllSeen'
  BY <1>2, <1>5, SameRunIsCalm, SeenStays
<1>7. QED
  BY <1>3, <1>4, <1>6 DEF JobsInv
-----------------------------------------------------------------------------
\* The run as x, at its next place, with what it did so far.
StaysOn(r, x) ==
  /\ x \in RunRecords /\ run' = [run EXCEPT ![r] = x] /\ x.job = run[r].job
  /\ x.steps = run[r].steps /\ x.halted = run[r].halted /\ x.late = run[r].late
  /\ x.pc \notin {"off", "leaving"}
  /\ x.pc \in {"deciding", "waiting", "fronting"} => run[r].steps < MaxSteps
  /\ x.pc = "stopping" => x.result \in HumanStop
  /\ x.pc \in Ending \/ ~ Stopped(run[r].job)

\* A run under way takes a step.
Under(r) == /\ RunStays /\ lockedBy' \in Runs \cup {None}
            /\ run[r].pc \notin {"off", "leaving"}

\* A run goes from one place to the next, and may write a status on its way.
LEMMA RunMoves ==
  ASSUME JobsInv, NEW r \in Runs, Under(r), NEW x, StaysOn(r, x),
         \/ UNCHANGED <<job, focusId>>
         \/ \E w \in Statuses \ {"absent", "gone"} :
              Update(run[r].job, Set(run[r].job, w))
  PROVE  JobsInv'
<1> DEFINE j == run[r].job
<1>1. run[r] \in RunRecords /\ j \in Jobs /\ RunFits(r) /\ Seen(r)
  BY JobFacts DEF RunFits, Under
<1>4. /\ focusId' \in Jobs \cup {None} /\ job' \in [Jobs -> JobRecords]
      /\ \A i \in Jobs : i # j => job'[i] = job[i]
      /\ \A i \in Jobs : Heeds(i)
  <2>1. CASE UNCHANGED <<job, focusId>>
    BY <2>1, JobFacts DEF JobsShaped, Heeds, Status
  <2>2. CASE \E w \in Statuses \ {"absent", "gone"} : Update(j, Set(j, w))
    BY <1>1, <2>2, SetHeeds, FocusIs, JobFacts DEF Update, JobsShaped
  <2>3. QED
    BY <2>1, <2>2
<1>5. /\ x.late > 0 => x.halted /\ (x.pc \in Ending \/ Status(j) = "gone")
      /\ x.late > 1 => Status(j) = "gone"
  BY <1>1 DEF Seen, Stopped, StaysOn
<1>6. QED
  BY <1>1, <1>4, <1>5, RunGoesOn DEF StaysOn, Under

LEMMA MovedIs ==
  ASSUME JobsInv, NEW r \in Runs, Under(r), NEW p \in RunPlaces, run' = Moved(r, p),
         p \notin {"off", "leaving"},
         p \in {"deciding", "waiting", "fronting"} => run[r].steps < MaxSteps,
         p = "stopping" => run[r].result \in HumanStop,
         p \in Ending \/ ~ Stopped(run[r].job)
  PROVE  \E x : StaysOn(r, x)
<1> DEFINE x == [run[r] EXCEPT !.pc = p]
<1>1. run[r] \in RunRecords
  BY JobFacts
<1>2. /\ x \in RunRecords /\ x.pc = p /\ x.result = run[r].result /\ x.job = run[r].job
      /\ x.steps = run[r].steps /\ x.halted = run[r].halted /\ x.late = run[r].late
  BY <1>1 DEF RunRecords
<1>3. run' = [run EXCEPT ![r] = x]
  BY DEF Moved
<1> HIDE DEF x
<1>4. QED
  BY <1>2, <1>3 DEF StaysOn

LEMMA EndedIs ==
  ASSUME JobsInv, NEW r \in Runs, Under(r), NEW p \in {"settling", "stopping"},
         NEW s \in Terminal \cup {"paused", "approval"},
         run' = [run EXCEPT ![r].pc = p, ![r].result = s],
         p = "stopping" => s \in HumanStop
  PROVE  \E x : StaysOn(r, x)
<1> DEFINE x == [run[r] EXCEPT !.pc = p, !.result = s]
<1>1. run[r] \in RunRecords
  BY JobFacts
<1>2. /\ x \in RunRecords /\ x.pc = p /\ x.result = s /\ x.job = run[r].job
      /\ x.steps = run[r].steps /\ x.halted = run[r].halted /\ x.late = run[r].late
  BY <1>1 DEF RunRecords, RunPlaces
<1>3. run' = [run EXCEPT ![r] = x]
  BY JobFacts
<1> HIDE DEF x
<1>4. QED
  BY <1>2, <1>3 DEF StaysOn, Ending

LEMMA FinishKeeps ==
  ASSUME JobsInv, NEW r \in Runs, NEW s \in Terminal \cup {"paused", "approval"},
         Finish(r, s), UNCHANGED acts, lockedBy' \in Runs \cup {None},
         run[r].pc \notin {"off", "leaving"}
  PROVE  JobsInv'
<1>1. Under(r)
  BY DEF Under, RunStays, Finish
<1>2. \E x : StaysOn(r, x)
  BY <1>1, EndedIs DEF Finish
<1>3. Update(run[r].job, Set(run[r].job, s)) /\ s \in Statuses \ {"absent", "gone"}
  BY DEF Finish, Statuses, Terminal, ActiveState
<1>4. QED
  BY <1>1, <1>2, <1>3, RunMoves

LEMMA StopKeeps ==
  ASSUME JobsInv, NEW r \in Runs, StopRun(r), UNCHANGED acts,
         lockedBy' \in Runs \cup {None}, run[r].pc \notin {"off", "leaving"}
  PROVE  JobsInv'
<1>1. Under(r)
  BY DEF Under, RunStays, StopRun
<1>2. Status(run[r].job) \in HumanStop
  BY DEF StopRun, Stopped
<1> DEFINE s == Status(run[r].job)
<1>3. s \in Terminal \cup {"paused", "approval"} /\ s \in Statuses \ {"absent", "gone"}
  BY <1>2 DEF Terminal, HumanStop, Statuses, ActiveState
<1>4. \E x : StaysOn(r, x)
  BY <1>1, <1>2, <1>3, EndedIs DEF StopRun
<1>5. Update(run[r].job, Set(run[r].job, s))
  BY DEF StopRun
<1>6. QED
  BY <1>1, <1>3, <1>4, <1>5, RunMoves

LEMMA GoesKeeps ==
  ASSUME JobsInv, NEW r \in Runs, NEW p \in RunPlaces, RunStays,
         lockedBy' \in Runs \cup {None}, run[r].pc \notin {"off", "leaving"},
         run' = Moved(r, p), p \notin {"off", "leaving"},
         p \in {"deciding", "waiting", "fronting"} => run[r].steps < MaxSteps,
         p = "stopping" => run[r].result \in HumanStop,
         p \in Ending \/ ~ Stopped(run[r].job),
         \/ UNCHANGED <<job, focusId>>
         \/ \E w \in Statuses \ {"absent", "gone"} :
              Update(run[r].job, Set(run[r].job, w))
  PROVE  JobsInv'
<1>1. Under(r)
  BY DEF Under
<1>2. \E x : StaysOn(r, x)
  BY <1>1, MovedIs
<1>3. QED
  BY <1>1, <1>2, RunMoves

\* The names of places and statuses are among those of the model.
LEMMA Words ==
  /\ {"top", "deciding", "waiting", "fronting", "acted", "stopping", "settling", "leaving"}
       \subseteq RunPlaces
  /\ HumanStop \subseteq Terminal \cup {"paused", "approval"}
  /\ {"completed", "blocked", "approval", "failed"} \subseteq Terminal \cup {"paused",
                                                                             "approval"}
  /\ HumanStop \cup {"running", "queued", "completed", "blocked", "approval", "failed"}
       \subseteq Statuses \ {"absent", "gone"}
  BY DEF RunPlaces, HumanStop, Terminal, Statuses, ActiveState

\* The run writes "running" on its way.
LEMMA RunsOn ==
  ASSUME JobsInv, NEW r \in Runs, NEW p \in {"top", "deciding", "waiting"}, RunStays,
         lockedBy' \in Runs \cup {None}, run[r].pc \notin {"off", "leaving"},
         run' = Moved(r, p), ~ Stopped(run[r].job),
         p \in {"deciding", "waiting"} => run[r].steps < MaxSteps,
         Update(run[r].job, Set(run[r].job, "running"))
  PROVE  JobsInv'
<1>1. p \in RunPlaces /\ p \notin {"off", "leaving"} /\ p # "stopping" /\ p # "fronting"
  BY DEF RunPlaces
<1>2. "running" \in Statuses \ {"absent", "gone"}
  BY Words
<1>3. QED
  BY <1>1, <1>2, GoesKeeps

LEMMA RunTopKeeps ==
  ASSUME JobsInv, UNCHANGED acts, NEW r \in Runs, RunTop(r)
  PROVE  JobsInv'
<1>1. run[r].pc = "top" /\ lockedBy' \in Runs \cup {None}
  BY JobFacts DEF RunTop, JobsShaped
<1>2. CASE StopRun(r)
  BY <1>1, <1>2, StopKeeps
<1>3. CASE Finish(r, "blocked")
  BY <1>1, <1>3, FinishKeeps, Words
<1>4. CASE /\ ~ Stopped(run[r].job) /\ run[r].steps < MaxSteps
           /\ Update(run[r].job, Set(run[r].job, "running"))
           /\ run' = Moved(r, "deciding")
           /\ UNCHANGED <<cmd, tick, running>>
  BY <1>1, <1>4, RunsOn DEF RunStays
<1>5. QED
  BY <1>2, <1>3, <1>4 DEF RunTop

LEMMA RunDecidesKeeps ==
  ASSUME JobsInv, UNCHANGED acts, NEW r \in Runs, RunDecides(r)
  PROVE  JobsInv'
<1>1. /\ run[r].pc = "deciding" /\ lockedBy' \in Runs \cup {None}
      /\ run[r].steps < MaxSteps
  BY JobFacts DEF RunDecides, JobsShaped, RunFits
<1>2. CASE StopRun(r)
  BY <1>1, <1>2, StopKeeps
<1>3. CASE \E status \in {"completed", "blocked", "approval", "failed"} : Finish(r, status)
  BY <1>1, <1>3, FinishKeeps, Words
<1>4. CASE /\ ~ Stopped(run[r].job)
           /\ Update(run[r].job, Set(run[r].job, "running"))
           /\ run' = Moved(r, "waiting")
           /\ UNCHANGED <<cmd, tick, running>>
  BY <1>1, <1>4, RunsOn DEF RunStays
<1>5. QED
  BY <1>2, <1>3, <1>4 DEF RunDecides

LEMMA RunHasLockKeeps ==
  ASSUME JobsInv, UNCHANGED acts, NEW r \in Runs, RunHasLock(r)
  PROVE  JobsInv'
<1>1. run[r].pc = "waiting" /\ lockedBy \in Runs \cup {None} /\ run[r].steps < MaxSteps
  BY JobFacts DEF RunHasLock, JobsShaped, RunFits
<1>2. CASE Stopped(run[r].job) /\ Finish(r, Status(run[r].job)) /\ UNCHANGED lockedBy
  BY <1>1, <1>2, FinishKeeps, Words DEF Stopped
<1>3. CASE /\ ~ Stopped(run[r].job)
           /\ lockedBy' = r
           /\ run' = Moved(r, "fronting")
           /\ UNCHANGED <<job, focusId, cmd, tick, running>>
  <2>1. RunStays /\ "fronting" \in RunPlaces
    BY <1>3, Words DEF RunStays
  <2>2. QED
    BY <1>1, <1>3, <2>1, GoesKeeps
<1>4. QED
  BY <1>2, <1>3 DEF RunHasLock

LEMMA RunActsKeeps ==
  ASSUME JobsInv, UNCHANGED acts, NEW r \in Runs, RunActs(r)
  PROVE  JobsInv'
<1>1. /\ run[r].pc = "fronting" /\ lockedBy \in Runs \cup {None} /\ run[r].steps < MaxSteps
      /\ Seen(r) /\ run[r] \in RunRecords /\ MaxSteps \in Nat /\ run[r].job \in Jobs
  BY JobFacts DEF RunActs, JobsShaped, RunFits
<1>2. CASE Finish(r, "failed") /\ lockedBy' = None
  BY <1>1, <1>2, FinishKeeps, Words
<1>3. CASE /\ run' = [run EXCEPT ![r].pc = "acted", ![r].steps = @ + 1,
                                  ![r].late = IF run[r].halted /\ @ < 2 THEN @ + 1 ELSE @]
           /\ UNCHANGED <<job, focusId, cmd, tick, running, lockedBy>>
  <2> DEFINE late == IF run[r].halted /\ run[r].late < 2 THEN run[r].late + 1 ELSE run[r].late
             x == [run[r] EXCEPT !.pc = "acted", !.steps = run[r].steps + 1, !.late = late]
  <2>1. /\ late \in 0 .. 2 /\ run[r].steps + 1 \in 0 .. MaxSteps
        /\ late > 0 => run[r].halted
        /\ late > 1 => Status(run[r].job) = "gone"
    <3>1. /\ run[r].late \in 0 .. 2 /\ run[r].steps \in 0 .. MaxSteps
          /\ run[r].halted \in BOOLEAN
      BY <1>1, RunFields
    <3>2. /\ run[r].late > 0 => run[r].halted
          /\ run[r].late > 0 => Status(run[r].job) = "gone"
      BY <1>1 DEF Seen, Ending
    <3>3. QED
      BY <1>1, <3>1, <3>2
  <2> HIDE DEF late
  <2>2. /\ x \in RunRecords /\ x.pc = "acted" /\ x.job = run[r].job
        /\ x.halted = run[r].halted /\ x.late = late
    BY <1>1, <2>1 DEF RunRecords, RunPlaces
  <2>3. run' = [run EXCEPT ![r] = x]
    BY <1>3, JobFacts DEF late
  <2> HIDE DEF x
  <2>4. /\ focusId' \in Jobs \cup {None} /\ RunStays /\ job' \in [Jobs -> JobRecords]
        /\ \A i \in Jobs : job'[i] = job[i] /\ Heeds(i)
    BY <1>3, JobFacts DEF JobsShaped, RunStays, Heeds, Status
  <2>5. /\ x.halted = run[r].halted
        /\ x.late > 0 => x.halted /\ (x.pc \in Ending \/ Status(run[r].job) = "gone")
        /\ x.late > 1 => Status(run[r].job) = "gone"
    BY <2>1, <2>2 DEF Ending
  <2>6. lockedBy' \in Runs \cup {None}
    BY <1>1, <1>3
  <2>7. QED
    BY <1>1, <2>2, <2>3, <2>4, <2>5, <2>6, RunGoesOn
<1>4. QED
  BY <1>2, <1>3 DEF RunActs

LEMMA RunActedKeeps ==
  ASSUME JobsInv, UNCHANGED acts, NEW r \in Runs, RunActed(r)
  PROVE  JobsInv'
<1>1. run[r].pc = "acted" /\ lockedBy' \in Runs \cup {None}
  BY DEF RunActed
<1>2. CASE StopRun(r)
  BY <1>1, <1>2, StopKeeps
<1>3. CASE Finish(r, "blocked")
  BY <1>1, <1>3, FinishKeeps, Words
<1>4. CASE /\ ~ Stopped(run[r].job)
           /\ Update(run[r].job, Set(run[r].job, "running"))
           /\ run' = Moved(r, "top")
           /\ UNCHANGED <<cmd, tick, running>>
  BY <1>1, <1>4, RunsOn DEF RunStays
<1>5. QED
  BY <1>2, <1>3, <1>4 DEF RunActed

LEMMA RunStoppedKeeps ==
  ASSUME JobsInv, UNCHANGED acts, NEW r \in Runs, RunStopped(r)
  PROVE  JobsInv'
<1>1. /\ run[r].pc = "stopping" /\ lockedBy' \in Runs \cup {None} /\ RunStays
      /\ run[r].result \in HumanStop
  BY JobFacts DEF RunStopped, JobsShaped, RunFits, RunStays
<1>2. /\ "settling" \in RunPlaces /\ "settling" \in Ending
      /\ run[r].result \in Statuses \ {"absent", "gone"}
  BY <1>1, Words DEF Ending
<1>3. QED
  BY <1>1, <1>2, GoesKeeps DEF RunStopped

LEMMA RunSettlesKeeps ==
  ASSUME JobsInv, UNCHANGED acts, NEW r \in Runs, RunSettles(r)
  PROVE  JobsInv'
<1> DEFINE j == run[r].job
           status == IF run[r].result \in {"completed", "approval"} THEN run[r].result
                     ELSE "blocked"
           x == [run[r] EXCEPT !.pc = "leaving"]
<1>1. /\ run[r].pc = "settling" /\ lockedBy' \in Runs \cup {None} /\ RunStays
      /\ run[r] \in RunRecords /\ j \in Jobs /\ Seen(r)
  BY JobFacts DEF RunSettles, JobsShaped, RunFits, RunStays
<1>2. status \in Statuses \ {"absent", "gone"} /\ status # "running"
  BY Words
<1>3. /\ x \in RunRecords /\ x.pc = "leaving" /\ x.job = j
      /\ x.halted = run[r].halted /\ x.late = run[r].late
  BY <1>1 DEF RunRecords, RunPlaces
<1>4. run' = [run EXCEPT ![r] = x]
  BY DEF RunSettles, Moved
<1>5. \/ Status(j) = "running" /\ Update(j, Set(j, status))
      \/ Status(j) # "running" /\ UNCHANGED <<job, focusId>>
  BY DEF RunSettles
<1> HIDE DEF x, status
<1>6. /\ focusId' \in Jobs \cup {None} /\ job' \in [Jobs -> JobRecords]
      /\ \A i \in Jobs : i # j => job'[i] = job[i]
      /\ \A i \in Jobs : Heeds(i)
      /\ job'[j].status # "running"
  <2>1. CASE Status(j) # "running" /\ UNCHANGED <<job, focusId>>
    BY <2>1, JobFacts DEF JobsShaped, Heeds, Status
  <2>2. CASE Status(j) = "running" /\ Update(j, Set(j, status))
    <3>1. job' = Set(j, status) /\ focusId' \in Jobs \cup {None}
      BY <1>1, <2>2, FocusIs, JobFacts DEF Update, JobsShaped
    <3>2. QED
      BY <1>1, <1>2, <3>1, SetIs, SetHeeds, JobFacts
  <2>3. QED
    BY <1>5, <2>1, <2>2
<1>7. /\ x.late > 0 => x.halted /\ (x.pc \in Ending \/ Status(j) = "gone")
      /\ x.late > 1 => Status(j) = "gone"
  BY <1>1, <1>3 DEF Seen, Ending
<1>8. QED
  BY <1>1, <1>3, <1>4, <1>6, <1>7, RunGoesOn

-----------------------------------------------------------------------------
(* A pass. *)
\* A command that resumes or relocks has a job.
CommandsFit ==
  /\ cmd \in [Commands -> CommandRecords]
  /\ \A k \in Commands : cmd[k].pc \in {"resuming", "locking"} => cmd[k].job \in Jobs

\* A run that is new has not acted, and knows whether its job is stopped.
New(r) ==
  /\ run'[r].late = 0
  /\ run'[r].halted => /\ run'[r].job \in Jobs
                       /\ job[run'[r].job].status \in HumanStop \cup {"gone"}

LEMMA PassKeeps ==
  ASSUME JobsInv, NEW t \in Ticks, NEW todo \in Seq(Jobs), NEW map, NEW queue,
         GoOn(t, todo, map, queue),
         UNCHANGED acts, CommandsFit', running' \in [Jobs -> Runs \cup {None}],
         lockedBy' \in Runs \cup {None}, run' \in [Runs -> RunRecords],
         \A r \in Runs : RunFits(r)',
         \A r \in Runs : run'[r] = run[r] \/ New(r),
         \A i \in Jobs : Status(i) = "running" =>
            \/ \E q \in Runs : Holds(q, i)'
            \/ \E u \in Ticks \ {t} : StartsJob(u, i)
  PROVE  JobsInv'
<1>1. PICK x \in TickRecords :
        /\ tick' = [tick EXCEPT ![t] = x] /\ ((x.pc = "idle") = (x.todo = << >>))
        /\ focusId' \in Jobs \cup {None}
        /\ \/ x.pc \in {"idle", "focusing"} /\ UNCHANGED job
           \/ /\ x.pc = "starting" /\ Head(x.todo) \in Jobs
              /\ job' = Set(Head(x.todo), "running")
  BY GoOnIs
<1>2. /\ tick' \in [Ticks -> TickRecords] /\ tick'[t] = x
      /\ \A u \in Ticks \ {t} : tick'[u] = tick[u]
  BY <1>1, JobFacts
<1>3. \A u \in Ticks : TickFits(u)'
  <2> SUFFICES ASSUME NEW u \in Ticks PROVE TickFits(u)'
    OBVIOUS
  <2>1. TickFits(u)
    BY DEF JobsInv, JobsShaped
  <2>2. CASE u = t
    BY <1>1, <1>2, <2>2 DEF TickFits
  <2>3. CASE u # t
    BY <1>2, <2>1, <2>3 DEF TickFits
  <2>4. QED
    BY <2>2, <2>3
<1>4. /\ job' \in [Jobs -> JobRecords] /\ \A i \in Jobs : Heeds(i)
      /\ \A i \in Jobs :
           job'[i] = job[i] \/ (x.pc = "starting" /\ Head(x.todo) = i)
  <2>1. CASE UNCHANGED job
    <3>1. \A i \in Jobs : Heeds(i)
      BY <2>1 DEF Heeds, Status
    <3>2. QED
      BY <2>1, <3>1, JobFacts
  <2>2. CASE /\ x.pc = "starting" /\ Head(x.todo) \in Jobs
             /\ job' = Set(Head(x.todo), "running")
    <3> DEFINE next == Head(x.todo)
    <3>1. next \in Jobs /\ job' = Set(next, "running") /\ x.pc = "starting"
      BY <2>2
    <3> HIDE DEF next
    <3>2. /\ job' \in [Jobs -> JobRecords] /\ \A i \in Jobs : Heeds(i)
          /\ \A i \in Jobs : i # next => job'[i] = job[i]
      BY <3>1, SetHeeds, Words
    <3>3. QED
      BY <3>1, <3>2 DEF next
  <2>3. QED
    BY <1>1, <2>1, <2>2
<1>5. JobsShaped'
  BY <1>1, <1>2, <1>3, <1>4 DEF JobsInv, JobsShaped, CommandsFit
<1>6. AllOwned'
  <2> SUFFICES ASSUME NEW i \in Jobs, Status(i)' = "running" PROVE JobOwned(i)'
    BY DEF AllOwned
  <2>1. CASE x.pc = "starting" /\ Head(x.todo) = i
    <3>1. StartsJob(t, i)'
      BY <1>2, <2>1 DEF StartsJob
    <3>2. QED
      BY <3>1 DEF JobOwned
  <2>2. CASE job'[i] = job[i]
    <3>1. Status(i) = "running"
      BY <2>2 DEF Status
    <3>2. CASE \E q \in Runs : Holds(q, i)'
      BY <3>2 DEF JobOwned
    <3>3. CASE \E u \in Ticks \ {t} : StartsJob(u, i)
      BY <1>2, <3>3 DEF JobOwned, StartsJob
    <3>4. QED
      BY <3>1, <3>2, <3>3
  <2>3. QED
    BY <1>4, <2>1, <2>2
<1>7. \A r \in Runs : Calm(r) \/ Fresher(r)
  <2> SUFFICES ASSUME NEW r \in Runs PROVE Calm(r) \/ Fresher(r)
    OBVIOUS
  <2>1. CASE run'[r] = run[r]
    BY <1>4, <2>1, SameRunIsCalm
  <2>2. CASE New(r)
    BY <1>4, <2>2 DEF New, Fresher, Heeds, Status
  <2>3. QED
    BY <2>1, <2>2
<1>8. AllSeen'
  BY <1>7, SeenStays
<1>9. QED
  BY <1>5, <1>6, <1>8 DEF JobsInv

LEMMA PlansAre ==
  ASSUME NEW p \in Plans
  PROVE  p \in Seq(Jobs)
<1>1. PICK n \in 0 .. SlotsFree : p \in [1 .. n -> Queued]
  BY DEF Plans
<1>2. n \in Nat /\ Queued \subseteq Jobs
  BY <1>1 DEF Queued
<1>3. p \in [1 .. n -> Jobs]
  BY <1>1, <1>2
<1>4. QED
  BY <1>2, <1>3

LEMMA BeginIs ==
  ASSUME NEW t, NEW map, Begin(t, map)
  PROVE  /\ t \in Ticks /\ tick[t].pc = "idle"
         /\ \E p \in Seq(Jobs) : GoOn(t, p, map, behind)
  BY PlansAre DEF Begin, Lowest

LEMMA CommandsStay ==
  ASSUME JobsInv
  PROVE  CommandsFit
  BY DEF JobsInv, JobsShaped, CommandsFit

LEMMA RunLeavesKeeps ==
  ASSUME JobsInv, UNCHANGED acts, NEW r \in Runs, NEW t \in Ticks, RunLeaves(r, t)
  PROVE  JobsInv'
<1> DEFINE map == [running EXCEPT ![run[r].job] = None]
<1>1. PICK p \in Seq(Jobs) : GoOn(t, p, map, behind)
  BY BeginIs DEF RunLeaves
<1>2. tick[t].pc = "idle" /\ run[r].pc = "leaving"
  BY BeginIs DEF RunLeaves
<1>3. /\ running' \in [Jobs -> Runs \cup {None}] /\ lockedBy' \in Runs \cup {None}
      /\ CommandsFit'
  BY CommandsStay DEF RunLeaves, CommandsFit, JobsInv, JobsShaped
<1>4. /\ run' \in [Runs -> RunRecords] /\ run'[r] = NoRun
      /\ \A q \in Runs : q # r => run'[q] = run[q]
  BY JobFacts, NoRunIs DEF RunLeaves
<1>5. \A q \in Runs : RunFits(q)'
  BY <1>4, JobFacts, NoRunIs DEF RunFits
<1>6. \A q \in Runs : run'[q] = run[q] \/ New(q)
  BY <1>4, NoRunIs DEF New
<1>7. ASSUME NEW i \in Jobs, Status(i) = "running"
      PROVE  (\E q \in Runs : Holds(q, i)') \/ \E u \in Ticks \ {t} : StartsJob(u, i)
  <2>1. JobOwned(i)
    BY <1>7, JobFacts DEF AllOwned
  <2>2. CASE \E q \in Runs : Holds(q, i)
    <3>1. PICK q \in Runs : Holds(q, i)
      BY <2>2
    <3>2. q # r
      BY <1>2, <3>1 DEF Holds
    <3>3. Holds(q, i)'
      BY <1>4, <3>1, <3>2 DEF Holds
    <3>4. QED
      BY <3>3
  <2>3. CASE \E u \in Ticks : StartsJob(u, i)
    BY <1>2, <2>3 DEF StartsJob
  <2>4. QED
    BY <2>1, <2>2, <2>3 DEF JobOwned
<1>8. QED
  BY <1>1, <1>3, <1>4, <1>5, <1>6, <1>7, PassKeeps

LEMMA PassesKeeps ==
  ASSUME JobsInv, UNCHANGED acts, NEW k \in Commands, NEW t \in Ticks, Passes(k, t)
  PROVE  JobsInv'
<1>1. PICK p \in Seq(Jobs) : GoOn(t, p, running, behind)
  BY BeginIs DEF Passes
<1>2. tick[t].pc = "idle"
  BY BeginIs DEF Passes
<1>3. /\ running' \in [Jobs -> Runs \cup {None}] /\ lockedBy' \in Runs \cup {None}
      /\ run' = run /\ run' \in [Runs -> RunRecords]
  BY DEF Passes, JobsInv, JobsShaped
<1>4. CommandsFit'
  <2>1. Idle \in CommandRecords /\ Idle.pc = "idle"
    BY DEF Idle, CommandRecords
  <2>2. cmd' = [cmd EXCEPT ![k] = Idle]
    BY DEF Passes, Done
  <2>3. QED
    BY <2>1, <2>2, CommandsStay DEF CommandsFit
<1>5. \A q \in Runs : RunFits(q)' /\ run'[q] = run[q]
  BY <1>3, JobFacts DEF RunFits
<1>6. ASSUME NEW i \in Jobs, Status(i) = "running"
      PROVE  (\E q \in Runs : Holds(q, i)') \/ \E u \in Ticks \ {t} : StartsJob(u, i)
  <2>1. JobOwned(i)
    BY <1>6, JobFacts DEF AllOwned
  <2>2. CASE \E q \in Runs : Holds(q, i)
    BY <1>3, <2>2 DEF Holds
  <2>3. CASE \E u \in Ticks : StartsJob(u, i)
    BY <1>2, <2>3 DEF StartsJob
  <2>4. QED
    BY <2>1, <2>2, <2>3 DEF JobOwned
<1>7. QED
  BY <1>1, <1>3, <1>4, <1>5, <1>6, PassKeeps

LEMMA TickStartedKeeps ==
  ASSUME JobsInv, UNCHANGED acts, NEW t \in Ticks, NEW r \in Runs, TickStarted(t, r)
  PROVE  JobsInv'
<1> DEFINE next == Head(tick[t].todo)
           map == [running EXCEPT ![next] = r]
           halted == Status(next) \in HumanStop
           x == [NoRun EXCEPT !.pc = "top", !.job = next, !.halted = halted]
<1>1. tick[t].pc = "starting" /\ tick[t].todo \in Seq(Jobs) /\ tick[t].todo # << >>
  <2>1. TickFits(t) /\ tick[t] \in TickRecords
    BY DEF JobsInv, JobsShaped
  <2>2. QED
    BY <2>1 DEF TickStarted, TickFits, TickRecords
<1>2. next \in Jobs /\ Tail(tick[t].todo) \in Seq(Jobs)
  BY <1>1, HeadTailProperties
<1>3. run[r].pc = "off"
  BY DEF TickStarted, Lowest, Live
<1>4. /\ x \in RunRecords /\ x.pc = "top" /\ x.job = next /\ x.late = 0
      /\ x.halted => Status(next) \in HumanStop \cup {"gone"}
  <2>1. halted \in BOOLEAN /\ (halted => Status(next) \in HumanStop \cup {"gone"})
    OBVIOUS
  <2> HIDE DEF halted, next
  <2>2. /\ x \in RunRecords /\ x.pc = "top" /\ x.job = next /\ x.late = 0
        /\ x.halted = halted
    BY <1>2, <2>1, NoRunIs DEF RunRecords, RunPlaces
  <2>3. QED
    BY <2>1, <2>2
<1>5. run' = [run EXCEPT ![r] = x]
  BY DEF TickStarted
<1> HIDE DEF x
<1>6. /\ run' \in [Runs -> RunRecords] /\ run'[r] = x
      /\ \A q \in Runs : q # r => run'[q] = run[q]
  BY <1>4, <1>5, JobFacts
<1>7. \A q \in Runs : RunFits(q)'
  BY <1>2, <1>4, <1>6, JobFacts DEF RunFits
<1>8. \A q \in Runs : run'[q] = run[q] \/ New(q)
  BY <1>2, <1>4, <1>6 DEF New, Status
<1>9. /\ running' \in [Jobs -> Runs \cup {None}] /\ lockedBy' \in Runs \cup {None}
      /\ CommandsFit'
  BY <1>2, CommandsStay DEF TickStarted, CommandsFit, JobsInv, JobsShaped
<1>10. GoOn(t, Tail(tick[t].todo), map, After(t))
  BY DEF TickStarted
<1>11. ASSUME NEW i \in Jobs, Status(i) = "running"
       PROVE  (\E q \in Runs : Holds(q, i)') \/ \E u \in Ticks \ {t} : StartsJob(u, i)
  <2>1. JobOwned(i)
    BY <1>11, JobFacts DEF AllOwned
  <2>2. CASE i = next
    <3>1. Holds(r, i)'
      BY <1>4, <1>6, <2>2 DEF Holds
    <3>2. QED
      BY <3>1
  <2>3. CASE \E q \in Runs : Holds(q, i)
    BY <1>3, <1>6, <2>3 DEF Holds
  <2>4. CASE i # next /\ \E u \in Ticks : StartsJob(u, i)
    BY <2>4 DEF StartsJob
  <2>5. QED
    BY <2>1, <2>2, <2>3, <2>4 DEF JobOwned
<1>12. QED
  BY <1>2, <1>6, <1>7, <1>8, <1>9, <1>10, <1>11, PassKeeps

LEMMA TickFocusedKeeps ==
  ASSUME JobsInv, UNCHANGED acts, NEW t \in Ticks, TickFocused(t)
  PROVE  JobsInv'
<1> DEFINE next == Head(tick[t].todo)
           x == IF Known(next) THEN [tick[t] EXCEPT !.pc = "starting"] ELSE NoTick
<1>1. /\ tick[t].pc = "focusing" /\ tick[t] \in TickRecords
      /\ tick[t].todo \in Seq(Jobs) /\ tick[t].todo # << >>
  <2>1. TickFits(t) /\ tick[t] \in TickRecords
    BY DEF JobsInv, JobsShaped
  <2>2. QED
    BY <2>1 DEF TickFocused, TickFits, TickRecords
<1>2. next \in Jobs
  BY <1>1, HeadTailProperties
<1>3. /\ x \in TickRecords /\ ((x.pc = "idle") = (x.todo = << >>))
      /\ Known(next) => x.pc = "starting" /\ x.todo = tick[t].todo
  BY <1>1 DEF TickRecords, NoTick
<1>4. tick' = [tick EXCEPT ![t] = x]
  BY DEF TickFocused
<1> HIDE DEF x
<1>5. /\ tick' \in [Ticks -> TickRecords] /\ tick'[t] = x
      /\ \A u \in Ticks : u # t => tick'[u] = tick[u]
  BY <1>3, <1>4, JobFacts
<1>6. "running" \in Statuses \ {"absent", "gone"}
      /\ IF Known(next) THEN job' = Set(next, "running") ELSE UNCHANGED job
  BY Words DEF TickFocused
<1>7. /\ job' \in [Jobs -> JobRecords] /\ \A i \in Jobs : Heeds(i)
      /\ \A i \in Jobs : i # next \/ ~ Known(next) => job'[i] = job[i]
  <2>1. CASE Known(next)
    BY <1>2, <1>6, <2>1, SetHeeds
  <2>2. CASE ~ Known(next)
    BY <1>6, <2>2, JobFacts DEF Heeds, Status
  <2>3. QED
    BY <2>1, <2>2
<1>8. \A u \in Ticks : TickFits(u)'
  BY <1>1, <1>3, <1>5 DEF TickFits, JobsInv, JobsShaped
<1>9. \A q \in Runs : RunFits(q)'
  BY JobFacts DEF RunFits, TickFocused
<1>10. JobsShaped'
  BY <1>5, <1>7, <1>8, <1>9 DEF TickFocused, JobsInv, JobsShaped
<1>11. AllOwned'
  <2> SUFFICES ASSUME NEW i \in Jobs, Status(i)' = "running" PROVE JobOwned(i)'
    BY DEF AllOwned
  <2>1. CASE i = next /\ Known(next)
    <3>1. StartsJob(t, i)'
      BY <1>3, <1>5, <2>1 DEF StartsJob
    <3>2. QED
      BY <3>1 DEF JobOwned
  <2>2. CASE i # next \/ ~ Known(next)
    <3>1. JobOwned(i)
      BY <1>7, <2>2, JobFacts DEF AllOwned, Status
    <3>2. CASE \E q \in Runs : Holds(q, i)
      BY <3>2 DEF JobOwned, Holds, TickFocused
    <3>3. CASE \E u \in Ticks : StartsJob(u, i)
      BY <1>1, <1>5, <3>3 DEF JobOwned, StartsJob
    <3>4. QED
      BY <3>1, <3>2, <3>3 DEF JobOwned
  <2>3. QED
    BY <2>1, <2>2
<1>12. AllSeen'
  <2>1. \A r \in Runs : run'[r] = run[r]
    BY DEF TickFocused
  <2>2. QED
    BY <1>7, <2>1, SameRunIsCalm, SeenStays
<1>13. QED
  BY <1>10, <1>11, <1>12 DEF JobsInv

-----------------------------------------------------------------------------
(* The human. *)

\* A step that leaves passes and runs alone and marks nothing as running.
LEMMA QuietKeeps ==
  ASSUME JobsInv, UNCHANGED <<tick, running, run, lockedBy>>, CommandsFit',
         acts' \in 0 .. MaxActs, focusId' \in Jobs \cup {None},
         job' \in [Jobs -> JobRecords],
         \A i \in Jobs : Heeds(i),
         \A i \in Jobs : job'[i].status = "running" => job[i].status = "running"
  PROVE  JobsInv'
<1>1. \A r \in Runs : run'[r] = run[r] /\ RunFits(r)'
  BY JobFacts DEF RunFits
<1>2. \A t \in Ticks : TickFits(t)'
  BY DEF TickFits, JobsInv, JobsShaped
<1>3. JobsShaped'
  BY <1>1, <1>2 DEF JobsInv, JobsShaped, CommandsFit
<1>4. AllOwned'
  BY JobFacts DEF AllOwned, JobOwned, Holds, StartsJob, Status
<1>5. AllSeen'
  BY <1>1, SameRunIsCalm, SeenStays
<1>6. QED
  BY <1>3, <1>4, <1>5 DEF JobsInv

LEMMA HaltedIs ==
  ASSUME JobsInv, NEW j \in Jobs, NEW halt \in BOOLEAN, run' = Halted(j, halt),
         NEW r \in Runs
  PROVE  /\ run'[r] \in RunRecords
         /\ run'[r].pc = run[r].pc /\ run'[r].job = run[r].job
         /\ run[r].job # j => run'[r] = run[r]
         /\ run[r].job = j => (run'[r].halted <=> halt) /\ run'[r].late = 0
         /\ RunFits(r)'
<1> DEFINE y == [run[r] EXCEPT !.halted = halt]
           x == [y EXCEPT !.late = 0]
<1>1. run[r] \in RunRecords /\ RunFits(r)
  BY JobFacts
<1>2. run'[r] = IF run[r].job = j THEN x ELSE run[r]
  BY DEF Halted
<1>3. /\ x \in RunRecords /\ x.pc = run[r].pc /\ x.job = run[r].job
      /\ x.steps = run[r].steps /\ x.result = run[r].result
      /\ (x.halted <=> halt) /\ x.late = 0
  <2>1. /\ y \in RunRecords /\ y.pc = run[r].pc /\ y.job = run[r].job
        /\ y.steps = run[r].steps /\ y.result = run[r].result /\ (y.halted <=> halt)
    BY <1>1 DEF RunRecords
  <2> HIDE DEF y
  <2>2. /\ x \in RunRecords /\ x.pc = y.pc /\ x.job = y.job /\ x.steps = y.steps
        /\ x.result = y.result /\ (x.halted <=> y.halted) /\ x.late = 0
    BY <2>1 DEF RunRecords
  <2>3. QED
    BY <2>1, <2>2
<1> HIDE DEF x
<1>4. CASE run[r].job # j
  BY <1>1, <1>2, <1>4 DEF RunFits
<1>5. CASE run[r].job = j
  <2>1. run[r].pc # "off"
    BY <1>1, <1>5, NoRunIs, JobFacts DEF RunFits
  <2>2. QED
    BY <1>1, <1>2, <1>3, <1>5, <2>1 DEF RunFits
<1>6. QED
  BY <1>4, <1>5

\* A step of the human that asks for a stop of j, or takes it back.
LEMMA HaltKeeps ==
  ASSUME JobsInv, NEW j \in Jobs, NEW halt \in BOOLEAN, run' = Halted(j, halt),
         UNCHANGED <<tick, running, lockedBy>>, CommandsFit',
         acts' \in 0 .. MaxActs, focusId' \in Jobs \cup {None},
         job' \in [Jobs -> JobRecords],
         \A i \in Jobs : i # j => job'[i] = job[i],
         job'[j].status # "running",
         halt => job'[j].status \in HumanStop
  PROVE  JobsInv'
<1>1. run' \in [Runs -> RunRecords]
  BY HaltedIs DEF Halted
<1>2. \A r \in Runs : RunFits(r)'
  BY HaltedIs
<1>3. \A t \in Ticks : TickFits(t)'
  BY DEF TickFits, JobsInv, JobsShaped
<1>4. JobsShaped'
  BY <1>1, <1>2, <1>3 DEF JobsInv, JobsShaped, CommandsFit
<1>5. AllOwned'
  <2> SUFFICES ASSUME NEW i \in Jobs, Status(i)' = "running" PROVE JobOwned(i)'
    BY DEF AllOwned
  <2>1. job[i].status = "running"
    BY DEF Status
  <2>2. JobOwned(i)
    BY <2>1, JobFacts DEF AllOwned, Status
  <2>3. CASE \E r \in Runs : Holds(r, i)
    BY <2>3, HaltedIs DEF Holds, JobOwned
  <2>4. CASE \E t \in Ticks : StartsJob(t, i)
    BY <2>4 DEF StartsJob, JobOwned
  <2>5. QED
    BY <2>2, <2>3, <2>4 DEF JobOwned
<1>6. \A r \in Runs : Calm(r) \/ Fresher(r)
  <2> SUFFICES ASSUME NEW r \in Runs PROVE Calm(r) \/ Fresher(r)
    OBVIOUS
  <2>1. CASE run[r].job = j
    BY <2>1, HaltedIs DEF Fresher
  <2>2. CASE run[r].job # j
    <3>1. run'[r] = run[r]
      BY <2>2, HaltedIs
    <3>2. run[r].job \in Jobs => Heeds(run[r].job)
      BY <2>2 DEF Heeds, Status
    <3>3. QED
      BY <3>1, <3>2, SameRunIsCalm
  <2>3. QED
    BY <2>1, <2>2
<1>7. AllSeen'
  BY <1>6, SeenStays
<1>8. QED
  BY <1>4, <1>5, <1>7 DEF JobsInv

\* What the human does to a job that is in the store.
LEMMA QueuedIs ==
  ASSUME JobsInv, NEW j \in Jobs, NEW lock \in Pages \cup {None},
         job' = Updated(j, "queued", lock, TRUE)
  PROVE  /\ job' \in [Jobs -> JobRecords] /\ job'[j].status # "running"
         /\ \A i \in Jobs : i # j => job'[i] = job[i]
<1> DEFINE x == Normalized("queued", lock)
<1>1. job' = IF Known(j) THEN [job EXCEPT ![j] = x] ELSE job
  BY DEF Updated, KeepsHumanStop
<1>2. x \in JobRecords /\ x.status = "queued"
  BY DEF Normalized, JobRecords, Statuses, ActiveState, LockHolding
<1> HIDE DEF x
<1>3. CASE Known(j)
  BY <1>1, <1>2, <1>3, JobFacts
<1>4. CASE ~ Known(j)
  BY <1>1, <1>4, JobFacts DEF Known, Status
<1>5. QED
  BY <1>3, <1>4

LEMMA RequeueKeeps ==
  ASSUME JobsInv, UNCHANGED acts, NEW k \in Commands, Requeue(k)
  PROVE  JobsInv'
<1> DEFINE j == cmd[k].job
<1>1. /\ cmd[k] \in CommandRecords /\ j \in Jobs /\ job[j] \in JobRecords
      /\ job[j].lock \in Pages \cup {None}
  BY JobFields, JobFacts DEF Requeue, JobsInv, JobsShaped
<1>2. CommandsFit'
  <2> DEFINE x == [cmd[k] EXCEPT !.pc = "locking"]
  <2>1. x \in CommandRecords /\ x.job = j
    BY <1>1 DEF CommandRecords
  <2>2. cmd' = [cmd EXCEPT ![k] = x]
    BY DEF Requeue
  <2> HIDE DEF x
  <2>3. QED
    BY <1>1, <2>1, <2>2, CommandsStay DEF CommandsFit
<1>3. job' = Updated(j, "queued", job[j].lock, TRUE) /\ run' = Halted(j, FALSE)
      /\ UNCHANGED <<focusId, tick, running, lockedBy>>
  BY DEF Requeue
<1>4. focusId' \in Jobs \cup {None} /\ acts' \in 0 .. MaxActs
  BY <1>3 DEF JobsInv, JobsShaped
<1> HIDE DEF j
<1>5. QED
  BY <1>1, <1>2, <1>3, <1>4, QueuedIs, HaltKeeps

LEMMA RelockKeeps ==
  ASSUME JobsInv, UNCHANGED acts, NEW k \in Commands, Relock(k)
  PROVE  JobsInv'
<1> DEFINE j == cmd[k].job
<1>1. cmd[k] \in CommandRecords /\ j \in Jobs
  BY JobFacts DEF Relock, JobsInv, JobsShaped
<1>2. CommandsFit'
  <2> DEFINE x == [cmd[k] EXCEPT !.pc = "tick"]
  <2>1. x \in CommandRecords /\ x.pc = "tick"
    BY <1>1 DEF CommandRecords
  <2>2. cmd' = [cmd EXCEPT ![k] = x]
    BY DEF Relock
  <2> HIDE DEF x
  <2>3. QED
    BY <2>1, <2>2, CommandsStay DEF CommandsFit
<1>3. job' = Updated(j, "queued", PageOf[j], TRUE) /\ run' = Halted(j, FALSE)
      /\ UNCHANGED <<tick, running, lockedBy>>
      /\ focusId' = IF Known(j) THEN j ELSE None
  BY DEF Relock
<1>4. focusId' \in Jobs \cup {None} /\ acts' \in 0 .. MaxActs
      /\ PageOf[j] \in Pages \cup {None}
  BY <1>1, <1>3, JobsAssumption DEF JobsInv, JobsShaped
<1> HIDE DEF j
<1>5. QED
  BY <1>1, <1>2, <1>3, <1>4, QueuedIs, HaltKeeps

LEMMA GivesUpKeeps ==
  ASSUME JobsInv, UNCHANGED acts, NEW k \in Commands, GivesUp(k)
  PROVE  JobsInv'
<1>1. CommandsFit'
  <2>1. Idle \in CommandRecords /\ Idle.pc = "idle"
    BY DEF Idle, CommandRecords
  <2>2. cmd' = [cmd EXCEPT ![k] = Idle]
    BY DEF GivesUp, Done
  <2>3. QED
    BY <2>1, <2>2, CommandsStay DEF CommandsFit
<1>2. \A i \in Jobs : Heeds(i)
  BY DEF GivesUp, Heeds, Status
<1>3. QED
  BY <1>1, <1>2, QuietKeeps DEF GivesUp, JobsInv, JobsShaped

LEMMA IssueFits ==
  ASSUME JobsInv, NEW k \in Commands, NEW pc \in {"resuming", "locking", "tick"},
         NEW j \in Jobs \cup {None}, pc \in {"resuming", "locking"} => j \in Jobs,
         Issue(k, pc, j)
  PROVE  CommandsFit'
<1> DEFINE x == [pc |-> pc, job |-> j]
<1>1. x \in CommandRecords /\ x.pc = pc /\ x.job = j
  BY DEF CommandRecords
<1>2. cmd' = [cmd EXCEPT ![k] = x]
  BY DEF Issue
<1> HIDE DEF x
<1>3. QED
  BY <1>1, <1>2, CommandsStay DEF CommandsFit

LEMMA ActsStep ==
  ASSUME JobsInv, acts < MaxActs, acts' = acts + 1
  PROVE  acts' \in 0 .. MaxActs
  BY JobFacts DEF JobsShaped

LEMMA SubmitKeeps ==
  ASSUME JobsInv, acts' \in 0 .. MaxActs, NEW k \in Commands, NEW j \in Jobs, Submit(k, j)
  PROVE  JobsInv'
<1> DEFINE x == Normalized("queued", PageOf[j])
<1>1. Status(j) = "absent" /\ job' = [job EXCEPT ![j] = x]
  BY DEF Submit, Lowest
<1>2. x \in JobRecords /\ x.status = "queued"
  BY JobsAssumption DEF Normalized, JobRecords, Statuses, ActiveState, LockHolding
<1> HIDE DEF x
<1>3. /\ job' \in [Jobs -> JobRecords]
      /\ \A i \in Jobs : Heeds(i)
      /\ \A i \in Jobs : job'[i].status = "running" => job[i].status = "running"
  BY <1>1, <1>2, JobFacts DEF Heeds, Status, HumanStop
<1>4. CommandsFit'
  BY IssueFits DEF Submit
<1>5. QED
  BY <1>3, <1>4, QuietKeeps DEF Submit, JobsInv, JobsShaped

LEMMA CommandKeeps ==
  ASSUME JobsInv, acts' \in 0 .. MaxActs, NEW k \in Commands, NEW j \in Jobs,
         RunQueue(k) \/ Resume(k, j) \/ Continue(k, j)
  PROVE  JobsInv'
<1>1. CommandsFit'
  BY IssueFits DEF RunQueue, Resume, Continue
<1>2. /\ UNCHANGED <<job, tick, running, run, lockedBy>>
      /\ focusId' \in {focusId, j}
  BY DEF RunQueue, Resume, Continue
<1>3. /\ focusId' \in Jobs \cup {None} /\ job' \in [Jobs -> JobRecords]
      /\ \A i \in Jobs : job'[i].status = "running" => job[i].status = "running"
  BY <1>2 DEF JobsInv, JobsShaped
<1>4. \A i \in Jobs : Heeds(i)
  BY <1>2 DEF Heeds, Status
<1>5. QED
  BY <1>1, <1>2, <1>3, <1>4, QuietKeeps

LEMMA HaltCommandKeeps ==
  ASSUME JobsInv, acts' \in 0 .. MaxActs, NEW j \in Jobs, NEW status \in HumanStop,
         Halt(j, status)
  PROVE  JobsInv'
<1>1. job' = Set(j, status) /\ Known(j) /\ focusId' \in Jobs \cup {None}
  BY FocusIs, JobFacts DEF Halt, Update, JobsShaped
<1>2. status \in Statuses \ {"absent", "gone"}
  BY Words
<1>3. /\ job' \in [Jobs -> JobRecords] /\ job'[j].status \in HumanStop
      /\ \A i \in Jobs : i # j => job'[i] = job[i]
  BY <1>1, <1>2, SetIs, JobFacts
<1>4. job'[j].status # "running"
  BY <1>3 DEF HumanStop
<1>5. CommandsFit' /\ UNCHANGED <<tick, running, lockedBy>> /\ run' = Halted(j, TRUE)
  BY CommandsStay DEF Halt, CommandsFit
<1>6. QED
  BY <1>1, <1>3, <1>4, <1>5, HaltKeeps

LEMMA ClearDoneKeeps ==
  ASSUME JobsInv, acts' \in 0 .. MaxActs, ClearDone
  PROVE  JobsInv'
<1> DEFINE gone == Normalized("gone", None)
<1>1. gone \in JobRecords /\ gone.status = "gone"
  BY DEF Normalized, JobRecords, Statuses, LockHolding
<1> HIDE DEF gone
<1>2. \A i \in Jobs : job'[i] = job[i] \/ (job'[i] = gone /\ Status(i) \in Clearable)
  BY DEF ClearDone, gone
<1>3. job' \in [Jobs -> JobRecords]
  BY <1>1, JobFacts DEF ClearDone, gone
<1>4. \A i \in Jobs : Heeds(i)
  BY <1>1, <1>2 DEF Heeds, Status
<1>5. \A i \in Jobs : job'[i].status = "running" => job[i].status = "running"
  BY <1>1, <1>2
<1>6. CommandsFit'
  BY CommandsStay DEF ClearDone, CommandsFit
<1>7. QED
  BY <1>3, <1>4, <1>5, <1>6, QuietKeeps DEF ClearDone, JobsInv, JobsShaped

\* Nothing is under way after a reload.
LEMMA FreshStart ==
  ASSUME job' \in [Jobs -> JobRecords], \A j \in Jobs : job'[j].status # "running",
         focusId' \in Jobs \cup {None},
         cmd' = [k \in Commands |-> Idle], tick' = [t \in Ticks |-> NoTick],
         running' = [j \in Jobs |-> None], run' = [r \in Runs |-> NoRun],
         lockedBy' = None, acts' \in 0 .. MaxActs
  PROVE  JobsInv'
<1>1. NoTick \in TickRecords /\ NoTick.pc = "idle" /\ NoTick.todo = << >>
  BY DEF NoTick, TickRecords
<1>2. Idle \in CommandRecords /\ Idle.pc = "idle"
  BY DEF Idle, CommandRecords
<1>3. \A t \in Ticks : TickFits(t)'
  BY <1>1 DEF TickFits
<1>4. \A r \in Runs : RunFits(r)' /\ Seen(r)'
  BY NoRunIs DEF RunFits, Seen
<1>5. JobsShaped'
  BY <1>1, <1>2, <1>3, <1>4, NoRunIs DEF JobsShaped
<1>6. AllOwned'
  BY DEF AllOwned, Status
<1>7. QED
  BY <1>4, <1>5, <1>6 DEF JobsInv, AllSeen

LEMMA ReloadKeeps ==
  ASSUME JobsInv, acts' \in 0 .. MaxActs, Reload
  PROVE  JobsInv'
<1> DEFINE paused == Normalized("paused", None)
<1>1. paused \in JobRecords /\ paused.status = "paused"
  BY DEF Normalized, JobRecords, Statuses, ActiveState, LockHolding
<1> HIDE DEF paused
<1>2. job' = [j \in Jobs |-> IF Status(j) \in Interrupted THEN paused ELSE job[j]]
  BY DEF Reload, paused
<1>3. job' \in [Jobs -> JobRecords] /\ \A j \in Jobs : job'[j].status # "running"
  BY <1>1, <1>2, JobFacts DEF Interrupted, Status
<1>4. focusId' \in Jobs \cup {None}
  BY DEF Reload, JobsInv, JobsShaped
<1>5. QED
  BY <1>3, <1>4, FreshStart DEF Reload

-----------------------------------------------------------------------------
(* The inductive invariant. *)
LEMMA JobsInitInv == JobsInit => JobsInv
<1> SUFFICES ASSUME JobsInit PROVE JobsInv
  OBVIOUS
<1>1. NoTick \in TickRecords /\ NoTick.pc = "idle" /\ NoTick.todo = << >>
  BY DEF NoTick, TickRecords
<1>2. Idle \in CommandRecords /\ Idle.pc = "idle"
  BY DEF Idle, CommandRecords
<1>3. \A t \in Ticks : TickFits(t)
  BY <1>1 DEF TickFits, JobsInit
<1>4. \A r \in Runs : RunFits(r) /\ Seen(r)
  BY NoRunIs DEF RunFits, Seen, JobsInit
<1>5. job \in [Jobs -> JobRecords] /\ \A j \in Jobs : Status(j) # "running"
  BY DEF JobsInit, JobRecords, Statuses, Status
<1>6. acts \in 0 .. MaxActs
  BY JobsAssumption DEF JobsInit
<1>7. JobsShaped
  BY <1>1, <1>2, <1>3, <1>4, <1>5, <1>6, NoRunIs DEF JobsShaped, JobsInit
<1>8. QED
  BY <1>4, <1>5, <1>7 DEF JobsInv, AllSeen, AllOwned

LEMMA JobsNextInv == JobsInv /\ [JobsNext]_jobsVars => JobsInv'
<1> SUFFICES ASSUME JobsInv, [JobsNext]_jobsVars PROVE JobsInv'
  OBVIOUS
<1>1. CASE Machine
  <2>1. UNCHANGED acts
    BY <1>1 DEF Machine
  <2>2. CASE Scheduling
    BY <2>1, <2>2, TickFocusedKeeps, TickStartedKeeps DEF Scheduling
  <2>3. ASSUME NEW r \in Runs, Running(r) PROVE JobsInv'
    BY <2>1, <2>3, RunTopKeeps, RunDecidesKeeps, RunHasLockKeeps, RunActsKeeps,
       RunActedKeeps, RunStoppedKeeps, RunSettlesKeeps, RunLeavesKeeps DEF Running
  <2>4. ASSUME NEW k \in Commands, Commanding(k) PROVE JobsInv'
    BY <2>1, <2>4, RequeueKeeps, RelockKeeps, GivesUpKeeps, PassesKeeps DEF Commanding
  <2>5. QED
    BY <1>1, <2>2, <2>3, <2>4 DEF Machine
<1>2. CASE Human
  <2>1. acts' \in 0 .. MaxActs
    BY <1>2, ActsStep DEF Human
  <2>2. ASSUME NEW k \in Commands, RunQueue(k) PROVE JobsInv'
    <3>1. CommandsFit'
      BY <2>2, IssueFits DEF RunQueue
    <3>2. \A i \in Jobs : Heeds(i)
      BY <2>2 DEF Heeds, Status, RunQueue
    <3>3. QED
      BY <2>1, <2>2, <3>1, <3>2, QuietKeeps DEF RunQueue, JobsInv, JobsShaped
  <2>3. ASSUME NEW k \in Commands, NEW j \in Jobs,
               Submit(k, j) \/ Resume(k, j) \/ Continue(k, j)
        PROVE  JobsInv'
    BY <2>1, <2>3, SubmitKeeps, CommandKeeps
  <2>4. ASSUME NEW j \in Jobs, NEW status \in HumanStop, Halt(j, status) PROVE JobsInv'
    BY <2>1, <2>4, HaltCommandKeeps
  <2>5. CASE ClearDone
    BY <2>1, <2>5, ClearDoneKeeps
  <2>6. CASE Reload
    BY <2>1, <2>6, ReloadKeeps
  <2>7. QED
    BY <1>2, <2>2, <2>3, <2>4, <2>5, <2>6 DEF Human
<1>3. CASE UNCHANGED jobsVars
  <2>1. /\ \A i \in Jobs : Heeds(i)
        /\ UNCHANGED <<tick, running, run, lockedBy, job, focusId, cmd, acts>>
    BY <1>3 DEF jobsVars, Heeds, Status
  <2>2. CommandsFit'
    BY <2>1, CommandsStay DEF CommandsFit
  <2>3. QED
    BY <2>1, <2>2, QuietKeeps DEF JobsInv, JobsShaped
<1>4. QED
  BY <1>1, <1>2, <1>3 DEF JobsNext

\* The shape of the state, the owner of every running job and what a stopped run may still do
\* fit in every reachable state, for any number of jobs, pages, runs and overlapping passes
\* (browser-job-scheduler.js, side-panel-scheduled-browser-job-runner.js).
THEOREM JobsInvariant == JobsSpec => []JobsInv
  BY JobsInitInv, JobsNextInv, PTL DEF JobsSpec

\* Who awaits a save of the store.
QueueTyped == behind \subseteq Ticks \X JobSavers

LEMMA AwaitsSaveIs ==
  ASSUME NEW saver \in JobSavers, NEW queue, queue \subseteq Ticks \X JobSavers
  PROVE  AwaitsSave(saver, queue) \subseteq Ticks \X JobSavers
  BY DEF AwaitsSave

LEMMA StartedGoesOn ==
  ASSUME NEW t, NEW r, TickStarted(t, r)
  PROVE  /\ tick[t].pc = "starting"
         /\ GoOn(t, Tail(tick[t].todo), [running EXCEPT ![Head(tick[t].todo)] = r], After(t))
  BY Zenon DEF TickStarted

\* Every step queues actors, or lets passes go.
LEMMA QueueKeeps ==
  ASSUME QueueTyped, [JobsNext]_jobsVars
  PROVE  QueueTyped'
<1>1. \A t \in Ticks : After(t) \subseteq Ticks \X JobSavers /\ <<"pass", t>> \in JobSavers
  BY DEF QueueTyped, After, JobSavers
<1>2. /\ \A r \in Runs : <<"run", r>> \in JobSavers
      /\ \A k \in Commands : <<"command", k>> \in JobSavers
  BY DEF JobSavers
<1>3. ASSUME NEW t \in Ticks, NEW todo, NEW map, NEW queue, queue \subseteq Ticks \X JobSavers,
             GoOn(t, todo, map, queue)
      PROVE  QueueTyped'
  BY <1>1, <1>3, AwaitsSaveIs DEF GoOn, QueueTyped
<1>4. ASSUME NEW t \in Ticks, NEW map, Begin(t, map) PROVE QueueTyped'
  BY <1>3, <1>4 DEF Begin, QueueTyped
<1>5. CASE Scheduling
  <2>1. ASSUME NEW t \in Ticks, TickFocused(t) PROVE QueueTyped'
    BY <1>1, <2>1, AwaitsSaveIs DEF TickFocused, QueueTyped
  <2>2. ASSUME NEW t \in Ticks, NEW r \in Runs, TickStarted(t, r) PROVE QueueTyped'
    BY <1>1, <1>3, <2>2, StartedGoesOn
  <2>3. QED
    BY <1>5, <2>1, <2>2 DEF Scheduling
<1>6. ASSUME NEW r \in Runs, Running(r) PROVE QueueTyped'
  <2>1. CASE \E t \in Ticks : RunLeaves(r, t)
    BY <1>4, <2>1 DEF RunLeaves
  <2>2. CASE ~ \E t \in Ticks : RunLeaves(r, t)
    <3>1. behind' \in {behind, AwaitsSave(<<"run", r>>, behind)}
      BY <1>6, <2>2 DEF Running, RunTop, RunDecides, RunHasLock, RunActs, RunActed, RunStopped,
                        RunSettles
    <3>2. QED
      BY <1>2, <3>1, AwaitsSaveIs DEF QueueTyped
  <2>3. QED
    BY <2>1, <2>2
<1>7. ASSUME NEW k \in Commands,
             \/ Commanding(k) \/ RunQueue(k)
             \/ \E j \in Jobs : Submit(k, j) \/ Resume(k, j) \/ Continue(k, j)
      PROVE  QueueTyped'
  <2>1. CASE \E t \in Ticks : Passes(k, t)
    BY <1>4, <2>1 DEF Passes
  <2>2. CASE ~ \E t \in Ticks : Passes(k, t)
    <3>1. behind' \in {behind, AwaitsSave(<<"command", k>>, behind)}
      BY <1>7, <2>2 DEF Commanding, Requeue, Relock, GivesUp, RunQueue, Submit, Resume, Continue,
                        Asked
    <3>2. QED
      BY <1>2, <3>1, AwaitsSaveIs DEF QueueTyped
  <2>3. QED
    BY <2>1, <2>2
<1>8. CASE UNCHANGED behind \/ behind' = {}
  BY <1>8 DEF QueueTyped
<1>9. QED
  BY <1>5, <1>6, <1>7, <1>8 DEF JobsNext, Machine, Human, Halt, ClearDone, Reload, jobsVars

\* The store, the scheduler, the runs and the commands keep their types.
THEOREM JobsTypeCorrect == JobsSpec => []JobsTypeOK
<1>1. JobsInv /\ QueueTyped => JobsTypeOK
  <2> SUFFICES ASSUME JobsInv, QueueTyped PROVE JobsTypeOK
    OBVIOUS
  <2>1. JobsShaped
    BY DEF JobsInv
  <2>2. \A t \in Ticks : /\ tick[t].pc \in {"idle", "focusing", "starting"}
                         /\ tick[t].todo \in Seq(Jobs)
                         /\ (tick[t].pc = "idle") = (tick[t].todo = << >>)
    BY <2>1 DEF JobsShaped, TickFits, TickRecords
  <2>3. DOMAIN tick = Ticks
    BY <2>1 DEF JobsShaped
  <2>4. QED
    BY <2>1, <2>2, <2>3
       DEF JobsShaped, JobsTypeOK, JobRecords, CommandRecords, RunRecords, RunPlaces, QueueTyped
<1>2. JobsInit => QueueTyped
  BY DEF JobsInit, QueueTyped
<1>3. QED
  BY <1>1, <1>2, QueueKeeps, JobsInvariant, PTL DEF JobsSpec

\* No job is left marked running without an execution, or a pass about to start one, that
\* will settle it (startJob and settleJob of browser-job-scheduler.js).
THEOREM RunningIsOwned == JobsSpec => []RunningHasOwner
<1>1. JobsInv => RunningHasOwner
  BY DEF JobsInv, AllOwned, JobOwned, Holds, StartsJob, RunningHasOwner, Live
<1>2. QED
  BY <1>1, JobsInvariant, PTL

\* A run acts at most once after its job was paused or cancelled, as long as the job is in the
\* store (stoppedJobStatus of agent-control-runner.js).
THEOREM StopsTakeHold == JobsSpec => []StopsAreSeen
<1>1. JobsInv => StopsAreSeen
  <2> SUFFICES ASSUME JobsInv, NEW r \in Runs
               PROVE  run[r].late <= 1 \/ Status(run[r].job) = "gone"
    BY DEF StopsAreSeen
  <2>1. run[r].late \in 0 .. 2 /\ Seen(r)
    BY RunFields, JobFacts
  <2>2. QED
    BY <2>1 DEF Seen
<1>2. QED
  BY <1>1, JobsInvariant, PTL

\* What a command of the human does on its way out of a stop.
TakesBack(j) ==
  \E k \in Commands : /\ cmd[k].job = j /\ cmd[k].pc \in {"resuming", "locking"}
                      /\ cmd'[k].pc \in {"locking", "tick"}

\* Only the writes of the human change a stop.
KeepsStop(j) == Stopped(j) /\ job'[j].status \notin HumanStop \cup {"gone"} => TakesBack(j)

LEMMA HeedsStops ==
  ASSUME NEW j \in Jobs, Heeds(j)
  PROVE  KeepsStop(j)
  BY DEF Heeds, KeepsStop, Stopped

LEMMA UpdateHeeds ==
  ASSUME JobsInv, NEW i \in Jobs, NEW w \in Statuses \ {"absent", "gone"},
         job' = Set(i, w), NEW j \in Jobs
  PROVE  KeepsStop(j)
  BY SetHeeds, HeedsStops

LEMMA SameHeeds ==
  ASSUME UNCHANGED job, NEW j \in Jobs
  PROVE  KeepsStop(j)
  BY DEF KeepsStop, Stopped, Status

LEMMA FocusedWrites ==
  ASSUME NEW t, TickFocused(t)
  PROVE  /\ tick[t].pc = "focusing"
         /\ UNCHANGED job \/ job' = Set(Head(tick[t].todo), "running")
  BY DEF TickFocused

LEMMA GoOnHeeds ==
  ASSUME JobsInv, NEW t \in Ticks, NEW todo \in Seq(Jobs), NEW map, NEW queue,
         GoOn(t, todo, map, queue),
         NEW j \in Jobs
  PROVE  KeepsStop(j)
<1>1. UNCHANGED job \/ \E i \in Jobs : job' = Set(i, "running")
  BY GoOnIs
<1>2. QED
  BY <1>1, SameHeeds, UpdateHeeds, Words

LEMMA SchedulingHeeds ==
  ASSUME JobsInv, Scheduling, NEW j \in Jobs
  PROVE  KeepsStop(j)
<1>1. PICK t \in Ticks : TickFocused(t) \/ \E r \in Runs : TickStarted(t, r)
  BY DEF Scheduling
<1>2. tick[t] \in TickRecords /\ TickFits(t)
  BY DEF JobsInv, JobsShaped
<1>3. tick[t].pc # "idle"
  BY <1>1, FocusedWrites, StartedGoesOn
<1>4. tick[t].todo \in Seq(Jobs) /\ tick[t].todo # << >>
  BY <1>2, <1>3 DEF TickFits, TickRecords
<1>5. Head(tick[t].todo) \in Jobs /\ Tail(tick[t].todo) \in Seq(Jobs)
  BY <1>4, HeadTailProperties
<1>6. CASE TickFocused(t)
  <2>1. UNCHANGED job \/ job' = Set(Head(tick[t].todo), "running")
    BY <1>6, FocusedWrites
  <2>2. QED
    BY <1>5, <2>1, SameHeeds, UpdateHeeds, Words
<1>7. ASSUME NEW r \in Runs, TickStarted(t, r) PROVE KeepsStop(j)
  <2> DEFINE map == [running EXCEPT ![Head(tick[t].todo)] = r]
  <2>1. GoOn(t, Tail(tick[t].todo), map, After(t))
    BY <1>7, StartedGoesOn
  <2> HIDE DEF map
  <2>2. QED
    BY <1>5, <2>1, GoOnHeeds
<1>8. QED
  BY <1>1, <1>6, <1>7

LEMMA RunHeeds ==
  ASSUME JobsInv, NEW r \in Runs, Running(r), NEW j \in Jobs
  PROVE  KeepsStop(j)
<1>1. CASE \E t \in Ticks : RunLeaves(r, t)
  BY <1>1, BeginIs, GoOnHeeds DEF RunLeaves
<1>2. CASE ~ \E t \in Ticks : RunLeaves(r, t)
  <2>1. run[r].job \in Jobs /\ (run[r].pc = "stopping" => run[r].result \in HumanStop)
    BY <1>2, JobFacts DEF Running, RunTop, RunDecides, RunHasLock, RunActs, RunActed,
       RunStopped, RunSettles, RunFits
  <2>2. \/ UNCHANGED job
        \/ \E w \in Statuses \ {"absent", "gone"} : job' = Set(run[r].job, w)
    <3>1. ASSUME NEW w \in Statuses \ {"absent", "gone"}, Finish(r, w)
          PROVE  \E v \in Statuses \ {"absent", "gone"} : job' = Set(run[r].job, v)
      BY <3>1 DEF Finish, Update
    <3>2. ASSUME StopRun(r)
          PROVE  \E v \in Statuses \ {"absent", "gone"} : job' = Set(run[r].job, v)
      BY <3>2, Words DEF StopRun, Update, Stopped
    <3>3. CASE RunTop(r)
      BY <3>1, <3>2, <3>3, Words DEF RunTop, Update
    <3>4. CASE RunDecides(r)
      BY <3>1, <3>2, <3>4, Words DEF RunDecides, Update
    <3>5. CASE RunHasLock(r)
      BY <3>1, <3>5, Words DEF RunHasLock, Stopped
    <3>6. CASE RunActs(r)
      BY <3>1, <3>6, Words DEF RunActs
    <3>7. CASE RunActed(r)
      BY <3>1, <3>2, <3>7, Words DEF RunActed, Update
    <3>8. CASE RunStopped(r)
      BY <2>1, <3>8, Words DEF RunStopped, Update
    <3>9. CASE RunSettles(r)
      BY <3>9, Words DEF RunSettles, Update
    <3>10. QED
      BY <1>2, <3>3, <3>4, <3>5, <3>6, <3>7, <3>8, <3>9 DEF Running
  <2>3. QED
    BY <2>1, <2>2, SameHeeds, UpdateHeeds
<1>3. QED
  BY <1>1, <1>2

LEMMA CommandingHeeds ==
  ASSUME JobsInv, NEW k \in Commands, Commanding(k), NEW j \in Jobs
  PROVE  KeepsStop(j)
<1>1. CASE \E t \in Ticks : Passes(k, t)
  BY <1>1, BeginIs, GoOnHeeds DEF Passes
<1>2. CASE GivesUp(k)
  BY <1>2, SameHeeds DEF GivesUp
<1>3. ASSUME NEW pc \in {"locking", "tick"}, cmd[k].pc \in {"resuming", "locking"},
             cmd' = [cmd EXCEPT ![k].pc = pc],
             NEW lock \in Pages \cup {None}, job' = Updated(cmd[k].job, "queued", lock, TRUE)
      PROVE  KeepsStop(j)
  <2>1. cmd[k] \in CommandRecords /\ cmd[k].job \in Jobs
    BY <1>3 DEF JobsInv, JobsShaped
  <2>2. CASE j = cmd[k].job
    <3>1. cmd'[k].pc = pc
      BY <1>3, <2>1, JobFacts DEF CommandRecords
    <3>2. TakesBack(j)
      BY <1>3, <2>2, <3>1 DEF TakesBack
    <3>3. QED
      BY <3>2 DEF KeepsStop
  <2>3. CASE j # cmd[k].job
    <3>1. job'[j] = job[j]
      BY <1>3, <2>1, <2>3, QueuedIs
    <3>2. QED
      BY <3>1 DEF KeepsStop, Stopped, Status
  <2>4. QED
    BY <2>2, <2>3
<1>4. CASE Requeue(k)
  <2>1. cmd[k].job \in Jobs
    BY <1>4 DEF Requeue, JobsInv, JobsShaped
  <2>2. job[cmd[k].job].lock \in Pages \cup {None}
    BY <2>1, JobFields, JobFacts
  <2>3. QED
    BY <1>3, <1>4, <2>2 DEF Requeue
<1>5. CASE Relock(k)
  <2>1. cmd[k].job \in Jobs
    BY <1>5 DEF Relock, JobsInv, JobsShaped
  <2>2. PageOf[cmd[k].job] \in Pages \cup {None}
    BY <2>1, JobsAssumption
  <2>3. QED
    BY <1>3, <1>5, <2>2 DEF Relock
<1>6. QED
  BY <1>1, <1>2, <1>4, <1>5 DEF Commanding

LEMMA HumanHeeds ==
  ASSUME JobsInv, Human, NEW j \in Jobs
  PROVE  KeepsStop(j)
<1>1. CASE UNCHANGED job
  BY <1>1, SameHeeds
<1>2. ASSUME NEW i \in Jobs, NEW k \in Commands, Submit(k, i) PROVE KeepsStop(j)
  <2>1. job[i].status = "absent"
    BY <1>2 DEF Submit, Lowest, Status
  <2>2. j # i => job'[j] = job[j]
    BY <1>2, JobFacts DEF Submit
  <2>3. QED
    BY <2>1, <2>2 DEF KeepsStop, Stopped, Status, HumanStop
<1>3. ASSUME NEW i \in Jobs, NEW status \in HumanStop, Halt(i, status) PROVE KeepsStop(j)
  BY <1>3, UpdateHeeds, Words DEF Halt, Update
<1>4. CASE ClearDone
  BY <1>4 DEF ClearDone, KeepsStop, Stopped, Status, Normalized
<1>5. CASE Reload
  <2>1. job'[j] = IF Status(j) \in Interrupted THEN Normalized("paused", None) ELSE job[j]
    BY <1>5 DEF Reload
  <2>2. QED
    BY <2>1 DEF KeepsStop, Stopped, Status, Interrupted, HumanStop
<1>6. QED
  BY <1>1, <1>2, <1>3, <1>4, <1>5 DEF Human, RunQueue, Resume, Continue

\* No write but those of /resume and /continue takes a job out of a stop of the human
\* (updateJob of browser-job-store.js).
THEOREM StopsStand == JobsSpec => StopsAreKept
<1>1. ASSUME JobsInv, [JobsNext]_jobsVars PROVE \A j \in Jobs : KeepsStop(j)
  <2> SUFFICES ASSUME NEW j \in Jobs PROVE KeepsStop(j)
    OBVIOUS
  <2>1. CASE Machine
    <3>1. CASE Scheduling
      BY <1>1, <3>1, SchedulingHeeds
    <3>2. QED
      BY <1>1, <2>1, <3>1, RunHeeds, CommandingHeeds DEF Machine
  <2>2. CASE Human
    BY <1>1, <2>2, HumanHeeds
  <2>3. CASE UNCHANGED jobsVars
    BY <2>3, SameHeeds DEF jobsVars
  <2>4. QED
    BY <1>1, <2>1, <2>2, <2>3 DEF JobsNext
<1>2. QED
  BY <1>1, JobsInvariant, PTL DEF JobsSpec, StopsAreKept, KeepsStop, TakesBack

-----------------------------------------------------------------------------
(***************************************************************************)
(* The chats.                                                              *)
(***************************************************************************)

\* Functions from some numbers.
Books(T) == UNION {[S -> T] : S \in SUBSET Nat}

\* The records of the model.
ChatRecords == [says : SUBSET Nat, archived : BOOLEAN, project : Nat, folder : Nat]
Copies == [chats : Books(ChatRecords), active : Nat, view : SUBSET Nat,
           projects : Books(BOOLEAN), folders : Books(Nat)]
Counts == [chats : Nat, messages : Nat, projects : Nat, folders : Nat]

\* A chat in a folder is in the project of that folder.
Housed(d) ==
  \A s \in DOMAIN d.chats :
    d.chats[s].folder # 0 => /\ d.chats[s].folder \in DOMAIN d.folders
                             /\ d.folders[d.chats[s].folder] = d.chats[s].project

\* A copy of the chats that is sound, and has nothing in it that was not made: m is what
\* was made so far, b what was said in each chat.
FitsIn(d, m, b) ==
  /\ d \in Copies
  /\ DOMAIN d.chats \subseteq DOMAIN b /\ d.view \subseteq 1 .. m.messages
  /\ DOMAIN d.projects \subseteq 1 .. m.projects
  /\ DOMAIN d.folders \subseteq 1 .. m.folders
  /\ d.chats # EmptyFun => d.active \in DOMAIN d.chats /\ d.view = d.chats[d.active].says
  /\ \A s \in DOMAIN d.chats : d.chats[s].says \subseteq b[s]
  /\ Housed(d)
Fits(d) == FitsIn(d, made, belongs)

-----------------------------------------------------------------------------
LEMMA BookIs ==
  ASSUME NEW T, NEW f
  PROVE  f \in Books(T) <=> f \in [DOMAIN f -> T] /\ DOMAIN f \subseteq Nat
<1>1. ASSUME f \in Books(T) PROVE f \in [DOMAIN f -> T] /\ DOMAIN f \subseteq Nat
  BY <1>1 DEF Books
<1>2. ASSUME f \in [DOMAIN f -> T], DOMAIN f \subseteq Nat PROVE f \in Books(T)
  <2>1. DOMAIN f \in SUBSET Nat
    BY <1>2
  <2>2. [DOMAIN f -> T] \in {[S -> T] : S \in SUBSET Nat}
    BY <2>1
  <2>3. QED
    BY <1>2, <2>2 DEF Books
<1>3. QED
  BY <1>1, <1>2

LEMMA EmptyIs ==
  ASSUME NEW T
  PROVE  EmptyFun \in Books(T) /\ DOMAIN EmptyFun = {}
<1>1. DOMAIN EmptyFun = {} /\ EmptyFun \in [{} -> T]
  BY DEF EmptyFun
<1>2. QED
  BY <1>1, BookIs

LEMMA EmptyWhen ==
  ASSUME NEW T, NEW f \in Books(T)
  PROVE  f = EmptyFun <=> DOMAIN f = {}
<1>1. f \in [DOMAIN f -> T]
  BY BookIs
<1>2. QED
  BY <1>1 DEF EmptyFun

LEMMA WithIs ==
  ASSUME NEW T, NEW f \in Books(T), NEW x \in Nat, NEW v \in T
  PROVE  /\ With(f, x, v) \in Books(T)
         /\ DOMAIN With(f, x, v) = DOMAIN f \cup {x} /\ With(f, x, v)[x] = v
         /\ \A y \in DOMAIN f \ {x} : With(f, x, v)[y] = f[y]
<1>1. f \in [DOMAIN f -> T] /\ DOMAIN f \subseteq Nat
  BY BookIs
<1>2. /\ DOMAIN With(f, x, v) = DOMAIN f \cup {x} /\ With(f, x, v)[x] = v
      /\ \A y \in DOMAIN f \ {x} : With(f, x, v)[y] = f[y]
      /\ With(f, x, v) \in [DOMAIN f \cup {x} -> T]
  BY <1>1 DEF With
<1> HIDE DEF With
<1>3. With(f, x, v) \in Books(T)
  BY <1>1, <1>2, BookIs
<1>4. QED
  BY <1>2, <1>3, EmptyWhen

LEMMA OmitIs ==
  ASSUME NEW T, NEW f \in Books(T), NEW x
  PROVE  /\ Omit(f, x) \in Books(T)
         /\ DOMAIN Omit(f, x) = DOMAIN f \ {x}
         /\ \A y \in DOMAIN f \ {x} : Omit(f, x)[y] = f[y]
<1>1. f \in [DOMAIN f -> T] /\ DOMAIN f \subseteq Nat
  BY BookIs
<1>2. /\ DOMAIN Omit(f, x) = DOMAIN f \ {x}
      /\ \A y \in DOMAIN f \ {x} : Omit(f, x)[y] = f[y]
      /\ Omit(f, x) \in [DOMAIN f \ {x} -> T]
  BY <1>1 DEF Omit
<1> HIDE DEF Omit
<1>3. QED
  BY <1>1, <1>2, BookIs

\* A set of numbers up to m, if there are any, has a greatest one.
LEMMA MaxIs ==
  ASSUME NEW m \in Nat, NEW S \in SUBSET (0 .. m), S # {}
  PROVE  Max(S) \in S /\ \A y \in S : y <= Max(S)
<1> DEFINE T == {b \in Nat : \A y \in S : y <= b}
<1>1. T \subseteq Nat /\ m \in T
  OBVIOUS
<1>2. PICK b \in T : \A c \in T : ~ (<<c, b>> \in OpToRel(<, Nat))
  BY <1>1, NatLessThanWellFounded, WFMin
<1>3. \A c \in T : ~ (c < b)
  BY <1>1, <1>2 DEF OpToRel
<1>4. b \in S
  <2>1. SUFFICES ASSUME b \notin S PROVE FALSE
    OBVIOUS
  <2>2. PICK z : z \in S
    OBVIOUS
  <2>3. b \in Nat /\ \A y \in S : y \in Nat /\ y < b
    BY <2>1
  <2>4. b - 1 \in Nat /\ \A y \in S : y <= b - 1
    BY <2>2, <2>3
  <2>5. b - 1 \in T
    BY <2>4
  <2>6. QED
    BY <1>3, <2>3, <2>5
<1>5. \E x \in S : \A y \in S : x >= y
  BY <1>4
<1>6. Max(S) \in S /\ \A y \in S : Max(S) >= y
  BY <1>5 DEF Max
<1>7. QED
  BY <1>6

-----------------------------------------------------------------------------
(* What the helpers make of a copy. *)

LEMMA CopyFields ==
  ASSUME NEW h \in Copies
  PROVE  /\ h.chats \in Books(ChatRecords) /\ h.active \in Nat /\ h.view \in SUBSET Nat
         /\ h.projects \in Books(BOOLEAN) /\ h.folders \in Books(Nat)
         /\ DOMAIN h.chats \subseteq Nat
         /\ \A s \in DOMAIN h.chats : h.chats[s] \in ChatRecords
         /\ DOMAIN h.folders \subseteq Nat /\ \A f \in DOMAIN h.folders : h.folders[f] \in Nat
         /\ (h.chats = EmptyFun <=> DOMAIN h.chats = {})
<1>1. /\ h.chats \in Books(ChatRecords) /\ h.active \in Nat /\ h.view \in SUBSET Nat
      /\ h.projects \in Books(BOOLEAN) /\ h.folders \in Books(Nat)
  BY DEF Copies
<1>2. h.chats \in [DOMAIN h.chats -> ChatRecords] /\ DOMAIN h.chats \subseteq Nat
  BY <1>1, BookIs
<1>3. h.folders \in [DOMAIN h.folders -> Nat] /\ DOMAIN h.folders \subseteq Nat
  BY <1>1, BookIs
<1>4. h.chats = EmptyFun <=> DOMAIN h.chats = {}
  BY <1>1, EmptyWhen
<1>5. QED
  BY <1>1, <1>2, <1>3, <1>4

LEMMA ChatFields ==
  ASSUME NEW c \in ChatRecords
  PROVE  /\ c.says \in SUBSET Nat /\ c.archived \in BOOLEAN
         /\ c.project \in Nat /\ c.folder \in Nat
  BY DEF ChatRecords

LEMMA BlankIs ==
  ASSUME NEW v \in SUBSET Nat
  PROVE  /\ BlankChat(v) \in ChatRecords /\ BlankChat(v).says = v
         /\ BlankChat(v).archived = FALSE /\ BlankChat(v).project = 0
         /\ BlankChat(v).folder = 0
  BY DEF BlankChat, ChatRecords

\* The chats of a copy exchanged for others.
LEMMA RechattedIs ==
  ASSUME NEW h \in Copies, NEW f \in Books(ChatRecords)
  PROVE  /\ [h EXCEPT !.chats = f] \in Copies /\ [h EXCEPT !.chats = f].chats = f
         /\ [h EXCEPT !.chats = f].active = h.active /\ [h EXCEPT !.chats = f].view = h.view
         /\ [h EXCEPT !.chats = f].projects = h.projects
         /\ [h EXCEPT !.chats = f].folders = h.folders
  BY DEF Copies

LEMMA ShowingIs ==
  ASSUME NEW h \in Copies, NEW s \in DOMAIN h.chats
  PROVE  /\ Showing(h, s) \in Copies /\ Showing(h, s).chats = h.chats
         /\ Showing(h, s).active = s /\ Showing(h, s).view = h.chats[s].says
         /\ Showing(h, s).projects = h.projects /\ Showing(h, s).folders = h.folders
<1>1. s \in Nat /\ h.chats[s].says \in SUBSET Nat
  BY CopyFields, ChatFields
<1>2. QED
  BY <1>1 DEF Showing, Copies

\* The copy k is the copy h with the chat c as number s, shown.
Adds(k, h, s, c) ==
  /\ k \in Copies /\ k.chats # EmptyFun
  /\ DOMAIN k.chats = DOMAIN h.chats \cup {s} /\ k.chats[s] = c
  /\ \A t \in DOMAIN h.chats \ {s} : k.chats[t] = h.chats[t]
  /\ k.active = s /\ k.view = c.says
  /\ k.projects = h.projects /\ k.folders = h.folders

LEMMA AddingIs ==
  ASSUME NEW h \in Copies, NEW s \in Nat, NEW c \in ChatRecords
  PROVE  Adds(Adding(h, s, c), h, s, c)
<1> DEFINE f == With(h.chats, s, c)
           g == [h EXCEPT !.chats = f]
<1>0. h.chats \in Books(ChatRecords)
  BY CopyFields
<1>1. /\ f \in Books(ChatRecords) /\ f # EmptyFun
      /\ DOMAIN f = DOMAIN h.chats \cup {s} /\ f[s] = c
      /\ \A t \in DOMAIN h.chats \ {s} : f[t] = h.chats[t]
  <2>1. h.chats \in [DOMAIN h.chats -> ChatRecords] /\ DOMAIN h.chats \subseteq Nat
    BY <1>0, BookIs
  <2>2. /\ DOMAIN f = DOMAIN h.chats \cup {s} /\ f[s] = c
        /\ \A t \in DOMAIN h.chats \ {s} : f[t] = h.chats[t]
    BY <2>1 DEF With
  <2>3. f \in Books(ChatRecords)
    BY <1>0, WithIs
  <2>4. f # EmptyFun
    BY <2>2, EmptyIs
  <2>5. QED
    BY <2>2, <2>3, <2>4
<1>2. Adding(h, s, c) = Showing(g, s)
  BY DEF Adding
<1> HIDE DEF f
<1>3. /\ g \in Copies /\ g.chats = f /\ g.active = h.active /\ g.view = h.view
      /\ g.projects = h.projects /\ g.folders = h.folders
  BY <1>1, RechattedIs
<1> HIDE DEF g
<1>4. QED
  BY <1>1, <1>2, <1>3, ShowingIs DEF Adds

\* One chat of a copy exchanged for another.
LEMMA RecordedIs ==
  ASSUME NEW h \in Copies, NEW s \in DOMAIN h.chats, NEW c \in ChatRecords,
         NEW g, g = [h EXCEPT !.chats[s] = c]
  PROVE  /\ g \in Copies /\ DOMAIN g.chats = DOMAIN h.chats /\ g.chats[s] = c
         /\ \A t \in DOMAIN h.chats \ {s} : g.chats[t] = h.chats[t]
         /\ g.active = h.active /\ g.view = h.view
         /\ g.projects = h.projects /\ g.folders = h.folders
<1> DEFINE f == [h.chats EXCEPT ![s] = c]
<1>1. h.chats \in [DOMAIN h.chats -> ChatRecords] /\ DOMAIN h.chats \subseteq Nat
  BY CopyFields, BookIs
<1>2. /\ f \in [DOMAIN f -> ChatRecords] /\ DOMAIN f = DOMAIN h.chats /\ f[s] = c
      /\ \A t \in DOMAIN h.chats \ {s} : f[t] = h.chats[t]
  BY <1>1
<1>3. f \in Books(ChatRecords)
  BY <1>1, <1>2, BookIs
<1>4. g = [h EXCEPT !.chats = f]
  OBVIOUS
<1> HIDE DEF f
<1>5. QED
  BY <1>2, <1>3, <1>4, RechattedIs

\* The number of a new chat is one nobody has had.
LEMMA NextIs ==
  ASSUME made \in Counts, NEW h \in Copies, DOMAIN h.chats \subseteq 1 .. made.chats + 1
  PROVE  /\ NextChat(h) \in made.chats + 1 .. made.chats + 2
         /\ NextChat(h) \notin DOMAIN h.chats
         /\ DOMAIN h.chats \subseteq 1 .. made.chats => NextChat(h) = made.chats + 1
<1> DEFINE S == {made.chats} \cup DOMAIN h.chats
<1>1. made.chats \in Nat
  BY DEF Counts
<1>2. S \in SUBSET (0 .. made.chats + 1) /\ S # {} /\ made.chats + 1 \in Nat
  BY <1>1
<1>3. Max(S) \in S /\ \A y \in S : y <= Max(S)
  BY <1>2, MaxIs
<1>4. NextChat(h) = Max(S) + 1
  BY DEF NextChat
<1> DEFINE x == Max(S)
<1> HIDE DEF x
<1>5. x \in S /\ (\A y \in S : y <= x) /\ NextChat(h) = x + 1
  BY <1>3, <1>4 DEF x
<1>6. x \in Nat /\ made.chats <= x /\ x <= made.chats + 1
  BY <1>1, <1>2, <1>5
<1>7. x + 1 \notin DOMAIN h.chats
  BY <1>5, <1>6
<1>8. DOMAIN h.chats \subseteq 1 .. made.chats => x <= made.chats
  BY <1>1, <1>5
<1>9. QED
  BY <1>1, <1>5, <1>6, <1>7, <1>8

\* The latest of the chats of a copy.
LEMMA LatestIs ==
  ASSUME made \in Counts, NEW S, S \subseteq 1 .. made.chats + 2, S # {}
  PROVE  Max(S) \in S
<1>1. made.chats + 2 \in Nat /\ S \in SUBSET (0 .. made.chats + 2)
  BY DEF Counts
<1>2. QED
  BY <1>1, MaxIs

-----------------------------------------------------------------------------
(***************************************************************************)
(* The inductive invariant, and what a write makes of it.                  *)
(***************************************************************************)

\* The last of the reads that have come back found what is stored, or the surface shows it.
Follows(w) ==
  IF reads[w] # << >> THEN reads[w][Len(reads[w])] = stored
  ELSE IF Shelf(stored) # {} THEN held[w] = Hydrated(stored)
  ELSE DOMAIN stored.chats \subseteq DOMAIN held[w].chats

ChatShaped ==
  /\ opened \subseteq Surfaces /\ apart \subseteq opened
  /\ due \in [Surfaces -> Nat] /\ reads \in [Surfaces -> Seq(Copies)]
  /\ DOMAIN held = Surfaces /\ held = [w \in Surfaces |-> held[w]]
  /\ made \in Counts /\ visit \in [changes : Nat, opens : Nat, faults : Nat]
  /\ DOMAIN belongs \subseteq 1 .. made.chats
  /\ \A s \in DOMAIN belongs : belongs[s] \subseteq 1 .. made.messages
  /\ \A w \in Surfaces \ opened : held[w] = Untold /\ reads[w] = << >> /\ due[w] = 0

AllFit ==
  /\ Fits(stored)
  /\ \A w \in Surfaces : Fits(held[w]) /\ \A i \in DOMAIN reads[w] : Fits(reads[w][i])

AllFollow == \A w \in opened \ apart : due[w] = 0 => Follows(w)

ChatInv == ChatShaped /\ AllFit /\ AllFollow

\* What was made so far, one thing more or none.
Grown(n) ==
  /\ n \in Counts /\ n.chats = made.chats /\ n.messages >= made.messages
  /\ n.projects >= made.projects /\ n.folders >= made.folders

\* What a change may make of the memory, before it is brought up to date: its chats, and
\* what is in view.
Filed(h, n) ==
  /\ h \in Copies /\ DOMAIN h.chats \subseteq 1 .. made.chats + 2
  /\ \A s \in DOMAIN h.chats : h.chats[s].says \subseteq 1 .. n.messages
  /\ \A s \in DOMAIN h.chats \cap DOMAIN belongs : h.chats[s].says \subseteq belongs[s]
  /\ DOMAIN h.projects \subseteq 1 .. n.projects
  /\ DOMAIN h.folders \subseteq 1 .. n.folders
  /\ Housed(h)
Seated(h, n) ==
  /\ h.view \subseteq 1 .. n.messages
  /\ h.chats # EmptyFun => h.active \in DOMAIN h.chats
  /\ h.active \in DOMAIN h.chats \cap DOMAIN belongs =>
       h.view \subseteq belongs[h.active]
                        \cup (IF n.messages # made.messages THEN {n.messages} ELSE {})
Loose(h, n) == Filed(h, n) /\ Seated(h, n)

\* writeActiveSession: the chat that is active takes the messages in view.
LEMMA WrittenIs ==
  ASSUME made \in Counts, NEW h \in Copies, DOMAIN h.chats \subseteq 1 .. made.chats + 2,
         h.chats # EmptyFun => h.active \in DOMAIN h.chats
  PROVE  /\ Written(h) \in Copies
         /\ Written(h).chats # EmptyFun /\ Written(h).active \in DOMAIN Written(h).chats
         /\ Written(h).view = h.view /\ Written(h).chats[Written(h).active].says = h.view
         /\ h.chats # EmptyFun =>
              /\ DOMAIN Written(h).chats = DOMAIN h.chats /\ Written(h).active = h.active
              /\ Written(h).chats[h.active].archived = h.chats[h.active].archived
              /\ Written(h).chats[h.active].project = h.chats[h.active].project
              /\ Written(h).chats[h.active].folder = h.chats[h.active].folder
              /\ \A t \in DOMAIN h.chats \ {h.active} : Written(h).chats[t] = h.chats[t]
         /\ h.chats = EmptyFun =>
              /\ Written(h).active = made.chats + 1
              /\ DOMAIN Written(h).chats = {made.chats + 1}
              /\ Written(h).chats[made.chats + 1].folder = 0
         /\ Written(h).projects = h.projects /\ Written(h).folders = h.folders
<1>1. h.view \in SUBSET Nat /\ made.chats \in Nat
  BY CopyFields DEF Counts
<1>2. CASE h.chats = EmptyFun
  <2>1. DOMAIN h.chats = {}
    BY <1>2, CopyFields
  <2>2. NextChat(h) = made.chats + 1 /\ NextChat(h) \in Nat
    BY <1>1, <2>1, NextIs
  <2>3. Written(h) = Adding(h, NextChat(h), BlankChat(h.view))
    BY <1>2 DEF Written
  <2>4. QED
    <3>1. BlankChat(h.view) \in ChatRecords /\ BlankChat(h.view).says = h.view
          /\ BlankChat(h.view).folder = 0
      BY <1>1, BlankIs
    <3> DEFINE k == Adding(h, NextChat(h), BlankChat(h.view))
    <3>2. /\ k \in Copies /\ DOMAIN k.chats = DOMAIN h.chats \cup {NextChat(h)}
          /\ k.chats[NextChat(h)] = BlankChat(h.view) /\ k.chats # EmptyFun
          /\ k.active = NextChat(h) /\ k.view = BlankChat(h.view).says
          /\ k.projects = h.projects /\ k.folders = h.folders
      BY <2>2, <3>1, AddingIs DEF Adds
    <3> HIDE DEF k
    <3>3. QED
      BY <1>2, <2>1, <2>2, <2>3, <3>1, <3>2 DEF k
<1>3. CASE h.chats # EmptyFun
  <2> DEFINE a == h.active
             c == [h.chats[a] EXCEPT !.says = h.view]
             g == [h EXCEPT !.chats[a] = c]
  <2>1. a \in DOMAIN h.chats /\ a \in Nat /\ h.chats[a] \in ChatRecords
    BY <1>3, CopyFields
  <2>2. /\ c \in ChatRecords /\ c.says = h.view /\ c.archived = h.chats[a].archived
        /\ c.project = h.chats[a].project /\ c.folder = h.chats[a].folder
    BY <1>1, <2>1 DEF ChatRecords
  <2>3. Written(h) = [h EXCEPT !.active = a, !.chats[a].says = h.view]
    BY <1>3, <2>1 DEF Written
  <2>4. /\ g \in Copies /\ DOMAIN g.chats = DOMAIN h.chats /\ g.chats[a] = c
        /\ \A t \in DOMAIN h.chats \ {a} : g.chats[t] = h.chats[t]
        /\ g.active = h.active /\ g.view = h.view
        /\ g.projects = h.projects /\ g.folders = h.folders
    BY <2>1, <2>2, RecordedIs
  <2>5. Written(h) = g
    BY <2>1, <2>3 DEF Copies
  <2> HIDE DEF c, g
  <2>6. g.chats # EmptyFun
    BY <2>1, <2>4, CopyFields
  <2>7. QED
    BY <1>3, <2>1, <2>2, <2>4, <2>5, <2>6
<1>4. QED
  BY <1>2, <1>3

\* A copy that fits goes on fitting.
LEMMA FitsOn ==
  ASSUME NEW d, NEW m \in Counts, NEW b, NEW n \in Counts, NEW c, FitsIn(d, m, b),
         n.messages >= m.messages, n.projects >= m.projects, n.folders >= m.folders,
         DOMAIN b \subseteq DOMAIN c, \A s \in DOMAIN b : b[s] \subseteq c[s]
  PROVE  FitsIn(d, n, c)
<1>1. /\ m.messages \in Nat /\ m.projects \in Nat /\ m.folders \in Nat
      /\ n.messages \in Nat /\ n.projects \in Nat /\ n.folders \in Nat
  BY DEF Counts
<1>2. \A s \in DOMAIN d.chats : d.chats[s].says \subseteq c[s]
  BY DEF FitsIn
<1>3. /\ d.view \subseteq 1 .. n.messages /\ DOMAIN d.projects \subseteq 1 .. n.projects
      /\ DOMAIN d.folders \subseteq 1 .. n.folders
  BY <1>1 DEF FitsIn
<1>4. QED
  BY <1>2, <1>3 DEF FitsIn

\* A copy brought up to date fits, and is what the write leaves in memory.
LEMMA WriteFits ==
  ASSUME ChatShaped, NEW n, NEW h, Grown(n), Loose(h, n), NEW w \in opened, Persists(w, h, n)
  PROVE  /\ FitsIn(Written(h), made', belongs') /\ held'[w] = Written(h)
         /\ made' \in Counts /\ made'.messages >= made.messages
         /\ made'.projects >= made.projects /\ made'.folders >= made.folders
         /\ DOMAIN belongs \subseteq DOMAIN belongs'
         /\ \A s \in DOMAIN belongs : belongs[s] \subseteq belongs'[s]
         /\ DOMAIN belongs' \subseteq 1 .. made'.chats
         /\ \A s \in DOMAIN belongs' : belongs'[s] \subseteq 1 .. made'.messages
<1> DEFINE k == Written(h)
           news == IF n.messages # made.messages THEN {n.messages} ELSE {}
           S == {n.chats} \cup DOMAIN k.chats
<1>1. /\ made \in Counts /\ h \in Copies /\ DOMAIN h.chats \subseteq 1 .. made.chats + 2
      /\ h.chats # EmptyFun => h.active \in DOMAIN h.chats
      /\ made.chats \in Nat /\ made.messages \in Nat
  BY DEF Loose, Filed, Seated, ChatShaped, Counts
<1>2. /\ n.chats = made.chats /\ n.chats \in Nat /\ n.messages \in Nat
      /\ n.messages >= made.messages /\ n.projects \in Nat /\ n.folders \in Nat
      /\ n.projects >= made.projects /\ n.folders >= made.folders
  BY DEF Grown, Counts
<1>3. /\ k \in Copies /\ k.chats # EmptyFun /\ k.active \in DOMAIN k.chats
      /\ k.view = h.view /\ k.chats[k.active].says = h.view
      /\ h.chats # EmptyFun =>
           /\ DOMAIN k.chats = DOMAIN h.chats /\ k.active = h.active
           /\ k.chats[h.active].archived = h.chats[h.active].archived
           /\ k.chats[h.active].project = h.chats[h.active].project
           /\ k.chats[h.active].folder = h.chats[h.active].folder
           /\ \A t \in DOMAIN h.chats \ {h.active} : k.chats[t] = h.chats[t]
      /\ h.chats = EmptyFun =>
           /\ k.active = made.chats + 1 /\ DOMAIN k.chats = {made.chats + 1}
           /\ k.chats[made.chats + 1].folder = 0
      /\ k.projects = h.projects /\ k.folders = h.folders
  BY <1>1, WrittenIs
<1>4. /\ held' = [held EXCEPT ![w] = k]
      /\ made' = [n EXCEPT !.chats = Max({@} \cup DOMAIN k.chats)]
      /\ belongs' = [s \in DOMAIN belongs \cup DOMAIN k.chats |->
                       IF s \in DOMAIN belongs
                         THEN belongs[s] \cup (IF s = k.active /\ n.messages # made.messages
                                                 THEN {n.messages} ELSE {})
                         ELSE k.chats[s].says]
  BY DEF Persists
<1> HIDE DEF k
<1>5. DOMAIN k.chats \subseteq 1 .. made.chats + 2
  BY <1>1, <1>3
<1>6. S \in SUBSET (0 .. made.chats + 2) /\ S # {} /\ made.chats + 2 \in Nat
  BY <1>1, <1>2, <1>5
<1>7. Max(S) \in S /\ \A y \in S : y <= Max(S)
  BY <1>6, MaxIs
<1>8. /\ made' \in Counts /\ made'.chats = Max(S) /\ made'.messages = n.messages
      /\ made'.projects = n.projects /\ made'.folders = n.folders
  <2>1. Max(S) \in Nat
    BY <1>6, <1>7
  <2>2. made' = [n EXCEPT !.chats = Max(S)]
    BY <1>4
  <2> HIDE DEF S
  <2>3. QED
    BY <2>1, <2>2 DEF Counts, Grown
<1>9. /\ DOMAIN belongs' = DOMAIN belongs \cup DOMAIN k.chats
      /\ \A s \in DOMAIN belongs : belongs'[s] = IF s = k.active THEN belongs[s] \cup news
                                                                   ELSE belongs[s]
      /\ \A s \in DOMAIN k.chats \ DOMAIN belongs : belongs'[s] = k.chats[s].says
  BY <1>4
<1> HIDE DEF S
<1>10. DOMAIN belongs' \subseteq 1 .. made'.chats
  <2>1. DOMAIN belongs \subseteq 1 .. made.chats
    BY DEF ChatShaped
  <2>2. Max(S) \in Nat /\ made.chats <= Max(S) /\ \A s \in DOMAIN k.chats : s <= Max(S)
    BY <1>2, <1>6, <1>7 DEF S
  <2>3. QED
    BY <1>1, <1>5, <1>8, <1>9, <2>1, <2>2
<1>11. \A s \in DOMAIN k.chats : k.chats[s].says \subseteq 1 .. n.messages
  <2>1. h.view \subseteq 1 .. n.messages
    BY DEF Loose, Filed, Seated
  <2>2. CASE h.chats = EmptyFun
    BY <1>3, <2>1, <2>2
  <2>3. CASE h.chats # EmptyFun
    BY <1>3, <2>1, <2>3 DEF Loose, Filed, Seated
  <2>4. QED
    BY <2>2, <2>3
<1>12. \A s \in DOMAIN belongs' : belongs'[s] \subseteq 1 .. made'.messages
  <2>1. news \subseteq 1 .. n.messages
    BY <1>1, <1>2
  <2>2. \A s \in DOMAIN belongs : belongs[s] \subseteq 1 .. made.messages
    BY DEF ChatShaped
  <2>3. \A s \in DOMAIN belongs : belongs[s] \subseteq 1 .. n.messages
    BY <1>1, <1>2, <2>2
  <2> HIDE DEF news
  <2>4. QED
    BY <1>8, <1>9, <1>11, <2>1, <2>3
<1>13. \A s \in DOMAIN k.chats : k.chats[s].says \subseteq belongs'[s]
  <2>1. SUFFICES ASSUME NEW s \in DOMAIN k.chats, s \in DOMAIN belongs
                 PROVE  k.chats[s].says \subseteq belongs'[s]
    BY <1>9
  <2>2. DOMAIN belongs \subseteq 1 .. made.chats
    BY DEF ChatShaped
  <2>3. h.chats # EmptyFun
    BY <1>1, <1>3, <2>1, <2>2
  <2>4. s \in DOMAIN h.chats /\ h.active \in DOMAIN h.chats
    BY <1>1, <1>3, <2>3
  <2>5. CASE s = k.active
    <3>1. h.view \subseteq belongs[s] \cup news
      BY <1>3, <2>1, <2>3, <2>4, <2>5 DEF Loose, Filed, Seated
    <3>2. QED
      BY <1>3, <1>9, <2>1, <2>5, <3>1
  <2>6. CASE s # k.active
    BY <1>3, <1>9, <2>1, <2>3, <2>4, <2>6 DEF Loose, Filed, Seated
  <2>7. QED
    BY <2>5, <2>6
<1>14. Housed(k)
  <2>1. CASE h.chats = EmptyFun
    BY <1>3, <2>1 DEF Housed
  <2>2. CASE h.chats # EmptyFun
    BY <1>3, <2>2 DEF Housed, Loose, Filed
  <2>3. QED
    BY <2>1, <2>2
<1>15. /\ k.view \subseteq 1 .. n.messages /\ DOMAIN k.projects \subseteq 1 .. n.projects
       /\ DOMAIN k.folders \subseteq 1 .. n.folders
  BY <1>3 DEF Loose, Filed, Seated
<1>16. FitsIn(k, made', belongs')
  BY <1>3, <1>8, <1>9, <1>13, <1>14, <1>15 DEF FitsIn
<1>17. held'[w] = k
  BY <1>4 DEF ChatShaped
<1>18. QED
  BY <1>2, <1>8, <1>9, <1>10, <1>12, <1>16, <1>17 DEF k

\* What a hydration makes of chats that are not all archived depends on them alone.
LEMMA HydratedAlike ==
  ASSUME Shelf(stored) # {}, stored' = stored
  PROVE  Hydrated(stored)' = Hydrated(stored)
<1>1. Shelf(stored)' = Shelf(stored)
  BY DEF Shelf
<1>2. Ensuring(stored)' = Ensuring(stored)
  <2>1. Ensuring(stored) = Showing(stored, IF stored.active \in Shelf(stored)
                                             THEN stored.active ELSE Max(Shelf(stored)))
    BY DEF Ensuring
  <2>2. Ensuring(stored)' = Showing(stored, IF stored.active \in Shelf(stored)
                                              THEN stored.active ELSE Max(Shelf(stored)))'
    BY <1>1 DEF Ensuring
  <2>3. QED
    BY <1>1, <2>1, <2>2 DEF Showing
<1>3. QED
  BY <1>2 DEF Hydrated

\* A surface that nothing happens to goes on following what is stored.
LEMMA FollowsOn ==
  ASSUME NEW v, Follows(v), stored' = stored, reads'[v] = reads[v], held'[v] = held[v]
  PROVE  Follows(v)'
<1>1. Shelf(stored)' = Shelf(stored)
  BY DEF Shelf
<1>2. CASE reads[v] # << >>
  BY <1>2 DEF Follows
<1>3. CASE reads[v] = << >> /\ Shelf(stored) # {}
  BY <1>1, <1>3, HydratedAlike DEF Follows
<1>4. CASE reads[v] = << >> /\ Shelf(stored) = {}
  BY <1>1, <1>4 DEF Follows
<1>5. QED
  BY <1>2, <1>3, <1>4

LEMMA PersistsKeeps ==
  ASSUME ChatInv, NEW n, NEW h, NEW w \in opened,
         Grown(n), Loose(h, n), Persists(w, h, n), visit.changes > 0
  PROVE  ChatInv'
<1> DEFINE k == Written(h)
<1>1. /\ FitsIn(k, made', belongs') /\ held'[w] = k
      /\ made' \in Counts /\ made'.messages >= made.messages
      /\ made'.projects >= made.projects /\ made'.folders >= made.folders
      /\ DOMAIN belongs \subseteq DOMAIN belongs'
      /\ \A s \in DOMAIN belongs : belongs[s] \subseteq belongs'[s]
      /\ DOMAIN belongs' \subseteq 1 .. made'.chats
      /\ \A s \in DOMAIN belongs' : belongs'[s] \subseteq 1 .. made'.messages
  BY WriteFits DEF ChatInv
<1>2. /\ held' = [held EXCEPT ![w] = k] /\ opened' = opened /\ reads' = reads
      /\ \/ /\ stored' = k /\ due' = Hears(w) /\ apart' = {w}
            /\ visit' = [visit EXCEPT !.changes = @ - 1]
         \/ /\ visit.faults > 0
            /\ visit' = [visit EXCEPT !.changes = @ - 1, !.faults = @ - 1]
            /\ apart' = apart \cup {w}
            /\ stored' = stored /\ due' = due
  BY DEF Persists
<1> HIDE DEF k
<1>3. /\ opened \subseteq Surfaces /\ apart \subseteq opened
      /\ due \in [Surfaces -> Nat] /\ reads \in [Surfaces -> Seq(Copies)]
      /\ DOMAIN held = Surfaces /\ held = [v \in Surfaces |-> held[v]]
      /\ made \in Counts /\ visit \in [changes : Nat, opens : Nat, faults : Nat]
      /\ \A v \in Surfaces \ opened : held[v] = Untold /\ reads[v] = << >> /\ due[v] = 0
  BY DEF ChatInv, ChatShaped
<1>4. /\ DOMAIN held' = Surfaces /\ held' = [v \in Surfaces |-> held'[v]]
      /\ \A v \in Surfaces \ {w} : held'[v] = held[v]
  BY <1>2, <1>3
<1>5. visit' \in [changes : Nat, opens : Nat, faults : Nat]
  <2>1. visit.changes \in Nat /\ visit.faults \in Nat
    BY <1>3
  <2>2. visit.changes - 1 \in Nat /\ (visit.faults > 0 => visit.faults - 1 \in Nat)
    BY <2>1
  <2>3. CASE visit' = [visit EXCEPT !.changes = @ - 1]
    BY <1>3, <2>2, <2>3
  <2>4. CASE /\ visit.faults > 0
             /\ visit' = [visit EXCEPT !.changes = @ - 1, !.faults = @ - 1]
    BY <1>3, <2>2, <2>4
  <2>5. QED
    BY <1>2, <2>3, <2>4
<1>6. /\ due' \in [Surfaces -> Nat] /\ \A v \in Surfaces \ opened : due'[v] = 0
      /\ due' = due \/ \A v \in opened \ {w} : due'[v] > 0
  <2>1. CASE due' = due
    BY <1>3, <2>1
  <2>2. CASE due' = Hears(w)
    <3>1. /\ due' = [v \in Surfaces |-> due'[v]]
          /\ \A v \in Surfaces : due'[v] = due[v] + (IF v \in opened \ {w} THEN 1 ELSE 0)
      BY <2>2 DEF Hears
    <3>2. \A v \in Surfaces : due[v] \in Nat
      BY <1>3
    <3>3. \A v \in Surfaces : due'[v] \in Nat
      BY <3>1, <3>2
    <3>4. QED
      BY <1>3, <3>1, <3>2, <3>3
  <2>3. QED
    BY <1>2, <2>1, <2>2
<1>7. ChatShaped'
  BY <1>1, <1>2, <1>3, <1>4, <1>5, <1>6 DEF ChatShaped
<1>8. ASSUME NEW d, Fits(d) PROVE FitsIn(d, made', belongs')
  BY <1>1, <1>3, <1>8, FitsOn DEF Fits
<1>9. AllFit'
  <2>1. Fits(stored)'
    BY <1>1, <1>2, <1>8 DEF ChatInv, AllFit, Fits
  <2>2. ASSUME NEW v \in Surfaces PROVE Fits(held[v])'
    BY <1>1, <1>4, <1>8 DEF ChatInv, AllFit, Fits
  <2>3. ASSUME NEW v \in Surfaces, NEW i \in DOMAIN reads[v] PROVE Fits(reads[v][i])'
    BY <1>2, <1>8 DEF ChatInv, AllFit, Fits
  <2>4. QED
    BY <1>2, <2>1, <2>2, <2>3 DEF AllFit
<1>10. AllFollow'
  <2>1. SUFFICES ASSUME NEW v \in opened' \ apart', due'[v] = 0
                 PROVE  Follows(v)'
    BY DEF AllFollow
  <2>2. v \in opened \ {w} /\ v \in Surfaces
    BY <1>2, <1>3
  <2>3. stored' = stored /\ due' = due /\ v \notin apart
    BY <1>2, <1>6, <2>1, <2>2, <1>3 DEF Hears
  <2>4. Follows(v)
    BY <2>1, <2>2, <2>3 DEF ChatInv, AllFollow
  <2>5. QED
    BY <1>2, <1>4, <2>2, <2>3, <2>4, FollowsOn
<1>11. QED
  BY <1>7, <1>9, <1>10 DEF ChatInv

-----------------------------------------------------------------------------
(***************************************************************************)
(* What each change makes of a memory that fits.                           *)
(***************************************************************************)

LEMMA FitFacts ==
  ASSUME ChatInv, NEW d, Fits(d)
  PROVE  /\ Filed(d, made) /\ Seated(d, made) /\ Grown(made) /\ d \in Copies
         /\ DOMAIN d.chats \subseteq DOMAIN belongs
         /\ DOMAIN d.chats \subseteq 1 .. made.chats
         /\ made.chats \in Nat /\ made.messages \in Nat
         /\ made.projects \in Nat /\ made.folders \in Nat
         /\ DOMAIN belongs \subseteq 1 .. made.chats
<1>1. /\ d \in Copies /\ DOMAIN d.chats \subseteq DOMAIN belongs
      /\ d.view \subseteq 1 .. made.messages /\ DOMAIN d.projects \subseteq 1 .. made.projects
      /\ DOMAIN d.folders \subseteq 1 .. made.folders
      /\ d.chats # EmptyFun => d.active \in DOMAIN d.chats /\ d.view = d.chats[d.active].says
      /\ \A s \in DOMAIN d.chats : d.chats[s].says \subseteq belongs[s]
      /\ Housed(d)
  BY DEF Fits, FitsIn
<1>2. /\ made \in Counts /\ DOMAIN belongs \subseteq 1 .. made.chats
      /\ \A s \in DOMAIN belongs : belongs[s] \subseteq 1 .. made.messages
  BY DEF ChatInv, ChatShaped
<1>3. /\ made.chats \in Nat /\ made.messages \in Nat
      /\ made.projects \in Nat /\ made.folders \in Nat
  BY <1>2 DEF Counts
<1>4. DOMAIN d.chats \subseteq 1 .. made.chats /\ DOMAIN d.chats \subseteq 1 .. made.chats + 2
  BY <1>1, <1>2, <1>3
<1>5. Filed(d, made)
  BY <1>1, <1>2, <1>4 DEF Filed
<1>6. d.active \in DOMAIN d.chats => d.chats # EmptyFun
  BY EmptyIs
<1>7. Seated(d, made)
  BY <1>1, <1>6 DEF Seated
<1>8. Grown(made)
  BY <1>2, <1>3 DEF Grown
<1>9. QED
  BY <1>1, <1>2, <1>3, <1>4, <1>5, <1>7, <1>8

\* Another chat is shown.
LEMMA ShowsLoose ==
  ASSUME NEW g, Filed(g, made), NEW s \in DOMAIN g.chats
  PROVE  Loose(Showing(g, s), made)
<1> DEFINE k == Showing(g, s)
<1>1. /\ k \in Copies /\ k.chats = g.chats /\ k.active = s /\ k.view = g.chats[s].says
      /\ k.projects = g.projects /\ k.folders = g.folders
  BY ShowingIs DEF Filed
<1> HIDE DEF k
<1>2. Filed(k, made)
  BY <1>1 DEF Filed, Housed
<1>3. Seated(k, made)
  BY <1>1 DEF Filed, Seated
<1>4. QED
  BY <1>2, <1>3 DEF Loose, k

\* A chat is added that nobody has had.
LEMMA AddsLoose ==
  ASSUME ChatInv, NEW g, Filed(g, made), NEW x, x \in made.chats + 1 .. made.chats + 2,
         NEW c \in ChatRecords, c.says \subseteq 1 .. made.messages, c.folder = 0
  PROVE  Loose(Adding(g, x, c), made)
<1> DEFINE k == Adding(g, x, c)
<1>1. /\ made.chats \in Nat /\ DOMAIN belongs \subseteq 1 .. made.chats
  BY DEF ChatInv, ChatShaped, Counts
<1>2. x \in Nat /\ x \notin DOMAIN belongs /\ x \in 1 .. made.chats + 2
  BY <1>1
<1>3. g \in Copies
  BY DEF Filed
<1>4. /\ k \in Copies /\ DOMAIN k.chats = DOMAIN g.chats \cup {x}
      /\ k.chats[x] = c /\ k.chats # EmptyFun
      /\ \A t \in DOMAIN g.chats \ {x} : k.chats[t] = g.chats[t]
      /\ k.active = x /\ k.view = c.says
      /\ k.projects = g.projects /\ k.folders = g.folders
  <2>1. Adds(k, g, x, c)
    BY <1>3, <1>2, AddingIs
  <2>2. QED
    BY <2>1 DEF Adds
<1> HIDE DEF k
<1>5. Housed(k)
  BY <1>4 DEF Filed, Housed
<1>6. Filed(k, made)
  BY <1>2, <1>4, <1>5 DEF Filed
<1>7. Seated(k, made)
  BY <1>2, <1>4 DEF Seated
<1>8. QED
  BY <1>6, <1>7 DEF Loose, k

\* Chats are filed elsewhere; what they say and what is in view stays.
LEMMA RefiledLoose ==
  ASSUME ChatInv, NEW d, Fits(d), NEW n, Grown(n), NEW g \in Copies, Housed(g),
         g.active = d.active, g.view = d.view, DOMAIN g.chats = DOMAIN d.chats,
         \A s \in DOMAIN d.chats : g.chats[s].says = d.chats[s].says,
         DOMAIN g.projects \subseteq 1 .. n.projects, DOMAIN g.folders \subseteq 1 .. n.folders
  PROVE  Loose(g, n)
<1>1. /\ Filed(d, made) /\ Seated(d, made) /\ made.messages \in Nat
  BY FitFacts
<1>2. n.messages \in Nat /\ n.messages >= made.messages
  BY DEF Grown, Counts
<1>3. g.chats # EmptyFun <=> d.chats # EmptyFun
  <2>1. g.chats = EmptyFun <=> DOMAIN g.chats = {}
    BY CopyFields
  <2>2. d.chats = EmptyFun <=> DOMAIN d.chats = {}
    BY <1>1, CopyFields DEF Filed
  <2>3. QED
    BY <2>1, <2>2
<1>4. /\ \A s \in DOMAIN d.chats : d.chats[s].says \subseteq 1 .. made.messages
      /\ d.view \subseteq 1 .. made.messages
  BY <1>1 DEF Filed, Seated
<1>5. /\ \A s \in DOMAIN d.chats : d.chats[s].says \subseteq 1 .. n.messages
      /\ d.view \subseteq 1 .. n.messages
  BY <1>1, <1>2, <1>4
<1>6. Filed(g, n)
  BY <1>1, <1>5 DEF Filed
<1>7. Seated(g, n)
  BY <1>1, <1>3, <1>5 DEF Seated
<1>8. QED
  BY <1>6, <1>7 DEF Loose

\* Less is in view, or one new message more.
LEMMA ViewedLoose ==
  ASSUME ChatInv, NEW d, Fits(d), NEW n, Grown(n), NEW v,
         v \subseteq d.view \cup (IF n.messages # made.messages THEN {n.messages} ELSE {})
  PROVE  Loose([d EXCEPT !.view = v], n)
<1> DEFINE g == [d EXCEPT !.view = v]
           news == IF n.messages # made.messages THEN {n.messages} ELSE {}
<1>1. /\ Filed(d, made) /\ Seated(d, made) /\ made.messages \in Nat /\ d \in Copies
      /\ made.projects \in Nat /\ made.folders \in Nat
  BY FitFacts
<1>2. /\ n.messages \in Nat /\ n.messages >= made.messages
      /\ n.projects \in Nat /\ n.projects >= made.projects
      /\ n.folders \in Nat /\ n.folders >= made.folders
  BY DEF Grown, Counts
<1>3. /\ \A s \in DOMAIN d.chats : d.chats[s].says \subseteq 1 .. made.messages
      /\ d.view \subseteq 1 .. made.messages
      /\ DOMAIN d.projects \subseteq 1 .. made.projects
      /\ DOMAIN d.folders \subseteq 1 .. made.folders
  BY <1>1 DEF Filed, Seated
<1>4. /\ \A s \in DOMAIN d.chats : d.chats[s].says \subseteq 1 .. n.messages
      /\ v \subseteq 1 .. n.messages
      /\ DOMAIN d.projects \subseteq 1 .. n.projects
      /\ DOMAIN d.folders \subseteq 1 .. n.folders
  BY <1>1, <1>2, <1>3
<1>5. v \in SUBSET Nat
  BY <1>2, <1>4
<1>6. /\ g \in Copies /\ g.chats = d.chats /\ g.active = d.active /\ g.view = v
      /\ g.projects = d.projects /\ g.folders = d.folders
  BY <1>1, <1>5 DEF Copies
<1> HIDE DEF g
<1>7. Filed(g, n)
  BY <1>1, <1>4, <1>6 DEF Filed, Housed
<1>8. d.active \in DOMAIN d.chats \cap DOMAIN belongs => d.view \subseteq belongs[d.active]
  BY <1>1 DEF Seated
<1>9. Seated(g, n)
  BY <1>1, <1>4, <1>6, <1>8 DEF Seated
<1>10. QED
  BY <1>7, <1>9 DEF Loose, g

\* The memory of the surface with the active chat written out.
LEMMA WrittenLoose ==
  ASSUME ChatInv, NEW d, Fits(d)
  PROVE  /\ Loose(Written(d), made) /\ Written(d) \in Copies
         /\ DOMAIN Written(d).chats \subseteq 1 .. made.chats + 1
         /\ Written(d).active \in DOMAIN Written(d).chats /\ Written(d).view = d.view
<1> DEFINE k == Written(d)
<1>1. /\ Filed(d, made) /\ Seated(d, made) /\ d \in Copies /\ made.chats \in Nat
      /\ DOMAIN d.chats \subseteq DOMAIN belongs /\ DOMAIN belongs \subseteq 1 .. made.chats
      /\ DOMAIN d.chats \subseteq 1 .. made.chats /\ made \in Counts
  BY FitFacts DEF ChatInv, ChatShaped
<1>2. DOMAIN d.chats \subseteq 1 .. made.chats + 2
  BY <1>1
<1>3. /\ k \in Copies /\ k.chats # EmptyFun /\ k.active \in DOMAIN k.chats
      /\ k.view = d.view /\ k.chats[k.active].says = d.view
      /\ d.chats # EmptyFun =>
           /\ DOMAIN k.chats = DOMAIN d.chats /\ k.active = d.active
           /\ k.chats[d.active].archived = d.chats[d.active].archived
           /\ k.chats[d.active].project = d.chats[d.active].project
           /\ k.chats[d.active].folder = d.chats[d.active].folder
           /\ \A t \in DOMAIN d.chats \ {d.active} : k.chats[t] = d.chats[t]
      /\ d.chats = EmptyFun =>
           /\ k.active = made.chats + 1 /\ DOMAIN k.chats = {made.chats + 1}
           /\ k.chats[made.chats + 1].folder = 0
      /\ k.projects = d.projects /\ k.folders = d.folders
  BY <1>1, <1>2, WrittenIs DEF Seated
<1> HIDE DEF k
<1>4. CASE d.chats = EmptyFun
  <2>1. made.chats + 1 \notin DOMAIN belongs
    BY <1>1
  <2>2. Housed(k)
    BY <1>3, <1>4 DEF Housed
  <2>3. Filed(k, made)
    BY <1>1, <1>3, <1>4, <2>1, <2>2 DEF Filed, Seated
  <2>4. Seated(k, made)
    BY <1>1, <1>3, <1>4, <2>1 DEF Seated
  <2>5. QED
    BY <1>1, <1>3, <1>4, <2>3, <2>4 DEF Loose, k
<1>5. CASE d.chats # EmptyFun
  <2>1. d.active \in DOMAIN d.chats /\ d.view = d.chats[d.active].says
    BY <1>5 DEF Fits, FitsIn
  <2>2. \A s \in DOMAIN d.chats : k.chats[s].says = d.chats[s].says
    BY <1>3, <1>5, <2>1
  <2>3. Housed(k)
    BY <1>1, <1>3, <1>5 DEF Housed, Filed
  <2>4. Loose(k, made)
    BY <1>1, <1>3, <1>5, <2>2, <2>3, RefiledLoose, FitFacts DEF Filed
  <2>5. QED
    BY <1>1, <1>3, <1>5, <2>4 DEF k
<1>6. QED
  BY <1>4, <1>5

LEMMA OpeningLoose ==
  ASSUME ChatInv, NEW d, Fits(d)
  PROVE  Loose(Opening(d), made)
<1> DEFINE k == Written(d)
<1>1. /\ Loose(k, made) /\ k \in Copies /\ DOMAIN k.chats \subseteq 1 .. made.chats + 1
      /\ made \in Counts
  BY WrittenLoose DEF ChatInv, ChatShaped
<1> HIDE DEF k
<1>2. NextChat(k) \in made.chats + 1 .. made.chats + 2
  BY <1>1, NextIs
<1>3. BlankChat({}) \in ChatRecords /\ BlankChat({}).says = {} /\ BlankChat({}).folder = 0
  BY BlankIs
<1>4. Loose(Adding(k, NextChat(k), BlankChat({})), made)
  BY <1>1, <1>2, <1>3, AddsLoose DEF Loose
<1>5. QED
  BY <1>4 DEF Opening, k

LEMMA SwitchedLoose ==
  ASSUME ChatInv, NEW d, Fits(d), NEW s \in Shelf(Written(d))
  PROVE  Loose(Switched(d, s), made)
<1>1. Loose(Written(d), made) /\ s \in DOMAIN Written(d).chats
  BY WrittenLoose DEF Shelf
<1>2. QED
  BY <1>1, ShowsLoose DEF Switched, Loose

\* A chat is put in the archive, or taken out of it.
LEMMA ShelvedLoose ==
  ASSUME ChatInv, NEW d, Fits(d), NEW s \in DOMAIN d.chats, NEW b \in BOOLEAN
  PROVE  /\ Loose([d EXCEPT !.chats[s].archived = b], made)
         /\ DOMAIN [d EXCEPT !.chats[s].archived = b].chats \subseteq 1 .. made.chats
<1> DEFINE g == [d EXCEPT !.chats[s].archived = b]
           c == [d.chats[s] EXCEPT !.archived = b]
<1>1. /\ Filed(d, made) /\ d \in Copies /\ Grown(made)
      /\ DOMAIN d.chats \subseteq 1 .. made.chats
  BY FitFacts
<1>2. d.chats[s] \in ChatRecords
  BY <1>1, CopyFields
<1>3. /\ c \in ChatRecords /\ c.says = d.chats[s].says /\ c.folder = d.chats[s].folder
      /\ c.project = d.chats[s].project
  BY <1>2 DEF ChatRecords
<1>4. g = [d EXCEPT !.chats[s] = c]
  OBVIOUS
<1> HIDE DEF g, c
<1>5. /\ g \in Copies /\ DOMAIN g.chats = DOMAIN d.chats /\ g.chats[s] = c
      /\ \A t \in DOMAIN d.chats \ {s} : g.chats[t] = d.chats[t]
      /\ g.active = d.active /\ g.view = d.view
      /\ g.projects = d.projects /\ g.folders = d.folders
  BY <1>1, <1>3, <1>4, RecordedIs
<1>6. Housed(g)
  BY <1>1, <1>3, <1>5 DEF Filed, Housed
<1>7. Loose(g, made)
  BY <1>1, <1>3, <1>5, <1>6, RefiledLoose DEF Filed
<1>8. QED
  BY <1>1, <1>5, <1>7 DEF g

LEMMA ArchivedLoose ==
  ASSUME ChatInv, NEW d, Fits(d), NEW s \in DOMAIN d.chats
  PROVE  Loose(Archived(d, s), made)
<1> DEFINE g == [d EXCEPT !.chats[s].archived = TRUE]
<1>1. /\ Loose(g, made) /\ DOMAIN g.chats \subseteq 1 .. made.chats
  BY ShelvedLoose
<1>2. Archived(d, s) = IF g.active # s THEN g
                       ELSE IF Shelf(g) # {} THEN Showing(g, Max(Shelf(g)))
                       ELSE Adding(g, NextChat(g), BlankChat({}))
  BY DEF Archived
<1>3. made \in Counts /\ made.chats \in Nat
  BY DEF ChatInv, ChatShaped, Counts
<1> HIDE DEF g
<1>4. Filed(g, made) /\ g \in Copies
  BY <1>1 DEF Loose, Filed
<1>5. CASE Shelf(g) # {}
  <2>1. Shelf(g) \subseteq DOMAIN g.chats /\ Shelf(g) \subseteq 1 .. made.chats + 2
    BY <1>1, <1>3 DEF Shelf
  <2>2. Max(Shelf(g)) \in DOMAIN g.chats
    BY <1>5, <1>3, <2>1, LatestIs
  <2>3. Loose(Showing(g, Max(Shelf(g))), made)
    BY <1>4, <2>2, ShowsLoose
  <2>4. QED
    BY <1>1, <1>2, <1>5, <2>3
<1>6. CASE Shelf(g) = {}
  <2>1. DOMAIN g.chats \subseteq 1 .. made.chats + 1
    BY <1>1, <1>3
  <2>2. NextChat(g) \in made.chats + 1 .. made.chats + 2
    BY <1>3, <1>4, <2>1, NextIs
  <2>3. BlankChat({}) \in ChatRecords /\ BlankChat({}).says = {} /\ BlankChat({}).folder = 0
    BY BlankIs
  <2>4. Loose(Adding(g, NextChat(g), BlankChat({})), made)
    BY <1>4, <2>2, <2>3, AddsLoose
  <2>5. QED
    BY <1>1, <1>2, <1>6, <2>4
<1>7. QED
  BY <1>5, <1>6

LEMMA DroppedLoose ==
  ASSUME ChatInv, NEW d, Fits(d), NEW s \in DOMAIN d.chats
  PROVE  Loose(Dropped(d, s), made)
<1> DEFINE f == Omit(d.chats, s)
           g == [d EXCEPT !.chats = f]
<1>1. /\ Filed(d, made) /\ Seated(d, made) /\ d \in Copies /\ made \in Counts
      /\ DOMAIN d.chats \subseteq 1 .. made.chats /\ made.chats \in Nat
      /\ d.chats \in Books(ChatRecords)
  BY FitFacts, CopyFields DEF ChatInv, ChatShaped
<1>2. /\ f \in Books(ChatRecords) /\ DOMAIN f = DOMAIN d.chats \ {s}
      /\ \A t \in DOMAIN d.chats \ {s} : f[t] = d.chats[t]
      /\ (f = EmptyFun <=> DOMAIN f = {})
  <2>1. d.chats \in [DOMAIN d.chats -> ChatRecords]
    BY <1>1, BookIs
  <2>2. f \in Books(ChatRecords)
    BY <1>1, OmitIs
  <2>3. /\ DOMAIN f = DOMAIN d.chats \ {s}
        /\ \A t \in DOMAIN d.chats \ {s} : f[t] = d.chats[t]
    BY <2>1 DEF Omit
  <2> HIDE DEF f
  <2>4. f = EmptyFun <=> DOMAIN f = {}
    BY <2>2, EmptyWhen
  <2>5. QED
    BY <2>2, <2>3, <2>4
<1>3. Dropped(d, s) = IF g.chats = EmptyFun THEN Adding(g, NextChat(d), BlankChat({}))
                      ELSE IF d.active = s THEN Showing(g, Max(DOMAIN g.chats)) ELSE g
  BY DEF Dropped
<1> HIDE DEF f
<1>4. /\ g \in Copies /\ g.chats = f /\ g.active = d.active /\ g.view = d.view
      /\ g.projects = d.projects /\ g.folders = d.folders
  BY <1>1, <1>2, RechattedIs
<1> HIDE DEF g
<1>5. Housed(g)
  BY <1>1, <1>2, <1>4 DEF Filed, Housed
<1>6. Filed(g, made)
  BY <1>1, <1>2, <1>4, <1>5 DEF Filed
<1>7. CASE g.chats = EmptyFun
  <2>1. DOMAIN d.chats \subseteq 1 .. made.chats + 1
    BY <1>1
  <2>2. NextChat(d) \in made.chats + 1 .. made.chats + 2
    BY <1>1, <2>1, NextIs
  <2>3. BlankChat({}) \in ChatRecords /\ BlankChat({}).says = {} /\ BlankChat({}).folder = 0
    BY BlankIs
  <2>4. Loose(Adding(g, NextChat(d), BlankChat({})), made)
    BY <1>6, <2>2, <2>3, AddsLoose
  <2>5. QED
    BY <1>3, <1>7, <2>4
<1>8. CASE g.chats # EmptyFun /\ d.active = s
  <2>1. DOMAIN g.chats # {} /\ DOMAIN g.chats \subseteq 1 .. made.chats + 2
    BY <1>1, <1>2, <1>4, <1>8
  <2>2. Max(DOMAIN g.chats) \in DOMAIN g.chats
    BY <1>1, <2>1, LatestIs
  <2>3. Loose(Showing(g, Max(DOMAIN g.chats)), made)
    BY <1>6, <2>2, ShowsLoose
  <2>4. QED
    BY <1>3, <1>8, <2>3
<1>9. CASE g.chats # EmptyFun /\ d.active # s
  <2>1. d.chats # EmptyFun
    BY EmptyIs
  <2>2. d.active \in DOMAIN d.chats /\ g.active \in DOMAIN g.chats
    BY <1>1, <1>2, <1>4, <1>9, <2>1 DEF Seated
  <2>3. Seated(g, made)
    BY <1>1, <1>2, <1>4, <2>2 DEF Seated
  <2>4. QED
    BY <1>3, <1>6, <1>9, <2>3 DEF Loose
<1>10. QED
  BY <1>7, <1>8, <1>9

\* A fork says what the chat it is taken from says, or a part of it, and is in no folder.
LEMMA ForkedLoose ==
  ASSUME ChatInv, NEW d, Fits(d), NEW v, v \subseteq 1 .. made.messages, NEW q \in Nat
  PROVE  Loose(Adding(Written(d), NextChat(Written(d)),
                      [BlankChat(v) EXCEPT !.project = q]), made)
<1> DEFINE k == Written(d)
           c == [BlankChat(v) EXCEPT !.project = q]
<1>1. /\ Filed(k, made) /\ k \in Copies /\ DOMAIN k.chats \subseteq 1 .. made.chats + 1
      /\ made \in Counts /\ made.messages \in Nat
  BY WrittenLoose DEF ChatInv, ChatShaped, Counts, Loose
<1> HIDE DEF k
<1>2. NextChat(k) \in made.chats + 1 .. made.chats + 2
  BY <1>1, NextIs
<1>3. v \in SUBSET Nat
  BY <1>1
<1>4. BlankChat(v) \in ChatRecords /\ BlankChat(v).says = v /\ BlankChat(v).folder = 0
  BY <1>3, BlankIs
<1>5. c \in ChatRecords /\ c.says = v /\ c.folder = 0
  BY <1>4 DEF ChatRecords
<1> HIDE DEF c
<1>6. Loose(Adding(k, NextChat(k), c), made)
  BY <1>1, <1>2, <1>5, AddsLoose
<1>7. QED
  BY <1>6 DEF k, c

\* A chat moved to a project, out of any folder.
LEMMA RehomedLoose ==
  ASSUME ChatInv, NEW d, Fits(d), NEW s \in DOMAIN d.chats, NEW q \in Nat
  PROVE  Loose(Rehomed(d, s, q), made)
<1> DEFINE c == [d.chats[s] EXCEPT !.project = q, !.folder = 0]
           g == [d EXCEPT !.chats[s] = c]
<1>1. /\ Filed(d, made) /\ d \in Copies /\ Grown(made) /\ d.chats[s] \in ChatRecords
  BY FitFacts, CopyFields
<1>2. c \in ChatRecords /\ c.says = d.chats[s].says /\ c.folder = 0 /\ c.project = q
  BY <1>1 DEF ChatRecords
<1>3. Rehomed(d, s, q) = g
  <2>1. Rehomed(d, s, q) = [d EXCEPT !.chats[s].project = q, !.chats[s].folder = 0]
    BY DEF Rehomed
  <2>2. d.chats \in [DOMAIN d.chats -> ChatRecords]
    BY <1>1, CopyFields, BookIs
  <2>3. QED
    BY <1>1, <2>1, <2>2 DEF Copies
<1> HIDE DEF c
<1>4. /\ g \in Copies /\ DOMAIN g.chats = DOMAIN d.chats /\ g.chats[s] = c
      /\ \A t \in DOMAIN d.chats \ {s} : g.chats[t] = d.chats[t]
      /\ g.active = d.active /\ g.view = d.view
      /\ g.projects = d.projects /\ g.folders = d.folders
  BY <1>1, <1>2, RecordedIs
<1> HIDE DEF g
<1>5. Housed(g)
  BY <1>1, <1>2, <1>4 DEF Filed, Housed
<1>6. Loose(g, made)
  BY <1>1, <1>2, <1>4, <1>5, RefiledLoose DEF Filed
<1>7. QED
  BY <1>3, <1>6

\* A chat put into a folder, and into the project of it.
LEMMA FiledLoose ==
  ASSUME ChatInv, NEW d, Fits(d), NEW s \in DOMAIN d.chats, NEW f \in {0} \cup DOMAIN d.folders
  PROVE  Loose([d EXCEPT !.chats[s].folder = f,
                         !.chats[s].project = IF f = 0 THEN @ ELSE d.folders[f]], made)
<1> DEFINE q == IF f = 0 THEN d.chats[s].project ELSE d.folders[f]
           c == [d.chats[s] EXCEPT !.folder = f, !.project = q]
           g == [d EXCEPT !.chats[s] = c]
           k == [d EXCEPT !.chats[s].folder = f,
                          !.chats[s].project = IF f = 0 THEN @ ELSE d.folders[f]]
<1>1. /\ Filed(d, made) /\ d \in Copies /\ Grown(made) /\ d.chats[s] \in ChatRecords
      /\ d.chats[s].project \in Nat
      /\ DOMAIN d.folders \subseteq Nat /\ \A x \in DOMAIN d.folders : d.folders[x] \in Nat
  BY FitFacts, CopyFields, ChatFields
<1>2. f \in Nat /\ q \in Nat
  BY <1>1
<1> HIDE DEF q
<1>3. c \in ChatRecords /\ c.says = d.chats[s].says /\ c.folder = f /\ c.project = q
  BY <1>1, <1>2 DEF ChatRecords
<1>4. k = g
  <2>1. d.chats \in [DOMAIN d.chats -> ChatRecords]
    BY <1>1, CopyFields, BookIs
  <2>2. QED
    BY <1>1, <2>1 DEF Copies, q, ChatRecords
<1> HIDE DEF c, k
<1>5. /\ g \in Copies /\ DOMAIN g.chats = DOMAIN d.chats /\ g.chats[s] = c
      /\ \A t \in DOMAIN d.chats \ {s} : g.chats[t] = d.chats[t]
      /\ g.active = d.active /\ g.view = d.view
      /\ g.projects = d.projects /\ g.folders = d.folders
  BY <1>1, <1>3, RecordedIs
<1> HIDE DEF g
<1>6. f # 0 => f \in DOMAIN d.folders /\ d.folders[f] = q
  BY DEF q
<1>7. Housed(g)
  BY <1>1, <1>3, <1>5, <1>6 DEF Filed, Housed
<1>8. Loose(g, made)
  BY <1>1, <1>3, <1>5, <1>7, RefiledLoose DEF Filed
<1>9. QED
  BY <1>4, <1>8 DEF k

\* Projects and folders taken away, and the chats let out of them.
LEMMA LetOutLoose ==
  ASSUME ChatInv, NEW d, Fits(d), NEW P, NEW F,
         \A f \in DOMAIN d.folders \ F : d.folders[f] \notin P
  PROVE  Loose(LetOut(d, P, F), made)
<1> DEFINE put(c) == [c EXCEPT !.project = IF @ \in P THEN 0 ELSE @,
                               !.folder = IF @ \in F THEN 0 ELSE @]
           chats == [s \in DOMAIN d.chats |-> put(d.chats[s])]
           projects == [q \in DOMAIN d.projects \ P |-> d.projects[q]]
           folders == [f \in DOMAIN d.folders \ F |-> d.folders[f]]
           g == LetOut(d, P, F)
<1>1. /\ Filed(d, made) /\ d \in Copies /\ Grown(made)
      /\ DOMAIN d.chats \subseteq Nat /\ \A s \in DOMAIN d.chats : d.chats[s] \in ChatRecords
      /\ d.projects \in Books(BOOLEAN) /\ d.folders \in Books(Nat)
  BY FitFacts, CopyFields
<1>2. \A s \in DOMAIN d.chats :
        /\ put(d.chats[s]) \in ChatRecords /\ put(d.chats[s]).says = d.chats[s].says
        /\ put(d.chats[s]).project = (IF d.chats[s].project \in P THEN 0
                                      ELSE d.chats[s].project)
        /\ put(d.chats[s]).folder = (IF d.chats[s].folder \in F THEN 0
                                     ELSE d.chats[s].folder)
  BY <1>1 DEF ChatRecords
<1>3. chats \in Books(ChatRecords)
  <2>1. chats \in [DOMAIN chats -> ChatRecords] /\ DOMAIN chats \subseteq Nat
    BY <1>1, <1>2
  <2>2. QED
    BY <2>1, BookIs
<1>4. projects \in Books(BOOLEAN)
  <2>1. d.projects \in [DOMAIN d.projects -> BOOLEAN] /\ DOMAIN d.projects \subseteq Nat
    BY <1>1, BookIs
  <2>2. projects \in [DOMAIN projects -> BOOLEAN] /\ DOMAIN projects \subseteq Nat
    BY <2>1
  <2>3. QED
    BY <2>2, BookIs
<1>5. folders \in Books(Nat)
  <2>1. d.folders \in [DOMAIN d.folders -> Nat] /\ DOMAIN d.folders \subseteq Nat
    BY <1>1, BookIs
  <2>2. folders \in [DOMAIN folders -> Nat] /\ DOMAIN folders \subseteq Nat
    BY <2>1
  <2>3. QED
    BY <2>2, BookIs
<1>6. g = [d EXCEPT !.projects = projects, !.folders = folders, !.chats = chats]
  BY DEF LetOut
<1>7. /\ DOMAIN chats = DOMAIN d.chats /\ \A s \in DOMAIN d.chats : chats[s] = put(d.chats[s])
      /\ DOMAIN projects = DOMAIN d.projects \ P
      /\ DOMAIN folders = DOMAIN d.folders \ F
      /\ \A f \in DOMAIN d.folders \ F : folders[f] = d.folders[f]
  OBVIOUS
<1> HIDE DEF chats, projects, folders, put, g
<1>8. /\ g \in Copies /\ g.chats = chats /\ g.active = d.active /\ g.view = d.view
      /\ g.projects = projects /\ g.folders = folders
  BY <1>1, <1>3, <1>4, <1>5, <1>6 DEF Copies
<1>9. ASSUME NEW s \in DOMAIN g.chats, g.chats[s].folder # 0
      PROVE  /\ g.chats[s].folder \in DOMAIN g.folders
             /\ g.folders[g.chats[s].folder] = g.chats[s].project
  <2>1. s \in DOMAIN d.chats /\ g.chats[s] = put(d.chats[s])
    BY <1>7, <1>8
  <2>2. put(d.chats[s]).folder = d.chats[s].folder /\ d.chats[s].folder \notin F
    BY <1>2, <1>9, <2>1
  <2>3. /\ d.chats[s].folder \in DOMAIN d.folders
        /\ d.folders[d.chats[s].folder] = d.chats[s].project
    BY <1>1, <1>9, <2>1, <2>2 DEF Filed, Housed
  <2>4. d.chats[s].project \notin P
    BY <2>2, <2>3
  <2>5. put(d.chats[s]).project = d.chats[s].project
    BY <1>2, <2>1, <2>4
  <2>6. QED
    BY <1>7, <1>8, <2>1, <2>2, <2>3, <2>5
<1>10. Housed(g)
  BY <1>9 DEF Housed
<1>11. /\ DOMAIN g.projects \subseteq 1 .. made.projects
       /\ DOMAIN g.folders \subseteq 1 .. made.folders
  BY <1>1, <1>7, <1>8 DEF Filed
<1>12. Loose(g, made)
  BY <1>1, <1>2, <1>7, <1>8, <1>10, <1>11, RefiledLoose
<1>13. QED
  BY <1>12 DEF g

\* Projects exchanged for others: nothing that is in a folder depends on them.
LEMMA ProjectsLoose ==
  ASSUME ChatInv, NEW d, Fits(d), NEW n, Grown(n), NEW p \in Books(BOOLEAN),
         DOMAIN p \subseteq 1 .. n.projects
  PROVE  Loose([d EXCEPT !.projects = p], n)
<1> DEFINE g == [d EXCEPT !.projects = p]
<1>1. /\ Filed(d, made) /\ d \in Copies /\ made.folders \in Nat
  BY FitFacts
<1>2. /\ g \in Copies /\ g.chats = d.chats /\ g.active = d.active /\ g.view = d.view
      /\ g.projects = p /\ g.folders = d.folders
  BY <1>1 DEF Copies
<1>3. n.folders \in Nat /\ n.folders >= made.folders
  BY DEF Grown, Counts
<1> HIDE DEF g
<1>4. Housed(g)
  BY <1>1, <1>2 DEF Filed, Housed
<1>5. DOMAIN d.folders \subseteq 1 .. made.folders
  BY <1>1 DEF Filed
<1>6. DOMAIN g.folders \subseteq 1 .. n.folders
  BY <1>1, <1>2, <1>3, <1>5
<1>7. Loose(g, n)
  BY <1>2, <1>4, <1>6, RefiledLoose
<1>8. QED
  BY <1>7 DEF g

\* One folder more.
LEMMA FoldersLoose ==
  ASSUME ChatInv, NEW d, Fits(d), NEW q \in Nat
  PROVE  LET f == made.folders + 1
         IN  Loose([d EXCEPT !.folders = With(@, f, q)], [made EXCEPT !.folders = f])
<1> DEFINE f == made.folders + 1
           n == [made EXCEPT !.folders = f]
           x == With(d.folders, f, q)
           g == [d EXCEPT !.folders = x]
<1>1. /\ Filed(d, made) /\ d \in Copies /\ made \in Counts
      /\ made.folders \in Nat /\ made.projects \in Nat /\ made.messages \in Nat
      /\ d.folders \in Books(Nat)
  BY FitFacts, CopyFields DEF ChatInv, ChatShaped
<1>2. /\ n \in Counts /\ n.chats = made.chats /\ n.messages = made.messages
      /\ n.projects = made.projects /\ n.folders = f
  BY <1>1 DEF Counts
<1>3. Grown(n)
  BY <1>1, <1>2 DEF Grown
<1>4. d.folders \in [DOMAIN d.folders -> Nat]
  BY <1>1, BookIs
<1>5. /\ d.folders \in [DOMAIN d.folders -> Nat]
      /\ DOMAIN d.folders \subseteq 1 .. made.folders
  BY <1>1, <1>4 DEF Filed
<1>6. /\ DOMAIN x = DOMAIN d.folders \cup {f} /\ x[f] = q
      /\ \A y \in DOMAIN d.folders \ {f} : x[y] = d.folders[y]
      /\ x \in [DOMAIN d.folders \cup {f} -> Nat]
  BY <1>5 DEF With
<1>7. /\ f \in Nat /\ f \notin DOMAIN d.folders
      /\ f \in 1 .. f /\ DOMAIN d.folders \subseteq 1 .. f
  BY <1>1, <1>5
<1> HIDE DEF x, n, f
<1>8. x \in Books(Nat)
  <2>1. DOMAIN x \subseteq Nat
    BY <1>6, <1>7
  <2>2. QED
    BY <1>6, <2>1, BookIs
<1>9. /\ g \in Copies /\ g.chats = d.chats /\ g.active = d.active /\ g.view = d.view
      /\ g.projects = d.projects /\ g.folders = x
  BY <1>1, <1>8 DEF Copies
<1> HIDE DEF g
<1>10. Housed(g)
  BY <1>1, <1>6, <1>7, <1>9 DEF Filed, Housed
<1>11. /\ DOMAIN g.folders \subseteq 1 .. n.folders
       /\ DOMAIN g.projects \subseteq 1 .. n.projects
  BY <1>1, <1>2, <1>6, <1>7, <1>9 DEF Filed
<1>12. Loose(g, n)
  BY <1>3, <1>9, <1>10, <1>11, RefiledLoose
<1>13. QED
  BY <1>12 DEF g, n, x, f

-----------------------------------------------------------------------------
(***************************************************************************)
(* Every change a surface makes is such a write, and takes no chat away    *)
(* but one that is deleted.                                                *)
(***************************************************************************)

\* w writes what a change made of its memory; n is what was made then.
Write(w, h, n) ==
  /\ visit.changes > 0 /\ Grown(n) /\ Loose(h, n) /\ Persists(w, h, n)
  /\ \A s \in DOMAIN held[w].chats \ DOMAIN h.chats : DropChat(w, s)
EndsInWrite(w) == \E h, n : Write(w, h, n)

LEMMA ShapedFacts ==
  ASSUME ChatInv
  PROVE  /\ opened \subseteq Surfaces /\ apart \subseteq opened
         /\ due \in [Surfaces -> Nat] /\ reads \in [Surfaces -> Seq(Copies)]
         /\ DOMAIN held = Surfaces /\ held = [v \in Surfaces |-> held[v]]
         /\ made \in Counts /\ visit \in [changes : Nat, opens : Nat, faults : Nat]
         /\ DOMAIN belongs \subseteq 1 .. made.chats
         /\ \A s \in DOMAIN belongs : belongs[s] \subseteq 1 .. made.messages
         /\ \A v \in Surfaces \ opened : held[v] = Untold /\ reads[v] = << >> /\ due[v] = 0
  BY DEF ChatInv, ChatShaped

LEMMA HeldFits ==
  ASSUME ChatInv, NEW w \in opened
  PROVE  /\ Fits(held[w]) /\ held[w] \in Copies /\ w \in Surfaces
         /\ held[w].view \subseteq 1 .. made.messages
<1>1. w \in Surfaces
  BY DEF ChatInv, ChatShaped
<1>2. Fits(held[w])
  BY <1>1 DEF ChatInv, AllFit
<1>3. QED
  BY <1>1, <1>2 DEF Fits, FitsIn

LEMMA ChangesKeeps ==
  ASSUME ChatInv, NEW w \in opened, NEW h, Loose(h, made), Changes(w, h),
         DOMAIN held[w].chats \subseteq DOMAIN h.chats
  PROVE  EndsInWrite(w)
<1>1. Grown(made)
  BY HeldFits, FitFacts
<1>2. visit.changes > 0 /\ Persists(w, h, made)
  BY DEF Changes
<1>3. QED
  BY <1>1, <1>2 DEF EndsInWrite, Write

\* A chat more, and none less.
LEMMA AddsMore ==
  ASSUME NEW h \in Copies, NEW x \in Nat, NEW c \in ChatRecords
  PROVE  DOMAIN h.chats \subseteq DOMAIN Adding(h, x, c).chats
<1>1. Adds(Adding(h, x, c), h, x, c)
  BY AddingIs
<1>2. QED
  BY <1>1 DEF Adds

LEMMA WrittenMore ==
  ASSUME ChatInv, NEW h, NEW n, Loose(h, n)
  PROVE  DOMAIN h.chats \subseteq DOMAIN Written(h).chats
<1>1. /\ made \in Counts /\ h \in Copies /\ DOMAIN h.chats \subseteq 1 .. made.chats + 2
      /\ h.chats # EmptyFun => h.active \in DOMAIN h.chats
  BY DEF ChatInv, ChatShaped, Loose, Filed, Seated
<1>2. CASE h.chats = EmptyFun
  BY <1>2, EmptyIs
<1>3. CASE h.chats # EmptyFun
  BY <1>1, <1>3, WrittenIs
<1>4. QED
  BY <1>2, <1>3

\* What is made of the memory with the active chat written out.
LEMMA AddedMore ==
  ASSUME ChatInv, NEW d, Fits(d), NEW c \in ChatRecords
  PROVE  DOMAIN d.chats \subseteq DOMAIN Adding(Written(d), NextChat(Written(d)), c).chats
<1> DEFINE k == Written(d)
<1>1. /\ k \in Copies /\ DOMAIN k.chats \subseteq 1 .. made.chats + 1 /\ made \in Counts
      /\ made.chats \in Nat
  BY WrittenLoose DEF ChatInv, ChatShaped, Counts
<1>2. DOMAIN d.chats \subseteq DOMAIN k.chats
  BY FitFacts, WrittenMore DEF Loose
<1> HIDE DEF k
<1>3. NextChat(k) \in Nat
  BY <1>1, NextIs
<1>4. QED
  BY <1>1, <1>2, <1>3, AddsMore DEF k

LEMMA SayKeeps ==
  ASSUME ChatInv, NEW w \in opened, Say(w)
  PROVE  EndsInWrite(w)
<1> DEFINE d == held[w]
           m == made.messages + 1
           n == [made EXCEPT !.messages = m]
           v == d.view \cup {m}
<1>1. Fits(d) /\ made \in Counts
  BY HeldFits DEF ChatInv, ChatShaped
<1>2. /\ n \in Counts /\ n.chats = made.chats /\ n.messages = made.messages + 1
      /\ n.projects = made.projects /\ n.folders = made.folders
      /\ n.messages # made.messages
  BY <1>1 DEF Counts
<1>3. Grown(n)
  BY <1>1, <1>2 DEF Grown, Counts
<1>4. visit.changes > 0 /\ Persists(w, [d EXCEPT !.view = v], n)
  BY DEF Say
<1> HIDE DEF n, d
<1>5. v \subseteq d.view \cup (IF n.messages # made.messages THEN {n.messages} ELSE {})
  BY <1>2
<1> HIDE DEF v
<1>6. Loose([d EXCEPT !.view = v], n)
  BY <1>1, <1>3, <1>5, ViewedLoose
<1>7. DOMAIN [d EXCEPT !.view = v].chats = DOMAIN d.chats
  BY <1>1 DEF Fits, FitsIn, Copies
<1>8. QED
  BY <1>3, <1>4, <1>6, <1>7 DEF EndsInWrite, Write, d

\* Less in view.
LEMMA LessKeeps ==
  ASSUME ChatInv, NEW w \in opened, NEW v, v \subseteq held[w].view,
         Changes(w, [held[w] EXCEPT !.view = v])
  PROVE  EndsInWrite(w)
<1>1. Fits(held[w]) /\ Grown(made)
  BY HeldFits, FitFacts
<1>2. Loose([held[w] EXCEPT !.view = v], made)
  BY <1>1, ViewedLoose
<1>3. DOMAIN [held[w] EXCEPT !.view = v].chats = DOMAIN held[w].chats
  BY <1>1 DEF Fits, FitsIn, Copies
<1>4. QED
  BY <1>2, <1>3, ChangesKeeps

LEMMA TurnsKeep ==
  ASSUME ChatInv, NEW w \in opened, NEW m, Unsay(w, m) \/ Cut(w, m) \/ Branch(w, m)
  PROVE  EndsInWrite(w)
<1>1. CASE Unsay(w, m)
  <2>1. Changes(w, [held[w] EXCEPT !.view = held[w].view \ {m}])
    BY <1>1 DEF Unsay
  <2>2. QED
    BY <2>1, LessKeeps
<1>2. CASE Cut(w, m)
  <2>1. Changes(w, [held[w] EXCEPT !.view = UpTo(held[w], m)])
    BY <1>2 DEF Cut
  <2>2. UpTo(held[w], m) \subseteq held[w].view
    BY DEF UpTo
  <2>3. QED
    BY <2>1, <2>2, LessKeeps
<1>3. CASE Branch(w, m)
  <2> DEFINE d == held[w]
             k == Written(d)
  <2>1. PICK q \in {0, k.chats[k.active].project} :
          Changes(w, Adding(k, NextChat(k), [BlankChat(UpTo(k, m)) EXCEPT !.project = q]))
    BY <1>3 DEF Branch
  <2>2. Fits(d) /\ d.view \subseteq 1 .. made.messages
    BY HeldFits
  <2>3. k \in Copies /\ k.view = d.view /\ k.active \in DOMAIN k.chats
    BY <2>2, WrittenLoose
  <2>4. UpTo(k, m) \subseteq 1 .. made.messages
    BY <2>2, <2>3 DEF UpTo
  <2>5. k.chats[k.active] \in ChatRecords
    BY <2>3, CopyFields
  <2>6. q \in Nat
    BY <2>1, <2>5, ChatFields
  <2> HIDE DEF d
  <2>7. Loose(Adding(k, NextChat(k), [BlankChat(UpTo(k, m)) EXCEPT !.project = q]), made)
    BY <2>2, <2>4, <2>6, ForkedLoose
  <2>8. [BlankChat(UpTo(k, m)) EXCEPT !.project = q] \in ChatRecords
    <3>1. UpTo(k, m) \in SUBSET Nat
      BY <2>4
    <3>2. BlankChat(UpTo(k, m)) \in ChatRecords
      BY <3>1, BlankIs
    <3>3. QED
      BY <2>6, <3>2 DEF ChatRecords
  <2> DEFINE c == [BlankChat(UpTo(k, m)) EXCEPT !.project = q]
  <2>9. Changes(w, Adding(k, NextChat(k), c)) /\ Loose(Adding(k, NextChat(k), c), made)
    BY <2>1, <2>7
  <2> HIDE DEF c
  <2>10. DOMAIN d.chats \subseteq DOMAIN Adding(k, NextChat(k), c).chats
    BY <2>2, <2>8, AddedMore DEF c
  <2> HIDE DEF k
  <2>11. QED
    BY <2>9, <2>10, ChangesKeeps DEF d
<1>4. QED
  BY <1>1, <1>2, <1>3

LEMMA NewChatKeeps ==
  ASSUME ChatInv, NEW w \in opened, NewChat(w) \/ Touch(w)
  PROVE  EndsInWrite(w)
<1>1. Fits(held[w])
  BY HeldFits
<1>2. Loose(Opening(held[w]), made)
  BY <1>1, OpeningLoose
<1>3. Loose(held[w], made)
  BY <1>1, FitFacts DEF Loose
<1>4. BlankChat({}) \in ChatRecords
  BY BlankIs
<1>5. DOMAIN held[w].chats \subseteq DOMAIN Opening(held[w]).chats
  BY <1>1, <1>4, AddedMore DEF Opening
<1>6. QED
  BY <1>2, <1>3, <1>5, ChangesKeeps DEF NewChat, Touch

LEMMA ArchivedMore ==
  ASSUME ChatInv, NEW d, Fits(d), NEW s \in DOMAIN d.chats
  PROVE  DOMAIN d.chats \subseteq DOMAIN Archived(d, s).chats
<1> DEFINE g == [d EXCEPT !.chats[s].archived = TRUE]
<1>1. /\ Loose(g, made) /\ DOMAIN g.chats \subseteq 1 .. made.chats
      /\ DOMAIN g.chats = DOMAIN d.chats /\ made \in Counts /\ made.chats \in Nat
  <2>1. DOMAIN g.chats = DOMAIN d.chats
    BY DEF Fits, FitsIn, Copies
  <2>2. QED
    BY <2>1, ShelvedLoose, ShapedFacts DEF Counts
<1>2. Archived(d, s) = IF g.active # s THEN g
                       ELSE IF Shelf(g) # {} THEN Showing(g, Max(Shelf(g)))
                       ELSE Adding(g, NextChat(g), BlankChat({}))
  BY DEF Archived
<1> HIDE DEF g
<1>3. g \in Copies
  BY <1>1 DEF Loose, Filed
<1>4. Shelf(g) # {} => Showing(g, Max(Shelf(g))).chats = g.chats
  BY <1>3 DEF Showing, Copies
<1>5. DOMAIN g.chats \subseteq DOMAIN Adding(g, NextChat(g), BlankChat({})).chats
  <2>1. DOMAIN g.chats \subseteq 1 .. made.chats + 1
    BY <1>1
  <2>2. NextChat(g) \in Nat
    BY <1>1, <1>3, <2>1, NextIs
  <2>3. BlankChat({}) \in ChatRecords
    BY BlankIs
  <2>4. QED
    BY <1>3, <2>2, <2>3, AddsMore
<1>6. QED
  BY <1>1, <1>2, <1>4, <1>5

LEMMA DroppedMore ==
  ASSUME ChatInv, NEW d, Fits(d), NEW s \in DOMAIN d.chats
  PROVE  DOMAIN d.chats \ {s} \subseteq DOMAIN Dropped(d, s).chats
<1> DEFINE g == [d EXCEPT !.chats = Omit(d.chats, s)]
<1>1. DOMAIN g.chats = DOMAIN d.chats \ {s} /\ g.chats \in Books(ChatRecords)
  <2>1. d \in Copies /\ d.chats \in Books(ChatRecords)
    BY FitFacts, CopyFields
  <2>2. g.chats = Omit(d.chats, s)
    BY <2>1 DEF Copies
  <2>3. Omit(d.chats, s) \in Books(ChatRecords)
    BY <2>1, OmitIs
  <2>4. DOMAIN Omit(d.chats, s) = DOMAIN d.chats \ {s}
    BY DEF Omit
  <2> HIDE DEF g
  <2>5. QED
    BY <2>2, <2>3, <2>4
<1>2. Dropped(d, s) = IF g.chats = EmptyFun THEN Adding(g, NextChat(d), BlankChat({}))
                      ELSE IF d.active = s THEN Showing(g, Max(DOMAIN g.chats)) ELSE g
  BY DEF Dropped
<1>3. Showing(g, Max(DOMAIN g.chats)).chats = g.chats
  BY FitFacts DEF Showing, Copies
<1> HIDE DEF g
<1>4. CASE g.chats = EmptyFun
  <2>1. DOMAIN d.chats \ {s} = {}
    BY <1>1, <1>4, EmptyIs
  <2>2. QED
    BY <2>1
<1>5. CASE g.chats # EmptyFun
  BY <1>1, <1>2, <1>3, <1>5
<1>6. QED
  BY <1>4, <1>5

LEMMA ChatsKeep ==
  ASSUME ChatInv, NEW w \in opened, NEW s,
         Switch(w, s) \/ Archive(w, s) \/ Restore(w, s) \/ DropChat(w, s) \/ ForkChat(w, s)
  PROVE  EndsInWrite(w)
<1> DEFINE d == held[w]
<1>1. Fits(d)
  BY HeldFits
<1>2. CASE Switch(w, s)
  <2>1. s \in Shelf(Written(d)) /\ Changes(w, Switched(d, s))
    BY <1>2 DEF Switch
  <2> HIDE DEF d
  <2>2. Loose(Switched(d, s), made)
    BY <1>1, <2>1, SwitchedLoose
  <2>3. DOMAIN d.chats \subseteq DOMAIN Switched(d, s).chats
    <3> DEFINE k == Written(d)
    <3>1. k \in Copies /\ s \in DOMAIN k.chats /\ DOMAIN d.chats \subseteq DOMAIN k.chats
      BY <1>1, <2>1, WrittenLoose, FitFacts, WrittenMore DEF Shelf, Loose
    <3> HIDE DEF k
    <3>2. Showing(k, s).chats = k.chats
      BY <3>1, ShowingIs
    <3>3. QED
      BY <3>1, <3>2 DEF Switched, k
  <2>4. QED
    BY <2>1, <2>2, <2>3, ChangesKeeps DEF d
<1>3. CASE Archive(w, s)
  <2>1. s \in DOMAIN d.chats /\ Changes(w, Archived(d, s))
    BY <1>3 DEF Archive
  <2> HIDE DEF d
  <2>2. Loose(Archived(d, s), made)
    BY <1>1, <2>1, ArchivedLoose
  <2>3. DOMAIN d.chats \subseteq DOMAIN Archived(d, s).chats
    BY <1>1, <2>1, ArchivedMore
  <2>4. QED
    BY <2>1, <2>2, <2>3, ChangesKeeps DEF d
<1>4. CASE Restore(w, s)
  <2>1. s \in DOMAIN d.chats /\ Changes(w, [d EXCEPT !.chats[s].archived = FALSE])
    BY <1>4 DEF Restore
  <2> HIDE DEF d
  <2>2. Loose([d EXCEPT !.chats[s].archived = FALSE], made)
    BY <1>1, <2>1, ShelvedLoose
  <2>3. DOMAIN [d EXCEPT !.chats[s].archived = FALSE].chats = DOMAIN d.chats
    BY <1>1 DEF Fits, FitsIn, Copies
  <2>4. QED
    BY <2>1, <2>2, <2>3, ChangesKeeps DEF d
<1>5. CASE DropChat(w, s)
  <2>1. s \in DOMAIN d.chats /\ Changes(w, Dropped(d, s))
    BY <1>5 DEF DropChat
  <2> HIDE DEF d
  <2>2. Loose(Dropped(d, s), made)
    BY <1>1, <2>1, DroppedLoose
  <2>3. DOMAIN d.chats \ {s} \subseteq DOMAIN Dropped(d, s).chats
    BY <1>1, <2>1, DroppedMore
  <2>4. visit.changes > 0 /\ Persists(w, Dropped(d, s), made) /\ Grown(made)
    BY <1>1, <2>1, FitFacts DEF Changes
  <2>5. \A t \in DOMAIN d.chats \ DOMAIN Dropped(d, s).chats : t = s
    BY <2>3
  <2>6. QED
    BY <1>5, <2>2, <2>4, <2>5 DEF EndsInWrite, Write, d
<1>6. CASE ForkChat(w, s)
  <2> DEFINE k == Written(d)
             v == k.chats[s].says
             q == k.chats[s].project
             g == Adding(k, NextChat(k), [BlankChat(v) EXCEPT !.project = q])
  <2>1. s \in DOMAIN k.chats /\ Changes(w, g)
    BY <1>6 DEF ForkChat
  <2> HIDE DEF d
  <2>2. Loose(k, made) /\ k \in Copies
    BY <1>1, WrittenLoose
  <2>3. v \subseteq 1 .. made.messages
    BY <2>1, <2>2 DEF Loose, Filed
  <2>4. k.chats[s] \in ChatRecords
    BY <2>1, <2>2, CopyFields
  <2>5. q \in Nat
    BY <2>4, ChatFields
  <2>6. v \in SUBSET Nat
    BY <2>4, ChatFields
  <2> HIDE DEF v, q
  <2>7. Loose(g, made)
    BY <1>1, <2>3, <2>5, ForkedLoose
  <2>8. BlankChat(v) \in ChatRecords
    BY <2>6, BlankIs
  <2>9. [BlankChat(v) EXCEPT !.project = q] \in ChatRecords
    BY <2>5, <2>8 DEF ChatRecords
  <2>10. DOMAIN d.chats \subseteq DOMAIN g.chats
    BY <1>1, <2>9, AddedMore
  <2> HIDE DEF g
  <2>11. QED
    BY <2>1, <2>7, <2>10, ChangesKeeps DEF d
<1>7. QED
  BY <1>2, <1>3, <1>4, <1>5, <1>6

LEMMA MovesKeep ==
  ASSUME ChatInv, NEW w \in opened, NEW s, NEW q \in Nat, MoveChat(w, s, q) \/ Shelve(w, s, q)
  PROVE  EndsInWrite(w)
<1> DEFINE d == held[w]
           g == [d EXCEPT !.chats[s].folder = q,
                          !.chats[s].project = IF q = 0 THEN @ ELSE d.folders[q]]
<1>1. Fits(d)
  BY HeldFits
<1>2. CASE MoveChat(w, s, q)
  <2>1. s \in DOMAIN d.chats /\ Changes(w, Rehomed(d, s, q))
    BY <1>2 DEF MoveChat
  <2> HIDE DEF d
  <2>2. Loose(Rehomed(d, s, q), made)
    BY <1>1, <2>1, RehomedLoose
  <2>3. DOMAIN Rehomed(d, s, q).chats = DOMAIN d.chats
    BY <1>1 DEF Rehomed, Fits, FitsIn, Copies
  <2>4. QED
    BY <2>1, <2>2, <2>3, ChangesKeeps DEF d
<1>3. CASE Shelve(w, s, q)
  <2>1. s \in DOMAIN d.chats /\ q \in {0} \cup DOMAIN d.folders /\ Changes(w, g)
    BY <1>3 DEF Shelve
  <2> HIDE DEF d
  <2>2. Loose(g, made)
    BY <1>1, <2>1, FiledLoose
  <2>3. DOMAIN g.chats = DOMAIN d.chats
    BY <1>1 DEF Fits, FitsIn, Copies
  <2> HIDE DEF g
  <2>4. QED
    BY <2>1, <2>2, <2>3, ChangesKeeps DEF d
<1>4. QED
  BY <1>2, <1>3

LEMMA NewProjectKeeps ==
  ASSUME ChatInv, NEW w \in opened, NewProject(w)
  PROVE  EndsInWrite(w)
<1> DEFINE d == held[w]
           q == made.projects + 1
           n == [made EXCEPT !.projects = q]
           p == With(d.projects, q, FALSE)
<1>1. /\ Fits(d) /\ made \in Counts /\ d \in Copies
      /\ DOMAIN d.projects \subseteq 1 .. made.projects
  BY HeldFits DEF ChatInv, ChatShaped, Fits, FitsIn
<1>2. /\ n \in Counts /\ n.chats = made.chats /\ n.messages = made.messages
      /\ n.projects = q /\ n.folders = made.folders /\ made.projects \in Nat
      /\ made.messages \in Nat /\ made.folders \in Nat
  BY <1>1 DEF Counts
<1>3. Grown(n)
  BY <1>1, <1>2 DEF Grown
<1>4. visit.changes > 0 /\ Persists(w, [d EXCEPT !.projects = p], n)
  BY DEF NewProject
<1>5. d.projects \in Books(BOOLEAN)
  BY <1>1, CopyFields
<1>6. q \in Nat /\ FALSE \in BOOLEAN
  BY <1>2
<1> HIDE DEF d, n
<1>7. p \in Books(BOOLEAN)
  BY <1>5, <1>6, WithIs
<1>8. DOMAIN p = DOMAIN d.projects \cup {q}
  BY DEF With
<1> HIDE DEF p
<1>9. DOMAIN p \subseteq 1 .. n.projects
  <2>1. q \in 1 .. q /\ 1 .. made.projects \subseteq 1 .. q
    BY <1>2
  <2>2. QED
    BY <1>1, <1>2, <1>8, <2>1
<1> HIDE DEF q
<1>10. Loose([d EXCEPT !.projects = p], n)
  BY <1>1, <1>3, <1>7, <1>9, ProjectsLoose
<1>11. DOMAIN [d EXCEPT !.projects = p].chats = DOMAIN d.chats
  BY <1>1 DEF Copies
<1>12. QED
  BY <1>3, <1>4, <1>10, <1>11 DEF EndsInWrite, Write, d

LEMMA ProjectsKeep ==
  ASSUME ChatInv, NEW w \in opened, NEW q,
         DropProject(w, q) \/ NewFolder(w, q) \/ \E away \in BOOLEAN : PutAway(w, q, away)
  PROVE  EndsInWrite(w)
<1> DEFINE d == held[w]
<1>1. /\ Fits(d) /\ made \in Counts /\ d \in Copies
      /\ DOMAIN d.projects \subseteq 1 .. made.projects
  BY HeldFits DEF ChatInv, ChatShaped, Fits, FitsIn
<1>2. d.projects \in [DOMAIN d.projects -> BOOLEAN] /\ DOMAIN d.projects \subseteq Nat
  BY <1>1, CopyFields, BookIs
<1>3. CASE DropProject(w, q)
  <2> DEFINE F == {f \in DOMAIN d.folders : d.folders[f] = q}
  <2>1. Changes(w, LetOut(d, {q}, F))
    BY <1>3 DEF DropProject
  <2>2. \A f \in DOMAIN d.folders \ F : d.folders[f] \notin {q}
    OBVIOUS
  <2> HIDE DEF d, F
  <2>3. Loose(LetOut(d, {q}, F), made)
    BY <1>1, <2>2, LetOutLoose
  <2>4. DOMAIN LetOut(d, {q}, F).chats = DOMAIN d.chats
    BY <1>1 DEF LetOut, Copies
  <2>5. QED
    BY <2>1, <2>3, <2>4, ChangesKeeps DEF d
<1>4. CASE NewFolder(w, q)
  <2> DEFINE f == made.folders + 1
             n == [made EXCEPT !.folders = f]
             g == [d EXCEPT !.folders = With(@, f, q)]
  <2>1. visit.changes > 0 /\ Persists(w, g, n) /\ q \in DOMAIN d.projects
    BY <1>4 DEF NewFolder
  <2>2. q \in Nat
    BY <1>2, <2>1
  <2>3. /\ n \in Counts /\ n.chats = made.chats /\ n.messages = made.messages
        /\ n.projects = made.projects /\ n.folders = f
        /\ made.folders \in Nat /\ made.messages \in Nat /\ made.projects \in Nat
    BY <1>1 DEF Counts
  <2>4. Grown(n)
    BY <2>3 DEF Grown
  <2> HIDE DEF d
  <2>5. Loose(g, n)
    BY <1>1, <2>2, FoldersLoose
  <2>6. DOMAIN g.chats = DOMAIN d.chats
    BY <1>1 DEF Copies
  <2> HIDE DEF g, n, f
  <2>7. QED
    BY <2>1, <2>4, <2>5, <2>6 DEF EndsInWrite, Write, d
<1>5. ASSUME NEW away \in BOOLEAN, PutAway(w, q, away) PROVE EndsInWrite(w)
  <2> DEFINE p == [d.projects EXCEPT ![q] = away]
  <2>1. Changes(w, [d EXCEPT !.projects = p]) /\ q \in DOMAIN d.projects
    BY <1>5 DEF PutAway
  <2>2. p \in [DOMAIN p -> BOOLEAN] /\ DOMAIN p = DOMAIN d.projects
    BY <1>2
  <2> HIDE DEF p
  <2>3. p \in Books(BOOLEAN)
    BY <1>2, <2>2, BookIs
  <2>4. DOMAIN p \subseteq 1 .. made.projects /\ Grown(made)
    BY <1>1, <2>2, FitFacts
  <2> HIDE DEF d
  <2>5. Loose([d EXCEPT !.projects = p], made)
    BY <1>1, <2>3, <2>4, ProjectsLoose
  <2>6. DOMAIN [d EXCEPT !.projects = p].chats = DOMAIN d.chats
    BY <1>1 DEF Copies
  <2>7. QED
    BY <2>1, <2>5, <2>6, ChangesKeeps DEF d
<1>6. QED
  BY <1>3, <1>4, <1>5

LEMMA DropFolderKeeps ==
  ASSUME ChatInv, NEW w \in opened, NEW f, DropFolder(w, f)
  PROVE  EndsInWrite(w)
<1> DEFINE d == held[w]
<1>1. Fits(d) /\ Changes(w, LetOut(d, {}, {f}))
  BY HeldFits DEF DropFolder
<1>2. \A x \in DOMAIN d.folders \ {f} : d.folders[x] \notin {}
  OBVIOUS
<1> HIDE DEF d
<1>3. Loose(LetOut(d, {}, {f}), made)
  BY <1>1, <1>2, LetOutLoose
<1>4. DOMAIN LetOut(d, {}, {f}).chats = DOMAIN d.chats
  BY <1>1 DEF LetOut, Fits, FitsIn, Copies
<1>5. QED
  BY <1>1, <1>3, <1>4, ChangesKeeps DEF d

LEMMA StepsWrite ==
  ASSUME ChatInv, NEW w \in opened, ChatStep(w)
  PROVE  EndsInWrite(w)
<1>0. MaxProjects \in Nat /\ MaxFolders \in Nat
  BY ChatAssumption
<1>1. CASE Say(w) \/ NewChat(w) \/ NewProject(w) \/ Touch(w)
  BY <1>1, SayKeeps, NewChatKeeps, NewProjectKeeps
<1>2. CASE \E m \in 1 .. made.messages : Unsay(w, m) \/ Cut(w, m) \/ Branch(w, m)
  BY <1>2, TurnsKeep
<1>3. ASSUME NEW s \in 1 .. made.chats,
             \/ Switch(w, s) \/ Archive(w, s) \/ Restore(w, s) \/ DropChat(w, s)
             \/ ForkChat(w, s)
             \/ \E q \in 0 .. MaxProjects : MoveChat(w, s, q)
             \/ \E f \in 0 .. MaxFolders : Shelve(w, s, f)
      PROVE  EndsInWrite(w)
  <2>1. CASE \/ Switch(w, s) \/ Archive(w, s) \/ Restore(w, s) \/ DropChat(w, s)
             \/ ForkChat(w, s)
    BY <2>1, ChatsKeep
  <2>2. CASE \/ \E q \in 0 .. MaxProjects : MoveChat(w, s, q)
             \/ \E f \in 0 .. MaxFolders : Shelve(w, s, f)
    <3>1. PICK q \in Nat : MoveChat(w, s, q) \/ Shelve(w, s, q)
      BY <1>0, <2>2
    <3>2. QED
      BY <3>1, MovesKeep
  <2>3. QED
    BY <1>3, <2>1, <2>2
<1>4. CASE \E q \in 1 .. MaxProjects : DropProject(w, q) \/ NewFolder(w, q)
                                       \/ \E away \in BOOLEAN : PutAway(w, q, away)
  BY <1>4, ProjectsKeep
<1>5. CASE \E f \in 1 .. MaxFolders : DropFolder(w, f)
  BY <1>5, DropFolderKeeps
<1>6. QED
  BY <1>1, <1>2, <1>3, <1>4, <1>5 DEF ChatStep

LEMMA StepsKeep ==
  ASSUME ChatInv, NEW w \in opened, ChatStep(w)
  PROVE  ChatInv'
<1>1. PICK h, n : Write(w, h, n)
  BY StepsWrite DEF EndsInWrite
<1>2. QED
  BY <1>1, PersistsKeeps DEF Write

-----------------------------------------------------------------------------
(***************************************************************************)
(* Reading back.                                                           *)
(***************************************************************************)

LEMMA UntoldFits == ASSUME ChatInv PROVE Fits(Untold)
<1>1. /\ EmptyFun \in Books(ChatRecords) /\ EmptyFun \in Books(BOOLEAN)
      /\ EmptyFun \in Books(Nat) /\ DOMAIN EmptyFun = {}
  BY EmptyIs
<1>2. /\ Untold.chats = EmptyFun /\ Untold.active = 0 /\ Untold.view = {}
      /\ Untold.projects = EmptyFun /\ Untold.folders = EmptyFun /\ Untold \in Copies
  BY <1>1 DEF Untold, Copies
<1>3. QED
  BY <1>1, <1>2 DEF Fits, FitsIn, Housed

\* ensureSession leaves every chat as it is, and adds at most a new and empty one.
LEMMA EnsuringIs ==
  ASSUME ChatInv, NEW d, Fits(d)
  PROVE  LET g == Ensuring(d)
         IN  /\ g \in Copies /\ DOMAIN d.chats \subseteq DOMAIN g.chats
             /\ DOMAIN g.chats \subseteq DOMAIN d.chats \cup {made.chats + 1}
             /\ \A t \in DOMAIN d.chats : g.chats[t] = d.chats[t]
             /\ \A t \in DOMAIN g.chats \ DOMAIN d.chats :
                  g.chats[t].says = {} /\ g.chats[t].folder = 0
             /\ g.active \in DOMAIN g.chats /\ g.view = g.chats[g.active].says
             /\ g.projects = d.projects /\ g.folders = d.folders
<1> DEFINE x == NextChat(d)
           f == With(d.chats, x, BlankChat({}))
           e == IF Shelf(d) # {} THEN d ELSE [d EXCEPT !.chats = f]
           a == IF e.active \in Shelf(e) THEN e.active ELSE Max(Shelf(e))
<1>1. /\ d \in Copies /\ made \in Counts /\ made.chats \in Nat
      /\ DOMAIN d.chats \subseteq 1 .. made.chats /\ d.chats \in Books(ChatRecords)
  BY FitFacts, CopyFields DEF ChatInv, ChatShaped
<1>2. x = made.chats + 1 /\ x \in Nat /\ x \notin DOMAIN d.chats
  <2>1. DOMAIN d.chats \subseteq 1 .. made.chats + 1
    BY <1>1
  <2>2. QED
    BY <1>1, <2>1, NextIs
<1>3. /\ BlankChat({}) \in ChatRecords /\ BlankChat({}).says = {}
      /\ BlankChat({}).folder = 0 /\ BlankChat({}).archived = FALSE
  BY BlankIs
<1>4. Ensuring(d) = Showing(e, a)
  BY DEF Ensuring
<1> HIDE DEF x
<1>5. f \in Books(ChatRecords)
  BY <1>1, <1>2, <1>3, WithIs
<1>6. /\ DOMAIN f = DOMAIN d.chats \cup {x} /\ f[x] = BlankChat({})
      /\ \A t \in DOMAIN d.chats \ {x} : f[t] = d.chats[t]
  <2>1. d.chats \in [DOMAIN d.chats -> ChatRecords]
    BY <1>1, BookIs
  <2>2. QED
    BY <2>1 DEF With
<1> HIDE DEF f
<1>7. /\ e \in Copies /\ DOMAIN d.chats \subseteq DOMAIN e.chats
      /\ DOMAIN e.chats \subseteq DOMAIN d.chats \cup {made.chats + 1}
      /\ \A t \in DOMAIN d.chats : e.chats[t] = d.chats[t]
      /\ \A t \in DOMAIN e.chats \ DOMAIN d.chats :
           e.chats[t].says = {} /\ e.chats[t].folder = 0
      /\ e.projects = d.projects /\ e.folders = d.folders /\ Shelf(e) # {}
  <2>1. CASE Shelf(d) # {}
    BY <1>1, <2>1
  <2>2. CASE Shelf(d) = {}
    <3>1. /\ e \in Copies /\ e.chats = f /\ e.projects = d.projects /\ e.folders = d.folders
      BY <1>1, <1>5, <2>2, RechattedIs
    <3> HIDE DEF e
    <3>2. x \in Shelf(e)
      BY <1>3, <1>6, <3>1 DEF Shelf
    <3>3. QED
      BY <1>2, <1>3, <1>6, <3>1, <3>2
  <2>3. QED
    BY <2>1, <2>2
<1> HIDE DEF e
<1>8. a \in DOMAIN e.chats
  <2>1. Shelf(e) \subseteq DOMAIN e.chats
    BY DEF Shelf
  <2>2. Shelf(e) \subseteq 1 .. made.chats + 2
    BY <1>1, <1>7, <2>1
  <2>3. Max(Shelf(e)) \in Shelf(e)
    BY <1>1, <1>7, <2>2, LatestIs
  <2>4. QED
    BY <2>1, <2>3
<1> HIDE DEF a
<1>9. /\ Showing(e, a) \in Copies /\ Showing(e, a).chats = e.chats
      /\ Showing(e, a).active = a /\ Showing(e, a).view = e.chats[a].says
      /\ Showing(e, a).projects = e.projects /\ Showing(e, a).folders = e.folders
  BY <1>7, <1>8, ShowingIs
<1>10. QED
  BY <1>4, <1>7, <1>8, <1>9

\* A hydration leaves in each chat what it says, and lets it out of what is not there.
LEMMA HydratedIs ==
  ASSUME ChatInv, NEW d, Fits(d)
  PROVE  LET k == Hydrated(d)
         IN  /\ k \in Copies /\ DOMAIN d.chats \subseteq DOMAIN k.chats
             /\ DOMAIN k.chats \subseteq DOMAIN d.chats \cup {made.chats + 1}
             /\ \A t \in DOMAIN d.chats : k.chats[t].says = d.chats[t].says
             /\ \A t \in DOMAIN k.chats \ DOMAIN d.chats : k.chats[t].says = {}
             /\ k.active \in DOMAIN k.chats /\ k.view = k.chats[k.active].says
             /\ k.projects = d.projects /\ DOMAIN k.folders \subseteq DOMAIN d.folders
             /\ Housed(k)
<1> DEFINE g == Ensuring(d)
           open == {q \in DOMAIN d.projects : ~ d.projects[q]}
           kept == {f \in DOMAIN d.folders : d.folders[f] \in open \cup {0}}
           folders == [f \in kept |-> d.folders[f]]
           put(c) == [c EXCEPT !.project = IF @ \in open THEN @ ELSE 0,
                               !.folder = IF @ \in kept THEN @ ELSE 0]
           chats == [s \in DOMAIN g.chats |-> put(g.chats[s])]
           k == Hydrated(d)
<1>1. /\ g \in Copies /\ DOMAIN d.chats \subseteq DOMAIN g.chats
      /\ DOMAIN g.chats \subseteq DOMAIN d.chats \cup {made.chats + 1}
      /\ \A t \in DOMAIN d.chats : g.chats[t] = d.chats[t]
      /\ \A t \in DOMAIN g.chats \ DOMAIN d.chats :
           g.chats[t].says = {} /\ g.chats[t].folder = 0
      /\ g.active \in DOMAIN g.chats /\ g.view = g.chats[g.active].says
      /\ g.projects = d.projects /\ g.folders = d.folders
  BY EnsuringIs
<1>2. Housed(d) /\ d \in Copies
  BY DEF Fits, FitsIn
<1>3. /\ DOMAIN g.chats \subseteq Nat /\ \A s \in DOMAIN g.chats : g.chats[s] \in ChatRecords
      /\ DOMAIN d.folders \subseteq Nat /\ \A f \in DOMAIN d.folders : d.folders[f] \in Nat
  BY <1>1, <1>2, CopyFields
<1>4. k = [g EXCEPT !.folders = folders, !.chats = chats]
  BY DEF Hydrated
<1> HIDE DEF k, g
<1>5. kept \subseteq Nat /\ 0 \in Nat
  BY <1>3
<1>6. \A s \in DOMAIN g.chats :
        /\ put(g.chats[s]) \in ChatRecords /\ put(g.chats[s]).says = g.chats[s].says
        /\ put(g.chats[s]).project = (IF g.chats[s].project \in open
                                        THEN g.chats[s].project ELSE 0)
        /\ put(g.chats[s]).folder = (IF g.chats[s].folder \in kept
                                       THEN g.chats[s].folder ELSE 0)
  <2> HIDE DEF open, kept
  <2>1. QED
    BY <1>3 DEF ChatRecords
<1>7. /\ folders \in Books(Nat) /\ DOMAIN folders = kept
      /\ \A f \in kept : folders[f] = d.folders[f]
  <2>1. folders \in [DOMAIN folders -> Nat] /\ DOMAIN folders \subseteq Nat
    BY <1>3
  <2>2. DOMAIN folders = kept /\ \A f \in kept : folders[f] = d.folders[f]
    OBVIOUS
  <2> HIDE DEF folders
  <2>3. QED
    BY <2>1, <2>2, BookIs
<1>8. \A f \in kept : f \in DOMAIN d.folders /\ d.folders[f] \in open \cup {0}
  OBVIOUS
<1> HIDE DEF open, kept, folders
<1>9. /\ DOMAIN chats = DOMAIN g.chats /\ \A s \in DOMAIN g.chats : chats[s] = put(g.chats[s])
  OBVIOUS
<1>10. chats \in Books(ChatRecords)
  <2>1. chats \in [DOMAIN chats -> ChatRecords] /\ DOMAIN chats \subseteq Nat
    BY <1>3, <1>6
  <2> HIDE DEF chats
  <2>2. QED
    BY <2>1, BookIs
<1> HIDE DEF chats, put
<1>11. /\ k \in Copies /\ k.chats = chats /\ k.active = g.active /\ k.view = g.view
       /\ k.projects = d.projects /\ k.folders = folders
  BY <1>1, <1>4, <1>7, <1>10 DEF Copies
<1>12. ASSUME NEW s \in DOMAIN k.chats, k.chats[s].folder # 0
       PROVE  /\ k.chats[s].folder \in DOMAIN k.folders
              /\ k.folders[k.chats[s].folder] = k.chats[s].project
  <2>1. s \in DOMAIN g.chats /\ k.chats[s] = put(g.chats[s])
    BY <1>9, <1>11
  <2>2. put(g.chats[s]).folder = g.chats[s].folder /\ g.chats[s].folder \in kept
    BY <1>6, <1>12, <2>1
  <2>3. s \in DOMAIN d.chats /\ g.chats[s] = d.chats[s]
    BY <1>1, <1>12, <2>1, <2>2
  <2>4. d.folders[d.chats[s].folder] = d.chats[s].project
    BY <1>2, <1>12, <2>1, <2>2, <2>3 DEF Housed
  <2>5. d.chats[s].project \in open \cup {0}
    BY <1>8, <2>2, <2>3, <2>4
  <2>6. put(g.chats[s]).project = d.chats[s].project
    BY <1>6, <2>1, <2>3, <2>5
  <2>7. QED
    BY <1>7, <1>11, <2>1, <2>2, <2>3, <2>4, <2>6
<1>13. Housed(k)
  BY <1>12 DEF Housed
<1>14. DOMAIN k.folders \subseteq DOMAIN d.folders
  BY <1>7, <1>8, <1>11
<1>15. \A t \in DOMAIN g.chats : k.chats[t].says = g.chats[t].says
  BY <1>6, <1>9, <1>11
<1>16. DOMAIN k.chats = DOMAIN g.chats
  BY <1>9, <1>11
<1>17. QED
  BY <1>1, <1>11, <1>13, <1>14, <1>15, <1>16 DEF k

\* What fits goes on fitting while nothing is made.
LEMMA FitsSame ==
  ASSUME NEW d, Fits(d), made' = made, belongs' = belongs
  PROVE  FitsIn(d, made', belongs')
  BY DEF Fits

LEMMA TailIs ==
  ASSUME NEW T, NEW l \in Seq(T), l # << >>
  PROVE  /\ Head(l) = l[1] /\ 1 \in DOMAIN l
         /\ Tail(l) \in Seq(T) /\ Len(Tail(l)) = Len(l) - 1
         /\ Len(l) \in Nat /\ Len(l) >= 1
         /\ \A i \in 1 .. Len(l) - 1 : Tail(l)[i] = l[i + 1]
         /\ DOMAIN Tail(l) = 1 .. Len(l) - 1 /\ DOMAIN l = 1 .. Len(l)
         /\ (Tail(l) = << >> <=> Len(l) = 1)
<1>1. Len(l) \in Nat /\ DOMAIN l = 1 .. Len(l) /\ Len(l) >= 1
  OBVIOUS
<1>2. Head(l) = l[1] /\ Tail(l) \in Seq(T)
  OBVIOUS
<1>3. Len(Tail(l)) = Len(l) - 1 /\ DOMAIN Tail(l) = 1 .. Len(l) - 1
  BY <1>1
<1>4. \A i \in 1 .. Len(l) - 1 : Tail(l)[i] = l[i + 1]
  BY <1>1
<1>5. Tail(l) = << >> <=> Len(Tail(l)) = 0
  BY <1>2, EmptySeq
<1>6. QED
  BY <1>1, <1>2, <1>3, <1>4, <1>5

LEMMA OpensKeeps ==
  ASSUME ChatInv, NEW w \in Surfaces, Opens(w)
  PROVE  ChatInv'
<1>1. /\ opened' = opened \cup {w} /\ due' = [due EXCEPT ![w] = 1] /\ w \notin opened
      /\ visit.opens > 0 /\ visit' = [visit EXCEPT !.opens = @ - 1]
      /\ held' = held /\ stored' = stored /\ reads' = reads /\ made' = made
      /\ belongs' = belongs /\ apart' = apart
  BY DEF Opens
<1>2. visit' \in [changes : Nat, opens : Nat, faults : Nat]
  <2>1. visit.opens \in Nat /\ visit \in [changes : Nat, opens : Nat, faults : Nat]
    BY ShapedFacts
  <2>2. visit.opens - 1 \in Nat
    BY <1>1, <2>1
  <2>3. QED
    BY <1>1, <2>1, <2>2
<1>3. due' \in [Surfaces -> Nat] /\ due'[w] = 1 /\ \A v \in Surfaces \ {w} : due'[v] = due[v]
  BY <1>1, ShapedFacts
<1>4. ChatShaped'
  BY <1>1, <1>2, <1>3, ShapedFacts DEF ChatShaped
<1>5. AllFit'
  BY <1>1 DEF ChatInv, AllFit, Fits
<1>6. AllFollow'
  <2>1. SUFFICES ASSUME NEW v \in opened' \ apart', due'[v] = 0
                 PROVE  Follows(v)'
    BY DEF AllFollow
  <2>2. v \in opened /\ v \notin apart /\ due[v] = 0
    BY <1>1, <1>3, <2>1, ShapedFacts
  <2>3. Follows(v)
    BY <2>2 DEF ChatInv, AllFollow
  <2>4. QED
    BY <1>1, <2>3, FollowsOn
<1>7. QED
  BY <1>4, <1>5, <1>6 DEF ChatInv

LEMMA ClosesKeeps ==
  ASSUME ChatInv, NEW w \in Surfaces, Closes(w)
  PROVE  ChatInv'
<1>1. /\ w \in opened /\ opened' = opened \ {w} /\ held' = [held EXCEPT ![w] = Untold]
      /\ due' = [due EXCEPT ![w] = 0] /\ reads' = [reads EXCEPT ![w] = << >>]
      /\ apart' = apart \ {w} /\ stored' = stored /\ made' = made /\ belongs' = belongs
      /\ visit' = visit
  BY DEF Closes
<1>2. /\ due' \in [Surfaces -> Nat] /\ due'[w] = 0
      /\ \A v \in Surfaces \ {w} : due'[v] = due[v]
  BY <1>1, ShapedFacts
<1>3. /\ reads' \in [Surfaces -> Seq(Copies)] /\ reads'[w] = << >>
      /\ \A v \in Surfaces \ {w} : reads'[v] = reads[v]
  BY <1>1, ShapedFacts
<1>4. /\ DOMAIN held' = Surfaces /\ held' = [v \in Surfaces |-> held'[v]] /\ held'[w] = Untold
      /\ \A v \in Surfaces \ {w} : held'[v] = held[v]
  BY <1>1, ShapedFacts
<1>5. ChatShaped'
  BY <1>1, <1>2, <1>3, <1>4, ShapedFacts DEF ChatShaped
<1>6. AllFit'
  <2>1. Fits(stored)' /\ Fits(Untold)'
    BY <1>1, UntoldFits DEF ChatInv, AllFit, Fits, Untold, EmptyFun
  <2>2. ASSUME NEW v \in Surfaces
        PROVE  Fits(held[v])' /\ \A i \in DOMAIN reads'[v] : Fits(reads[v][i])'
    <3>1. CASE v = w
      BY <1>1, <1>3, <1>4, <3>1, UntoldFits, FitsSame DEF Fits
    <3>2. CASE v # w
      BY <1>1, <1>3, <1>4, <3>2 DEF ChatInv, AllFit, Fits
    <3>3. QED
      BY <3>1, <3>2
  <2>3. QED
    BY <2>1, <2>2 DEF AllFit
<1>7. AllFollow'
  <2>1. SUFFICES ASSUME NEW v \in opened' \ apart', due'[v] = 0
                 PROVE  Follows(v)'
    BY DEF AllFollow
  <2>2. v \in opened /\ v \notin apart /\ v # w /\ v \in Surfaces
    BY <1>1, <2>1, ShapedFacts
  <2>3. Follows(v)
    BY <1>2, <2>1, <2>2 DEF ChatInv, AllFollow
  <2>4. QED
    BY <1>1, <1>3, <1>4, <2>2, <2>3, FollowsOn
<1>8. QED
  BY <1>5, <1>6, <1>7 DEF ChatInv

\* A read that comes back brings a copy that fits.
LEMMA FindsKeeps ==
  ASSUME ChatInv, NEW w \in Surfaces, NEW d, Fits(d), Finds(w, d),
         visit' \in [changes : Nat, opens : Nat, faults : Nat],
         \/ d = stored /\ apart' = apart
         \/ apart' = apart \cup {w}
  PROVE  ChatInv'
<1>1. /\ due[w] > 0 /\ due' = [due EXCEPT ![w] = @ - 1]
      /\ reads' = [reads EXCEPT ![w] = Append(@, d)]
      /\ opened' = opened /\ held' = held /\ stored' = stored /\ made' = made
      /\ belongs' = belongs
  BY DEF Finds
<1>2. w \in opened /\ due[w] \in Nat /\ reads[w] \in Seq(Copies) /\ d \in Copies
  BY <1>1, ShapedFacts DEF Fits, FitsIn
<1>3. due[w] - 1 \in Nat
  BY <1>1, <1>2
<1>4. /\ due' \in [Surfaces -> Nat] /\ \A v \in Surfaces \ {w} : due'[v] = due[v]
  BY <1>1, <1>3, ShapedFacts
<1>5. /\ Append(reads[w], d) \in Seq(Copies)
      /\ DOMAIN Append(reads[w], d) = DOMAIN reads[w] \cup {Len(reads[w]) + 1}
      /\ \A i \in DOMAIN reads[w] : Append(reads[w], d)[i] = reads[w][i]
      /\ Append(reads[w], d)[Len(reads[w]) + 1] = d
      /\ Len(Append(reads[w], d)) = Len(reads[w]) + 1
      /\ Append(reads[w], d) # << >>
  BY <1>2
<1>6. /\ reads' \in [Surfaces -> Seq(Copies)] /\ reads'[w] = Append(reads[w], d)
      /\ \A v \in Surfaces \ {w} : reads'[v] = reads[v]
  BY <1>1, <1>5, ShapedFacts
<1>7. apart' \subseteq opened'
  BY <1>1, <1>2, ShapedFacts
<1>8. ChatShaped'
  BY <1>1, <1>2, <1>4, <1>6, <1>7, ShapedFacts DEF ChatShaped
<1>9. AllFit'
  <2>1. Fits(stored)' /\ FitsIn(d, made', belongs') /\ \A v \in Surfaces : Fits(held[v])'
    BY <1>1 DEF ChatInv, AllFit, Fits
  <2>2. ASSUME NEW v \in Surfaces, NEW i \in DOMAIN reads'[v]
        PROVE  FitsIn(reads'[v][i], made', belongs')
    <3>1. CASE v = w
      BY <1>1, <1>5, <1>6, <2>1, <3>1 DEF ChatInv, AllFit, Fits
    <3>2. CASE v # w
      BY <1>1, <1>6, <3>2 DEF ChatInv, AllFit, Fits
    <3>3. QED
      BY <3>1, <3>2
  <2>3. QED
    BY <2>1, <2>2 DEF AllFit, Fits
<1>10. AllFollow'
  <2>1. SUFFICES ASSUME NEW v \in opened' \ apart', due'[v] = 0
                 PROVE  Follows(v)'
    BY DEF AllFollow
  <2>2. v \in opened /\ v \notin apart /\ v \in Surfaces
    BY <1>1, <2>1, ShapedFacts
  <2>3. CASE v = w
    <3>1. d = stored
      BY <2>1, <2>3
    <3>2. reads'[v] # << >> /\ reads'[v][Len(reads'[v])] = stored'
      BY <1>1, <1>5, <1>6, <2>3, <3>1
    <3>3. QED
      BY <3>2 DEF Follows
  <2>4. CASE v # w
    <3>1. Follows(v)
      BY <1>4, <2>1, <2>2, <2>4 DEF ChatInv, AllFollow
    <3>2. QED
      BY <1>1, <1>6, <2>2, <2>4, <3>1, FollowsOn
  <2>5. QED
    BY <2>3, <2>4
<1>11. QED
  BY <1>8, <1>9, <1>10 DEF ChatInv

LEMMA ReadsKeep ==
  ASSUME ChatInv, NEW w \in Surfaces, Reads(w) \/ ReadFails(w)
  PROVE  ChatInv'
<1>1. CASE Reads(w)
  <2>1. /\ Finds(w, stored) /\ apart' = apart
        /\ visit' \in [changes : Nat, opens : Nat, faults : Nat]
    BY <1>1, ShapedFacts DEF Reads
  <2>2. Fits(stored)
    BY DEF ChatInv, AllFit
  <2>3. QED
    BY <2>1, <2>2, FindsKeeps
<1>2. CASE ReadFails(w)
  <2>1. /\ Finds(w, Untold) /\ apart' = apart \cup {w} /\ visit.faults > 0
        /\ visit' = [visit EXCEPT !.faults = @ - 1]
    BY <1>2 DEF ReadFails
  <2>2. visit.faults \in Nat /\ visit \in [changes : Nat, opens : Nat, faults : Nat]
    BY ShapedFacts
  <2>3. visit.faults - 1 \in Nat
    BY <2>1, <2>2
  <2>4. visit' \in [changes : Nat, opens : Nat, faults : Nat]
    BY <2>1, <2>2, <2>3
  <2>5. Fits(Untold)
    BY UntoldFits
  <2>6. QED
    BY <2>1, <2>4, <2>5, FindsKeeps
<1>3. QED
  BY <1>1, <1>2

LEMMA HydrateKeeps ==
  ASSUME ChatInv, NEW w \in Surfaces, Hydrate(w)
  PROVE  ChatInv'
<1> DEFINE d == Head(reads[w])
           k == Hydrated(d)
           S == {made.chats} \cup DOMAIN k.chats
<1>1. /\ reads[w] # << >> /\ reads' = [reads EXCEPT ![w] = Tail(@)]
      /\ held' = [held EXCEPT ![w] = k]
      /\ made' = [made EXCEPT !.chats = Max(S)]
      /\ belongs' = [s \in DOMAIN belongs \cup DOMAIN k.chats |->
                       IF s \in DOMAIN belongs THEN belongs[s] ELSE {}]
      /\ opened' = opened /\ stored' = stored /\ due' = due /\ apart' = apart
      /\ visit' = visit
  BY DEF Hydrate
<1>2. reads[w] \in Seq(Copies) /\ w \in opened
  BY <1>1, ShapedFacts
<1>3. /\ d = reads[w][1] /\ 1 \in DOMAIN reads[w]
      /\ Tail(reads[w]) \in Seq(Copies) /\ Len(Tail(reads[w])) = Len(reads[w]) - 1
      /\ Len(reads[w]) \in Nat /\ Len(reads[w]) >= 1
      /\ \A i \in 1 .. Len(reads[w]) - 1 : Tail(reads[w])[i] = reads[w][i + 1]
      /\ DOMAIN Tail(reads[w]) = 1 .. Len(reads[w]) - 1
      /\ DOMAIN reads[w] = 1 .. Len(reads[w])
      /\ (Tail(reads[w]) = << >> <=> Len(reads[w]) = 1)
  BY <1>1, <1>2, TailIs
<1>4. Fits(d)
  BY <1>3 DEF ChatInv, AllFit
<1>5. /\ k \in Copies /\ DOMAIN d.chats \subseteq DOMAIN k.chats
      /\ DOMAIN k.chats \subseteq DOMAIN d.chats \cup {made.chats + 1}
      /\ \A t \in DOMAIN d.chats : k.chats[t].says = d.chats[t].says
      /\ \A t \in DOMAIN k.chats \ DOMAIN d.chats : k.chats[t].says = {}
      /\ k.active \in DOMAIN k.chats /\ k.view = k.chats[k.active].says
      /\ k.projects = d.projects /\ DOMAIN k.folders \subseteq DOMAIN d.folders
      /\ Housed(k)
  <2> HIDE DEF d
  <2>1. QED
    BY <1>4, HydratedIs
<1>6. /\ DOMAIN d.chats \subseteq DOMAIN belongs /\ DOMAIN belongs \subseteq 1 .. made.chats
      /\ made \in Counts /\ made.chats \in Nat /\ made.messages \in Nat
      /\ made.projects \in Nat /\ made.folders \in Nat
      /\ \A s \in DOMAIN d.chats : d.chats[s].says \subseteq belongs[s]
      /\ DOMAIN d.projects \subseteq 1 .. made.projects
      /\ DOMAIN d.folders \subseteq 1 .. made.folders
      /\ \A s \in DOMAIN belongs : belongs[s] \subseteq 1 .. made.messages
  BY <1>4, ShapedFacts, FitFacts DEF Fits, FitsIn
<1> HIDE DEF k
<1>7. S \in SUBSET (0 .. made.chats + 1) /\ S # {} /\ made.chats + 1 \in Nat
  BY <1>5, <1>6
<1>8. Max(S) \in S /\ \A y \in S : y <= Max(S)
  BY <1>7, MaxIs
<1> DEFINE x == Max(S)
<1> HIDE DEF x
<1>9. x \in Nat /\ made.chats <= x /\ \A s \in DOMAIN k.chats : s \in 1 .. x
  <2>1. x \in S /\ \A y \in S : y <= x
    BY <1>8 DEF x
  <2>2. DOMAIN k.chats \subseteq 1 .. made.chats + 1
    BY <1>5, <1>6
  <2>3. QED
    BY <1>6, <1>7, <2>1, <2>2
<1>10. /\ made' \in Counts /\ made'.chats = x /\ made'.messages = made.messages
       /\ made'.projects = made.projects /\ made'.folders = made.folders
  <2>1. made' = [made EXCEPT !.chats = x]
    BY <1>1 DEF x
  <2>2. QED
    BY <1>6, <1>9, <2>1 DEF Counts
<1>11. /\ DOMAIN belongs' = DOMAIN belongs \cup DOMAIN k.chats
       /\ \A s \in DOMAIN belongs : belongs'[s] = belongs[s]
       /\ \A s \in DOMAIN k.chats \ DOMAIN belongs : belongs'[s] = {}
  BY <1>1
<1>12. /\ DOMAIN belongs' \subseteq 1 .. made'.chats
       /\ \A s \in DOMAIN belongs' : belongs'[s] \subseteq 1 .. made'.messages
  <2>1. DOMAIN belongs \subseteq 1 .. x
    BY <1>6, <1>9
  <2>2. QED
    BY <1>6, <1>9, <1>10, <1>11, <2>1
<1>13. FitsIn(k, made', belongs')
  <2>1. \A s \in DOMAIN k.chats : k.chats[s].says \subseteq belongs'[s]
    <3>1. SUFFICES ASSUME NEW s \in DOMAIN k.chats PROVE k.chats[s].says \subseteq belongs'[s]
      OBVIOUS
    <3>2. CASE s \in DOMAIN d.chats
      BY <1>5, <1>6, <1>11, <3>2
    <3>3. CASE s \notin DOMAIN d.chats
      BY <1>5, <3>1, <3>3
    <3>4. QED
      BY <3>2, <3>3
  <2>2. k.view \subseteq 1 .. made'.messages
    BY <1>5, <1>11, <1>12, <2>1
  <2>3. DOMAIN k.chats \subseteq DOMAIN belongs'
    BY <1>11
  <2>4. /\ DOMAIN k.projects \subseteq 1 .. made'.projects
        /\ DOMAIN k.folders \subseteq 1 .. made'.folders
    BY <1>5, <1>6, <1>10
  <2>5. QED
    BY <1>5, <2>1, <2>2, <2>3, <2>4 DEF FitsIn
<1>14. ASSUME NEW e, Fits(e) PROVE FitsIn(e, made', belongs')
  <2>1. /\ made'.messages >= made.messages /\ made'.projects >= made.projects
        /\ made'.folders >= made.folders
    BY <1>6, <1>10
  <2>2. /\ DOMAIN belongs \subseteq DOMAIN belongs'
        /\ \A s \in DOMAIN belongs : belongs[s] \subseteq belongs'[s]
    BY <1>11
  <2>3. QED
    BY <1>6, <1>10, <1>14, <2>1, <2>2, FitsOn DEF Fits
<1>15. /\ DOMAIN held' = Surfaces /\ held' = [v \in Surfaces |-> held'[v]] /\ held'[w] = k
       /\ \A v \in Surfaces \ {w} : held'[v] = held[v]
  BY <1>1, ShapedFacts
<1>16. /\ reads' \in [Surfaces -> Seq(Copies)] /\ reads'[w] = Tail(reads[w])
       /\ \A v \in Surfaces \ {w} : reads'[v] = reads[v]
  BY <1>1, <1>3, ShapedFacts
<1>17. ChatShaped'
  BY <1>1, <1>2, <1>10, <1>12, <1>15, <1>16, ShapedFacts DEF ChatShaped
<1>18. AllFit'
  <2>1. FitsIn(stored', made', belongs')
    <3>1. Fits(stored)
      BY DEF ChatInv, AllFit
    <3>2. QED
      BY <1>1, <1>14, <3>1
  <2>2. ASSUME NEW v \in Surfaces
        PROVE  /\ FitsIn(held'[v], made', belongs')
               /\ \A i \in DOMAIN reads'[v] : FitsIn(reads'[v][i], made', belongs')
    <3>1. CASE v = w
      <4>1. ASSUME NEW i \in DOMAIN reads'[v] PROVE Fits(reads'[v][i])
        <5>1. i + 1 \in DOMAIN reads[w] /\ reads'[v][i] = reads[w][i + 1]
          <6>1. reads'[v] = Tail(reads[w]) /\ i \in 1 .. Len(reads[w]) - 1
            BY <1>3, <1>16, <3>1
          <6>2. i + 1 \in 1 .. Len(reads[w])
            BY <1>3, <6>1
          <6>3. QED
            BY <1>3, <6>1, <6>2
        <5>2. QED
          BY <5>1 DEF ChatInv, AllFit
      <4>2. QED
        BY <1>13, <1>14, <1>15, <3>1, <4>1
    <3>2. CASE v # w
      BY <1>14, <1>15, <1>16, <3>2 DEF ChatInv, AllFit
    <3>3. QED
      BY <3>1, <3>2
  <2>3. QED
    BY <2>1, <2>2 DEF AllFit, Fits
<1>19. AllFollow'
  <2>1. SUFFICES ASSUME NEW v \in opened' \ apart', due'[v] = 0
                 PROVE  Follows(v)'
    BY DEF AllFollow
  <2>2. Follows(v) /\ v \in Surfaces
    BY <1>1, <2>1, ShapedFacts DEF ChatInv, AllFollow
  <2>3. CASE v # w
    BY <1>1, <1>15, <1>16, <2>2, <2>3, FollowsOn
  <2>4. CASE v = w
    <3>1. reads[w][Len(reads[w])] = stored
      BY <1>1, <2>2, <2>4 DEF Follows
    <3>2. CASE Len(reads[w]) = 1
      <4>1. reads'[w] = << >> /\ d = stored /\ held'[w] = Hydrated(stored)
        BY <1>3, <1>15, <1>16, <3>1, <3>2 DEF k
      <4>2. CASE Shelf(stored) # {}
        <5>1. Hydrated(stored)' = Hydrated(stored)
          BY <1>1, <4>2, HydratedAlike
        <5>2. Shelf(stored)' # {}
          BY <1>1, <4>2 DEF Shelf
        <5>3. QED
          BY <2>4, <4>1, <5>1, <5>2 DEF Follows
      <4>3. CASE Shelf(stored) = {}
        <5>1. Shelf(stored)' = {}
          BY <1>1, <4>3 DEF Shelf
        <5>2. DOMAIN stored'.chats \subseteq DOMAIN held'[w].chats
          BY <1>1, <1>5, <1>15, <4>1
        <5>3. QED
          BY <2>4, <4>1, <5>1, <5>2 DEF Follows
      <4>4. QED
        BY <4>2, <4>3
    <3>3. CASE Len(reads[w]) # 1
      <4>1. Len(reads[w]) - 1 \in 1 .. Len(reads[w]) - 1
        BY <1>3, <3>3
      <4>2. reads'[w] # << >> /\ reads'[w][Len(reads'[w])] = stored'
        <5>1. Tail(reads[w])[Len(reads[w]) - 1] = reads[w][Len(reads[w]) - 1 + 1]
          BY <1>3, <4>1
        <5>2. Len(reads[w]) - 1 + 1 = Len(reads[w])
          BY <1>3
        <5>3. QED
          BY <1>1, <1>3, <1>16, <3>1, <3>3, <5>1, <5>2
      <4>3. QED
        BY <2>4, <4>2 DEF Follows
    <3>4. QED
      BY <3>2, <3>3
  <2>5. QED
    BY <2>3, <2>4
<1>20. QED
  BY <1>17, <1>18, <1>19 DEF ChatInv

-----------------------------------------------------------------------------
(***************************************************************************)
(* The invariant, and what it says of the properties.                      *)
(***************************************************************************)

LEMMA ChatStart == ChatInit => ChatInv
<1>1. SUFFICES ASSUME ChatInit PROVE ChatInv
  OBVIOUS
<1>2. /\ opened = {} /\ apart = {} /\ visit \in Visits
      /\ held = [w \in Surfaces |-> Untold] /\ due = [w \in Surfaces |-> 0]
      /\ reads = [w \in Surfaces |-> << >>] /\ belongs = [s \in {1} |-> {1}]
  BY <1>1 DEF ChatInit
<1>3. PICK n \in {0, 1} :
        /\ made = [chats |-> 1, messages |-> 1, projects |-> n, folders |-> n]
        /\ stored = [chats |-> [s \in {1} |-> [BlankChat({1}) EXCEPT !.project = n,
                                                                   !.folder = n]],
                     active |-> 1, view |-> {1},
                     projects |-> [q \in 1 .. n |-> FALSE], folders |-> [f \in 1 .. n |-> f]]
  BY <1>1 DEF ChatInit
<1> DEFINE c == [BlankChat({1}) EXCEPT !.project = n, !.folder = n]
           chats == [s \in {1} |-> c]
           projects == [q \in 1 .. n |-> FALSE]
           folders == [f \in 1 .. n |-> f]
<1>4. c \in ChatRecords /\ c.says = {1} /\ c.project = n /\ c.folder = n /\ n \in Nat
  <2>1. n \in Nat /\ {1} \in SUBSET Nat
    OBVIOUS
  <2>2. BlankChat({1}) \in ChatRecords /\ BlankChat({1}).says = {1}
    BY <2>1, BlankIs
  <2>3. QED
    BY <2>1, <2>2 DEF ChatRecords
<1>5. /\ stored.chats = chats /\ stored.active = 1 /\ stored.view = {1}
      /\ stored.projects = projects /\ stored.folders = folders
      /\ stored = [chats |-> chats, active |-> 1, view |-> {1}, projects |-> projects,
                   folders |-> folders]
  BY <1>3
<1> HIDE DEF c
<1>6. chats \in Books(ChatRecords) /\ DOMAIN chats = {1} /\ chats[1] = c
  <2>1. chats \in [DOMAIN chats -> ChatRecords] /\ DOMAIN chats \subseteq Nat
    BY <1>4
  <2>2. QED
    BY <2>1, BookIs
<1>7. projects \in Books(BOOLEAN) /\ DOMAIN projects = 1 .. n
  <2>1. projects \in [DOMAIN projects -> BOOLEAN] /\ DOMAIN projects \subseteq Nat
    BY <1>4
  <2>2. QED
    BY <2>1, BookIs
<1>8. folders \in Books(Nat) /\ DOMAIN folders = 1 .. n /\ \A f \in 1 .. n : folders[f] = f
  <2>1. folders \in [DOMAIN folders -> Nat] /\ DOMAIN folders \subseteq Nat
    BY <1>4
  <2>2. QED
    BY <2>1, BookIs
<1> HIDE DEF chats, projects, folders
<1>9. stored \in Copies
  BY <1>5, <1>6, <1>7, <1>8 DEF Copies
<1>10. /\ made \in Counts /\ made.chats = 1 /\ made.messages = 1
       /\ made.projects = n /\ made.folders = n
  BY <1>3, <1>4 DEF Counts
<1>11. DOMAIN belongs = {1} /\ belongs[1] = {1}
  BY <1>2
<1>12. Housed(stored)
  <2>1. n # 0 => n \in 1 .. n
    BY <1>4
  <2>2. QED
    BY <1>4, <1>5, <1>6, <1>8, <2>1 DEF Housed
<1>13. Fits(stored)
  BY <1>4, <1>5, <1>6, <1>7, <1>8, <1>9, <1>10, <1>11, <1>12 DEF Fits, FitsIn
<1>14. ChatShaped
  <2>1. visit \in [changes : Nat, opens : Nat, faults : Nat]
    BY <1>2, ChatAssumption
  <2>2. << >> \in Seq(Copies)
    OBVIOUS
  <2>3. due \in [Surfaces -> Nat] /\ reads \in [Surfaces -> Seq(Copies)]
    BY <1>2, <2>2
  <2>4. /\ DOMAIN belongs \subseteq 1 .. made.chats
        /\ \A s \in DOMAIN belongs : belongs[s] \subseteq 1 .. made.messages
    BY <1>10, <1>11
  <2>5. DOMAIN held = Surfaces /\ held = [w \in Surfaces |-> held[w]]
    BY <1>2
  <2>6. \A w \in Surfaces : held[w] = Untold /\ reads[w] = << >> /\ due[w] = 0
    BY <1>2
  <2>7. QED
    BY <1>2, <1>10, <2>1, <2>3, <2>4, <2>5, <2>6 DEF ChatShaped
<1>15. Fits(Untold)
  <2>1. /\ EmptyFun \in Books(ChatRecords) /\ EmptyFun \in Books(BOOLEAN)
        /\ EmptyFun \in Books(Nat) /\ DOMAIN EmptyFun = {}
    BY EmptyIs
  <2>2. /\ Untold.chats = EmptyFun /\ Untold.active = 0 /\ Untold.view = {}
        /\ Untold.projects = EmptyFun /\ Untold.folders = EmptyFun /\ Untold \in Copies
    BY <2>1 DEF Untold, Copies
  <2>3. QED
    BY <2>1, <2>2 DEF Fits, FitsIn, Housed
<1>16. AllFit
  BY <1>2, <1>13, <1>15 DEF AllFit
<1>17. AllFollow
  BY <1>2 DEF AllFollow
<1>18. QED
  BY <1>14, <1>16, <1>17 DEF ChatInv

LEMMA ChatKeeps == ChatInv /\ [ChatNext]_chatVars => ChatInv'
<1>1. SUFFICES ASSUME ChatInv, [ChatNext]_chatVars PROVE ChatInv'
  OBVIOUS
<1>2. CASE ChatNext
  <2>1. PICK w \in Surfaces :
          \/ w \in opened /\ ChatStep(w)
          \/ Opens(w) \/ Closes(w) \/ Reads(w) \/ ReadFails(w) \/ Hydrate(w)
    BY <1>2 DEF ChatNext
  <2>2. QED
    BY <1>1, <2>1, StepsKeep, OpensKeeps, ClosesKeeps, ReadsKeep, HydrateKeeps
<1>3. CASE UNCHANGED chatVars
  <2>1. /\ opened' = opened /\ held' = held /\ stored' = stored /\ due' = due /\ reads' = reads
        /\ made' = made /\ belongs' = belongs /\ apart' = apart /\ visit' = visit
    BY <1>3 DEF chatVars
  <2>2. ChatShaped'
    BY <1>1, <2>1 DEF ChatInv, ChatShaped, Untold, EmptyFun
  <2>3. AllFit'
    BY <1>1, <2>1 DEF ChatInv, AllFit, Fits
  <2>4. AllFollow'
    BY <1>1, <2>1, FollowsOn DEF ChatInv, AllFollow
  <2>5. QED
    BY <2>2, <2>3, <2>4 DEF ChatInv
<1>4. QED
  BY <1>1, <1>2, <1>3

\* Whatever the surfaces do, and whatever calls of the storage fail, every copy there is
\* fits what was made and said, and a surface with nothing to read and nothing of its own
\* either shows what is stored or is about to.
THEOREM ChatInvariant == ChatSpec => []ChatInv
<1>1. ChatInit => ChatInv
  BY ChatStart
<1>2. ChatInv /\ [ChatNext]_chatVars => ChatInv'
  BY ChatKeeps
<1>3. QED
  BY <1>1, <1>2, PTL DEF ChatSpec

LEMMA ChatImpliesType == ChatInv => ChatTypeOK
<1>1. SUFFICES ASSUME ChatInv PROVE ChatTypeOK
  OBVIOUS
<1>2. /\ opened \subseteq Surfaces /\ apart \subseteq opened
      /\ \A w \in Surfaces : due[w] \in Nat /\ (w \notin opened => held[w] = Untold)
  BY <1>1, ShapedFacts
<1>3. ASSUME NEW d \in {stored} \cup {held[w] : w \in Surfaces}
      PROVE  /\ DOMAIN d.chats \subseteq 1 .. made.chats /\ d.view \subseteq 1 .. made.messages
             /\ d.chats = EmptyFun \/ d.active \in DOMAIN d.chats
             /\ DOMAIN d.projects \subseteq 1 .. made.projects
             /\ DOMAIN d.folders \subseteq 1 .. made.folders
  <2>1. Fits(d)
    BY <1>1 DEF ChatInv, AllFit
  <2>2. DOMAIN d.chats \subseteq 1 .. made.chats
    BY <1>1, <2>1, FitFacts
  <2>3. QED
    BY <2>1, <2>2 DEF Fits, FitsIn
<1>4. QED
  BY <1>2, <1>3 DEF ChatTypeOK

\* The type invariant of the chats.
THEOREM ChatTypeCorrect == ChatSpec => []ChatTypeOK
<1>1. ChatInv => ChatTypeOK
  BY ChatImpliesType
<1>2. QED
  BY <1>1, ChatInvariant, PTL

LEMMA FitsSound == ASSUME NEW d, Fits(d) PROVE SoundCopy(d)
  BY DEF Fits, FitsIn, SoundCopy, Housed

\* However the surfaces write over one another, every copy of the chats is sound.
THEOREM CopiesStaySound == ChatSpec => []CopiesAreSound
<1>1. ChatInv => CopiesAreSound
  BY FitsSound DEF ChatInv, AllFit, CopiesAreSound
<1>2. QED
  BY <1>1, ChatInvariant, PTL

\* A surface with nothing to read, and nothing of its own, shows what is stored.
THEOREM SurfacesFollow == ChatSpec => []OthersFollow
<1>1. ChatInv => OthersFollow
  BY DEF ChatInv, AllFollow, OthersFollow, Follows
<1>2. QED
  BY <1>1, ChatInvariant, PTL

-----------------------------------------------------------------------------
(***************************************************************************)
(* What a surface that is up to date may take from the storage.            *)
(***************************************************************************)

\* It has read what the others wrote, and has nothing of its own to write.
UpToDate(w) == w \in opened \ apart /\ due[w] = 0 /\ reads[w] = << >>

\* Every change of the storage is a write of a surface.
LEMMA WriterIs ==
  ASSUME ChatInv, [ChatNext]_chatVars, stored' # stored
  PROVE  \E w \in opened : ChatStep(w)
<1>1. CASE ChatNext
  <2>1. PICK w \in Surfaces :
          \/ w \in opened /\ ChatStep(w)
          \/ Opens(w) \/ Closes(w) \/ Reads(w) \/ ReadFails(w) \/ Hydrate(w)
    BY <1>1 DEF ChatNext
  <2>2. Opens(w) \/ Closes(w) \/ Reads(w) \/ ReadFails(w) \/ Hydrate(w) => stored' = stored
    BY DEF Opens, Closes, Reads, ReadFails, Finds, Hydrate
  <2>3. QED
    BY <2>1, <2>2
<1>2. CASE UNCHANGED chatVars
  BY <1>2 DEF chatVars
<1>3. QED
  BY <1>1, <1>2

\* A surface that is up to date holds every chat there is in the storage.
LEMMA HoldsAll ==
  ASSUME ChatInv, NEW w, UpToDate(w)
  PROVE  DOMAIN stored.chats \subseteq DOMAIN held[w].chats
<1>1. Follows(w) /\ reads[w] = << >>
  BY DEF ChatInv, AllFollow, UpToDate
<1>2. CASE Shelf(stored) # {}
  <2>1. held[w] = Hydrated(stored)
    BY <1>1, <1>2 DEF Follows
  <2>2. Fits(stored)
    BY DEF ChatInv, AllFit
  <2>3. DOMAIN stored.chats \subseteq DOMAIN Hydrated(stored).chats
    BY <2>2, HydratedIs
  <2>4. QED
    BY <2>1, <2>3
<1>3. CASE Shelf(stored) = {}
  BY <1>1, <1>3 DEF Follows
<1>4. QED
  BY <1>2, <1>3

LEMMA ErasesDeleted ==
  ASSUME ChatInv, NEW w \in opened, ChatStep(w), UpToDate(w),
         NEW s \in DOMAIN stored.chats \ DOMAIN stored'.chats
  PROVE  DropChat(w, s)
<1>1. PICK h, n : Write(w, h, n)
  BY StepsWrite DEF EndsInWrite
<1>2. /\ Loose(h, n) /\ Persists(w, h, n)
      /\ \A t \in DOMAIN held[w].chats \ DOMAIN h.chats : DropChat(w, t)
  BY <1>1 DEF Write
<1>3. stored' = Written(h)
  <2>1. stored' # stored
    OBVIOUS
  <2>2. QED
    BY <1>2, <2>1 DEF Persists
<1>4. DOMAIN h.chats \subseteq DOMAIN Written(h).chats
  BY <1>2, WrittenMore
<1>5. s \in DOMAIN held[w].chats
  BY HoldsAll
<1>6. QED
  BY <1>2, <1>3, <1>4, <1>5

\* A chat leaves the storage with a write of one surface, and if that surface was up to
\* date, it is the one its human deletes.
DeletionErases ==
  \A s \in DOMAIN stored.chats \ DOMAIN stored'.chats :
    \E w \in opened : ChatStep(w) /\ (UpToDate(w) => DropChat(w, s))

\* What holds of the promise that a launch erases nothing: what a write of persist takes
\* from the storage is what deleteSession lets go, once the surface is up to date.
THEOREM OnlyDeletionErases == ChatSpec => [][DeletionErases]_chatVars
<1>1. ChatInv /\ [ChatNext]_chatVars => DeletionErases
  <2>1. SUFFICES ASSUME ChatInv, [ChatNext]_chatVars,
                        NEW s \in DOMAIN stored.chats \ DOMAIN stored'.chats
                 PROVE  \E w \in opened : ChatStep(w) /\ (UpToDate(w) => DropChat(w, s))
    BY DEF DeletionErases
  <2>2. stored' # stored
    OBVIOUS
  <2>3. PICK w \in opened : ChatStep(w)
    BY <2>1, <2>2, WriterIs
  <2>4. UpToDate(w) => DropChat(w, s)
    BY <2>1, <2>3, ErasesDeleted
  <2>5. QED
    BY <2>3, <2>4
<1>2. QED
  BY <1>1, ChatInvariant, PTL DEF ChatSpec
=============================================================================
