---------------------------- MODULE BrowserJobs ----------------------------
(***************************************************************************)
(* The browser jobs of the side panel: the live job store                  *)
(* (browser-job-store.js), the scheduler (browser-job-scheduler.js), the   *)
(* scheduled runs (side-panel-scheduled-browser-job-runner.js driving the  *)
(* loop of agent-control-runner.js) and the commands of the human.         *)
(*                                                                         *)
(* JavaScript interleaves only at an await, so a step runs from one await  *)
(* to the next.  What a job carries beside its status and its page lock is *)
(* left out, and so are timestamps: where the code takes the most recently *)
(* updated job, the model takes any.  A job's goal has a page, the target  *)
(* its lock names; a job without a lock acts on the active tab, which may  *)
(* be any page.                                                            *)
(***************************************************************************)
EXTENDS Naturals, FiniteSets, Sequences

CONSTANTS Jobs, Pages, PageOf,     \* jobs 1, 2, ..; browser targets; each goal's target
          Runs, Ticks,             \* bounds: executions and scheduler passes at a time
          Commands,                \* bound: commands of the human at a time
          MaxConcurrent,           \* the scheduler's capacity
          MaxSteps,                \* bound: browser actions of one run (12 in the code)
          MaxActs,                 \* bound: commands and reloads of the human
          None

ASSUME JobsAssumption ==
  /\ Jobs \subseteq Nat /\ Runs \subseteq Nat /\ Ticks \subseteq Nat
  /\ PageOf \in [Jobs -> Pages]
  /\ MaxConcurrent \in Nat \ {0} /\ MaxSteps \in Nat \ {0} /\ MaxActs \in Nat
  /\ None \notin Jobs \cup Pages \cup Runs

VARIABLES job,      \* the store: status and lock of each job
          focusId,  \* activeJobId
          cmd,      \* a command of the human between two awaits
          tick,     \* a pass of the scheduler between two awaits
          running,  \* the scheduler's map from jobs to executions
          run,      \* the executions
          lockedBy, \* the run inside withBrowserActionLock
          behind,   \* whose awaited save the store queued behind which pass's
          acts      \* how often the human acted, for the bound

jobsVars == <<job, focusId, cmd, tick, running, run, lockedBy, behind, acts>>

Terminal    == {"completed", "blocked", "denied", "cancelled", "failed"}
ActiveState == {"queued", "running", "paused", "approval"}
LockHolding == {"queued", "running", "approval"}
Clearable   == {"completed", "cancelled", "denied"}
HumanStop   == {"paused", "cancelled"}

\* "absent": not created yet; "gone": cleared, and its id never used again.
Statuses == Terminal \cup ActiveState \cup {"absent", "gone"}

Idle    == [pc |-> "idle", job |-> None]
NoTick  == [pc |-> "idle", todo |-> << >>]
NoRun   == [pc |-> "off", job |-> None, result |-> None,
            steps |-> 0, halted |-> FALSE, late |-> 0]

JobsInit ==
  /\ job = [j \in Jobs |-> [status |-> "absent", lock |-> None]]
  /\ focusId = None
  /\ cmd = [k \in Commands |-> Idle]
  /\ tick = [t \in Ticks |-> NoTick]
  /\ running = [j \in Jobs |-> None]
  /\ run = [r \in Runs |-> NoRun]
  /\ lockedBy = None
  /\ behind = {}
  /\ acts = 0

\* Jobs, runs and passes are numbered as they are needed.
Lowest(S, x) == x \in S /\ \A y \in S : x <= y

Status(j) == job[j].status
Known(j)  == Status(j) \notin {"absent", "gone"}
Live(r)   == run[r].pc # "off"

----------------------------------------------------------------------------
(* The store. *)

Normalized(status, lock) ==
  [status |-> status, lock |-> IF status \in LockHolding THEN lock ELSE None]

\* The lock-holding jobs, other than j, that own the page.
Conflicts(j, page) ==
  {i \in Jobs \ {j} : Status(i) \in LockHolding /\ page # None /\ job[i].lock = page}

\* Mutant: updateJob without preserveHumanStop.
KeepsHumanStop_Bug(j, status, human) == FALSE

\* A run may not move a job out of a stop the human asked for.
KeepsHumanStop(j, status, human) ==
  Status(j) \in HumanStop /\ status \notin HumanStop /\ ~human

\* updateJob on a live job; what it does to an unknown one is nothing.
Updated(j, status, lock, human) ==
  IF Known(j)
  THEN [job EXCEPT ![j] =
          Normalized(IF KeepsHumanStop(j, status, human) THEN Status(j) ELSE status,
                     lock)]
  ELSE job

Set(j, status) == Updated(j, status, job[j].lock, FALSE)

\* The focus moves to another active job when the focused one ends.
FocusAfter(j, jobs) ==
  LET others == {i \in Jobs \ {j} : jobs[i].status \in ActiveState}
  IN  IF focusId = j /\ jobs[j].status \in Terminal /\ others # {}
      THEN others ELSE {focusId}

\* The store saves in the order it is asked to (writeQueue).  An actor that awaits
\* a save goes on after the passes whose saves were asked for before its own.
JobSavers == ({"pass"} \X Ticks) \cup ({"run"} \X Runs) \cup ({"command"} \X Commands)

AwaitsSave(saver, queue) ==
  queue \cup {q \in Ticks \X {saver} :
                tick[q[1]].pc # "idle" /\ saver # <<"pass", q[1]>>}

Saved(saver) == \A t \in Ticks : <<t, saver>> \notin behind

\* The queue once a save of the pass is done.
After(t) == {q \in behind : q[1] # t}

\* A job update as a step: the record, and the focus it leaves.
Update(j, jobs) == job' = jobs /\ focusId' \in FocusAfter(j, jobs)

----------------------------------------------------------------------------
(* The scheduler. *)

Queued  == {j \in Jobs : Status(j) = "queued"}
Engaged == {j \in Jobs : Status(j) \in {"running", "approval"}}

SlotsFree == IF Cardinality(Engaged) >= MaxConcurrent
             THEN 0 ELSE MaxConcurrent - Cardinality(Engaged)

\* A job may join the jobs already chosen when no holder has its page.
Admissible(j, chosen) ==
  job[j].lock = None \/ \A i \in Engaged \cup chosen : job[i].lock # job[j].lock

Chosen(p) == {p[i] : i \in DOMAIN p}

\* runnableQueued: the queue, in some order, as far as slots and locks allow.
Plans ==
  LET size == SlotsFree
      seqs == UNION {[1 .. n -> Queued] : n \in 0 .. size}
  IN  {p \in seqs :
         /\ \A i \in DOMAIN p : /\ \A k \in DOMAIN p : p[i] = p[k] => i = k
                                /\ Admissible(p[i], {p[k] : k \in 1 .. i - 1})
         /\ Len(p) < size =>
              \A j \in Queued \ Chosen(p) : ~ Admissible(j, Chosen(p))}

Executing(map) == {j \in Jobs : map[j] # None}

\* startJob goes on only for a queued job the scheduler is not executing.
Startable(j, map) == map[j] = None /\ Status(j) = "queued"

\* The rest of a pass from its first startable job on: the loop of tick, which
\* skips the others without an await.
Remaining(todo, map) ==
  LET ready == {i \in DOMAIN todo : Startable(todo[i], map)}
  IN  IF ready = {} \/ Cardinality(Executing(map)) >= MaxConcurrent THEN << >>
      ELSE SubSeq(todo, CHOOSE i \in ready : \A k \in ready : i <= k, Len(todo))

\* A pass goes on: it ends, focuses its next job, or marks it running.
GoOn(t, todo, map, queue) ==
  LET rest == Remaining(todo, map)
      next == Head(rest)
  IN  \/ /\ rest = << >>
         /\ tick' = [tick EXCEPT ![t] = NoTick]
         /\ behind' = queue
         /\ UNCHANGED <<job, focusId>>
      \/ /\ rest # << >> /\ focusId = None
         /\ focusId' = next
         /\ tick' = [tick EXCEPT ![t] = [pc |-> "focusing", todo |-> rest]]
         /\ behind' = AwaitsSave(<<"pass", t>>, queue)
         /\ UNCHANGED job
      \/ /\ rest # << >> /\ focusId # None
         /\ job' = Set(next, "running")
         /\ tick' = [tick EXCEPT ![t] = [pc |-> "starting", todo |-> rest]]
         /\ behind' = AwaitsSave(<<"pass", t>>, queue)
         /\ UNCHANGED focusId

Begin(t, map) == /\ Lowest({u \in Ticks : tick[u].pc = "idle"}, t)
                 /\ \E p \in Plans : GoOn(t, p, map, behind)

\* activateJob is saved.  The status is not looked at again; a job that is gone ends
\* the pass, which onJobStarted throws out of.
TickFocused(t) ==
  LET next == Head(tick[t].todo)
  IN  /\ tick[t].pc = "focusing" /\ Saved(<<"pass", t>>)
      /\ UNCHANGED <<focusId, cmd, running, run, lockedBy>>
      /\ \/ /\ Known(next)
            /\ job' = Set(next, "running")
            /\ tick' = [tick EXCEPT ![t].pc = "starting"]
            /\ behind' = AwaitsSave(<<"pass", t>>, After(t))
         \/ /\ ~ Known(next)
            /\ tick' = [tick EXCEPT ![t] = NoTick]
            /\ behind' = After(t)
            /\ UNCHANGED job

\* The update is saved and the start announced: the run begins.
TickStarted(t, r) ==
  LET next == Head(tick[t].todo)
      map  == [running EXCEPT ![next] = r]
  IN  /\ tick[t].pc = "starting" /\ Saved(<<"pass", t>>)
      /\ Lowest({s \in Runs : ~ Live(s)}, r)
      /\ run' = [run EXCEPT ![r] = [NoRun EXCEPT !.pc = "top", !.job = next,
                                                 !.halted = Status(next) \in HumanStop]]
      /\ running' = map
      /\ GoOn(t, Tail(tick[t].todo), map, After(t))
      /\ UNCHANGED <<cmd, lockedBy>>

----------------------------------------------------------------------------
(* A run: observe, decide, act. *)

\* Mutant: a run that looks for the cancellation only.
Stopped_Bug(j) == Status(j) = "cancelled"

Stopped(j) == Status(j) \in HumanStop

Moved(r, pc) == [run EXCEPT ![r].pc = pc]

\* finishControlRun: the status is written at once, the run settles later.
Finish(r, status) ==
  /\ Update(run[r].job, Set(run[r].job, status))
  /\ run' = [run EXCEPT ![r].pc = "settling", ![r].result = status]
  /\ UNCHANGED <<cmd, tick, running>>

\* stopRun: the same, and the status is written once more after a message.
StopRun(r) ==
  LET j == run[r].job
  IN  /\ Stopped(j)
      /\ Update(j, Set(j, Status(j)))
      /\ run' = [run EXCEPT ![r].pc = "stopping", ![r].result = Status(j)]
      /\ UNCHANGED <<cmd, tick, running>>

RunTop(r) ==
  /\ run[r].pc = "top"
  /\ UNCHANGED lockedBy
  /\ \/ StopRun(r) /\ UNCHANGED behind
     \/ /\ ~ Stopped(run[r].job) /\ run[r].steps = MaxSteps
        /\ Finish(r, "blocked") /\ UNCHANGED behind
     \/ /\ ~ Stopped(run[r].job) /\ run[r].steps < MaxSteps
        /\ Update(run[r].job, Set(run[r].job, "running"))
        /\ run' = Moved(r, "deciding")
        /\ behind' = AwaitsSave(<<"run", r>>, behind)
        /\ UNCHANGED <<cmd, tick, running>>

\* The decision is in: done, blocked, for approval, failed, or an action, which is
\* recorded (with the status of a running job) before the stop is looked at again.
RunDecides(r) ==
  /\ run[r].pc = "deciding" /\ Saved(<<"run", r>>)
  /\ UNCHANGED <<lockedBy, behind>>
  /\ \/ \E status \in {"completed", "blocked", "approval", "failed"} : Finish(r, status)
     \/ StopRun(r)
     \/ /\ ~ Stopped(run[r].job)
        /\ Update(run[r].job, Set(run[r].job, "running"))
        /\ run' = Moved(r, "waiting")
        /\ UNCHANGED <<cmd, tick, running>>

\* executeQueuedJobStep has the lock: it refuses a stopped job, else it begins
\* to bring the job's tab to the front.
RunHasLock(r) ==
  /\ run[r].pc = "waiting" /\ lockedBy = None
  /\ UNCHANGED behind
  /\ \/ /\ Stopped(run[r].job)
        /\ Finish(r, Status(run[r].job))
        /\ UNCHANGED lockedBy
     \/ /\ ~ Stopped(run[r].job)
        /\ lockedBy' = r
        /\ run' = Moved(r, "fronting")
        /\ UNCHANGED <<job, focusId, cmd, tick, running>>

\* The tab is in front and the step is sent to the page, or the tab is gone.
RunActs(r) ==
  /\ run[r].pc = "fronting"
  /\ UNCHANGED behind
  /\ \/ /\ run' = [run EXCEPT ![r].pc = "acted", ![r].steps = @ + 1,
                              ![r].late = IF run[r].halted /\ @ < 2 THEN @ + 1 ELSE @]
        /\ UNCHANGED <<job, focusId, cmd, tick, running, lockedBy>>
     \/ Finish(r, "failed") /\ lockedBy' = None

RunActed(r) ==
  /\ run[r].pc = "acted"
  /\ lockedBy' = None
  /\ UNCHANGED behind
  /\ \/ StopRun(r)
     \/ ~ Stopped(run[r].job) /\ Finish(r, "blocked")
     \/ /\ ~ Stopped(run[r].job)
        /\ Update(run[r].job, Set(run[r].job, "running"))
        /\ run' = Moved(r, "top")
        /\ UNCHANGED <<cmd, tick, running>>

\* The stop is announced: stopRun writes the status it had read.
RunStopped(r) ==
  /\ run[r].pc = "stopping"
  /\ Update(run[r].job, Set(run[r].job, run[r].result))
  /\ run' = Moved(r, "settling")
  /\ behind' = AwaitsSave(<<"run", r>>, behind)
  /\ UNCHANGED <<cmd, tick, running, lockedBy>>

\* settleJob: a job still marked running takes the status of the result.
RunSettles(r) ==
  LET j == run[r].job
      status == IF run[r].result \in {"completed", "approval"} THEN run[r].result
                ELSE "blocked"
  IN  /\ run[r].pc = "settling" /\ Saved(<<"run", r>>)
      /\ \/ /\ Status(j) = "running"
            /\ Update(j, Set(j, status))
            /\ behind' = AwaitsSave(<<"run", r>>, behind)
         \/ Status(j) # "running" /\ UNCHANGED <<job, focusId, behind>>
      /\ run' = Moved(r, "leaving")
      /\ UNCHANGED <<cmd, tick, running, lockedBy>>

\* ... and its finally: the job leaves the map and a pass begins.
RunLeaves(r, t) ==
  LET map == [running EXCEPT ![run[r].job] = None]
  IN  /\ run[r].pc = "leaving" /\ Saved(<<"run", r>>)
      /\ running' = map
      /\ run' = [run EXCEPT ![r] = NoRun]
      /\ Begin(t, map)
      /\ UNCHANGED <<cmd, lockedBy>>

----------------------------------------------------------------------------
(* The human. *)

\* What a stop asks of every run of the job, for the properties.
Halted(j, halt) ==
  [r \in Runs |-> IF run[r].job = j THEN [run[r] EXCEPT !.halted = halt, !.late = 0]
                  ELSE run[r]]

Issue(k, pc, j) == /\ cmd[k].pc = "idle"
                   /\ cmd' = [cmd EXCEPT ![k] = [pc |-> pc, job |-> j]]

Asked(k) == behind' = AwaitsSave(<<"command", k>>, behind)

Done(k) == cmd' = [cmd EXCEPT ![k] = Idle]

\* /control: the lock is computed and a queued job created; a pass is due.
Submit(k, j) ==
  /\ Lowest({i \in Jobs : Status(i) = "absent"}, j)
  /\ Issue(k, "tick", j) /\ Asked(k)
  /\ job' = [job EXCEPT ![j] = Normalized("queued", PageOf[j])]
  /\ UNCHANGED <<focusId, tick, running, run, lockedBy>>

\* /jobs run
RunQueue(k) == /\ Issue(k, "tick", None)
               /\ UNCHANGED <<job, focusId, tick, running, run, lockedBy, behind>>

\* /resume and /continue focus the job first.
Resume(k, j) ==
  /\ Status(j) \in {"paused", "queued", "failed"}
  /\ Issue(k, "resuming", j) /\ Asked(k)
  /\ focusId' = j
  /\ UNCHANGED <<job, tick, running, run, lockedBy>>

Continue(k, j) ==
  /\ Known(j) /\ Status(j) # "running"
  /\ Issue(k, "locking", j) /\ Asked(k)
  /\ focusId' = j
  /\ UNCHANGED <<job, tick, running, run, lockedBy>>

\* /resume puts the job back in the queue, then starts it like /continue.
Requeue(k) ==
  LET j == cmd[k].job
  IN  /\ cmd[k].pc = "resuming" /\ Saved(<<"command", k>>)
      /\ job' = Updated(j, "queued", job[j].lock, TRUE)
      /\ run' = Halted(j, FALSE)
      /\ cmd' = [cmd EXCEPT ![k].pc = "locking"]
      /\ Asked(k)
      /\ UNCHANGED <<focusId, tick, running, lockedBy>>

\* createBrowserJob of an existing job: the target's lock, and the queue.
Relock(k) ==
  LET j == cmd[k].job
  IN  /\ cmd[k].pc = "locking" /\ Saved(<<"command", k>>)
      /\ Conflicts(j, PageOf[j]) = {}
      /\ job' = Updated(j, "queued", PageOf[j], TRUE)
      /\ run' = Halted(j, FALSE)
      /\ cmd' = [cmd EXCEPT ![k].pc = "tick"]
      /\ Asked(k)
      /\ focusId' = IF Known(j) THEN j ELSE None
      /\ UNCHANGED <<tick, running, lockedBy>>

\* The tab is unreadable, the site blocked, or the target owned by another job:
\* the command reports it and ends.
GivesUp(k) ==
  /\ cmd[k].pc \in {"resuming", "locking"} /\ Saved(<<"command", k>>)
  /\ Done(k)
  /\ UNCHANGED <<job, focusId, tick, running, run, lockedBy, behind>>

Passes(k, t) ==
  /\ cmd[k].pc = "tick" /\ Saved(<<"command", k>>)
  /\ Done(k)
  /\ Begin(t, running)
  /\ UNCHANGED <<running, run, lockedBy>>

\* /pause and /cancel, and the Stop buttons.
Halt(j, status) ==
  /\ Known(j)
  /\ Update(j, Set(j, status))
  /\ run' = Halted(j, TRUE)
  /\ UNCHANGED <<cmd, tick, running, lockedBy, behind>>

\* "Clear done" keeps the focused job.
ClearDone ==
  /\ job' = [j \in Jobs |-> IF Status(j) \in Clearable /\ j # focusId
                            THEN Normalized("gone", None) ELSE job[j]]
  /\ UNCHANGED <<focusId, cmd, tick, running, run, lockedBy, behind>>

\* Mutant: only the approvals are recovered.
Interrupted_Bug == {"approval"}

\* What recoverInterruptedJobs is called with.
Interrupted == {"running", "approval"}

\* The panel is reloaded: what was in flight is gone, and hydrate followed by
\* recoverInterruptedJobs reads the jobs of the last save.
Reload ==
  /\ job' = [j \in Jobs |-> IF Status(j) \in Interrupted
                            THEN Normalized("paused", None) ELSE job[j]]
  /\ cmd' = [k \in Commands |-> Idle]
  /\ tick' = [t \in Ticks |-> NoTick]
  /\ running' = [j \in Jobs |-> None]
  /\ run' = [r \in Runs |-> NoRun]
  /\ lockedBy' = None
  /\ behind' = {}
  /\ LET left == {j \in Jobs : job'[j].status \in ActiveState}
     IN  focusId' \in IF left = {} \/ focusId \in left THEN {focusId} ELSE left

----------------------------------------------------------------------------
Scheduling == \E t \in Ticks : TickFocused(t) \/ \E r \in Runs : TickStarted(t, r)

Running(r) == \/ RunTop(r) \/ RunDecides(r) \/ RunHasLock(r) \/ RunActs(r)
              \/ RunActed(r) \/ RunStopped(r) \/ RunSettles(r)
              \/ \E t \in Ticks : RunLeaves(r, t)

Commanding(k) == \/ Requeue(k) \/ Relock(k) \/ GivesUp(k)
                 \/ \E t \in Ticks : Passes(k, t)

Human ==
  /\ acts < MaxActs /\ acts' = acts + 1
  /\ \/ \E k \in Commands : \/ RunQueue(k)
                             \/ \E j \in Jobs : Submit(k, j) \/ Resume(k, j) \/ Continue(k, j)
     \/ \E j \in Jobs, status \in HumanStop : Halt(j, status)
     \/ ClearDone
     \/ Reload

Machine == /\ UNCHANGED acts
           /\ \/ Scheduling
              \/ \E r \in Runs : Running(r)
              \/ \E k \in Commands : Commanding(k)

JobsNext == Machine \/ Human

JobsSpec == JobsInit /\ [][JobsNext]_jobsVars

----------------------------------------------------------------------------
\* Every variable has its shape; a run takes at most MaxSteps actions, and a pass
\* of the scheduler that is under way has a job to start.
JobsTypeOK ==
  /\ job \in [Jobs -> [status : Statuses, lock : Pages \cup {None}]]
  /\ focusId \in Jobs \cup {None}
  /\ cmd \in [Commands -> [pc : {"idle", "resuming", "locking", "tick"},
                           job : Jobs \cup {None}]]
  /\ DOMAIN tick = Ticks
  /\ \A t \in Ticks : /\ tick[t].pc \in {"idle", "focusing", "starting"}
                      /\ tick[t].todo \in Seq(Jobs)
                      /\ (tick[t].pc = "idle") = (tick[t].todo = << >>)
  /\ running \in [Jobs -> Runs \cup {None}]
  /\ run \in [Runs -> [pc : {"off", "top", "deciding", "waiting", "fronting", "acted",
                             "stopping", "settling", "leaving"},
                       job : Jobs \cup {None},
                       result : Terminal \cup {"paused", "approval", None},
                       steps : 0 .. MaxSteps, halted : BOOLEAN, late : 0 .. 2]]
  /\ lockedBy \in Runs \cup {None}
  /\ behind \subseteq Ticks \X JobSavers
  /\ acts \in 0 .. MaxActs

\* A job shown as running is being run: an execution of it is live, or a pass is
\* about to start one.  Nothing else would ever settle it or give its page back
\* (recoverInterruptedJobs is there for the executions a reload ends).
RunningHasOwner ==
  \A j \in Jobs : Status(j) = "running" =>
    \/ \E r \in Runs : Live(r) /\ run[r].job = j
    \/ \E t \in Ticks : tick[t].pc = "starting" /\ Head(tick[t].todo) = j

\* After the human pauses or cancels a job, a run of it takes at most the one
\* action that was already past its last look at the status, as long as the job is
\* in the store: every later look of the run finds the stop.
StopsAreSeen == \A r \in Runs : run[r].late <= 1 \/ Status(run[r].job) = "gone"

\* A stop stands until the human takes it back: whatever runs, passes and results
\* arrive late, only a /resume or /continue under way for that job moves it out of
\* paused or cancelled (preserveHumanStop of updateJob).
StopsAreKept ==
  [][\A j \in Jobs : Stopped(j) /\ job'[j].status \notin HumanStop \cup {"gone"} =>
       \E k \in Commands : /\ cmd[k].job = j /\ cmd[k].pc \in {"resuming", "locking"}
                           /\ cmd'[k].pc \in {"locking", "tick"}]_jobsVars

\* Broken by the code: "No further browser actions ran after stop"
\* (agent-control-runner.js:440), allowing for the action in flight.  A run whose job
\* is cancelled and then cleared from the store does not see the stop.
OneStepAfterStop == \A r \in Runs : run[r].late <= 1
=============================================================================
