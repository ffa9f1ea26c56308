-------------------------- MODULE HarnessBoundary --------------------------
(***************************************************************************)
(* The host boundary between routes and adapters: sessions created on the  *)
(* authority the registry lends, the calls and turns that run in them, and *)
(* their synchronous retirement when the authority is withdrawn.           *)
(*                                                                         *)
(* The registry is its tenancy contract.  A Fence of the contract and the  *)
(* boundary's listener are one step: the registry calls the listener       *)
(* before it awaits anything.  Adapters are asynchronous and untrusted:    *)
(* they may answer late, fail, ignore an abort or hang.                    *)
(*                                                                         *)
(* A context is the boundary's record of one createSession call.           *)
(***************************************************************************)
EXTENDS Naturals, Sequences, FiniteSets

CONSTANTS
  Contexts,
  Holders,           \* add-ons that may own the primary slot
  None,
  Epochs,            \* runtime epochs a native adapter may bind
  CallOps,           \* the request-response operations: history, status, ...
  AllowedSets,       \* the sets of allowed operations the registry moves between
  MaxSessions,
  MaxGeneration,     \* bound: generations explored
  MaxTurns,          \* bound: turns per session
  MaxLog             \* bound: a session whose log is this long emits no delta

Primary == "primary-agent"
Slots   == {Primary}
Ops     == {"createSession", "invoke", "cancel"} \cup CallOps

ASSUME BoundaryAssumption ==
  /\ None \notin Holders \cup Epochs
  /\ AllowedSets \subseteq SUBSET Ops
  /\ MaxSessions \in Nat \ {0}
  /\ MaxGeneration \in Nat
  /\ MaxTurns \in Nat
  /\ MaxLog \in Nat

VARIABLES
  epoch, open, status, holder, generation, allowed,   \* the registry's contract
  closed,
  dead,        \* runtime epochs that have ended
  ctx          \* the contexts

registry == << epoch, open, status, holder, generation, allowed >>
vars     == << registry, closed, dead, ctx >>

Registry == INSTANCE HarnessTenancy

Terminals == {"final", "cancelled", "error"}

NoTurn == [stage |-> "none", id |-> 0, aborted |-> FALSE, tainted |-> FALSE]
NoCall == [stage |-> "none", aborted |-> FALSE, tainted |-> FALSE]

Free ==
  [ stage      |-> "free",
    holder     |-> None,
    generation |-> 0,
    runtime    |-> None,
    retired    |-> FALSE,
    adapter    |-> FALSE,       \* the factory has delivered an adapter
    disposed   |-> FALSE,
    upstream   |-> FALSE,       \* the adapter holds a session upstream
    bus        |-> FALSE,       \* the event bus is open
    log        |-> << >>,
    turns      |-> 0,
    turn       |-> NoTurn,
    silent     |-> {},          \* history: turns whose stream ran dry unsaid
    calls      |-> [op \in CallOps |-> NoCall],
    tainted    |-> FALSE ]      \* history: authority was lost since the request

Pending == {"resolving", "creating", "settling"}

\* The registry answers for an authorization of the context's making.
RegistryCurrent(x) ==
  /\ open
  /\ status[Primary] = "live"
  /\ holder[Primary] = x.holder
  /\ generation[Primary] = x.generation

Current(x)       == ~closed /\ ~x.retired /\ RegistryCurrent(x)
Permitted(x, op) == RegistryCurrent(x) /\ op \in allowed[Primary]
Registered(x)    == x.stage = "live" /\ Current(x)

\* The same questions about the state a registry step leads to.
CurrentAfter(x) ==
  /\ open' /\ status'[Primary] = "live"
  /\ holder'[Primary] = x.holder
  /\ generation'[Primary] = x.generation
PermittedAfter(x, op) == CurrentAfter(x) /\ op \in allowed'[Primary]

InTurn(x) == x.turn.stage # "none"

Put(c, x) ==
  /\ ctx' = [ctx EXCEPT ![c] = x]
  /\ UNCHANGED << registry, closed, dead >>

-----------------------------------------------------------------------------
\* Retirement.

\* An adapter in the middle of creating its session is disposed of when the
\* creation settles.
Disposable_WhileCreating(x) == x.adapter /\ ~x.disposed
Disposable(x) == x.adapter /\ ~x.disposed /\ x.stage # "creating"

Dispose(x) ==
  IF Disposable(x) THEN [x EXCEPT !.disposed = TRUE, !.upstream = FALSE] ELSE x

Running(call) == call.stage \in {"running", "resolved"}

AbortCalls(x, ops) ==
  [x EXCEPT !.calls = [op \in CallOps |->
     IF op \in ops /\ Running(@[op]) THEN [@[op] EXCEPT !.aborted = TRUE]
     ELSE @[op]]]

Retire(x) ==
  Dispose(IF x.retired THEN x
          ELSE [AbortCalls(x, CallOps) EXCEPT
                  !.retired = TRUE,
                  !.bus = FALSE,
                  !.turn.aborted = InTurn(x),
                  !.stage = IF @ = "live" THEN "gone" ELSE @])

Held(x) == x.stage \in Pending \cup {"live"}

RetireIf(x, condition) == IF Held(x) /\ condition THEN Retire(x) ELSE x

\* publish() by the listener; a bus whose owner is not current closes.
Cancelled_Silently(x) == [x EXCEPT !.turn.aborted = TRUE]
Cancelled(x) ==
  IF CurrentAfter(x) /\ x.bus
  THEN [x EXCEPT !.turn.aborted = TRUE,
                 !.log = Append(@, [turn |-> x.turn.id, type |-> "cancelled",
                                    tainted |-> FALSE])]
  ELSE [x EXCEPT !.turn.aborted = TRUE, !.bus = FALSE]

\* Work whose operation is withdrawn is aborted; it stays aborted when the
\* operation is granted again.
Withdrawn_KeepsCalls(x) == x
Withdrawn(x) == AbortCalls(x, CallOps \ allowed'[Primary])

Degrade(x) ==
  LET y == Withdrawn(x) IN
  IF InTurn(y) /\ ~y.turn.aborted /\ "invoke" \notin allowed'[Primary]
  THEN Cancelled(y) ELSE y

\* The fence listener reaches every pending and registered context.
Hears_RegisteredOnly(x) == x.stage = "live"
Hears(x) == Held(x)

Heard(x) ==
  IF closed \/ ~Hears(x) THEN x
  ELSE IF status'[Primary] = "fenced" \/ "createSession" \notin allowed'[Primary]
  THEN Retire(x)
  ELSE Degrade(x)

\* History: what lost its authority in this step, even for a moment.
TaintedCall(call, permitted) ==
  IF Running(call) THEN [call EXCEPT !.tainted = @ \/ ~permitted] ELSE call

Tainted(x) ==
  [x EXCEPT
     !.tainted = @ \/ (Held(x) /\ ~PermittedAfter(x, "createSession")),
     !.turn.tainted = @ \/ (InTurn(x) /\ ~PermittedAfter(x, "invoke")),
     !.calls = [op \in CallOps |-> TaintedCall(@[op], PermittedAfter(x, op))]]

-----------------------------------------------------------------------------
\* What the registry does.

Fence ==
  /\ Registry!Fence
  /\ allowed'[Primary] \in AllowedSets
  /\ ctx' = [c \in Contexts |-> Tainted(Heard(ctx[c]))]
  /\ UNCHANGED << closed, dead >>

Settle ==
  /\ Registry!Settle
  /\ generation'[Primary] <= MaxGeneration
  /\ allowed'[Primary] \in AllowedSets
  /\ ctx' = [c \in Contexts |-> Tainted(ctx[c])]
  /\ UNCHANGED << closed, dead >>

\* A registry that disables itself fences every slot.
RegistryCloses ==
  /\ open
  /\ status' = [s \in Slots |-> "fenced"]
  /\ open' = FALSE
  /\ UNCHANGED << epoch, holder, generation, allowed >>
  /\ Registry!Close
  /\ ctx' = [c \in Contexts |-> Tainted(RetireIf(ctx[c], ~closed))]
  /\ UNCHANGED << closed, dead >>

-----------------------------------------------------------------------------
\* Creating a session.

Load == Cardinality({ c \in Contexts : Held(ctx[c]) })

CreateSession(c) ==
  LET x == [Free EXCEPT !.stage = "resolving",
                        !.holder = holder[Primary],
                        !.generation = generation[Primary]]
  IN
    /\ ctx[c].stage = "free"
    /\ ~closed /\ Load < MaxSessions
    /\ x.holder # None
    /\ Permitted(x, "createSession")
    /\ Put(c, x)

\* The factory reports the runtime it works on; it may do so again with the
\* same one.
BindRuntime(c, e) ==
  /\ ctx[c].stage = "resolving"
  /\ Current(ctx[c]) /\ Permitted(ctx[c], "createSession")
  /\ ctx[c].runtime = None
  /\ Put(c, [ctx[c] EXCEPT !.runtime = e])

\* createSession() failed after the adapter was there: it is disposed of
\* before the context lets go of its place.
Failed(x) == [Dispose(x) EXCEPT !.stage = "settling"]

Usable(x) == Current(x) /\ Permitted(x, "createSession")

\* The factory delivers.  It refuses by itself when its runtime has ended.
Resolved(c) ==
  LET x == [ctx[c] EXCEPT !.adapter = TRUE] IN
  /\ ctx[c].stage = "resolving"
  /\ ctx[c].runtime \notin dead
  /\ Put(c, IF Usable(x) THEN [x EXCEPT !.stage = "creating"] ELSE Failed(x))

ResolveFails(c) ==
  /\ ctx[c].stage = "resolving"
  /\ Put(c, [ctx[c] EXCEPT !.stage = "gone"])

\* The adapter's createSession() resolves, late or not.
Created(c) ==
  LET x == [ctx[c] EXCEPT !.upstream = TRUE, !.stage = "settling"] IN
  /\ ctx[c].stage = "creating"
  /\ Put(c, IF Usable(x) THEN [x EXCEPT !.stage = "live", !.bus = TRUE]
                         ELSE Failed(x))

CreateFails(c) ==
  /\ ctx[c].stage = "creating"
  /\ Put(c, Failed([ctx[c] EXCEPT !.stage = "settling"]))

\* The disposal settles, or its timeout fires.
Settled(c) ==
  /\ ctx[c].stage = "settling"
  /\ Put(c, [ctx[c] EXCEPT !.stage = "gone"])

-----------------------------------------------------------------------------
\* Ending sessions.

DisposeSession(c) ==
  /\ Registered(ctx[c])
  /\ Put(c, Retire(ctx[c]))

OnRuntime(x, e) == x.runtime = e

RetireRuntime(e) ==
  /\ e \notin dead
  /\ dead' = dead \cup {e}
  /\ ctx' = [c \in Contexts |-> RetireIf(ctx[c], OnRuntime(ctx[c], e))]
  /\ UNCHANGED << registry, closed >>

CloseBoundary ==
  /\ ~closed
  /\ closed' = TRUE
  /\ ctx' = [c \in Contexts |-> RetireIf(ctx[c], TRUE)]
  /\ UNCHANGED << registry, dead >>

-----------------------------------------------------------------------------
\* Request-response operations, bounded by a deadline.

SetCall(c, op, call) == Put(c, [ctx[c] EXCEPT !.calls[op] = call])

Call(c, op) ==
  /\ Registered(ctx[c]) /\ Permitted(ctx[c], op)
  /\ ~Running(ctx[c].calls[op])
  /\ SetCall(c, op, [NoCall EXCEPT !.stage = "running"])

\* The adapter's answer wins the race against abort and deadline ...
CallResolves(c, op) ==
  /\ ctx[c].calls[op].stage = "running"
  /\ ~ctx[c].calls[op].aborted
  /\ SetCall(c, op, [ctx[c].calls[op] EXCEPT !.stage = "resolved"])

\* ... and is looked at one turn of the event loop later.
CallAnswers(c, op) ==
  LET call == ctx[c].calls[op] IN
  /\ call.stage = "resolved"
  /\ SetCall(c, op, [call EXCEPT !.stage =
       IF Current(ctx[c]) /\ Permitted(ctx[c], op) /\ ~call.aborted
       THEN "answered" ELSE "refused"])

\* An error of the adapter, an abort, or the deadline whatever the adapter does.
CallFails(c, op) ==
  /\ ctx[c].calls[op].stage = "running"
  /\ SetCall(c, op, [ctx[c].calls[op] EXCEPT !.stage = "refused"])

-----------------------------------------------------------------------------
\* Turns.

TurnCurrent(x) == Current(x) /\ ~x.turn.aborted /\ Permitted(x, "invoke")

Publish(x, type) ==
  [x EXCEPT !.log = Append(@, [turn |-> x.turn.id, type |-> type,
                               tainted |-> x.turn.tainted])]

At(x, stage) == [x EXCEPT !.turn.stage = stage]
Ended(x)     == [x EXCEPT !.turn = NoTurn]

Invoke(c) ==
  /\ Registered(ctx[c]) /\ Permitted(ctx[c], "invoke")
  /\ ~InTurn(ctx[c])
  /\ ctx[c].turns < MaxTurns
  /\ Put(c, [ctx[c] EXCEPT
       !.turns = @ + 1,
       !.turn = [NoTurn EXCEPT !.stage = "queued", !.id = ctx[c].turns + 1]])

\* The turn starts on the next microtask, if it is still current.
TurnStarts(c) ==
  /\ ctx[c].turn.stage = "queued"
  /\ Put(c, IF TurnCurrent(ctx[c]) THEN At(ctx[c], "invoking") ELSE Ended(ctx[c]))

TurnStreams(c) ==
  /\ ctx[c].turn.stage = "invoking"
  /\ Put(c, IF TurnCurrent(ctx[c]) THEN At(ctx[c], "streaming") ELSE Ended(ctx[c]))

\* A frame arrives.  Leaving the loop waits for the adapter's iterator to
\* unwind; an invalid frame is reported after that.
TurnFrame(c, type) ==
  LET x == ctx[c] IN
  /\ x.turn.stage = "streaming"
  /\ type = "delta" => Len(x.log) < MaxLog
  /\ Put(c, IF ~TurnCurrent(x) THEN At(x, "unwinding")
             ELSE IF type = "invalid" THEN At(x, "failing")
             ELSE IF type = "delta" THEN Publish(x, type)
             ELSE At(Publish(x, type), "unwinding"))

Report(x) == Ended(IF TurnCurrent(x) THEN Publish(x, "error") ELSE x)

\* The adapter throws.
TurnThrows(c) ==
  /\ ctx[c].turn.stage \in {"invoking", "streaming"}
  /\ Put(c, Report(ctx[c]))

\* The adapter's stream ends by itself, and nobody says so.
RunDry(x) ==
  IF x.turn.aborted THEN Ended(x)
  ELSE [Ended(x) EXCEPT !.silent = @ \cup {x.turn.id}]

TurnRunsDry(c) ==
  /\ ctx[c].turn.stage = "streaming"
  /\ Put(c, RunDry(ctx[c]))

\* The iterator has unwound.  An invalid frame is reported now, and so is an
\* iterator that rejects its return(), whatever the turn's last frame was.
TurnUnwinds(c) ==
  \/ /\ ctx[c].turn.stage = "unwinding"
     /\ Put(c, Ended(ctx[c]))
  \/ /\ ctx[c].turn.stage \in {"unwinding", "failing"}
     /\ Put(c, Report(ctx[c]))

Cancellable_Always(x) == TRUE
Cancellable(x) == InTurn(x)

\* The turn stays reserved until its iterator has unwound.
Cancel(c) ==
  LET x == ctx[c] IN
  /\ Registered(x) /\ Permitted(x, "cancel")
  /\ Cancellable(x)
  /\ Len(x.log) < MaxLog
  /\ Put(c, [Publish(x, "cancelled") EXCEPT !.turn.aborted = TRUE])

-----------------------------------------------------------------------------

Init ==
  /\ epoch = 1
  /\ open = TRUE
  /\ status = [s \in Slots |-> "dormant"]
  /\ holder = [s \in Slots |-> None]
  /\ generation = [s \in Slots |-> 0]
  /\ allowed = [s \in Slots |-> {}]
  /\ closed = FALSE
  /\ dead = {}
  /\ ctx = [c \in Contexts |-> Free]

Governance == Fence \/ Settle \/ RegistryCloses

Session(c) ==
  \/ CreateSession(c)
  \/ \E e \in Epochs : BindRuntime(c, e)
  \/ Resolved(c)
  \/ ResolveFails(c)
  \/ Created(c)
  \/ CreateFails(c)
  \/ Settled(c)
  \/ DisposeSession(c)

Work(c) ==
  \/ \E op \in CallOps : Call(c, op) \/ CallResolves(c, op)
                           \/ CallAnswers(c, op) \/ CallFails(c, op)
  \/ Invoke(c)
  \/ TurnStarts(c)
  \/ TurnStreams(c)
  \/ \E type \in Terminals \cup {"delta", "invalid"} : TurnFrame(c, type)
  \/ TurnThrows(c)
  \/ TurnRunsDry(c)
  \/ TurnUnwinds(c)
  \/ Cancel(c)

Next ==
  \/ Governance
  \/ \E c \in Contexts : Session(c) \/ Work(c)
  \/ \E e \in Epochs : RetireRuntime(e)
  \/ CloseBoundary

Spec == Init /\ [][Next]_vars

-----------------------------------------------------------------------------
\* Properties.

Frame == [turn : 1 .. MaxTurns, type : Terminals \cup {"delta"}, tainted : BOOLEAN]

TypeOK ==
  /\ Registry!TypeOK
  /\ closed \in BOOLEAN
  /\ dead \subseteq Epochs
  /\ \A c \in Contexts : LET x == ctx[c] IN
       /\ DOMAIN x = DOMAIN Free
       /\ x.stage \in Pending \cup {"free", "live", "gone"}
       /\ x.holder \in Holders \cup {None}
       /\ x.generation \in Nat
       /\ x.runtime \in Epochs \cup {None}
       /\ {x.retired, x.adapter, x.disposed, x.upstream, x.bus, x.tainted}
            \subseteq BOOLEAN
       /\ x.log \in Seq(Frame)
       /\ x.turns \in 0 .. MaxTurns
       /\ x.silent \subseteq 1 .. MaxTurns
       /\ x.turn \in [stage : {"none", "queued", "invoking", "streaming",
                               "unwinding", "failing"},
                      id : 0 .. MaxTurns, aborted : BOOLEAN, tainted : BOOLEAN]
       /\ x.calls \in [CallOps -> [stage : {"none", "running", "resolved",
                                            "answered", "refused"},
                                   aborted : BOOLEAN, tainted : BOOLEAN]]

\* A registered session is current, may still create and stands on a runtime
\* that lives: it is retired in the step that takes its authority or its
\* runtime away, wherever its creation stood, and a grant given back never
\* revives one.
SessionsAreCurrent ==
  \A c \in Contexts : ctx[c].stage = "live" =>
     Usable(ctx[c]) /\ ~ctx[c].tainted /\ ctx[c].runtime \notin dead

\* Nothing an adapter says gets out unless its authority held without a gap
\* since it was asked: no answer of a call, no frame of a turn.
OutputHeldAuthority ==
  \A c \in Contexts :
    /\ \A op \in CallOps :
         ctx[c].calls[op].stage = "answered" => ~ctx[c].calls[op].tainted
    /\ \A i \in DOMAIN ctx[c].log :
         ctx[c].log[i].type # "cancelled" => ~ctx[c].log[i].tainted

\* A turn ends once, and in sight.  A terminal event ends its output: no delta
\* and no second answer follows, only a cancellation that crossed it or the
\* failure of an adapter that broke while it was closing.  And in a session
\* that still stands every turn that is over said so, but for one whose adapter
\* ended its stream without a terminal frame: the code adds none.
TurnsEndOnce ==
  \A c \in Contexts : LET log == ctx[c].log IN
    /\ \A i, j \in DOMAIN log :
         i < j /\ log[i].turn = log[j].turn /\ log[i].type \in Terminals =>
           log[j].type \in {"cancelled", "error"}
    /\ ctx[c].stage = "live" =>
         \A id \in 1 .. ctx[c].turns \ ({ctx[c].turn.id} \cup ctx[c].silent) :
           \E i \in DOMAIN log : log[i].turn = id /\ log[i].type \in Terminals

\* Every adapter that was delivered is disposed of once its context is gone,
\* with no session left open upstream, however late it answered.
AdaptersAreReleased ==
  \A c \in Contexts : ctx[c].stage = "gone" =>
    ~ctx[c].upstream /\ (ctx[c].adapter => ctx[c].disposed)
=============================================================================
