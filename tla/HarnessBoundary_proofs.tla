----------------------- MODULE HarnessBoundary_proofs -----------------------
(***************************************************************************)
(* Proofs about the boundary.  The invariant is stated context by context: *)
(* a context that is not retired has its authority, and work that nobody   *)
(* aborted has had it without a gap.  Every step of a session replaces one *)
(* context; a step of the registry replaces them all.                      *)
(***************************************************************************)
EXTENDS HarnessBoundary, TLAPS

Turn == [stage : {"none", "queued", "invoking", "streaming", "unwinding", "failing"},
         id : 0 .. MaxTurns, aborted : BOOLEAN, tainted : BOOLEAN]
CallRecord == [stage : {"none", "running", "resolved", "answered", "refused"},
               aborted : BOOLEAN, tainted : BOOLEAN]

Context ==
  [ stage      : Pending \cup {"free", "live", "gone"},
    holder     : Holders \cup {None},
    generation : Nat,
    runtime    : Epochs \cup {None},
    retired    : BOOLEAN,
    adapter    : BOOLEAN,
    disposed   : BOOLEAN,
    upstream   : BOOLEAN,
    bus        : BOOLEAN,
    log        : Seq(Frame),
    turns      : 0 .. MaxTurns,
    turn       : Turn,
    silent     : SUBSET (1 .. MaxTurns),
    calls      : [CallOps -> CallRecord],
    tainted    : BOOLEAN ]

LEMMA FreeIsContext == Free \in Context
  BY BoundaryAssumption DEF Free, Context, NoTurn, NoCall, Turn, CallRecord, Pending

\* What each change of a context leaves as it was, field by field.
LEMMA SetStage ==
  ASSUME NEW x \in Context, NEW s \in Pending \cup {"free", "live", "gone"}
  PROVE  LET y == [x EXCEPT !.stage = s] IN
         /\ y \in Context
         /\ y.stage = s /\ y.holder = x.holder /\ y.generation = x.generation
         /\ y.runtime = x.runtime /\ y.retired = x.retired /\ y.adapter = x.adapter
         /\ y.disposed = x.disposed /\ y.upstream = x.upstream /\ y.bus = x.bus
         /\ y.log = x.log
         /\ y.silent = x.silent /\ y.turns = x.turns /\ y.turn = x.turn
         /\ y.calls = x.calls /\ y.tainted = x.tainted
  BY DEF Context

LEMMA DisposeFields ==
  ASSUME NEW x \in Context
  PROVE  LET y == Dispose(x) IN
         /\ y \in Context
         /\ y.stage = x.stage /\ y.holder = x.holder /\ y.generation = x.generation
         /\ y.runtime = x.runtime /\ y.retired = x.retired /\ y.adapter = x.adapter
         /\ (y.disposed <=> (x.disposed \/ Disposable(x)))
         /\ (y.upstream <=> (x.upstream /\ ~Disposable(x))) /\ y.bus = x.bus
         /\ y.log = x.log
         /\ y.silent = x.silent /\ y.turns = x.turns /\ y.turn = x.turn
         /\ y.calls = x.calls /\ y.tainted = x.tainted
<1>1. CASE Disposable(x)
  <2>1. Dispose(x) = [x EXCEPT !.disposed = TRUE, !.upstream = FALSE]
    BY <1>1 DEF Dispose
  <2>2. QED
    BY <1>1, <2>1 DEF Context
<1>2. CASE ~Disposable(x)
  BY <1>2 DEF Dispose, Context
<1>3. QED
  BY <1>1, <1>2

LEMMA AbortFields ==
  ASSUME NEW x \in Context, NEW ops
  PROVE  LET y == AbortCalls(x, ops) IN
         /\ y \in Context
         /\ y.stage = x.stage /\ y.holder = x.holder /\ y.generation = x.generation
         /\ y.runtime = x.runtime /\ y.retired = x.retired /\ y.adapter = x.adapter
         /\ y.disposed = x.disposed /\ y.upstream = x.upstream /\ y.bus = x.bus
         /\ y.log = x.log
         /\ y.silent = x.silent /\ y.turns = x.turns
         /\ y.turn = x.turn /\ y.tainted = x.tainted
         /\ \A op \in CallOps :
              /\ y.calls[op].stage = x.calls[op].stage
              /\ y.calls[op].tainted = x.calls[op].tainted
              /\ y.calls[op].aborted <=>
                   (x.calls[op].aborted \/ (op \in ops /\ Running(x.calls[op])))
<1> DEFINE calls == [op \in CallOps |->
     IF op \in ops /\ Running(x.calls[op]) THEN [x.calls[op] EXCEPT !.aborted = TRUE]
     ELSE x.calls[op]]
<1>1. x.calls \in [CallOps -> CallRecord]
  BY DEF Context
<1>2. \A op \in CallOps :
              /\ calls[op] \in CallRecord
              /\ calls[op].stage = x.calls[op].stage
              /\ calls[op].tainted = x.calls[op].tainted
              /\ calls[op].aborted <=>
                   (x.calls[op].aborted \/ (op \in ops /\ Running(x.calls[op])))
  BY <1>1 DEF CallRecord, Running
<1>3. calls \in [CallOps -> CallRecord]
  BY <1>2
<1>4. AbortCalls(x, ops) = [x EXCEPT !.calls = calls]
  BY DEF AbortCalls
<1> HIDE DEF calls
<1>5. QED
  BY <1>2, <1>3, <1>4 DEF Context

LEMMA RetireFields ==
  ASSUME NEW x \in Context
  PROVE  LET y == Retire(x)
             halts == ~x.retired /\ x.stage = "live"
             goes  == x.adapter /\ ~x.disposed /\ x.stage # "creating"
         IN
         /\ y \in Context
         /\ y.stage = (IF halts THEN "gone" ELSE x.stage)
         /\ y.holder = x.holder /\ y.generation = x.generation
         /\ y.runtime = x.runtime /\ y.retired /\ y.adapter = x.adapter
         /\ (y.disposed <=> (x.disposed \/ goes))
         /\ (y.upstream <=> (x.upstream /\ ~goes))
         /\ (y.bus <=> (x.bus /\ x.retired))
         /\ y.log = x.log
         /\ y.silent = x.silent /\ y.turns = x.turns /\ y.tainted = x.tainted
         /\ y.turn.stage = x.turn.stage /\ y.turn.id = x.turn.id
         /\ y.turn.tainted = x.turn.tainted
         /\ y.turn.aborted <=> IF x.retired THEN x.turn.aborted ELSE InTurn(x)
         /\ \A op \in CallOps :
              /\ y.calls[op].stage = x.calls[op].stage
              /\ y.calls[op].tainted = x.calls[op].tainted
              /\ y.calls[op].aborted <=>
                   (x.calls[op].aborted \/ (~x.retired /\ Running(x.calls[op])))
<1>1. CASE x.retired
  <2>1. Retire(x) = Dispose(x)
    BY <1>1 DEF Retire
  <2>2. QED
    BY <1>1, <2>1, DisposeFields DEF Disposable
<1>2. CASE ~x.retired
  <2> DEFINE a == AbortCalls(x, CallOps)
             y == [a EXCEPT
                  !.retired = TRUE,
                  !.bus = FALSE,
                  !.turn.aborted = InTurn(x),
                  !.stage = IF @ = "live" THEN "gone" ELSE @]
  <2>1. a \in Context /\ a.turn \in Turn
    BY AbortFields DEF Context
  <2>2. /\ y \in Context
        /\ y.stage = (IF a.stage = "live" THEN "gone" ELSE a.stage)
        /\ y.holder = a.holder /\ y.generation = a.generation
        /\ y.runtime = a.runtime /\ y.retired /\ y.adapter = a.adapter
        /\ y.disposed = a.disposed /\ y.upstream = a.upstream /\ ~y.bus
        /\ y.log = a.log
        /\ y.silent = a.silent /\ y.turns = a.turns /\ y.tainted = a.tainted
        /\ y.turn.stage = a.turn.stage /\ y.turn.id = a.turn.id
        /\ y.turn.tainted = a.turn.tainted
        /\ (y.turn.aborted <=> InTurn(x))
        /\ y.calls = a.calls
    <3> HIDE DEF a
    <3> DEFINE t == [a.turn EXCEPT !.aborted = InTurn(x)]
    <3>1. /\ t \in Turn /\ t.stage = a.turn.stage /\ t.id = a.turn.id
          /\ t.tainted = a.turn.tainted /\ (t.aborted <=> InTurn(x))
      BY <2>1 DEF Turn, InTurn
    <3>2. y = [a EXCEPT !.retired = TRUE, !.bus = FALSE, !.turn = t,
                        !.stage = IF @ = "live" THEN "gone" ELSE @]
      BY <2>1 DEF Context
    <3> HIDE DEF t, y
    <3> DEFINE s == IF a.stage = "live" THEN "gone" ELSE a.stage
    <3>3. s \in Pending \cup {"free", "live", "gone"}
      BY <2>1 DEF Context
    <3>4. y = [a EXCEPT !.retired = TRUE, !.bus = FALSE, !.turn = t, !.stage = s]
      BY <2>1, <3>2 DEF Context
    <3> HIDE DEF s
    <3>5. y \in Context
      BY <2>1, <3>1, <3>3, <3>4 DEF Context
    <3>6. /\ y.stage = s
        /\ y.holder = a.holder /\ y.generation = a.generation
        /\ y.runtime = a.runtime /\ y.retired /\ y.adapter = a.adapter
        /\ y.disposed = a.disposed /\ y.upstream = a.upstream /\ ~y.bus
        /\ y.log = a.log
        /\ y.silent = a.silent /\ y.turns = a.turns /\ y.tainted = a.tainted
        /\ y.turn = t /\ y.calls = a.calls
      BY <2>1, <3>4 DEF Context
    <3>7. QED
      BY <3>1, <3>5, <3>6 DEF s
  <2>3. Retire(x) = Dispose(y)
    BY <1>2, Zenon DEF Retire
  <2> HIDE DEF y
  <2> DEFINE d == Dispose(y)
  <2>4. /\ d \in Context
        /\ d.stage = y.stage /\ d.holder = y.holder /\ d.generation = y.generation
        /\ d.runtime = y.runtime /\ d.retired = y.retired /\ d.adapter = y.adapter
        /\ (d.disposed <=> (y.disposed \/ Disposable(y)))
        /\ (d.upstream <=> (y.upstream /\ ~Disposable(y))) /\ d.bus = y.bus
        /\ d.log = y.log
        /\ d.silent = y.silent /\ d.turns = y.turns /\ d.turn = y.turn
        /\ d.calls = y.calls /\ d.tainted = y.tainted
    BY <2>2, DisposeFields
  <2>5. /\ a.stage = x.stage /\ a.holder = x.holder /\ a.generation = x.generation
        /\ a.runtime = x.runtime /\ a.retired = x.retired /\ a.adapter = x.adapter
        /\ a.disposed = x.disposed /\ a.upstream = x.upstream /\ a.bus = x.bus
        /\ a.log = x.log
        /\ a.silent = x.silent /\ a.turns = x.turns
        /\ a.turn = x.turn /\ a.tainted = x.tainted
        /\ \A op \in CallOps :
              /\ a.calls[op].stage = x.calls[op].stage
              /\ a.calls[op].tainted = x.calls[op].tainted
              /\ a.calls[op].aborted <=>
                   (x.calls[op].aborted \/ (op \in CallOps /\ Running(x.calls[op])))
    BY AbortFields
  <2> HIDE DEF a, d
  <2>6. Disposable(y) <=> (x.adapter /\ ~x.disposed /\ x.stage # "creating")
    BY <2>2, <2>5 DEF Disposable
  <2>7. /\ d.retired /\ (d.bus <=> FALSE)
        /\ (d.turn.aborted <=> InTurn(x))
        /\ (d.disposed <=> (x.disposed \/ Disposable(y)))
        /\ (d.upstream <=> (x.upstream /\ ~Disposable(y)))
    BY <2>2, <2>4, <2>5
  <2>8. /\ d.calls = a.calls /\ d.turn.stage = x.turn.stage /\ d.turn.id = x.turn.id
        /\ d.turn.tainted = x.turn.tainted
    BY <2>2, <2>4, <2>5
  <2>9. /\ d.stage = (IF x.stage = "live" THEN "gone" ELSE x.stage)
        /\ d.holder = x.holder /\ d.generation = x.generation
        /\ d.runtime = x.runtime /\ d.adapter = x.adapter
        /\ d.log = x.log
        /\ d.silent = x.silent /\ d.turns = x.turns /\ d.tainted = x.tainted
    BY <2>2, <2>4, <2>5
  <2>10. QED
    BY <1>2, <2>3, <2>4, <2>5, <2>6, <2>7, <2>8, <2>9 DEF d
<1>3. QED
  BY <1>1, <1>2

-----------------------------------------------------------------------------
(***************************************************************************)
(* The invariant, context by context.                                      *)
(***************************************************************************)

\* The turn under way is the session's last, and no frame is ahead of it.
Numbered(x) ==
  /\ InTurn(x) => x.turn.id = x.turns /\ x.turns # 0
  /\ \A i \in DOMAIN x.log : x.log[i].turn <= x.turns

\* How far the adapter is, by the stage of the context.
Staged(x) ==
  /\ x.stage = "resolving" => ~x.adapter /\ ~x.disposed /\ ~x.upstream
  /\ x.stage = "creating" => x.adapter /\ ~x.disposed /\ ~x.upstream
  /\ x.stage \in Pending => x.turns = 0 /\ ~InTurn(x)
  /\ x.stage = "live" => x.adapter /\ ~x.disposed /\ ~x.retired /\ x.bus
  /\ x.stage \in {"settling", "gone"} => ~x.upstream /\ (x.adapter => x.disposed)

\* Work that nobody aborted has held its authority without a gap.
Entitled(x) ==
  /\ Held(x) /\ ~x.retired => ~x.tainted
  /\ \A op \in CallOps :
       /\ Running(x.calls[op]) /\ ~x.calls[op].aborted =>
            x.stage = "live" /\ ~x.calls[op].tainted
       /\ x.calls[op].stage = "answered" => ~x.calls[op].tainted
  /\ InTurn(x) /\ ~x.turn.aborted => x.stage = "live" /\ ~x.turn.tainted
  /\ \A i \in DOMAIN x.log : x.log[i].type # "cancelled" => ~x.log[i].tainted

Said(log, id) == \E i \in DOMAIN log : log[i].turn = id /\ log[i].type \in Terminals

Spoken(x) ==
  /\ \A i, j \in DOMAIN x.log :
       i < j /\ x.log[i].turn = x.log[j].turn /\ x.log[i].type \in Terminals =>
         x.log[j].type \in {"cancelled", "error"}
  /\ x.turn.stage \in {"queued", "invoking", "streaming"} /\ ~x.turn.aborted =>
       ~Said(x.log, x.turns)
  /\ x.stage = "live" =>
       /\ \A id \in 1 .. x.turns :
            Said(x.log, id) \/ id \in x.silent \/ (InTurn(x) /\ id = x.turns)
       /\ InTurn(x) /\ (x.turn.aborted \/ x.turn.stage = "unwinding") =>
            Said(x.log, x.turns)

\* A context that is not retired has its authority.
Standing(x) ==
  /\ Held(x) /\ ~x.retired =>
       Usable(x) /\ (x.stage # "resolving" => x.runtime \notin dead)
  /\ \A op \in CallOps : Running(x.calls[op]) /\ ~x.calls[op].aborted =>
       op \in allowed[Primary]
  /\ InTurn(x) /\ ~x.turn.aborted => "invoke" \in allowed[Primary]

Sound(x) ==
  /\ Numbered(x)
  /\ Staged(x)
  /\ Entitled(x)
  /\ Spoken(x)
  /\ Standing(x)

BoundaryInv ==
  /\ Registry!TypeOK
  /\ closed \in BOOLEAN
  /\ dead \subseteq Epochs
  /\ ctx \in [Contexts -> Context]
  /\ \A c \in Contexts : Sound(ctx[c])

-----------------------------------------------------------------------------

LEMMA BoundaryInit == Init => BoundaryInv
<1>1. Free \in Context
  BY FreeIsContext
<1>2. Sound(Free)
  BY DEF Sound, Numbered, Staged, Entitled, Spoken, Standing, Free, InTurn, NoTurn,
         NoCall, Running, Held, Pending, Said
<1>3. Init => Registry!TypeOK
  BY BoundaryAssumption DEF Init, Registry!TypeOK, Slots, Ops
<1>4. SUFFICES ASSUME Init PROVE BoundaryInv
  OBVIOUS
<1>5. ctx = [c \in Contexts |-> Free] /\ closed = FALSE /\ dead = {}
  BY <1>4 DEF Init
<1>6. ctx \in [Contexts -> Context]
  BY <1>1, <1>5
<1>7. ASSUME NEW c \in Contexts PROVE Sound(ctx[c])
  <2>1. ctx[c] = Free
    BY <1>5
  <2>2. QED
    BY <1>2, <2>1
<1>8. QED
  BY <1>3, <1>4, <1>5, <1>6, <1>7 DEF BoundaryInv

LEMMA PutKeeps ==
  ASSUME BoundaryInv, NEW c \in Contexts, NEW y \in Context, Put(c, y), Sound(y)
  PROVE  BoundaryInv'
<1>1. /\ ctx' = [ctx EXCEPT ![c] = y]
      /\ UNCHANGED << registry, closed, dead >>
  BY DEF Put
<1>2. ctx' \in [Contexts -> Context]
  BY <1>1 DEF BoundaryInv
<1>3. ASSUME NEW z PROVE Sound(z)' <=> Sound(z)
  BY <1>1 DEF registry, Sound, Standing, Usable, Current, Permitted, RegistryCurrent
<1>4. ASSUME NEW d \in Contexts PROVE Sound(ctx'[d])
  BY <1>1 DEF BoundaryInv
<1>5. ASSUME NEW d \in Contexts PROVE Sound(ctx[d])'
  BY <1>1, <1>4 DEF registry, Sound, Standing, Usable, Current, Permitted, RegistryCurrent
<1>6. Registry!TypeOK'
  BY <1>1 DEF BoundaryInv, Registry!TypeOK, registry
<1>7. QED
  BY <1>1, <1>2, <1>5, <1>6 DEF BoundaryInv

\* A context that only moved on: its work is what it was.
LEMMA WorkStays ==
  ASSUME NEW x \in Context, NEW y \in Context, Sound(x),
         y.log = x.log,
         y.silent = x.silent, y.turns = x.turns, y.turn = x.turn, y.calls = x.calls,
         x.stage # "live"
  PROVE  /\ Numbered(y)
         /\ (Held(y) /\ ~y.retired => ~y.tainted) => Entitled(y)
         /\ (y.stage = "live" => x.turns = 0 /\ ~InTurn(x)) =>
               Spoken(y)
         /\ (Held(y) /\ ~y.retired =>
               Usable(y) /\ (y.stage # "resolving" => y.runtime \notin dead)) => Standing(y)
<1>1. Numbered(y)
  BY DEF Sound, Numbered, InTurn
<1>2. (Held(y) /\ ~y.retired => ~y.tainted) => Entitled(y)
  BY DEF Sound, Entitled, InTurn
<1>3. (y.stage = "live" => x.turns = 0 /\ ~InTurn(x)) =>
        Spoken(y)
  <2>1. x.turns = 0 => 1 .. x.turns = {}
    OBVIOUS
  <2>2. QED
    BY <2>1 DEF Sound, Spoken, InTurn
<1>4. (Held(y) /\ ~y.retired =>
               Usable(y) /\ (y.stage # "resolving" => y.runtime \notin dead)) => Standing(y)
  BY DEF Sound, Standing, InTurn
<1>5. QED
  BY <1>1, <1>2, <1>3, <1>4

-----------------------------------------------------------------------------

LEMMA CreateSessionKeeps ==
  ASSUME BoundaryInv, NEW c \in Contexts, CreateSession(c)
  PROVE  BoundaryInv'
<1> DEFINE y == [Free EXCEPT !.stage = "resolving",
                            !.holder = holder[Primary],
                            !.generation = generation[Primary]]
<1>1. /\ holder[Primary] \in Holders \cup {None}
      /\ generation[Primary] \in Nat
  BY DEF BoundaryInv, Registry!TypeOK, Slots
<1>2. /\ y \in Context /\ y.stage = "resolving" /\ y.log = << >> /\ y.turns = 0
      /\ y.turn = NoTurn /\ y.calls = [op \in CallOps |-> NoCall]
      /\ y.tainted = FALSE /\ y.adapter = FALSE /\ y.upstream = FALSE /\ y.disposed = FALSE
      /\ y.retired = FALSE /\ y.holder = holder[Primary]
      /\ y.generation = generation[Primary]
  BY <1>1, FreeIsContext DEF Free, Context, Pending
<1>3. Put(c, y) /\ ~closed /\ Permitted(y, "createSession")
  BY DEF CreateSession
<1> HIDE DEF y
<1>4. Sound(y)
  <2>1. Numbered(y) /\ Staged(y) /\ Entitled(y)
    BY <1>2 DEF Numbered, Staged, Entitled, InTurn, NoTurn, NoCall, Running, Held, Pending
  <2>2. Spoken(y)
    BY <1>2 DEF Spoken, InTurn, NoTurn, Said
  <2>3. Standing(y)
    BY <1>2, <1>3 DEF Standing, InTurn, NoTurn, NoCall, Running, Usable, Current, Permitted
  <2>4. QED
    BY <2>1, <2>2, <2>3 DEF Sound
<1>5. QED
  BY <1>2, <1>3, <1>4, PutKeeps

LEMMA BindRuntimeKeeps ==
  ASSUME BoundaryInv, NEW c \in Contexts, NEW e \in Epochs, BindRuntime(c, e)
  PROVE  BoundaryInv'
<1> DEFINE x == ctx[c]
           y == [x EXCEPT !.runtime = e]
<1>1. x \in Context /\ Sound(x)
  BY DEF BoundaryInv
<1>2. x.stage = "resolving" /\ Put(c, y)
  BY DEF BindRuntime
<1> HIDE DEF x
<1>3. /\ y \in Context
      /\ y.stage = x.stage /\ y.holder = x.holder /\ y.generation = x.generation
      /\ y.retired = x.retired /\ y.adapter = x.adapter
      /\ y.disposed = x.disposed /\ y.upstream = x.upstream /\ y.bus = x.bus
      /\ y.log = x.log /\ y.silent = x.silent /\ y.turns = x.turns /\ y.turn = x.turn
      /\ y.calls = x.calls /\ y.tainted = x.tainted
  BY <1>1 DEF Context
<1> HIDE DEF y
<1>4. Held(y) /\ ~y.retired => Usable(y) /\ ~y.tainted
  BY <1>1, <1>2, <1>3
     DEF Held, Sound, Standing, Entitled, Usable, Current, Permitted, RegistryCurrent
<1>5. Staged(y)
  BY <1>1, <1>3 DEF Sound, Staged, InTurn
<1>6. Sound(y)
  BY <1>1, <1>2, <1>3, <1>4, <1>5, WorkStays DEF Sound
<1>7. QED
  BY <1>2, <1>3, <1>6, PutKeeps

\* The failure of a creation disposes of the adapter that is there.
LEMMA FailedFields ==
  ASSUME NEW x \in Context
  PROVE  LET y == Failed(x)
             goes == x.adapter /\ ~x.disposed /\ x.stage # "creating"
         IN
         /\ y \in Context
         /\ y.stage = "settling" /\ y.holder = x.holder /\ y.generation = x.generation
         /\ y.runtime = x.runtime /\ y.retired = x.retired /\ y.adapter = x.adapter
         /\ (y.disposed <=> (x.disposed \/ goes))
         /\ (y.upstream <=> (x.upstream /\ ~goes)) /\ y.bus = x.bus
         /\ y.log = x.log
         /\ y.silent = x.silent /\ y.turns = x.turns /\ y.turn = x.turn
         /\ y.calls = x.calls /\ y.tainted = x.tainted
<1> DEFINE d == Dispose(x)
<1>1. Failed(x) = [d EXCEPT !.stage = "settling"]
  BY DEF Failed
<1>2. /\ d \in Context
      /\ d.stage = x.stage /\ d.holder = x.holder /\ d.generation = x.generation
      /\ d.runtime = x.runtime /\ d.retired = x.retired /\ d.adapter = x.adapter
      /\ (d.disposed <=> (x.disposed \/ Disposable(x)))
      /\ (d.upstream <=> (x.upstream /\ ~Disposable(x))) /\ d.bus = x.bus
      /\ d.log = x.log /\ d.silent = x.silent /\ d.turns = x.turns /\ d.turn = x.turn
      /\ d.calls = x.calls /\ d.tainted = x.tainted
  BY DisposeFields
<1> HIDE DEF d
<1>3. "settling" \in Pending
  BY DEF Pending
<1>4. QED
  BY <1>1, <1>2, <1>3, SetStage DEF Disposable

\* A context that settles is disposed of, and what it asked for stays as it was.
LEMMA FailedIsSound ==
  ASSUME NEW x \in Context, Sound(x), x.stage \in {"resolving", "creating"},
         NEW z \in Context,
         z.holder = x.holder, z.generation = x.generation, z.runtime = x.runtime,
         z.retired = x.retired, z.log = x.log,
         z.silent = x.silent, z.turns = x.turns, z.turn = x.turn,
         z.calls = x.calls, z.tainted = x.tainted, z.disposed = x.disposed,
         z.upstream => z.adapter /\ ~z.disposed,
         z.stage # "creating",
         x.runtime \notin dead \/ x.retired
  PROVE  Failed(z) \in Context /\ Sound(Failed(z))
<1> DEFINE y == Failed(z)
<1>1. /\ y \in Context
         /\ y.stage = "settling" /\ y.holder = x.holder /\ y.generation = x.generation
         /\ y.runtime = x.runtime /\ y.retired = x.retired /\ y.adapter = z.adapter
         /\ (z.adapter => y.disposed)
         /\ ~y.upstream
         /\ y.log = x.log
         /\ y.silent = x.silent /\ y.turns = x.turns /\ y.turn = x.turn
         /\ y.calls = x.calls /\ y.tainted = x.tainted
  BY FailedFields
<1> HIDE DEF y
<1>2. Staged(y)
  BY <1>1 DEF Staged, Sound, InTurn, Pending
<1>3. Held(y) /\ ~y.retired => Usable(y) /\ ~y.tainted
  BY <1>1
     DEF Held, Pending, Sound, Standing, Entitled, Usable, Current, Permitted, RegistryCurrent
<1>4. Sound(y)
  BY <1>1, <1>2, <1>3, WorkStays DEF Sound
<1>5. QED
  BY <1>1, <1>4 DEF y

LEMMA ResolvedKeeps ==
  ASSUME BoundaryInv, NEW c \in Contexts, Resolved(c)
  PROVE  BoundaryInv'
<1> DEFINE x == ctx[c]
           z == [x EXCEPT !.adapter = TRUE]
           y == [z EXCEPT !.stage = "creating"]
<1>1. x \in Context /\ Sound(x)
  BY DEF BoundaryInv
<1>2. /\ x.stage = "resolving" /\ x.runtime \notin dead
      /\ Put(c, IF Usable(z) THEN y ELSE Failed(z))
  BY DEF Resolved
<1> HIDE DEF x
<1>3. /\ z \in Context /\ z.adapter = TRUE
      /\ z.stage = x.stage /\ z.holder = x.holder /\ z.generation = x.generation
      /\ z.runtime = x.runtime /\ z.retired = x.retired
      /\ z.disposed = x.disposed /\ z.upstream = x.upstream /\ z.bus = x.bus
      /\ z.log = x.log /\ z.silent = x.silent /\ z.turns = x.turns /\ z.turn = x.turn
      /\ z.calls = x.calls /\ z.tainted = x.tainted
  BY <1>1 DEF Context
<1> HIDE DEF z
<1>4. "creating" \in Pending
  BY DEF Pending
<1>5. /\ y \in Context /\ y.adapter = TRUE
      /\ y.stage = "creating" /\ y.holder = x.holder /\ y.generation = x.generation
      /\ y.runtime = x.runtime /\ y.retired = x.retired
      /\ y.disposed = x.disposed /\ y.upstream = x.upstream
      /\ y.log = x.log /\ y.silent = x.silent /\ y.turns = x.turns /\ y.turn = x.turn
      /\ y.calls = x.calls /\ y.tainted = x.tainted
  BY <1>3, <1>4, SetStage
<1> HIDE DEF y
<1>6. CASE Usable(z)
  <2>1. Staged(y)
    BY <1>1, <1>2, <1>4, <1>5 DEF Sound, Staged, InTurn, Pending
  <2>2. Held(y) /\ ~y.retired => Usable(y) /\ ~y.tainted
    BY <1>1, <1>2, <1>3, <1>5
       DEF Held, Pending, Sound, Standing, Entitled, Usable, Current, Permitted, RegistryCurrent
  <2>3. Sound(y)
    BY <1>1, <1>2, <1>5, <2>1, <2>2, WorkStays DEF Sound
  <2>4. QED
    BY <1>2, <1>5, <1>6, <2>3, PutKeeps
<1>7. CASE ~Usable(z)
  <2>1. z.upstream => z.adapter /\ ~z.disposed
    BY <1>1, <1>2, <1>3 DEF Sound, Staged
  <2>2. Failed(z) \in Context /\ Sound(Failed(z))
    BY <1>1, <1>2, <1>3, <2>1, FailedIsSound
  <2>3. QED
    BY <1>2, <1>7, <2>2, PutKeeps
<1>8. QED
  BY <1>6, <1>7

\* A context that is gone, or about to be, keeps nothing that counts as held.
LEMMA GoneKeeps ==
  ASSUME BoundaryInv, NEW c \in Contexts,
         ctx[c].stage \in {"resolving", "settling"},
         Put(c, [ctx[c] EXCEPT !.stage = "gone"])
  PROVE  BoundaryInv'
<1> DEFINE x == ctx[c]
           y == [x EXCEPT !.stage = "gone"]
<1>1. x \in Context /\ Sound(x) /\ Put(c, y)
  BY DEF BoundaryInv
<1> HIDE DEF x
<1>2. /\ y \in Context
      /\ y.stage = "gone" /\ y.adapter = x.adapter
      /\ y.disposed = x.disposed /\ y.upstream = x.upstream /\ y.bus = x.bus
      /\ y.log = x.log /\ y.silent = x.silent /\ y.turns = x.turns /\ y.turn = x.turn
      /\ y.calls = x.calls /\ y.tainted = x.tainted
  BY <1>1, SetStage
<1> HIDE DEF y
<1>3. Staged(y) /\ ~Held(y)
  BY <1>1, <1>2 DEF x, Sound, Staged, Held, Pending
<1>4. Sound(y)
  BY <1>1, <1>2, <1>3, WorkStays DEF x, Sound
<1>5. QED
  BY <1>1, <1>2, <1>4, PutKeeps

LEMMA CreatedKeeps ==
  ASSUME BoundaryInv, NEW c \in Contexts, Created(c)
  PROVE  BoundaryInv'
<1> DEFINE x == ctx[c]
           z == [x EXCEPT !.upstream = TRUE, !.stage = "settling"]
           y == [z EXCEPT !.stage = "live", !.bus = TRUE]
<1>1. x \in Context /\ Sound(x)
  BY DEF BoundaryInv
<1>2. /\ x.stage = "creating"
      /\ Put(c, IF Usable(z) THEN y ELSE Failed(z))
  BY DEF Created
<1> HIDE DEF x
<1>3. /\ z \in Context /\ z.upstream = TRUE
      /\ z.stage = "settling" /\ z.holder = x.holder /\ z.generation = x.generation
      /\ z.runtime = x.runtime /\ z.retired = x.retired
      /\ z.disposed = x.disposed /\ z.adapter = x.adapter /\ z.bus = x.bus
      /\ z.log = x.log /\ z.silent = x.silent /\ z.turns = x.turns /\ z.turn = x.turn
      /\ z.calls = x.calls /\ z.tainted = x.tainted
  BY <1>1 DEF Context, Pending
<1> HIDE DEF z
<1>4. /\ y \in Context /\ y.adapter = x.adapter
      /\ y.stage = "live" /\ y.holder = x.holder /\ y.generation = x.generation
      /\ y.runtime = x.runtime /\ y.retired = x.retired /\ y.bus = TRUE
      /\ y.disposed = x.disposed
      /\ y.log = x.log /\ y.silent = x.silent /\ y.turns = x.turns /\ y.turn = x.turn
      /\ y.calls = x.calls /\ y.tainted = x.tainted
  BY <1>3 DEF Context
<1> HIDE DEF y
<1>5. Held(x) /\ x.turns = 0 /\ ~InTurn(x)
  BY <1>1, <1>2 DEF Sound, Staged, Held, Pending
<1>6. CASE Usable(z)
  <2>1. ~x.retired /\ Usable(y)
    BY <1>3, <1>4, <1>6 DEF Usable, Current, Permitted, RegistryCurrent
  <2>2. Staged(y)
    BY <1>1, <1>2, <1>4, <2>1 DEF Sound, Staged, Pending
  <2>3. ~y.tainted /\ y.runtime \notin dead
    BY <1>1, <1>2, <1>4, <1>5, <2>1 DEF Sound, Standing, Entitled
  <2>4. Sound(y)
    BY <1>1, <1>2, <1>4, <1>5, <2>1, <2>2, <2>3, WorkStays DEF Sound
  <2>5. QED
    BY <1>2, <1>4, <1>6, <2>4, PutKeeps
<1>7. CASE ~Usable(z)
  <2>1. z.upstream => z.adapter /\ ~z.disposed
    BY <1>1, <1>2, <1>3 DEF Sound, Staged
  <2>2. x.runtime \notin dead \/ x.retired
    BY <1>1, <1>2, <1>5 DEF Sound, Standing
  <2>3. Failed(z) \in Context /\ Sound(Failed(z))
    BY <1>1, <1>2, <1>3, <2>1, <2>2, FailedIsSound
  <2>4. QED
    BY <1>2, <1>7, <2>3, PutKeeps
<1>8. QED
  BY <1>6, <1>7

LEMMA CreateFailsKeeps ==
  ASSUME BoundaryInv, NEW c \in Contexts, CreateFails(c)
  PROVE  BoundaryInv'
<1> DEFINE x == ctx[c]
           z == [x EXCEPT !.stage = "settling"]
<1>1. x \in Context /\ Sound(x)
  BY DEF BoundaryInv
<1>2. x.stage = "creating" /\ Put(c, Failed(z))
  BY DEF CreateFails
<1> HIDE DEF x
<1>3. "settling" \in Pending
  BY DEF Pending
<1>4. /\ z \in Context /\ z.upstream = x.upstream
      /\ z.stage = "settling" /\ z.holder = x.holder /\ z.generation = x.generation
      /\ z.runtime = x.runtime /\ z.retired = x.retired
      /\ z.disposed = x.disposed /\ z.adapter = x.adapter
      /\ z.log = x.log /\ z.silent = x.silent /\ z.turns = x.turns /\ z.turn = x.turn
      /\ z.calls = x.calls /\ z.tainted = x.tainted
  BY <1>1, <1>3, SetStage
<1> HIDE DEF z
<1>5. x.runtime \notin dead \/ x.retired
  BY <1>1, <1>2 DEF Sound, Standing, Held, Pending
<1>6. z.upstream => z.adapter /\ ~z.disposed
  BY <1>1, <1>2, <1>4 DEF Sound, Staged
<1>7. Failed(z) \in Context /\ Sound(Failed(z))
  BY <1>1, <1>2, <1>4, <1>5, <1>6, FailedIsSound
<1>8. QED
  BY <1>2, <1>7, PutKeeps

\* Retirement ends a context's work and leaves nothing that counts as held.
LEMMA RetiredIsSound ==
  ASSUME NEW x \in Context, Sound(x), Held(x)
  PROVE  LET y == Retire(x) IN
         /\ y \in Context /\ y.retired
         /\ Numbered(y) /\ Staged(y) /\ Entitled(y) /\ Spoken(y)
         /\ (InTurn(y) => y.turn.aborted)
         /\ \A op \in CallOps : Running(y.calls[op]) => y.calls[op].aborted
         /\ y.stage # "live"
<1> DEFINE y == Retire(x)
           goes  == x.adapter /\ ~x.disposed /\ x.stage # "creating"
<1>1.    /\ y \in Context
         /\ y.stage = (IF ~x.retired /\ x.stage = "live" THEN "gone" ELSE x.stage)
         /\ y.retired /\ y.adapter = x.adapter
         /\ (y.disposed <=> (x.disposed \/ goes))
         /\ (y.upstream <=> (x.upstream /\ ~goes))
         /\ y.log = x.log /\ y.silent = x.silent /\ y.turns = x.turns
         /\ y.turn.stage = x.turn.stage /\ y.turn.id = x.turn.id
         /\ y.turn.tainted = x.turn.tainted
         /\ y.turn.aborted <=> IF x.retired THEN x.turn.aborted ELSE InTurn(x)
         /\ \A op \in CallOps :
              /\ y.calls[op].stage = x.calls[op].stage
              /\ y.calls[op].tainted = x.calls[op].tainted
              /\ y.calls[op].aborted <=>
                   (x.calls[op].aborted \/ (~x.retired /\ Running(x.calls[op])))
  BY RetireFields
<1> HIDE DEF y
<1>2. x.stage = "live" => ~x.retired
  BY DEF Sound, Staged
<1>3. y.stage # "live"
  BY <1>1, <1>2
<1>4. InTurn(y) => y.turn.aborted
  BY <1>1, <1>2 DEF InTurn, Sound, Entitled
<1>5. \A op \in CallOps : Running(y.calls[op]) => y.calls[op].aborted
  BY <1>1, <1>2 DEF Running, Sound, Entitled
<1>6. Numbered(y)
  BY <1>1 DEF Sound, Numbered, InTurn
<1>7. Staged(y)
  BY <1>1, <1>2 DEF Sound, Staged, InTurn, Held, Pending
<1>8. Entitled(y)
  BY <1>1, <1>4, <1>5 DEF Sound, Entitled, Held
<1>9. Spoken(y)
  BY <1>1, <1>2, <1>3, <1>4 DEF Sound, Spoken, InTurn
<1>10. QED
  BY <1>1, <1>3, <1>4, <1>5, <1>6, <1>7, <1>8, <1>9 DEF y

LEMMA DisposeSessionKeeps ==
  ASSUME BoundaryInv, NEW c \in Contexts, DisposeSession(c)
  PROVE  BoundaryInv'
<1> DEFINE x == ctx[c]
           y == Retire(x)
<1>1. x \in Context /\ Sound(x)
  BY DEF BoundaryInv
<1>2. Held(x) /\ Put(c, y)
  BY DEF DisposeSession, Registered, Held
<1>3. /\ y \in Context /\ y.retired
      /\ Numbered(y) /\ Staged(y) /\ Entitled(y) /\ Spoken(y)
      /\ (InTurn(y) => y.turn.aborted)
      /\ \A op \in CallOps : Running(y.calls[op]) => y.calls[op].aborted
  BY <1>1, <1>2, RetiredIsSound
<1> HIDE DEF y
<1>4. Sound(y)
  BY <1>3 DEF Sound, Standing
<1>5. QED
  BY <1>2, <1>3, <1>4, PutKeeps

LEMMA SessionKeeps ==
  ASSUME BoundaryInv, NEW c \in Contexts, Session(c)
  PROVE  BoundaryInv'
<1>1. ASSUME ResolveFails(c) \/ Settled(c) PROVE BoundaryInv'
  BY <1>1, GoneKeeps DEF ResolveFails, Settled
<1>2. QED
  BY <1>1, CreateSessionKeeps, BindRuntimeKeeps, ResolvedKeeps, CreatedKeeps,
     CreateFailsKeeps, DisposeSessionKeeps DEF Session

-----------------------------------------------------------------------------

LEMMA SetCallKeeps ==
  ASSUME BoundaryInv, NEW c \in Contexts, NEW op \in CallOps, NEW call \in CallRecord,
         SetCall(c, op, call),
         Running(call) /\ ~call.aborted =>
           ctx[c].stage = "live" /\ ~call.tainted /\ op \in allowed[Primary],
         call.stage = "answered" => ~call.tainted
  PROVE  BoundaryInv'
<1> DEFINE x == ctx[c]
           y == [x EXCEPT !.calls[op] = call]
<1>1. x \in Context /\ Sound(x) /\ Put(c, y)
  BY DEF BoundaryInv, SetCall
<1>2. /\ Running(call) /\ ~call.aborted =>
           x.stage = "live" /\ ~call.tainted /\ op \in allowed[Primary]
      /\ call.stage = "answered" => ~call.tainted
  OBVIOUS
<1> HIDE DEF x
<1>3. /\ y \in Context
      /\ y.stage = x.stage /\ y.holder = x.holder /\ y.generation = x.generation
      /\ y.runtime = x.runtime /\ y.retired = x.retired /\ y.adapter = x.adapter
      /\ y.disposed = x.disposed /\ y.upstream = x.upstream /\ y.bus = x.bus
      /\ y.log = x.log /\ y.silent = x.silent /\ y.turns = x.turns /\ y.turn = x.turn
      /\ y.calls = [x.calls EXCEPT ![op] = call] /\ y.tainted = x.tainted
  <2>1. x.calls \in [CallOps -> CallRecord]
    BY <1>1 DEF Context
  <2>2. [x.calls EXCEPT ![op] = call] \in [CallOps -> CallRecord]
    BY <2>1
  <2>3. QED
    BY <1>1, <2>2 DEF Context
<1> HIDE DEF y
<1>4. \A p \in CallOps : y.calls[p] = IF p = op THEN call ELSE x.calls[p]
  BY <1>1, <1>3 DEF Context
<1>5. Entitled(y)
  BY <1>1, <1>2, <1>3, <1>4 DEF Sound, Entitled, InTurn, Held
<1>6. Standing(y)
  BY <1>1, <1>2, <1>3, <1>4
     DEF Sound, Standing, InTurn, Held, Usable, Current, Permitted, RegistryCurrent
<1>7. Numbered(y) /\ Staged(y) /\ Spoken(y)
  BY <1>1, <1>3 DEF Sound, Numbered, Staged, Spoken, InTurn
<1>8. QED
  BY <1>1, <1>3, <1>5, <1>6, <1>7, PutKeeps DEF Sound

LEMMA CallsKeep ==
  ASSUME BoundaryInv, NEW c \in Contexts, NEW op \in CallOps,
         Call(c, op) \/ CallResolves(c, op) \/ CallAnswers(c, op) \/ CallFails(c, op)
  PROVE  BoundaryInv'
<1> DEFINE x == ctx[c]
           call == x.calls[op]
<1>1. /\ x \in Context /\ Sound(x) /\ call \in CallRecord
      /\ call.aborted \in BOOLEAN /\ call.tainted \in BOOLEAN
  BY DEF BoundaryInv, Context, CallRecord
<1>2. Running(call) /\ ~call.aborted =>
        x.stage = "live" /\ ~call.tainted /\ op \in allowed[Primary]
  BY <1>1 DEF Sound, Entitled, Standing
<1>3. CASE Call(c, op)
  <2> DEFINE new == [NoCall EXCEPT !.stage = "running"]
  <2>1. new \in CallRecord /\ new.tainted = FALSE /\ new.stage = "running"
    BY DEF NoCall, CallRecord
  <2>2. SetCall(c, op, new) /\ x.stage = "live" /\ op \in allowed[Primary]
    BY <1>3 DEF Call, Registered, Permitted
  <2> HIDE DEF new
  <2>3. QED
    BY <2>1, <2>2, SetCallKeeps DEF x
<1>4. CASE CallResolves(c, op)
  <2> DEFINE new == [call EXCEPT !.stage = "resolved"]
  <2>1. SetCall(c, op, new) /\ Running(call)
    BY <1>4 DEF CallResolves, Running
  <2> HIDE DEF call
  <2>2. new \in CallRecord /\ new.tainted = call.tainted /\ new.stage = "resolved"
        /\ new.aborted = call.aborted
    BY <1>1 DEF CallRecord
  <2> HIDE DEF new
  <2>3. QED
    BY <1>2, <2>1, <2>2, SetCallKeeps DEF Running, x
<1>5. CASE CallAnswers(c, op)
  <2> DEFINE s == IF Current(ctx[c]) /\ Permitted(ctx[c], op) /\ ~call.aborted
                  THEN "answered" ELSE "refused"
             new == [call EXCEPT !.stage = s]
  <2>1. SetCall(c, op, new) /\ Running(call)
    BY <1>5 DEF CallAnswers, Running
  <2>2. /\ s \in {"answered", "refused"}
        /\ s = "answered" => ~call.aborted
    OBVIOUS
  <2> HIDE DEF s, call
  <2>3. new \in CallRecord /\ new.tainted = call.tainted /\ new.stage = s
    BY <1>1, <2>2 DEF CallRecord
  <2> HIDE DEF new
  <2>4. QED
    BY <1>1, <1>2, <2>1, <2>2, <2>3, SetCallKeeps DEF Running, x
<1>6. CASE CallFails(c, op)
  <2> DEFINE new == [call EXCEPT !.stage = "refused"]
  <2>1. SetCall(c, op, new)
    BY <1>6 DEF CallFails
  <2> HIDE DEF call
  <2>2. new \in CallRecord /\ new.stage = "refused"
    BY <1>1 DEF CallRecord
  <2> HIDE DEF new
  <2>3. QED
    BY <2>1, <2>2, SetCallKeeps DEF Running, x
<1>7. QED
  BY <1>3, <1>4, <1>5, <1>6

-----------------------------------------------------------------------------

LEMMA AppendSays ==
  ASSUME NEW log \in Seq(Frame), NEW f \in Frame
  PROVE  LET after == Append(log, f) IN
         /\ after \in Seq(Frame)
         /\ DOMAIN after = DOMAIN log \cup {Len(log) + 1}
         /\ \A i \in DOMAIN log : i < Len(log) + 1 /\ after[i] = log[i]
         /\ after[Len(log) + 1] = f
         /\ \A id : Said(after, id) <=>
                     Said(log, id) \/ (f.turn = id /\ f.type \in Terminals)
<1> DEFINE after == Append(log, f)
<1>1.    /\ after \in Seq(Frame)
         /\ DOMAIN after = DOMAIN log \cup {Len(log) + 1}
         /\ \A i \in DOMAIN log : i < Len(log) + 1 /\ after[i] = log[i]
         /\ after[Len(log) + 1] = f
  OBVIOUS
<1> HIDE DEF after
<1>2. ASSUME NEW id
      PROVE  Said(after, id) <=> Said(log, id) \/ (f.turn = id /\ f.type \in Terminals)
  <2>1. ASSUME Said(after, id)
        PROVE  Said(log, id) \/ (f.turn = id /\ f.type \in Terminals)
    <3>1. PICK i \in DOMAIN after : after[i].turn = id /\ after[i].type \in Terminals
      BY <2>1 DEF Said
    <3>2. QED
      BY <1>1, <3>1 DEF Said
  <2>2. ASSUME Said(log, id) PROVE Said(after, id)
    <3>1. PICK i \in DOMAIN log : log[i].turn = id /\ log[i].type \in Terminals
      BY <2>2 DEF Said
    <3>2. QED
      BY <1>1, <3>1 DEF Said
  <2>3. ASSUME f.turn = id /\ f.type \in Terminals PROVE Said(after, id)
    BY <1>1, <2>3 DEF Said
  <2>4. QED
    BY <2>1, <2>2, <2>3
<1>3. QED
  BY <1>1, <1>2 DEF after

\* A turn that moves or ends without a word.
LEMMA SilentIsSound ==
  ASSUME NEW x \in Context, Sound(x), InTurn(x), NEW y \in Context,
         y.stage = x.stage, y.holder = x.holder, y.generation = x.generation,
         y.runtime = x.runtime, y.retired = x.retired, y.adapter = x.adapter,
         y.disposed = x.disposed, y.upstream = x.upstream, y.bus = x.bus,
         y.log = x.log, x.silent \subseteq y.silent, y.turns = x.turns,
         y.calls = x.calls, y.tainted = x.tainted,
         InTurn(y) => /\ y.turn.id = x.turn.id /\ y.turn.aborted = x.turn.aborted
                      /\ y.turn.tainted = x.turn.tainted,
         y.turn.stage \in {"queued", "invoking", "streaming"} =>
           x.turn.stage \in {"queued", "invoking", "streaming"},
         x.stage = "live" /\ (~InTurn(y) \/ y.turn.stage = "unwinding") =>
           Said(x.log, x.turns) \/ (~InTurn(y) /\ x.turns \in y.silent)
  PROVE  Sound(y)
<1>1. x.stage \notin Pending
  BY DEF Sound, Staged
<1>2. Numbered(y) /\ Staged(y)
  BY <1>1 DEF Sound, Numbered, Staged, InTurn
<1>3. Entitled(y)
  BY DEF Sound, Entitled, InTurn, Held
<1>4. Standing(y)
  BY DEF Sound, Standing, InTurn, Held, Usable, Current, Permitted, RegistryCurrent
<1>5. Spoken(y)
  <2>1. Spoken(x)
    BY DEF Sound
  <2>2. y.turn.stage \in {"queued", "invoking", "streaming"} /\ ~y.turn.aborted =>
       ~Said(y.log, y.turns)
    BY <2>1 DEF Spoken, InTurn
  <2>3. x.stage = "live" =>
       /\ \A id \in 1 .. y.turns :
            Said(y.log, id) \/ id \in y.silent \/ (InTurn(y) /\ id = y.turns)
       /\ InTurn(y) /\ (y.turn.aborted \/ y.turn.stage = "unwinding") =>
            Said(y.log, y.turns)
    BY <2>1 DEF Spoken, InTurn
  <2>4. QED
    BY <2>1, <2>2, <2>3 DEF Spoken
<1>6. QED
  BY <1>2, <1>3, <1>4, <1>5 DEF Sound

\* A turn that speaks: it has its authority or says that it is cancelled.
LEMMA SpeakingIsSound ==
  ASSUME NEW x \in Context, Sound(x), InTurn(x), NEW y \in Context,
         y.stage = x.stage, y.holder = x.holder, y.generation = x.generation,
         y.runtime = x.runtime, y.retired = x.retired, y.adapter = x.adapter,
         y.disposed = x.disposed, y.upstream = x.upstream, y.bus = x.bus,
         y.silent = x.silent, y.turns = x.turns, y.calls = x.calls,
         y.tainted = x.tainted,
         InTurn(y) => /\ y.turn.id = x.turn.id /\ (x.turn.aborted => y.turn.aborted)
                      /\ y.turn.tainted = x.turn.tainted,
         NEW f \in Frame, y.log = Append(x.log, f),
         f.turn = x.turn.id, f.type = "cancelled" \/ ~f.tainted,
         f.type \notin {"cancelled", "error"} =>
           x.turn.stage = "streaming" /\ ~x.turn.aborted,
         f.type = "delta" => y.turn = x.turn,
         f.type # "delta" =>
           ~InTurn(y) \/ y.turn.stage \in {"unwinding", "failing"} \/ y.turn.aborted
  PROVE  Sound(y)
<1>1. x.stage \notin Pending
  BY DEF Sound, Staged
<1>2. x.log \in Seq(Frame) /\ f.turn = x.turns /\ x.turns \in Nat
  BY BoundaryAssumption DEF Context, Sound, Numbered
<1>3.    /\ DOMAIN y.log = DOMAIN x.log \cup {Len(x.log) + 1}
         /\ \A i \in DOMAIN x.log : i < Len(x.log) + 1 /\ y.log[i] = x.log[i]
         /\ y.log[Len(x.log) + 1] = f
         /\ \A id : Said(y.log, id) <=>
                     Said(x.log, id) \/ (f.turn = id /\ f.type \in Terminals)
  BY <1>2, AppendSays
<1>4. Numbered(y) /\ Staged(y)
  <2>1. Staged(y)
    BY <1>1 DEF Sound, Staged
  <2>2. \A i \in DOMAIN y.log : y.log[i].turn <= y.turns
    BY <1>2, <1>3 DEF Sound, Numbered
  <2>3. QED
    BY <2>1, <2>2 DEF Sound, Numbered
<1>5. Entitled(y)
  <2>1. \A i \in DOMAIN y.log : y.log[i].type # "cancelled" => ~y.log[i].tainted
    BY <1>3 DEF Sound, Entitled
  <2>2. QED
    BY <2>1 DEF Sound, Entitled, Held
<1>6. Standing(y)
  BY DEF Sound, Standing, Held, Usable, Current, Permitted, RegistryCurrent
<1>7. Spoken(y)
  <2>1. Spoken(x)
    BY DEF Sound
  <2>2. ASSUME NEW i \in DOMAIN y.log, NEW j \in DOMAIN y.log,
               i < j, y.log[i].turn = y.log[j].turn, y.log[i].type \in Terminals
        PROVE  y.log[j].type \in {"cancelled", "error"}
    <3>1. i # Len(x.log) + 1
      BY <1>2, <1>3, <2>2
    <3>2. i \in DOMAIN x.log /\ y.log[i] = x.log[i]
      BY <1>3, <3>1
    <3>3. CASE j \in DOMAIN x.log
      BY <1>3, <2>1, <2>2, <3>2, <3>3 DEF Spoken
    <3>4. CASE j = Len(x.log) + 1
      <4>1. Said(x.log, x.turns) /\ y.log[j] = f
        BY <1>2, <1>3, <2>2, <3>2, <3>4 DEF Said
      <4>2. QED
        BY <2>1, <4>1 DEF Spoken
    <3>5. QED
      BY <1>3, <3>3, <3>4
  <2>3. f.type # "delta" => f.type \in Terminals
    BY DEF Frame
  <2>4. f.type = "delta" => f.type \notin Terminals
    BY DEF Terminals
  <2>5. y.turn.stage \in {"queued", "invoking", "streaming"} /\ ~y.turn.aborted =>
       ~Said(y.log, y.turns)
    BY <1>2, <1>3, <2>1, <2>4 DEF Spoken, InTurn
  <2>6. x.stage = "live" =>
       /\ \A id \in 1 .. y.turns :
            Said(y.log, id) \/ id \in y.silent \/ (InTurn(y) /\ id = y.turns)
       /\ InTurn(y) /\ (y.turn.aborted \/ y.turn.stage = "unwinding") =>
            Said(y.log, y.turns)
    <3>1. CASE f.type = "delta"
      BY <1>2, <1>3, <2>1, <3>1 DEF Spoken, InTurn
    <3>2. CASE f.type # "delta"
      <4> SUFFICES ASSUME x.stage = "live"
          PROVE  /\ \A id \in 1 .. y.turns :
                      Said(y.log, id) \/ id \in y.silent \/ (InTurn(y) /\ id = y.turns)
                 /\ Said(y.log, y.turns)
        OBVIOUS
      <4>1. Said(y.log, y.turns)
        BY <1>2, <1>3, <2>3, <3>2
      <4>2. \A id \in 1 .. y.turns :
              Said(y.log, id) \/ id \in y.silent \/ (InTurn(y) /\ id = y.turns)
        BY <1>3, <2>1, <4>1 DEF Spoken
      <4>3. QED
        BY <4>1, <4>2
    <3>3. QED
      BY <3>1, <3>2
  <2>7. QED
    BY <2>2, <2>5, <2>6 DEF Spoken
<1>8. QED
  BY <1>4, <1>5, <1>6, <1>7 DEF Sound

\* A turn whose context still stands is current unless it was aborted.
LEMMA TurnCurrency ==
  ASSUME NEW x \in Context, Sound(x), InTurn(x)
  PROVE  /\ TurnCurrent(x) => ~x.turn.aborted /\ ~x.turn.tainted
         /\ ~TurnCurrent(x) /\ x.stage = "live" => x.turn.aborted
  BY DEF Sound, Standing, Entitled, Staged, Held, Usable, Permitted, TurnCurrent

LEMMA AtFields ==
  ASSUME NEW x \in Context,
         NEW s \in {"queued", "invoking", "streaming", "unwinding", "failing"}
  PROVE  LET y == At(x, s) IN
         /\ y \in Context
         /\ y.stage = x.stage /\ y.holder = x.holder /\ y.generation = x.generation
         /\ y.runtime = x.runtime /\ y.retired = x.retired /\ y.adapter = x.adapter
         /\ y.disposed = x.disposed /\ y.upstream = x.upstream /\ y.bus = x.bus
         /\ y.log = x.log
         /\ y.silent = x.silent /\ y.turns = x.turns /\ y.calls = x.calls
         /\ y.tainted = x.tainted
         /\ y.turn.stage = s /\ y.turn.id = x.turn.id
         /\ y.turn.aborted = x.turn.aborted /\ y.turn.tainted = x.turn.tainted
<1> DEFINE t == [x.turn EXCEPT !.stage = s]
<1>1. /\ t \in Turn /\ t.stage = s /\ t.id = x.turn.id
      /\ t.aborted = x.turn.aborted /\ t.tainted = x.turn.tainted
  BY DEF Context, Turn
<1>2. At(x, s) = [x EXCEPT !.turn = t]
  BY DEF At
<1> HIDE DEF t
<1>3. QED
  BY <1>1, <1>2 DEF Context

LEMMA EndedFields ==
  ASSUME NEW x \in Context
  PROVE  LET y == Ended(x) IN
         /\ y \in Context
         /\ y.stage = x.stage /\ y.holder = x.holder /\ y.generation = x.generation
         /\ y.runtime = x.runtime /\ y.retired = x.retired /\ y.adapter = x.adapter
         /\ y.disposed = x.disposed /\ y.upstream = x.upstream /\ y.bus = x.bus
         /\ y.log = x.log
         /\ y.silent = x.silent /\ y.turns = x.turns /\ y.calls = x.calls
         /\ y.tainted = x.tainted /\ y.turn = NoTurn
<1>1. NoTurn \in Turn
  BY BoundaryAssumption DEF NoTurn, Turn
<1>2. QED
  BY <1>1 DEF Ended, Context

LEMMA PublishFields ==
  ASSUME NEW x \in Context, InTurn(x), x.turn.id # 0, NEW type \in Terminals \cup {"delta"}
  PROVE  LET y == Publish(x, type)
             f == [turn |-> x.turn.id, type |-> type, tainted |-> x.turn.tainted]
         IN
         /\ y \in Context /\ f \in Frame
         /\ y.stage = x.stage /\ y.holder = x.holder /\ y.generation = x.generation
         /\ y.runtime = x.runtime /\ y.retired = x.retired /\ y.adapter = x.adapter
         /\ y.disposed = x.disposed /\ y.upstream = x.upstream /\ y.bus = x.bus
         /\ y.log = Append(x.log, f)
         /\ y.silent = x.silent /\ y.turns = x.turns /\ y.calls = x.calls
         /\ y.tainted = x.tainted /\ y.turn = x.turn
<1> DEFINE f == [turn |-> x.turn.id, type |-> type, tainted |-> x.turn.tainted]
<1>1. x.turn.id \in 1 .. MaxTurns /\ x.turn.tainted \in BOOLEAN /\ x.log \in Seq(Frame)
  BY BoundaryAssumption DEF Context, Turn
<1>2. f \in Frame
  BY <1>1 DEF Frame
<1>3. Publish(x, type) = [x EXCEPT !.log = Append(@, f)]
  BY DEF Publish
<1> HIDE DEF f
<1> DEFINE l == Append(x.log, f)
<1>4. l \in Seq(Frame)
  BY <1>1, <1>2
<1>5. Publish(x, type) = [x EXCEPT !.log = l]
  BY <1>3
<1> HIDE DEF l
<1>6. QED
  BY <1>2, <1>4, <1>5 DEF Context, f, l

\* The two ends of a step of a turn: it goes on without a word, or is over.
LEMMA AtIsSound ==
  ASSUME NEW x \in Context, Sound(x), InTurn(x),
         NEW s \in {"invoking", "streaming", "unwinding", "failing"},
         s \in {"invoking", "streaming"} =>
           x.turn.stage \in {"queued", "invoking", "streaming"},
         s = "unwinding" => ~TurnCurrent(x)
  PROVE  At(x, s) \in Context /\ Sound(At(x, s))
<1> DEFINE y == At(x, s)
<1>1. /\ y \in Context
         /\ y.stage = x.stage /\ y.holder = x.holder /\ y.generation = x.generation
         /\ y.runtime = x.runtime /\ y.retired = x.retired /\ y.adapter = x.adapter
         /\ y.disposed = x.disposed /\ y.upstream = x.upstream /\ y.bus = x.bus
         /\ y.log = x.log
         /\ y.silent = x.silent /\ y.turns = x.turns /\ y.calls = x.calls
         /\ y.tainted = x.tainted
         /\ y.turn.stage = s /\ y.turn.id = x.turn.id
         /\ y.turn.aborted = x.turn.aborted /\ y.turn.tainted = x.turn.tainted
  BY AtFields
<1> HIDE DEF y
<1>2. x.stage = "live" /\ s = "unwinding" => Said(x.log, x.turns)
  BY TurnCurrency DEF Sound, Spoken
<1>3. InTurn(y)
  BY <1>1 DEF InTurn
<1>4. y \in Context /\ Sound(y)
  BY <1>1, <1>2, <1>3, SilentIsSound
<1>5. QED
  BY <1>4 DEF y

LEMMA EndedIsSound ==
  ASSUME NEW x \in Context, Sound(x), InTurn(x),
         ~TurnCurrent(x) \/ x.turn.stage = "unwinding"
  PROVE  Ended(x) \in Context /\ Sound(Ended(x))
<1> DEFINE y == Ended(x)
<1>1. /\ y \in Context
         /\ y.stage = x.stage /\ y.holder = x.holder /\ y.generation = x.generation
         /\ y.runtime = x.runtime /\ y.retired = x.retired /\ y.adapter = x.adapter
         /\ y.disposed = x.disposed /\ y.upstream = x.upstream /\ y.bus = x.bus
         /\ y.log = x.log
         /\ y.silent = x.silent /\ y.turns = x.turns /\ y.calls = x.calls
         /\ y.tainted = x.tainted /\ y.turn = NoTurn
  BY EndedFields
<1> HIDE DEF y
<1>2. x.stage = "live" => Said(x.log, x.turns)
  BY TurnCurrency DEF Sound, Spoken
<1>3. ~InTurn(y) /\ y.turn.stage = "none"
  BY <1>1 DEF InTurn, NoTurn
<1>4. y \in Context /\ Sound(y)
  BY <1>1, <1>2, <1>3, SilentIsSound
<1>5. QED
  BY <1>4 DEF y

\* A turn that runs dry is over in sight, or marked.
LEMMA RunDryIsSound ==
  ASSUME NEW x \in Context, Sound(x), InTurn(x)
  PROVE  RunDry(x) \in Context /\ Sound(RunDry(x))
<1>1. CASE x.turn.aborted
  BY <1>1, EndedIsSound DEF RunDry, TurnCurrent
<1>2. CASE ~x.turn.aborted
  <2> DEFINE e == Ended(x)
             silent == x.silent \cup {x.turn.id}
             y == [e EXCEPT !.silent = silent]
  <2>1. /\ e \in Context
        /\ e.stage = x.stage /\ e.holder = x.holder /\ e.generation = x.generation
        /\ e.runtime = x.runtime /\ e.retired = x.retired /\ e.adapter = x.adapter
        /\ e.disposed = x.disposed /\ e.upstream = x.upstream /\ e.bus = x.bus
        /\ e.log = x.log /\ e.silent = x.silent /\ e.turns = x.turns
        /\ e.calls = x.calls /\ e.tainted = x.tainted /\ e.turn = NoTurn
    BY EndedFields
  <2>2. RunDry(x) = y
    BY <1>2, <2>1 DEF RunDry
  <2>3. silent \in SUBSET (1 .. MaxTurns) /\ x.turns \in silent
    BY BoundaryAssumption DEF Context, Turn, Sound, Numbered
  <2>4. x.silent \subseteq silent
    OBVIOUS
  <2> HIDE DEF e, silent
  <2>5. /\ y \in Context
        /\ y.stage = e.stage /\ y.holder = e.holder /\ y.generation = e.generation
        /\ y.runtime = e.runtime /\ y.retired = e.retired /\ y.adapter = e.adapter
        /\ y.disposed = e.disposed /\ y.upstream = e.upstream /\ y.bus = e.bus
        /\ y.log = e.log /\ y.silent = silent /\ y.turns = e.turns
        /\ y.calls = e.calls /\ y.tainted = e.tainted /\ y.turn = e.turn
    BY <2>1, <2>3 DEF Context
  <2> HIDE DEF y
  <2>6. ~InTurn(y) /\ y.turn.stage = "none"
    BY <2>1, <2>5 DEF InTurn, NoTurn
  <2>7. Sound(y)
    BY <2>1, <2>3, <2>4, <2>5, <2>6, SilentIsSound
  <2>8. QED
    BY <2>2, <2>5, <2>7
<1>3. QED
  BY <1>1, <1>2

\* An error is reported by a turn that is still current, and the turn is over.
LEMMA ReportIsSound ==
  ASSUME NEW x \in Context, Sound(x), InTurn(x)
  PROVE  Report(x) \in Context /\ Sound(Report(x))
<1>1. CASE ~TurnCurrent(x)
  BY <1>1, EndedIsSound DEF Report
<1>2. CASE TurnCurrent(x)
  <2> DEFINE p == Publish(x, "error")
             y == Ended(p)
             f == [turn |-> x.turn.id, type |-> "error", tainted |-> x.turn.tainted]
  <2>1. Report(x) = y
    BY <1>2 DEF Report
  <2>2. "error" \in Terminals \cup {"delta"} /\ x.turn.id # 0
    BY DEF Terminals, Sound, Numbered
  <2>3. /\ p \in Context /\ f \in Frame
         /\ p.stage = x.stage /\ p.holder = x.holder /\ p.generation = x.generation
         /\ p.runtime = x.runtime /\ p.retired = x.retired /\ p.adapter = x.adapter
         /\ p.disposed = x.disposed /\ p.upstream = x.upstream /\ p.bus = x.bus
         /\ p.log = Append(x.log, f)
         /\ p.silent = x.silent /\ p.turns = x.turns /\ p.calls = x.calls
         /\ p.tainted = x.tainted
    BY <2>2, PublishFields
  <2> HIDE DEF p
  <2>4. /\ y \in Context
         /\ y.stage = p.stage /\ y.holder = p.holder /\ y.generation = p.generation
         /\ y.runtime = p.runtime /\ y.retired = p.retired /\ y.adapter = p.adapter
         /\ y.disposed = p.disposed /\ y.upstream = p.upstream /\ y.bus = p.bus
         /\ y.log = p.log
         /\ y.silent = p.silent /\ y.turns = p.turns /\ y.calls = p.calls
         /\ y.tainted = p.tainted /\ y.turn = NoTurn
    BY <2>3, EndedFields
  <2>5. f.turn = x.turn.id /\ f.type = "error" /\ ~f.tainted
    BY <1>2, TurnCurrency
  <2> HIDE DEF y, f
  <2>6. ~InTurn(y)
    BY <2>4 DEF InTurn, NoTurn
  <2>7. Sound(y)
    BY <2>3, <2>4, <2>5, <2>6, SpeakingIsSound
  <2>8. QED
    BY <2>1, <2>4, <2>7
<1>3. QED
  BY <1>1, <1>2

LEMMA FrameTurns ==
  ASSUME NEW log \in Seq(Frame), NEW i \in DOMAIN log
  PROVE  log[i] \in Frame /\ log[i].turn \in Nat
<1>1. log[i] \in Frame
  OBVIOUS
<1>2. QED
  BY <1>1, BoundaryAssumption DEF Frame

LEMMA InvokeKeeps ==
  ASSUME BoundaryInv, NEW c \in Contexts, Invoke(c)
  PROVE  BoundaryInv'
<1> DEFINE x == ctx[c]
           t == [NoTurn EXCEPT !.stage = "queued", !.id = x.turns + 1]
           y == [x EXCEPT !.turns = @ + 1, !.turn = t]
<1>1. x \in Context /\ Sound(x)
  BY DEF BoundaryInv
<1>2. /\ Put(c, y) /\ x.stage = "live" /\ ~InTurn(x) /\ x.turns < MaxTurns
      /\ Current(x) /\ Permitted(x, "invoke")
  BY DEF Invoke, Registered
<1> HIDE DEF x
<1>3. x.turns + 1 \in 0 .. MaxTurns /\ x.turns \in Nat /\ x.log \in Seq(Frame)
  BY <1>1, <1>2, BoundaryAssumption DEF Context
<1>4. /\ t \in Turn /\ t.stage = "queued" /\ t.id = x.turns + 1
      /\ t.aborted = FALSE /\ t.tainted = FALSE
  BY <1>3 DEF NoTurn, Turn
<1> HIDE DEF t
<1>5. /\ y \in Context
      /\ y.stage = x.stage /\ y.holder = x.holder /\ y.generation = x.generation
      /\ y.runtime = x.runtime /\ y.retired = x.retired /\ y.adapter = x.adapter
      /\ y.disposed = x.disposed /\ y.upstream = x.upstream /\ y.bus = x.bus
      /\ y.log = x.log /\ y.silent = x.silent /\ y.turns = x.turns + 1 /\ y.turn = t
      /\ y.calls = x.calls /\ y.tainted = x.tainted
  BY <1>1, <1>3, <1>4 DEF Context
<1> HIDE DEF y
<1>6. InTurn(y)
  BY <1>4, <1>5 DEF InTurn
<1>7. Numbered(y)
  <2>1. \A i \in DOMAIN x.log : x.log[i].turn \in Nat /\ x.log[i].turn <= x.turns
    BY <1>1, <1>3, FrameTurns DEF Sound, Numbered
  <2>2. QED
    BY <1>3, <1>4, <1>5, <2>1 DEF Numbered
<1>8. Staged(y) /\ Entitled(y)
  BY <1>1, <1>2, <1>4, <1>5 DEF Sound, Staged, Entitled, Held, Pending
<1>9. Standing(y)
  BY <1>1, <1>2, <1>4, <1>5
     DEF Sound, Standing, Held, Usable, Current, Permitted, RegistryCurrent
<1>10. Spoken(y)
  <2>1. Spoken(x)
    BY <1>1 DEF Sound
  <2>2. ~Said(y.log, y.turns)
    <3>1. \A i \in DOMAIN x.log : x.log[i].turn \in Nat /\ x.log[i].turn <= x.turns
      BY <1>1, <1>3, FrameTurns DEF Sound, Numbered
    <3>2. QED
      BY <1>3, <1>5, <3>1 DEF Said
  <2>3. \A id \in 1 .. y.turns : Said(y.log, id) \/ id \in y.silent \/ id = y.turns
    <3>1. \A id \in 1 .. x.turns : Said(x.log, id) \/ id \in x.silent
      BY <1>2, <2>1 DEF Spoken
    <3>2. QED
      BY <1>3, <1>5, <3>1
  <2>4. QED
    BY <1>4, <1>5, <1>6, <2>1, <2>2, <2>3 DEF Spoken
<1>11. QED
  BY <1>2, <1>5, <1>7, <1>8, <1>9, <1>10, PutKeeps DEF Sound

LEMMA TurnFrameKeeps ==
  ASSUME BoundaryInv, NEW c \in Contexts,
         NEW type \in Terminals \cup {"delta", "invalid"}, TurnFrame(c, type)
  PROVE  BoundaryInv'
<1> DEFINE x == ctx[c]
<1>1. x \in Context /\ Sound(x)
  BY DEF BoundaryInv
<1>2. /\ x.turn.stage = "streaming"
      /\ Put(c, IF ~TurnCurrent(x) THEN At(x, "unwinding")
             ELSE IF type = "invalid" THEN At(x, "failing")
             ELSE IF type = "delta" THEN Publish(x, type)
             ELSE At(Publish(x, type), "unwinding"))
  BY DEF TurnFrame
<1>3. InTurn(x)
  BY <1>2 DEF InTurn
<1> HIDE DEF x
<1>4. CASE ~TurnCurrent(x)
  <2>1. At(x, "unwinding") \in Context /\ Sound(At(x, "unwinding"))
    BY <1>1, <1>3, <1>4, AtIsSound
  <2>2. QED
    BY <1>2, <1>4, <2>1, PutKeeps
<1>5. CASE TurnCurrent(x) /\ type = "invalid"
  <2>1. At(x, "failing") \in Context /\ Sound(At(x, "failing"))
    BY <1>1, <1>3, AtIsSound
  <2>2. QED
    BY <1>2, <1>5, <2>1, PutKeeps
<1>6. CASE TurnCurrent(x) /\ type # "invalid"
  <2> DEFINE p == Publish(x, type)
             y == At(p, "unwinding")
             f == [turn |-> x.turn.id, type |-> type, tainted |-> x.turn.tainted]
  <2>1. type \in Terminals \cup {"delta"} /\ x.turn.id # 0
    BY <1>1, <1>3, <1>6 DEF Sound, Numbered
  <2>2. /\ p \in Context /\ f \in Frame
        /\ p.stage = x.stage /\ p.holder = x.holder /\ p.generation = x.generation
        /\ p.runtime = x.runtime /\ p.retired = x.retired /\ p.adapter = x.adapter
        /\ p.disposed = x.disposed /\ p.upstream = x.upstream /\ p.bus = x.bus
        /\ p.log = Append(x.log, f)
        /\ p.silent = x.silent /\ p.turns = x.turns /\ p.calls = x.calls
        /\ p.tainted = x.tainted /\ p.turn = x.turn
    BY <1>1, <1>3, <2>1, PublishFields
  <2>3. f.turn = x.turn.id /\ f.type = type /\ ~f.tainted /\ ~x.turn.aborted
    BY <1>1, <1>3, <1>6, TurnCurrency
  <2> HIDE DEF p, f
  <2>4. CASE type = "delta"
    <3>1. InTurn(p)
      BY <1>3, <2>2 DEF InTurn
    <3>2. Sound(p)
      BY <1>1, <1>2, <1>3, <2>2, <2>3, <2>4, <3>1, SpeakingIsSound
    <3>3. QED
      BY <1>2, <1>6, <2>2, <2>4, <3>2, PutKeeps DEF p
  <2>5. CASE type # "delta"
    <3>1. /\ y \in Context
         /\ y.stage = p.stage /\ y.holder = p.holder /\ y.generation = p.generation
         /\ y.runtime = p.runtime /\ y.retired = p.retired /\ y.adapter = p.adapter
         /\ y.disposed = p.disposed /\ y.upstream = p.upstream /\ y.bus = p.bus
         /\ y.log = p.log
         /\ y.silent = p.silent /\ y.turns = p.turns /\ y.calls = p.calls
         /\ y.tainted = p.tainted
         /\ y.turn.stage = "unwinding" /\ y.turn.id = p.turn.id
         /\ y.turn.aborted = p.turn.aborted /\ y.turn.tainted = p.turn.tainted
      BY <2>2, AtFields
    <3> HIDE DEF y
    <3>2. Sound(y)
      BY <1>1, <1>2, <1>3, <2>2, <2>3, <2>5, <3>1, SpeakingIsSound
    <3>3. QED
      BY <1>2, <1>6, <2>5, <3>1, <3>2, PutKeeps DEF y, p
  <2>6. QED
    BY <2>4, <2>5
<1>7. QED
  BY <1>4, <1>5, <1>6

LEMMA CancelKeeps ==
  ASSUME BoundaryInv, NEW c \in Contexts, Cancel(c)
  PROVE  BoundaryInv'
<1> DEFINE x == ctx[c]
           p == Publish(x, "cancelled")
           y == [p EXCEPT !.turn.aborted = TRUE]
           f == [turn |-> x.turn.id, type |-> "cancelled", tainted |-> x.turn.tainted]
<1>1. x \in Context /\ Sound(x)
  BY DEF BoundaryInv
<1>2. InTurn(x) /\ Put(c, y)
  BY DEF Cancel, Cancellable
<1>3. "cancelled" \in Terminals \cup {"delta"} /\ x.turn.id # 0
  BY <1>1, <1>2 DEF Terminals, Sound, Numbered
<1> HIDE DEF x
<1>4. /\ p \in Context /\ f \in Frame
      /\ p.stage = x.stage /\ p.holder = x.holder /\ p.generation = x.generation
      /\ p.runtime = x.runtime /\ p.retired = x.retired /\ p.adapter = x.adapter
      /\ p.disposed = x.disposed /\ p.upstream = x.upstream /\ p.bus = x.bus
      /\ p.log = Append(x.log, f)
      /\ p.silent = x.silent /\ p.turns = x.turns /\ p.calls = x.calls
      /\ p.tainted = x.tainted /\ p.turn = x.turn
  BY <1>1, <1>2, <1>3, PublishFields
<1>5. f.turn = x.turn.id /\ f.type = "cancelled"
  OBVIOUS
<1> HIDE DEF p, f
<1> DEFINE t == [p.turn EXCEPT !.aborted = TRUE]
<1>6. /\ t \in Turn /\ t.stage = p.turn.stage /\ t.id = p.turn.id /\ t.aborted = TRUE
      /\ t.tainted = p.turn.tainted
  BY <1>4 DEF Context, Turn
<1>7. y = [p EXCEPT !.turn = t]
  BY <1>4 DEF Context
<1> HIDE DEF t, y
<1>8. /\ y \in Context
      /\ y.stage = p.stage /\ y.holder = p.holder /\ y.generation = p.generation
      /\ y.runtime = p.runtime /\ y.retired = p.retired /\ y.adapter = p.adapter
      /\ y.disposed = p.disposed /\ y.upstream = p.upstream /\ y.bus = p.bus
      /\ y.log = p.log
      /\ y.silent = p.silent /\ y.turns = p.turns /\ y.calls = p.calls
      /\ y.tainted = p.tainted /\ y.turn = t
  BY <1>4, <1>6, <1>7 DEF Context
<1>9. Sound(y)
  BY <1>1, <1>2, <1>4, <1>5, <1>6, <1>8, SpeakingIsSound
<1>10. QED
  BY <1>2, <1>8, <1>9, PutKeeps

LEMMA WorkKeeps ==
  ASSUME BoundaryInv, NEW c \in Contexts, Work(c)
  PROVE  BoundaryInv'
<1> DEFINE x == ctx[c]
<1>1. x \in Context /\ Sound(x)
  BY DEF BoundaryInv
<1>2. CASE TurnStarts(c)
  <2>1. x.turn.stage = "queued" /\ InTurn(x)
    BY <1>2 DEF TurnStarts, InTurn
  <2>2. Put(c, IF TurnCurrent(x) THEN At(x, "invoking") ELSE Ended(x))
    BY <1>2 DEF TurnStarts
  <2> HIDE DEF x
  <2>3. At(x, "invoking") \in Context /\ Sound(At(x, "invoking"))
    BY <1>1, <2>1, AtIsSound
  <2>4. ~TurnCurrent(x) => Ended(x) \in Context /\ Sound(Ended(x))
    BY <1>1, <2>1, EndedIsSound
  <2>5. QED
    BY <2>2, <2>3, <2>4, PutKeeps
<1>3. CASE TurnStreams(c)
  <2>1. x.turn.stage = "invoking" /\ InTurn(x)
    BY <1>3 DEF TurnStreams, InTurn
  <2>2. Put(c, IF TurnCurrent(x) THEN At(x, "streaming") ELSE Ended(x))
    BY <1>3 DEF TurnStreams
  <2> HIDE DEF x
  <2>3. At(x, "streaming") \in Context /\ Sound(At(x, "streaming"))
    BY <1>1, <2>1, AtIsSound
  <2>4. ~TurnCurrent(x) => Ended(x) \in Context /\ Sound(Ended(x))
    BY <1>1, <2>1, EndedIsSound
  <2>5. QED
    BY <2>2, <2>3, <2>4, PutKeeps
<1>4. CASE TurnThrows(c)
  <2>1. InTurn(x) /\ Put(c, Report(x))
    BY <1>4 DEF TurnThrows, InTurn
  <2> HIDE DEF x
  <2>2. QED
    BY <1>1, <2>1, ReportIsSound, PutKeeps
<1>5. CASE TurnRunsDry(c)
  <2>1. InTurn(x) /\ Put(c, RunDry(x))
    BY <1>5 DEF TurnRunsDry, InTurn
  <2> HIDE DEF x
  <2>2. QED
    BY <1>1, <2>1, RunDryIsSound, PutKeeps
<1>6. CASE TurnUnwinds(c)
  <2>1. InTurn(x)
    BY <1>6 DEF TurnUnwinds, InTurn
  <2>2. \/ x.turn.stage = "unwinding" /\ Put(c, Ended(x))
        \/ Put(c, Report(x))
    BY <1>6 DEF TurnUnwinds
  <2> HIDE DEF x
  <2>3. QED
    BY <1>1, <2>1, <2>2, EndedIsSound, ReportIsSound, PutKeeps
<1>7. QED
  BY <1>2, <1>3, <1>4, <1>5, <1>6, CallsKeep, InvokeKeeps, TurnFrameKeeps, CancelKeeps
     DEF Work

-----------------------------------------------------------------------------

LEMMA DeepExcept ==
  ASSUME NEW x \in Context, NEW w, NEW v, NEW calls
  PROVE  [x EXCEPT !.tainted = w, !.turn.tainted = v, !.calls = calls]
           = [x EXCEPT !.tainted = w, !.turn = [x.turn EXCEPT !.tainted = v],
                       !.calls = calls]
  BY DEF Context

LEMMA TaintedFields ==
  ASSUME NEW x \in Context
  PROVE  LET y == Tainted(x) IN
         /\ y \in Context
         /\ y.stage = x.stage /\ y.holder = x.holder /\ y.generation = x.generation
         /\ y.runtime = x.runtime /\ y.retired = x.retired /\ y.adapter = x.adapter
         /\ y.disposed = x.disposed /\ y.upstream = x.upstream /\ y.bus = x.bus
         /\ y.log = x.log /\ y.silent = x.silent /\ y.turns = x.turns
         /\ y.turn.stage = x.turn.stage /\ y.turn.id = x.turn.id
         /\ y.turn.aborted = x.turn.aborted
         /\ y.turn.tainted <=>
              x.turn.tainted \/ (InTurn(x) /\ ~PermittedAfter(x, "invoke"))
         /\ y.tainted <=> x.tainted \/ (Held(x) /\ ~PermittedAfter(x, "createSession"))
         /\ \A op \in CallOps :
              /\ y.calls[op].stage = x.calls[op].stage
              /\ y.calls[op].aborted = x.calls[op].aborted
              /\ y.calls[op].tainted <=>
                   x.calls[op].tainted \/ (Running(x.calls[op]) /\ ~PermittedAfter(x, op))
<1> DEFINE w == x.tainted \/ (Held(x) /\ ~PermittedAfter(x, "createSession"))
           t == [x.turn EXCEPT
                   !.tainted = @ \/ (InTurn(x) /\ ~PermittedAfter(x, "invoke"))]
           calls == [op \in CallOps |-> TaintedCall(x.calls[op], PermittedAfter(x, op))]
<1>1. w \in BOOLEAN
  BY DEF Context
<1>2. /\ t \in Turn /\ t.stage = x.turn.stage /\ t.id = x.turn.id
      /\ t.aborted = x.turn.aborted
      /\ t.tainted <=> x.turn.tainted \/ (InTurn(x) /\ ~PermittedAfter(x, "invoke"))
  BY DEF Context, Turn
<1>3. x.calls \in [CallOps -> CallRecord]
  BY DEF Context
<1>4. ASSUME NEW op \in CallOps
      PROVE  /\ calls[op] \in CallRecord
             /\ calls[op].stage = x.calls[op].stage
             /\ calls[op].aborted = x.calls[op].aborted
             /\ calls[op].tainted <=>
                   x.calls[op].tainted \/ (Running(x.calls[op]) /\ ~PermittedAfter(x, op))
  <2>1. x.calls[op] \in CallRecord
    BY <1>3
  <2>2. CASE Running(x.calls[op])
    BY <2>1, <2>2 DEF CallRecord, TaintedCall
  <2>3. CASE ~Running(x.calls[op])
    BY <2>1, <2>3 DEF CallRecord, TaintedCall
  <2>4. QED
    BY <2>2, <2>3
<1>5. calls \in [CallOps -> CallRecord]
  BY <1>4
<1>6. Tainted(x) = [x EXCEPT !.tainted = w, !.turn = t, !.calls = calls]
  BY DeepExcept, Zenon DEF Tainted
<1> HIDE DEF w, t, calls
<1> DEFINE y == [x EXCEPT !.tainted = w, !.turn = t, !.calls = calls]
<1>7. /\ y \in Context
      /\ y.stage = x.stage /\ y.holder = x.holder /\ y.generation = x.generation
      /\ y.runtime = x.runtime /\ y.retired = x.retired /\ y.adapter = x.adapter
      /\ y.disposed = x.disposed /\ y.upstream = x.upstream /\ y.bus = x.bus
      /\ y.log = x.log /\ y.silent = x.silent /\ y.turns = x.turns
      /\ y.turn = t /\ y.calls = calls /\ y.tainted = w
  BY <1>1, <1>2, <1>5 DEF Context
<1> HIDE DEF y
<1>8. Tainted(x) = y
  BY <1>6 DEF y
<1>9. QED
  BY <1>2, <1>4, <1>7, <1>8 DEF w

LEMMA CancelledFields ==
  ASSUME NEW x \in Context, InTurn(x), x.turn.id # 0
  PROVE  LET y == Cancelled(x)
             says == CurrentAfter(x) /\ x.bus
             f == [turn |-> x.turn.id, type |-> "cancelled", tainted |-> FALSE]
         IN
         /\ y \in Context /\ f \in Frame
         /\ y.stage = x.stage /\ y.holder = x.holder /\ y.generation = x.generation
         /\ y.runtime = x.runtime /\ y.retired = x.retired /\ y.adapter = x.adapter
         /\ y.disposed = x.disposed /\ y.upstream = x.upstream
         /\ (says => y.bus = x.bus)
         /\ y.log = (IF says THEN Append(x.log, f) ELSE x.log)
         /\ y.silent = x.silent /\ y.turns = x.turns
         /\ y.turn.stage = x.turn.stage /\ y.turn.id = x.turn.id
         /\ y.turn.aborted = TRUE /\ y.turn.tainted = x.turn.tainted
         /\ y.calls = x.calls /\ y.tainted = x.tainted
<1> DEFINE f == [turn |-> x.turn.id, type |-> "cancelled", tainted |-> FALSE]
           t == [x.turn EXCEPT !.aborted = TRUE]
           l == Append(x.log, f)
<1>1. x.turn.id \in 1 .. MaxTurns /\ x.log \in Seq(Frame)
  BY BoundaryAssumption DEF Context, Turn
<1>2. f \in Frame
  BY <1>1 DEF Frame, Terminals
<1>3. l \in Seq(Frame)
  BY <1>1, <1>2
<1>4. /\ t \in Turn /\ t.stage = x.turn.stage /\ t.id = x.turn.id
      /\ t.aborted = TRUE /\ t.tainted = x.turn.tainted
  BY DEF Context, Turn
<1>5. Cancelled(x) = IF CurrentAfter(x) /\ x.bus
                     THEN [x EXCEPT !.turn = t, !.log = l]
                     ELSE [x EXCEPT !.turn = t, !.bus = FALSE]
  BY DEF Cancelled, Context
<1> HIDE DEF t, l, f
<1>6. CASE CurrentAfter(x) /\ x.bus
  <2> DEFINE y == [x EXCEPT !.turn = t, !.log = l]
  <2>1. /\ y \in Context
      /\ y.stage = x.stage /\ y.holder = x.holder /\ y.generation = x.generation
      /\ y.runtime = x.runtime /\ y.retired = x.retired /\ y.adapter = x.adapter
      /\ y.disposed = x.disposed /\ y.upstream = x.upstream /\ y.bus = x.bus
      /\ y.log = l /\ y.silent = x.silent /\ y.turns = x.turns /\ y.turn = t
      /\ y.calls = x.calls /\ y.tainted = x.tainted
    BY <1>3, <1>4 DEF Context
  <2>2. Cancelled(x) = y
    BY <1>5, <1>6
  <2> HIDE DEF y
  <2>3. QED
    BY <1>2, <1>4, <1>6, <2>1, <2>2 DEF f, l
<1>7. CASE ~(CurrentAfter(x) /\ x.bus)
  <2> DEFINE y == [x EXCEPT !.turn = t, !.bus = FALSE]
  <2>1. /\ y \in Context
      /\ y.stage = x.stage /\ y.holder = x.holder /\ y.generation = x.generation
      /\ y.runtime = x.runtime /\ y.retired = x.retired /\ y.adapter = x.adapter
      /\ y.disposed = x.disposed /\ y.upstream = x.upstream
      /\ y.log = x.log /\ y.silent = x.silent /\ y.turns = x.turns /\ y.turn = t
      /\ y.calls = x.calls /\ y.tainted = x.tainted
    BY <1>4 DEF Context
  <2>2. Cancelled(x) = y
    BY <1>5, <1>7
  <2> HIDE DEF y
  <2>3. QED
    BY <1>2, <1>4, <1>7, <2>1, <2>2 DEF f
<1>8. QED
  BY <1>6, <1>7

\* The listener leaves a standing context what the registry leaves it.
LEMMA DegradeFields ==
  ASSUME NEW x \in Context, InTurn(x) => x.turn.id # 0
  PROVE  LET y == Degrade(x)
             cut == InTurn(x) /\ ~x.turn.aborted /\ "invoke" \notin allowed'[Primary]
             says == cut /\ CurrentAfter(x) /\ x.bus
             f == [turn |-> x.turn.id, type |-> "cancelled", tainted |-> FALSE]
         IN
         /\ y \in Context /\ (cut => f \in Frame)
         /\ y.stage = x.stage /\ y.holder = x.holder /\ y.generation = x.generation
         /\ y.runtime = x.runtime /\ y.retired = x.retired /\ y.adapter = x.adapter
         /\ y.disposed = x.disposed /\ y.upstream = x.upstream
         /\ (says \/ ~cut => y.bus = x.bus)
         /\ y.log = (IF says THEN Append(x.log, f) ELSE x.log)
         /\ y.silent = x.silent /\ y.turns = x.turns
         /\ y.turn.stage = x.turn.stage /\ y.turn.id = x.turn.id
         /\ (y.turn.aborted <=> x.turn.aborted \/ cut) /\ y.turn.tainted = x.turn.tainted
         /\ y.tainted = x.tainted
         /\ \A op \in CallOps :
              /\ y.calls[op].stage = x.calls[op].stage
              /\ y.calls[op].tainted = x.calls[op].tainted
              /\ y.calls[op].aborted <=>
                   (x.calls[op].aborted
                     \/ (op \notin allowed'[Primary] /\ Running(x.calls[op])))
<1> DEFINE a == Withdrawn(x)
<1>1.    /\ a \in Context
         /\ a.stage = x.stage /\ a.holder = x.holder /\ a.generation = x.generation
         /\ a.runtime = x.runtime /\ a.retired = x.retired /\ a.adapter = x.adapter
         /\ a.disposed = x.disposed /\ a.upstream = x.upstream /\ a.bus = x.bus
         /\ a.log = x.log
         /\ a.silent = x.silent /\ a.turns = x.turns
         /\ a.turn = x.turn /\ a.tainted = x.tainted
         /\ \A op \in CallOps :
              /\ a.calls[op].stage = x.calls[op].stage
              /\ a.calls[op].tainted = x.calls[op].tainted
              /\ a.calls[op].aborted <=>
                   (x.calls[op].aborted
                     \/ (op \notin allowed'[Primary] /\ Running(x.calls[op])))
  BY AbortFields DEF Withdrawn
<1>2. Degrade(x) = IF InTurn(a) /\ ~a.turn.aborted /\ "invoke" \notin allowed'[Primary]
                   THEN Cancelled(a) ELSE a
  BY DEF Degrade
<1> HIDE DEF a
<1>3. InTurn(a) <=> InTurn(x)
  BY <1>1 DEF InTurn
<1>4. CurrentAfter(a) <=> CurrentAfter(x)
  BY <1>1 DEF CurrentAfter
<1>5. CASE InTurn(x) /\ ~x.turn.aborted /\ "invoke" \notin allowed'[Primary]
  <2> DEFINE y == Cancelled(a)
             g == [turn |-> a.turn.id, type |-> "cancelled", tainted |-> FALSE]
  <2>0. a.turn.id # 0 /\ InTurn(a)
    BY <1>1, <1>3, <1>5
  <2>1.  /\ y \in Context /\ g \in Frame
         /\ y.stage = a.stage /\ y.holder = a.holder /\ y.generation = a.generation
         /\ y.runtime = a.runtime /\ y.retired = a.retired /\ y.adapter = a.adapter
         /\ y.disposed = a.disposed /\ y.upstream = a.upstream
         /\ (CurrentAfter(a) /\ a.bus => y.bus = a.bus)
         /\ y.log = (IF CurrentAfter(a) /\ a.bus THEN Append(a.log, g) ELSE a.log)
         /\ y.silent = a.silent /\ y.turns = a.turns
         /\ y.turn.stage = a.turn.stage /\ y.turn.id = a.turn.id
         /\ y.turn.aborted = TRUE /\ y.turn.tainted = a.turn.tainted
         /\ y.calls = a.calls /\ y.tainted = a.tainted
    BY <1>1, <2>0, CancelledFields
  <2>2. Degrade(x) = y
    BY <1>1, <1>2, <1>3, <1>5
  <2> HIDE DEF y
  <2>3. (CurrentAfter(a) /\ a.bus <=> CurrentAfter(x) /\ x.bus) /\ a.turn.id = x.turn.id
    BY <1>1, <1>4
  <2>4. /\ y.stage = x.stage /\ y.holder = x.holder /\ y.generation = x.generation
        /\ y.runtime = x.runtime /\ y.retired = x.retired /\ y.adapter = x.adapter
        /\ y.disposed = x.disposed /\ y.upstream = x.upstream
        /\ (CurrentAfter(x) /\ x.bus => y.bus = x.bus)
        /\ y.log = (IF CurrentAfter(x) /\ x.bus THEN Append(x.log, g) ELSE x.log)
        /\ y.silent = x.silent /\ y.turns = x.turns
        /\ y.turn.stage = x.turn.stage /\ y.turn.id = x.turn.id
        /\ y.turn.aborted = TRUE /\ y.turn.tainted = x.turn.tainted
        /\ y.calls = a.calls /\ y.tainted = x.tainted
    BY <1>1, <2>1, <2>3
  <2>5. g = [turn |-> x.turn.id, type |-> "cancelled", tainted |-> FALSE]
    BY <2>3
  <2> HIDE DEF g
  <2>6. QED
    BY <1>1, <1>5, <2>1, <2>2, <2>4, <2>5
<1>6. CASE ~(InTurn(x) /\ ~x.turn.aborted /\ "invoke" \notin allowed'[Primary])
  <2>1. Degrade(x) = a
    BY <1>1, <1>2, <1>3, <1>6
  <2>2. QED
    BY <1>1, <1>6, <2>1
<1>7. QED
  BY <1>5, <1>6

-----------------------------------------------------------------------------
(***************************************************************************)
(* What the registry does reaches every context at once.                   *)
(***************************************************************************)

\* A context in which nothing is left to withdraw.
Quiet(x) ==
  /\ Numbered(x)
  /\ Staged(x)
  /\ Entitled(x)
  /\ Spoken(x)
  /\ Held(x) => x.retired
  /\ x.stage # "live"
  /\ InTurn(x) => x.turn.aborted
  /\ \A op \in CallOps : Running(x.calls[op]) => x.calls[op].aborted

\* Sound in the state a step of the registry leads to.
StandingAfter(x) ==
  /\ Held(x) /\ ~x.retired =>
       /\ ~closed' /\ CurrentAfter(x) /\ "createSession" \in allowed'[Primary]
       /\ x.stage # "resolving" => x.runtime \notin dead'
  /\ \A op \in CallOps : Running(x.calls[op]) /\ ~x.calls[op].aborted =>
       op \in allowed'[Primary]
  /\ InTurn(x) /\ ~x.turn.aborted => "invoke" \in allowed'[Primary]

SoundAfter(x) ==
  /\ Numbered(x)
  /\ Staged(x)
  /\ Entitled(x)
  /\ Spoken(x)
  /\ StandingAfter(x)

LEMMA QuietIsSound ==
  ASSUME NEW x \in Context, Quiet(x)
  PROVE  SoundAfter(x)
  BY DEF Quiet, StandingAfter, SoundAfter

LEMMA AllKeep ==
  ASSUME ctx' \in [Contexts -> Context],
         \A c \in Contexts : SoundAfter(ctx'[c]),
         Registry!TypeOK', closed' \in BOOLEAN, dead' \subseteq Epochs
  PROVE  BoundaryInv'
<1>1. ASSUME NEW c \in Contexts PROVE Sound(ctx[c])'
  <2>1. SoundAfter(ctx'[c])
    OBVIOUS
  <2>2. Numbered(ctx'[c]) /\ Staged(ctx'[c]) /\ Entitled(ctx'[c])
        /\ Spoken(ctx'[c])
    BY <2>1 DEF SoundAfter
  <2>3. Standing(ctx[c])'
    BY <2>1 DEF SoundAfter, StandingAfter, Standing, Usable, Current, Permitted,
                RegistryCurrent, CurrentAfter
  <2>4. QED
    BY <2>2, <2>3 DEF Sound
<1>2. QED
  BY <1>1 DEF BoundaryInv

LEMMA LapsedIsQuiet ==
  ASSUME NEW x \in Context, Sound(x), closed \/ ~Held(x) \/ x.retired
  PROVE  Quiet(x)
<1>1. Held(x) => x.retired
  BY DEF Sound, Standing, Usable, Current
<1>2. x.stage # "live"
  BY <1>1 DEF Sound, Staged, Held
<1>3. QED
  BY <1>1, <1>2 DEF Sound, Entitled, Quiet

LEMMA RetiredIsQuiet ==
  ASSUME NEW x \in Context, Sound(x), Held(x)
  PROVE  Retire(x) \in Context /\ Quiet(Retire(x))
  BY RetiredIsSound DEF Quiet

LEMMA TaintedIsQuiet ==
  ASSUME NEW x \in Context, Quiet(x)
  PROVE  Tainted(x) \in Context /\ Quiet(Tainted(x))
<1> DEFINE y == Tainted(x)
<1>1.    /\ y \in Context
         /\ y.stage = x.stage /\ y.holder = x.holder /\ y.generation = x.generation
         /\ y.runtime = x.runtime /\ y.retired = x.retired /\ y.adapter = x.adapter
         /\ y.disposed = x.disposed /\ y.upstream = x.upstream /\ y.bus = x.bus
         /\ y.log = x.log /\ y.silent = x.silent /\ y.turns = x.turns
         /\ y.turn.stage = x.turn.stage /\ y.turn.id = x.turn.id
         /\ y.turn.aborted = x.turn.aborted
         /\ \A op \in CallOps :
              /\ y.calls[op].stage = x.calls[op].stage
              /\ y.calls[op].aborted = x.calls[op].aborted
              /\ y.calls[op].tainted <=>
                   x.calls[op].tainted \/ (Running(x.calls[op]) /\ ~PermittedAfter(x, op))
  BY TaintedFields
<1> HIDE DEF y
<1>2. Numbered(y) /\ Staged(y) /\ Spoken(y)
  BY <1>1 DEF Quiet, Numbered, Staged, Spoken, InTurn
<1>3. Entitled(y)
  BY <1>1 DEF Quiet, Entitled, Held, InTurn, Running
<1>4. QED
  BY <1>1, <1>2, <1>3 DEF y, Quiet, Held, InTurn, Running

\* A context that keeps its authority through a step of the registry.
LEMMA PermittedIsSound ==
  ASSUME NEW x \in Context, Numbered(x), Staged(x), Entitled(x),
         Spoken(x),
         ~x.retired, ~x.tainted, ~closed', CurrentAfter(x),
         "createSession" \in allowed'[Primary],
         x.stage # "resolving" => x.runtime \notin dead',
         \A op \in CallOps : Running(x.calls[op]) /\ ~x.calls[op].aborted =>
           op \in allowed'[Primary],
         InTurn(x) /\ ~x.turn.aborted => "invoke" \in allowed'[Primary]
  PROVE  Tainted(x) \in Context /\ SoundAfter(Tainted(x))
<1> DEFINE y == Tainted(x)
<1>1.    /\ y \in Context
         /\ y.stage = x.stage /\ y.holder = x.holder /\ y.generation = x.generation
         /\ y.runtime = x.runtime /\ y.retired = x.retired /\ y.adapter = x.adapter
         /\ y.disposed = x.disposed /\ y.upstream = x.upstream /\ y.bus = x.bus
         /\ y.log = x.log /\ y.silent = x.silent /\ y.turns = x.turns
         /\ y.turn.stage = x.turn.stage /\ y.turn.id = x.turn.id
         /\ y.turn.aborted = x.turn.aborted
         /\ y.turn.tainted <=>
              x.turn.tainted \/ (InTurn(x) /\ ~PermittedAfter(x, "invoke"))
         /\ y.tainted <=> x.tainted \/ (Held(x) /\ ~PermittedAfter(x, "createSession"))
         /\ \A op \in CallOps :
              /\ y.calls[op].stage = x.calls[op].stage
              /\ y.calls[op].aborted = x.calls[op].aborted
              /\ y.calls[op].tainted <=>
                   x.calls[op].tainted \/ (Running(x.calls[op]) /\ ~PermittedAfter(x, op))
  BY TaintedFields
<1> HIDE DEF y
<1>2. PermittedAfter(x, "createSession")
  BY DEF PermittedAfter
<1>3. InTurn(x) /\ ~x.turn.aborted => PermittedAfter(x, "invoke")
  BY DEF PermittedAfter
<1>4. \A op \in CallOps : Running(x.calls[op]) /\ ~x.calls[op].aborted =>
        PermittedAfter(x, op)
  BY DEF PermittedAfter
<1>5. Numbered(y) /\ Staged(y) /\ Spoken(y)
  BY <1>1 DEF Numbered, Staged, Spoken, InTurn
<1>6. Entitled(y)
  BY <1>1, <1>2, <1>3, <1>4 DEF Entitled, Held, InTurn, Running
<1>7. StandingAfter(y)
  BY <1>1 DEF StandingAfter, CurrentAfter, InTurn, Running
<1>8. QED
  BY <1>1, <1>5, <1>6, <1>7 DEF y, SoundAfter

\* The listener reaches a context that stands: what it may not do any more is
\* aborted, and a turn cut off says so.
LEMMA DegradedIsSound ==
  ASSUME NEW x \in Context, Sound(x), Held(x), ~x.retired,
         ~closed', CurrentAfter(x), "createSession" \in allowed'[Primary],
         dead' = dead
  PROVE  Tainted(Degrade(x)) \in Context /\ SoundAfter(Tainted(Degrade(x)))
<1> DEFINE y == Degrade(x)
           cut == InTurn(x) /\ ~x.turn.aborted /\ "invoke" \notin allowed'[Primary]
           f == [turn |-> x.turn.id, type |-> "cancelled", tainted |-> FALSE]
<1>1. InTurn(x) => x.turn.id # 0
  BY DEF Sound, Numbered
<1>2. cut => x.stage = "live" /\ x.bus
  BY DEF Sound, Entitled, Staged
<1>3.    /\ y \in Context /\ (cut => f \in Frame)
         /\ y.stage = x.stage /\ y.holder = x.holder /\ y.generation = x.generation
         /\ y.runtime = x.runtime /\ y.retired = x.retired /\ y.adapter = x.adapter
         /\ y.disposed = x.disposed /\ y.upstream = x.upstream
         /\ y.bus = x.bus
         /\ y.log = (IF cut THEN Append(x.log, f) ELSE x.log)
         /\ y.silent = x.silent /\ y.turns = x.turns
         /\ y.turn.stage = x.turn.stage /\ y.turn.id = x.turn.id
         /\ (y.turn.aborted <=> x.turn.aborted \/ cut) /\ y.turn.tainted = x.turn.tainted
         /\ y.tainted = x.tainted
         /\ \A op \in CallOps :
              /\ y.calls[op].stage = x.calls[op].stage
              /\ y.calls[op].tainted = x.calls[op].tainted
              /\ y.calls[op].aborted <=>
                   (x.calls[op].aborted
                     \/ (op \notin allowed'[Primary] /\ Running(x.calls[op])))
  BY <1>1, <1>2, DegradeFields
<1> HIDE DEF y
<1>4. Numbered(y) /\ Staged(y) /\ Spoken(y)
      /\ \A i \in DOMAIN y.log : y.log[i].type # "cancelled" => ~y.log[i].tainted
  <2>1. CASE ~cut
    BY <1>3, <2>1 DEF Sound, Numbered, Staged, Spoken, Entitled, InTurn
  <2>2. CASE cut
    <3> DEFINE z == [x EXCEPT !.turn = y.turn, !.log = y.log]
    <3>1. y.turn \in Turn /\ y.log \in Seq(Frame)
      BY <1>3 DEF Context
    <3>2. /\ z \in Context
          /\ z.stage = x.stage /\ z.holder = x.holder /\ z.generation = x.generation
          /\ z.runtime = x.runtime /\ z.retired = x.retired /\ z.adapter = x.adapter
          /\ z.disposed = x.disposed /\ z.upstream = x.upstream
          /\ z.bus = x.bus
          /\ z.silent = x.silent /\ z.turns = x.turns /\ z.calls = x.calls
          /\ z.tainted = x.tainted /\ z.turn = y.turn /\ z.log = y.log
      BY <3>1 DEF Context
    <3>3. /\ f \in Frame /\ z.log = Append(x.log, f) /\ f.turn = x.turn.id
          /\ f.type = "cancelled" /\ z.turn.aborted /\ z.turn.id = x.turn.id
          /\ z.turn.tainted = x.turn.tainted
      BY <1>3, <2>2, <3>2
    <3> HIDE DEF z, f
    <3>4. Sound(z)
      BY <2>2, <3>2, <3>3, SpeakingIsSound
    <3>5. Numbered(y)
      BY <1>3, <3>2, <3>4 DEF Sound, Numbered, InTurn
    <3>6. Staged(y)
      BY <1>3, <3>2, <3>4 DEF Sound, Staged, InTurn
    <3>7. Spoken(y)
      BY <1>3, <3>2, <3>4 DEF Sound, Spoken, InTurn
    <3>8. \A i \in DOMAIN y.log : y.log[i].type # "cancelled" => ~y.log[i].tainted
      BY <3>2, <3>4 DEF Sound, Entitled
    <3>9. QED
      BY <3>5, <3>6, <3>7, <3>8
  <2>3. QED
    BY <2>1, <2>2
<1>5. Entitled(y)
  BY <1>3, <1>4 DEF Sound, Entitled, Held, InTurn, Running
<1>6. /\ ~y.retired /\ ~y.tainted /\ CurrentAfter(y)
      /\ y.stage # "resolving" => y.runtime \notin dead'
  BY <1>3 DEF Sound, Entitled, Standing, CurrentAfter
<1>7. /\ \A op \in CallOps : Running(y.calls[op]) /\ ~y.calls[op].aborted =>
           op \in allowed'[Primary]
      /\ InTurn(y) /\ ~y.turn.aborted => "invoke" \in allowed'[Primary]
  BY <1>3 DEF InTurn, Running
<1>8. QED
  BY <1>3, <1>4, <1>5, <1>6, <1>7, PermittedIsSound DEF y

LEMMA QuietDegrades ==
  ASSUME NEW x \in Context, Quiet(x)
  PROVE  Degrade(x) \in Context /\ Quiet(Degrade(x))
<1> DEFINE y == Degrade(x)
<1>1. InTurn(x) => x.turn.id # 0 /\ x.turn.aborted
  BY DEF Quiet, Numbered
<1>2.    /\ y \in Context
         /\ y.stage = x.stage /\ y.holder = x.holder /\ y.generation = x.generation
         /\ y.runtime = x.runtime /\ y.retired = x.retired /\ y.adapter = x.adapter
         /\ y.disposed = x.disposed /\ y.upstream = x.upstream
         /\ y.bus = x.bus
         /\ y.log = x.log /\ y.silent = x.silent /\ y.turns = x.turns
         /\ y.turn.stage = x.turn.stage /\ y.turn.id = x.turn.id
         /\ (y.turn.aborted <=> x.turn.aborted) /\ y.turn.tainted = x.turn.tainted
         /\ y.tainted = x.tainted
         /\ \A op \in CallOps :
              /\ y.calls[op].stage = x.calls[op].stage
              /\ y.calls[op].tainted = x.calls[op].tainted
              /\ y.calls[op].aborted <=>
                   (x.calls[op].aborted
                     \/ (op \notin allowed'[Primary] /\ Running(x.calls[op])))
  BY <1>1, DegradeFields
<1> HIDE DEF y
<1>3. Numbered(y) /\ Staged(y) /\ Spoken(y)
  BY <1>2 DEF Quiet, Numbered, Staged, Spoken, InTurn
<1>4. Entitled(y)
  BY <1>2 DEF Quiet, Entitled, Held, InTurn, Running
<1>5. QED
  BY <1>2, <1>3, <1>4 DEF y, Quiet, Held, InTurn, Running

LEMMA FenceKeeps ==
  ASSUME BoundaryInv, Fence
  PROVE  BoundaryInv'
<1>1. /\ open /\ UNCHANGED << epoch, open, holder, generation >>
      /\ status' \in [Slots -> {"live", "dormant", "fenced"}]
      /\ status'[Primary] # "fenced" => status'[Primary] = status[Primary]
      /\ allowed' \in [Slots -> SUBSET Ops]
      /\ ctx' = [c \in Contexts |-> Tainted(Heard(ctx[c]))]
      /\ UNCHANGED << closed, dead >>
  BY DEF Fence, Registry!Fence, BoundaryInv, Registry!TypeOK, Slots
<1>2. Registry!TypeOK'
  BY <1>1 DEF BoundaryInv, Registry!TypeOK
<1>3. ASSUME NEW c \in Contexts
      PROVE  Tainted(Heard(ctx[c])) \in Context /\ SoundAfter(Tainted(Heard(ctx[c])))
  <2> DEFINE x == ctx[c]
  <2>1. x \in Context /\ Sound(x)
    BY DEF BoundaryInv
  <2> HIDE DEF x
  <2>2. CASE closed \/ ~Held(x)
    <3>1. Heard(x) = x
      BY <2>2 DEF Heard, Hears
    <3>2. QED
      BY <2>1, <2>2, <3>1, LapsedIsQuiet, TaintedIsQuiet, QuietIsSound DEF x
  <2>3. CASE /\ ~closed /\ Held(x)
             /\ status'[Primary] = "fenced" \/ "createSession" \notin allowed'[Primary]
    <3>1. Heard(x) = Retire(x)
      BY <2>3 DEF Heard, Hears
    <3>2. QED
      BY <2>1, <2>3, <3>1, RetiredIsQuiet, TaintedIsQuiet, QuietIsSound DEF x
  <2>4. CASE /\ ~closed /\ Held(x)
             /\ status'[Primary] # "fenced" /\ "createSession" \in allowed'[Primary]
    <3>1. Heard(x) = Degrade(x)
      BY <2>4 DEF Heard, Hears
    <3>2. CASE x.retired
      BY <2>1, <3>1, <3>2, LapsedIsQuiet, QuietDegrades, TaintedIsQuiet, QuietIsSound DEF x
    <3>3. CASE ~x.retired
      <4>1. CurrentAfter(x)
        BY <1>1, <2>1, <2>4, <3>3
           DEF Sound, Standing, Usable, Current, RegistryCurrent, CurrentAfter
      <4>2. QED
        BY <1>1, <2>1, <2>4, <3>1, <3>3, <4>1, DegradedIsSound DEF x
    <3>4. QED
      BY <3>2, <3>3
  <2>5. QED
    BY <2>2, <2>3, <2>4
<1>4. /\ ctx' \in [Contexts -> Context]
      /\ \A c \in Contexts : SoundAfter(ctx'[c])
  BY <1>1, <1>3
<1>5. QED
  BY <1>1, <1>2, <1>4, AllKeep DEF BoundaryInv

LEMMA SettleKeeps ==
  ASSUME BoundaryInv, Settle
  PROVE  BoundaryInv'
<1>1. /\ open /\ UNCHANGED << epoch, open >>
      /\ status' \in [Slots -> {"live", "dormant"}]
      /\ generation' = [s \in Slots |->
           IF status[s] = "fenced" THEN generation[s] + 1 ELSE generation[s]]
      /\ holder' \in [Slots -> Holders \cup {None}]
      /\ allowed' \in [Slots -> SUBSET Ops]
      /\ status[Primary] = "live" =>
           /\ holder'[Primary] = holder[Primary]
           /\ allowed[Primary] \subseteq allowed'[Primary]
           /\ status'[Primary] = "dormant" => allowed[Primary] = {}
      /\ ctx' = [c \in Contexts |-> Tainted(ctx[c])]
      /\ UNCHANGED << closed, dead >>
  BY DEF Settle, Registry!Settle, Slots
<1>2. Registry!TypeOK'
  BY <1>1 DEF BoundaryInv, Registry!TypeOK
<1>3. ASSUME NEW c \in Contexts
      PROVE  Tainted(ctx[c]) \in Context /\ SoundAfter(Tainted(ctx[c]))
  <2> DEFINE x == ctx[c]
  <2>1. x \in Context /\ Sound(x)
    BY DEF BoundaryInv
  <2> HIDE DEF x
  <2>2. CASE ~Held(x) \/ x.retired
    BY <2>1, <2>2, LapsedIsQuiet, TaintedIsQuiet, QuietIsSound DEF x
  <2>3. CASE Held(x) /\ ~x.retired
    <3>1. Usable(x) /\ ~x.tainted /\ (x.stage # "resolving" => x.runtime \notin dead)
      BY <2>1, <2>3 DEF Sound, Standing, Entitled
    <3>2. /\ ~closed /\ status[Primary] = "live" /\ "createSession" \in allowed[Primary]
          /\ holder[Primary] = x.holder /\ generation[Primary] = x.generation
      BY <3>1 DEF Usable, Current, Permitted, RegistryCurrent
    <3>3. status'[Primary] = "live" /\ allowed[Primary] \subseteq allowed'[Primary]
          /\ holder'[Primary] = x.holder
      BY <1>1, <3>2 DEF Slots
    <3>4. generation'[Primary] = x.generation
      BY <1>1, <3>2 DEF Slots
    <3>5. CurrentAfter(x)
      BY <1>1, <3>3, <3>4 DEF CurrentAfter
    <3>6. /\ \A op \in CallOps : Running(x.calls[op]) /\ ~x.calls[op].aborted =>
               op \in allowed'[Primary]
          /\ InTurn(x) /\ ~x.turn.aborted => "invoke" \in allowed'[Primary]
      BY <2>1, <3>3 DEF Sound, Standing
    <3>7. QED
      BY <1>1, <2>1, <2>3, <3>1, <3>2, <3>3, <3>5, <3>6, PermittedIsSound DEF x, Sound
  <2>4. QED
    BY <2>2, <2>3
<1>4. /\ ctx' \in [Contexts -> Context]
      /\ \A c \in Contexts : SoundAfter(ctx'[c])
  BY <1>1, <1>3
<1>5. QED
  BY <1>1, <1>2, <1>4, AllKeep DEF BoundaryInv

LEMMA RegistryClosesKeeps ==
  ASSUME BoundaryInv, RegistryCloses
  PROVE  BoundaryInv'
<1>1. /\ open' = FALSE /\ status' = [s \in Slots |-> "fenced"]
      /\ UNCHANGED << epoch, holder, generation, allowed >>
      /\ ctx' = [c \in Contexts |-> Tainted(RetireIf(ctx[c], ~closed))]
      /\ UNCHANGED << closed, dead >>
  BY DEF RegistryCloses
<1>2. Registry!TypeOK'
  BY <1>1 DEF BoundaryInv, Registry!TypeOK
<1>3. ASSUME NEW c \in Contexts
      PROVE  /\ Tainted(RetireIf(ctx[c], ~closed)) \in Context
             /\ SoundAfter(Tainted(RetireIf(ctx[c], ~closed)))
  <2>1. ctx[c] \in Context /\ Sound(ctx[c])
    BY DEF BoundaryInv
  <2>2. RetireIf(ctx[c], ~closed) \in Context /\ Quiet(RetireIf(ctx[c], ~closed))
    BY <2>1, LapsedIsQuiet, RetiredIsQuiet DEF RetireIf
  <2>3. QED
    BY <2>2, TaintedIsQuiet, QuietIsSound
<1>4. /\ ctx' \in [Contexts -> Context]
      /\ \A c \in Contexts : SoundAfter(ctx'[c])
  BY <1>1, <1>3
<1>5. QED
  BY <1>1, <1>2, <1>4, AllKeep DEF BoundaryInv

LEMMA EndsKeep ==
  ASSUME BoundaryInv, CloseBoundary \/ \E e \in Epochs : RetireRuntime(e)
  PROVE  BoundaryInv'
<1>1. CASE CloseBoundary
  <2>1. /\ closed' = TRUE /\ ctx' = [c \in Contexts |-> RetireIf(ctx[c], TRUE)]
        /\ UNCHANGED << registry, dead >>
    BY <1>1 DEF CloseBoundary
  <2>2. ASSUME NEW c \in Contexts
        PROVE  RetireIf(ctx[c], TRUE) \in Context /\ SoundAfter(RetireIf(ctx[c], TRUE))
    <3>1. ctx[c] \in Context /\ Sound(ctx[c])
      BY DEF BoundaryInv
    <3>2. RetireIf(ctx[c], TRUE) \in Context /\ Quiet(RetireIf(ctx[c], TRUE))
      BY <3>1, LapsedIsQuiet, RetiredIsQuiet DEF RetireIf
    <3>3. QED
      BY <3>2, QuietIsSound
  <2>3. /\ ctx' \in [Contexts -> Context]
        /\ \A c \in Contexts : SoundAfter(ctx'[c])
    BY <2>1, <2>2
  <2>4. Registry!TypeOK'
    BY <2>1 DEF BoundaryInv, Registry!TypeOK, registry
  <2>5. QED
    BY <2>1, <2>3, <2>4, AllKeep DEF BoundaryInv
<1>2. ASSUME NEW e \in Epochs, RetireRuntime(e) PROVE BoundaryInv'
  <2>1. /\ dead' = dead \cup {e}
        /\ ctx' = [c \in Contexts |-> RetireIf(ctx[c], OnRuntime(ctx[c], e))]
        /\ UNCHANGED << registry, closed >>
    BY <1>2 DEF RetireRuntime
  <2>2. ASSUME NEW c \in Contexts
        PROVE  /\ RetireIf(ctx[c], OnRuntime(ctx[c], e)) \in Context
               /\ SoundAfter(RetireIf(ctx[c], OnRuntime(ctx[c], e)))
    <3> DEFINE x == ctx[c]
    <3>1. x \in Context /\ Sound(x)
      BY DEF BoundaryInv
    <3> HIDE DEF x
    <3>2. CASE Held(x) /\ OnRuntime(x, e)
      BY <3>1, <3>2, RetiredIsQuiet, QuietIsSound DEF RetireIf, x
    <3>3. CASE ~(Held(x) /\ OnRuntime(x, e))
      <4>1. RetireIf(x, OnRuntime(x, e)) = x
        BY <3>3 DEF RetireIf
      <4>2. StandingAfter(x)
        BY <2>1, <3>1, <3>3
           DEF Sound, Standing, StandingAfter, OnRuntime, Usable, Current, Permitted,
               RegistryCurrent, CurrentAfter, registry
      <4>3. QED
        BY <3>1, <4>1, <4>2 DEF Sound, SoundAfter, x
    <3>4. QED
      BY <3>2, <3>3
  <2>3. /\ ctx' \in [Contexts -> Context]
        /\ \A c \in Contexts : SoundAfter(ctx'[c])
    BY <2>1, <2>2
  <2>4. Registry!TypeOK'
    BY <2>1 DEF BoundaryInv, Registry!TypeOK, registry
  <2>5. QED
    BY <2>1, <2>3, <2>4, AllKeep DEF BoundaryInv
<1>3. QED
  BY <1>1, <1>2

LEMMA BoundaryStep == BoundaryInv /\ [Next]_vars => BoundaryInv'
<1> SUFFICES ASSUME BoundaryInv, [Next]_vars PROVE BoundaryInv'
  OBVIOUS
<1>1. CASE UNCHANGED vars
  <2>1. UNCHANGED << registry, closed, dead, ctx >>
    BY <1>1 DEF vars
  <2>2. ASSUME NEW c \in Contexts PROVE Sound(ctx[c])'
    <3>1. Sound(ctx[c])
      BY DEF BoundaryInv
    <3>2. QED
      BY <2>1, <3>1 DEF registry, Sound, Standing, Usable, Current, Permitted, RegistryCurrent
  <2>3. Registry!TypeOK'
    BY <2>1 DEF BoundaryInv, Registry!TypeOK, registry
  <2>4. QED
    BY <2>1, <2>2, <2>3 DEF BoundaryInv
<1>2. QED
  BY <1>1, FenceKeeps, SettleKeeps, RegistryClosesKeeps, EndsKeep, SessionKeeps, WorkKeeps
     DEF Next, Governance

\* Every context is sound in every state the boundary reaches.
THEOREM BoundaryInvariant == Spec => []BoundaryInv
<1>1. QED
  BY BoundaryInit, BoundaryStep, PTL DEF Spec

\* Every variable keeps its type: no turn is numbered past the bound, and no
\* frame names a turn that never was.
THEOREM BoundaryTypeCorrect == Spec => []TypeOK
<1>1. BoundaryInv => TypeOK
  <2> SUFFICES ASSUME BoundaryInv, NEW c \in Contexts
      PROVE  LET x == ctx[c] IN
       /\ DOMAIN x = DOMAIN Free
       /\ x.stage \in Pending \cup {"free", "live", "gone"}
       /\ x.holder \in Holders \cup {None}
       /\ x.generation \in Nat
       /\ x.runtime \in Epochs \cup {None}
       /\ {x.retired, x.adapter, x.disposed, x.upstream, x.bus, x.tainted}
            \subseteq BOOLEAN
       /\ x.log \in Seq(Frame)
       /\ x.turns \in 0 .. MaxTurns
       /\ x.silent \subseteq 1 .. MaxTurns
       /\ x.turn \in Turn
       /\ x.calls \in [CallOps -> CallRecord]
    BY DEF BoundaryInv, TypeOK, Turn, CallRecord
  <2> DEFINE x == ctx[c]
  <2>1. x \in Context
    BY DEF BoundaryInv
  <2> HIDE DEF x
  <2>2. DOMAIN x = DOMAIN Free
    BY <2>1, FreeIsContext DEF Context
  <2>3. /\ x.stage \in Pending \cup {"free", "live", "gone"}
        /\ x.holder \in Holders \cup {None}
        /\ x.generation \in Nat
        /\ x.runtime \in Epochs \cup {None}
        /\ x.log \in Seq(Frame)
        /\ x.turns \in 0 .. MaxTurns
        /\ x.silent \subseteq 1 .. MaxTurns
        /\ x.turn \in Turn
        /\ x.calls \in [CallOps -> CallRecord]
        /\ x.retired \in BOOLEAN /\ x.adapter \in BOOLEAN /\ x.disposed \in BOOLEAN
        /\ x.upstream \in BOOLEAN /\ x.bus \in BOOLEAN /\ x.tainted \in BOOLEAN
    BY <2>1 DEF Context
  <2>4. QED
    BY <2>2, <2>3 DEF x
<1>2. QED
  BY <1>1, BoundaryInvariant, PTL

\* A registered session has its authority and a runtime that lives, at every
\* moment: whatever withdraws the one or ends the other retires it in the same
\* step, and what is granted again revives nothing.
THEOREM SessionsStand == Spec => []SessionsAreCurrent
<1>1. BoundaryInv => SessionsAreCurrent
  BY DEF BoundaryInv, SessionsAreCurrent, Sound, Standing, Entitled, Staged, Held, Pending
<1>2. QED
  BY <1>1, BoundaryInvariant, PTL

\* No answer of a call and no frame of a turn gets out whose authority lapsed
\* since it was asked for, whatever the adapters do and however late.
THEOREM OutputIsEntitled == Spec => []OutputHeldAuthority
<1>1. BoundaryInv => OutputHeldAuthority
  BY DEF BoundaryInv, OutputHeldAuthority, Sound, Entitled
<1>2. QED
  BY <1>1, BoundaryInvariant, PTL

\* An adapter that was delivered is disposed of when its context is gone, and
\* nothing stays open upstream.
THEOREM AdaptersGo == Spec => []AdaptersAreReleased
<1>1. BoundaryInv => AdaptersAreReleased
  BY DEF BoundaryInv, AdaptersAreReleased, Sound, Staged
<1>2. QED
  BY <1>1, BoundaryInvariant, PTL

\* A turn ends once and in sight: an abort, a failure, a cancellation and a late
\* frame cannot end it twice, and none ends it without a word in a session that
\* stands but an adapter whose stream runs dry.
THEOREM TurnsAreEnded == Spec => []TurnsEndOnce
<1>1. BoundaryInv => TurnsEndOnce
  <2> SUFFICES ASSUME BoundaryInv, NEW c \in Contexts
      PROVE  LET log == ctx[c].log IN
    /\ \A i, j \in DOMAIN log :
         i < j /\ log[i].turn = log[j].turn /\ log[i].type \in Terminals =>
           log[j].type \in {"cancelled", "error"}
    /\ ctx[c].stage = "live" =>
         \A id \in 1 .. ctx[c].turns \ ({ctx[c].turn.id} \cup ctx[c].silent) :
           \E i \in DOMAIN log : log[i].turn = id /\ log[i].type \in Terminals
    BY DEF TurnsEndOnce
  <2>1. Spoken(ctx[c]) /\ Numbered(ctx[c])
    BY DEF BoundaryInv, Sound
  <2>2. QED
    BY <2>1 DEF Spoken, Numbered, Said
<1>2. QED
  BY <1>1, BoundaryInvariant, PTL
=============================================================================
