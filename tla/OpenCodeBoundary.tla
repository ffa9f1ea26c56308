--------------------------- MODULE OpenCodeBoundary ---------------------------
(***************************************************************************)
(* The host's boundary to OpenCode (opencode-boundary.mjs) with what it    *)
(* leans on: the switch of local execution (addon-delegation-service.mjs)  *)
(* and the singleton server (opencode-client.mjs).                         *)
(*                                                                         *)
(* A context is one generation of the boundary: a server, an event stream, *)
(* and the sessions known in it.  Every await of a request or of a start   *)
(* is a point where the context may be retired: by the switch, the         *)
(* monitor, the exit of the server, an upstream failure, a stop, or the    *)
(* disposal.  Each await of the switch reads it anew (gate).               *)
(***************************************************************************)
EXTENDS Naturals, FiniteSets

CONSTANTS Requests,     \* the calls of the routes
          MaxContexts,  \* contexts, and servers
          MaxSessions,  \* bound: sessions created
          Limit,        \* sessions a context may know (1000)
          Bounds        \* bounds: calls, starts of a context and changes of the switch, as
                        \* records [calls, starts, updates]: one is chosen at the beginning

ASSUME OpenCodeAssumption == /\ {MaxContexts, MaxSessions, Limit} \subseteq Nat
                             /\ Bounds \subseteq [calls : Nat, starts : 0 .. MaxContexts, updates : Nat]

Contexts == 1 .. MaxContexts
Sessions == 1 .. MaxSessions

VARIABLES gen,       \* generation: every retirement and revocation moves it
          active,    \* the context in service, or 0
          context,   \* the contexts
          disabled,  \* disabledLatch of the boundary
          disposal,  \* dispose(): "no", "closing", "done"
          switch,    \* the settings file, openCodeDisabledLatch, the update under way
          server,    \* the server started for each context
          entry,     \* the singleton's server, or 0
          upstream,  \* the sessions OpenCode has, and how many there ever were
          request,   \* the calls under way
          left,      \* what is left of the bounds
          streams    \* open subscriptions: the context and the session

boundaryVars == <<gen, active, context, disabled, disposal, switch, server, entry, upstream,
                  request, left, streams>>

NoGate == [seen |-> 0, latched |-> FALSE, file |-> FALSE]
Fresh  == [boot |-> "none", preds |-> {}, target |-> 0, server |-> 0, known |-> {}, gate |-> NoGate]
Uncalled == [op |-> "none", pc |-> "idle", then |-> "none", ctx |-> 0, sid |-> 0, ids |-> {},
             gate |-> NoGate, offs |-> 0]

BoundaryInit ==
  /\ gen = 0 /\ active = 0 /\ disabled = FALSE /\ disposal = "no" /\ entry = 0
  /\ context = [c \in Contexts |-> Fresh] /\ server = [c \in Contexts |-> "none"]
  /\ switch = [file |-> TRUE, latch |-> FALSE, op |-> "none", offs |-> 0,
               off |-> FALSE]
  /\ upstream = [live |-> {}, made |-> 0]
  /\ request = [r \in Requests |-> Uncalled] /\ left \in Bounds /\ streams = {}

Current(c) == c # 0 /\ active = c /\ disposal = "no"

----------------------------------------------------------------------------
(* Retirement: the fence, the streams and the kill happen in one step. *)

\* killOwned and forgetServer.
Forgotten(s) == IF entry = s THEN 0 ELSE entry
Cleans(s, how) ==
  /\ server' = IF s # 0 /\ server[s] = "up" THEN [server EXCEPT ![s] = how] ELSE server
  /\ entry' = IF s # 0 THEN Forgotten(s) ELSE entry

\* cx: the contexts with what the step itself changed in them.
Retires(c, cx) ==
  /\ gen' = gen + 1 /\ active' = 0
  /\ context' = [cx EXCEPT ![c].known = {}]
  /\ streams' = {s \in streams : s[1] # c}
  /\ Cleans(context[c].server, "terminating")

Unretired == UNCHANGED <<gen, active, streams, server, entry>>
RetiresIfCurrent(c, cx) ==
  IF Current(c) THEN Retires(c, cx) ELSE context' = cx /\ Unretired

Revoked(cx) ==
  IF active # 0 THEN Retires(active, cx)
  ELSE gen' = gen + 1 /\ context' = cx /\ UNCHANGED <<active, streams, server, entry>>

----------------------------------------------------------------------------
(* gate: the switch is read, and what it said is used only in the same generation. *)

Gate == [seen |-> gen, latched |-> switch.latch, file |-> switch.file]
Answers(g) == IF g.latched THEN {FALSE} ELSE {g.file, switch.file}

\* Mutant: the generation is not compared after the read.
Stale_Bug(g) == FALSE
Stale(g) == g.seen # gen

GateRevokes(g, allowed) == ~ Stale(g) /\ (~ allowed \/ disposal # "no")
GatePasses(g, allowed, c, rearm) ==
  /\ ~ Stale(g) /\ allowed /\ disposal = "no"
  /\ c # 0 => Current(c)
  /\ disabled => rearm

----------------------------------------------------------------------------
(* The start of a context. *)

Settled(c) == context[c].boot \in {"up", "failed"}

NewContext == Cardinality({c \in Contexts : context[c].boot # "none"}) + 1
Pending == {c \in Contexts : context[c].boot # "none" /\ ~ Settled(c)}

Predecessors == Pending

Booted(c, stage) ==
  [context EXCEPT ![c].boot = stage, ![c].gate = NoGate,
                  ![c].target = IF stage \in {"up", "failed"} THEN 0 ELSE @]

\* ensureServer: the singleton's server, or a new one.
Ensures(c) ==
  /\ context[c].boot = "waiting" /\ \A p \in context[c].preds : Settled(p)
  /\ IF ~ Current(c) THEN context' = Booted(c, "failed") /\ UNCHANGED <<server, entry>>
     ELSE LET s == IF entry # 0 THEN entry ELSE c
          IN  /\ context' = [context EXCEPT ![c].boot = "ensuring", ![c].target = s, ![c].preds = {}]
              /\ server' = IF s = c THEN [server EXCEPT ![s] = "up"] ELSE server
              /\ entry' = s
  /\ UNCHANGED <<gen, active, disabled, disposal, switch, upstream, request, streams>>

\* The server answers.  Mutant: a context retired meanwhile just gives up.
Lost_Bug(c, s) == context' = Booted(c, "failed") /\ UNCHANGED <<server, entry>>
Lost(c, s) == context' = Booted(c, "cleaning") /\ Cleans(s, "terminating")

Ensured(c) ==
  /\ context[c].boot = "ensuring" /\ server[context[c].target] # "dead"
  /\ IF Current(c)
       THEN /\ context' = [context EXCEPT ![c].boot = "gate1", ![c].gate = Gate,
                                          ![c].server = context[c].target]
            /\ UNCHANGED <<server, entry>>
       ELSE Lost(c, context[c].target)
  /\ UNCHANGED <<gen, active, disabled, disposal, switch, upstream, request, streams>>

\* It does not, in time: startOpencodeServer kills it.  Or it does, and the record of its
\* process cannot be written: the server is given up alive, with nobody left to end it
\* before the host's exit ("stray").
EnsureFails(c) ==
  /\ context[c].boot = "ensuring"
  /\ LET s == context[c].target
     IN  /\ \E how \in {"killed", "stray"} :
              (how = "stray" => s = c) /\ Cleans(s, how)
         /\ IF Current(c)
              THEN /\ gen' = gen + 1 /\ active' = 0
                   /\ streams' = {x \in streams : x[1] # c}
              ELSE UNCHANGED <<gen, active, streams>>
         /\ context' = Booted(c, "failed")
  /\ UNCHANGED <<disabled, disposal, switch, upstream, request>>

Cleaned(c) ==
  /\ context[c].boot = "cleaning" /\ server[context[c].target] = "dead"
  /\ context' = Booted(c, "failed")
  /\ Unretired /\ UNCHANGED <<disabled, disposal, switch, upstream, request>>

BootGate(c) ==
  /\ context[c].boot \in {"gate1", "gate2"}
  /\ \E allowed \in Answers(context[c].gate) :
       LET g == context[c].gate
       IN  IF GatePasses(g, allowed, c, FALSE)
             THEN /\ context' = Booted(c, IF context[c].boot = "gate1" THEN "starting" ELSE "up")
                  /\ Unretired /\ UNCHANGED disabled
             ELSE IF GateRevokes(g, allowed)
                    THEN Revoked(Booted(c, "failed")) /\ disabled' = TRUE
                    ELSE RetiresIfCurrent(c, Booted(c, "failed")) /\ UNCHANGED disabled
  /\ UNCHANGED <<disposal, switch, upstream, request>>

\* The event stream is connected, or not.
BusStarts(c) ==
  /\ context[c].boot = "starting"
  /\ \/ /\ Current(c)
        /\ context' = [context EXCEPT ![c].boot = "gate2", ![c].gate = Gate]
        /\ Unretired
     \/ RetiresIfCurrent(c, Booted(c, "failed"))
  /\ UNCHANGED <<disabled, disposal, switch, upstream, request>>

BusFails(c) ==
  /\ Current(c) /\ context[c].boot \in {"gate2", "up"}
  /\ Retires(c, context)
  /\ UNCHANGED <<disabled, disposal, switch, upstream, request>>

\* onExit is attached once the context has its server.
ServerExits(s) ==
  /\ server[s] \in {"up", "terminating", "killed", "stray"}
  /\ IF active # 0 /\ context[active].server = s
       THEN /\ gen' = gen + 1 /\ active' = 0
            /\ context' = [context EXCEPT ![active].known = {}]
            /\ streams' = {x \in streams : x[1] # active}
       ELSE UNCHANGED <<gen, active, context, streams>>
  /\ server' = [server EXCEPT ![s] = "dead"]
  /\ entry' = IF entry = s THEN 0 ELSE entry
  /\ UNCHANGED <<disabled, disposal, switch, upstream, request>>

\* Every 250 ms.
SeenOff == switch.latch \/ ~ switch.file

Monitor ==
  /\ active # 0 /\ SeenOff
  /\ Retires(active, context) /\ disabled' = TRUE
  /\ UNCHANGED <<disposal, switch, upstream, request>>

----------------------------------------------------------------------------
(* The requests. *)

Sets(r, q) == request' = [request EXCEPT ![r] = q]
Asks(q, then) == [q EXCEPT !.pc = "gate", !.then = then, !.gate = Gate]
Moves(q, pc) == [q EXCEPT !.pc = pc, !.then = "none", !.gate = NoGate]
Ends(how) == [Uncalled EXCEPT !.pc = how]

Scoped == {"use", "delete", "events"}

Spends(what) == left[what] > 0 /\ left' = [left EXCEPT ![what] = @ - 1]

Call(r, op, s) ==
  /\ request[r].pc \in {"idle", "ok", "failed"} /\ Spends("calls")
  /\ IF op \in Scoped THEN s \in 1 .. upstream.made ELSE s = 0
  /\ Sets(r, Asks([Uncalled EXCEPT !.op = op, !.sid = s, !.ctx = active,
                                   !.offs = switch.offs], "enter"))
  /\ UNCHANGED <<gen, active, context, disabled, disposal, switch, server, entry, upstream,
                 streams>>

Slots(c) == Cardinality({r \in Requests : /\ request[r].op = "start" /\ request[r].ctx = c
                                          /\ \/ request[r].pc \in {"acting", "answered"}
                                             \/ request[r].then = "acted"})

Past(r, then) ==
  /\ request[r].pc = "gate" /\ request[r].then = then
  /\ \E allowed \in Answers(request[r].gate) :
       GatePasses(request[r].gate, allowed, request[r].ctx,
                  then = "enter" /\ request[r].op \in {"start", "list"})

GateFails(r) ==
  LET q == request[r]
  IN  /\ q.pc = "gate"
      /\ \E allowed \in Answers(q.gate) :
           /\ ~ GatePasses(q.gate, allowed, q.ctx, q.then = "enter" /\ q.op \in {"start", "list"})
           /\ IF GateRevokes(q.gate, allowed) THEN Revoked(context) /\ disabled' = TRUE
              ELSE Unretired /\ UNCHANGED <<context, disabled>>
      /\ Sets(r, Ends("failed"))
      /\ UNCHANGED <<disposal, switch, upstream>>

Quietly == Unretired /\ UNCHANGED <<context, disabled, disposal, switch, upstream>>
InContext == UNCHANGED <<gen, active, server, entry, disabled, disposal, switch, upstream>>

Stops(r) ==
  /\ Past(r, "enter") /\ request[r].op = "stop"
  /\ Sets(r, Ends("ok"))
  /\ RetiresIfCurrent(request[r].ctx, context)
  /\ UNCHANGED <<disabled, disposal, switch, upstream>>

Subscribes(r) ==
  LET q == request[r]
  IN  /\ Past(r, "enter") /\ q.op = "events"
      /\ IF /\ q.ctx # 0 /\ context[q.ctx].boot \in {"gate2", "up"}
            /\ q.sid \in context[q.ctx].known
           THEN Sets(r, Ends("ok")) /\ streams' = streams \cup {<<q.ctx, q.sid>>}
           ELSE Sets(r, Ends("failed")) /\ UNCHANGED streams
      /\ UNCHANGED context /\ InContext

\* A start or a list without a context begins one, and arms the boundary again.
Begins(r) ==
  /\ Past(r, "enter") /\ request[r].op \in {"start", "list"}
  /\ request[r].ctx = 0 /\ active = 0 /\ Spends("starts")
  /\ active' = NewContext /\ disabled' = FALSE
  /\ context' = [context EXCEPT ![NewContext] =
                   [Fresh EXCEPT !.boot = "waiting", !.preds = Predecessors]]
  /\ Sets(r, [Moves(request[r], "booting") EXCEPT !.ctx = NewContext])
  /\ UNCHANGED <<gen, streams, server, entry, disposal, switch, upstream>>

Enters(r) ==
  LET q == request[r]
      c == IF q.ctx = 0 /\ q.op \in {"start", "list"} THEN active ELSE q.ctx
  IN  /\ Past(r, "enter") /\ q.op \notin {"stop", "events"}
      /\ q.op \in {"start", "list"} => c # 0 \/ left.starts = 0
      /\ Sets(r, IF c = 0 THEN Ends("failed")
                 ELSE [Moves(q, "booting") EXCEPT !.ctx = c])
      /\ Quietly

\* guarded: the abort of the context ends every wait.  Mutant: not that for the start.
Guarded_Bug == {"acting", "answered"}
Guarded == {"booting", "acting", "answered"}

Aborts(r) ==
  /\ request[r].pc \in Guarded /\ ~ Current(request[r].ctx)
  /\ Sets(r, Ends("failed")) /\ Quietly

Boots(r) ==
  /\ request[r].pc = "booting"
  /\ Current(request[r].ctx) /\ context[request[r].ctx].boot = "up"
  /\ Sets(r, Asks(request[r], "booted")) /\ Quietly

Acts(r) ==
  LET q == request[r]
      may == CASE q.op = "start" -> Cardinality(context[q.ctx].known) + Slots(q.ctx) < Limit
               [] q.op \in Scoped -> q.sid \in context[q.ctx].known
               [] OTHER -> TRUE
  IN  /\ Past(r, "booted")
      /\ Sets(r, IF may THEN Moves(q, "acting") ELSE Ends("failed"))
      /\ Quietly

\* OpenCode carries the call out.
Upstream(r) ==
  LET q == request[r]
  IN  /\ q.pc = "acting" /\ Current(q.ctx)
      /\ CASE q.op = "start" ->
                /\ upstream.made < MaxSessions
                /\ upstream' = [live |-> upstream.live \cup {upstream.made + 1},
                                made |-> upstream.made + 1]
                /\ Sets(r, [q EXCEPT !.pc = "answered", !.sid = upstream.made + 1])
           [] q.op = "list" ->
                Sets(r, [q EXCEPT !.pc = "answered", !.ids = upstream.live]) /\ UNCHANGED upstream
           [] q.op = "delete" ->
                /\ upstream' = [upstream EXCEPT !.live = @ \ {q.sid}]
                /\ Sets(r, [q EXCEPT !.pc = "answered"])
           [] OTHER -> Sets(r, [q EXCEPT !.pc = "answered"]) /\ UNCHANGED upstream
      /\ Unretired /\ UNCHANGED <<context, disabled, disposal, switch>>

\* It refuses, breaks the protocol or does not answer in time: the context goes with it.
UpstreamFails(r) ==
  /\ request[r].pc = "acting" /\ Current(request[r].ctx)
  /\ Sets(r, Ends("failed")) /\ Retires(request[r].ctx, context)
  /\ UNCHANGED <<disabled, disposal, switch, upstream>>

Answered(r) ==
  /\ request[r].pc = "answered" /\ Current(request[r].ctx)
  /\ Sets(r, Asks(request[r], "acted")) /\ Quietly

Registers(r) ==
  /\ Past(r, "acted") /\ request[r].op \in {"start", "use"}
  /\ context' = IF request[r].op = "use" THEN context
                ELSE [context EXCEPT ![request[r].ctx].known = @ \cup {request[r].sid}]
  /\ Sets(r, Asks(request[r], "final"))
  /\ UNCHANGED streams /\ InContext

\* removeSession closes the streams of the session.
WithoutSession(c, s) == streams \ {<<c, s>>}

Removes(r, s, then) ==
  LET c == request[r].ctx
  IN  /\ context' = [context EXCEPT ![c].known = @ \ {s}]
      /\ streams' = WithoutSession(c, s)
      /\ Sets(r, Asks(request[r], then))

Deletes(r) ==
  /\ Past(r, "acted") /\ request[r].op = "delete"
  /\ Removes(r, request[r].sid, "final") /\ InContext

\* A list takes what it was answered for the sessions of the context, one removal after
\* the other.
Lists(r) ==
  LET q == request[r]
      old == context[q.ctx].known \ q.ids
  IN  /\ q.op = "list" /\ (Past(r, "acted") \/ Past(r, "removed"))
      /\ \/ /\ q.then = "acted" /\ Cardinality(q.ids) + Slots(q.ctx) > Limit
            /\ Sets(r, Ends("failed")) /\ UNCHANGED <<context, streams>>
         \/ /\ q.then = "acted" => Cardinality(q.ids) + Slots(q.ctx) <= Limit
            /\ IF old # {} THEN \E s \in old : Removes(r, s, "removed")
               ELSE /\ context' = [context EXCEPT ![q.ctx].known = @ \cup q.ids]
                    /\ Sets(r, Asks(q, "final")) /\ UNCHANGED streams
      /\ InContext

Finishes(r) ==
  /\ Past(r, "final") /\ Sets(r, Ends("ok")) /\ Quietly

----------------------------------------------------------------------------
(* The switch of local execution, its updates one at a time; and the disposal. *)

Elsewhere == UNCHANGED <<disposal, upstream, request>>
Switches(s) == switch' = s /\ Unretired /\ UNCHANGED <<context, disabled>> /\ Elsewhere

Updates(to) ==
  /\ switch.op = "none" /\ Spends("updates")
  /\ Switches([switch EXCEPT !.op = to, !.latch = @ \/ to = "off"])

\* Off: the boundary is told before the file is written.
Revokes == Revoked(context) /\ disabled' = TRUE

Notifies ==
  /\ switch.op = "off"
  /\ switch' = [switch EXCEPT !.op = "offWrite", !.offs = @ + 1, !.off = TRUE]
  /\ Revokes /\ Elsewhere

\* The write, or the audit entry after it, fails: the latch stays set, or is set.
WritesOff == /\ switch.op = "offWrite"
             /\ \E file \in {FALSE, switch.file} : Switches([switch EXCEPT !.op = "none", !.file = file])
WritesOn  == /\ switch.op = "on"
             /\ \/ Switches([switch EXCEPT !.op = "none", !.file = TRUE, !.latch = FALSE, !.off = FALSE])
                \/ \E file \in {TRUE, switch.file} :
                     Switches([switch EXCEPT !.op = "none", !.file = file, !.latch = TRUE])

\* The file is damaged or edited by hand.
FileChanges ==
  /\ switch.file /\ Spends("updates")
  /\ Switches([switch EXCEPT !.file = FALSE])

Dispose ==
  /\ disposal = "no" /\ disposal' = "closing"
  /\ Revoked(context) /\ disabled' = TRUE
  /\ UNCHANGED <<switch, upstream, request>>

StartsOver == Pending = {}

Disposed ==
  /\ disposal = "closing" /\ StartsOver /\ \A s \in Contexts : server[s] # "terminating"
  /\ disposal' = "done"
  /\ Unretired /\ UNCHANGED <<context, disabled, switch, upstream, request>>

BootStep(c) ==
  /\ \/ Ensures(c) \/ Ensured(c) \/ EnsureFails(c) \/ Cleaned(c) \/ BootGate(c) \/ BusStarts(c)
  /\ UNCHANGED left
RequestStep(r) ==
  \/ Begins(r)
  \/ /\ \/ GateFails(r) \/ Stops(r) \/ Subscribes(r) \/ Enters(r) \/ Boots(r) \/ Aborts(r)
        \/ Acts(r) \/ Upstream(r) \/ UpstreamFails(r) \/ Answered(r) \/ Registers(r)
        \/ Deletes(r) \/ Lists(r) \/ Finishes(r)
     /\ UNCHANGED left
SwitchStep == (Notifies \/ WritesOff \/ WritesOn) /\ UNCHANGED left
HostStep == (Monitor \/ Dispose \/ Disposed) /\ UNCHANGED left
ServerStep(c) == (BusFails(c) \/ ServerExits(c)) /\ UNCHANGED left
Operations == {"start", "list", "use", "delete", "events", "stop"}

BoundaryNext ==
  \/ \E r \in Requests : \/ \E op \in Operations, s \in 0 .. MaxSessions : Call(r, op, s)
                         \/ RequestStep(r)
  \/ \E c \in Contexts : BootStep(c) \/ ServerStep(c)
  \/ \E to \in {"on", "off"} : Updates(to)
  \/ FileChanges \/ SwitchStep \/ HostStep

BoundarySpec == BoundaryInit /\ [][BoundaryNext]_boundaryVars

\* Host steps happen, calls to OpenCode and to the file system end, and a server that is
\* killed dies.
BoundaryFairness ==
  /\ \A r \in Requests : WF_boundaryVars(RequestStep(r))
  /\ \A c \in Contexts :
       /\ WF_boundaryVars(BootStep(c))
       /\ WF_boundaryVars(server[c] \in {"terminating", "killed"} /\ ServerStep(c))
  /\ WF_boundaryVars(Monitor /\ UNCHANGED left) /\ WF_boundaryVars(Disposed /\ UNCHANGED left)
  /\ WF_boundaryVars(SwitchStep)
BoundaryFairSpec == BoundarySpec /\ BoundaryFairness

----------------------------------------------------------------------------
(* Properties. *)

BoundaryTypeOK ==
  /\ gen \in Nat /\ active \in 0 .. MaxContexts /\ entry \in 0 .. MaxContexts
  /\ disabled \in BOOLEAN /\ disposal \in {"no", "closing", "done"}
  /\ \A c \in Contexts :
       /\ context[c].boot \in {"none", "waiting", "ensuring", "gate1", "starting", "gate2", "up",
                               "cleaning", "failed"}
       /\ context[c].known \subseteq Sessions
       /\ {context[c].target, context[c].server} \subseteq 0 .. MaxContexts
       /\ server[c] \in {"none", "up", "terminating", "killed", "stray", "dead"}
  /\ switch.op \in {"none", "off", "offWrite", "on"}
  /\ upstream.live \subseteq 1 .. upstream.made /\ upstream.made <= MaxSessions
  /\ \A r \in Requests : /\ request[r].op \in Operations \cup {"none"}
                         /\ request[r].pc \in {"idle", "gate", "booting", "acting", "answered",
                                               "ok", "failed"}
  /\ streams \subseteq Contexts \X Sessions

\* No race of starts and retirements leaves a server behind: one that nobody has told to
\* end is that of the context in service, or one a start still waits for.  The one failure
\* that does leave one is that of the record of its process, which makes it "stray": the
\* code gives such a server up alive, and only the host's exit ends it.  And the server in
\* service has not been told to end, nor is it a stray: the cleanup of an earlier context
\* does not take it along.  Once dispose has ended none but strays are left.
ServersAreOwned ==
  /\ \A s \in Contexts : server[s] = "up" =>
       \/ active # 0 /\ context[active].server = s
       \/ \E c \in Contexts : context[c].boot = "ensuring" /\ context[c].target = s
  /\ active # 0 /\ context[active].server # 0 => server[context[active].server] = "up"
  /\ disposal = "done" => \A s \in Contexts : server[s] # "up"

\* Off is off: no request under way when execution is switched off ends well, nor one
\* made until it is switched on again (a stop does, it only takes away), and no context is
\* started meanwhile, not even for one who read the switch before.
OffIsOff ==
  [][/\ \A r \in Requests :
          request[r].pc # "ok" /\ request'[r].pc = "ok" /\ request[r].op # "stop" =>
            ~ switch.off /\ request[r].offs = switch.offs
     /\ switch.off => active' \in {0, active}]_boundaryVars

\* Every request ends, and a context does not outlive the permission for it, whoever took
\* it away.
RequestsEnd ==
  /\ \A r \in Requests : request[r].pc \notin {"idle", "ok", "failed"}
                          ~> request[r].pc \in {"ok", "failed"}
  /\ (switch.latch \/ ~ switch.file) ~> (active = 0 \/ (~ switch.latch /\ switch.file))
=============================================================================
