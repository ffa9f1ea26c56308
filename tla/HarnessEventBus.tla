-------------------------- MODULE HarnessEventBus --------------------------
(***************************************************************************)
(* The in-memory fan-out of one harness session: events are numbered by    *)
(* the host and queued for each reader within an event and a byte bound.   *)
(* A reader past its bounds, and every reader when the bus closes, has its *)
(* queue replaced by one terminal event.                                   *)
(*                                                                         *)
(* The owner of the session is asked whether it is current before every    *)
(* use; it may lose that at any time without telling the bus.              *)
(***************************************************************************)
EXTENDS Naturals, Sequences, FiniteSets

CONSTANTS
  Readers,           \* subscriptions that may be made
  Turns,             \* turn identities
  Session,           \* the turn a terminal names before any turn published
  Sizes,             \* sizes of published events in bytes
  MaxReaders,
  MaxQueueEvents,
  MaxQueueBytes,
  MaxPublished       \* bound: events published

ASSUME BusAssumption ==
  /\ Sizes \subseteq Nat \ {0}
  /\ MaxReaders \in Nat \ {0}
  /\ MaxQueueEvents \in Nat \ {0}
  /\ MaxQueueBytes \in Nat \ {0}
  /\ MaxPublished \in Nat
  /\ Session \notin Turns

VARIABLES
  sequence,
  closed,
  lastTurn,
  place,       \* the reader set, in insertion order: 0 outside the set
  queue,
  bytes,
  ended,       \* reader.closed
  waiting,     \* the reader has an unanswered next()
  current,     \* the owner's answer to isCurrent()
  log,         \* history: the events published
  joined,      \* history: the length of the log when each reader subscribed
  got,         \* history: what each reader was handed
  stage        \* history: what became of each subscription

reader  == << place, queue, bytes, ended, waiting >>
history == << log, joined, got, stage >>
vars    == << sequence, closed, lastTurn, reader, current, history >>

Event    == [kind : {"event"}, turn : Turns, sequence : Nat, size : Sizes]
Terminal == [kind : {"terminal"}, turn : Turns \cup {Session},
             sequence : Nat, size : {0}]

MakeTerminal_Unnumbered(n) ==
  [kind |-> "terminal", turn |-> lastTurn, sequence |-> sequence, size |-> 0]
MakeTerminal(n) ==
  [kind |-> "terminal", turn |-> lastTurn, sequence |-> n, size |-> 0]

\* A reader that is ended keeps one item, the terminal, whatever was queued.
Ending_Emptied(last) == << >>
Ending(last) == << last >>

Subscribed == { r \in Readers : place[r] # 0 }
Used       == { r \in Readers : stage[r] # "unused" }

\* Deleting keeps the insertion order of the readers that stay.
Without_Nothing(gone) == place
Without(gone) == [r \in Readers |-> IF r \in gone THEN 0 ELSE place[r]]

-----------------------------------------------------------------------------

\* close(): one terminal event for everybody still subscribed, handed at once
\* to those in "answered" and queued for the others.
Shut(answered) ==
  LET last == MakeTerminal(sequence + 1) IN
  /\ closed' = TRUE
  /\ sequence' = sequence + 1
  /\ place' = Without(Subscribed)
  /\ queue' = [r \in Readers |->
       IF r \notin Subscribed THEN queue[r]
       ELSE IF r \in answered THEN << >> ELSE Ending(last)]
  /\ bytes' = [r \in Readers |-> IF r \in Subscribed THEN 0 ELSE bytes[r]]
  /\ ended' = [r \in Readers |-> ended[r] \/ r \in Subscribed]
  /\ waiting' = [r \in Readers |-> waiting[r] /\ r \notin Subscribed]
  /\ got' = [r \in Readers |->
       IF r \in answered THEN Append(got[r], last) ELSE got[r]]
  /\ stage' = [r \in Readers |->
       IF r \notin Subscribed THEN stage[r]
       ELSE IF r \in answered THEN "told" ELSE "cut"]
  /\ UNCHANGED << lastTurn, current, log, joined >>

Waiting == { r \in Subscribed : waiting[r] }

Close ==
  /\ ~closed
  /\ Shut(Waiting)

\* publish() and subscribe() find out that the owner is no longer current.
Refuse ==
  /\ ~current
  /\ Close

Slow_ByCountOnly(size) ==
  { r \in Subscribed : ~waiting[r] /\ Len(queue[r]) >= MaxQueueEvents }
Slow(size) ==
  { r \in Subscribed :
      /\ ~waiting[r]
      /\ bytes[r] + size > MaxQueueBytes \/ Len(queue[r]) >= MaxQueueEvents }

\* Every slow reader's terminal takes a number of its own, in reader order.
Numbering(slow, r) ==
  sequence + 1 + Cardinality({ q \in slow : place[q] <= place[r] })

Publish(turn, size) ==
  LET event == [kind |-> "event", turn |-> turn, sequence |-> sequence + 1, size |-> size]
      slow  == Slow(size)
      last(r) == [MakeTerminal(Numbering(slow, r)) EXCEPT !.turn = turn]
  IN
    /\ current /\ ~closed
    /\ Len(log) < MaxPublished
    /\ sequence' = sequence + 1 + Cardinality(slow)
    /\ lastTurn' = turn
    /\ log' = Append(log, event)
    /\ place' = Without(slow)
    /\ queue' = [r \in Readers |->
         IF r \in slow THEN Ending(last(r))
         ELSE IF r \in Subscribed /\ ~waiting[r] THEN Append(queue[r], event)
         ELSE queue[r]]
    /\ bytes' = [r \in Readers |->
         IF r \in slow THEN 0
         ELSE IF r \in Subscribed /\ ~waiting[r] THEN bytes[r] + size
         ELSE bytes[r]]
    /\ ended' = [r \in Readers |-> ended[r] \/ r \in slow]
    /\ waiting' = [r \in Readers |-> waiting[r] /\ r \notin Subscribed]
    /\ got' = [r \in Readers |->
         IF r \in Subscribed /\ waiting[r] THEN Append(got[r], event) ELSE got[r]]
    /\ stage' = [r \in Readers |-> IF r \in slow THEN "cut" ELSE stage[r]]
    /\ UNCHANGED << closed, current, joined >>

Subscribe(r) ==
  /\ stage[r] = "unused"
  /\ current /\ ~closed
  /\ Cardinality(Subscribed) < MaxReaders
  /\ place' = [place EXCEPT ![r] = Cardinality(Used) + 1]
  /\ stage' = [stage EXCEPT ![r] = "open"]
  /\ joined' = [joined EXCEPT ![r] = Len(log)]
  /\ UNCHANGED << sequence, closed, lastTurn, queue, bytes, ended, waiting,
                  current, log, got >>

\* next() closes a bus whose owner is no longer current before it looks at
\* the queue, so what was queued for a former owner is never handed out.
NextRefuses_Never(r) == FALSE
NextRefuses(r) == ~ended[r] /\ ~current

\* The call that closes the bus hands out the terminal of its own reader,
\* unless an earlier next() of that reader is waiting and receives it.
NextCloses(r) ==
  /\ stage[r] = "open"
  /\ NextRefuses(r)
  /\ Shut(Waiting \cup {r})

NextTakes(r) ==
  LET item == Head(queue[r]) IN
  /\ stage[r] \in {"open", "cut"}
  /\ ~NextRefuses(r)
  /\ queue[r] # << >>
  /\ queue' = [queue EXCEPT ![r] = Tail(@)]
  /\ bytes' = [bytes EXCEPT ![r] = @ - item.size]
  /\ got' = [got EXCEPT ![r] = Append(@, item)]
  /\ stage' = [stage EXCEPT ![r] = IF item.kind = "terminal" THEN "told" ELSE @]
  /\ UNCHANGED << sequence, closed, lastTurn, place, ended, waiting, current,
                  log, joined >>

\* A second next() while one is waiting is refused and changes nothing.
NextWaits(r) ==
  /\ stage[r] = "open"
  /\ ~NextRefuses(r)
  /\ queue[r] = << >>
  /\ ~ended[r] /\ ~waiting[r]
  /\ waiting' = [waiting EXCEPT ![r] = TRUE]
  /\ UNCHANGED << sequence, closed, lastTurn, place, queue, bytes, ended,
                  current, history >>

\* return(): the reader leaves without a terminal event.
Return(r) ==
  /\ stage[r] \in {"open", "cut"}
  /\ place' = Without({r})
  /\ queue' = [queue EXCEPT ![r] = << >>]
  /\ bytes' = [bytes EXCEPT ![r] = 0]
  /\ ended' = [ended EXCEPT ![r] = TRUE]
  /\ waiting' = [waiting EXCEPT ![r] = FALSE]
  /\ stage' = [stage EXCEPT ![r] = "left"]
  /\ UNCHANGED << sequence, closed, lastTurn, current, log, joined, got >>

\* The registry changes its answer: fenced, revoked, granted again.
OwnerChanges ==
  /\ current' = ~current
  /\ UNCHANGED << sequence, closed, lastTurn, reader, history >>

Init ==
  /\ sequence = 0
  /\ closed = FALSE
  /\ lastTurn = Session
  /\ place = [r \in Readers |-> 0]
  /\ queue = [r \in Readers |-> << >>]
  /\ bytes = [r \in Readers |-> 0]
  /\ ended = [r \in Readers |-> FALSE]
  /\ waiting = [r \in Readers |-> FALSE]
  /\ current = TRUE
  /\ log = << >>
  /\ joined = [r \in Readers |-> 0]
  /\ got = [r \in Readers |-> << >>]
  /\ stage = [r \in Readers |-> "unused"]

Bus ==
  \/ \E turn \in Turns, size \in Sizes : Publish(turn, size)
  \/ Refuse
  \/ Close

Reader(r) == NextCloses(r) \/ NextTakes(r) \/ NextWaits(r)

Next ==
  \/ Bus
  \/ \E r \in Readers : Subscribe(r) \/ Reader(r) \/ Return(r)
  \/ OwnerChanges

Spec == Init /\ [][Next]_vars

\* A consumer keeps pulling until its stream ends.
FairSpec == Spec /\ \A r \in Readers : WF_vars(Reader(r))

-----------------------------------------------------------------------------
(***************************************************************************)
(* Properties.                                                             *)
(***************************************************************************)

\* "total" is what the items measure, told by its running sums.
Measures(total, items) ==
  \E upTo \in [0 .. Len(items) -> 0 .. MaxQueueBytes] :
    /\ upTo[0] = 0
    /\ \A i \in 1 .. Len(items) : upTo[i] = upTo[i - 1] + items[i].size
    /\ total = upTo[Len(items)]

\* A reader's byte count is what it really has queued, and the queue stays
\* within both bounds.
QueuesAreBounded ==
  /\ Cardinality(Subscribed) <= MaxReaders
  /\ \A r \in Readers :
       /\ Measures(bytes[r], queue[r])
       /\ Len(queue[r]) <= MaxQueueEvents

\* Every variable has its shape, and through every partial drain, overflow and
\* close the queues stay within their bounds.
TypeOK ==
  /\ sequence \in Nat
  /\ closed \in BOOLEAN
  /\ QueuesAreBounded
  /\ lastTurn \in Turns \cup {Session}
  /\ place \in [Readers -> Nat]
  /\ queue \in [Readers -> Seq(Event \cup Terminal)]
  /\ bytes \in [Readers -> Nat]
  /\ ended \in [Readers -> BOOLEAN]
  /\ waiting \in [Readers -> BOOLEAN]
  /\ current \in BOOLEAN
  /\ log \in Seq(Event)
  /\ joined \in [Readers -> Nat]
  /\ got \in [Readers -> Seq(Event \cup Terminal)]
  /\ stage \in [Readers -> {"unused", "open", "cut", "told", "left"}]

Received(r) == got[r] \o queue[r]

\* A sequence number names one event: what a reader is handed and still has
\* queued is in strictly increasing sequence, terminal events included, and two
\* readers never see different events under the same number, however many of
\* them overflow in the same publication.  So a client that drops what it has
\* already seen never drops something new.
SequencesNameEvents ==
  /\ \A r \in Readers : \A i, j \in 1 .. Len(Received(r)) :
       i < j => Received(r)[i].sequence < Received(r)[j].sequence
  /\ \A r, q \in Readers :
       \A i \in 1 .. Len(Received(r)), j \in 1 .. Len(Received(q)) :
         Received(r)[i].sequence = Received(q)[j].sequence
           => Received(r)[i] = Received(q)[j]

\* Nothing but a terminal event is handed out once the owner is not current,
\* not even what was queued while it was.
NothingStale ==
  [][\A r \in Readers :
       got'[r] # got[r] =>
         current \/ got'[r][Len(got'[r])].kind = "terminal"]_vars

\* The bus implements the feed: gapless runs of one log, one terminal.
EventsGot(r) ==
  IF stage[r] = "told" THEN SubSeq(got[r], 1, Len(got[r]) - 1) ELSE got[r]

Feed == INSTANCE HarnessFeed WITH
  Events <- Event,
  open   <- ~closed,
  from   <- joined,
  got    <- [r \in Readers |-> EventsGot(r)]

FeedSpec == Feed!Spec

\* A consumer that keeps pulling is never left waiting on a closed bus.
ReadersAreReleased ==
  \A r \in Readers : (closed /\ stage[r] \in {"open", "cut"}) ~> (stage[r] \in {"told", "left"})
=============================================================================
