----------------------- MODULE HarnessEventBus_proofs -----------------------
(***************************************************************************)
(* Proofs about the event bus.  BusInv is inductive: it ties the place and *)
(* the flags of every reader to what became of its subscription, and what  *)
(* a reader was handed and has queued to the log of published events.      *)
(* From it follow the bounds, the numbering, that nothing stale is handed  *)
(* out, and that the bus implements the feed.                              *)
(***************************************************************************)
EXTENDS HarnessEventBus, FiniteSetTheorems, TLAPS

Item == Event \cup Terminal

LEMMA ItemFields ==
  ASSUME NEW e \in Item
  PROVE  /\ e.kind \in {"event", "terminal"}
         /\ e.sequence \in Nat
         /\ e.size \in Nat
         /\ e.kind = "event" <=> e \in Event
         /\ e.kind = "terminal" => e.size = 0
<1>1. CASE e \in Event
  <2>1. e.kind = "event" /\ e.sequence \in Nat /\ e.size \in Sizes
    BY <1>1 DEF Event
  <2>2. e.kind # "terminal" /\ e.size \in Nat
    BY <2>1, BusAssumption
  <2>3. QED
    BY <1>1, <2>1, <2>2
<1>2. CASE e \in Terminal
  <2>1. e.kind = "terminal" /\ e.sequence \in Nat /\ e.size = 0
    BY <1>2 DEF Terminal
  <2>2. e \notin Event
    BY <2>1 DEF Event
  <2>3. QED
    BY <2>1, <2>2
<1>3. QED
  BY <1>1, <1>2 DEF Item

-----------------------------------------------------------------------------
(***************************************************************************)
(* The measure of a queue.                                                 *)
(***************************************************************************)

\* The running sums never fall, which is what taking the first item rests on.
Measured(total, items) ==
  \E upTo \in [0 .. Len(items) -> 0 .. MaxQueueBytes] :
    /\ upTo[0] = 0
    /\ \A i \in 1 .. Len(items) : upTo[i] = upTo[i - 1] + items[i].size
    /\ \A i, j \in 0 .. Len(items) : i <= j => upTo[i] <= upTo[j]
    /\ total = upTo[Len(items)]

LEMMA MeasuredMeasures ==
  ASSUME NEW total, NEW items, Measured(total, items)
  PROVE  Measures(total, items)
  BY DEF Measured, Measures

LEMMA NothingMeasures ==
  Measured(0, << >>)
<1> DEFINE f == [i \in 0 .. 0 |-> 0]
<1>1. Len(<< >>) = 0
  OBVIOUS
<1>2. f \in [0 .. 0 -> 0 .. MaxQueueBytes] /\ f[0] = 0
  BY BusAssumption
<1> HIDE DEF f
<1>3. QED
  BY <1>1, <1>2 DEF Measured

LEMMA TerminalMeasures ==
  ASSUME NEW e \in Terminal
  PROVE  Measured(0, << e >>)
<1> DEFINE f == [i \in 0 .. 1 |-> 0]
           s == << e >>
<1>1. Len(s) = 1 /\ s[1] = e
  OBVIOUS
<1>2. /\ f \in [0 .. 1 -> 0 .. MaxQueueBytes]
      /\ \A i \in 0 .. 1 : f[i] = 0
  BY BusAssumption
<1>3. e.size = 0
  BY DEF Terminal
<1> HIDE DEF f, s
<1>4. \A i \in 1 .. 1 : f[i] = f[i - 1] + s[i].size
  <2> TAKE i \in 1 .. 1
  <2>1. i = 1 /\ i - 1 = 0
    OBVIOUS
  <2>2. f[i] = 0 /\ f[i - 1] = 0 /\ s[i].size = 0
    BY <1>1, <1>2, <1>3, <2>1
  <2>3. QED
    BY <2>2
<1>5. Measured(0, s)
  BY <1>1, <1>2, <1>4 DEF Measured
<1>6. QED
  BY <1>5 DEF s

LEMMA MeasureIsNat ==
  ASSUME NEW items \in Seq(Item), NEW total, Measured(total, items)
  PROVE  total \in Nat /\ total <= MaxQueueBytes
<1>1. Len(items) \in Nat /\ Len(items) \in 0 .. Len(items)
  OBVIOUS
<1>2. total \in 0 .. MaxQueueBytes
  BY <1>1 DEF Measured
<1>3. QED
  BY <1>2, BusAssumption

LEMMA AppendMeasures ==
  ASSUME NEW items \in Seq(Item), NEW e \in Item, NEW total, Measured(total, items),
         total + e.size <= MaxQueueBytes
  PROVE  Measured(total + e.size, Append(items, e))
<1> DEFINE n == Len(items)
           after == Append(items, e)
<1>1. PICK f \in [0 .. n -> 0 .. MaxQueueBytes] :
        /\ f[0] = 0
        /\ \A i \in 1 .. n : f[i] = f[i - 1] + items[i].size
        /\ \A i, j \in 0 .. n : i <= j => f[i] <= f[j]
        /\ total = f[n]
  BY DEF Measured
<1>2. /\ Len(after) = n + 1 /\ n \in Nat /\ after[n + 1] = e
      /\ \A i \in 1 .. n : after[i] = items[i]
  OBVIOUS
<1>3. e.size \in Nat /\ total \in Nat /\ MaxQueueBytes \in Nat
  BY <1>1, <1>2, ItemFields, BusAssumption
<1> DEFINE g == [i \in 0 .. n + 1 |-> IF i = n + 1 THEN total + e.size ELSE f[i]]
<1> HIDE DEF n, after
<1>4. g \in [0 .. n + 1 -> 0 .. MaxQueueBytes]
  BY <1>1, <1>2, <1>3
<1>5. /\ g[0] = 0 /\ g[n + 1] = total + e.size /\ \A i \in 0 .. n : g[i] = f[i]
  BY <1>1, <1>2
<1> HIDE DEF g
<1>6. ASSUME NEW i \in 1 .. n + 1 PROVE g[i] = g[i - 1] + after[i].size
  <2>1. CASE i = n + 1
    BY <1>1, <1>2, <1>3, <1>5, <2>1
  <2>2. CASE i # n + 1
    <3>1. i \in 1 .. n /\ i \in 0 .. n /\ i - 1 \in 0 .. n
      BY <1>2, <2>2
    <3>2. QED
      BY <1>1, <1>2, <1>5, <3>1
  <2>3. QED
    BY <2>1, <2>2
<1>7. ASSUME NEW i \in 0 .. n + 1, NEW j \in 0 .. n + 1, i <= j PROVE g[i] <= g[j]
  <2>1. f[n] \in Nat /\ \A k \in 0 .. n : f[k] \in Nat /\ f[k] <= f[n]
    <3>1. n \in 0 .. n
      BY <1>2
    <3>2. \A k \in 0 .. n : f[k] \in 0 .. MaxQueueBytes
      BY <1>1
    <3>3. \A k \in 0 .. n : f[k] \in Nat
      BY <3>2, <1>3
    <3>4. \A k \in 0 .. n : k <= n
      BY <1>2
    <3>5. QED
      BY <1>1, <3>1, <3>3, <3>4
  <2>2. CASE j = n + 1 /\ i = n + 1
    BY <1>5, <2>2, <1>4
  <2>3. CASE j = n + 1 /\ i # n + 1
    <3>1. i \in 0 .. n
      BY <1>2, <2>3
    <3>2. g[i] = f[i] /\ g[j] = f[n] + e.size
      BY <1>1, <1>5, <2>3, <3>1
    <3>3. f[i] \in Nat /\ f[i] <= f[n] /\ f[n] \in Nat
      BY <2>1, <3>1
    <3>4. QED
      BY <1>3, <3>2, <3>3
  <2>4. CASE j # n + 1
    <3>1. i \in 0 .. n /\ j \in 0 .. n
      BY <1>2, <1>7, <2>4
    <3>2. QED
      BY <1>1, <1>5, <1>7, <3>1
  <2>5. QED
    BY <2>2, <2>3, <2>4
<1>8. QED
  BY <1>2, <1>4, <1>5, <1>6, <1>7 DEF Measured, after

LEMMA TailMeasures ==
  ASSUME NEW items \in Seq(Item), items # << >>, NEW total, Measured(total, items)
  PROVE  Measured(total - Head(items).size, Tail(items))
<1> DEFINE n == Len(items)
           after == Tail(items)
           s == Head(items).size
<1>1. PICK f \in [0 .. n -> 0 .. MaxQueueBytes] :
        /\ f[0] = 0
        /\ \A i \in 1 .. n : f[i] = f[i - 1] + items[i].size
        /\ \A i, j \in 0 .. n : i <= j => f[i] <= f[j]
        /\ total = f[n]
  BY DEF Measured
<1>2. /\ n \in Nat \ {0} /\ Len(after) = n - 1 /\ Head(items) = items[1]
      /\ \A i \in 1 .. n - 1 : after[i] = items[i + 1]
      /\ items[1] \in Item
  OBVIOUS
<1>3. s \in Nat /\ s = items[1].size /\ MaxQueueBytes \in Nat
  BY <1>2, ItemFields, BusAssumption
<1> DEFINE g == [i \in 0 .. n - 1 |-> f[i + 1] - s]
<1> HIDE DEF n, after, s
<1>4. f[1] = s
  BY <1>1, <1>2, <1>3
<1>5. ASSUME NEW i \in 0 .. n - 1 PROVE f[i + 1] - s \in 0 .. MaxQueueBytes
  <2>1. 1 \in 0 .. n /\ i + 1 \in 0 .. n /\ 1 <= i + 1
    BY <1>2
  <2>2. f[1] <= f[i + 1] /\ f[i + 1] \in 0 .. MaxQueueBytes
    BY <1>1, <2>1
  <2>3. QED
    BY <1>3, <1>4, <2>2
<1>6. g \in [0 .. n - 1 -> 0 .. MaxQueueBytes]
  BY <1>5
<1>7. \A i \in 0 .. n - 1 : g[i] = f[i + 1] - s
  OBVIOUS
<1> HIDE DEF g
<1>8. g[0] = 0
  BY <1>2, <1>3, <1>4, <1>7
<1>9. ASSUME NEW i \in 1 .. n - 1 PROVE g[i] = g[i - 1] + after[i].size
  <2>1. i \in 0 .. n - 1 /\ i - 1 \in 0 .. n - 1 /\ i + 1 \in 1 .. n /\ (i - 1) + 1 = i
        /\ (i + 1) - 1 = i
    BY <1>2
  <2>2. f[i + 1] = f[i] + items[i + 1].size
    BY <1>1, <2>1
  <2>3. items[i + 1] \in Item
    BY <2>1 DEF n
  <2>4. f[i] \in Nat /\ items[i + 1].size \in Nat
    <3>1. f[i] \in 0 .. MaxQueueBytes
      <4>1. i \in 0 .. n
        BY <1>2
      <4>2. QED
        BY <1>1, <4>1
    <3>2. items[i + 1].size \in Nat
      BY <2>3, ItemFields
    <3>3. QED
      BY <1>3, <3>1, <3>2
  <2>5. g[i] = f[i + 1] - s /\ g[i - 1] = f[i] - s
    BY <1>7, <2>1
  <2>6. after[i] = items[i + 1]
    BY <1>2
  <2>7. QED
    BY <1>3, <2>2, <2>4, <2>5, <2>6
<1>10. ASSUME NEW i \in 0 .. n - 1, NEW j \in 0 .. n - 1, i <= j PROVE g[i] <= g[j]
  <2>1. i + 1 \in 0 .. n /\ j + 1 \in 0 .. n /\ i + 1 <= j + 1
    BY <1>2, <1>10
  <2>2. f[i + 1] <= f[j + 1] /\ f[i + 1] \in Nat /\ f[j + 1] \in Nat
    BY <1>1, <1>3, <2>1
  <2>3. QED
    BY <1>3, <1>7, <2>2
<1>11. total - s = g[n - 1]
  <2>1. n - 1 \in 0 .. n - 1 /\ (n - 1) + 1 = n
    BY <1>2
  <2>2. QED
    BY <1>1, <1>7, <2>1
<1>12. QED
  BY <1>2, <1>6, <1>8, <1>9, <1>10, <1>11 DEF Measured, after, s

-----------------------------------------------------------------------------
(***************************************************************************)
(* The inductive invariant.                                                *)
(***************************************************************************)

Shape ==
  /\ sequence \in Nat
  /\ closed \in BOOLEAN
  /\ lastTurn \in Turns \cup {Session}
  /\ place \in [Readers -> Nat]
  /\ queue \in [Readers -> Seq(Item)]
  /\ bytes \in [Readers -> Nat]
  /\ ended \in [Readers -> BOOLEAN]
  /\ waiting \in [Readers -> BOOLEAN]
  /\ current \in BOOLEAN
  /\ log \in Seq(Event)
  /\ joined \in [Readers -> Nat]
  /\ got \in [Readers -> Seq(Item)]
  /\ stage \in [Readers -> {"unused", "open", "cut", "told", "left"}]

\* Places are given in order and never twice, so that a place counts no more
\* than the readers that ever subscribed.
Placed ==
  /\ IsFiniteSet(Used)
  /\ Cardinality(Subscribed) <= MaxReaders
  /\ \A r \in Readers : place[r] <= Cardinality(Used)
  /\ \A r, q \in Readers : place[r] = place[q] /\ place[r] # 0 => r = q

\* What the stage of a subscription says of the reader's fields.
Staged(r) ==
  /\ place[r] # 0 <=> stage[r] = "open"
  /\ ended[r] <=> stage[r] \in {"cut", "told", "left"}
  /\ closed => stage[r] # "open"
  /\ waiting[r] => stage[r] = "open" /\ queue[r] = << >>

Bounded(r) ==
  /\ Measured(bytes[r], queue[r])
  /\ Len(queue[r]) <= MaxQueueEvents

\* What an open reader was handed and has queued runs to the end of the log.
Following(r) ==
  /\ got[r] \in Seq(Event)
  /\ queue[r] \in Seq(Event)
  /\ joined[r] + Len(got[r]) + Len(queue[r]) = Len(log)
  /\ \A i \in 1 .. Len(queue[r]) :
       queue[r][i] = log[joined[r] + Len(got[r]) + i]

Cut(r) ==
  /\ got[r] \in Seq(Event)
  /\ Len(queue[r]) = 1 /\ queue[r][1] \in Terminal

Told(r) ==
  /\ EventsGot(r) \in Seq(Event)
  /\ got[r] # << >> /\ got[r][Len(got[r])] \in Terminal
  /\ queue[r] = << >>

Fed(r) ==
  /\ stage[r] = "unused" => got[r] = << >> /\ queue[r] = << >>
  /\ stage[r] = "open" => Following(r)
  /\ stage[r] = "cut" => Cut(r)
  /\ stage[r] = "told" => Told(r)
  /\ stage[r] = "left" => got[r] \in Seq(Event) /\ queue[r] = << >>

ReadersSound == \A r \in Readers : Staged(r) /\ Bounded(r) /\ Fed(r)

\* Every number in use was given out by the host.
Numbered ==
  \A r \in Readers : \A i \in 1 .. Len(Received(r)) :
    Received(r)[i].sequence <= sequence

BusInv == Shape /\ Placed /\ ReadersSound /\ Numbered /\ SequencesNameEvents

-----------------------------------------------------------------------------
(***************************************************************************)
(* Places and numbers.                                                     *)
(***************************************************************************)

LEMMA SubscribedIsFinite ==
  ASSUME Shape, Placed, ReadersSound
  PROVE  /\ Subscribed \subseteq Used
         /\ IsFiniteSet(Subscribed)
<1>1. Subscribed \subseteq Used
  BY DEF ReadersSound, Staged, Subscribed, Used
<1>2. QED
  BY <1>1, FS_Subset DEF Placed

LEMMA UpToCounts ==
  ASSUME Shape, Placed, IsFiniteSet(Subscribed),
         NEW slow \in SUBSET Subscribed, NEW r \in slow
  PROVE  LET upTo == { q \in slow : place[q] <= place[r] } IN
         /\ IsFiniteSet(upTo)
         /\ Cardinality(slow) \in Nat
         /\ Cardinality(upTo) \in 1 .. Cardinality(slow)
<1> DEFINE upTo == { q \in slow : place[q] <= place[r] }
<1>1. place[r] \in Nat
  BY DEF Shape, Subscribed
<1>2. r \in upTo
  BY <1>1
<1>3. IsFiniteSet(slow) /\ upTo \in SUBSET slow
  BY FS_Subset
<1>4. IsFiniteSet(upTo) /\ Cardinality(upTo) <= Cardinality(slow)
  BY <1>3, FS_Subset
<1>5. Cardinality(upTo) \in Nat /\ Cardinality(slow) \in Nat
  BY <1>3, <1>4, FS_CardinalityType
<1>6. Cardinality(upTo) # 0
  BY <1>2, <1>4, FS_EmptySet
<1> HIDE DEF upTo
<1>7. QED
  BY <1>4, <1>5, <1>6 DEF upTo

LEMMA NumbersAreFresh ==
  ASSUME Shape, Placed, IsFiniteSet(Subscribed),
         NEW slow \in SUBSET Subscribed, NEW r \in slow
  PROVE  /\ Cardinality(slow) \in Nat
         /\ Numbering(slow, r) \in Nat
         /\ sequence + 1 < Numbering(slow, r)
         /\ Numbering(slow, r) <= sequence + 1 + Cardinality(slow)
<1> DEFINE c == Cardinality({ q \in slow : place[q] <= place[r] })
           n == Cardinality(slow)
<1>1. n \in Nat /\ c \in 1 .. n /\ sequence \in Nat
  BY UpToCounts DEF Shape
<1>2. Numbering(slow, r) = sequence + 1 + c
  BY DEF Numbering
<1> HIDE DEF c, n
<1>3. QED
  BY <1>1, <1>2 DEF n

LEMMA NumbersDiffer ==
  ASSUME Shape, Placed, IsFiniteSet(Subscribed),
         NEW slow \in SUBSET Subscribed, NEW r \in slow, NEW q \in slow,
         place[r] < place[q]
  PROVE  Numbering(slow, r) # Numbering(slow, q)
<1> DEFINE below == { p \in slow : place[p] <= place[r] }
           upTo  == { p \in slow : place[p] <= place[q] }
<1>1. \A p \in slow : place[p] \in Nat
  BY DEF Shape, Subscribed
<1>2. below \in SUBSET upTo /\ q \in upTo /\ q \notin below
  BY <1>1
<1>3. IsFiniteSet(upTo) /\ IsFiniteSet(below)
  BY UpToCounts
<1>4. Cardinality(below) # Cardinality(upTo)
  BY <1>2, <1>3, FS_Subset
<1>5. Cardinality(below) \in Nat /\ Cardinality(upTo) \in Nat /\ sequence \in Nat
  BY <1>3, FS_CardinalityType DEF Shape
<1>6. /\ Numbering(slow, r) = sequence + 1 + Cardinality(below)
      /\ Numbering(slow, q) = sequence + 1 + Cardinality(upTo)
  BY DEF Numbering
<1> HIDE DEF below, upTo
<1>7. QED
  BY <1>4, <1>5, <1>6

LEMMA NumbersAreDistinct ==
  ASSUME Shape, Placed, IsFiniteSet(Subscribed),
         NEW slow \in SUBSET Subscribed, NEW r \in slow, NEW q \in slow, r # q
  PROVE  Numbering(slow, r) # Numbering(slow, q)
<1>1. place[r] \in Nat /\ place[q] \in Nat /\ place[r] # place[q]
  BY DEF Shape, Placed, Subscribed
<1>2. place[r] < place[q] \/ place[q] < place[r]
  BY <1>1
<1>3. QED
  BY <1>2, NumbersDiffer

LEMMA WithoutIsPlaced ==
  ASSUME Shape, Placed, IsFiniteSet(Subscribed), NEW gone,
         place' = Without(gone), Used' = Used
  PROVE  Placed'
<1>1. Subscribed' \in SUBSET Subscribed
  BY DEF Subscribed, Without
<1>2. Cardinality(Subscribed') <= Cardinality(Subscribed)
  BY <1>1, FS_Subset
<1>3. Cardinality(Subscribed') \in Nat /\ Cardinality(Subscribed) \in Nat
  BY <1>1, FS_Subset, FS_CardinalityType
<1>4. Cardinality(Subscribed') <= MaxReaders
  BY <1>2, <1>3, BusAssumption DEF Placed
<1>5. Cardinality(Used) \in Nat
  BY FS_CardinalityType DEF Placed
<1>6. \A r \in Readers : place'[r] = place[r] \/ place'[r] = 0
  BY DEF Without
<1>7. ASSUME NEW r \in Readers PROVE place'[r] <= Cardinality(Used)
  BY <1>5, <1>6 DEF Placed
<1>8. ASSUME NEW r \in Readers, NEW q \in Readers, place'[r] = place'[q], place'[r] # 0
      PROVE  r = q
  BY <1>6, <1>8 DEF Placed
<1>9. QED
  BY <1>4, <1>7, <1>8 DEF Placed

LEMMA SubscribeIsPlaced ==
  ASSUME Shape, Placed, ReadersSound, NEW r \in Readers, Subscribe(r)
  PROVE  Placed'
<1> DEFINE n == Cardinality(Used)
<1>1. Used' = Used \cup {r} /\ r \notin Used
  BY DEF Subscribe, Used, Shape
<1>2. IsFiniteSet(Used') /\ Cardinality(Used') = n + 1 /\ n \in Nat
  BY <1>1, FS_AddElement, FS_CardinalityType DEF Placed
<1>3. \A q \in Readers : place'[q] = IF q = r THEN n + 1 ELSE place[q]
  BY DEF Subscribe, Shape
<1>4. \A q \in Readers : place[q] \in Nat /\ place[q] <= n
  BY DEF Shape, Placed
<1>5. r \notin Subscribed
  BY <1>1, SubscribedIsFinite
<1>6. Subscribed' = Subscribed \cup {r}
  BY <1>2, <1>3 DEF Subscribed
<1>7. Cardinality(Subscribed') = Cardinality(Subscribed) + 1
  BY <1>5, <1>6, SubscribedIsFinite, FS_AddElement
<1>8. Cardinality(Subscribed') <= MaxReaders
  BY <1>7, SubscribedIsFinite, FS_CardinalityType, BusAssumption DEF Subscribe
<1> HIDE DEF n
<1>9. \A q \in Readers : place'[q] <= n + 1
  BY <1>2, <1>3, <1>4
<1>10. \A p, q \in Readers : place'[p] = place'[q] /\ place'[p] # 0 => p = q
  <2> SUFFICES ASSUME NEW p \in Readers, NEW q \in Readers,
                      place'[p] = place'[q], place'[p] # 0
               PROVE  p = q
    OBVIOUS
  <2>1. CASE p # r /\ q # r
    BY <1>3, <2>1 DEF Placed
  <2>2. CASE p = r \/ q = r
    BY <1>2, <1>3, <1>4, <2>2
  <2>3. QED
    BY <2>1, <2>2
<1>11. QED
  BY <1>2, <1>8, <1>9, <1>10 DEF Placed

-----------------------------------------------------------------------------
(***************************************************************************)
(* What one reader goes through.                                           *)
(***************************************************************************)

LEMMA TerminalIsMade ==
  ASSUME Shape, NEW n \in Nat
  PROVE  /\ MakeTerminal(n) \in Terminal
         /\ MakeTerminal(n).sequence = n
  BY DEF MakeTerminal, Terminal, Shape

LEMMA ItemsAre ==
  /\ Event \subseteq Item /\ Terminal \subseteq Item
  /\ \A s \in Seq(Event) : s \in Seq(Item)
  /\ \A s \in Seq(Item) : s = << >> => s \in Seq(Event)
<1>1. Event \subseteq Item /\ Terminal \subseteq Item
  BY DEF Item
<1>2. QED
  BY <1>1

Same(r) ==
  /\ place'[r] = place[r]
  /\ queue'[r] = queue[r]
  /\ bytes'[r] = bytes[r]
  /\ ended'[r] = ended[r]
  /\ waiting'[r] = waiting[r]
  /\ joined'[r] = joined[r]
  /\ got'[r] = got[r]
  /\ stage'[r] = stage[r]

Sound(r) == Staged(r) /\ Bounded(r) /\ Fed(r)

LEMMA SameIsSound ==
  ASSUME NEW r \in Readers, Sound(r), Same(r),
         closed' => stage[r] # "open",
         stage[r] = "open" => log' = log
  PROVE  Sound(r)'
<1>1. Staged(r)'
  BY DEF Sound, Staged, Same
<1>2. Bounded(r)'
  BY DEF Sound, Bounded, Same
<1>3. EventsGot(r)' = EventsGot(r)
  BY DEF EventsGot, Same
<1>4. stage[r] = "open" => Following(r)'
  BY DEF Sound, Fed, Following, Same
<1>5. stage[r] = "cut" => Cut(r)'
  BY DEF Sound, Fed, Cut, Same
<1>6. stage[r] = "told" => Told(r)'
  BY <1>3 DEF Sound, Fed, Told, Same
<1>7. Fed(r)'
  BY <1>4, <1>5, <1>6 DEF Sound, Fed, Same
<1>8. QED
  BY <1>1, <1>2, <1>7 DEF Sound

\* The queue of a reader is replaced by a terminal event.
LEMMA CutIsSound ==
  ASSUME NEW r \in Readers, Sound(r), stage[r] = "open", NEW last \in Terminal,
         place'[r] = 0, queue'[r] = << last >>, bytes'[r] = 0, ended'[r] = TRUE,
         waiting'[r] = FALSE, got'[r] = got[r], stage'[r] = "cut"
  PROVE  Sound(r)'
<1>1. Staged(r)'
  BY DEF Staged
<1>2. /\ Measured(0, << last >>)
      /\ Len(<< last >>) = 1 /\ << last >>[1] = last
  BY TerminalMeasures
<1>3. Bounded(r)'
  BY <1>2, BusAssumption DEF Bounded
<1>4. got[r] \in Seq(Event)
  BY DEF Sound, Fed, Following
<1>5. Cut(r)'
  BY <1>2, <1>4 DEF Cut
<1>6. QED
  BY <1>1, <1>3, <1>5 DEF Sound, Fed

LEMMA LastOfAppend ==
  ASSUME NEW s \in Seq(Item), NEW e \in Item
  PROVE  /\ Len(Append(s, e)) = Len(s) + 1 /\ Len(s) \in Nat
         /\ Append(s, e)[Len(s) + 1] = e
         /\ Append(s, e) # << >>
         /\ SubSeq(Append(s, e), 1, Len(s)) = s
<1>1. /\ Len(Append(s, e)) = Len(s) + 1 /\ Len(s) \in Nat
      /\ Append(s, e)[Len(s) + 1] = e
      /\ Append(s, e) \in Seq(Item)
      /\ \A i \in 1 .. Len(s) : Append(s, e)[i] = s[i]
  OBVIOUS
<1>2. Append(s, e) # << >>
  BY <1>1
<1>3. SubSeq(Append(s, e), 1, Len(s)) = s
  BY <1>1
<1>4. QED
  BY <1>1, <1>2, <1>3

\* A reader is handed its terminal event.
LEMMA ToldIsSound ==
  ASSUME NEW r \in Readers, got[r] \in Seq(Item), got[r] \in Seq(Event),
         NEW last \in Terminal,
         place'[r] = 0, queue'[r] = << >>, bytes'[r] = 0, ended'[r] = TRUE,
         waiting'[r] = FALSE, got'[r] = Append(got[r], last), stage'[r] = "told"
  PROVE  Sound(r)' /\ EventsGot(r)' = got[r]
<1>1. Staged(r)'
  BY DEF Staged
<1>2. Measured(0, << >>) /\ Len(<< >>) = 0
  BY NothingMeasures
<1>3. Bounded(r)'
  BY <1>2, BusAssumption DEF Bounded
<1>4. last \in Item
  BY ItemsAre
<1> DEFINE g == Append(got[r], last)
<1>5. /\ Len(g) = Len(got[r]) + 1 /\ Len(got[r]) \in Nat
      /\ g[Len(got[r]) + 1] = last /\ g # << >>
      /\ SubSeq(g, 1, Len(got[r])) = got[r]
  BY <1>4, LastOfAppend
<1> HIDE DEF g
<1>6. Len(g) - 1 = Len(got[r])
  BY <1>5
<1>7. got'[r] = g
  BY DEF g
<1>8. EventsGot(r)' = got[r]
  BY <1>5, <1>6, <1>7 DEF EventsGot
<1>9. Told(r)'
  BY <1>5, <1>7, <1>8 DEF Told
<1>10. QED
  BY <1>1, <1>3, <1>8, <1>9 DEF Sound, Fed

\* A waiting reader is handed what was just published.
LEMMA ServedIsSound ==
  ASSUME NEW r \in Readers, Shape, Sound(r), stage[r] = "open", queue[r] = << >>,
         NEW event \in Event, ~closed',
         log' = Append(log, event), place'[r] = place[r], queue'[r] = queue[r],
         bytes'[r] = bytes[r], ended'[r] = ended[r], waiting'[r] = FALSE,
         got'[r] = Append(got[r], event), stage'[r] = stage[r],
         joined'[r] = joined[r]
  PROVE  Sound(r)'
<1>1. Staged(r)'
  BY DEF Staged, Sound
<1>2. Bounded(r)'
  BY DEF Bounded, Sound
<1>3. Following(r)
  BY DEF Sound, Fed
<1>4. /\ Len(got'[r]) = Len(got[r]) + 1 /\ Len(got[r]) \in Nat
      /\ Len(log') = Len(log) + 1 /\ Len(log) \in Nat
      /\ Len(queue[r]) = 0 /\ joined[r] \in Nat
      /\ got'[r] \in Seq(Event)
  BY <1>3 DEF Following, Shape
<1>5. Following(r)'
  BY <1>3, <1>4 DEF Following
<1>6. QED
  BY <1>1, <1>2, <1>5 DEF Sound, Fed

\* What was just published is queued.
LEMMA QueuedIsSound ==
  ASSUME NEW r \in Readers, Shape, Sound(r), stage[r] = "open", ~waiting[r],
         NEW event \in Event, ~closed',
         bytes[r] + event.size <= MaxQueueBytes, Len(queue[r]) < MaxQueueEvents,
         log' = Append(log, event), place'[r] = place[r],
         queue'[r] = Append(queue[r], event),
         bytes'[r] = bytes[r] + event.size, ended'[r] = ended[r], waiting'[r] = FALSE,
         got'[r] = got[r], stage'[r] = stage[r], joined'[r] = joined[r]
  PROVE  Sound(r)'
<1>1. Staged(r)'
  BY DEF Staged, Sound
<1>2. Following(r) /\ queue[r] \in Seq(Item) /\ event \in Item
  BY ItemsAre DEF Sound, Fed, Shape
<1>3. /\ Len(queue'[r]) = Len(queue[r]) + 1 /\ Len(queue[r]) \in Nat
      /\ queue'[r] \in Seq(Event)
      /\ \A i \in 1 .. Len(queue[r]) : queue'[r][i] = queue[r][i]
      /\ queue'[r][Len(queue[r]) + 1] = event
  BY <1>2 DEF Following
<1>4. /\ Len(log') = Len(log) + 1 /\ Len(log) \in Nat
      /\ \A i \in 1 .. Len(log) : log'[i] = log[i]
      /\ log'[Len(log) + 1] = event
      /\ Len(got[r]) \in Nat /\ joined[r] \in Nat
  BY DEF Shape
<1>5. Bounded(r)'
  BY <1>2, <1>3, AppendMeasures, BusAssumption DEF Bounded, Sound
<1> DEFINE at == joined[r] + Len(got[r])
           n == Len(queue[r])
<1>6. at + n = Len(log) /\ at \in Nat /\ n \in Nat
  BY <1>2, <1>3, <1>4 DEF Following
<1>7. ASSUME NEW i \in 1 .. n + 1
      PROVE  queue'[r][i] = log'[at + i]
  <2>1. CASE i = n + 1
    <3>1. at + i = Len(log) + 1
      <4> HIDE DEF at, n
      <4>1. QED
        BY <1>4, <1>6, <2>1
    <3>2. QED
      BY <1>3, <1>4, <2>1, <3>1
  <2>2. CASE i # n + 1
    <3>1. i \in 1 .. n
      BY <1>6, <2>2
    <3>2. at + i \in 1 .. Len(log)
      <4> HIDE DEF at, n
      <4>1. QED
        BY <1>4, <1>6, <3>1
    <3>3. queue'[r][i] = queue[r][i] /\ log'[at + i] = log[at + i]
      BY <1>3, <1>4, <3>1, <3>2
    <3>4. queue[r][i] = log[at + i]
      BY <1>2, <3>1 DEF Following
    <3>5. QED
      BY <3>3, <3>4
  <2>3. QED
    BY <2>1, <2>2
<1>8. at + (n + 1) = Len(log')
  BY <1>4, <1>6
<1>9. Following(r)'
  BY <1>2, <1>3, <1>7, <1>8 DEF Following
<1>10. QED
  BY <1>1, <1>5, <1>9 DEF Sound, Fed

\* Taking the first item of a queue.
LEMMA HeadAndTail ==
  ASSUME NEW s \in Seq(Item), s # << >>
  PROVE  /\ Head(s) = s[1] /\ Head(s) \in Item
         /\ Tail(s) \in Seq(Item)
         /\ Len(s) \in Nat \ {0} /\ Len(Tail(s)) = Len(s) - 1
         /\ \A i \in 1 .. Len(s) - 1 : Tail(s)[i] = s[i + 1]
  OBVIOUS

LEMMA TakesEventIsSound ==
  ASSUME NEW r \in Readers, Shape, Sound(r), stage[r] = "open", queue[r] # << >>,
         closed' = closed, log' = log, place'[r] = place[r],
         queue'[r] = Tail(queue[r]), bytes'[r] = bytes[r] - Head(queue[r]).size,
         ended'[r] = ended[r], waiting'[r] = waiting[r], joined'[r] = joined[r],
         got'[r] = Append(got[r], Head(queue[r])), stage'[r] = stage[r]
  PROVE  /\ Sound(r)'
         /\ Head(queue[r]) \in Event
         /\ Head(queue[r]) = log[joined[r] + Len(got[r]) + 1]
         /\ joined[r] + Len(got[r]) < Len(log)
<1>1. Staged(r)'
  BY DEF Staged, Sound
<1>2. Following(r) /\ queue[r] \in Seq(Item)
  BY DEF Sound, Fed, Shape
<1> DEFINE e == Head(queue[r])
           rest == Tail(queue[r])
           n == Len(queue[r])
           at == joined[r] + Len(got[r])
<1>3. /\ e = queue[r][1] /\ rest \in Seq(Item)
      /\ n \in Nat \ {0} /\ Len(rest) = n - 1
      /\ \A i \in 1 .. n - 1 : rest[i] = queue[r][i + 1]
  BY <1>2, HeadAndTail
<1>4. e \in Event /\ rest \in Seq(Event)
  BY <1>2 DEF Following
<1>5. Measured(bytes[r] - e.size, rest)
  BY <1>2, TailMeasures DEF Sound, Bounded
<1>6. Len(got[r]) \in Nat /\ joined[r] \in Nat /\ got[r] \in Seq(Event)
      /\ Len(log) \in Nat
  BY <1>2 DEF Shape, Following
<1>7. at \in Nat /\ at + n = Len(log)
  BY <1>2, <1>6 DEF Following
<1>8. \A i \in 1 .. n : queue[r][i] = log[at + i]
  BY <1>2 DEF Following
<1>9. /\ got'[r] \in Seq(Event) /\ Len(got'[r]) = Len(got[r]) + 1
  BY <1>4, <1>6
<1>10. joined'[r] + Len(got'[r]) = at + 1
  <2> DEFINE j == joined[r]
             g == Len(got[r])
             h == Len(got'[r])
  <2>1. j \in Nat /\ g \in Nat /\ at = j + g /\ joined'[r] = j /\ h = g + 1
    BY <1>6, <1>9
  <2> HIDE DEF j, g, h, at
  <2>2. j + h = at + 1
    BY <2>1
  <2>3. QED
    BY <2>1, <2>2 DEF h
<1>11. Len(queue'[r]) = n - 1
  BY <1>3
<1>12. Bounded(r)'
  BY <1>3, <1>5, <1>11, BusAssumption DEF Sound, Bounded
<1>13. queue'[r] = rest /\ joined'[r] + Len(got'[r]) + Len(queue'[r]) = at + 1 + (n - 1)
  BY <1>10, <1>11
<1> HIDE DEF e, rest, n, at
<1>14. at + 1 + (n - 1) = Len(log)
  <2>1. at + 1 + (n - 1) = at + n
    BY <1>3, <1>7
  <2>2. QED
    BY <1>7, <2>1
<1>15. ASSUME NEW i \in 1 .. n - 1 PROVE rest[i] = log[at + 1 + i]
  <2>1. i + 1 \in 1 .. n /\ at + (i + 1) = at + 1 + i
    BY <1>3, <1>7
  <2>2. QED
    BY <1>3, <1>8, <2>1
<1>16. Following(r)'
  BY <1>4, <1>9, <1>10, <1>11, <1>13, <1>14, <1>15 DEF Following
<1>17. Sound(r)'
  BY <1>1, <1>12, <1>16 DEF Sound, Fed
<1>18. e = log[at + 1] /\ at < Len(log)
  BY <1>3, <1>7, <1>8
<1>19. QED
  BY <1>4, <1>17, <1>18 DEF e, at

LEMMA TakesTerminalIsSound ==
  ASSUME NEW r \in Readers, Shape, Sound(r), stage[r] = "cut",
         place'[r] = place[r], queue'[r] = Tail(queue[r]),
         bytes'[r] = bytes[r] - Head(queue[r]).size, ended'[r] = ended[r],
         waiting'[r] = waiting[r], got'[r] = Append(got[r], Head(queue[r])),
         Head(queue[r]).kind = "terminal" => stage'[r] = "told"
  PROVE  /\ Sound(r)'
         /\ stage'[r] = "told" /\ Head(queue[r]) \in Terminal
         /\ EventsGot(r)' = got[r]
<1> DEFINE q == queue[r]
<1>1. Cut(r) /\ q \in Seq(Item) /\ got[r] \in Seq(Item) /\ got[r] \in Seq(Event)
  BY DEF Sound, Fed, Shape, Cut
<1>2. Len(q) = 1 /\ q[1] \in Terminal /\ q # << >>
  BY <1>1 DEF Cut
<1>3. Head(q) = q[1] /\ Tail(q) \in Seq(Item) /\ Len(Tail(q)) = 0
  BY <1>1, <1>2, HeadAndTail
<1>4. Tail(q) = << >> /\ Head(q) \in Terminal /\ Head(q).kind = "terminal" /\ Head(q).size = 0
  <2>1. Tail(q) = << >>
    <3> DEFINE t == Tail(q)
    <3>1. t \in Seq(Item) /\ Len(t) = 0
      BY <1>3
    <3> HIDE DEF t
    <3>2. t = << >>
      BY <3>1
    <3>3. QED
      BY <3>2 DEF t
  <2>2. Head(q) \in Terminal
    BY <1>2, <1>3
  <2>3. \A t \in Terminal : t.kind = "terminal" /\ t.size = 0
    BY DEF Terminal
  <2>4. QED
    BY <2>1, <2>2, <2>3
<1>5. Measured(bytes[r] - 0, << >>)
  BY <1>1, <1>2, <1>4, TailMeasures DEF Sound, Bounded
<1>6. bytes[r] - 0 = 0
  <2>1. Len(<< >>) = 0
    OBVIOUS
  <2>2. QED
    BY <1>5, <2>1 DEF Measured
<1>7. /\ place[r] = 0 /\ ended[r] = TRUE /\ waiting[r] = FALSE
  BY DEF Sound, Staged, Shape
<1>8. QED
  BY <1>1, <1>4, <1>6, <1>7, ToldIsSound

LEMMA LeavingIsSound ==
  ASSUME NEW r \in Readers, Shape, Sound(r), stage[r] \in {"open", "cut"},
         place'[r] = 0, queue'[r] = << >>, bytes'[r] = 0, ended'[r] = TRUE,
         waiting'[r] = FALSE, got'[r] = got[r], stage'[r] = "left"
  PROVE  Sound(r)'
<1>1. Staged(r)'
  BY DEF Staged
<1>2. Measured(0, << >>) /\ Len(<< >>) = 0
  BY NothingMeasures
<1>3. Bounded(r)'
  BY <1>2, BusAssumption DEF Bounded
<1>4. got[r] \in Seq(Event)
  BY DEF Sound, Fed, Following, Cut
<1>5. QED
  BY <1>1, <1>3, <1>4 DEF Sound, Fed

LEMMA JoiningIsSound ==
  ASSUME NEW r \in Readers, Shape, Sound(r), stage[r] = "unused", ~closed',
         log' = log, place'[r] # 0, queue'[r] = queue[r], bytes'[r] = bytes[r],
         ended'[r] = ended[r], waiting'[r] = waiting[r], got'[r] = got[r],
         joined'[r] = Len(log), stage'[r] = "open"
  PROVE  Sound(r)'
<1>1. Staged(r)'
  BY DEF Sound, Staged
<1>2. Bounded(r)'
  BY DEF Sound, Bounded
<1>3. got[r] = << >> /\ queue[r] = << >>
  BY DEF Sound, Fed
<1>4. Len(<< >>) = 0 /\ Len(log) \in Nat /\ << >> \in Seq(Event)
  BY DEF Shape
<1>5. Following(r)'
  BY <1>3, <1>4 DEF Following
<1>6. QED
  BY <1>1, <1>2, <1>5 DEF Sound, Fed

-----------------------------------------------------------------------------
(***************************************************************************)
(* What a reader was handed and has queued, as one sequence.               *)
(***************************************************************************)

Kept(new, old) ==
  /\ Len(new) <= Len(old)
  /\ \A i \in 1 .. Len(new) : new[i] = old[i]

Gained(new, old, e) ==
  /\ Len(new) \in 1 .. Len(old) + 1
  /\ new[Len(new)] = e
  /\ \A i \in 1 .. Len(new) - 1 : new[i] = old[i]

LEMMA JoinedItems ==
  ASSUME NEW g \in Seq(Item), NEW q \in Seq(Item)
  PROVE  /\ g \o q \in Seq(Item)
         /\ Len(g) \in Nat /\ Len(q) \in Nat
         /\ Len(g \o q) = Len(g) + Len(q)
         /\ \A i \in 1 .. Len(g) : (g \o q)[i] = g[i]
         /\ \A i \in 1 .. Len(q) : (g \o q)[Len(g) + i] = q[i]
         /\ \A i \in 1 .. Len(g) + Len(q) :
              i \notin 1 .. Len(g) => i - Len(g) \in 1 .. Len(q) /\ Len(g) + (i - Len(g)) = i
<1>1. Len(g) \in Nat /\ Len(q) \in Nat
  OBVIOUS
<1>2. \A i \in 1 .. Len(g) + Len(q) :
         i \notin 1 .. Len(g) => i - Len(g) \in 1 .. Len(q) /\ Len(g) + (i - Len(g)) = i
  <2> DEFINE m == Len(g)
             n == Len(q)
  <2> HIDE DEF m, n
  <2>1. m \in Nat /\ n \in Nat
    BY <1>1 DEF m, n
  <2>2. \A i \in 1 .. m + n : i \notin 1 .. m => i - m \in 1 .. n /\ m + (i - m) = i
    BY <2>1
  <2>3. QED
    BY <2>2 DEF m, n
<1>3. g \o q \in Seq(Item) /\ Len(g \o q) = Len(g) + Len(q)
  OBVIOUS
<1>4. \A i \in 1 .. Len(g) : (g \o q)[i] = g[i]
  BY <1>1
<1>5. \A i \in 1 .. Len(q) : (g \o q)[Len(g) + i] = q[i]
  BY <1>1
<1>6. QED
  BY <1>1, <1>2, <1>3, <1>4, <1>5

LEMMA NothingQueued ==
  ASSUME NEW g \in Seq(Item)
  PROVE  g \o << >> = g
<1>1. << >> \in Seq(Item) /\ Len(<< >>) = 0
  OBVIOUS
<1>2. /\ g \o << >> \in Seq(Item) /\ Len(g \o << >>) = Len(g)
      /\ Len(g) \in Nat
      /\ \A i \in 1 .. Len(g) : (g \o << >>)[i] = g[i]
  BY <1>1, JoinedItems
<1> DEFINE h == g \o << >>
<1> HIDE DEF h
<1>3. h = g
  BY <1>2 DEF h
<1>4. QED
  BY <1>3 DEF h

LEMMA KeptOfItself ==
  ASSUME NEW s \in Seq(Item)
  PROVE  Kept(s, s)
<1>1. Len(s) \in Nat
  OBVIOUS
<1>2. QED
  BY <1>1 DEF Kept

LEMMA GainedByQueue ==
  ASSUME NEW g \in Seq(Item), NEW q \in Seq(Item), NEW e \in Item
  PROVE  Gained(g \o Append(q, e), g \o q, e)
<1> DEFINE p == Append(q, e)
           new == g \o p
           old == g \o q
<1>1. /\ p \in Seq(Item) /\ Len(p) = Len(q) + 1 /\ p[Len(q) + 1] = e
      /\ \A i \in 1 .. Len(q) : p[i] = q[i]
  OBVIOUS
<1> HIDE DEF p
<1>2. /\ Len(g) \in Nat /\ Len(q) \in Nat
      /\ Len(new) = Len(g) + Len(p)
      /\ \A i \in 1 .. Len(g) : new[i] = g[i]
      /\ \A i \in 1 .. Len(p) : new[Len(g) + i] = p[i]
  BY <1>1, JoinedItems
<1>3. /\ Len(old) = Len(g) + Len(q)
      /\ \A i \in 1 .. Len(g) : old[i] = g[i]
      /\ \A i \in 1 .. Len(q) : old[Len(g) + i] = q[i]
      /\ \A i \in 1 .. Len(g) + Len(q) :
           i \notin 1 .. Len(g) => i - Len(g) \in 1 .. Len(q) /\ Len(g) + (i - Len(g)) = i
  BY JoinedItems
<1> DEFINE m == Len(g)
           n == Len(q)
<1> HIDE DEF new, old, m, n
<1>4. Len(new) = m + (n + 1) /\ m \in Nat /\ n \in Nat /\ Len(old) = m + n
  BY <1>1, <1>2, <1>3 DEF m, n
<1>5. Len(new) \in 1 .. Len(old) + 1 /\ Len(new) - 1 = m + n
  BY <1>4
<1>6. new[Len(new)] = e
  <2>1. n + 1 \in 1 .. Len(p)
    BY <1>1, <1>4 DEF n
  <2>2. QED
    BY <1>1, <1>2, <1>4, <2>1 DEF m, n
<1>7. ASSUME NEW i \in 1 .. m + n PROVE new[i] = old[i]
  <2>1. CASE i \in 1 .. m
    BY <1>2, <1>3, <2>1 DEF m
  <2>2. CASE i \notin 1 .. m
    <3>1. i - m \in 1 .. n /\ m + (i - m) = i
      BY <1>3, <2>2 DEF m, n
    <3>2. i - m \in 1 .. Len(p)
      BY <1>1, <1>4, <3>1 DEF n
    <3>3. new[i] = p[i - m] /\ old[i] = q[i - m]
      BY <1>2, <1>3, <3>1, <3>2 DEF m, n
    <3>4. QED
      BY <1>1, <3>1, <3>3 DEF n
  <2>3. QED
    BY <2>1, <2>2
<1>8. Gained(new, old, e)
  BY <1>5, <1>6, <1>7 DEF Gained
<1>9. QED
  BY <1>8 DEF new, old, p

\* The item that ends a reader comes right after what it was handed.
LEMMA GainedAfter ==
  ASSUME NEW g \in Seq(Item), NEW q \in Seq(Item), NEW e \in Item
  PROVE  /\ Gained(Append(g, e), g \o q, e)
         /\ Append(g, e) \o << >> = Append(g, e)
         /\ g \o << e >> = Append(g, e)
<1> DEFINE new == Append(g, e)
           old == g \o q
<1>1. /\ new \in Seq(Item) /\ Len(new) = Len(g) + 1 /\ new[Len(g) + 1] = e
      /\ \A i \in 1 .. Len(g) : new[i] = g[i]
  OBVIOUS
<1>2. /\ Len(g) \in Nat /\ Len(q) \in Nat
      /\ Len(old) = Len(g) + Len(q)
      /\ \A i \in 1 .. Len(g) : old[i] = g[i]
  BY JoinedItems
<1>3. g \o << e >> = Append(g, e)
  OBVIOUS
<1>4. new \o << >> = new
  BY <1>1, NothingQueued
<1> HIDE DEF new, old
<1>5. Len(new) \in 1 .. Len(old) + 1 /\ Len(new) - 1 = Len(g)
  BY <1>1, <1>2
<1>6. Gained(new, old, e)
  BY <1>1, <1>2, <1>5 DEF Gained
<1>7. QED
  BY <1>3, <1>4, <1>6 DEF new, old

LEMMA KeptByTaking ==
  ASSUME NEW g \in Seq(Item), NEW q \in Seq(Item), q # << >>
  PROVE  Append(g, Head(q)) \o Tail(q) = g \o q
<1>1. Head(q) \in Item /\ Tail(q) \in Seq(Item) /\ q = << Head(q) >> \o Tail(q)
  OBVIOUS
<1>2. Append(g, Head(q)) = g \o << Head(q) >>
  BY <1>1
<1>3. QED
  BY <1>1, <1>2

LEMMA KeptByLeaving ==
  ASSUME NEW g \in Seq(Item), NEW q \in Seq(Item)
  PROVE  Kept(g \o << >>, g \o q)
<1>1. /\ Len(g) \in Nat /\ Len(q) \in Nat
      /\ Len(g \o q) = Len(g) + Len(q)
      /\ \A i \in 1 .. Len(g) : (g \o q)[i] = g[i]
  BY JoinedItems
<1>2. g \o << >> = g
  BY NothingQueued
<1>3. Kept(g, g \o q)
  BY <1>1 DEF Kept
<1>4. QED
  BY <1>2, <1>3

-----------------------------------------------------------------------------
(***************************************************************************)
(* A step that gives every reader of G at most one item with a new number, *)
(* and the same item to two of them when the number is the same, keeps one *)
(* event to a number.                                                      *)
(***************************************************************************)

NamesKept == Numbered /\ SequencesNameEvents

Gives(G, given) ==
  /\ \A r \in Readers \ G : Kept(Received(r)', Received(r))
  /\ \A r \in G :
       /\ Gained(Received(r)', Received(r), given[r])
       /\ given[r].sequence \in Nat
       /\ sequence < given[r].sequence /\ given[r].sequence <= sequence'
  /\ \A r, q \in G :
       given[r].sequence = given[q].sequence => given[r] = given[q]

LEMMA ReceivedItems ==
  ASSUME Shape, NEW r \in Readers
  PROVE  /\ Received(r) \in Seq(Item)
         /\ Len(Received(r)) \in Nat
         /\ \A i \in 1 .. Len(Received(r)) : Received(r)[i].sequence \in Nat
<1>1. Received(r) \in Seq(Item)
  BY JoinedItems DEF Shape, Received
<1> DEFINE s == Received(r)
<1> HIDE DEF s
<1>2. s \in Seq(Item)
  BY <1>1 DEF s
<1>3. Len(s) \in Nat /\ \A i \in 1 .. Len(s) : s[i] \in Item
  BY <1>2
<1>4. \A i \in 1 .. Len(s) : s[i].sequence \in Nat
  BY <1>3, ItemFields
<1>5. QED
  BY <1>2, <1>3, <1>4 DEF s

ReceivedIsFinite == \A r \in Readers : Len(Received(r)) \in Nat

LEMMA ReceivedLengths == Shape => ReceivedIsFinite
  BY ReceivedItems DEF ReceivedIsFinite

LEMMA ReceivedNext ==
  ASSUME Shape', NEW r \in Readers
  PROVE  Len(Received(r)') \in Nat
<1>1. (Shape => ReceivedIsFinite)'
  BY ReceivedLengths, PTL
<1>2. QED
  BY <1>1 DEF ReceivedIsFinite

\* Every item is an old one, or the new one at the end.
Origin(G, given, r, i) ==
  LET new == Received(r)'
      old == Received(r) IN
  \/ i \in 1 .. Len(old) /\ new[i] = old[i]
  \/ r \in G /\ i = Len(new) /\ new[i] = given[r]

LEMMA ItemsHaveOrigins ==
  ASSUME Shape, Shape', NEW G \in SUBSET Readers, NEW given, Gives(G, given),
         NEW r \in Readers, NEW i \in 1 .. Len(Received(r)')
  PROVE  Origin(G, given, r, i)
<1> DEFINE new == Received(r)'
           old == Received(r)
           m == Len(old)
           n == Len(new)
<1>1. m \in Nat
  BY ReceivedItems
<1>2. n \in Nat
  BY ReceivedNext
<1>3. Kept(new, old) \/ (r \in G /\ Gained(new, old, given[r]))
  BY DEF Gives
<1> HIDE DEF m, n, new, old
<1>4. CASE Kept(new, old)
  <2>1. n <= m /\ \A j \in 1 .. n : new[j] = old[j]
    BY <1>4 DEF Kept, m, n
  <2>2. i \in 1 .. n
    BY DEF n, new
  <2>3. i \in 1 .. m /\ new[i] = old[i]
    BY <1>1, <1>2, <2>1, <2>2
  <2>4. QED
    BY <2>3 DEF Origin, m, new, old
<1>5. CASE r \in G /\ Gained(new, old, given[r])
  <2>1. /\ n \in 1 .. m + 1 /\ new[n] = given[r]
        /\ \A j \in 1 .. n - 1 : new[j] = old[j]
    BY <1>5 DEF Gained, m, n
  <2>2. i \in 1 .. n
    BY DEF n, new
  <2>3. i = n \/ (i \in 1 .. m /\ i \in 1 .. n - 1)
    BY <1>1, <1>2, <2>1, <2>2
  <2>4. (i = n /\ new[i] = given[r]) \/ (i \in 1 .. m /\ new[i] = old[i])
    BY <2>1, <2>3
  <2>5. QED
    BY <1>5, <2>4 DEF Origin, m, n, new, old
<1>6. QED
  BY <1>3, <1>4, <1>5

LEMMA NamesAreKept ==
  ASSUME Shape, Shape', NamesKept, sequence <= sequence',
         NEW G \in SUBSET Readers, NEW given, Gives(G, given)
  PROVE  NamesKept'
<1>1. sequence \in Nat /\ sequence' \in Nat
  BY DEF Shape
<1>2. ASSUME NEW r \in Readers, NEW i \in 1 .. Len(Received(r)),
             NEW q \in Readers, NEW j \in 1 .. Len(Received(q))
      PROVE  /\ Received(r)[i].sequence \in Nat /\ Received(r)[i].sequence <= sequence
             /\ Received(r)[i].sequence = Received(q)[j].sequence
                  => Received(r)[i] = Received(q)[j]
  BY <1>2, ReceivedItems DEF NamesKept, Numbered, SequencesNameEvents
<1>3. ASSUME NEW r \in G
      PROVE  /\ given[r].sequence \in Nat
             /\ sequence < given[r].sequence /\ given[r].sequence <= sequence'
  BY <1>3 DEF Gives
<1>4. Numbered'
  <2> SUFFICES ASSUME NEW r \in Readers, NEW i \in 1 .. Len(Received(r)')
               PROVE  Received(r)'[i].sequence <= sequence'
    BY DEF Numbered
  <2>1. Origin(G, given, r, i)
    BY ItemsHaveOrigins
  <2>2. QED
    BY <1>1, <1>2, <1>3, <2>1 DEF Origin
<1>5. ASSUME NEW r \in Readers, NEW i \in 1 .. Len(Received(r)'),
             NEW j \in 1 .. Len(Received(r)'), i < j
      PROVE  Received(r)'[i].sequence < Received(r)'[j].sequence
  <2> DEFINE new == Received(r)'
             old == Received(r)
  <2>1. Origin(G, given, r, i) /\ Origin(G, given, r, j)
    BY ItemsHaveOrigins
  <2>2. Len(new) \in Nat
    BY ReceivedNext
  <2>3. i # Len(new)
    BY <1>5, <2>2
  <2>4. i \in 1 .. Len(old) /\ new[i] = old[i]
    BY <2>1, <2>3 DEF Origin
  <2>5. CASE j \in 1 .. Len(old) /\ new[j] = old[j]
    BY <1>5, <2>4, <2>5 DEF NamesKept, SequencesNameEvents
  <2>6. CASE r \in G /\ new[j] = given[r]
    <3>1. old[i].sequence \in Nat /\ old[i].sequence <= sequence
      BY <1>2, <2>4
    <3>2. old[i].sequence < given[r].sequence
      BY <1>1, <1>3, <2>6, <3>1
    <3>3. QED
      BY <2>4, <2>6, <3>2
  <2>7. QED
    BY <2>1, <2>5, <2>6 DEF Origin
<1>6. ASSUME NEW r \in Readers, NEW q \in Readers,
             NEW i \in 1 .. Len(Received(r)'), NEW j \in 1 .. Len(Received(q)'),
             Received(r)'[i].sequence = Received(q)'[j].sequence
      PROVE  Received(r)'[i] = Received(q)'[j]
  <2> DEFINE x == Received(r)'[i]
             y == Received(q)'[j]
  <2>1. \/ i \in 1 .. Len(Received(r)) /\ x = Received(r)[i]
        \/ r \in G /\ x = given[r]
    <3>1. Origin(G, given, r, i)
      BY ItemsHaveOrigins
    <3>2. QED
      BY <3>1 DEF Origin
  <2>2. \/ j \in 1 .. Len(Received(q)) /\ y = Received(q)[j]
        \/ q \in G /\ y = given[q]
    <3>1. Origin(G, given, q, j)
      BY ItemsHaveOrigins
    <3>2. QED
      BY <3>1 DEF Origin
  <2>3. x.sequence = y.sequence
    BY <1>6
  <2> SUFFICES x = y
    OBVIOUS
  <2> HIDE DEF x, y
  <2>4. CASE /\ i \in 1 .. Len(Received(r)) /\ x = Received(r)[i]
             /\ j \in 1 .. Len(Received(q)) /\ y = Received(q)[j]
    <3>1. Received(r)[i].sequence = Received(q)[j].sequence
      BY <2>3, <2>4
    <3>2. Received(r)[i] = Received(q)[j]
      BY <1>2, <2>4, <3>1
    <3>3. QED
      BY <2>4, <3>2
  <2>5. CASE r \in G /\ x = given[r] /\ q \in G /\ y = given[q]
    <3>1. given[r].sequence = given[q].sequence
      BY <2>3, <2>5
    <3>2. given[r] = given[q]
      BY <2>5, <3>1 DEF Gives
    <3>3. QED
      BY <2>5, <3>2
  <2>6. CASE /\ i \in 1 .. Len(Received(r)) /\ x = Received(r)[i]
             /\ q \in G /\ y = given[q]
    <3>1. x.sequence \in Nat /\ x.sequence <= sequence
      BY <1>2, <2>6
    <3>2. y.sequence \in Nat /\ sequence < y.sequence
      BY <1>3, <2>6
    <3>3. QED
      BY <1>1, <2>3, <3>1, <3>2
  <2>7. CASE /\ j \in 1 .. Len(Received(q)) /\ y = Received(q)[j]
             /\ r \in G /\ x = given[r]
    <3>1. y.sequence \in Nat /\ y.sequence <= sequence
      BY <1>2, <2>7
    <3>2. x.sequence \in Nat /\ sequence < x.sequence
      BY <1>3, <2>7
    <3>3. QED
      BY <1>1, <2>3, <3>1, <3>2
  <2>8. QED
    BY <2>1, <2>2, <2>4, <2>5, <2>6, <2>7
<1>7. SequencesNameEvents'
  BY <1>5, <1>6 DEF SequencesNameEvents
<1>8. QED
  BY <1>4, <1>7 DEF NamesKept

-----------------------------------------------------------------------------
(***************************************************************************)
(* Publishing.                                                             *)
(***************************************************************************)

Published(turn, size) ==
  [kind |-> "event", turn |-> turn, sequence |-> sequence + 1, size |-> size]

LastOf(turn, size, r) == [MakeTerminal(Numbering(Slow(size), r)) EXCEPT !.turn = turn]

PublishGives(turn, size) ==
  [r \in Readers |-> IF r \in Slow(size) THEN LastOf(turn, size, r)
                     ELSE Published(turn, size)]

LEMMA PublishedIsEvent ==
  ASSUME Shape, NEW turn \in Turns, NEW size \in Sizes
  PROVE  /\ Published(turn, size) \in Event
         /\ Published(turn, size).sequence = sequence + 1
         /\ Published(turn, size).size = size
  BY DEF Shape, Published, Event

LEMMA SlowIsSubscribed ==
  ASSUME NEW size
  PROVE  Slow(size) \subseteq Subscribed /\ Subscribed \subseteq Readers
  BY DEF Slow, Subscribed

LEMMA LastIsTerminal ==
  ASSUME BusInv, NEW turn \in Turns, NEW size \in Sizes, NEW r \in Slow(size)
  PROVE  /\ LastOf(turn, size, r) \in Terminal
         /\ LastOf(turn, size, r).sequence = Numbering(Slow(size), r)
         /\ Numbering(Slow(size), r) \in Nat
         /\ sequence + 1 < Numbering(Slow(size), r)
         /\ Numbering(Slow(size), r) <= sequence + 1 + Cardinality(Slow(size))
         /\ Cardinality(Slow(size)) \in Nat
<1> DEFINE n == Numbering(Slow(size), r)
<1>1. IsFiniteSet(Subscribed) /\ Slow(size) \in SUBSET Subscribed
  BY SubscribedIsFinite, SlowIsSubscribed DEF BusInv
<1>2. n \in Nat /\ sequence + 1 < n /\ n <= sequence + 1 + Cardinality(Slow(size))
      /\ Cardinality(Slow(size)) \in Nat
  BY <1>1, NumbersAreFresh DEF BusInv
<1> HIDE DEF n
<1>3. [MakeTerminal(n) EXCEPT !.turn = turn]
        = [kind |-> "terminal", turn |-> turn, sequence |-> n, size |-> 0]
  BY DEF MakeTerminal
<1>4. /\ [MakeTerminal(n) EXCEPT !.turn = turn] \in Terminal
      /\ [MakeTerminal(n) EXCEPT !.turn = turn].sequence = n
  BY <1>2, <1>3 DEF Terminal
<1>5. QED
  BY <1>2, <1>4 DEF LastOf, n

\* What the step writes into each field of a reader.
LEMMA PublishFields ==
  ASSUME NEW turn, NEW size, Publish(turn, size), NEW r \in Readers
  PROVE  LET event == Published(turn, size) IN
         /\ ~closed /\ closed' = closed /\ current' = current /\ joined' = joined
         /\ log' = Append(log, event)
         /\ lastTurn' = turn
         /\ sequence' = sequence + 1 + Cardinality(Slow(size))
         /\ place' = Without(Slow(size))
         /\ place'[r] = IF r \in Slow(size) THEN 0 ELSE place[r]
         /\ queue'[r] = IF r \in Slow(size) THEN << LastOf(turn, size, r) >>
                        ELSE IF r \in Subscribed /\ ~waiting[r] THEN Append(queue[r], event)
                        ELSE queue[r]
         /\ bytes'[r] = IF r \in Slow(size) THEN 0
                        ELSE IF r \in Subscribed /\ ~waiting[r] THEN bytes[r] + size
                        ELSE bytes[r]
         /\ ended'[r] = (ended[r] \/ r \in Slow(size))
         /\ waiting'[r] = (waiting[r] /\ r \notin Subscribed)
         /\ got'[r] = IF r \in Subscribed /\ waiting[r] THEN Append(got[r], event) ELSE got[r]
         /\ stage'[r] = IF r \in Slow(size) THEN "cut" ELSE stage[r]
<1>1. place'[r] = IF r \in Slow(size) THEN 0 ELSE place[r]
  BY DEF Publish, Without
<1>2. QED
  BY <1>1 DEF Publish, Published, LastOf, Ending

LEMMA PublishCuts ==
  ASSUME BusInv, NEW turn \in Turns, NEW size \in Sizes, Publish(turn, size),
         NEW r \in Slow(size)
  PROVE  /\ Sound(r)'
         /\ Gained(Received(r)', Received(r), LastOf(turn, size, r))
         /\ stage[r] = "open" /\ stage'[r] = "cut" /\ got'[r] = got[r]
<1>1. r \in Readers /\ r \in Subscribed /\ ~waiting[r]
  BY SlowIsSubscribed DEF Slow
<1>2. Sound(r) /\ stage[r] = "open"
  BY <1>1 DEF BusInv, ReadersSound, Sound, Staged, Subscribed
<1>3. LastOf(turn, size, r) \in Terminal
  BY LastIsTerminal
<1> DEFINE last == LastOf(turn, size, r)
<1>4. /\ place'[r] = 0 /\ queue'[r] = << last >> /\ bytes'[r] = 0 /\ ended'[r] = TRUE
      /\ waiting'[r] = FALSE /\ got'[r] = got[r] /\ stage'[r] = "cut"
  BY <1>1, PublishFields
<1>5. got[r] \in Seq(Item) /\ queue[r] \in Seq(Item) /\ last \in Item
  BY <1>1, <1>3, ItemsAre DEF BusInv, Shape
<1> HIDE DEF last
<1>6. Sound(r)'
  BY <1>1, <1>2, <1>3, <1>4, CutIsSound DEF last
<1>7. Received(r)' = Append(got[r], last)
  BY <1>4, <1>5, GainedAfter DEF Received
<1>8. Gained(Received(r)', Received(r), last)
  BY <1>5, <1>7, GainedAfter DEF Received
<1>9. QED
  BY <1>2, <1>4, <1>6, <1>8 DEF last

LEMMA PublishServes ==
  ASSUME BusInv, NEW turn \in Turns, NEW size \in Sizes, Publish(turn, size),
         NEW r \in Waiting
  PROVE  /\ Sound(r)'
         /\ Gained(Received(r)', Received(r), Published(turn, size))
         /\ stage[r] = "open" /\ stage'[r] = "open" /\ Following(r) /\ queue[r] = << >>
         /\ got'[r] = Append(got[r], Published(turn, size))
<1>1. r \in Readers /\ r \in Subscribed /\ waiting[r] /\ r \notin Slow(size)
  BY DEF Slow, Waiting, Subscribed
<1>2. Sound(r) /\ stage[r] = "open" /\ queue[r] = << >>
  BY <1>1 DEF BusInv, ReadersSound, Sound, Staged, Subscribed
<1> DEFINE event == Published(turn, size)
<1>3. event \in Event
  BY PublishedIsEvent DEF BusInv
<1>4. /\ place'[r] = place[r] /\ queue'[r] = queue[r] /\ bytes'[r] = bytes[r]
      /\ ended'[r] = ended[r] /\ waiting'[r] = FALSE
      /\ got'[r] = Append(got[r], event) /\ stage'[r] = stage[r]
      /\ joined'[r] = joined[r] /\ ~closed' /\ log' = Append(log, event)
  <2>1. ended[r] \in BOOLEAN
    BY <1>1 DEF BusInv, Shape
  <2>2. QED
    BY <1>1, <2>1, PublishFields
<1>5. got[r] \in Seq(Item) /\ queue[r] \in Seq(Item) /\ event \in Item
  BY <1>1, <1>3, ItemsAre DEF BusInv, Shape
<1> HIDE DEF event
<1>6. Sound(r)'
  BY <1>1, <1>2, <1>3, <1>4, ServedIsSound DEF BusInv
<1>7. Received(r)' = Append(got[r], event)
  BY <1>2, <1>4, <1>5, GainedAfter DEF Received
<1>8. Gained(Received(r)', Received(r), event)
  BY <1>5, <1>7, GainedAfter DEF Received
<1>9. Following(r)
  BY <1>2 DEF Sound, Fed
<1>10. QED
  BY <1>2, <1>4, <1>6, <1>8, <1>9 DEF event

LEMMA PublishQueues ==
  ASSUME BusInv, NEW turn \in Turns, NEW size \in Sizes, Publish(turn, size),
         NEW r \in Subscribed, r \notin Slow(size), ~waiting[r]
  PROVE  /\ Sound(r)'
         /\ Gained(Received(r)', Received(r), Published(turn, size))
         /\ stage[r] = "open" /\ stage'[r] = "open" /\ got'[r] = got[r]
<1>1. r \in Readers
  BY DEF Subscribed
<1>2. Sound(r) /\ stage[r] = "open"
  BY <1>1 DEF BusInv, ReadersSound, Sound, Staged, Subscribed
<1> DEFINE event == Published(turn, size)
<1>3. event \in Event /\ event.size = size
  BY PublishedIsEvent DEF BusInv
<1>4. /\ place'[r] = place[r] /\ queue'[r] = Append(queue[r], event)
      /\ bytes'[r] = bytes[r] + size
      /\ ended'[r] = ended[r] /\ waiting'[r] = FALSE
      /\ got'[r] = got[r] /\ stage'[r] = stage[r]
      /\ joined'[r] = joined[r] /\ ~closed' /\ log' = Append(log, event)
  <2>1. ended[r] \in BOOLEAN /\ waiting[r] \in BOOLEAN
    BY <1>1 DEF BusInv, Shape
  <2>2. QED
    BY <1>1, <2>1, PublishFields
<1>5. got[r] \in Seq(Item) /\ queue[r] \in Seq(Item) /\ event \in Item
  BY <1>1, <1>3, ItemsAre DEF BusInv, Shape
<1>6. bytes[r] + size <= MaxQueueBytes /\ Len(queue[r]) < MaxQueueEvents
  <2>1. bytes[r] \in Nat /\ size \in Nat /\ Len(queue[r]) \in Nat
    BY <1>1, <1>5, BusAssumption DEF BusInv, Shape
  <2>2. ~(bytes[r] + size > MaxQueueBytes) /\ ~(Len(queue[r]) >= MaxQueueEvents)
    BY DEF Slow
  <2>3. QED
    BY <2>1, <2>2, BusAssumption
<1> HIDE DEF event
<1>7. Sound(r)'
  BY <1>1, <1>2, <1>3, <1>4, <1>6, QueuedIsSound DEF BusInv
<1>8. Received(r)' = got[r] \o Append(queue[r], event)
  BY <1>4 DEF Received
<1>9. Gained(Received(r)', Received(r), event)
  BY <1>5, <1>8, GainedByQueue DEF Received
<1>10. QED
  BY <1>2, <1>4, <1>7, <1>9 DEF event

LEMMA PublishSkips ==
  ASSUME BusInv, NEW turn \in Turns, NEW size \in Sizes, Publish(turn, size),
         NEW r \in Readers \ Subscribed
  PROVE  /\ Sound(r)' /\ Same(r)
         /\ Kept(Received(r)', Received(r))
<1>1. Sound(r) /\ stage[r] # "open" /\ r \notin Slow(size)
  BY SlowIsSubscribed DEF BusInv, ReadersSound, Sound, Staged, Subscribed
<1>2. ended[r] \in BOOLEAN /\ waiting[r] \in BOOLEAN
  BY DEF BusInv, Shape
<1>3. Same(r)
  BY <1>1, <1>2, PublishFields DEF Same
<1>4. Sound(r)'
  BY <1>1, <1>3, SameIsSound
<1>5. Received(r)' = Received(r) /\ Received(r) \in Seq(Item)
  BY <1>3, ReceivedItems DEF Received, Same, BusInv
<1>6. QED
  BY <1>3, <1>4, <1>5, KeptOfItself

LEMMA PublishIsShaped ==
  ASSUME BusInv, NEW turn \in Turns, NEW size \in Sizes, Publish(turn, size)
  PROVE  Shape' /\ sequence <= sequence'
<1> DEFINE event == Published(turn, size)
<1>0. Shape
  BY DEF BusInv
<1>1. event \in Event /\ event \in Item /\ size \in Nat /\ log \in Seq(Event)
  BY <1>0, PublishedIsEvent, ItemsAre, BusAssumption DEF Shape
<1>2. Append(log, event) \in Seq(Event)
  BY <1>1
<1>3. Cardinality(Slow(size)) \in Nat /\ sequence \in Nat
  <2>1. Slow(size) \in SUBSET Subscribed
    BY SlowIsSubscribed
  <2>2. QED
    BY <1>0, <2>1, SubscribedIsFinite, FS_Subset, FS_CardinalityType DEF BusInv, Shape
<1>4. sequence' \in Nat /\ sequence <= sequence' /\ log' \in Seq(Event)
      /\ sequence' = sequence + 1 + Cardinality(Slow(size))
  <2>1. log' = Append(log, event) /\ sequence' = sequence + 1 + Cardinality(Slow(size))
    BY DEF Publish, Published
  <2>2. QED
    BY <1>2, <1>3, <2>1
<1>5. ASSUME NEW r \in Slow(size)
      PROVE  << LastOf(turn, size, r) >> \in Seq(Item)
  BY LastIsTerminal, ItemsAre
<1>6. ASSUME NEW r \in Readers
      PROVE  /\ Append(queue[r], event) \in Seq(Item)
             /\ Append(got[r], event) \in Seq(Item)
             /\ bytes[r] + size \in Nat
             /\ queue[r] \in Seq(Item) /\ got[r] \in Seq(Item) /\ bytes[r] \in Nat
             /\ place[r] \in Nat /\ ended[r] \in BOOLEAN /\ waiting[r] \in BOOLEAN
  BY <1>0, <1>1 DEF Shape
<1> DEFINE Stages == {"unused", "open", "cut", "told", "left"}
<1>7. ASSUME NEW r \in Readers
      PROVE  /\ place'[r] \in Nat /\ queue'[r] \in Seq(Item) /\ bytes'[r] \in Nat
             /\ ended'[r] \in BOOLEAN /\ waiting'[r] \in BOOLEAN
             /\ got'[r] \in Seq(Item) /\ stage'[r] \in Stages
  <2>1. stage[r] \in Stages
    BY <1>0 DEF Shape
  <2> HIDE DEF event
  <2>2. queue'[r] = IF r \in Slow(size) THEN << LastOf(turn, size, r) >>
                    ELSE IF r \in Subscribed /\ ~waiting[r] THEN Append(queue[r], event)
                    ELSE queue[r]
    BY PublishFields DEF event
  <2>3. queue'[r] \in Seq(Item)
    BY <1>5, <1>6, <2>2
  <2>4. got'[r] \in Seq(Item)
    <3>1. got'[r] = IF r \in Subscribed /\ waiting[r] THEN Append(got[r], event) ELSE got[r]
      BY PublishFields DEF event
    <3>2. QED
      BY <1>6, <3>1
  <2>5. bytes'[r] \in Nat /\ place'[r] \in Nat
    <3>1. /\ bytes'[r] = 0 \/ bytes'[r] = bytes[r] + size \/ bytes'[r] = bytes[r]
          /\ place'[r] = 0 \/ place'[r] = place[r]
      BY PublishFields
    <3>2. QED
      BY <1>6, <3>1
  <2>6. stage'[r] \in Stages
    BY <2>1, PublishFields
  <2>7. ended'[r] \in BOOLEAN /\ waiting'[r] \in BOOLEAN
    BY PublishFields
  <2>8. QED
    BY <2>3, <2>4, <2>5, <2>6, <2>7
<1>8. /\ place' = [r \in Readers |-> place'[r]]
      /\ queue' = [r \in Readers |-> queue'[r]]
      /\ bytes' = [r \in Readers |-> bytes'[r]]
      /\ ended' = [r \in Readers |-> ended'[r]]
      /\ waiting' = [r \in Readers |-> waiting'[r]]
      /\ got' = [r \in Readers |-> got'[r]]
      /\ stage' = [r \in Readers |-> stage'[r]]
  <2>1. place' = [r \in Readers |-> place'[r]]
    BY DEF Publish, Without
  <2>2. queue' = [r \in Readers |-> queue'[r]]
    BY Zenon DEF Publish
  <2>3. bytes' = [r \in Readers |-> bytes'[r]]
    BY DEF Publish
  <2>4. ended' = [r \in Readers |-> ended'[r]]
    BY DEF Publish
  <2>5. waiting' = [r \in Readers |-> waiting'[r]]
    BY DEF Publish
  <2>6. got' = [r \in Readers |-> got'[r]]
    BY Zenon DEF Publish
  <2>7. stage' = [r \in Readers |-> stage'[r]]
    BY DEF Publish
  <2>8. QED
    BY <2>1, <2>2, <2>3, <2>4, <2>5, <2>6, <2>7
<1>9. /\ place' \in [Readers -> Nat] /\ queue' \in [Readers -> Seq(Item)]
      /\ bytes' \in [Readers -> Nat] /\ ended' \in [Readers -> BOOLEAN]
      /\ waiting' \in [Readers -> BOOLEAN] /\ got' \in [Readers -> Seq(Item)]
      /\ stage' \in [Readers -> Stages]
  BY <1>7, <1>8
<1>10. closed' = closed /\ current' = current /\ joined' = joined /\ lastTurn' = turn
  BY DEF Publish
<1>11. QED
  BY <1>0, <1>4, <1>9, <1>10 DEF Shape

LEMMA PublishKeeps ==
  ASSUME BusInv, NEW turn \in Turns, NEW size \in Sizes, Publish(turn, size)
  PROVE  BusInv'
<1>1. Shape /\ Placed /\ ReadersSound /\ NamesKept
  BY DEF BusInv, NamesKept
<1>2. Shape' /\ sequence <= sequence'
  BY PublishIsShaped
<1>3. /\ IsFiniteSet(Subscribed)
      /\ Slow(size) \subseteq Subscribed /\ Subscribed \subseteq Readers
  BY <1>1, SubscribedIsFinite, SlowIsSubscribed
<1>4. Used' = Used
  <2>1. \A r \in Readers : stage'[r] = IF r \in Slow(size) THEN "cut" ELSE stage[r]
    BY PublishFields
  <2>2. \A r \in Slow(size) : stage[r] = "open"
    BY PublishCuts
  <2>3. QED
    BY <2>1, <2>2 DEF Used
<1>5. Placed'
  BY <1>1, <1>3, <1>4, WithoutIsPlaced DEF Publish
<1>6. ReadersSound'
  <2> SUFFICES ASSUME NEW r \in Readers PROVE Sound(r)'
    BY DEF ReadersSound, Sound
  <2>1. CASE r \in Slow(size)
    BY <2>1, PublishCuts
  <2>2. CASE r \in Waiting
    BY <2>2, PublishServes
  <2>3. CASE r \in Subscribed /\ r \notin Slow(size) /\ ~waiting[r]
    BY <2>3, PublishQueues
  <2>4. CASE r \notin Subscribed
    BY <2>4, PublishSkips
  <2>5. QED
    BY <2>1, <2>2, <2>3, <2>4 DEF Waiting
<1> DEFINE given == PublishGives(turn, size)
           event == Published(turn, size)
<1>7. \A r \in Readers : given[r] = IF r \in Slow(size) THEN LastOf(turn, size, r) ELSE event
  BY DEF PublishGives
<1>8. event.sequence = sequence + 1 /\ sequence \in Nat
  BY <1>1, PublishedIsEvent DEF Shape
<1>9. sequence' = sequence + 1 + Cardinality(Slow(size)) /\ Cardinality(Slow(size)) \in Nat
  BY <1>3, FS_Subset, FS_CardinalityType DEF Publish
<1> HIDE DEF given, event
<1>10. ASSUME NEW r \in Subscribed
       PROVE  Gained(Received(r)', Received(r), given[r])
  <2>1. CASE r \in Slow(size)
    BY <1>3, <1>7, <2>1, PublishCuts
  <2>2. CASE r \in Waiting /\ r \notin Slow(size)
    BY <1>3, <1>7, <2>2, PublishServes DEF event
  <2>3. CASE r \notin Slow(size) /\ ~waiting[r]
    BY <1>3, <1>7, <2>3, PublishQueues DEF event
  <2>4. QED
    BY <2>1, <2>2, <2>3 DEF Waiting
<1>11. ASSUME NEW r \in Subscribed
       PROVE  /\ given[r].sequence \in Nat
              /\ sequence < given[r].sequence /\ given[r].sequence <= sequence'
  <2>1. CASE r \in Slow(size)
    <3>1. /\ given[r].sequence = Numbering(Slow(size), r)
          /\ Numbering(Slow(size), r) \in Nat
          /\ sequence + 1 < Numbering(Slow(size), r)
          /\ Numbering(Slow(size), r) <= sequence + 1 + Cardinality(Slow(size))
      BY <1>3, <1>7, <2>1, LastIsTerminal
    <3>2. QED
      BY <1>8, <1>9, <3>1
  <2>2. CASE r \notin Slow(size)
    BY <1>3, <1>7, <1>8, <1>9, <2>2
  <2>3. QED
    BY <2>1, <2>2
<1>12. ASSUME NEW r \in Subscribed, NEW q \in Subscribed,
              given[r].sequence = given[q].sequence
       PROVE  given[r] = given[q]
  <2>1. \A p \in Slow(size) : given[p].sequence = Numbering(Slow(size), p)
                              /\ Numbering(Slow(size), p) \in Nat
                              /\ sequence + 1 < Numbering(Slow(size), p)
    BY <1>3, <1>7, LastIsTerminal
  <2>2. \A p \in Subscribed : p \notin Slow(size) => given[p] = event
    BY <1>3, <1>7
  <2>3. CASE r \in Slow(size) /\ q \in Slow(size)
    BY <1>1, <1>3, <1>12, <2>1, <2>3, NumbersAreDistinct
  <2>4. CASE r \notin Slow(size) /\ q \notin Slow(size)
    BY <2>2, <2>4
  <2>5. CASE r \in Slow(size) /\ q \notin Slow(size)
    BY <1>8, <1>12, <2>1, <2>2, <2>5
  <2>6. CASE r \notin Slow(size) /\ q \in Slow(size)
    BY <1>8, <1>12, <2>1, <2>2, <2>6
  <2>7. QED
    BY <2>3, <2>4, <2>5, <2>6
<1>13. ASSUME NEW r \in Readers \ Subscribed PROVE Kept(Received(r)', Received(r))
  BY PublishSkips
<1>14. Gives(Subscribed, given)
  BY <1>10, <1>11, <1>12, <1>13 DEF Gives
<1>15. NamesKept'
  BY <1>1, <1>2, <1>3, <1>14, NamesAreKept
<1>16. QED
  BY <1>2, <1>5, <1>6, <1>15 DEF BusInv, NamesKept

-----------------------------------------------------------------------------
(***************************************************************************)
(* Closing.                                                                *)
(***************************************************************************)

LEMMA ShutFields ==
  ASSUME NEW answered, Shut(answered), NEW r \in Readers
  PROVE  LET last == MakeTerminal(sequence + 1) IN
         /\ closed' = TRUE /\ sequence' = sequence + 1
         /\ lastTurn' = lastTurn /\ current' = current
         /\ log' = log /\ joined' = joined
         /\ place' = Without(Subscribed)
         /\ place'[r] = 0
         /\ queue'[r] = IF r \notin Subscribed THEN queue[r]
                        ELSE IF r \in answered THEN << >> ELSE << last >>
         /\ bytes'[r] = IF r \in Subscribed THEN 0 ELSE bytes[r]
         /\ ended'[r] = (ended[r] \/ r \in Subscribed)
         /\ waiting'[r] = (waiting[r] /\ r \notin Subscribed)
         /\ got'[r] = IF r \in answered THEN Append(got[r], last) ELSE got[r]
         /\ stage'[r] = IF r \notin Subscribed THEN stage[r]
                        ELSE IF r \in answered THEN "told" ELSE "cut"
<1>1. place'[r] = 0
  BY DEF Shut, Without, Subscribed
<1>2. QED
  BY <1>1 DEF Shut, Ending

LEMMA ShutCuts ==
  ASSUME BusInv, NEW answered \in SUBSET Subscribed, Shut(answered),
         NEW r \in Subscribed \ answered
  PROVE  /\ Sound(r)'
         /\ Gained(Received(r)', Received(r), MakeTerminal(sequence + 1))
         /\ stage[r] = "open" /\ stage'[r] = "cut" /\ got'[r] = got[r]
<1> DEFINE last == MakeTerminal(sequence + 1)
<1>1. r \in Readers
  BY DEF Subscribed
<1>2. Sound(r) /\ stage[r] = "open"
  BY <1>1 DEF BusInv, ReadersSound, Sound, Staged, Subscribed
<1>3. last \in Terminal
  <2>1. sequence + 1 \in Nat
    BY DEF BusInv, Shape
  <2>2. QED
    BY <2>1, TerminalIsMade DEF BusInv
<1>4. /\ place'[r] = 0 /\ queue'[r] = << last >> /\ bytes'[r] = 0 /\ ended'[r] = TRUE
      /\ waiting'[r] = FALSE /\ got'[r] = got[r] /\ stage'[r] = "cut"
  BY <1>1, ShutFields
<1>5. got[r] \in Seq(Item) /\ queue[r] \in Seq(Item) /\ last \in Item
  BY <1>1, <1>3, ItemsAre DEF BusInv, Shape
<1> HIDE DEF last
<1>6. Sound(r)'
  BY <1>1, <1>2, <1>3, <1>4, CutIsSound
<1>7. Received(r)' = Append(got[r], last)
  BY <1>4, <1>5, GainedAfter DEF Received
<1>8. Gained(Received(r)', Received(r), last)
  BY <1>5, <1>7, GainedAfter DEF Received
<1>9. QED
  BY <1>2, <1>4, <1>6, <1>8 DEF last

LEMMA ShutTells ==
  ASSUME BusInv, NEW answered \in SUBSET Subscribed, Shut(answered), NEW r \in answered
  PROVE  /\ Sound(r)'
         /\ Gained(Received(r)', Received(r), MakeTerminal(sequence + 1))
         /\ stage[r] = "open" /\ stage'[r] = "told"
         /\ EventsGot(r)' = got[r]
         /\ MakeTerminal(sequence + 1) \in Terminal
         /\ got'[r] = Append(got[r], MakeTerminal(sequence + 1))
<1> DEFINE last == MakeTerminal(sequence + 1)
<1>1. r \in Readers /\ r \in Subscribed
  BY DEF Subscribed
<1>2. Sound(r) /\ stage[r] = "open"
  BY <1>1 DEF BusInv, ReadersSound, Sound, Staged, Subscribed
<1>3. last \in Terminal
  <2>1. sequence + 1 \in Nat
    BY DEF BusInv, Shape
  <2>2. QED
    BY <2>1, TerminalIsMade DEF BusInv
<1>4. /\ place'[r] = 0 /\ queue'[r] = << >> /\ bytes'[r] = 0 /\ ended'[r] = TRUE
      /\ waiting'[r] = FALSE /\ got'[r] = Append(got[r], last) /\ stage'[r] = "told"
  BY <1>1, ShutFields
<1>5. got[r] \in Seq(Item) /\ queue[r] \in Seq(Item) /\ last \in Item
  BY <1>1, <1>3, ItemsAre DEF BusInv, Shape
<1>6. got[r] \in Seq(Event)
  BY <1>2 DEF Sound, Fed, Following
<1> HIDE DEF last
<1>7. Sound(r)' /\ EventsGot(r)' = got[r]
  BY <1>1, <1>3, <1>4, <1>5, <1>6, ToldIsSound
<1>8. Received(r)' = Append(got[r], last)
  BY <1>4, <1>5, GainedAfter DEF Received
<1>9. Gained(Received(r)', Received(r), last)
  BY <1>5, <1>8, GainedAfter DEF Received
<1>10. QED
  BY <1>2, <1>3, <1>4, <1>7, <1>9 DEF last

LEMMA ShutSkips ==
  ASSUME BusInv, NEW answered \in SUBSET Subscribed, Shut(answered),
         NEW r \in Readers \ Subscribed
  PROVE  /\ Sound(r)' /\ Same(r) /\ stage[r] # "open"
         /\ Kept(Received(r)', Received(r))
<1>1. Sound(r) /\ stage[r] # "open" /\ place[r] = 0 /\ r \notin answered
  BY DEF BusInv, ReadersSound, Sound, Staged, Subscribed
<1>2. ended[r] \in BOOLEAN /\ waiting[r] \in BOOLEAN
  BY DEF BusInv, Shape
<1>3. Same(r)
  BY <1>1, <1>2, ShutFields DEF Same
<1>4. Sound(r)'
  BY <1>1, <1>3, SameIsSound
<1>5. Received(r)' = Received(r) /\ Received(r) \in Seq(Item)
  BY <1>3, ReceivedItems DEF Received, Same, BusInv
<1>6. QED
  BY <1>1, <1>3, <1>4, <1>5, KeptOfItself

LEMMA ShutKeeps ==
  ASSUME BusInv, NEW answered \in SUBSET Subscribed, Shut(answered)
  PROVE  BusInv'
<1> DEFINE last == MakeTerminal(sequence + 1)
           given == [r \in Readers |-> last]
           Stages == {"unused", "open", "cut", "told", "left"}
<1>1. Shape /\ Placed /\ ReadersSound /\ NamesKept
  BY DEF BusInv, NamesKept
<1>2. sequence \in Nat /\ sequence' = sequence + 1
  BY <1>1 DEF Shape, Shut
<1>3. last \in Terminal /\ last.sequence = sequence + 1 /\ last \in Item
  BY <1>1, <1>2, TerminalIsMade, ItemsAre
<1>4. \A r \in Subscribed : r \in Readers
  BY DEF Subscribed
<1> HIDE DEF last
<1>5. ASSUME NEW r \in Readers
      PROVE  /\ place'[r] \in Nat /\ queue'[r] \in Seq(Item) /\ bytes'[r] \in Nat
             /\ ended'[r] \in BOOLEAN /\ waiting'[r] \in BOOLEAN
             /\ got'[r] \in Seq(Item) /\ stage'[r] \in Stages
  <2>1. /\ queue[r] \in Seq(Item) /\ bytes[r] \in Nat /\ got[r] \in Seq(Item)
        /\ stage[r] \in Stages
    BY <1>1 DEF Shape
  <2>2. << last >> \in Seq(Item) /\ << >> \in Seq(Item) /\ Append(got[r], last) \in Seq(Item)
    BY <1>3, <2>1
  <2>3. /\ queue'[r] = queue[r] \/ queue'[r] = << >> \/ queue'[r] = << last >>
        /\ got'[r] = got[r] \/ got'[r] = Append(got[r], last)
        /\ bytes'[r] = 0 \/ bytes'[r] = bytes[r]
        /\ place'[r] = 0
        /\ ended'[r] \in BOOLEAN /\ waiting'[r] \in BOOLEAN
        /\ stage'[r] = stage[r] \/ stage'[r] = "told" \/ stage'[r] = "cut"
    <3>1. queue'[r] = queue[r] \/ queue'[r] = << >> \/ queue'[r] = << last >>
      BY ShutFields DEF last
    <3>2. got'[r] = got[r] \/ got'[r] = Append(got[r], last)
      BY ShutFields DEF last
    <3>3. bytes'[r] = 0 \/ bytes'[r] = bytes[r]
      BY ShutFields
    <3>4. /\ place'[r] = 0
          /\ stage'[r] = stage[r] \/ stage'[r] = "told" \/ stage'[r] = "cut"
      BY ShutFields
    <3>5. ended'[r] \in BOOLEAN /\ waiting'[r] \in BOOLEAN
      BY ShutFields
    <3>6. QED
      BY <3>1, <3>2, <3>3, <3>4, <3>5
  <2>4. queue'[r] \in Seq(Item)
    BY <2>1, <2>2, <2>3
  <2>5. got'[r] \in Seq(Item)
    BY <2>1, <2>2, <2>3
  <2>6. bytes'[r] \in Nat /\ place'[r] \in Nat
    BY <2>1, <2>3
  <2>7. stage'[r] \in Stages
    BY <2>1, <2>3
  <2>8. QED
    BY <2>3, <2>4, <2>5, <2>6, <2>7
<1>6. /\ place' = [r \in Readers |-> place'[r]]
      /\ queue' = [r \in Readers |-> queue'[r]]
      /\ bytes' = [r \in Readers |-> bytes'[r]]
      /\ ended' = [r \in Readers |-> ended'[r]]
      /\ waiting' = [r \in Readers |-> waiting'[r]]
      /\ got' = [r \in Readers |-> got'[r]]
      /\ stage' = [r \in Readers |-> stage'[r]]
  BY DEF Shut, Without
<1>7. /\ place' \in [Readers -> Nat] /\ queue' \in [Readers -> Seq(Item)]
      /\ bytes' \in [Readers -> Nat] /\ ended' \in [Readers -> BOOLEAN]
      /\ waiting' \in [Readers -> BOOLEAN] /\ got' \in [Readers -> Seq(Item)]
      /\ stage' \in [Readers -> Stages]
  BY <1>5, <1>6
<1>8. /\ closed' = TRUE /\ lastTurn' = lastTurn /\ current' = current
      /\ log' = log /\ joined' = joined
  BY DEF Shut
<1>9. Shape' /\ sequence <= sequence'
  BY <1>1, <1>2, <1>7, <1>8 DEF Shape
<1>10. Used' = Used
  <2>1. \A r \in Readers : r \notin Subscribed => stage'[r] = stage[r]
    BY ShutFields
  <2>2. \A r \in Subscribed : stage[r] = "open" /\ stage'[r] \in {"told", "cut"}
    BY ShutCuts, ShutTells
  <2>3. QED
    BY <1>4, <2>1, <2>2 DEF Used
<1>11. Placed'
  BY <1>1, <1>10, SubscribedIsFinite, WithoutIsPlaced DEF Shut
<1>12. ReadersSound'
  <2> SUFFICES ASSUME NEW r \in Readers PROVE Sound(r)'
    BY DEF ReadersSound, Sound
  <2>1. QED
    BY ShutCuts, ShutTells, ShutSkips
<1>13. \A r \in Subscribed : given[r] = last
  BY <1>4
<1> HIDE DEF given
<1>14. ASSUME NEW r \in Subscribed PROVE Gained(Received(r)', Received(r), given[r])
  BY <1>13, ShutCuts, ShutTells DEF last
<1>15. ASSUME NEW r \in Readers \ Subscribed PROVE Kept(Received(r)', Received(r))
  BY ShutSkips
<1>16. ASSUME NEW r \in Subscribed
       PROVE  /\ given[r].sequence \in Nat
              /\ sequence < given[r].sequence /\ given[r].sequence <= sequence'
  BY <1>2, <1>3, <1>13
<1>17. Gives(Subscribed, given)
  BY <1>13, <1>14, <1>15, <1>16 DEF Gives
<1>18. NamesKept'
  BY <1>1, <1>4, <1>9, <1>17, NamesAreKept
<1>19. QED
  BY <1>9, <1>11, <1>12, <1>18 DEF BusInv, NamesKept

-----------------------------------------------------------------------------
(***************************************************************************)
(* The steps of one reader.                                                *)
(***************************************************************************)

LEMMA OnlyKept ==
  ASSUME Shape, Shape', NamesKept, sequence' = sequence,
         \A r \in Readers : Kept(Received(r)', Received(r))
  PROVE  NamesKept'
<1> DEFINE given == [r \in Readers |-> 0]
<1>1. Gives({}, given) /\ {} \in SUBSET Readers
  BY DEF Gives
<1>2. sequence <= sequence'
  BY DEF Shape
<1> HIDE DEF given
<1>3. QED
  BY <1>1, <1>2, NamesAreKept

LEMMA UnchangedIsKept ==
  ASSUME Shape, NEW r \in Readers, got'[r] = got[r], queue'[r] = queue[r]
  PROVE  Kept(Received(r)', Received(r))
<1>1. Received(r)' = Received(r)
  BY DEF Received
<1>2. QED
  BY <1>1, ReceivedItems, KeptOfItself

LEMMA PlacedUnchanged ==
  ASSUME Placed, place' = place, Used' = Used
  PROVE  Placed'
<1>1. Subscribed' = Subscribed
  BY DEF Subscribed
<1>2. QED
  BY <1>1 DEF Placed

\* What taking an item does, by what the item is.
LEMMA TakesOne ==
  ASSUME BusInv, NEW r \in Readers, NextTakes(r)
  PROVE  /\ Sound(r)' /\ Kept(Received(r)', Received(r))
         /\ Tail(queue[r]) \in Seq(Item) /\ Append(got[r], Head(queue[r])) \in Seq(Item)
         /\ bytes[r] - Head(queue[r]).size \in Nat
         /\ \/ /\ stage[r] = "open" /\ stage'[r] = "open" /\ Following(r)
               /\ Head(queue[r]) \in Event
               /\ Head(queue[r]) = log[joined[r] + Len(got[r]) + 1]
               /\ joined[r] + Len(got[r]) < Len(log)
            \/ /\ stage[r] = "cut" /\ stage'[r] = "told" /\ Cut(r)
               /\ Head(queue[r]) \in Terminal
               /\ EventsGot(r)' = got[r]
<1> DEFINE item == Head(queue[r])
<1>1. Shape /\ Sound(r) /\ stage[r] \in {"open", "cut"} /\ queue[r] # << >>
  BY DEF BusInv, ReadersSound, Sound, NextTakes
<1>2. /\ queue'[r] = Tail(queue[r]) /\ bytes'[r] = bytes[r] - item.size
      /\ got'[r] = Append(got[r], item)
      /\ item.kind = "terminal" => stage'[r] = "told"
      /\ item.kind # "terminal" => stage'[r] = stage[r]
      /\ place'[r] = place[r] /\ ended'[r] = ended[r] /\ waiting'[r] = waiting[r]
      /\ closed' = closed /\ log' = log /\ joined'[r] = joined[r]
  <2>1. queue' = [queue EXCEPT ![r] = Tail(@)] /\ queue \in [Readers -> Seq(Item)]
    BY <1>1 DEF NextTakes, Shape
  <2>2. bytes' = [bytes EXCEPT ![r] = @ - item.size] /\ bytes \in [Readers -> Nat]
    BY <1>1 DEF NextTakes, Shape
  <2>3. got' = [got EXCEPT ![r] = Append(@, item)] /\ got \in [Readers -> Seq(Item)]
    BY <1>1 DEF NextTakes, Shape
  <2>4. /\ stage' = [stage EXCEPT ![r] = IF item.kind = "terminal" THEN "told" ELSE @]
        /\ DOMAIN stage = Readers
    BY <1>1 DEF NextTakes, Shape
  <2> HIDE DEF item
  <2>5. /\ queue'[r] = Tail(queue[r]) /\ bytes'[r] = bytes[r] - item.size
        /\ got'[r] = Append(got[r], item)
    BY <2>1, <2>2, <2>3
  <2>6. /\ item.kind = "terminal" => stage'[r] = "told"
        /\ item.kind # "terminal" => stage'[r] = stage[r]
    BY <2>4
  <2>7. QED
    BY <2>5, <2>6 DEF NextTakes
<1>3. queue[r] \in Seq(Item) /\ got[r] \in Seq(Item) /\ bytes[r] \in Nat
  BY <1>1 DEF Shape
<1>4. Tail(queue[r]) \in Seq(Item) /\ item \in Item
  BY <1>1, <1>3, HeadAndTail
<1>5. Append(got[r], item) \in Seq(Item)
  BY <1>3, <1>4
<1>6. bytes[r] - item.size \in Nat
  <2>1. Measured(bytes[r] - item.size, Tail(queue[r]))
    BY <1>1, <1>3, TailMeasures DEF Sound, Bounded
  <2>2. QED
    BY <1>4, <2>1, MeasureIsNat
<1>7. Kept(Received(r)', Received(r))
  <2>1. Received(r)' = Received(r)
    BY <1>1, <1>2, <1>3, KeptByTaking DEF Received
  <2>2. QED
    BY <1>1, <2>1, ReceivedItems, KeptOfItself
<1>8. CASE stage[r] = "open"
  <2>1. Following(r)
    BY <1>1, <1>8 DEF Sound, Fed
  <2>2. item \in Event
    BY <1>1, <1>3, <2>1, HeadAndTail DEF Following
  <2>3. stage'[r] = stage[r]
    <3>1. item.kind = "event"
      BY <2>2 DEF Event
    <3>2. QED
      BY <1>2, <3>1
  <2>4. /\ Sound(r)' /\ item = log[joined[r] + Len(got[r]) + 1]
        /\ joined[r] + Len(got[r]) < Len(log)
    BY <1>1, <1>2, <1>8, <2>3, TakesEventIsSound
  <2>5. QED
    BY <1>4, <1>5, <1>6, <1>7, <1>8, <2>1, <2>2, <2>3, <2>4
<1>9. CASE stage[r] = "cut"
  <2>1. Sound(r)' /\ stage'[r] = "told" /\ item \in Terminal /\ EventsGot(r)' = got[r]
    BY <1>1, <1>2, <1>9, TakesTerminalIsSound
  <2>2. Cut(r)
    BY <1>1, <1>9 DEF Sound, Fed
  <2>3. QED
    BY <1>4, <1>5, <1>6, <1>7, <1>9, <2>1, <2>2
<1>10. QED
  BY <1>1, <1>8, <1>9

LEMMA TakeLeavesOthers ==
  ASSUME BusInv, NEW r \in Readers, NextTakes(r), NEW q \in Readers, q # r
  PROVE  Same(q)
  BY DEF BusInv, Shape, NextTakes, Same

LEMMA OthersStay ==
  ASSUME BusInv, NEW q \in Readers, Same(q), closed' = closed, log' = log
  PROVE  Sound(q)' /\ Kept(Received(q)', Received(q))
<1>1. Sound(q) /\ (closed => stage[q] # "open") /\ Shape
  BY DEF BusInv, ReadersSound, Sound, Staged
<1>2. QED
  BY <1>1, SameIsSound, UnchangedIsKept DEF Same

LEMMA TakeKeeps ==
  ASSUME BusInv, NEW r \in Readers, NextTakes(r)
  PROVE  BusInv'
<1> DEFINE Stages == {"unused", "open", "cut", "told", "left"}
           item == Head(queue[r])
<1>1. Shape /\ Placed /\ ReadersSound /\ NamesKept
  BY DEF BusInv, NamesKept
<1>2. /\ Tail(queue[r]) \in Seq(Item) /\ Append(got[r], item) \in Seq(Item)
      /\ bytes[r] - item.size \in Nat
  BY TakesOne
<1>3. Shape'
  <2>1. /\ queue' = [queue EXCEPT ![r] = Tail(queue[r])]
        /\ bytes' = [bytes EXCEPT ![r] = bytes[r] - item.size]
        /\ got' = [got EXCEPT ![r] = Append(got[r], item)]
        /\ stage' = [stage EXCEPT ![r] = IF item.kind = "terminal" THEN "told" ELSE stage[r]]
    BY DEF NextTakes
  <2> HIDE DEF item
  <2>2. queue' \in [Readers -> Seq(Item)]
    BY <1>1, <1>2, <2>1 DEF Shape
  <2>3. bytes' \in [Readers -> Nat]
    BY <1>1, <1>2, <2>1 DEF Shape
  <2>4. got' \in [Readers -> Seq(Item)]
    BY <1>1, <1>2, <2>1 DEF Shape
  <2>5. stage' \in [Readers -> Stages]
    BY <1>1, <2>1 DEF Shape
  <2>6. QED
    BY <1>1, <2>2, <2>3, <2>4, <2>5 DEF Shape, NextTakes
<1>4. Used' = Used
  <2>1. stage[r] # "unused" /\ stage'[r] # "unused"
    BY TakesOne
  <2>2. \A q \in Readers : q # r => stage'[q] = stage[q]
    BY TakeLeavesOthers DEF Same
  <2>3. QED
    BY <2>1, <2>2 DEF Used
<1>5. Placed'
  BY <1>1, <1>4, PlacedUnchanged DEF NextTakes
<1>6. \A q \in Readers : Sound(q)' /\ Kept(Received(q)', Received(q))
  <2> TAKE q \in Readers
  <2>1. CASE q = r
    BY <2>1, TakesOne
  <2>2. CASE q # r
    <3>1. closed' = closed /\ log' = log
      BY DEF NextTakes
    <3>2. QED
      BY <2>2, <3>1, TakeLeavesOthers, OthersStay
  <2>3. QED
    BY <2>1, <2>2
<1>7. NamesKept'
  BY <1>1, <1>3, <1>6, OnlyKept DEF NextTakes
<1>8. QED
  BY <1>3, <1>5, <1>6, <1>7 DEF BusInv, ReadersSound, Sound, NamesKept

LEMMA WaitKeeps ==
  ASSUME BusInv, NEW r \in Readers, NextWaits(r)
  PROVE  BusInv'
<1>1. Shape /\ Placed /\ ReadersSound /\ NamesKept
  BY DEF BusInv, NamesKept
<1>2. Shape'
  BY <1>1 DEF Shape, NextWaits, history
<1>3. Placed'
  <2>1. Used' = Used
    BY DEF NextWaits, history, Used
  <2>2. QED
    BY <1>1, <2>1, PlacedUnchanged DEF NextWaits
<1>4. \A q \in Readers : Sound(q)' /\ Kept(Received(q)', Received(q))
  <2> TAKE q \in Readers
  <2>1. CASE q = r
    <3>1. Sound(r)
      BY <1>1 DEF ReadersSound, Sound
    <3>2. Staged(r)'
      BY <1>1, <3>1 DEF Sound, Staged, Shape, NextWaits, history
    <3>3. Bounded(r)' /\ Fed(r)'
      BY <3>1 DEF Sound, Bounded, Fed, Following, Cut, Told, EventsGot, NextWaits, history
    <3>4. Kept(Received(r)', Received(r))
      BY <1>1, UnchangedIsKept DEF NextWaits, history
    <3>5. QED
      BY <2>1, <3>2, <3>3, <3>4 DEF Sound
  <2>2. CASE q # r
    <3>1. Same(q) /\ closed' = closed /\ log' = log
      BY <1>1, <2>2 DEF Same, NextWaits, history, Shape
    <3>2. QED
      BY <3>1, OthersStay
  <2>3. QED
    BY <2>1, <2>2
<1>5. NamesKept'
  BY <1>1, <1>2, <1>4, OnlyKept DEF NextWaits
<1>6. QED
  BY <1>2, <1>3, <1>4, <1>5 DEF BusInv, ReadersSound, Sound, NamesKept

LEMMA ReturnKeeps ==
  ASSUME BusInv, NEW r \in Readers, Return(r)
  PROVE  BusInv'
<1>1. Shape /\ Placed /\ ReadersSound /\ NamesKept
  BY DEF BusInv, NamesKept
<1>2. Shape'
  <2>1. place' \in [Readers -> Nat]
    BY <1>1 DEF Shape, Return, Without
  <2>2. queue' \in [Readers -> Seq(Item)]
    <3>1. << >> \in Seq(Item)
      OBVIOUS
    <3>2. QED
      BY <1>1, <3>1 DEF Shape, Return
  <2>3. QED
    BY <1>1, <2>1, <2>2 DEF Shape, Return
<1>3. Placed'
  <2>1. Used' = Used
    BY <1>1 DEF Return, Used, Shape
  <2>2. QED
    BY <1>1, <2>1, SubscribedIsFinite, WithoutIsPlaced DEF Return
<1>4. \A q \in Readers : Sound(q)' /\ Kept(Received(q)', Received(q))
  <2> TAKE q \in Readers
  <2>1. CASE q = r
    <3>1. Sound(r)
      BY <1>1 DEF ReadersSound, Sound
    <3>2. /\ place'[r] = 0 /\ queue'[r] = << >> /\ bytes'[r] = 0 /\ ended'[r] = TRUE
          /\ waiting'[r] = FALSE /\ got'[r] = got[r] /\ stage'[r] = "left"
      BY <1>1 DEF Return, Without, Shape
    <3>3. Sound(r)'
      BY <1>1, <3>1, <3>2, LeavingIsSound DEF Return
    <3>4. Kept(Received(r)', Received(r))
      BY <1>1, <3>2, KeptByLeaving DEF Received, Shape
    <3>5. QED
      BY <2>1, <3>3, <3>4
  <2>2. CASE q # r
    <3>1. Same(q) /\ closed' = closed /\ log' = log
      BY <1>1, <2>2 DEF Same, Return, Without, Shape
    <3>2. QED
      BY <3>1, OthersStay
  <2>3. QED
    BY <2>1, <2>2
<1>5. NamesKept'
  BY <1>1, <1>2, <1>4, OnlyKept DEF Return
<1>6. QED
  BY <1>2, <1>3, <1>4, <1>5 DEF BusInv, ReadersSound, Sound, NamesKept

LEMMA SubscribeKeeps ==
  ASSUME BusInv, NEW r \in Readers, Subscribe(r)
  PROVE  BusInv'
<1>1. Shape /\ Placed /\ ReadersSound /\ NamesKept
  BY DEF BusInv, NamesKept
<1>2. Cardinality(Used) + 1 \in Nat \ {0} /\ Len(log) \in Nat
  BY <1>1, FS_CardinalityType DEF Placed, Shape
<1>3. Shape'
  BY <1>1, <1>2 DEF Shape, Subscribe
<1>4. Placed'
  BY <1>1, SubscribeIsPlaced
<1>5. \A q \in Readers : Sound(q)' /\ Kept(Received(q)', Received(q))
  <2> TAKE q \in Readers
  <2>1. CASE q = r
    <3>1. Sound(r)
      BY <1>1 DEF ReadersSound, Sound
    <3>2. /\ place'[r] # 0 /\ joined'[r] = Len(log) /\ stage'[r] = "open"
          /\ queue'[r] = queue[r] /\ bytes'[r] = bytes[r] /\ ended'[r] = ended[r]
          /\ waiting'[r] = waiting[r] /\ got'[r] = got[r]
          /\ stage[r] = "unused" /\ ~closed' /\ log' = log
      BY <1>1, <1>2 DEF Subscribe, Shape
    <3>3. Sound(r)'
      BY <1>1, <3>1, <3>2, JoiningIsSound
    <3>4. QED
      BY <1>1, <2>1, <3>2, <3>3, UnchangedIsKept
  <2>2. CASE q # r
    <3>1. Same(q) /\ closed' = closed /\ log' = log
      BY <1>1, <2>2 DEF Same, Subscribe, Shape
    <3>2. QED
      BY <3>1, OthersStay
  <2>3. QED
    BY <2>1, <2>2
<1>6. NamesKept'
  BY <1>1, <1>3, <1>5, OnlyKept DEF Subscribe
<1>7. QED
  BY <1>3, <1>4, <1>5, <1>6 DEF BusInv, ReadersSound, Sound, NamesKept

LEMMA IdleKeeps ==
  ASSUME BusInv, UNCHANGED << sequence, closed, lastTurn, reader, history >>,
         current' \in BOOLEAN
  PROVE  BusInv'
<1>1. Shape /\ Placed /\ ReadersSound /\ NamesKept
  BY DEF BusInv, NamesKept
<1>2. Shape'
  BY <1>1 DEF Shape, reader, history
<1>3. Placed'
  BY <1>1 DEF Placed, Subscribed, Used, reader, history
<1>4. \A q \in Readers : Sound(q)' /\ Kept(Received(q)', Received(q))
  <2> TAKE q \in Readers
  <2>1. Same(q) /\ closed' = closed /\ log' = log
    BY DEF Same, reader, history
  <2>2. QED
    BY <2>1, OthersStay
<1>5. NamesKept'
  BY <1>1, <1>2, <1>4, OnlyKept
<1>6. QED
  BY <1>2, <1>3, <1>4, <1>5 DEF BusInv, ReadersSound, Sound, NamesKept

LEMMA InitBusInv ==
  ASSUME Init
  PROVE  BusInv
<1>1. Shape
  <2>1. << >> \in Seq(Item) /\ << >> \in Seq(Event)
    OBVIOUS
  <2>2. QED
    BY <2>1 DEF Init, Shape
<1>2. Placed
  <2>1. Used = {} /\ Subscribed = {}
    BY DEF Init, Used, Subscribed
  <2>2. QED
    BY <2>1, FS_EmptySet, BusAssumption DEF Placed, Init
<1>3. ReadersSound
  <2> SUFFICES ASSUME NEW r \in Readers PROVE Sound(r)
    BY DEF ReadersSound, Sound
  <2>1. Measured(0, << >>) /\ Len(<< >>) = 0
    BY NothingMeasures
  <2>2. Bounded(r)
    BY <2>1, BusAssumption DEF Init, Bounded
  <2>3. Staged(r) /\ Fed(r)
    BY DEF Init, Staged, Fed
  <2>4. QED
    BY <2>2, <2>3 DEF Sound
<1>4. Numbered /\ SequencesNameEvents
  <2>1. \A r \in Readers : Received(r) = << >> \o << >>
    BY DEF Init, Received
  <2>2. << >> \o << >> = << >>
    BY NothingQueued
  <2>3. \A r \in Readers : Len(Received(r)) = 0
    BY <2>1, <2>2
  <2>4. QED
    BY <2>3 DEF Numbered, SequencesNameEvents
<1>5. QED
  BY <1>1, <1>2, <1>3, <1>4 DEF BusInv

LEMMA CloseKeeps ==
  ASSUME BusInv, Close
  PROVE  BusInv'
<1>1. Waiting \in SUBSET Subscribed
  BY DEF Waiting
<1>2. QED
  BY <1>1, ShutKeeps DEF Close

LEMMA NextClosesShuts ==
  ASSUME BusInv, NEW r \in Readers, NextCloses(r)
  PROVE  Waiting \cup {r} \in SUBSET Subscribed /\ Shut(Waiting \cup {r})
  BY DEF NextCloses, BusInv, ReadersSound, Staged, Subscribed, Waiting

LEMMA StepBusInv ==
  ASSUME BusInv, [Next]_vars
  PROVE  BusInv'
<1>1. ASSUME NEW turn \in Turns, NEW size \in Sizes, Publish(turn, size)
      PROVE  BusInv'
  BY <1>1, PublishKeeps
<1>2. CASE Refuse
  BY <1>2, CloseKeeps DEF Refuse
<1>3. CASE Close
  BY <1>3, CloseKeeps
<1>4. ASSUME NEW r \in Readers, Subscribe(r)
      PROVE  BusInv'
  BY <1>4, SubscribeKeeps
<1>5. ASSUME NEW r \in Readers, NextCloses(r)
      PROVE  BusInv'
  BY <1>5, NextClosesShuts, ShutKeeps
<1>6. ASSUME NEW r \in Readers, NextTakes(r)
      PROVE  BusInv'
  BY <1>6, TakeKeeps
<1>7. ASSUME NEW r \in Readers, NextWaits(r)
      PROVE  BusInv'
  BY <1>7, WaitKeeps
<1>8. ASSUME NEW r \in Readers, Return(r)
      PROVE  BusInv'
  BY <1>8, ReturnKeeps
<1>9. CASE OwnerChanges
  <2>1. current' \in BOOLEAN
    BY <1>9 DEF OwnerChanges
  <2>2. QED
    BY <1>9, <2>1, IdleKeeps DEF OwnerChanges
<1>10. CASE UNCHANGED vars
  <2>1. current' \in BOOLEAN
    BY <1>10 DEF vars, BusInv, Shape
  <2>2. QED
    BY <1>10, <2>1, IdleKeeps DEF vars
<1>11. QED
  BY <1>1, <1>2, <1>3, <1>4, <1>5, <1>6, <1>7, <1>8, <1>9, <1>10 DEF Next, Bus, Reader

\* In every reachable state each reader's fields agree with its stage, its
\* queue continues what it was handed to the end of the log, and every number
\* names one event.
THEOREM BusInvariant == Spec => []BusInv
<1>1. Init => BusInv
  BY InitBusInv
<1>2. BusInv /\ [Next]_vars => BusInv'
  BY StepBusInv
<1>3. QED
  BY <1>1, <1>2, PTL DEF Spec

\* Every variable keeps its shape and every queue its two bounds, its byte
\* count always the sum of what is really queued.
THEOREM BusTypeCorrect == Spec => []TypeOK
<1>1. BusInv => TypeOK
  <2> SUFFICES ASSUME BusInv PROVE TypeOK
    OBVIOUS
  <2>1. Shape /\ Placed
    BY DEF BusInv
  <2>2. \A r \in Readers : Measures(bytes[r], queue[r]) /\ Len(queue[r]) <= MaxQueueEvents
    BY MeasuredMeasures DEF BusInv, ReadersSound, Bounded
  <2>3. QueuesAreBounded
    BY <2>1, <2>2 DEF QueuesAreBounded, Placed
  <2>4. QED
    BY <2>1, <2>3 DEF TypeOK, Shape, Item
<1>2. QED
  BY <1>1, BusInvariant, PTL

\* A number names one event: what any reader receives rises strictly, and no
\* two readers see different events under one number, whatever overflows, is
\* closed or is drained in between.
THEOREM NumbersNameEvents == Spec => []SequencesNameEvents
<1>1. BusInv => SequencesNameEvents
  BY DEF BusInv
<1>2. QED
  BY <1>1, BusInvariant, PTL

-----------------------------------------------------------------------------
(***************************************************************************)
(* Nothing stale.                                                          *)
(***************************************************************************)

LEMMA AppendedIsLast ==
  ASSUME NEW g \in Seq(Item), NEW e \in Terminal
  PROVE  Append(g, e)[Len(Append(g, e))].kind = "terminal"
<1>1. e \in Item /\ e.kind = "terminal"
  BY ItemsAre DEF Terminal
<1>2. Append(g, e)[Len(Append(g, e))] = e
  BY <1>1, LastOfAppend
<1>3. QED
  BY <1>1, <1>2

Fresh(r) ==
  got'[r] # got[r] => current \/ got'[r][Len(got'[r])].kind = "terminal"

LEMMA ShutIsFresh ==
  ASSUME BusInv, NEW answered \in SUBSET Subscribed, Shut(answered), NEW r \in Readers
  PROVE  Fresh(r)
<1>1. got[r] \in Seq(Item)
  BY DEF BusInv, Shape
<1>2. CASE r \in answered
  BY <1>1, <1>2, ShutTells, AppendedIsLast DEF Fresh
<1>3. CASE r \notin answered
  BY <1>3, ShutFields DEF Fresh
<1>4. QED
  BY <1>2, <1>3

LEMMA TakeIsFresh ==
  ASSUME BusInv, NEW q \in Readers, NextTakes(q), NEW r \in Readers
  PROVE  Fresh(r)
<1>1. CASE r # q
  BY <1>1, TakeLeavesOthers DEF Same, Fresh
<1>2. CASE r = q /\ stage[r] = "open"
  <2>1. ~ended[r]
    BY <1>2 DEF BusInv, ReadersSound, Staged
  <2>2. QED
    BY <1>2, <2>1 DEF NextTakes, NextRefuses, Fresh
<1>3. CASE r = q /\ stage[r] # "open"
  <2>1. Head(queue[r]) \in Terminal
    BY <1>3, TakesOne
  <2>2. got[r] \in Seq(Item)
    BY DEF BusInv, Shape
  <2>3. got'[r] = Append(got[r], Head(queue[r]))
    BY <1>3 DEF NextTakes, BusInv, Shape
  <2> DEFINE e == Head(queue[r])
  <2> HIDE DEF e
  <2>4. Append(got[r], e)[Len(Append(got[r], e))].kind = "terminal"
    BY <2>1, <2>2, AppendedIsLast DEF e
  <2>5. QED
    BY <2>3, <2>4 DEF Fresh, e
<1>4. QED
  BY <1>1, <1>2, <1>3

LEMMA StepIsFresh ==
  ASSUME BusInv, [Next]_vars, NEW r \in Readers
  PROVE  Fresh(r)
<1>1. ASSUME NEW turn \in Turns, NEW size \in Sizes, Publish(turn, size)
      PROVE  Fresh(r)
  BY <1>1 DEF Publish, Fresh
<1>2. CASE Refuse \/ Close
  <2>1. Shut(Waiting) /\ Waiting \in SUBSET Subscribed
    BY <1>2 DEF Refuse, Close, Waiting
  <2>2. QED
    BY <2>1, ShutIsFresh
<1>3. ASSUME NEW q \in Readers, NextCloses(q)
      PROVE  Fresh(r)
  BY <1>3, NextClosesShuts, ShutIsFresh
<1>4. ASSUME NEW q \in Readers, NextTakes(q)
      PROVE  Fresh(r)
  BY <1>4, TakeIsFresh
<1>5. ASSUME NEW q \in Readers, Subscribe(q) \/ NextWaits(q) \/ Return(q)
      PROVE  Fresh(r)
  BY <1>5 DEF Subscribe, NextWaits, Return, history, Fresh
<1>6. CASE OwnerChanges \/ UNCHANGED vars
  BY <1>6 DEF OwnerChanges, vars, history, Fresh
<1>7. QED
  BY <1>1, <1>2, <1>3, <1>4, <1>5, <1>6 DEF Next, Bus, Reader

\* Once the owner is not current nothing but a terminal event is handed out,
\* not even what was queued while it was.
THEOREM NothingStaleIsHanded == Spec => NothingStale
<1>1. BusInv /\ [Next]_vars
        => [\A r \in Readers :
              got'[r] # got[r] => current \/ got'[r][Len(got'[r])].kind = "terminal"]_vars
  BY StepIsFresh DEF Fresh
<1>2. QED
  BY <1>1, BusInvariant, PTL DEF Spec, NothingStale

-----------------------------------------------------------------------------
(***************************************************************************)
(* The bus implements the feed.                                            *)
(***************************************************************************)

\* Feed!got, the events without the terminal.
Seen == [r \in Readers |-> EventsGot(r)]

LEMMA SeenFields ==
  ASSUME BusInv, NEW r \in Readers
  PROVE  /\ stage[r] # "told" => EventsGot(r) = got[r]
         /\ EventsGot(r) \in Seq(Event)
<1>1. Fed(r) /\ stage[r] \in {"unused", "open", "cut", "told", "left"}
  BY DEF BusInv, ReadersSound, Shape
<1>2. << >> \in Seq(Event)
  OBVIOUS
<1>3. QED
  BY <1>1, <1>2 DEF Fed, Following, Cut, Told, EventsGot

LEMMA SameIsSeen ==
  ASSUME NEW r \in Readers, got'[r] = got[r], stage'[r] = stage[r]
  PROVE  EventsGot(r)' = EventsGot(r)
  BY DEF EventsGot

LEMMA InitFeeds ==
  ASSUME Init
  PROVE  Feed!Init
<1>1. \A r \in Readers : EventsGot(r) = << >>
  BY DEF Init, EventsGot
<1>2. [r \in Readers |-> EventsGot(r)] = [r \in Readers |-> << >>]
  BY <1>1
<1>3. QED
  BY <1>2 DEF Init, Feed!Init

LEMMA PublishFeeds ==
  ASSUME BusInv, NEW turn \in Turns, NEW size \in Sizes, Publish(turn, size)
  PROVE  Feed!Next
<1> DEFINE event == Published(turn, size)
           n == Len(log) + 1
           slow == Slow(size)
<1>1. event \in Event /\ log \in Seq(Event) /\ log' = Append(log, event)
  BY PublishedIsEvent DEF BusInv, Shape, Publish, Published
<1> HIDE DEF event
<1>2. n \in DOMAIN log' \ DOMAIN log /\ log'[n] = event
  BY <1>1
<1>3. /\ Waiting \subseteq Subscribed /\ slow \subseteq Subscribed
      /\ Subscribed \subseteq Readers /\ Waiting \cap slow = {}
  BY SlowIsSubscribed DEF Waiting, Slow
<1>4. \A r \in Waiting : stage[r] = "open" /\ Feed!At(r) = Len(log)
  <2> TAKE r \in Waiting
  <2>1. stage[r] = "open" /\ Following(r) /\ queue[r] = << >>
    BY PublishServes
  <2>2. EventsGot(r) = got[r] /\ Len(<< >>) = 0
    BY <1>3, <2>1, SeenFields
  <2>3. /\ joined[r] \in Nat /\ got[r] \in Seq(Event)
        /\ joined[r] + Len(got[r]) + 0 = Len(log)
    BY <1>3, <2>1, <2>2 DEF Following, BusInv, Shape
  <2>4. Len(got[r]) \in Nat
    BY <2>3
  <2>5. joined[r] + Len(got[r]) = Len(log)
    BY <2>3, <2>4
  <2>6. Feed!At(r) = joined[r] + Len(got[r])
    BY <1>3, <2>2 DEF Feed!At
  <2>7. QED
    BY <2>1, <2>5, <2>6
<1>5. \A r \in slow : stage[r] = "open"
  BY PublishCuts
<1>6. ASSUME NEW r \in Readers
      PROVE  /\ EventsGot(r)' = IF r \in Waiting THEN Append(EventsGot(r), event)
                                ELSE EventsGot(r)
             /\ stage'[r] = IF r \in slow THEN "cut" ELSE stage[r]
  <2>1. stage'[r] = IF r \in slow THEN "cut" ELSE stage[r]
    BY PublishFields
  <2>2. CASE r \in Waiting
    <3>1. /\ stage[r] = "open" /\ stage'[r] = "open"
          /\ got'[r] = Append(got[r], event)
      BY <2>2, PublishServes DEF event
    <3>2. QED
      BY <2>1, <2>2, <3>1 DEF EventsGot
  <2>3. CASE r \in slow
    <3>1. stage[r] = "open" /\ stage'[r] = "cut" /\ got'[r] = got[r]
      BY <2>3, PublishCuts
    <3>2. QED
      BY <1>3, <2>1, <2>3, <3>1 DEF EventsGot
  <2>4. CASE r \notin Waiting /\ r \notin slow
    <3>1. got'[r] = got[r]
      BY <2>4, PublishFields DEF Waiting
    <3>2. QED
      BY <2>1, <2>4, <3>1, SameIsSeen
  <2>5. QED
    BY <2>2, <2>3, <2>4
<1>7. [r \in Readers |-> EventsGot(r)]'
        = [r \in Readers |-> IF r \in Waiting
                             THEN Append([q \in Readers |-> EventsGot(q)][r], event)
                             ELSE [q \in Readers |-> EventsGot(q)][r]]
  BY <1>6
<1>8. stage' = [r \in Readers |-> IF r \in slow THEN "cut" ELSE stage[r]]
  BY DEF Publish
<1>9. ~closed /\ closed' = closed /\ joined' = joined
  BY DEF Publish
<1> HIDE DEF n, slow
<1>10. Feed!Publish(event, Waiting, slow)
  BY <1>1, <1>3, <1>4, <1>5, <1>7, <1>8, <1>9 DEF Feed!Publish
<1>11. Feed!Publish(log'[n], Waiting, slow) /\ Waiting \in SUBSET Readers
       /\ slow \in SUBSET Readers
  BY <1>2, <1>3, <1>10
<1>12. QED
  BY <1>2, <1>11 DEF Feed!Next

LEMMA ShutFeeds ==
  ASSUME BusInv, ~closed, NEW answered \in SUBSET Subscribed, Shut(answered)
  PROVE  Feed!Next
<1>1. \A r \in Readers : r \in Subscribed <=> stage[r] = "open"
  BY DEF BusInv, ReadersSound, Staged, Subscribed
<1>2. answered \in SUBSET Readers
  BY DEF Subscribed
<1>3. \A r \in answered : stage[r] = "open"
  BY <1>1, <1>2
<1>4. ASSUME NEW r \in Readers
      PROVE  EventsGot(r)' = EventsGot(r)
  <2>1. CASE r \in answered
    <3>1. EventsGot(r)' = got[r] /\ stage[r] = "open"
      BY <2>1, ShutTells
    <3>2. QED
      BY <3>1, SeenFields
  <2>2. CASE r \in Subscribed \ answered
    <3>1. stage[r] = "open" /\ stage'[r] = "cut" /\ got'[r] = got[r]
      BY <2>2, ShutCuts
    <3>2. QED
      BY <3>1 DEF EventsGot
  <2>3. CASE r \notin Subscribed
    BY <2>3, ShutSkips, SameIsSeen DEF Same
  <2>4. QED
    BY <2>1, <2>2, <2>3
<1>5. stage' = [r \in Readers |->
         IF stage[r] # "open" THEN stage[r] ELSE IF r \in answered THEN "told" ELSE "cut"]
  <2>1. stage' = [r \in Readers |->
           IF r \notin Subscribed THEN stage[r]
           ELSE IF r \in answered THEN "told" ELSE "cut"]
    BY DEF Shut
  <2>2. QED
    BY <1>1, <2>1
<1>6. [r \in Readers |-> EventsGot(r)]' = [r \in Readers |-> EventsGot(r)]
  BY <1>4
<1>7. closed' = TRUE /\ log' = log /\ joined' = joined
  BY DEF Shut
<1>8. Feed!Close(answered)
  BY <1>3, <1>5, <1>6, <1>7 DEF Feed!Close
<1>9. QED
  BY <1>2, <1>8 DEF Feed!Next

LEMMA TakeFeeds ==
  ASSUME BusInv, NEW r \in Readers, NextTakes(r)
  PROVE  Feed!Next
<1> DEFINE item == Head(queue[r])
<1>1. \A q \in Readers : q # r => EventsGot(q)' = EventsGot(q)
  BY TakeLeavesOthers, SameIsSeen DEF Same
<1>2. closed' = closed /\ log' = log /\ joined' = joined
  BY DEF NextTakes
<1>3. got'[r] = Append(got[r], item)
  BY DEF NextTakes, BusInv, Shape
<1>4. CASE stage[r] = "open"
  <2>1. /\ stage'[r] = "open" /\ item = log[joined[r] + Len(got[r]) + 1]
        /\ joined[r] + Len(got[r]) < Len(log)
    BY <1>4, TakesOne
  <2>2. EventsGot(r) = got[r] /\ EventsGot(r)' = got'[r]
    BY <1>4, <2>1 DEF EventsGot
  <2>3. Feed!At(r) = joined[r] + Len(got[r])
    BY <2>2 DEF Feed!At
  <2>4. stage' = stage
    <3>1. \A q \in Readers : stage'[q] = stage[q]
      BY <1>4, <2>1, TakeLeavesOthers DEF Same
    <3>2. stage \in [Readers -> {"unused", "open", "cut", "told", "left"}]
          /\ stage' = [stage EXCEPT ![r] = stage'[r]]
      BY DEF BusInv, Shape, NextTakes
    <3>3. QED
      BY <3>1, <3>2
  <2>5. EventsGot(r)' = Append(EventsGot(r), log[Feed!At(r) + 1])
    BY <1>3, <2>1, <2>2, <2>3
  <2>6. [q \in Readers |-> EventsGot(q)]'
          = [[q \in Readers |-> EventsGot(q)]
               EXCEPT ![r] = Append(EventsGot(r), log[Feed!At(r) + 1])]
    BY <1>1, <2>5
  <2>7. Feed!Read(r)
    BY <1>2, <1>4, <2>1, <2>3, <2>4, <2>6 DEF Feed!Read
  <2>8. QED
    BY <2>7 DEF Feed!Next
<1>5. CASE stage[r] # "open"
  <2>1. stage[r] = "cut" /\ stage'[r] = "told" /\ EventsGot(r)' = got[r]
    BY <1>5, TakesOne
  <2>2. EventsGot(r)' = EventsGot(r)
    BY <2>1 DEF EventsGot
  <2>3. [q \in Readers |-> EventsGot(q)]' = [q \in Readers |-> EventsGot(q)]
    BY <1>1, <2>2
  <2>4. stage' = [stage EXCEPT ![r] = "told"]
    <3>1. stage' = [stage EXCEPT ![r] = stage'[r]]
      BY DEF BusInv, Shape, NextTakes
    <3>2. QED
      BY <2>1, <3>1
  <2>5. Feed!Tell(r)
    BY <1>2, <2>1, <2>3, <2>4 DEF Feed!Tell
  <2>6. QED
    BY <2>5 DEF Feed!Next
<1>6. QED
  BY <1>4, <1>5

LEMMA ReturnFeeds ==
  ASSUME BusInv, NEW r \in Readers, Return(r)
  PROVE  Feed!Next
<1>1. stage[r] \in {"open", "cut"} /\ stage' = [stage EXCEPT ![r] = "left"]
      /\ got' = got /\ log' = log /\ joined' = joined /\ closed' = closed
  BY DEF Return
<1>2. \A q \in Readers : EventsGot(q)' = EventsGot(q)
  BY <1>1 DEF EventsGot, BusInv, Shape
<1>3. [q \in Readers |-> EventsGot(q)]' = [q \in Readers |-> EventsGot(q)]
  BY <1>2
<1>4. Feed!Leave(r)
  BY <1>1, <1>3 DEF Feed!Leave
<1>5. QED
  BY <1>4 DEF Feed!Next

LEMMA SubscribeFeeds ==
  ASSUME BusInv, NEW r \in Readers, Subscribe(r)
  PROVE  Feed!Next
<1>1. ~closed /\ stage[r] = "unused" /\ stage' = [stage EXCEPT ![r] = "open"]
      /\ joined' = [joined EXCEPT ![r] = Len(log)]
      /\ got' = got /\ log' = log /\ closed' = closed
  BY DEF Subscribe
<1>2. \A q \in Readers : EventsGot(q)' = EventsGot(q)
  BY <1>1 DEF EventsGot, BusInv, Shape
<1>3. [q \in Readers |-> EventsGot(q)]' = [q \in Readers |-> EventsGot(q)]
  BY <1>2
<1>4. Feed!Subscribe(r)
  BY <1>1, <1>3 DEF Feed!Subscribe
<1>5. QED
  BY <1>4 DEF Feed!Next

LEMMA IdleFeeds ==
  ASSUME closed' = closed, UNCHANGED history
  PROVE  UNCHANGED Feed!vars
<1>1. \A q \in Readers : EventsGot(q)' = EventsGot(q)
  BY DEF EventsGot, history
<1>2. [q \in Readers |-> EventsGot(q)]' = [q \in Readers |-> EventsGot(q)]
  BY <1>1
<1>3. QED
  BY <1>2 DEF Feed!vars, history

LEMMA StepFeeds ==
  ASSUME BusInv, [Next]_vars
  PROVE  [Feed!Next]_(Feed!vars)
<1>1. ASSUME NEW turn \in Turns, NEW size \in Sizes, Publish(turn, size)
      PROVE  Feed!Next
  BY <1>1, PublishFeeds
<1>2. CASE Refuse \/ Close
  <2>1. ~closed /\ Shut(Waiting) /\ Waiting \in SUBSET Subscribed
    BY <1>2 DEF Refuse, Close, Waiting
  <2>2. QED
    BY <2>1, ShutFeeds
<1>3. ASSUME NEW r \in Readers, NextCloses(r)
      PROVE  Feed!Next
  <2>1. ~closed
    BY <1>3 DEF NextCloses, BusInv, ReadersSound, Staged
  <2>2. QED
    BY <1>3, <2>1, NextClosesShuts, ShutFeeds
<1>4. ASSUME NEW r \in Readers, NextTakes(r)
      PROVE  Feed!Next
  BY <1>4, TakeFeeds
<1>5. ASSUME NEW r \in Readers, Subscribe(r)
      PROVE  Feed!Next
  BY <1>5, SubscribeFeeds
<1>6. ASSUME NEW r \in Readers, Return(r)
      PROVE  Feed!Next
  BY <1>6, ReturnFeeds
<1>7. ASSUME NEW r \in Readers, NextWaits(r)
      PROVE  UNCHANGED Feed!vars
  BY <1>7, IdleFeeds DEF NextWaits
<1>8. CASE OwnerChanges \/ UNCHANGED vars
  BY <1>8, IdleFeeds DEF OwnerChanges, vars
<1>9. QED
  BY <1>1, <1>2, <1>3, <1>4, <1>5, <1>6, <1>7, <1>8 DEF Next, Bus, Reader

\* The bus implements the feed: every reader gets a gapless run of one log
\* from where it subscribed, and at most one word that it was cut off.
THEOREM BusImplementsFeed == Spec => FeedSpec
<1>1. Init => Feed!Init
  BY InitFeeds
<1>2. BusInv /\ [Next]_vars => [Feed!Next]_(Feed!vars)
  BY StepFeeds
<1>3. QED
  BY <1>1, <1>2, BusInvariant, PTL DEF Spec, FeedSpec, Feed!Spec
=============================================================================
