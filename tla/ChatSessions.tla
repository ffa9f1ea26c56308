----------------------------- MODULE ChatSessions -----------------------------
(***************************************************************************)
(* The chats of the extension (src/lib/chat-session-store.js): the side    *)
(* panel and the main workspace each hold all of them in memory, write all *)
(* of them to chrome.storage with every change, and read them back when    *)
(* the other one has written (chat-sync.js).  A read is taken at one       *)
(* moment and used at a later one; the human works in both meanwhile, and  *)
(* before the first read of a surface that was just opened.                *)
(*                                                                         *)
(* Chats are numbered in the order they are made: a store keeps the newest *)
(* first.  Titles, pins, attachments and the copies in "forks" are left    *)
(* out; who said a message is too.                                         *)
(***************************************************************************)
EXTENDS Naturals, Sequences, FiniteSetsExt

CONSTANTS Surfaces,     \* the pages that share the storage
          MaxProjects,  \* bound: projects made
          MaxFolders,   \* bound: folders made
          Visits        \* bounds: changes, openings of a surface and failing calls of the
                        \* storage, as records [changes, opens, faults]

ASSUME ChatAssumption == /\ {MaxProjects, MaxFolders} \subseteq Nat
                         /\ Visits \subseteq [changes : Nat, opens : Nat, faults : Nat]

VARIABLES opened,  \* the surfaces that are open
          held,    \* what each of them holds in memory
          stored,  \* chrome.storage
          due,     \* per surface: reads it has to begin
          reads,   \* per surface: what its reads found, until they are used
          made,    \* how many chats, messages, projects and folders there ever were
          belongs, \* the messages said in each chat, or copied to it when it was forked
          apart,   \* the surfaces that changed their memory after the last write of another
          visit    \* what is left of the bounds

chatVars == <<opened, held, stored, due, reads, made, belongs, apart, visit>>

(***************************************************************************)
(* What a surface holds: chats by number, the active one, the messages in  *)
(* view, whether each project is archived, the project of each folder.  0  *)
(* is no project, and no folder.                                           *)
(***************************************************************************)
EmptyFun == [x \in {} |-> {}]
Untold   == [chats |-> EmptyFun, active |-> 0, view |-> {}, projects |-> EmptyFun,
             folders |-> EmptyFun]
BlankChat(says) == [says |-> says, archived |-> FALSE, project |-> 0, folder |-> 0]

With(f, x, v) == [y \in DOMAIN f \cup {x} |-> IF y = x THEN v ELSE f[y]]
Omit(f, x)    == [y \in DOMAIN f \ {x} |-> f[y]]

NextChat(h) == Max({made.chats} \cup DOMAIN h.chats) + 1
Shelf(h)    == {s \in DOMAIN h.chats : ~ h.chats[s].archived}
Showing(h, s) == [h EXCEPT !.active = s, !.view = h.chats[s].says]
Adding(h, s, chat) == Showing([h EXCEPT !.chats = With(@, s, chat)], s)

\* writeActiveSession: what is in view becomes the record of the active chat.
Written(h) ==
  IF h.chats = EmptyFun THEN Adding(h, NextChat(h), BlankChat(h.view))
  ELSE LET a == IF h.active \in DOMAIN h.chats THEN h.active ELSE Max(DOMAIN h.chats)
       IN  [h EXCEPT !.active = a, !.chats[a].says = h.view]

\* ensureSession: an open chat there is, and one is active.
Ensuring(h) ==
  LET g == IF Shelf(h) # {} THEN h
           ELSE [h EXCEPT !.chats = With(@, NextChat(h), BlankChat({}))]
  IN  Showing(g, IF g.active \in Shelf(g) THEN g.active ELSE Max(Shelf(g)))

\* hydrate: archived and missing parents are let go.
Hydrated(d) ==
  LET g    == Ensuring(d)
      open == {q \in DOMAIN d.projects : ~ d.projects[q]}
      kept == {f \in DOMAIN d.folders : d.folders[f] \in open \cup {0}}
      put(c) == [c EXCEPT !.project = IF @ \in open THEN @ ELSE 0,
                          !.folder = IF @ \in kept THEN @ ELSE 0]
  IN  [g EXCEPT !.folders = [f \in kept |-> d.folders[f]],
                !.chats = [s \in DOMAIN g.chats |-> put(g.chats[s])]]

(***************************************************************************)
(* persist: the memory is brought up to date, and all of it is written.    *)
(* The other surfaces hear of it; the writer knows its own token.          *)
(***************************************************************************)
\* Mutant: a surface that is still at a read does not begin another.
Hears_Bug(w) == [v \in Surfaces |-> IF v \in opened \ {w} /\ due[v] = 0 /\ reads[v] = <<>>
                                      THEN 1 ELSE due[v]]
Hears(w) == [v \in Surfaces |-> due[v] + (IF v \in opened \ {w} THEN 1 ELSE 0)]

\* h: what the change makes of the memory of w; n: what was made.
Persists(w, h, n) ==
  LET k == Written(h)
  IN  /\ held' = [held EXCEPT ![w] = k]
      /\ made' = [n EXCEPT !.chats = Max({@} \cup DOMAIN k.chats)]
      /\ belongs' = [s \in DOMAIN belongs \cup DOMAIN k.chats |->
                       IF s \in DOMAIN belongs
                         THEN belongs[s] \cup (IF s = k.active /\ n.messages # made.messages
                                                 THEN {n.messages} ELSE {})
                         ELSE k.chats[s].says]
      /\ \/ /\ stored' = k /\ due' = Hears(w) /\ apart' = {w}
            /\ visit' = [visit EXCEPT !.changes = @ - 1]
         \/ /\ visit.faults > 0                \* the write fails, unheard
            /\ visit' = [visit EXCEPT !.changes = @ - 1, !.faults = @ - 1]
            /\ apart' = apart \cup {w}
            /\ UNCHANGED <<stored, due>>
  /\ UNCHANGED <<opened, reads>>

Changes(w, h) == visit.changes > 0 /\ Persists(w, h, made)

----------------------------------------------------------------------------
(* What the human and the turns of a surface do.  Each is one step: the    *)
(* memory is changed and the write is called before anything is awaited.   *)

\* addMessage, of the human or of a turn: to the chat that is active when it is said.
Say(w) ==
  LET n == made.messages + 1
  IN  /\ visit.changes > 0
      /\ Persists(w, [held[w] EXCEPT !.view = @ \cup {n}], [made EXCEPT !.messages = n])

Unsay(w, m) == m \in held[w].view /\ Changes(w, [held[w] EXCEPT !.view = @ \ {m}])

\* The messages up to m, which is not the last one.
UpTo(h, m) == {k \in h.view : k <= m}
Cut(w, m) ==
  /\ m \in held[w].view /\ m # Max(held[w].view)
  /\ Changes(w, [held[w] EXCEPT !.view = UpTo(held[w], m)])

Opening(h) == LET k == Written(h) IN Adding(k, NextChat(k), BlankChat({}))
NewChat(w) == Changes(w, Opening(held[w]))

\* Mutant: the messages in view stay.
Switched_Bug(h, s) == [Written(h) EXCEPT !.active = s]
Switched(h, s) == Showing(Written(h), s)
Switch(w, s) == s \in Shelf(Written(held[w])) /\ Changes(w, Switched(held[w], s))

Archived(h, s) ==
  LET g == [h EXCEPT !.chats[s].archived = TRUE]
  IN  IF h.active # s THEN g
      ELSE IF Shelf(g) # {} THEN Showing(g, Max(Shelf(g)))
      ELSE Adding(g, NextChat(g), BlankChat({}))
Archive(w, s) == s \in DOMAIN held[w].chats /\ Changes(w, Archived(held[w], s))
Restore(w, s) ==
  /\ s \in DOMAIN held[w].chats
  /\ Changes(w, [held[w] EXCEPT !.chats[s].archived = FALSE])

\* Whatever is the newest of the others becomes active, archived or not.
Dropped(h, s) ==
  LET g == [h EXCEPT !.chats = Omit(@, s)]
  IN  IF g.chats = EmptyFun THEN Adding(g, NextChat(h), BlankChat({}))
      ELSE IF h.active = s THEN Showing(g, Max(DOMAIN g.chats)) ELSE g
DropChat(w, s) == s \in DOMAIN held[w].chats /\ Changes(w, Dropped(held[w], s))

\* A whole chat, or the active one up to a message; the second keeps the project when it
\* branches to answer again.
ForkChat(w, s) ==
  LET k == Written(held[w])
  IN  /\ s \in DOMAIN k.chats
      /\ Changes(w, Adding(k, NextChat(k), [BlankChat(k.chats[s].says) EXCEPT
                                               !.project = k.chats[s].project]))
Branch(w, m) ==
  LET k == Written(held[w])
  IN  /\ m \in held[w].view
      /\ \E q \in {0, k.chats[k.active].project} :
           Changes(w, Adding(k, NextChat(k), [BlankChat(UpTo(k, m)) EXCEPT !.project = q]))

\* setSessionProject drops the folder; setSessionFolder takes the folder's project along.
Rehomed(h, s, q) == [h EXCEPT !.chats[s].project = q, !.chats[s].folder = 0]
MoveChat(w, s, q) ==
  /\ s \in DOMAIN held[w].chats
  /\ q = 0 \/ (q \in DOMAIN held[w].projects /\ ~ held[w].projects[q])
  /\ Changes(w, Rehomed(held[w], s, q))
Shelve(w, s, f) ==
  /\ s \in DOMAIN held[w].chats /\ f \in {0} \cup DOMAIN held[w].folders
  /\ Changes(w, [held[w] EXCEPT !.chats[s].folder = f,
                                !.chats[s].project = IF f = 0 THEN @ ELSE held[w].folders[f]])

NewProject(w) ==
  LET q == made.projects + 1
  IN  /\ visit.changes > 0 /\ q <= MaxProjects
      /\ Persists(w, [held[w] EXCEPT !.projects = With(@, q, FALSE)], [made EXCEPT !.projects = q])
PutAway(w, q, away) ==
  /\ q \in DOMAIN held[w].projects /\ Changes(w, [held[w] EXCEPT !.projects[q] = away])

\* The chats that are in one of the projects or in one of the folders are let out of it.
LetOut(h, projects, folders) ==
  LET put(c) == [c EXCEPT !.project = IF @ \in projects THEN 0 ELSE @,
                          !.folder = IF @ \in folders THEN 0 ELSE @]
  IN  [h EXCEPT !.projects = [q \in DOMAIN @ \ projects |-> @[q]],
                !.folders = [f \in DOMAIN @ \ folders |-> @[f]],
                !.chats = [s \in DOMAIN h.chats |-> put(h.chats[s])]]
DropProject(w, q) ==
  LET h == held[w]
  IN  /\ q \in DOMAIN h.projects
      /\ Changes(w, LetOut(h, {q}, {f \in DOMAIN h.folders : h.folders[f] = q}))

NewFolder(w, q) ==
  LET f == made.folders + 1
  IN  /\ visit.changes > 0 /\ f <= MaxFolders /\ q \in DOMAIN held[w].projects
      /\ Persists(w, [held[w] EXCEPT !.folders = With(@, f, q)], [made EXCEPT !.folders = f])
DropFolder(w, f) ==
  f \in DOMAIN held[w].folders /\ Changes(w, LetOut(held[w], {}, {f}))

\* Names, pins, unread marks, attachments, the model: all of it is written the same.
Touch(w) == Changes(w, held[w])

----------------------------------------------------------------------------
(* Reading back. *)

Opens(w) ==
  /\ w \notin opened /\ visit.opens > 0
  /\ opened' = opened \cup {w} /\ due' = [due EXCEPT ![w] = 1]
  /\ visit' = [visit EXCEPT !.opens = @ - 1]
  /\ UNCHANGED <<held, stored, reads, made, belongs, apart>>

Closes(w) ==
  /\ w \in opened /\ opened' = opened \ {w}
  /\ held' = [held EXCEPT ![w] = Untold] /\ due' = [due EXCEPT ![w] = 0]
  /\ reads' = [reads EXCEPT ![w] = <<>>] /\ apart' = apart \ {w}
  /\ UNCHANGED <<stored, made, belongs, visit>>

Finds(w, d) ==
  /\ due[w] > 0 /\ due' = [due EXCEPT ![w] = @ - 1]
  /\ reads' = [reads EXCEPT ![w] = Append(@, d)]
  /\ UNCHANGED <<opened, held, stored, made, belongs>>
Reads(w) == Finds(w, stored) /\ UNCHANGED <<apart, visit>>

\* A failing read is taken for an empty storage.
ReadFails(w) ==
  /\ visit.faults > 0 /\ visit' = [visit EXCEPT !.faults = @ - 1]
  /\ Finds(w, Untold) /\ apart' = apart \cup {w}

Hydrate(w) ==
  LET k == Hydrated(Head(reads[w]))
  IN  /\ reads[w] # <<>> /\ reads' = [reads EXCEPT ![w] = Tail(@)]
      /\ held' = [held EXCEPT ![w] = k]
      /\ made' = [made EXCEPT !.chats = Max({@} \cup DOMAIN k.chats)]
      /\ belongs' = [s \in DOMAIN belongs \cup DOMAIN k.chats |->
                       IF s \in DOMAIN belongs THEN belongs[s] ELSE {}]
      /\ UNCHANGED <<opened, stored, due, apart, visit>>

----------------------------------------------------------------------------
\* One chat with a message, in a folder of a project or in none, and no surface open.
ChatInit ==
  /\ opened = {} /\ apart = {} /\ visit \in Visits
  /\ held = [w \in Surfaces |-> Untold] /\ due = [w \in Surfaces |-> 0]
  /\ reads = [w \in Surfaces |-> <<>>] /\ belongs = [s \in {1} |-> {1}]
  /\ \E n \in {0, 1} :
       /\ n <= MaxProjects /\ n <= MaxFolders
       /\ made = [chats |-> 1, messages |-> 1, projects |-> n, folders |-> n]
       /\ stored = [chats |-> [s \in {1} |-> [BlankChat({1}) EXCEPT !.project = n, !.folder = n]],
                    active |-> 1, view |-> {1},
                    projects |-> [q \in 1 .. n |-> FALSE], folders |-> [f \in 1 .. n |-> f]]

ChatStep(w) ==
  \/ Say(w) \/ NewChat(w) \/ NewProject(w) \/ Touch(w)
  \/ \E m \in 1 .. made.messages : Unsay(w, m) \/ Cut(w, m) \/ Branch(w, m)
  \/ \E s \in 1 .. made.chats :
       \/ Switch(w, s) \/ Archive(w, s) \/ Restore(w, s) \/ DropChat(w, s) \/ ForkChat(w, s)
       \/ \E q \in 0 .. MaxProjects : MoveChat(w, s, q)
       \/ \E f \in 0 .. MaxFolders : Shelve(w, s, f)
  \/ \E q \in 1 .. MaxProjects : DropProject(w, q) \/ NewFolder(w, q)
                                 \/ \E away \in BOOLEAN : PutAway(w, q, away)
  \/ \E f \in 1 .. MaxFolders : DropFolder(w, f)

ChatNext ==
  \E w \in Surfaces :
    \/ w \in opened /\ ChatStep(w)
    \/ Opens(w) \/ Closes(w) \/ Reads(w) \/ ReadFails(w) \/ Hydrate(w)

ChatSpec == ChatInit /\ [][ChatNext]_chatVars

----------------------------------------------------------------------------
(* Properties. *)

ChatTypeOK ==
  /\ opened \subseteq Surfaces /\ apart \subseteq opened
  /\ \A w \in Surfaces : due[w] \in Nat /\ (w \notin opened => held[w] = Untold)
  /\ \A d \in {stored} \cup {held[w] : w \in Surfaces} :
       /\ DOMAIN d.chats \subseteq 1 .. made.chats /\ d.view \subseteq 1 .. made.messages
       /\ d.chats = EmptyFun \/ d.active \in DOMAIN d.chats
       /\ DOMAIN d.projects \subseteq 1 .. made.projects
       /\ DOMAIN d.folders \subseteq 1 .. made.folders

\* Whatever the surfaces write over one another, every copy of the chats is sound, in
\* storage, on its way and in memory: a chat has no message that was not said in it or in
\* what it was forked from, the messages in view are the active chat's, and a chat in a
\* folder is in the project of that folder ("so the tree can never point at a missing
\* parent", chat-session-store.js:260).
SoundCopy(d) ==
  /\ \A s \in DOMAIN d.chats :
       /\ d.chats[s].says \subseteq belongs[s]
       /\ d.chats[s].folder # 0 => /\ d.chats[s].folder \in DOMAIN d.folders
                                   /\ d.folders[d.chats[s].folder] = d.chats[s].project
  /\ d.chats # EmptyFun => d.view = d.chats[d.active].says

CopiesAreSound ==
  /\ SoundCopy(stored)
  /\ \A w \in Surfaces : SoundCopy(held[w]) /\ \A i \in DOMAIN reads[w] : SoundCopy(reads[w][i])

\* A surface that has nothing more to read, and has changed nothing since the last write
\* of the other one, shows what is stored: no write goes unheard, and no read that comes
\* late brings an older storage back.
OthersFollow ==
  \A w \in opened \ apart :
    due[w] = 0 /\ reads[w] = <<>> =>
      IF Shelf(stored) # {} THEN held[w] = Hydrated(stored)
      ELSE DOMAIN stored.chats \subseteq DOMAIN held[w].chats

\* A chat leaves the storage only when a surface that held it lets it go: the launch of a
\* surface erases none ("starts a fresh blank session on app launch without erasing
\* history", browser-first/test/chat-session-store.test.mjs:119).
\* Broken by the code: a surface takes messages before its first read has come back, and
\* what it then writes is all it holds.
LaunchErasesNothing ==
  [][\A s \in DOMAIN stored.chats \ DOMAIN stored'.chats :
       \E w \in Surfaces : s \in DOMAIN held[w].chats \ DOMAIN held'[w].chats]_chatVars
=============================================================================
