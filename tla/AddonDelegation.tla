-------------------------- MODULE AddonDelegation --------------------------
(***************************************************************************)
(* A delegation packet of the add-on delegation service                    *)
(* (browser-first/host/addon-delegation-service.mjs): one Markdown file    *)
(* whose status line several bridge requests read, rewrite and remove.     *)
(*                                                                         *)
(* A start marks the packet running, runs the add-on's CLI, writes the     *)
(* result artifact, appends to the governance audit and records the        *)
(* outcome; a cancel rewrites the status; a deletion of the add-on's user  *)
(* data removes packet and artifact.  No request holds a lock, and every   *)
(* read and write of the file is an await at which another request runs.   *)
(* The Hermes and the OpenCode handlers have the same shape: one packet of *)
(* either is modelled, since packets share no state but the audit file.    *)
(***************************************************************************)
EXTENDS Naturals, FiniteSets

CONSTANTS Starts,  \* calls of .../delegation/start
          Cancels, \* calls of .../delegation/cancel
          Loads    \* how many starts, cancels, deletions and incidents (a
                   \* failing file operation, a restart) a behaviour holds

ASSUME DelegationAssumption ==
    /\ Starts \cap Cancels = {}
    /\ Loads \subseteq [starts : Nat, cancels : Nat, purges : Nat, incidents : Nat]

PacketRequests == Starts \cup Cancels

(***************************************************************************)
(* What the packet's text says: its status line ("blank": the text has     *)
(* none, as between the truncation and the write of a writeFile; readers   *)
(* take it for "queued") and whether it names a result artifact.           *)
(***************************************************************************)
Standings == {"queued", "running", "blocked", "completed", "failed",
             "cancelled", "blank", "gone"}
Texts    == [status : Standings, named : BOOLEAN]
Blank    == [status |-> "blank", named |-> FALSE]
Gone     == [status |-> "gone", named |-> FALSE]

VARIABLES packet,   \* the text on disk
          artifact, \* whether the result artifact is on disk
          work,     \* per request: where it is and what it holds
          purge,    \* one executeAddonUserDataDelete
          room,     \* what the load still allows
          calm      \* no incident so far

delegationVars == <<packet, artifact, work, purge, room, calm>>

\* Where a request stands: about to read the packet for a status write
\* ("look"), to truncate it ("open"), to write it ("fill", "adrift" when the
\* open file was unlinked), or in one of the awaits of a start.  A start has
\* "ran" when its CLI executed or its isolation refused to let it; the record
\* of that is "lost" when the host cannot read what the CLI left.
Stages == {"idle", "look", "open", "fill", "adrift", "decide", "cli",
           "failing", "artifact", "audit", "recover", "done"}
Puts   == {"none", "running", "blocked", "completed", "result", "failed",
           "cancelled"}

DelegationTypeOK ==
    /\ packet \in Texts
    /\ artifact \in BOOLEAN
    /\ work \in [PacketRequests -> [at : Stages, put : Puts, seen : Texts,
                              ran : BOOLEAN, lost : BOOLEAN,
                              made : BOOLEAN,
                              audited : SUBSET {"completed", "failed"}]]
    /\ purge \in [at : {"idle", "packet", "artifact", "done"},
                  paths : SUBSET {"packet", "artifact"},
                  saw : Standings, sawArtifact : BOOLEAN]
    /\ room \in [starts : Nat, cancels : Nat, purges : Nat, incidents : Nat]
    /\ calm \in BOOLEAN

DelegationInit ==
    /\ packet = [status |-> "queued", named |-> FALSE]
    /\ artifact = FALSE
    /\ work = [w \in PacketRequests |->
                 [at |-> "idle", put |-> "none", seen |-> Blank,
                  ran |-> FALSE, lost |-> FALSE, made |-> FALSE,
                  audited |-> {}]]
    /\ purge = [at |-> "idle", paths |-> {}, saw |-> "gone",
                sawArtifact |-> FALSE]
    /\ room \in Loads
    /\ calm = TRUE

Resting(w)   == work[w].at \in {"idle", "done"}
Goes(w, at) == work' = [work EXCEPT ![w].at = at, ![w].seen = Blank]
\* Request w goes on to writeDelegationStatus(status).
Writes(w, status) == work' = [work EXCEPT ![w].put = status, ![w].at = "look"]
Uses(what) == room[what] > 0 /\ room' = [room EXCEPT ![what] = @ - 1]
Fails == Uses("incidents") /\ calm' = FALSE

(***************************************************************************)
(* writeDelegationStatus: read the text, replace its status line, write    *)
(* the whole text.  writeFile truncates the file when it opens it and      *)
(* creates it when it is gone; two open writes are taken to end in the     *)
(* text written last.                                                      *)
(***************************************************************************)
\* The text with its status line replaced: a text without one gains none.
Replaced(text, put) ==
    IF text.status = "blank" THEN [text EXCEPT !.named = (put = "result")]
    ELSE IF put = "result" THEN text
    ELSE [status |-> put, named |-> text.named \/ put = "completed"]

Throws_Bug(w) == Goes(w, "look")

\* A status write that throws: a completion falls into the recovery, every
\* other one leaves the handler.
Throws(w) ==
    Goes(w, IF work[w].put \in {"completed", "result"} THEN "recover" ELSE "done")

\* A start or a cancel reads the packet and refuses a finished one.
Finished == {"completed", "cancelled", "gone"}

Takes(w) ==
    /\ work[w].at = "idle"
    /\ Uses(IF w \in Starts THEN "starts" ELSE "cancels")
    /\ IF packet.status \in Finished
       THEN Goes(w, "done")
       ELSE Writes(w, IF w \in Starts THEN "running" ELSE "cancelled")
    /\ UNCHANGED <<packet, artifact, purge, calm>>

Look(w) ==
    /\ work[w].at = "look"
    /\ IF packet.status = "gone"
       THEN Throws(w)
       ELSE work' = [work EXCEPT ![w].seen = packet, ![w].at = "open"]
    /\ UNCHANGED <<packet, artifact, purge, room, calm>>

Open(w) ==
    /\ work[w].at = "open"
    /\ packet' = Blank
    /\ work' = [work EXCEPT ![w].at = "fill"]
    /\ UNCHANGED <<artifact, purge, room, calm>>

OpenFails(w) ==
    /\ work[w].at = "open"
    /\ Fails
    /\ Throws(w)
    /\ UNCHANGED <<packet, artifact, purge>>

\* What a request does once its write has returned: a run goes on to decide
\* how to execute; a completion writes the text a second time, with the
\* result appended; every other write is the last one.
AfterFill(w, text) ==
    CASE work[w].put = "running" -> Goes(w, "decide")
      [] work[w].put = "completed" ->
            work' = [work EXCEPT ![w].put = "result", ![w].seen = text,
                                 ![w].at = "open"]
      [] OTHER -> Goes(w, "done")

Fill(w) ==
    /\ work[w].at \in {"fill", "adrift"}
    /\ LET text == Replaced(work[w].seen, work[w].put)
       IN /\ packet' = IF work[w].at = "fill" THEN text ELSE packet
          /\ AfterFill(w, text)
    /\ UNCHANGED <<artifact, purge, room, calm>>

(***************************************************************************)
(* How a marked run executes (executeHermesDelegationStart,                *)
(* executeOpenCodeDelegationStart and the CLI they spawn).                 *)
(***************************************************************************)
Blocks_Bug(r) ==
    /\ work[r].at = "decide"
    /\ Goes(r, "done")
    /\ UNCHANGED <<packet, artifact, purge, room, calm>>

\* No CLI, execution not enabled, no credential: the packet is blocked.
Blocks(r) ==
    /\ work[r].at = "decide"
    /\ Writes(r, "blocked")
    /\ UNCHANGED <<packet, artifact, purge, room, calm>>

\* Reading the provider secrets throws before the handler's first try.
SecretsFail(r) ==
    /\ work[r].at = "decide"
    /\ Fails
    /\ Goes(r, "done")
    /\ UNCHANGED <<packet, artifact, purge>>

\* The deterministic adapter answers without a process.
AnswersItself(r) ==
    /\ work[r].at = "decide"
    /\ Goes(r, "artifact")
    /\ UNCHANGED <<packet, artifact, purge, room, calm>>

Launches(r) ==
    /\ work[r].at = "decide"
    /\ work' = [work EXCEPT ![r].at = "cli", ![r].ran = TRUE]
    /\ UNCHANGED <<packet, artifact, purge, room, calm>>

\* The run fails before its process starts; only a failed isolation carries
\* the record that is audited.
SpawnFails(r) ==
    /\ work[r].at = "decide"
    /\ \E isolated \in BOOLEAN :
         work' = [work EXCEPT ![r].at = "failing", ![r].ran = isolated]
    /\ UNCHANGED <<packet, artifact, purge, room, calm>>

\* The process closes: with a result, or with an exit code or an output the
\* host takes for a failure.
Returns(r) ==
    /\ work[r].at = "cli"
    /\ \E at \in {"artifact", "failing"} : Goes(r, at)
    /\ UNCHANGED <<packet, artifact, purge, room, calm>>

\* The Hermes CLI left a result that is missing or no JSON: the error that
\* readFile or JSON.parse throws carries no record of the run.
ReturnsUnread(r) ==
    /\ work[r].at = "cli"
    /\ work' = [work EXCEPT ![r].at = "failing", ![r].lost = TRUE]
    /\ UNCHANGED <<packet, artifact, purge, room, calm>>

\* The timeout sends SIGTERM and rejects without waiting for the exit: the
\* process may outlive the run, which nothing below refers to.
TimesOut(r) ==
    /\ work[r].at = "cli"
    /\ Goes(r, "failing")
    /\ UNCHANGED <<packet, artifact, purge, room, calm>>

(***************************************************************************)
(* How it ends: artifact, audit, status.                                   *)
(***************************************************************************)
WritesArtifact(r) ==
    /\ work[r].at = "artifact"
    /\ artifact' = TRUE
    /\ work' = [work EXCEPT ![r].at = "audit", ![r].made = TRUE]
    /\ UNCHANGED <<packet, purge, room, calm>>

ArtifactFails(r) ==
    /\ work[r].at = "artifact"
    /\ Fails
    /\ Goes(r, "recover")
    /\ UNCHANGED <<packet, artifact, purge>>

\* appendDelegationExecutionAudit, which does nothing for a run without an
\* record of its isolation, and the status write that follows it.  A credential
\* error of the CLI blocks the packet, any other failure fails it.
Outcome(at) == IF at = "audit" THEN "completed" ELSE "failed"
Verdicts(at) ==
    CASE at = "audit"   -> {"completed"}
      [] at = "failing" -> {"failed", "blocked"}
      [] at = "recover" -> {"failed"}
AuditOf_Bug(r) ==
    IF work[r].ran /\ ~work[r].lost /\ work[r].at # "failing"
    THEN work[r].audited \cup {Outcome(work[r].at)}
    ELSE work[r].audited

AuditOf(r) ==
    IF work[r].ran /\ ~work[r].lost
    THEN work[r].audited \cup {Outcome(work[r].at)}
    ELSE work[r].audited

Audit(r) ==
    /\ work[r].at \in {"failing", "audit", "recover"}
    /\ \E put \in Verdicts(work[r].at) :
         work' = [work EXCEPT ![r].audited = AuditOf(r),
                              ![r].put = put, ![r].at = "look"]
    /\ UNCHANGED <<packet, artifact, purge, room, calm>>

\* The append fails: within the finalisation it falls into the recovery,
\* anywhere else it leaves the handler before any status is written.
AuditFails(r) ==
    /\ work[r].at \in {"failing", "audit", "recover"}
    /\ work[r].ran /\ ~work[r].lost
    /\ Fails
    /\ Goes(r, IF work[r].at = "audit" THEN "recover" ELSE "done")
    /\ UNCHANGED <<packet, artifact, purge>>

(***************************************************************************)
(* executeAddonUserDataDelete: the listing reads every packet's status     *)
(* once; the loop then refuses what the listing called running, checks     *)
(* that the path is still a file and removes it.                           *)
(***************************************************************************)
ListsData ==
    /\ purge.at = "idle"
    /\ Uses("purges")
    /\ \E paths \in SUBSET {"packet", "artifact"} \ {{}} :
         purge' = [at |-> "packet", paths |-> paths, saw |-> packet.status,
                   sawArtifact |-> artifact]
    /\ UNCHANGED <<packet, artifact, work, calm>>

RemovesPacket ==
    "packet" \in purge.paths /\ purge.saw \notin {"running", "gone"}

DropsPacket ==
    /\ purge.at = "packet"
    /\ purge' = [purge EXCEPT !.at = "artifact"]
    /\ IF RemovesPacket
       THEN /\ packet' = Gone
            /\ work' = [w \in PacketRequests |->
                          IF work[w].at = "fill"
                          THEN [work[w] EXCEPT !.at = "adrift"] ELSE work[w]]
       ELSE UNCHANGED <<packet, work>>
    /\ UNCHANGED <<artifact, room, calm>>

DropsArtifact ==
    /\ purge.at = "artifact"
    /\ purge' = [purge EXCEPT !.at = "done"]
    /\ artifact' = (artifact /\ ~("artifact" \in purge.paths /\ purge.sawArtifact))
    /\ UNCHANGED <<packet, work, room, calm>>

(***************************************************************************)
(* The bridge dies: its requests end where they are; the files stay.       *)
(***************************************************************************)
Restart ==
    /\ Fails
    /\ work' = [w \in PacketRequests |->
                  IF work[w].at = "idle" THEN work[w]
                  ELSE [work[w] EXCEPT !.at = "done", !.seen = Blank]]
    /\ purge' = [purge EXCEPT !.at = IF purge.at = "idle" THEN "idle" ELSE "done"]
    /\ UNCHANGED <<packet, artifact>>

Advances(w) == Takes(w) \/ Look(w) \/ Open(w) \/ OpenFails(w) \/ Fill(w)
Executes(r) ==
    \/ Blocks(r) \/ SecretsFail(r) \/ AnswersItself(r) \/ Launches(r) \/ SpawnFails(r)
    \/ Returns(r) \/ ReturnsUnread(r) \/ TimesOut(r)
    \/ WritesArtifact(r) \/ ArtifactFails(r)
    \/ Audit(r) \/ AuditFails(r)

DelegationNext ==
    \/ \E w \in PacketRequests : Advances(w)
    \/ \E r \in Starts : Executes(r)
    \/ ListsData \/ DropsPacket \/ DropsArtifact
    \/ Restart

DelegationSpec == DelegationInit /\ [][DelegationNext]_delegationVars

\* Each await of a request ends: file operations settle, and a CLI closes or
\* is given up at its timeout (at most 900 s).
DelegationFairness ==
    /\ \A w \in PacketRequests : WF_delegationVars(work[w].at # "idle" /\ Advances(w))
    /\ \A r \in Starts : WF_delegationVars(Executes(r))

DelegationFairSpec == DelegationSpec /\ DelegationFairness

(***************************************************************************)
(* Properties.                                                             *)
(***************************************************************************)
(***************************************************************************)
(* The status tells /addons/running-work, which blocks an uninstall, where *)
(* a packet stands, although requests write back texts they read before    *)
(* others wrote.                                                           *)
(*  - A packet that says "completed" names an artifact that a run has      *)
(*    written and audited as completed, and only a deletion of user data   *)
(*    can have removed the file.                                           *)
(*  - Without a crash or an I/O error none stays "running" once every      *)
(*    start has answered.                                                  *)
(*  - A start nobody interferes with shows as running from before its      *)
(*    process begins until its outcome is being written.                   *)
(***************************************************************************)
Backed ==
    /\ packet.named
    /\ \E r \in Starts : work[r].made
                       /\ (work[r].ran => "completed" \in work[r].audited)
    /\ artifact \/ (purge.at = "done" /\ "artifact" \in purge.paths)
Undisturbed(r) ==
    /\ \A w \in PacketRequests \ {r} : work[w].put = "none"
    /\ purge.at = "idle"

StatusTellsWork ==
    /\ packet.status = "completed" => Backed
    /\ packet.status = "running" /\ calm => \E r \in Starts : ~Resting(r)
    /\ \A r \in Starts :
         /\ work[r].at \in {"cli", "failing", "artifact", "audit", "recover"}
         /\ work[r].put = "running" /\ Undisturbed(r)
         => packet.status = "running"

(* Without a crash or an I/O error a start that executed is in the         *)
(* governance audit when it answers, also when the packet was removed      *)
(* under the run; the one exception, an execution whose result the host    *)
(* could not read, is never taken for a completed one.                     *)
ExecutionsAreAudited ==
    calm => \A r \in Starts :
        work[r].at = "done" /\ work[r].ran =>
            \/ work[r].audited # {}
            \/ work[r].lost /\ ~work[r].made

(* Broken by the code, which leaves out that exception: each run appends a *)
(* governance audit entry.                                                 *)
EachRunIsAudited ==
    calm => \A r \in Starts :
        work[r].at = "done" /\ work[r].ran => work[r].audited # {}

(* Every start and every cancel answers.                                   *)
RequestsAnswer ==
    \A w \in PacketRequests : work[w].at # "idle" ~> work[w].at = "done"

(* Broken by the code: the deletion of user data refuses running packets.  *)
RunningPacketsAreKept ==
    [][packet.status = "running" => packet'.status # "gone"]_delegationVars
=============================================================================
