---------------------- MODULE AddonDelegation_proofs ----------------------
(***************************************************************************)
(* Proofs about a delegation packet.  DelegationInv is inductive: it ties  *)
(* what every request is about to write to what it has already done (a     *)
(* request that writes "completed" has made the artifact and the audit     *)
(* entry), says who answers for a packet that reads running, and follows   *)
(* the one start nobody interferes with.  The status property and the      *)
(* completeness of the audit follow.                                       *)
(***************************************************************************)
EXTENDS AddonDelegation, TLAPS

Work == [at : Stages, put : Puts, seen : Texts, ran : BOOLEAN, lost : BOOLEAN,
         made : BOOLEAN, audited : SUBSET {"completed", "failed"}]

WorkTyped == work \in [PacketRequests -> Work]

Filing == {"look", "open", "fill", "adrift"}

\* A run whose artifact and audit back the word "completed".
Proven(r) ==
  /\ work[r].made
  /\ work[r].ran => "completed" \in work[r].audited

\* What the place of a request says of what it holds.
Fit(w) ==
  /\ work[w].at = "idle" => work[w].put = "none"
  /\ work[w].at \in Filing => work[w].put # "none"
  /\ work[w].put \in {"running", "completed", "result"} => w \in Starts
  /\ work[w].at \in {"decide", "cli", "failing", "artifact", "audit"} =>
       work[w].put = "running"
  /\ work[w].at = "audit" => work[w].made
  /\ work[w].put = "result" => work[w].at # "look"
  /\ work[w].at \in Filing /\ work[w].put \in {"completed", "result"} => Proven(w)
  /\ work[w].at \in Filing /\ work[w].put = "result" =>
       \/ work[w].seen.status = "blank"
       \/ work[w].seen.status = "completed" /\ work[w].seen.named
  /\ work[w].made =>
       \/ work[w].at \in {"audit", "recover", "done"}
       \/ work[w].at \in Filing /\ work[w].put \in {"completed", "result", "failed"}
  /\ work[w].lost =>
       /\ ~work[w].made
       /\ \/ work[w].at \in {"failing", "done"}
          \/ work[w].at \in Filing /\ work[w].put \in {"failed", "blocked"}

WorkFits == \A w \in PacketRequests : Fit(w)

CompletedIsProven ==
  packet.status = "completed" => packet.named /\ \E r \in Starts : Proven(r)

ArtifactsStay ==
  (\E r \in Starts : work[r].made) =>
    artifact \/ (purge.at = "done" /\ "artifact" \in purge.paths)

\* The start that answers for a running packet still has its write to come.
PacketIsOwned ==
  packet.status = "running" /\ calm =>
    \E r \in Starts : work[r].at \notin {"idle", "done", "adrift"}

\* What a start finds and makes of the packet while nobody else came by.
Alone(r) ==
  /\ work[r].put = "none" => packet.status = "queued"
  /\ work[r].put = "running" =>
       /\ work[r].at = "look" => packet.status = "queued"
       /\ work[r].at \in {"open", "fill"} => work[r].seen.status = "queued"
       /\ work[r].at # "adrift"
       /\ work[r].at \in {"decide", "cli", "failing", "artifact", "audit", "recover"} =>
            packet.status = "running"

AloneIsKept == \A r \in Starts : Undisturbed(r) => Alone(r)

RunsAreAudited ==
  calm => \A r \in Starts :
    work[r].ran /\ ~work[r].lost /\ work[r].audited = {} =>
      work[r].at \in {"cli", "failing", "artifact", "audit", "recover"}

DelegationInv ==
  /\ DelegationTypeOK /\ WorkFits
  /\ CompletedIsProven /\ ArtifactsStay /\ PacketIsOwned /\ AloneIsKept /\ RunsAreAudited

-----------------------------------------------------------------------------
(***************************************************************************)
(* What a step writes into the record of a request.                        *)
(***************************************************************************)

Others(w) == \A v \in PacketRequests \ {w} : work'[v] = work[v]

\* The fields of the request's record after the step.
BecomesLost(w, at, put, seen, ran, lost, made, audited) ==
  /\ work'[w].at = at /\ work'[w].put = put /\ work'[w].seen = seen
  /\ (work'[w].ran <=> ran) /\ (work'[w].lost <=> lost)
  /\ (work'[w].made <=> made) /\ work'[w].audited = audited

\* ... of a step that loses no record of a run.
Becomes(w, at, put, seen, ran, made, audited) ==
  BecomesLost(w, at, put, seen, ran, work[w].lost, made, audited)

LEMMA WorkFields ==
  ASSUME NEW x \in Work
  PROVE  /\ x.at \in Stages /\ x.put \in Puts /\ x.seen \in Texts
         /\ x.ran \in BOOLEAN /\ x.lost \in BOOLEAN /\ x.made \in BOOLEAN
         /\ x.audited \subseteq {"completed", "failed"}
  BY DEF Work

LEMMA WorkStep ==
  ASSUME WorkTyped, NEW w \in PacketRequests, NEW x \in Work,
         work' = [work EXCEPT ![w] = x]
  PROVE  WorkTyped' /\ Others(w) /\ work'[w] = x
  BY DEF WorkTyped, Others

LEMMA GoesTo ==
  ASSUME WorkTyped, NEW w \in PacketRequests, NEW at \in Stages, Goes(w, at)
  PROVE  /\ WorkTyped' /\ Others(w)
         /\ Becomes(w, at, work[w].put, Blank, work[w].ran, work[w].made, work[w].audited)
<1> DEFINE x == [work[w] EXCEPT !.at = at, !.seen = Blank]
<1>1. work[w] \in Work
  BY DEF WorkTyped
<1>2. Blank \in Texts
  BY DEF Blank, Texts, Standings
<1>3. /\ x \in Work
      /\ x.at = at /\ x.put = work[w].put /\ x.seen = Blank
      /\ (x.ran <=> work[w].ran) /\ (x.lost <=> work[w].lost) /\ (x.made <=> work[w].made)
      /\ x.audited = work[w].audited
  BY <1>1, <1>2 DEF Work
<1>4. work' = [work EXCEPT ![w] = x]
  BY DEF Goes
<1> HIDE DEF x
<1>5. WorkTyped' /\ Others(w) /\ work'[w] = x
  BY <1>3, <1>4, WorkStep
<1>6. QED
  BY <1>3, <1>5 DEF Becomes, BecomesLost

LEMMA WritesTo ==
  ASSUME WorkTyped, NEW w \in PacketRequests, NEW put \in Puts, Writes(w, put)
  PROVE  /\ WorkTyped' /\ Others(w)
         /\ Becomes(w, "look", put, work[w].seen, work[w].ran, work[w].made, work[w].audited)
<1> DEFINE x == [work[w] EXCEPT !.put = put, !.at = "look"]
<1>1. work[w] \in Work
  BY DEF WorkTyped
<1>2. /\ x \in Work
      /\ x.at = "look" /\ x.put = put /\ x.seen = work[w].seen
      /\ (x.ran <=> work[w].ran) /\ (x.lost <=> work[w].lost) /\ (x.made <=> work[w].made)
      /\ x.audited = work[w].audited
  BY <1>1 DEF Work, Stages
<1>3. work' = [work EXCEPT ![w] = x]
  BY DEF Writes
<1> HIDE DEF x
<1>4. WorkTyped' /\ Others(w) /\ work'[w] = x
  BY <1>2, <1>3, WorkStep
<1>5. QED
  BY <1>2, <1>4 DEF Becomes, BecomesLost

LEMMA OpensTo ==
  ASSUME WorkTyped, NEW w \in PacketRequests, packet \in Texts,
         work' = [work EXCEPT ![w].at = "fill"]
  PROVE  /\ WorkTyped' /\ Others(w)
         /\ Becomes(w, "fill", work[w].put, work[w].seen, work[w].ran, work[w].made,
                    work[w].audited)
<1> DEFINE x == [work[w] EXCEPT !.at = "fill"]
<1>1. work[w] \in Work
  BY DEF WorkTyped
<1>2. /\ x \in Work
      /\ x.at = "fill"
      /\ x.put = work[w].put
      /\ x.seen = work[w].seen
      /\ (x.ran <=> work[w].ran)
      /\ (x.lost <=> work[w].lost) /\ (x.made <=> work[w].made)
      /\ x.audited = work[w].audited
  BY <1>1 DEF Work, Stages, Puts
<1>3. work' = [work EXCEPT ![w] = x]
  BY DEF WorkTyped
<1> HIDE DEF x
<1>4. WorkTyped' /\ Others(w) /\ work'[w] = x
  BY <1>2, <1>3, WorkStep
<1>5. QED
  BY <1>2, <1>4 DEF Becomes, BecomesLost

LEMMA LooksTo ==
  ASSUME WorkTyped, NEW w \in PacketRequests, packet \in Texts,
         work' = [work EXCEPT ![w].seen = packet, ![w].at = "open"]
  PROVE  /\ WorkTyped' /\ Others(w)
         /\ Becomes(w, "open", work[w].put, packet, work[w].ran, work[w].made, work[w].audited)
<1> DEFINE x == [work[w] EXCEPT !.seen = packet, !.at = "open"]
<1>1. work[w] \in Work
  BY DEF WorkTyped
<1>2. /\ x \in Work
      /\ x.at = "open"
      /\ x.put = work[w].put
      /\ x.seen = packet
      /\ (x.ran <=> work[w].ran)
      /\ (x.lost <=> work[w].lost) /\ (x.made <=> work[w].made)
      /\ x.audited = work[w].audited
  BY <1>1 DEF Work, Stages, Puts
<1>3. work' = [work EXCEPT ![w] = x]
  BY DEF WorkTyped
<1> HIDE DEF x
<1>4. WorkTyped' /\ Others(w) /\ work'[w] = x
  BY <1>2, <1>3, WorkStep
<1>5. QED
  BY <1>2, <1>4 DEF Becomes, BecomesLost

LEMMA CompletesTo ==
  ASSUME WorkTyped, NEW w \in PacketRequests, NEW text \in Texts,
         work' = [work EXCEPT ![w].put = "result", ![w].seen = text, ![w].at = "open"]
  PROVE  /\ WorkTyped' /\ Others(w)
         /\ Becomes(w, "open", "result", text, work[w].ran, work[w].made, work[w].audited)
<1> DEFINE x == [work[w] EXCEPT !.put = "result", !.seen = text, !.at = "open"]
<1>1. work[w] \in Work
  BY DEF WorkTyped
<1>2. /\ x \in Work
      /\ x.at = "open"
      /\ x.put = "result"
      /\ x.seen = text
      /\ (x.ran <=> work[w].ran)
      /\ (x.lost <=> work[w].lost) /\ (x.made <=> work[w].made)
      /\ x.audited = work[w].audited
  BY <1>1 DEF Work, Stages, Puts
<1>3. work' = [work EXCEPT ![w] = x]
  BY DEF WorkTyped
<1> HIDE DEF x
<1>4. WorkTyped' /\ Others(w) /\ work'[w] = x
  BY <1>2, <1>3, WorkStep
<1>5. QED
  BY <1>2, <1>4 DEF Becomes, BecomesLost

LEMMA RunsTo ==
  ASSUME WorkTyped, NEW w \in PacketRequests, NEW at \in Stages, NEW ran \in BOOLEAN,
         work' = [work EXCEPT ![w].at = at, ![w].ran = ran]
  PROVE  /\ WorkTyped' /\ Others(w)
         /\ Becomes(w, at, work[w].put, work[w].seen, ran, work[w].made, work[w].audited)
<1> DEFINE x == [work[w] EXCEPT !.at = at, !.ran = ran]
<1>1. work[w] \in Work
  BY DEF WorkTyped
<1>2. /\ x \in Work
      /\ x.at = at
      /\ x.put = work[w].put
      /\ x.seen = work[w].seen
      /\ (x.ran <=> ran)
      /\ (x.lost <=> work[w].lost) /\ (x.made <=> work[w].made)
      /\ x.audited = work[w].audited
  BY <1>1 DEF Work, Stages, Puts
<1>3. work' = [work EXCEPT ![w] = x]
  BY DEF WorkTyped
<1> HIDE DEF x
<1>4. WorkTyped' /\ Others(w) /\ work'[w] = x
  BY <1>2, <1>3, WorkStep
<1>5. QED
  BY <1>2, <1>4 DEF Becomes, BecomesLost

LEMMA LosesTo ==
  ASSUME WorkTyped, NEW w \in PacketRequests,
         work' = [work EXCEPT ![w].at = "failing", ![w].lost = TRUE]
  PROVE  /\ WorkTyped' /\ Others(w)
         /\ BecomesLost(w, "failing", work[w].put, work[w].seen, work[w].ran, TRUE,
                        work[w].made, work[w].audited)
<1> DEFINE x == [work[w] EXCEPT !.at = "failing", !.lost = TRUE]
<1>1. work[w] \in Work
  BY DEF WorkTyped
<1>2. /\ x \in Work
      /\ x.at = "failing"
      /\ x.put = work[w].put
      /\ x.seen = work[w].seen
      /\ (x.ran <=> work[w].ran)
      /\ (x.lost <=> TRUE) /\ (x.made <=> work[w].made)
      /\ x.audited = work[w].audited
  BY <1>1 DEF Work, Stages, Puts
<1>3. work' = [work EXCEPT ![w] = x]
  BY DEF WorkTyped
<1> HIDE DEF x
<1>4. WorkTyped' /\ Others(w) /\ work'[w] = x
  BY <1>2, <1>3, WorkStep
<1>5. QED
  BY <1>2, <1>4 DEF BecomesLost

LEMMA MakesTo ==
  ASSUME WorkTyped, NEW w \in PacketRequests,
         work' = [work EXCEPT ![w].at = "audit", ![w].made = TRUE]
  PROVE  /\ WorkTyped' /\ Others(w)
         /\ Becomes(w, "audit", work[w].put, work[w].seen, work[w].ran, TRUE, work[w].audited)
<1> DEFINE x == [work[w] EXCEPT !.at = "audit", !.made = TRUE]
<1>1. work[w] \in Work
  BY DEF WorkTyped
<1>2. /\ x \in Work
      /\ x.at = "audit"
      /\ x.put = work[w].put
      /\ x.seen = work[w].seen
      /\ (x.ran <=> work[w].ran)
      /\ (x.lost <=> work[w].lost) /\ (x.made <=> TRUE)
      /\ x.audited = work[w].audited
  BY <1>1 DEF Work, Stages, Puts
<1>3. work' = [work EXCEPT ![w] = x]
  BY DEF WorkTyped
<1> HIDE DEF x
<1>4. WorkTyped' /\ Others(w) /\ work'[w] = x
  BY <1>2, <1>3, WorkStep
<1>5. QED
  BY <1>2, <1>4 DEF Becomes, BecomesLost

LEMMA AuditsTo ==
  ASSUME WorkTyped, NEW w \in PacketRequests, NEW put \in Puts,
         NEW audited \in SUBSET {"completed", "failed"},
         work' = [work EXCEPT ![w].audited = audited, ![w].put = put, ![w].at = "look"]
  PROVE  /\ WorkTyped' /\ Others(w)
         /\ Becomes(w, "look", put, work[w].seen, work[w].ran, work[w].made, audited)
<1> DEFINE x == [work[w] EXCEPT !.audited = audited, !.put = put, !.at = "look"]
<1>1. work[w] \in Work
  BY DEF WorkTyped
<1>2. /\ x \in Work
      /\ x.at = "look"
      /\ x.put = put
      /\ x.seen = work[w].seen
      /\ (x.ran <=> work[w].ran)
      /\ (x.lost <=> work[w].lost) /\ (x.made <=> work[w].made)
      /\ x.audited = audited
  BY <1>1 DEF Work, Stages, Puts
<1>3. work' = [work EXCEPT ![w] = x]
  BY DEF WorkTyped
<1> HIDE DEF x
<1>4. WorkTyped' /\ Others(w) /\ work'[w] = x
  BY <1>2, <1>3, WorkStep
<1>5. QED
  BY <1>2, <1>4 DEF Becomes, BecomesLost

-----------------------------------------------------------------------------
(***************************************************************************)
(* What a step of request w must do for the invariant to survive it.       *)
(***************************************************************************)

Rest == {"idle", "done", "adrift"}
Working == {"cli", "failing", "artifact", "audit", "recover"}

Typed ==
  /\ packet \in Texts /\ artifact \in BOOLEAN /\ calm \in BOOLEAN
  /\ room \in [starts : Nat, cancels : Nat, purges : Nat, incidents : Nat]

Keeps(w) ==
  /\ Fit(w)'
  /\ Proven(w) => Proven(w)'
  /\ work'[w].put = "none" => work[w].put = "none" /\ packet' = packet
  /\ packet'.status = "completed" =>
       \/ packet.status = "completed" /\ packet'.named = packet.named
       \/ packet'.named /\ w \in Starts /\ Proven(w)'
  /\ work'[w].made => work[w].made \/ artifact'
  /\ artifact => artifact'
  /\ calm' => calm
  /\ packet'.status = "running" /\ calm' =>
       \/ w \in Starts /\ work'[w].at \notin Rest
       \/ packet.status = "running" /\ (w \in Starts => work[w].at \in Rest)
  /\ w \in Starts /\ Undisturbed(w) => Alone(w)'
  /\ w \in Starts /\ calm' /\ work'[w].ran /\ ~work'[w].lost /\ work'[w].audited = {} =>
       work'[w].at \in Working

LEMMA PacketStep ==
  ASSUME DelegationAssumption, DelegationInv, NEW w \in PacketRequests,
         WorkTyped', Others(w), Typed', purge' = purge, Keeps(w)
  PROVE  DelegationInv'
<1> USE DEF Others
<1>0. /\ Starts \subseteq PacketRequests
      /\ WorkFits /\ CompletedIsProven /\ ArtifactsStay /\ PacketIsOwned
      /\ AloneIsKept /\ RunsAreAudited /\ DelegationTypeOK
  BY DEF DelegationInv, PacketRequests
<1>1. DelegationTypeOK'
  BY <1>0 DEF DelegationTypeOK, WorkTyped, Work, Typed
<1>2. WorkFits'
  <2> SUFFICES ASSUME NEW v \in PacketRequests PROVE Fit(v)'
    BY DEF WorkFits
  <2>1. CASE v = w
    BY <2>1 DEF Keeps
  <2>2. CASE v # w
    <3>1. work'[v] = work[v] /\ Fit(v)
      BY <2>2, <1>0 DEF WorkFits
    <3>2. QED
      BY <3>1 DEF Fit, Proven
  <2>3. QED
    BY <2>1, <2>2
<1>3. ASSUME NEW r \in Starts, Proven(r) PROVE Proven(r)'
  <2>1. CASE r = w
    BY <2>1, <1>3 DEF Keeps
  <2>2. CASE r # w
    BY <2>2, <1>3, <1>0 DEF Proven
  <2>3. QED
    BY <2>1, <2>2
<1>4. CompletedIsProven'
  <2> SUFFICES ASSUME packet'.status = "completed"
               PROVE  packet'.named /\ \E r \in Starts : Proven(r)'
    BY DEF CompletedIsProven
  <2>1. CASE packet.status = "completed" /\ packet'.named = packet.named
    <3>1. packet.named /\ \E r \in Starts : Proven(r)
      BY <2>1, <1>0 DEF CompletedIsProven
    <3>2. QED
      BY <3>1, <2>1, <1>3
  <2>2. CASE packet'.named /\ w \in Starts /\ Proven(w)'
    BY <2>2
  <2>3. QED
    BY <2>1, <2>2 DEF Keeps
<1>5. ArtifactsStay'
  <2> SUFFICES ASSUME NEW r \in Starts, work'[r].made
               PROVE  artifact' \/ (purge.at = "done" /\ "artifact" \in purge.paths)
    BY DEF ArtifactsStay
  <2>1. work[r].made \/ artifact'
    BY <1>0 DEF Keeps
  <2>2. QED
    BY <2>1, <1>0 DEF ArtifactsStay, Keeps
<1>6. PacketIsOwned'
  <2> SUFFICES ASSUME packet'.status = "running", calm'
               PROVE  \E r \in Starts : work'[r].at \notin Rest
    BY DEF PacketIsOwned, Rest
  <2>1. CASE w \in Starts /\ work'[w].at \notin Rest
    BY <2>1
  <2>2. CASE packet.status = "running" /\ (w \in Starts => work[w].at \in Rest)
    <3>1. PICK r \in Starts : work[r].at \notin Rest
      BY <2>2, <1>0 DEF PacketIsOwned, Rest, Keeps
    <3>2. r # w
      BY <3>1, <2>2
    <3>3. QED
      BY <3>1, <3>2, <1>0
  <2>3. QED
    BY <2>1, <2>2 DEF Keeps
<1>7. AloneIsKept'
  <2> SUFFICES ASSUME NEW r \in Starts, Undisturbed(r)' PROVE Alone(r)'
    BY DEF AloneIsKept
  <2>1. Undisturbed(r)
    <3> SUFFICES ASSUME NEW v \in PacketRequests \ {r} PROVE work[v].put = "none"
      BY DEF Undisturbed
    <3>1. work'[v].put = "none"
      BY DEF Undisturbed
    <3>2. CASE v = w
      BY <3>1, <3>2 DEF Keeps
    <3>3. CASE v # w
      BY <3>1, <3>3
    <3>4. QED
      BY <3>2, <3>3
  <2>2. CASE r = w
    BY <2>1, <2>2 DEF Keeps
  <2>3. CASE r # w
    <3>1. work'[w].put = "none"
      BY <2>3 DEF Undisturbed
    <3>2. packet' = packet /\ work'[r] = work[r]
      BY <3>1, <2>3, <1>0 DEF Keeps
    <3>3. Alone(r)
      BY <2>1, <1>0 DEF AloneIsKept
    <3>4. QED
      BY <3>2, <3>3 DEF Alone
  <2>4. QED
    BY <2>2, <2>3
<1>8. RunsAreAudited'
  <2> SUFFICES ASSUME calm', NEW r \in Starts, work'[r].ran, ~work'[r].lost, work'[r].audited = {}
               PROVE  work'[r].at \in Working
    BY DEF RunsAreAudited, Working
  <2>1. CASE r = w
    BY <2>1 DEF Keeps
  <2>2. CASE r # w
    <3>1. work'[r] = work[r] /\ calm
      BY <2>2, <1>0 DEF Keeps
    <3>2. QED
      BY <3>1, <1>0 DEF RunsAreAudited, Working
  <2>3. QED
    BY <2>1, <2>2
<1>9. QED
  BY <1>1, <1>2, <1>4, <1>5, <1>6, <1>7, <1>8 DEF DelegationInv

\* What the invariant says of the acting request.
LEMMA ActorFacts ==
  ASSUME DelegationInv, NEW w \in PacketRequests
  PROVE  /\ WorkTyped /\ Typed /\ Fit(w)
         /\ work[w].at \in Stages /\ work[w].put \in Puts /\ work[w].seen \in Texts
         /\ work[w].ran \in BOOLEAN /\ work[w].lost \in BOOLEAN /\ work[w].made \in BOOLEAN
         /\ work[w].audited \subseteq {"completed", "failed"}
         /\ w \in Starts /\ Undisturbed(w) => Alone(w)
         /\ w \in Starts /\ calm /\ work[w].ran /\ ~work[w].lost /\ work[w].audited = {}
              => work[w].at \in Working
<1>1. WorkTyped /\ Typed
  BY DEF DelegationInv, DelegationTypeOK, WorkTyped, Work, Typed
<1>2. work[w] \in Work
  BY <1>1 DEF WorkTyped
<1>3. /\ work[w].at \in Stages /\ work[w].put \in Puts /\ work[w].seen \in Texts
      /\ work[w].ran \in BOOLEAN /\ work[w].lost \in BOOLEAN /\ work[w].made \in BOOLEAN
      /\ work[w].audited \subseteq {"completed", "failed"}
  BY <1>2, WorkFields
<1>4. Fit(w)
  BY DEF DelegationInv, WorkFits
<1>5. w \in Starts /\ Undisturbed(w) => Alone(w)
  BY DEF DelegationInv, AloneIsKept
<1>6. w \in Starts /\ calm /\ work[w].ran /\ ~work[w].lost /\ work[w].audited = {}
              => work[w].at \in Working
  BY DEF DelegationInv, RunsAreAudited, Working
<1>7. QED
  BY <1>1, <1>3, <1>4, <1>5, <1>6

LEMMA RoomTyped ==
  ASSUME Typed, NEW what \in {"starts", "cancels", "purges", "incidents"}, Uses(what)
  PROVE  room' \in [starts : Nat, cancels : Nat, purges : Nat, incidents : Nat]
<1>1. room[what] \in Nat
  BY DEF Typed
<1> DEFINE n == room[what] - 1
<1>2. n \in Nat
  BY <1>1 DEF Uses
<1>3. room' = [room EXCEPT ![what] = n]
  BY DEF Uses
<1> HIDE DEF n
<1>4. QED
  BY <1>2, <1>3 DEF Typed

LEMMA StandingSets ==
  /\ Blank \in Texts /\ Blank.status = "blank" /\ ~Blank.named
  /\ Gone \in Texts /\ Gone.status = "gone"
  BY DEF Blank, Gone, Texts, Standings

LEMMA TakesKeeps ==
  ASSUME DelegationAssumption, DelegationInv, NEW w \in PacketRequests, Takes(w)
  PROVE  DelegationInv'
<1>0. /\ WorkTyped /\ Typed /\ Fit(w)
      /\ w \in Starts /\ Undisturbed(w) => Alone(w)
      /\ w \in Starts /\ calm /\ work[w].ran /\ ~work[w].lost /\ work[w].audited = {}
              => work[w].at \in Working
      /\ work[w].made \in BOOLEAN /\ work[w].ran \in BOOLEAN /\ work[w].lost \in BOOLEAN
  BY ActorFacts
<1>1. Typed'
  <2>1. \E what \in {"starts", "cancels"} : Uses(what)
    BY DEF Takes
  <2>2. room' \in [starts : Nat, cancels : Nat, purges : Nat, incidents : Nat]
    BY <2>1, <1>0, RoomTyped
  <2>3. QED
    BY <2>2, <1>0 DEF Takes, Typed
<1>2. CASE packet.status \in Finished
  <2>1. Goes(w, "done")
    BY <1>2 DEF Takes
  <2>2. /\ WorkTyped' /\ Others(w)
        /\ Becomes(w, "done", work[w].put, Blank, work[w].ran, work[w].made, work[w].audited)
    BY <2>1, <1>0, GoesTo DEF Stages
  <2>3. Keeps(w)
    BY <2>2, <1>0, <1>2
       DEF Keeps, Becomes, BecomesLost, Fit, Proven, Filing, Rest, Working, Alone, Takes, Finished
  <2>4. QED
    BY <2>2, <2>3, <1>1, PacketStep DEF Takes
<1>3. CASE packet.status \notin Finished
  <2>1. PICK put \in {"running", "cancelled"} :
          /\ Writes(w, put)
          /\ put = "running" <=> w \in Starts
    BY <1>3 DEF Takes
  <2>2. /\ WorkTyped' /\ Others(w)
        /\ Becomes(w, "look", put, work[w].seen, work[w].ran, work[w].made, work[w].audited)
    BY <2>1, <1>0, WritesTo DEF Puts
  <2>3. Keeps(w)
    BY <2>1, <2>2, <1>0, <1>3
       DEF Keeps, Becomes, BecomesLost, Fit, Proven, Filing, Rest, Working, Alone, Takes, Finished
  <2>4. QED
    BY <2>2, <2>3, <1>1, PacketStep DEF Takes
<1>4. QED
  BY <1>2, <1>3

LEMMA LookKeeps ==
  ASSUME DelegationAssumption, DelegationInv, NEW w \in PacketRequests, Look(w)
  PROVE  DelegationInv'
<1>0. /\ WorkTyped /\ Typed /\ Fit(w)
      /\ w \in Starts /\ Undisturbed(w) => Alone(w)
      /\ w \in Starts /\ calm /\ work[w].ran /\ ~work[w].lost /\ work[w].audited = {}
              => work[w].at \in Working
      /\ work[w].at \in Stages /\ work[w].put \in Puts /\ work[w].seen \in Texts
      /\ work[w].ran \in BOOLEAN /\ work[w].lost \in BOOLEAN /\ work[w].made \in BOOLEAN
      /\ work[w].audited \subseteq {"completed", "failed"}
  BY ActorFacts
<1>1. Typed'
  BY <1>0 DEF Look, Typed
<1>2. CASE packet.status = "gone"
  <2>1. PICK at \in {"recover", "done"} :
          /\ Goes(w, at)
          /\ at = "recover" <=> work[w].put \in {"completed", "result"}
    BY <1>2 DEF Look, Throws
  <2>2. /\ WorkTyped' /\ Others(w)
        /\ Becomes(w, at, work[w].put, Blank, work[w].ran, work[w].made, work[w].audited)
    BY <2>1, <1>0, GoesTo DEF Stages
  <2>3. Keeps(w)
    BY <2>1, <2>2, <1>0, <1>2
       DEF Keeps, Becomes, BecomesLost, Fit, Proven, Filing, Rest, Working, Alone, Look
  <2>4. QED
    BY <2>2, <2>3, <1>1, PacketStep DEF Look
<1>3. CASE packet.status # "gone"
  <2>1. work' = [work EXCEPT ![w].seen = packet, ![w].at = "open"]
    BY <1>3 DEF Look
  <2>2. /\ WorkTyped' /\ Others(w)
        /\ Becomes(w, "open", work[w].put, packet, work[w].ran, work[w].made, work[w].audited)
    BY <2>1, <1>0, LooksTo DEF Typed
  <2>3. Keeps(w)
    BY <2>2, <1>0, <1>3 DEF Keeps, Becomes, BecomesLost, Fit, Proven, Filing, Rest, Working, Alone, Look
  <2>4. QED
    BY <2>2, <2>3, <1>1, PacketStep DEF Look
<1>4. QED
  BY <1>2, <1>3

LEMMA OpenKeeps ==
  ASSUME DelegationAssumption, DelegationInv, NEW w \in PacketRequests, Open(w)
  PROVE  DelegationInv'
<1>0. /\ WorkTyped /\ Typed /\ Fit(w)
      /\ w \in Starts /\ Undisturbed(w) => Alone(w)
      /\ w \in Starts /\ calm /\ work[w].ran /\ ~work[w].lost /\ work[w].audited = {}
              => work[w].at \in Working
      /\ work[w].at \in Stages /\ work[w].put \in Puts /\ work[w].seen \in Texts
      /\ work[w].ran \in BOOLEAN /\ work[w].lost \in BOOLEAN /\ work[w].made \in BOOLEAN
      /\ work[w].audited \subseteq {"completed", "failed"}
  BY ActorFacts
<1>1. Typed'
  BY <1>0, StandingSets DEF Open, Typed
<1>2. /\ WorkTyped' /\ Others(w)
      /\ Becomes(w, "fill", work[w].put, work[w].seen, work[w].ran, work[w].made,
                 work[w].audited)
  BY <1>0, OpensTo DEF Open, Typed
<1>3. Keeps(w)
  BY <1>0, <1>2, StandingSets
     DEF Keeps, Becomes, BecomesLost, Fit, Proven, Filing, Rest, Working, Alone, Open
<1>4. QED
  BY <1>1, <1>2, <1>3, PacketStep DEF Open


LEMMA OpenFailsKeeps ==
  ASSUME DelegationAssumption, DelegationInv, NEW w \in PacketRequests, OpenFails(w)
  PROVE  DelegationInv'
<1>0. /\ WorkTyped /\ Typed /\ Fit(w)
      /\ w \in Starts /\ Undisturbed(w) => Alone(w)
      /\ w \in Starts /\ calm /\ work[w].ran /\ ~work[w].lost /\ work[w].audited = {}
              => work[w].at \in Working
      /\ work[w].at \in Stages /\ work[w].put \in Puts /\ work[w].seen \in Texts
      /\ work[w].ran \in BOOLEAN /\ work[w].lost \in BOOLEAN /\ work[w].made \in BOOLEAN
      /\ work[w].audited \subseteq {"completed", "failed"}
  BY ActorFacts
<1>1. Typed' /\ calm' = FALSE
  <2>1. Uses("incidents") /\ calm' = FALSE
    BY DEF OpenFails, Fails
  <2>2. room' \in [starts : Nat, cancels : Nat, purges : Nat, incidents : Nat]
    BY <2>1, <1>0, RoomTyped
  <2>3. QED
    BY <2>1, <2>2, <1>0 DEF OpenFails, Typed
<1>2. PICK at \in {"recover", "done"} :
        /\ Goes(w, at)
        /\ at = "recover" <=> work[w].put \in {"completed", "result"}
  BY DEF OpenFails, Throws
<1>3. /\ WorkTyped' /\ Others(w)
      /\ Becomes(w, at, work[w].put, Blank, work[w].ran, work[w].made, work[w].audited)
  BY <1>2, <1>0, GoesTo DEF Stages
<1>4. Keeps(w)
  BY <1>1, <1>2, <1>3, <1>0
     DEF Keeps, Becomes, BecomesLost, Fit, Proven, Filing, Rest, Working, Alone, OpenFails
<1>5. QED
  BY <1>1, <1>3, <1>4, PacketStep DEF OpenFails

\* A rewritten text says what was put, unless it had no status line.
LEMMA ReplacedText ==
  ASSUME NEW text \in Texts, NEW put \in Puts, put # "none"
  PROVE  /\ Replaced(text, put) \in Texts
         /\ text.status = "blank" => Replaced(text, put).status = "blank"
         /\ text.status # "blank" /\ put # "result" => Replaced(text, put).status = put
         /\ text.status # "blank" /\ put = "completed" => Replaced(text, put).named
         /\ text.status # "blank" /\ put = "result" => Replaced(text, put) = text
<1>1. CASE text.status = "blank"
  <2>1. Replaced(text, put) = [text EXCEPT !.named = (put = "result")]
    BY <1>1 DEF Replaced
  <2>2. QED
    BY <2>1, <1>1 DEF Texts
<1>2. CASE text.status # "blank" /\ put = "result"
  BY <1>2 DEF Replaced
<1>3. CASE text.status # "blank" /\ put # "result"
  <2>1. Replaced(text, put) = [status |-> put, named |-> text.named \/ put = "completed"]
    BY <1>3 DEF Replaced
  <2> DEFINE named == text.named \/ put = "completed"
  <2>2. put \in Standings /\ named \in BOOLEAN /\ (put = "completed" => named)
    BY <1>3 DEF Puts, Standings, Texts
  <2> HIDE DEF named
  <2>3. [status |-> put, named |-> named] \in Texts
    BY <2>2 DEF Texts
  <2>4. Replaced(text, put) = [status |-> put, named |-> named]
    BY <2>1 DEF named
  <2>5. QED
    BY <2>2, <2>3, <2>4, <1>3
<1>4. QED
  BY <1>1, <1>2, <1>3

LEMMA FillKeeps ==
  ASSUME DelegationAssumption, DelegationInv, NEW w \in PacketRequests, Fill(w)
  PROVE  DelegationInv'
<1>0. /\ WorkTyped /\ Typed /\ Fit(w)
      /\ w \in Starts /\ Undisturbed(w) => Alone(w)
      /\ w \in Starts /\ calm /\ work[w].ran /\ ~work[w].lost /\ work[w].audited = {}
              => work[w].at \in Working
      /\ work[w].at \in Stages /\ work[w].put \in Puts /\ work[w].seen \in Texts
      /\ work[w].ran \in BOOLEAN /\ work[w].lost \in BOOLEAN /\ work[w].made \in BOOLEAN
      /\ work[w].audited \subseteq {"completed", "failed"}
  BY ActorFacts
<1> DEFINE text == Replaced(work[w].seen, work[w].put)
<1>1. work[w].put # "none" /\ work[w].at \in {"fill", "adrift"}
  BY <1>0 DEF Fill, Fit, Filing
<1>2. /\ text \in Texts
      /\ work[w].seen.status = "blank" => text.status = "blank"
      /\ work[w].seen.status # "blank" /\ work[w].put # "result" => text.status = work[w].put
      /\ work[w].seen.status # "blank" /\ work[w].put = "completed" => text.named
      /\ work[w].seen.status # "blank" /\ work[w].put = "result" => text = work[w].seen
  BY <1>0, <1>1, ReplacedText
<1>3. /\ packet' = IF work[w].at = "fill" THEN text ELSE packet
      /\ AfterFill(w, text)
      /\ UNCHANGED <<artifact, purge, room, calm>>
  BY DEF Fill
<1> HIDE DEF text
<1>4. Typed'
  BY <1>0, <1>2, <1>3 DEF Typed
<1>5. CASE work[w].put = "running"
  <2>1. Goes(w, "decide")
    BY <1>3, <1>5 DEF AfterFill
  <2>2. /\ WorkTyped' /\ Others(w)
        /\ Becomes(w, "decide", work[w].put, Blank, work[w].ran, work[w].made, work[w].audited)
    BY <2>1, <1>0, GoesTo DEF Stages
  <2>3. Keeps(w)
    BY <2>2, <1>0, <1>1, <1>2, <1>3, <1>5
       DEF Keeps, Becomes, BecomesLost, Fit, Proven, Filing, Rest, Working, Alone
  <2>4. QED
    BY <2>2, <2>3, <1>3, <1>4, PacketStep
<1>6. CASE work[w].put = "completed"
  <2>1. work' = [work EXCEPT ![w].put = "result", ![w].seen = text, ![w].at = "open"]
    BY <1>3, <1>6 DEF AfterFill
  <2>2. /\ WorkTyped' /\ Others(w)
        /\ Becomes(w, "open", "result", text, work[w].ran, work[w].made, work[w].audited)
    BY <2>1, <1>0, <1>2, CompletesTo
  <2>3. Keeps(w)
    BY <2>2, <1>0, <1>1, <1>2, <1>3, <1>6
       DEF Keeps, Becomes, BecomesLost, Fit, Proven, Filing, Rest, Working, Alone
  <2>4. QED
    BY <2>2, <2>3, <1>3, <1>4, PacketStep
<1>7. CASE work[w].put \notin {"running", "completed"}
  <2>1. Goes(w, "done")
    BY <1>3, <1>7 DEF AfterFill
  <2>2. /\ WorkTyped' /\ Others(w)
        /\ Becomes(w, "done", work[w].put, Blank, work[w].ran, work[w].made, work[w].audited)
    BY <2>1, <1>0, GoesTo DEF Stages
  <2>3. Keeps(w)
    BY <2>2, <1>0, <1>1, <1>2, <1>3, <1>7
       DEF Keeps, Becomes, BecomesLost, Fit, Proven, Filing, Rest, Working, Alone
  <2>4. QED
    BY <2>2, <2>3, <1>3, <1>4, PacketStep
<1>8. QED
  BY <1>5, <1>6, <1>7

LEMMA BlocksKeeps ==
  ASSUME DelegationAssumption, DelegationInv, NEW w \in Starts, Blocks(w)
  PROVE  DelegationInv'
<1>a. w \in PacketRequests
  BY DEF PacketRequests
<1>0. /\ WorkTyped /\ Typed /\ Fit(w)
      /\ w \in Starts /\ Undisturbed(w) => Alone(w)
      /\ w \in Starts /\ calm /\ work[w].ran /\ ~work[w].lost /\ work[w].audited = {}
              => work[w].at \in Working
      /\ work[w].at \in Stages /\ work[w].put \in Puts /\ work[w].seen \in Texts
      /\ work[w].ran \in BOOLEAN /\ work[w].lost \in BOOLEAN /\ work[w].made \in BOOLEAN
      /\ work[w].audited \subseteq {"completed", "failed"}
  BY <1>a, ActorFacts
<1>1. Typed'
  BY <1>0 DEF Blocks, Typed
<1>2. /\ WorkTyped' /\ Others(w)
      /\ Becomes(w, "look", "blocked", work[w].seen, work[w].ran, work[w].made,
                 work[w].audited)
  BY <1>0, <1>a, WritesTo DEF Blocks, Puts
<1>3. Keeps(w)
  BY <1>0, <1>2, <1>a DEF Keeps, Becomes, BecomesLost, Fit, Proven, Filing, Rest, Working, Alone, Blocks
<1>4. QED
  BY <1>1, <1>2, <1>3, <1>a, PacketStep DEF Blocks


LEMMA SecretsFailKeeps ==
  ASSUME DelegationAssumption, DelegationInv, NEW w \in Starts, SecretsFail(w)
  PROVE  DelegationInv'
<1>a. w \in PacketRequests
  BY DEF PacketRequests
<1>0. /\ WorkTyped /\ Typed /\ Fit(w)
      /\ w \in Starts /\ Undisturbed(w) => Alone(w)
      /\ w \in Starts /\ calm /\ work[w].ran /\ ~work[w].lost /\ work[w].audited = {}
              => work[w].at \in Working
      /\ work[w].at \in Stages /\ work[w].put \in Puts /\ work[w].seen \in Texts
      /\ work[w].ran \in BOOLEAN /\ work[w].lost \in BOOLEAN /\ work[w].made \in BOOLEAN
      /\ work[w].audited \subseteq {"completed", "failed"}
  BY <1>a, ActorFacts
<1>1. Typed'
  <2>1. Uses("incidents") /\ calm' = FALSE
    BY DEF SecretsFail, Fails
  <2>2. room' \in [starts : Nat, cancels : Nat, purges : Nat, incidents : Nat]
    BY <2>1, <1>0, RoomTyped
  <2>3. QED
    BY <2>1, <2>2, <1>0 DEF SecretsFail, Typed
<1>2. /\ WorkTyped' /\ Others(w)
      /\ Becomes(w, "done", work[w].put, Blank, work[w].ran, work[w].made, work[w].audited)
  BY <1>0, <1>a, GoesTo DEF SecretsFail, Stages
<1>3. Keeps(w)
  BY <1>0, <1>2, <1>a
     DEF Keeps, Becomes, BecomesLost, Fit, Proven, Filing, Rest, Working, Alone, SecretsFail, Fails
<1>4. QED
  BY <1>1, <1>2, <1>3, <1>a, PacketStep DEF SecretsFail


LEMMA AnswersItselfKeeps ==
  ASSUME DelegationAssumption, DelegationInv, NEW w \in Starts, AnswersItself(w)
  PROVE  DelegationInv'
<1>a. w \in PacketRequests
  BY DEF PacketRequests
<1>0. /\ WorkTyped /\ Typed /\ Fit(w)
      /\ w \in Starts /\ Undisturbed(w) => Alone(w)
      /\ w \in Starts /\ calm /\ work[w].ran /\ ~work[w].lost /\ work[w].audited = {}
              => work[w].at \in Working
      /\ work[w].at \in Stages /\ work[w].put \in Puts /\ work[w].seen \in Texts
      /\ work[w].ran \in BOOLEAN /\ work[w].lost \in BOOLEAN /\ work[w].made \in BOOLEAN
      /\ work[w].audited \subseteq {"completed", "failed"}
  BY <1>a, ActorFacts
<1>1. Typed'
  BY <1>0 DEF AnswersItself, Typed
<1>2. /\ WorkTyped' /\ Others(w)
      /\ Becomes(w, "artifact", work[w].put, Blank, work[w].ran, work[w].made, work[w].audited)
  BY <1>0, <1>a, GoesTo DEF AnswersItself, Stages
<1>3. Keeps(w)
  BY <1>0, <1>2, <1>a
     DEF Keeps, Becomes, BecomesLost, Fit, Proven, Filing, Rest, Working, Alone, AnswersItself
<1>4. QED
  BY <1>1, <1>2, <1>3, <1>a, PacketStep DEF AnswersItself


LEMMA LaunchesKeeps ==
  ASSUME DelegationAssumption, DelegationInv, NEW w \in Starts, Launches(w)
  PROVE  DelegationInv'
<1>a. w \in PacketRequests
  BY DEF PacketRequests
<1>0. /\ WorkTyped /\ Typed /\ Fit(w)
      /\ w \in Starts /\ Undisturbed(w) => Alone(w)
      /\ w \in Starts /\ calm /\ work[w].ran /\ ~work[w].lost /\ work[w].audited = {}
              => work[w].at \in Working
      /\ work[w].at \in Stages /\ work[w].put \in Puts /\ work[w].seen \in Texts
      /\ work[w].ran \in BOOLEAN /\ work[w].lost \in BOOLEAN /\ work[w].made \in BOOLEAN
      /\ work[w].audited \subseteq {"completed", "failed"}
  BY <1>a, ActorFacts
<1>1. Typed'
  BY <1>0 DEF Launches, Typed
<1>2. /\ WorkTyped' /\ Others(w)
      /\ Becomes(w, "cli", work[w].put, work[w].seen, TRUE, work[w].made, work[w].audited)
  BY <1>0, <1>a, RunsTo DEF Launches, Stages
<1>3. Keeps(w)
  BY <1>0, <1>2, <1>a DEF Keeps, Becomes, BecomesLost, Fit, Proven, Filing, Rest, Working, Alone, Launches
<1>4. QED
  BY <1>1, <1>2, <1>3, <1>a, PacketStep DEF Launches


LEMMA SpawnFailsKeeps ==
  ASSUME DelegationAssumption, DelegationInv, NEW w \in Starts, SpawnFails(w)
  PROVE  DelegationInv'
<1>a. w \in PacketRequests
  BY DEF PacketRequests
<1>0. /\ WorkTyped /\ Typed /\ Fit(w)
      /\ w \in Starts /\ Undisturbed(w) => Alone(w)
      /\ w \in Starts /\ calm /\ work[w].ran /\ ~work[w].lost /\ work[w].audited = {}
              => work[w].at \in Working
      /\ work[w].at \in Stages /\ work[w].put \in Puts /\ work[w].seen \in Texts
      /\ work[w].ran \in BOOLEAN /\ work[w].lost \in BOOLEAN /\ work[w].made \in BOOLEAN
      /\ work[w].audited \subseteq {"completed", "failed"}
  BY <1>a, ActorFacts
<1>1. Typed'
  BY <1>0 DEF SpawnFails, Typed
<1>2. PICK isolated \in BOOLEAN :
        work' = [work EXCEPT ![w].at = "failing", ![w].ran = isolated]
  BY DEF SpawnFails
<1>3. /\ WorkTyped' /\ Others(w)
      /\ Becomes(w, "failing", work[w].put, work[w].seen, isolated, work[w].made,
                 work[w].audited)
  BY <1>0, <1>2, <1>a, RunsTo DEF Stages
<1>4. Keeps(w)
  BY <1>0, <1>3, <1>a DEF Keeps, Becomes, BecomesLost, Fit, Proven, Filing, Rest, Working, Alone, SpawnFails
<1>5. QED
  BY <1>1, <1>3, <1>4, <1>a, PacketStep DEF SpawnFails


LEMMA ReturnsKeeps ==
  ASSUME DelegationAssumption, DelegationInv, NEW w \in Starts, Returns(w)
  PROVE  DelegationInv'
<1>a. w \in PacketRequests
  BY DEF PacketRequests
<1>0. /\ WorkTyped /\ Typed /\ Fit(w)
      /\ w \in Starts /\ Undisturbed(w) => Alone(w)
      /\ w \in Starts /\ calm /\ work[w].ran /\ ~work[w].lost /\ work[w].audited = {}
              => work[w].at \in Working
      /\ work[w].at \in Stages /\ work[w].put \in Puts /\ work[w].seen \in Texts
      /\ work[w].ran \in BOOLEAN /\ work[w].lost \in BOOLEAN /\ work[w].made \in BOOLEAN
      /\ work[w].audited \subseteq {"completed", "failed"}
  BY <1>a, ActorFacts
<1>1. Typed'
  BY <1>0 DEF Returns, Typed
<1>2. PICK at \in {"artifact", "failing"} : Goes(w, at)
  BY DEF Returns
<1>3. /\ WorkTyped' /\ Others(w)
      /\ Becomes(w, at, work[w].put, Blank, work[w].ran, work[w].made, work[w].audited)
  BY <1>0, <1>2, <1>a, GoesTo DEF Stages
<1>4. Keeps(w)
  BY <1>0, <1>3, <1>a DEF Keeps, Becomes, BecomesLost, Fit, Proven, Filing, Rest, Working, Alone, Returns
<1>5. QED
  BY <1>1, <1>3, <1>4, <1>a, PacketStep DEF Returns


LEMMA ReturnsUnreadKeeps ==
  ASSUME DelegationAssumption, DelegationInv, NEW w \in Starts, ReturnsUnread(w)
  PROVE  DelegationInv'
<1>a. w \in PacketRequests
  BY DEF PacketRequests
<1>0. /\ WorkTyped /\ Typed /\ Fit(w)
      /\ w \in Starts /\ Undisturbed(w) => Alone(w)
      /\ w \in Starts /\ calm /\ work[w].ran /\ ~work[w].lost /\ work[w].audited = {}
              => work[w].at \in Working
      /\ work[w].at \in Stages /\ work[w].put \in Puts /\ work[w].seen \in Texts
      /\ work[w].ran \in BOOLEAN /\ work[w].lost \in BOOLEAN /\ work[w].made \in BOOLEAN
      /\ work[w].audited \subseteq {"completed", "failed"}
  BY <1>a, ActorFacts
<1>1. Typed'
  BY <1>0 DEF ReturnsUnread, Typed
<1>2. /\ WorkTyped' /\ Others(w)
      /\ BecomesLost(w, "failing", work[w].put, work[w].seen, work[w].ran, TRUE,
                     work[w].made, work[w].audited)
  BY <1>0, <1>a, LosesTo DEF ReturnsUnread
<1>3. Keeps(w)
  BY <1>0, <1>2, <1>a DEF Keeps, Becomes, BecomesLost, Fit, Proven, Filing, Rest, Working, Alone, ReturnsUnread
<1>4. QED
  BY <1>1, <1>2, <1>3, <1>a, PacketStep DEF ReturnsUnread


LEMMA TimesOutKeeps ==
  ASSUME DelegationAssumption, DelegationInv, NEW w \in Starts, TimesOut(w)
  PROVE  DelegationInv'
<1>a. w \in PacketRequests
  BY DEF PacketRequests
<1>0. /\ WorkTyped /\ Typed /\ Fit(w)
      /\ w \in Starts /\ Undisturbed(w) => Alone(w)
      /\ w \in Starts /\ calm /\ work[w].ran /\ ~work[w].lost /\ work[w].audited = {}
              => work[w].at \in Working
      /\ work[w].at \in Stages /\ work[w].put \in Puts /\ work[w].seen \in Texts
      /\ work[w].ran \in BOOLEAN /\ work[w].lost \in BOOLEAN /\ work[w].made \in BOOLEAN
      /\ work[w].audited \subseteq {"completed", "failed"}
  BY <1>a, ActorFacts
<1>1. Typed'
  BY <1>0 DEF TimesOut, Typed
<1>2. /\ WorkTyped' /\ Others(w)
      /\ Becomes(w, "failing", work[w].put, Blank, work[w].ran, work[w].made, work[w].audited)
  BY <1>0, <1>a, GoesTo DEF TimesOut, Stages
<1>3. Keeps(w)
  BY <1>0, <1>2, <1>a DEF Keeps, Becomes, BecomesLost, Fit, Proven, Filing, Rest, Working, Alone, TimesOut
<1>4. QED
  BY <1>1, <1>2, <1>3, <1>a, PacketStep DEF TimesOut


LEMMA WritesArtifactKeeps ==
  ASSUME DelegationAssumption, DelegationInv, NEW w \in Starts, WritesArtifact(w)
  PROVE  DelegationInv'
<1>a. w \in PacketRequests
  BY DEF PacketRequests
<1>0. /\ WorkTyped /\ Typed /\ Fit(w)
      /\ w \in Starts /\ Undisturbed(w) => Alone(w)
      /\ w \in Starts /\ calm /\ work[w].ran /\ ~work[w].lost /\ work[w].audited = {}
              => work[w].at \in Working
      /\ work[w].at \in Stages /\ work[w].put \in Puts /\ work[w].seen \in Texts
      /\ work[w].ran \in BOOLEAN /\ work[w].lost \in BOOLEAN /\ work[w].made \in BOOLEAN
      /\ work[w].audited \subseteq {"completed", "failed"}
  BY <1>a, ActorFacts
<1>1. Typed'
  BY <1>0 DEF WritesArtifact, Typed
<1>2. /\ WorkTyped' /\ Others(w)
      /\ Becomes(w, "audit", work[w].put, work[w].seen, work[w].ran, TRUE, work[w].audited)
  BY <1>0, <1>a, MakesTo DEF WritesArtifact
<1>3. Keeps(w)
  BY <1>0, <1>2, <1>a
     DEF Keeps, Becomes, BecomesLost, Fit, Proven, Filing, Rest, Working, Alone, WritesArtifact
<1>4. QED
  BY <1>1, <1>2, <1>3, <1>a, PacketStep DEF WritesArtifact


LEMMA ArtifactFailsKeeps ==
  ASSUME DelegationAssumption, DelegationInv, NEW w \in Starts, ArtifactFails(w)
  PROVE  DelegationInv'
<1>a. w \in PacketRequests
  BY DEF PacketRequests
<1>0. /\ WorkTyped /\ Typed /\ Fit(w)
      /\ w \in Starts /\ Undisturbed(w) => Alone(w)
      /\ w \in Starts /\ calm /\ work[w].ran /\ ~work[w].lost /\ work[w].audited = {}
              => work[w].at \in Working
      /\ work[w].at \in Stages /\ work[w].put \in Puts /\ work[w].seen \in Texts
      /\ work[w].ran \in BOOLEAN /\ work[w].lost \in BOOLEAN /\ work[w].made \in BOOLEAN
      /\ work[w].audited \subseteq {"completed", "failed"}
  BY <1>a, ActorFacts
<1>1. Typed'
  <2>1. Uses("incidents") /\ calm' = FALSE
    BY DEF ArtifactFails, Fails
  <2>2. room' \in [starts : Nat, cancels : Nat, purges : Nat, incidents : Nat]
    BY <2>1, <1>0, RoomTyped
  <2>3. QED
    BY <2>1, <2>2, <1>0 DEF ArtifactFails, Typed
<1>2. /\ WorkTyped' /\ Others(w)
      /\ Becomes(w, "recover", work[w].put, Blank, work[w].ran, work[w].made, work[w].audited)
  BY <1>0, <1>a, GoesTo DEF ArtifactFails, Stages
<1>3. Keeps(w)
  BY <1>0, <1>2, <1>a
     DEF Keeps, Becomes, BecomesLost, Fit, Proven, Filing, Rest, Working, Alone, ArtifactFails, Fails
<1>4. QED
  BY <1>1, <1>2, <1>3, <1>a, PacketStep DEF ArtifactFails


LEMMA AuditKeeps ==
  ASSUME DelegationAssumption, DelegationInv, NEW w \in Starts, Audit(w)
  PROVE  DelegationInv'
<1>a. w \in PacketRequests
  BY DEF PacketRequests
<1>0. /\ WorkTyped /\ Typed /\ Fit(w)
      /\ w \in Starts /\ Undisturbed(w) => Alone(w)
      /\ w \in Starts /\ calm /\ work[w].ran /\ ~work[w].lost /\ work[w].audited = {}
              => work[w].at \in Working
      /\ work[w].at \in Stages /\ work[w].put \in Puts /\ work[w].seen \in Texts
      /\ work[w].ran \in BOOLEAN /\ work[w].lost \in BOOLEAN /\ work[w].made \in BOOLEAN
      /\ work[w].audited \subseteq {"completed", "failed"}
  BY <1>a, ActorFacts
<1>1. Typed'
  BY <1>0 DEF Audit, Typed
<1>2. PICK put \in Verdicts(work[w].at) :
        work' = [work EXCEPT ![w].audited = AuditOf(w), ![w].put = put, ![w].at = "look"]
  BY DEF Audit
<1>3. /\ AuditOf(w) \in SUBSET {"completed", "failed"}
      /\ work[w].audited \subseteq AuditOf(w)
      /\ work[w].ran /\ ~work[w].lost => AuditOf(w) # {}
      /\ work[w].ran /\ work[w].at = "audit" => "completed" \in AuditOf(w)
  BY <1>0 DEF AuditOf, Outcome, Fit, Filing
<1>4. /\ work[w].at \in {"failing", "audit", "recover"}
      /\ put \in {"completed", "failed", "blocked"}
      /\ put = "completed" <=> work[w].at = "audit"
      /\ put = "blocked" => work[w].at = "failing"
  BY DEF Audit, Verdicts
<1>5. put \in Puts /\ put # "none"
  BY <1>4 DEF Puts
<1>6. /\ WorkTyped' /\ Others(w)
      /\ Becomes(w, "look", put, work[w].seen, work[w].ran, work[w].made, AuditOf(w))
  BY <1>0, <1>2, <1>3, <1>5, <1>a, AuditsTo
<1>7. Keeps(w)
  BY <1>0, <1>3, <1>4, <1>5, <1>6, <1>a
     DEF Keeps, Becomes, BecomesLost, Fit, Proven, Filing, Rest, Working, Alone, Audit
<1>8. QED
  BY <1>1, <1>6, <1>7, <1>a, PacketStep DEF Audit


LEMMA AuditFailsKeeps ==
  ASSUME DelegationAssumption, DelegationInv, NEW w \in Starts, AuditFails(w)
  PROVE  DelegationInv'
<1>a. w \in PacketRequests
  BY DEF PacketRequests
<1>0. /\ WorkTyped /\ Typed /\ Fit(w)
      /\ w \in Starts /\ Undisturbed(w) => Alone(w)
      /\ w \in Starts /\ calm /\ work[w].ran /\ ~work[w].lost /\ work[w].audited = {}
              => work[w].at \in Working
      /\ work[w].at \in Stages /\ work[w].put \in Puts /\ work[w].seen \in Texts
      /\ work[w].ran \in BOOLEAN /\ work[w].lost \in BOOLEAN /\ work[w].made \in BOOLEAN
      /\ work[w].audited \subseteq {"completed", "failed"}
  BY <1>a, ActorFacts
<1>1. Typed' /\ calm' = FALSE
  <2>1. Uses("incidents") /\ calm' = FALSE
    BY DEF AuditFails, Fails
  <2>2. room' \in [starts : Nat, cancels : Nat, purges : Nat, incidents : Nat]
    BY <2>1, <1>0, RoomTyped
  <2>3. QED
    BY <2>1, <2>2, <1>0 DEF AuditFails, Typed
<1>2. PICK at \in {"recover", "done"} : Goes(w, at)
  BY DEF AuditFails
<1>3. /\ WorkTyped' /\ Others(w)
      /\ Becomes(w, at, work[w].put, Blank, work[w].ran, work[w].made, work[w].audited)
  BY <1>2, <1>0, <1>a, GoesTo DEF Stages
<1>4. Keeps(w)
  BY <1>1, <1>3, <1>0, <1>a
     DEF Keeps, Becomes, BecomesLost, Fit, Proven, Filing, Rest, Working, Alone, AuditFails
<1>5. QED
  BY <1>1, <1>3, <1>4, <1>a, PacketStep DEF AuditFails

-----------------------------------------------------------------------------
(***************************************************************************)
(* The steps of the deletion of user data and the restart.                 *)
(***************************************************************************)

Purges == [at : {"idle", "packet", "artifact", "done"},
           paths : SUBSET {"packet", "artifact"},
           saw : Standings, sawArtifact : BOOLEAN]

LEMMA InvariantParts ==
  ASSUME DelegationInv
  PROVE  /\ WorkTyped /\ Typed /\ purge \in Purges
         /\ WorkFits /\ CompletedIsProven /\ ArtifactsStay /\ PacketIsOwned
         /\ AloneIsKept /\ RunsAreAudited
  BY DEF DelegationInv, DelegationTypeOK, WorkTyped, Work, Typed, Purges

LEMMA PurgeFields ==
  ASSUME NEW x \in Purges
  PROVE  x.at \in {"idle", "packet", "artifact", "done"} /\ x.paths \subseteq {"packet",
  "artifact"}
         /\ x.saw \in Standings /\ x.sawArtifact \in BOOLEAN
  BY DEF Purges

LEMMA PurgeMoves ==
  ASSUME purge \in Purges, NEW at \in {"idle", "packet", "artifact", "done"},
         purge' = [purge EXCEPT !.at = at]
  PROVE  purge' \in Purges /\ purge'.at = at /\ purge'.paths = purge.paths
  BY DEF Purges

\* A step of the deletion that leaves packet and requests alone.
LEMMA PurgeStep ==
  ASSUME DelegationInv, purge' \in Purges, purge'.at # "idle", Typed', calm' = calm,
         UNCHANGED <<packet, work>>,
         ArtifactsStay'
  PROVE  DelegationInv'
<1>1. /\ WorkTyped /\ WorkFits /\ CompletedIsProven /\ PacketIsOwned /\ RunsAreAudited
  BY InvariantParts
<1>2. DelegationTypeOK'
  BY <1>1 DEF DelegationTypeOK, WorkTyped, Work, Typed, Purges
<1>3. WorkFits'
  BY <1>1 DEF WorkFits, Fit, Proven
<1>4. CompletedIsProven' /\ PacketIsOwned' /\ RunsAreAudited'
  BY <1>1 DEF CompletedIsProven, Proven, PacketIsOwned, RunsAreAudited
<1>5. AloneIsKept'
  BY DEF AloneIsKept, Undisturbed
<1>6. QED
  BY <1>2, <1>3, <1>4, <1>5 DEF DelegationInv

LEMMA ListsDataKeeps ==
  ASSUME DelegationInv, ListsData
  PROVE  DelegationInv'
<1>1. WorkTyped /\ Typed /\ purge \in Purges /\ ArtifactsStay
  BY InvariantParts
<1>2. PICK paths \in SUBSET {"packet", "artifact"} :
        purge' = [at |-> "packet", paths |-> paths, saw |-> packet.status,
                  sawArtifact |-> artifact]
  BY DEF ListsData
<1>3. packet.status \in Standings /\ artifact \in BOOLEAN
  BY <1>1 DEF Typed, Texts
<1>4. purge' \in Purges /\ purge'.at = "packet"
  BY <1>2, <1>3 DEF Purges
<1>5. room' \in [starts : Nat, cancels : Nat, purges : Nat, incidents : Nat]
  BY <1>1, RoomTyped DEF ListsData
<1>6. Typed'
  BY <1>1, <1>5 DEF ListsData, Typed
<1>7. ArtifactsStay'
  <2>1. purge.at = "idle" /\ UNCHANGED <<packet, artifact, work, calm>>
    BY DEF ListsData
  <2>2. QED
    BY <1>1, <2>1 DEF ArtifactsStay
<1>8. QED
  BY <1>4, <1>6, <1>7, PurgeStep DEF ListsData

LEMMA DropsArtifactKeeps ==
  ASSUME DelegationInv, DropsArtifact
  PROVE  DelegationInv'
<1>1. WorkTyped /\ Typed /\ purge \in Purges /\ ArtifactsStay
  BY InvariantParts
<1>2. purge' \in Purges /\ purge'.at = "done" /\ purge'.paths = purge.paths
  BY <1>1, PurgeMoves DEF DropsArtifact
<1>3. Typed'
  BY <1>1 DEF DropsArtifact, Typed
<1>4. ArtifactsStay'
  BY <1>1, <1>2 DEF DropsArtifact, ArtifactsStay
<1>5. QED
  BY <1>2, <1>3, <1>4, PurgeStep DEF DropsArtifact

\* Requests that were between the truncation and the write lose their file.
LEMMA PacketRemoved ==
  ASSUME DelegationAssumption, DelegationInv, purge.at = "packet",
         packet' = Gone, purge' \in Purges, purge'.at = "artifact",
         UNCHANGED <<artifact, room, calm>>,
         work' = [w \in PacketRequests |-> IF work[w].at = "fill"
                          THEN [work[w] EXCEPT !.at = "adrift"] ELSE work[w]]
  PROVE  DelegationInv'
<1>1. /\ WorkTyped /\ Typed /\ WorkFits /\ CompletedIsProven /\ ArtifactsStay
      /\ PacketIsOwned /\ RunsAreAudited
  BY InvariantParts
<1>2. Starts \subseteq PacketRequests
  BY DEF PacketRequests
<1>3. ASSUME NEW w \in PacketRequests
      PROVE  /\ work'[w] \in Work
             /\ work'[w].at = IF work[w].at = "fill" THEN "adrift" ELSE work[w].at
             /\ work'[w].put = work[w].put /\ work'[w].seen = work[w].seen
             /\ (work'[w].ran <=> work[w].ran) /\ (work'[w].lost <=> work[w].lost)
             /\ work'[w].made <=> work[w].made
             /\ work'[w].audited = work[w].audited
  <2>1. work[w] \in Work
    BY <1>1 DEF WorkTyped
  <2>2. CASE work[w].at = "fill"
    <3>1. work'[w] = [work[w] EXCEPT !.at = "adrift"]
      BY <2>2
    <3>2. QED
      BY <3>1, <2>1, <2>2 DEF Work, Stages
  <2>3. CASE work[w].at # "fill"
    <3>1. work'[w] = work[w]
      BY <2>3
    <3>2. QED
      BY <3>1, <2>1, <2>3
  <2>4. QED
    BY <2>2, <2>3
<1>4. WorkTyped'
  BY <1>3 DEF WorkTyped
<1>5. DelegationTypeOK'
  BY <1>1, <1>4, StandingSets DEF DelegationTypeOK, WorkTyped, Work, Typed, Purges
<1>6. WorkFits'
  <2> SUFFICES ASSUME NEW w \in PacketRequests PROVE Fit(w)'
    BY DEF WorkFits
  <2>1. Fit(w)
    BY <1>1 DEF WorkFits
  <2>2. QED
    BY <1>3, <2>1 DEF Fit, Proven, Filing
<1>7. CompletedIsProven' /\ PacketIsOwned'
  BY StandingSets DEF CompletedIsProven, PacketIsOwned
<1>8. ArtifactsStay'
  BY <1>1, <1>2, <1>3 DEF ArtifactsStay
<1>9. AloneIsKept'
  BY DEF AloneIsKept, Undisturbed
<1>10. RunsAreAudited'
  <2> SUFFICES ASSUME calm', NEW r \in Starts, work'[r].ran, ~work'[r].lost, work'[r].audited = {}
               PROVE  work'[r].at \in Working
    BY DEF RunsAreAudited, Working
  <2>1. r \in PacketRequests /\ work[r].ran /\ ~work[r].lost /\ work[r].audited = {} /\ calm
    BY <1>2, <1>3
  <2>2. work[r].at \in Working
    BY <2>1, <1>1 DEF RunsAreAudited, Working
  <2>3. QED
    BY <2>1, <2>2, <1>3 DEF Working
<1>11. QED
  BY <1>5, <1>6, <1>7, <1>8, <1>9, <1>10 DEF DelegationInv

LEMMA DropsPacketKeeps ==
  ASSUME DelegationAssumption, DelegationInv, DropsPacket
  PROVE  DelegationInv'
<1>1. WorkTyped /\ Typed /\ purge \in Purges /\ ArtifactsStay
  BY InvariantParts
<1>2. purge' \in Purges /\ purge'.at = "artifact" /\ purge'.paths = purge.paths
  BY <1>1, PurgeMoves DEF DropsPacket
<1>3. CASE RemovesPacket
  BY <1>2, <1>3, PacketRemoved DEF DropsPacket
<1>4. CASE ~RemovesPacket
  <2>1. Typed'
    BY <1>1, <1>4 DEF DropsPacket, Typed
  <2>2. ArtifactsStay'
    BY <1>1, <1>2, <1>4 DEF DropsPacket, ArtifactsStay
  <2>3. QED
    BY <2>1, <2>2, <1>2, <1>4, PurgeStep DEF DropsPacket
<1>5. QED
  BY <1>3, <1>4

LEMMA RestartKeeps ==
  ASSUME DelegationAssumption, DelegationInv, Restart
  PROVE  DelegationInv'
<1>1. /\ WorkTyped /\ Typed /\ purge \in Purges /\ WorkFits /\ CompletedIsProven
      /\ ArtifactsStay /\ AloneIsKept
  BY InvariantParts
<1>2. Starts \subseteq PacketRequests
  BY DEF PacketRequests
<1>3. ASSUME NEW w \in PacketRequests
      PROVE  /\ work'[w] \in Work
             /\ work'[w].at = IF work[w].at = "idle" THEN "idle" ELSE "done"
             /\ work'[w].put = work[w].put
             /\ (work'[w].ran <=> work[w].ran) /\ (work'[w].lost <=> work[w].lost)
             /\ work'[w].made <=> work[w].made
             /\ work'[w].audited = work[w].audited
  <2>1. work[w] \in Work
    BY <1>1 DEF WorkTyped
  <2>2. CASE work[w].at = "idle"
    <3>1. work'[w] = work[w]
      BY <2>2 DEF Restart
    <3>2. QED
      BY <3>1, <2>1, <2>2
  <2>3. CASE work[w].at # "idle"
    <3>1. work'[w] = [work[w] EXCEPT !.at = "done", !.seen = Blank]
      BY <2>3 DEF Restart
    <3>2. QED
      BY <3>1, <2>1, <2>3, StandingSets DEF Work, Stages
  <2>4. QED
    BY <2>2, <2>3
<1>4. WorkTyped'
  BY <1>3 DEF WorkTyped, Restart
<1>5. Typed' /\ calm' = FALSE
  <2>1. Uses("incidents") /\ calm' = FALSE
    BY DEF Restart, Fails
  <2>2. room' \in [starts : Nat, cancels : Nat, purges : Nat, incidents : Nat]
    BY <2>1, <1>1, RoomTyped
  <2>3. QED
    BY <2>1, <2>2, <1>1 DEF Restart, Typed
<1>6. PICK at \in {"idle", "done"} :
        /\ purge' = [purge EXCEPT !.at = at]
        /\ at = "idle" <=> purge.at = "idle"
  BY DEF Restart
<1>7. purge' \in Purges /\ purge'.at = at /\ purge'.paths = purge.paths
  BY <1>1, <1>6, PurgeMoves
<1>8. DelegationTypeOK'
  BY <1>4, <1>5, <1>7 DEF DelegationTypeOK, WorkTyped, Work, Typed, Purges
<1>9. WorkFits'
  <2> SUFFICES ASSUME NEW w \in PacketRequests PROVE Fit(w)'
    BY DEF WorkFits
  <2>1. Fit(w)
    BY <1>1 DEF WorkFits
  <2>2. QED
    BY <1>3, <2>1 DEF Fit, Proven, Filing
<1>10. CompletedIsProven'
  <2> SUFFICES ASSUME packet.status = "completed"
               PROVE  packet.named /\ \E r \in Starts : Proven(r)'
    BY DEF CompletedIsProven, Restart
  <2>1. packet.named /\ \E r \in Starts : Proven(r)
    BY <1>1 DEF CompletedIsProven
  <2>2. QED
    BY <2>1, <1>2, <1>3 DEF Proven
<1>11. ArtifactsStay'
  <2> SUFFICES ASSUME NEW r \in Starts, work'[r].made
               PROVE  artifact \/ (purge'.at = "done" /\ "artifact" \in purge'.paths)
    BY DEF ArtifactsStay, Restart
  <2>1. work[r].made
    BY <1>2, <1>3
  <2>2. artifact \/ (purge.at = "done" /\ "artifact" \in purge.paths)
    BY <2>1, <1>1 DEF ArtifactsStay
  <2>3. QED
    BY <2>2, <1>6, <1>7
<1>12. PacketIsOwned' /\ RunsAreAudited'
  BY <1>5 DEF PacketIsOwned, RunsAreAudited
<1>13. AloneIsKept'
  <2> SUFFICES ASSUME NEW r \in Starts, Undisturbed(r)' PROVE Alone(r)'
    BY DEF AloneIsKept
  <2>1. Undisturbed(r)
    <3>1. purge.at = "idle"
      BY <1>6, <1>7 DEF Undisturbed
    <3>2. ASSUME NEW v \in PacketRequests \ {r} PROVE work[v].put = "none"
      BY <1>3 DEF Undisturbed
    <3>3. QED
      BY <3>1, <3>2 DEF Undisturbed
  <2>2. Alone(r)
    BY <2>1, <1>1 DEF AloneIsKept
  <2>3. r \in PacketRequests /\ packet' = packet
    BY <1>2 DEF Restart
  <2>4. QED
    BY <2>2, <2>3, <1>3 DEF Alone
<1>14. QED
  BY <1>8, <1>9, <1>10, <1>11, <1>12, <1>13 DEF DelegationInv

-----------------------------------------------------------------------------
(***************************************************************************)
(* The invariant and what follows from it.                                 *)
(***************************************************************************)
LEMMA InitEstablishes ==
  ASSUME DelegationAssumption, DelegationInit
  PROVE  DelegationInv
<1> DEFINE fresh == [at |-> "idle", put |-> "none", seen |-> Blank,
                     ran |-> FALSE, lost |-> FALSE, made |-> FALSE, audited |-> {}]
<1>1. fresh \in Work
  BY StandingSets DEF Work, Stages, Puts
<1>2. \A w \in PacketRequests : work[w] = fresh
  BY DEF DelegationInit
<1>3. \A w \in PacketRequests :
        /\ work[w].at = "idle" /\ work[w].put = "none"
        /\ ~work[w].ran /\ ~work[w].lost /\ ~work[w].made
  BY <1>2
<1>4. WorkTyped
  BY <1>1 DEF WorkTyped, DelegationInit
<1> HIDE DEF fresh
<1>5. packet \in Texts /\ packet.status = "queued" /\ artifact = FALSE /\ calm
  BY DEF DelegationInit, Texts, Standings
<1>6. purge \in Purges
  BY DEF DelegationInit, Purges, Standings
<1>7. room \in [starts : Nat, cancels : Nat, purges : Nat, incidents : Nat]
  BY DEF DelegationInit, DelegationAssumption
<1>8. DelegationTypeOK
  BY <1>4, <1>5, <1>6, <1>7 DEF DelegationTypeOK, WorkTyped, Work, Purges, DelegationInit
<1>9. Starts \subseteq PacketRequests
  BY DEF PacketRequests
<1>10. WorkFits
  BY <1>3 DEF WorkFits, Fit, Filing
<1>11. CompletedIsProven /\ ArtifactsStay /\ PacketIsOwned /\ RunsAreAudited
  BY <1>3, <1>5, <1>9 DEF CompletedIsProven, ArtifactsStay, PacketIsOwned, RunsAreAudited
<1>12. AloneIsKept
  BY <1>3, <1>5, <1>9 DEF AloneIsKept, Alone
<1>13. QED
  BY <1>8, <1>10, <1>11, <1>12 DEF DelegationInv

LEMMA StutterKeeps ==
  ASSUME DelegationInv, UNCHANGED delegationVars
  PROVE  DelegationInv'
<1> USE DEF delegationVars
<1>1. /\ WorkTyped /\ Typed /\ purge \in Purges
      /\ WorkFits /\ CompletedIsProven /\ ArtifactsStay /\ PacketIsOwned
      /\ AloneIsKept /\ RunsAreAudited /\ DelegationTypeOK
  BY InvariantParts DEF DelegationInv
<1>2. DelegationTypeOK'
  BY <1>1 DEF DelegationTypeOK
<1>3. WorkFits'
  BY <1>1 DEF WorkFits, Fit, Proven
<1>4. CompletedIsProven' /\ PacketIsOwned' /\ RunsAreAudited' /\ ArtifactsStay'
  BY <1>1 DEF CompletedIsProven, Proven, PacketIsOwned, RunsAreAudited, ArtifactsStay
<1>5. AloneIsKept'
  BY <1>1 DEF AloneIsKept, Undisturbed, Alone
<1>6. QED
  BY <1>2, <1>3, <1>4, <1>5 DEF DelegationInv

LEMMA StepKeeps ==
  ASSUME DelegationAssumption, DelegationInv, [DelegationNext]_delegationVars
  PROVE  DelegationInv'
<1>1. ASSUME NEW w \in PacketRequests, Advances(w) PROVE DelegationInv'
  BY <1>1, TakesKeeps, LookKeeps, OpenKeeps, OpenFailsKeeps, FillKeeps DEF Advances
<1>2. ASSUME NEW r \in Starts, Executes(r) PROVE DelegationInv'
  BY <1>2, BlocksKeeps, SecretsFailKeeps, AnswersItselfKeeps, LaunchesKeeps, SpawnFailsKeeps,
     ReturnsKeeps, ReturnsUnreadKeeps, TimesOutKeeps, WritesArtifactKeeps, ArtifactFailsKeeps, AuditKeeps,
     AuditFailsKeeps
     DEF Executes
<1>3. QED
  BY <1>1, <1>2, ListsDataKeeps, DropsPacketKeeps, DropsArtifactKeeps, RestartKeeps,
     StutterKeeps DEF DelegationNext

(* The invariant holds in every state of the service: of any number of
   starts and cancels of one packet, a deletion of the user data, failing
   file operations and restarts of the bridge, in any order. *)
THEOREM DelegationInvariant == DelegationSpec => []DelegationInv
<1>1. DelegationInit => DelegationInv
  BY InitEstablishes, DelegationAssumption
<1>2. DelegationInv /\ [DelegationNext]_delegationVars => DelegationInv'
  BY StepKeeps, DelegationAssumption
<1>3. QED
  BY <1>1, <1>2, PTL DEF DelegationSpec

(* Packet, artifact, requests and deletion keep their types. *)
THEOREM DelegationTypeCorrect == DelegationSpec => []DelegationTypeOK
<1>1. DelegationInv => DelegationTypeOK
  BY DEF DelegationInv
<1>2. QED
  BY <1>1, DelegationInvariant, PTL

LEMMA InvariantTellsWork ==
  ASSUME DelegationAssumption, DelegationInv
  PROVE  StatusTellsWork
<1>1. /\ CompletedIsProven /\ ArtifactsStay /\ PacketIsOwned /\ AloneIsKept
  BY InvariantParts
<1>2. ASSUME packet.status = "completed" PROVE Backed
  <2>1. packet.named /\ \E r \in Starts : Proven(r)
    BY <1>1, <1>2 DEF CompletedIsProven
  <2>2. QED
    BY <2>1, <1>1 DEF Backed, Proven, ArtifactsStay
<1>3. ASSUME packet.status = "running", calm PROVE \E r \in Starts : ~Resting(r)
  BY <1>1, <1>3 DEF PacketIsOwned, Resting
<1>4. ASSUME NEW r \in Starts, work[r].at \in {"cli", "failing", "artifact", "audit",
             "recover"},
             work[r].put = "running", Undisturbed(r)
      PROVE  packet.status = "running"
  <2>1. Alone(r)
    BY <1>1, <1>4 DEF AloneIsKept
  <2>2. QED
    BY <2>1, <1>4 DEF Alone
<1>5. QED
  BY <1>2, <1>3, <1>4 DEF StatusTellsWork

(* The status line tells /addons/running-work where the packet stands,
   although writeDelegationStatus writes back a text it read before others
   wrote: completed only with an artifact and an audit entry behind it,
   running only while a start has yet to answer (in a run without
   incidents), and running all through an execution nobody interferes with. *)
THEOREM StatusIsTrue == DelegationSpec => []StatusTellsWork
<1>1. DelegationInv => StatusTellsWork
  BY InvariantTellsWork, DelegationAssumption
<1>2. QED
  BY <1>1, DelegationInvariant, PTL

(* Without a crash or an I/O error, every start that executed has left an
   entry in the governance audit when it answers, unless its CLI left a
   result that runHermesCliDelegation could not read: then it has made no
   artifact either. *)
THEOREM AuditIsComplete == DelegationSpec => []ExecutionsAreAudited
<1>1. DelegationInv => ExecutionsAreAudited
  <2> SUFFICES ASSUME DelegationInv, calm, NEW r \in Starts,
                      work[r].at = "done", work[r].ran, work[r].audited = {}
               PROVE  work[r].lost /\ ~work[r].made
    BY DEF ExecutionsAreAudited
  <2>1. work[r].lost
    BY DEF DelegationInv, RunsAreAudited
  <2>2. Fit(r)
    BY DEF DelegationInv, WorkFits, PacketRequests
  <2>3. QED
    BY <2>1, <2>2 DEF Fit
<1>2. QED
  BY <1>1, DelegationInvariant, PTL
=============================================================================
