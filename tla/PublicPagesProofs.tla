-------------------------- MODULE PublicPagesProofs ---------------------------
(***************************************************************************)
(* Proofs about the public pages: PublicProof, for any library, number of  *)
(* stages, length of the log and number of verifications under way, and    *)
(* IdentityScenes, for any objects, length of the queue and number of runs. *)
(*                                                                         *)
(* That the log reports what the service answers is not inductive: the     *)
(* entry is written when a verification ends, from a credential taken when *)
(* it started.  The invariant therefore says of every credential the store *)
(* holds, the one loaded and those under way, that it is issued exactly if *)
(* its record is authorized.                                               *)
(*                                                                         *)
(* The invariant of the scenes speaks of one object at a time.  A scene is *)
(* built by a task that outlives the run that scheduled it; what keeps it  *)
(* from being built for nobody is that a run in force belongs to a page    *)
(* that is shown, and that only the run in force has a scene.              *)
(***************************************************************************)
EXTENDS PublicProof, IdentityScenes, SequenceTheorems, TLAPS

\* The credentials that agree with their record, and the log entries that agree with the service.
Sound  == {c \in Credential : c.issued = Fixture[c.record].authorized}
Honest == {e \in Request : e.status = Verify(e.record)}
Taken  == [credential: Sound, next: 1..Stages]

LogInv ==
    /\ fixture \in Library
    /\ credential \in Sound
    /\ runs \in [Slots -> Taken \cup {None}]
    /\ apiLog \in Seq(Honest)

-----------------------------------------------------------------------------
(* The constant operators. *)

\* What a record of the library is.
LEMMA LibraryFacts ==
    ASSUME NEW r \in Library
    PROVE  /\ Fixture[r].tier \in 1..4 /\ Fixture[r].eligible \in BOOLEAN
           /\ Fixture[r].authorized \in BOOLEAN /\ Fixture[r].lifecycle \in Lifecycles
           /\ Fixture[r].authorized => Fixture[r].eligible
           /\ Fixture[r].eligible <=> Fixture[r].lifecycle # "not-found"
<1>1. Fixture[r] \in FixtureRecord
    BY PublicProofAssumption
<1>2. QED
    BY <1>1, PublicProofAssumption DEF Decided, FixtureRecord

\* The credential derived from a record agrees with it.
LEMMA BuildIsSound ==
    ASSUME NEW r \in Library
    PROVE  /\ BuildCredential(r) \in Sound
           /\ BuildCredential(r).record = r
           /\ BuildCredential(r).issued = Fixture[r].authorized
<1>1. (IF Fixture[r].authorized THEN Fixture[r].tier ELSE 0) \in 0..4
    BY LibraryFacts
<1>2. (IF Fixture[r].authorized THEN Fixture[r].lifecycle ELSE "draft") \in Lifecycles
    BY LibraryFacts DEF Lifecycles
<1>3. BuildCredential(r) \in Credential
    BY <1>1, <1>2, LibraryFacts DEF BuildCredential, Credential
<1>4. QED
    BY <1>3 DEF BuildCredential, Sound

\* What the page reports of a credential that agrees with its record is what the service answers.
LEMMA StatusIsServed ==
    ASSUME NEW c \in Sound
    PROVE  StatusOf(c) = Verify(c.record) /\ StatusOf(c) \in {200, 404, 409, 422}
<1>1. c.record \in Library /\ c.issued = Fixture[c.record].authorized
    BY DEF Sound, Credential
<1>2. /\ BuildCredential(c.record).issued = c.issued
      /\ Fixture[c.record].authorized \in BOOLEAN
      /\ Fixture[c.record].eligible <=> Fixture[c.record].lifecycle # "not-found"
    BY <1>1, BuildIsSound, LibraryFacts
<1>3. CASE Fixture[c.record].lifecycle = "not-found"
    BY <1>3 DEF StatusOf, Verify
<1>4. CASE Fixture[c.record].lifecycle # "not-found" /\ c.issued
    BY <1>1, <1>2, <1>4 DEF StatusOf, Verify
<1>5. CASE Fixture[c.record].lifecycle # "not-found" /\ ~c.issued
    BY <1>1, <1>2, <1>5 DEF StatusOf, Verify
<1>6. QED
    BY <1>3, <1>4, <1>5

-----------------------------------------------------------------------------
(* The log. *)

\* An honest entry keeps the log honest.
LEMMA LoggedIsHonest ==
    ASSUME apiLog \in Seq(Honest), NEW e \in Honest
    PROVE  Logged(e) \in Seq(Honest)
<1> DEFINE kept == IF Len(apiLog) < LogLimit THEN Len(apiLog) ELSE LogLimit - 1
<1>1. kept \in 0..Len(apiLog)
    BY PublicProofAssumption
<1>2. SubSeq(apiLog, 1, kept) \in Seq(Honest)
    BY <1>1
<1>3. <<e>> \in Seq(Honest)
    OBVIOUS
<1>4. QED
    BY <1>2, <1>3 DEF Logged

\* What a verification logs at its end is honest.
LEMMA EndIsHonest ==
    ASSUME apiLog \in Seq(Honest), NEW run \in Taken, End(run)
    PROVE  apiLog' \in Seq(Honest)
<1> DEFINE c == run.credential
           entry == [record |-> c.record, status |-> StatusOf(c), lifecycle |-> c.lifecycle]
<1>1. c \in Sound
    BY DEF Taken
<1>2. c.record \in Library /\ c.lifecycle \in Lifecycles
    BY <1>1 DEF Sound, Credential
<1>3. StatusOf(c) = Verify(c.record) /\ StatusOf(c) \in {200, 404, 409, 422}
    BY <1>1, StatusIsServed
<1>4. entry \in Honest
    BY <1>2, <1>3 DEF Honest, Request
<1>5. apiLog' = Logged(entry)
    BY DEF End, Reported
<1>6. QED
    BY <1>4, <1>5, LoggedIsHonest

\* A verification takes an honest credential with it.
LEMMA VerificationStarts ==
    ASSUME LogInv, NEW c \in Sound, RunVerification(c)
    PROVE  runs' \in [Slots -> Taken \cup {None}] /\ apiLog' \in Seq(Honest)
<1> DEFINE at(n) == [credential |-> c, next |-> n]
<1>0. at(1) \in Taken /\ at(Stages) \in Taken
    BY PublicProofAssumption DEF Taken
<1>1. CASE reducedMotion
    <2>1. apiLog \in Seq(Honest) /\ End(at(Stages)) /\ runs' = runs
        BY <1>1 DEF RunVerification, LogInv
    <2>2. apiLog' \in Seq(Honest)
        BY <1>0, <2>1, EndIsHonest
    <2>3. QED
        BY <2>1, <2>2 DEF LogInv
<1>2. CASE ~reducedMotion
    <2>1. PICK s \in Slots : runs' = [runs EXCEPT ![s] = at(1)]
        BY <1>2 DEF RunVerification
    <2>2. apiLog' = apiLog
        BY <1>2 DEF RunVerification
    <2>3. QED
        BY <1>0, <2>1, <2>2 DEF LogInv
<1>3. QED
    BY <1>1, <1>2

-----------------------------------------------------------------------------
(* Each operation keeps the invariant. *)

\* What is loaded agrees with its record.
LEMMA LoadKeeps ==
    ASSUME NEW r \in Library, Load(r)
    PROVE  fixture' \in Library /\ credential' \in Sound
BY BuildIsSound DEF Load

\* The timer keeps the invariant.
LEMMA ProceedKeeps ==
    ASSUME LogInv, NEW s \in Slots, Proceed(s)
    PROVE  LogInv'
<1>1. runs[s] \in Taken
    BY DEF LogInv, Proceed
<1>2. fixture' \in Library /\ credential' \in Sound
    BY DEF LogInv, Proceed, record
<1>3. CASE runs[s].next < Stages
    <2>1. [runs[s] EXCEPT !.next = @ + 1] \in Taken
        BY <1>1, <1>3, PublicProofAssumption DEF Taken
    <2>2. runs' = [runs EXCEPT ![s] = [runs[s] EXCEPT !.next = @ + 1]] /\ apiLog' = apiLog
        BY <1>3 DEF Proceed
    <2>3. runs' \in [Slots -> Taken \cup {None}]
        BY <2>1, <2>2 DEF LogInv
    <2>4. QED
        BY <1>2, <2>2, <2>3 DEF LogInv
<1>4. CASE ~(runs[s].next < Stages)
    <2>1. End(runs[s]) /\ runs' = [runs EXCEPT ![s] = None]
        BY <1>4 DEF Proceed
    <2>2. apiLog' \in Seq(Honest)
        BY <1>1, <2>1, EndIsHonest DEF LogInv
    <2>3. QED
        BY <1>2, <2>1, <2>2 DEF LogInv
<1>5. QED
    BY <1>3, <1>4

\* So does what starts a verification.
LEMMA StartKeeps ==
    ASSUME LogInv,
           \/ \E r \in Library : Resolve(r)
           \/ \E r \in Lasting : ChooseLifecycle(r)
           \/ ReplayVerification
    PROVE  LogInv'
<1>1. ASSUME NEW r \in Library, Load(r), RunVerification(credential')
      PROVE  LogInv'
    <2>1. fixture' \in Library /\ credential' \in Sound
        BY <1>1, LoadKeeps
    <2>2. PICK c \in Sound : c = credential'
        BY <2>1
    <2>3. RunVerification(c)
        BY <1>1, <2>2 DEF RunVerification
    <2>4. QED
        BY <2>1, <2>3, VerificationStarts DEF LogInv
<1>2. CASE \E r \in Library : Resolve(r)
    BY <1>1, <1>2 DEF Resolve
<1>3. CASE \E r \in Lasting : ChooseLifecycle(r)
    BY <1>1, <1>3, PublicProofAssumption DEF ChooseLifecycle
<1>4. CASE ReplayVerification
    <2>1. fixture' \in Library /\ credential' \in Sound
        BY <1>4 DEF ReplayVerification, record, LogInv
    <2>2. credential \in Sound /\ RunVerification(credential)
        BY <1>4 DEF ReplayVerification, LogInv
    <2>3. QED
        BY <2>1, <2>2, VerificationStarts DEF LogInv
<1>5. QED
    BY <1>2, <1>3, <1>4

\* So do the other controls.
LEMMA EditKeeps ==
    ASSUME LogInv,
           \/ \E r \in Library : SelectFixture(r)
           \/ \E n \in 1..Stages : SetStage(n)
           \/ \E l \in Offered : SetLifecycle(l)
           \/ \E i \in DOMAIN webhooks : RetryWebhook(i) \/ ReplayWebhook(i)
           \/ SetReducedMotion
    PROVE  LogInv'
<1>1. CASE \E r \in Library : SelectFixture(r)
    <2>1. fixture' \in Library /\ credential' \in Sound
        BY <1>1, LoadKeeps DEF SelectFixture
    <2>2. QED
        BY <1>1, <2>1 DEF SelectFixture, LogInv
<1>2. CASE \E l \in Offered : SetLifecycle(l)
    <2>1. PICK l \in Offered : SetLifecycle(l)
        BY <1>2
    <2>2. l \in Lifecycles
        BY PublicProofAssumption
    <2>3. credential' \in Sound
        BY <2>1, <2>2 DEF SetLifecycle, LogInv, Sound, Credential
    <2>4. QED
        BY <2>1, <2>3 DEF SetLifecycle, LogInv
<1>3. CASE \E n \in 1..Stages : SetStage(n)
    BY <1>3 DEF SetStage, LogInv, record
<1>4. CASE \E i \in DOMAIN webhooks : RetryWebhook(i) \/ ReplayWebhook(i)
    BY <1>4 DEF RetryWebhook, ReplayWebhook, LogInv
<1>5. CASE SetReducedMotion
    BY <1>5 DEF SetReducedMotion, LogInv, record
<1>6. QED
    BY <1>1, <1>2, <1>3, <1>4, <1>5

\* The first record agrees with itself.
LEMMA InitHolds ==
    ASSUME Init
    PROVE  LogInv
<1>1. fixture \in Library /\ credential \in Sound
    BY BuildIsSound, PublicProofAssumption DEF Init
<1>2. QED
    BY <1>1 DEF Init, LogInv

\* Every step keeps the invariant.
LEMMA NextKeeps ==
    ASSUME LogInv, [Next]_vars
    PROVE  LogInv'
<1>1. CASE Next
    BY <1>1, ProceedKeeps, StartKeeps, EditKeeps DEF Next
<1>2. CASE UNCHANGED vars
    BY <1>2 DEF vars, LogInv
<1>3. QED
    BY <1>1, <1>2

(* The log answers for each request what the service answers for that record, though another record *)
(* may have been loaded, or its lifecycle changed, before the request ended.  (runVerification.)    *)
THEOREM LogIsAsServed == Spec => []LoggedAsServed
<1>1. Init => LogInv
    BY InitHolds
<1>2. LogInv /\ [Next]_vars => LogInv'
    BY NextKeeps
<1>3. LogInv => LoggedAsServed
    BY DEF LogInv, LoggedAsServed, Honest
<1>4. QED
    BY <1>1, <1>2, <1>3, PTL DEF Spec

-----------------------------------------------------------------------------
(* What is shown of a record.  None of the parts of ConsequencesAgree is inductive by itself: that  *)
(* a replay names an earlier attempt needs every attempt to be numbered by its place, and that an   *)
(* attempt is about the webhook needs the events never to be cut.                                   *)

Types == {"verification.started", "evidence.bound", "claims.resolved", "review.completed",
          "credential.authorization.blocked", "approval.completed", "custos.completed",
          "credential.issued", "registry.published", "seal.authorized", "webhook.attempted",
          "webhook.failed", "credential.lifecycle.changed"}
Hashes == {Genesis} \cup (Library \X (Types \cup Lifecycles))
Event  == [type: Types, record: Library, sequence: Nat, previous: Hashes, hash: Hashes,
           lifecycle: Lifecycles]
Tried  == [id: Nat, event: Nat, attempt: Nat, status: {"waiting", "delivered", "failed"},
           replayOf: Nat]

\* The events evs are the chain of record r, and the last one leaves it in lifecycle l.
Chain(evs, r, l) ==
    /\ evs \in Seq(Event) /\ Len(evs) > 0
    /\ \A i \in 1..Len(evs) :
        /\ evs[i].record = r /\ evs[i].sequence = i
        /\ evs[i].previous = IF i = 1 THEN Genesis ELSE evs[i - 1].hash
    /\ evs[Len(evs)].lifecycle = l

\* The attempts hooks are numbered, about the webhook among the events evs, and replay earlier ones.
Attempts(hooks, evs) ==
    /\ hooks \in Seq(Tried)
    /\ \A i \in 1..Len(hooks) :
        /\ hooks[i].id = i /\ hooks[i].replayOf < i
        /\ hooks[i].event \in 1..Len(evs)
        /\ evs[hooks[i].event].type = "webhook.attempted"

SealSaid(evs, sealed) == sealed <=> \E i \in 1..Len(evs) : evs[i].type = "seal.authorized"

ShownInv ==
    /\ fixture \in Library /\ credential \in Credential /\ credential.record = fixture
    /\ Chain(events, fixture, credential.lifecycle)
    /\ SealSaid(events, credential.sealed)
    /\ Attempts(webhooks, events)

\* What a concatenation of types holds.
LEMMA PlusFacts ==
    ASSUME NEW a \in Seq(Types), NEW b \in Seq(Types)
    PROVE  /\ a \o b \in Seq(Types)
           /\ ToSet(a \o b) = ToSet(a) \cup ToSet(b)
<1>1. /\ a \o b \in Seq(Types) /\ Len(a \o b) = Len(a) + Len(b)
      /\ \A i \in 1..Len(a) + Len(b) : (a \o b)[i] = IF i <= Len(a) THEN a[i] ELSE b[i - Len(a)]
    BY ConcatProperties
<1>2. Len(a) \in Nat /\ Len(b) \in Nat
    OBVIOUS
<1>0. /\ ToSet(a) = {a[i] : i \in 1..Len(a)} /\ ToSet(b) = {b[i] : i \in 1..Len(b)}
      /\ ToSet(a \o b) = {(a \o b)[i] : i \in 1..Len(a) + Len(b)}
    BY <1>1 DEF ToSet
<1>3. ASSUME NEW i \in 1..Len(a) + Len(b) PROVE  (a \o b)[i] \in ToSet(a) \cup ToSet(b)
    <2>2. CASE i <= Len(a)
        BY <1>0, <1>1, <1>2, <2>2
    <2>3. CASE ~(i <= Len(a))
        <3>1. i - Len(a) \in 1..Len(b) /\ b[i - Len(a)] = (a \o b)[i]
            BY <1>1, <1>2, <2>3
        <3>2. QED
            BY <1>0, <3>1
    <2>4. QED
        BY <2>2, <2>3
<1>4. ASSUME NEW i \in 1..Len(a) PROVE  a[i] \in ToSet(a \o b)
    <2>2. i \in 1..Len(a) + Len(b) /\ (a \o b)[i] = a[i]
        BY <1>1, <1>2
    <2>3. QED
        BY <1>0, <2>2
<1>5. ASSUME NEW i \in 1..Len(b) PROVE  b[i] \in ToSet(a \o b)
    <2>2. Len(a) + i \in 1..Len(a) + Len(b) /\ ~(Len(a) + i <= Len(a)) /\ (Len(a) + i) - Len(a) = i
        BY <1>2
    <2>3. (a \o b)[Len(a) + i] = b[i]
        BY <1>1, <2>2
    <2>4. QED
        BY <1>0, <2>2, <2>3
<1>6. ToSet(a \o b) \subseteq ToSet(a) \cup ToSet(b)
    BY <1>0, <1>3
<1>7. ToSet(a) \subseteq ToSet(a \o b) /\ ToSet(b) \subseteq ToSet(a \o b)
    BY <1>0, <1>4, <1>5
<1>8. QED
    BY <1>1, <1>6, <1>7

\* The types of a credential's events: the seal's is there exactly if it was issued with it, and the
\* webhook's exactly if it was issued.
LEMMA TypesFacts ==
    ASSUME NEW c \in Credential
    PROVE  /\ EventTypes(c) \in Seq(Types) /\ EventTypes(c) # <<>>
           /\ "seal.authorized" \in ToSet(EventTypes(c)) <=> c.issued /\ c.sealed
<1> DEFINE first   == <<"verification.started", "evidence.bound", "claims.resolved", "review.completed">>
           blocked == <<"credential.authorization.blocked">>
           okay    == <<"approval.completed">>
           custos  == IF c.tier = 4 THEN <<"custos.completed">> ELSE <<>>
           public  == <<"credential.issued", "registry.published">>
           seal    == IF c.sealed THEN <<"seal.authorized">> ELSE <<>>
           hook    == <<"webhook.attempted", "webhook.failed">>
           rest    == IF ~c.issued THEN blocked ELSE okay \o custos \o public \o seal \o hook
<1>0. c.issued \in BOOLEAN /\ c.sealed \in BOOLEAN
    BY DEF Credential
<1>1. /\ first \in Seq(Types) /\ blocked \in Seq(Types) /\ okay \in Seq(Types)
      /\ custos \in Seq(Types) /\ public \in Seq(Types) /\ seal \in Seq(Types) /\ hook \in Seq(Types)
  <2>1. first \in Seq(Types)
    BY DEF Types
  <2>2. blocked \in Seq(Types) /\ okay \in Seq(Types)
    BY DEF Types
  <2>3. custos \in Seq(Types) /\ seal \in Seq(Types)
    <3>1. <<"custos.completed">> \in Seq(Types) /\ <<"seal.authorized">> \in Seq(Types)
        BY DEF Types
    <3>2. <<>> \in Seq(Types)
        OBVIOUS
    <3>3. QED
        BY <3>1, <3>2
  <2>4. public \in Seq(Types) /\ hook \in Seq(Types)
    BY DEF Types
  <2>5. QED
    BY <2>1, <2>2, <2>3, <2>4
<1>2. /\ ToSet(first) = {"verification.started", "evidence.bound", "claims.resolved", "review.completed"}
      /\ ToSet(blocked) = {"credential.authorization.blocked"} /\ ToSet(okay) = {"approval.completed"}
  <2>0. DOMAIN first = {1, 2, 3, 4}
    <3>1. DOMAIN first = 1..4
        OBVIOUS
    <3>2. 1..4 = {1, 2, 3, 4}
        OBVIOUS
    <3>3. QED
        BY <3>1, <3>2
  <2>1. ToSet(first) = {"verification.started", "evidence.bound", "claims.resolved", "review.completed"}
    <3>1. ToSet(first) = {first[i] : i \in {1, 2, 3, 4}}
        BY <2>0 DEF ToSet
    <3>2. /\ first[1] = "verification.started" /\ first[2] = "evidence.bound"
          /\ first[3] = "claims.resolved" /\ first[4] = "review.completed"
        OBVIOUS
    <3> HIDE DEF first
    <3>3. QED
        BY <3>1, <3>2
  <2>2. QED
    BY <2>1 DEF ToSet
<1>3. ToSet(custos) \subseteq {"custos.completed"} /\ ToSet(public) = {"credential.issued", "registry.published"}
    BY DEF ToSet
<1>4. ToSet(seal) = IF c.sealed THEN {"seal.authorized"} ELSE {}
    BY DEF ToSet
<1>5. ToSet(hook) = {"webhook.attempted", "webhook.failed"}
    BY DEF ToSet
<1>6. EventTypes(c) = first \o rest
    BY DEF EventTypes
<1> HIDE DEF first, blocked, okay, custos, public, seal, hook
<1>7. okay \o custos \in Seq(Types) /\ ToSet(okay \o custos) = ToSet(okay) \cup ToSet(custos)
    BY <1>1, PlusFacts
<1>8. /\ okay \o custos \o public \in Seq(Types)
      /\ ToSet(okay \o custos \o public) = ToSet(okay \o custos) \cup ToSet(public)
    BY <1>1, <1>7, PlusFacts
<1>9. /\ okay \o custos \o public \o seal \in Seq(Types)
      /\ ToSet(okay \o custos \o public \o seal) = ToSet(okay \o custos \o public) \cup ToSet(seal)
    BY <1>1, <1>8, PlusFacts
<1>10. /\ okay \o custos \o public \o seal \o hook \in Seq(Types)
       /\ ToSet(okay \o custos \o public \o seal \o hook) = ToSet(okay \o custos \o public \o seal) \cup ToSet(hook)
    BY <1>1, <1>9, PlusFacts
<1>11. /\ rest \in Seq(Types)
       /\ ~c.issued => ToSet(rest) = ToSet(blocked)
       /\ c.issued  => ToSet(rest) = ToSet(okay) \cup ToSet(custos) \cup ToSet(public) \cup ToSet(seal) \cup ToSet(hook)
    BY <1>1, <1>7, <1>8, <1>9, <1>10
<1> HIDE DEF rest
<1>12. first \o rest \in Seq(Types) /\ ToSet(first \o rest) = ToSet(first) \cup ToSet(rest)
    BY <1>1, <1>11, PlusFacts
<1>13. "verification.started" \in ToSet(EventTypes(c)) /\ EventTypes(c) \in Seq(Types)
    BY <1>2, <1>6, <1>12
<1>14. EventTypes(c) # <<>>
    BY <1>13 DEF ToSet
<1>15. "seal.authorized" \in ToSet(EventTypes(c)) <=> c.issued /\ c.sealed
    <2>1. "seal.authorized" \in ToSet(EventTypes(c)) <=> "seal.authorized" \in ToSet(rest)
        BY <1>2, <1>6, <1>12
    <2>2. CASE ~c.issued
        BY <1>2, <1>11, <2>1, <2>2
    <2>3. CASE c.issued
        <3>1. "seal.authorized" \in ToSet(rest) <=> "seal.authorized" \in ToSet(seal)
            BY <1>2, <1>3, <1>5, <1>11, <2>3
        <3>2. QED
            BY <1>0, <1>4, <2>1, <2>3, <3>1
    <2>4. QED
        BY <2>2, <2>3
<1>16. QED
    BY <1>13, <1>14, <1>15

\* A credential is about its record, and sealed only if it was issued.
LEMMA BuildFacts ==
    ASSUME NEW r \in Library
    PROVE  /\ BuildCredential(r) \in Credential /\ BuildCredential(r).record = r
           /\ BuildCredential(r).sealed => BuildCredential(r).issued
BY BuildIsSound, LibraryFacts DEF BuildCredential, Sound

\* The events of a credential are its record's chain, and its attempts are about its webhook.
LEMMA BuildIsChained ==
    ASSUME NEW c \in Credential, c.sealed => c.issued
    PROVE  /\ Chain(BuildEvents(c), c.record, c.lifecycle)
           /\ SealSaid(BuildEvents(c), c.sealed)
<1> DEFINE types == EventTypes(c)
           evs   == BuildEvents(c)
           n     == Len(types)
<1>1. types \in Seq(Types) /\ types # <<>> /\ ("seal.authorized" \in ToSet(types) <=> c.issued /\ c.sealed)
    BY TypesFacts
<1>2. c.record \in Library /\ c.lifecycle \in Lifecycles /\ c.sealed \in BOOLEAN /\ c.issued \in BOOLEAN
    BY DEF Credential
<1>3. n \in Nat /\ n > 0 /\ DOMAIN types = 1..n
    BY <1>1
<1>4. evs = [i \in 1..n |-> SignedEvent(c.record, types[i], i,
                 IF i = 1 THEN Genesis ELSE Hash(c.record, types[i - 1]), types[i], c.lifecycle)]
    BY DEF BuildEvents
<1> HIDE DEF types, evs, n
<1>5. ASSUME NEW i \in 1..n
      PROVE  /\ evs[i].type = types[i] /\ evs[i].record = c.record /\ evs[i].sequence = i
             /\ evs[i].previous = IF i = 1 THEN Genesis ELSE Hash(c.record, types[i - 1])
             /\ evs[i].hash = Hash(c.record, types[i]) /\ evs[i].lifecycle = c.lifecycle
             /\ evs[i] = SignedEvent(c.record, types[i], i, evs[i].previous, types[i], c.lifecycle)
    BY <1>4 DEF SignedEvent
<1>6. ASSUME NEW i \in 1..n
      PROVE  types[i] \in Types /\ Hash(c.record, types[i]) \in Hashes
    BY <1>1, <1>2, <1>3 DEF Hash, Hashes, n
<1>7. ASSUME NEW i \in 1..n
      PROVE  evs[i] \in Event
    <2>1. evs[i].previous \in Hashes
        <3>1. CASE i = 1
            BY <1>5, <3>1 DEF Hashes
        <3>2. CASE i # 1
            BY <1>3, <1>5, <1>6, <3>2
        <3>3. QED
            BY <3>1, <3>2
    <2>2. evs[i] = [type |-> types[i], record |-> c.record, sequence |-> i, previous |-> evs[i].previous,
                    hash |-> Hash(c.record, types[i]), lifecycle |-> c.lifecycle]
        BY <1>5 DEF SignedEvent
    <2>3. i \in Nat
        BY <1>3
    <2>4. QED
        BY <1>2, <1>6, <2>1, <2>2, <2>3 DEF Event
<1>8. evs \in Seq(Event) /\ Len(evs) = n
    BY <1>3, <1>4, <1>7
<1>9. ASSUME NEW i \in 1..n
      PROVE  evs[i].previous = IF i = 1 THEN Genesis ELSE evs[i - 1].hash
    BY <1>3, <1>5
<1>10. Chain(evs, c.record, c.lifecycle)
    BY <1>3, <1>5, <1>8, <1>9 DEF Chain
<1>11. c.sealed <=> \E i \in 1..n : types[i] = "seal.authorized"
    BY <1>1, <1>2, <1>3 DEF ToSet
<1>12. SealSaid(evs, c.sealed)
    BY <1>5, <1>8, <1>11 DEF SealSaid
<1>13. QED
    BY <1>10, <1>12 DEF evs

\* The attempts derived from a chain are about its webhook.
LEMMA AttemptsAreNumbered ==
    ASSUME NEW evs \in Seq(Event)
    PROVE  Attempts(BuildWebhookAttempts(evs), evs)
<1> DEFINE attempted == {i \in DOMAIN evs : evs[i].type = "webhook.attempted"}
           at        == CHOOSE i \in attempted : TRUE
           first     == [id |-> 1, event |-> at, attempt |-> 1, status |-> "failed", replayOf |-> 0]
           second    == [id |-> 2, event |-> at, attempt |-> 2, status |-> "waiting", replayOf |-> 0]
<1>1. CASE attempted = {}
    BY <1>1 DEF BuildWebhookAttempts, Attempts
<1>2. CASE attempted # {}
    <2>1. at \in attempted
        BY <1>2
    <2>2. at \in 1..Len(evs) /\ at \in Nat /\ evs[at].type = "webhook.attempted"
        BY <2>1
    <2>3. BuildWebhookAttempts(evs) = <<first, second>>
        BY <1>2 DEF BuildWebhookAttempts
    <2> HIDE DEF at
    <2>4. first \in Tried /\ second \in Tried
        BY <2>2 DEF Tried
    <2>5. /\ <<first, second>> \in Seq(Tried) /\ Len(<<first, second>>) = 2
          /\ <<first, second>>[1] = first /\ <<first, second>>[2] = second
        BY <2>4
    <2>6. \A i \in 1..2 : /\ <<first, second>>[i].id = i /\ <<first, second>>[i].replayOf < i
                          /\ <<first, second>>[i].event = at
        <3>1. \A i \in 1..2 : i = 1 \/ i = 2
            OBVIOUS
        <3>2. QED
            BY <2>5, <3>1
    <2>7. Attempts(<<first, second>>, evs)
        BY <2>2, <2>5, <2>6 DEF Attempts
    <2>8. QED
        BY <2>3, <2>7
<1>3. QED
    BY <1>1, <1>2

\* Whatever was shown before, a loaded record is shown with what belongs to it.
LEMMA LoadShows ==
    ASSUME NEW r \in Library, Load(r)
    PROVE  ShownInv'
<1>1. /\ fixture' = r /\ credential' = BuildCredential(r) /\ events' = BuildEvents(credential')
      /\ webhooks' = BuildWebhookAttempts(events')
    BY DEF Load
<1>2. credential' \in Credential /\ credential'.record = r /\ (credential'.sealed => credential'.issued)
    BY <1>1, BuildFacts
<1>3. Chain(events', r, credential'.lifecycle) /\ SealSaid(events', credential'.sealed)
    BY <1>1, <1>2, BuildIsChained
<1>4. Attempts(webhooks', events')
    BY <1>1, <1>3, AttemptsAreNumbered DEF Chain
<1>5. QED
    BY <1>1, <1>2, <1>3, <1>4 DEF ShownInv

\* The record loaded at first is shown with what belongs to it.
LEMMA InitShows ==
    ASSUME Init
    PROVE  ShownInv
<1>1. /\ fixture = Initial /\ credential = BuildCredential(Initial) /\ events = BuildEvents(credential)
      /\ webhooks = BuildWebhookAttempts(events) /\ Initial \in Library
    BY PublicProofAssumption DEF Init
<1>2. credential \in Credential /\ credential.record = Initial /\ (credential.sealed => credential.issued)
    BY <1>1, BuildFacts
<1>3. Chain(events, Initial, credential.lifecycle) /\ SealSaid(events, credential.sealed)
    BY <1>1, <1>2, BuildIsChained
<1>4. Attempts(webhooks, events)
    BY <1>1, <1>3, AttemptsAreNumbered DEF Chain
<1>5. QED
    BY <1>1, <1>2, <1>3, <1>4 DEF ShownInv

\* A change of the lifecycle adds the next event of the chain, which is neither the seal's nor the webhook's.
LEMMA SetLifecycleShows ==
    ASSUME ShownInv, NEW l \in Offered, SetLifecycle(l)
    PROVE  ShownInv'
<1> DEFINE n == Len(events)
           e == LifecycleEvent(l)
<1>1. /\ fixture' = fixture /\ webhooks' = webhooks
      /\ credential' = [credential EXCEPT !.lifecycle = l] /\ events' = Append(events, e)
    BY DEF SetLifecycle
<1>2. fixture \in Library /\ l \in Lifecycles /\ credential \in Credential /\ credential.record = fixture
    BY PublicProofAssumption DEF ShownInv
<1>3. /\ credential' \in Credential /\ credential'.record = fixture /\ credential'.lifecycle = l
      /\ credential'.sealed = credential.sealed
    BY <1>1, <1>2 DEF Credential
<1>4. events \in Seq(Event) /\ n \in Nat /\ n > 0
    BY DEF ShownInv, Chain
<1>5. Last(events) = events[n] /\ events[n] \in Event
    BY <1>4 DEF Last
<1>6. e = [type |-> "credential.lifecycle.changed", record |-> fixture, sequence |-> n + 1,
           previous |-> events[n].hash, hash |-> Hash(fixture, l), lifecycle |-> l]
    BY <1>5 DEF LifecycleEvent, SignedEvent
<1>7. Hash(fixture, l) \in Hashes /\ "credential.lifecycle.changed" \in Types /\ events[n].hash \in Hashes
    BY <1>2, <1>5 DEF Hash, Hashes, Types, Event
<1> HIDE DEF e
<1>8. e \in Event
    BY <1>2, <1>4, <1>6, <1>7 DEF Event
<1>9. /\ events' \in Seq(Event) /\ Len(events') = n + 1 /\ events'[n + 1] = e
      /\ \A i \in 1..n : events'[i] = events[i]
    BY <1>1, <1>4, <1>8
<1> HIDE DEF n
<1>10. ASSUME NEW i \in 1..(n + 1)
       PROVE  /\ events'[i].record = fixture /\ events'[i].sequence = i
              /\ events'[i].previous = IF i = 1 THEN Genesis ELSE events'[i - 1].hash
    <2>1. CASE i = n + 1
        <3>1. i # 1 /\ i - 1 = n /\ n \in 1..n
            BY <1>4, <2>1
        <3>2. QED
            BY <1>6, <1>9, <2>1, <3>1
    <2>2. CASE i # n + 1
        <3>1. i \in 1..n /\ (i # 1 => i - 1 \in 1..n)
            BY <1>4, <2>2
        <3>2. QED
            BY <1>9, <3>1 DEF ShownInv, Chain, n
    <2>3. QED
        BY <2>1, <2>2
<1>11. Chain(events', fixture, l)
    BY <1>4, <1>6, <1>9, <1>10 DEF Chain
<1>12. SealSaid(events', credential.sealed)
    <2>1. \A i \in 1..(n + 1) : i \in 1..n \/ i = n + 1
        BY <1>4
    <2>2. \A i \in 1..n : i \in 1..(n + 1)
        BY <1>4
    <2>3. SealSaid(events, credential.sealed)
        BY DEF ShownInv
    <2>4. e.type # "seal.authorized"
        BY <1>6
    <2>5. QED
        BY <1>9, <2>1, <2>2, <2>3, <2>4 DEF SealSaid, n
<1>13. Attempts(webhooks', events')
    <2>1. \A i \in 1..n : i \in 1..(n + 1)
        BY <1>4
    <2>2. QED
        BY <1>1, <1>9, <2>1 DEF ShownInv, Attempts, n
<1>14. QED
    BY <1>1, <1>2, <1>3, <1>11, <1>12, <1>13 DEF ShownInv

\* A retry and a replay leave every attempt its number and its webhook.
LEMMA WebhookShows ==
    ASSUME ShownInv, NEW i \in DOMAIN webhooks, RetryWebhook(i) \/ ReplayWebhook(i)
    PROVE  ShownInv'
<1>1. /\ fixture' = fixture /\ credential' = credential /\ events' = events
    BY DEF RetryWebhook, ReplayWebhook
<1>2. webhooks \in Seq(Tried) /\ i \in 1..Len(webhooks) /\ webhooks[i] \in Tried
    BY DEF ShownInv, Attempts
<1>3. Attempts(webhooks, events)
    BY DEF ShownInv
<1>4. CASE RetryWebhook(i)
    <2> DEFINE w == [webhooks[i] EXCEPT !.status = "delivered"]
    <2>1. /\ w \in Tried /\ w.id = webhooks[i].id /\ w.replayOf = webhooks[i].replayOf
          /\ w.event = webhooks[i].event
        BY <1>2 DEF Tried
    <2>2. webhooks' = [webhooks EXCEPT ![i] = w]
        BY <1>4 DEF RetryWebhook
    <2> HIDE DEF w
    <2>3. /\ webhooks' \in Seq(Tried) /\ Len(webhooks') = Len(webhooks)
          /\ webhooks'[i] = w /\ \A j \in 1..Len(webhooks) : j # i => webhooks'[j] = webhooks[j]
        BY <1>2, <2>1, <2>2
    <2>4. ASSUME NEW j \in 1..Len(webhooks)
          PROVE  /\ webhooks'[j].id = webhooks[j].id /\ webhooks'[j].replayOf = webhooks[j].replayOf
                 /\ webhooks'[j].event = webhooks[j].event
        BY <2>1, <2>3
    <2>6. Attempts(webhooks', events)
        BY <1>3, <2>3, <2>4 DEF Attempts
    <2>5. QED
        BY <1>1, <2>6 DEF ShownInv
<1>5. CASE ReplayWebhook(i)
    <2> DEFINE n == Len(webhooks)
    <2>1. n \in Nat /\ n + 1 \in Nat /\ webhooks[i].id = i /\ i \in Nat /\ i < n + 1
        BY <1>2, <1>3 DEF Attempts
    <2>2. PICK w : w = [webhooks[i] EXCEPT !.id = n + 1, !.attempt = @ + 1, !.status = "delivered",
                                           !.replayOf = webhooks[i].id]
        OBVIOUS
    <2>3. webhooks' = Append(webhooks, w)
        BY <1>5, <2>2 DEF ReplayWebhook
    <2> HIDE DEF n
    <2>8. w \in Tried /\ w.id = n + 1 /\ w.replayOf = i /\ w.event = webhooks[i].event
        <3>1. PICK b : b = webhooks[i]
            OBVIOUS
        <3>2. PICK m : m = n + 1
            OBVIOUS
        <3>3. b \in Tried /\ m \in Nat /\ b.id = i
            BY <1>2, <2>1, <3>1, <3>2
        <3>4. w = [b EXCEPT !.id = m, !.attempt = @ + 1, !.status = "delivered", !.replayOf = b.id]
            BY <2>2, <3>1, <3>2
        <3>5. b.event \in Nat /\ b.attempt + 1 \in Nat
            BY <3>3 DEF Tried
        <3>6. PICK w1 \in Tried : w1 = [b EXCEPT !.id = m]
            BY <3>3 DEF Tried
        <3>7. PICK w2 \in Tried : w2 = [w1 EXCEPT !.attempt = b.attempt + 1]
            BY <3>5 DEF Tried
        <3>8. PICK w3 \in Tried : w3 = [w2 EXCEPT !.status = "delivered"]
            BY DEF Tried
        <3>9. PICK w4 \in Tried : w4 = [w3 EXCEPT !.replayOf = i]
            BY <2>1 DEF Tried
        <3>10. DOMAIN b = {"id", "event", "attempt", "status", "replayOf"}
            BY <3>3 DEF Tried
        <3>11. w4 = w
            BY <3>3, <3>4, <3>6, <3>7, <3>8, <3>9, <3>10
        <3>12. w.id = m /\ w.replayOf = i /\ w.event = b.event
            BY <3>3, <3>4, <3>10
        <3>13. QED
            BY <3>1, <3>2, <3>9, <3>11, <3>12
    <2>4. /\ webhooks' \in Seq(Tried) /\ Len(webhooks') = n + 1
          /\ webhooks'[n + 1] = w /\ \A j \in 1..n : webhooks'[j] = webhooks[j]
        BY <1>2, <2>3, <2>8 DEF n
    <2>5. \A j \in 1..(n + 1) : j \in 1..n \/ j = n + 1
        BY <2>1
    <2>6. ASSUME NEW j \in 1..(n + 1)
          PROVE  /\ webhooks'[j].id = j /\ webhooks'[j].replayOf < j
                 /\ webhooks'[j].event \in 1..Len(events)
                 /\ events[webhooks'[j].event].type = "webhook.attempted"
        <3>1. CASE j \in 1..n
            BY <1>3, <2>4, <3>1 DEF Attempts, n
        <3>2. CASE j = n + 1
            BY <1>2, <1>3, <2>1, <2>4, <2>8, <3>2 DEF Attempts
        <3>3. QED
            BY <2>5, <3>1, <3>2
    <2>9. Attempts(webhooks', events)
        BY <2>4, <2>6 DEF Attempts
    <2>7. QED
        BY <1>1, <2>9 DEF ShownInv
<1>6. QED
    BY <1>4, <1>5

\* Every step shows what belongs together.
LEMMA NextShows ==
    ASSUME ShownInv, [Next]_vars
    PROVE  ShownInv'
<1>1. CASE \E r \in Library : SelectFixture(r) \/ Resolve(r)
    BY <1>1, LoadShows DEF SelectFixture, Resolve
<1>2. CASE \E r \in Lasting : ChooseLifecycle(r)
    BY <1>2, LoadShows, PublicProofAssumption DEF ChooseLifecycle
<1>3. CASE \E l \in Offered : SetLifecycle(l)
    BY <1>3, SetLifecycleShows
<1>4. CASE \E i \in DOMAIN webhooks : RetryWebhook(i) \/ ReplayWebhook(i)
    BY <1>4, WebhookShows
<1>5. CASE \/ ReplayVerification
           \/ \E s \in Slots : Proceed(s)
           \/ \E n \in 1..Stages : SetStage(n)
           \/ SetReducedMotion \/ UNCHANGED vars
    BY <1>5 DEF ReplayVerification, Proceed, SetStage, SetReducedMotion, record, vars, ShownInv
<1>6. QED
    BY <1>1, <1>2, <1>3, <1>4, <1>5 DEF Next

(* Whatever is loaded, changed, retried and replayed, what is shown of a record belongs together:  *)
(* one chain of events without gaps that ends in the credential's lifecycle, the seal's event       *)
(* exactly with the seal, and attempts that are about its webhook and name earlier ones.            *)
(* (selectFixture, setLifecycle, retryWebhook, replayWebhook.)                                      *)
THEOREM ConsequencesBelongTogether == Spec => []ConsequencesAgree
<1>1. Init => ShownInv
    BY InitShows
<1>2. ShownInv /\ [Next]_vars => ShownInv'
    BY NextShows
<1>3. ShownInv => ConsequencesAgree
    <2> SUFFICES ASSUME ShownInv PROVE ConsequencesAgree
        OBVIOUS
    <2>1. DOMAIN events = 1..Len(events) /\ DOMAIN webhooks = 1..Len(webhooks) /\ Last(events) = events[Len(events)]
        BY DEF ShownInv, Chain, Attempts, Last
    <2>2. \A i, j \in 1..Len(webhooks) : webhooks[i].id = webhooks[j].id => i = j
        BY DEF ShownInv, Attempts
    <2>3. /\ credential.record = fixture /\ Last(events).lifecycle = credential.lifecycle
          /\ \A i \in DOMAIN events :
              /\ events[i].record = fixture /\ events[i].sequence = i
              /\ events[i].previous = IF i = 1 THEN Genesis ELSE events[i - 1].hash
        BY <2>1 DEF ShownInv, Chain
    <2>4. credential.sealed <=> \E i \in DOMAIN events : events[i].type = "seal.authorized"
        BY <2>1 DEF ShownInv, SealSaid
    <2>5. \A i \in DOMAIN webhooks : /\ events[webhooks[i].event].type = "webhook.attempted"
                                     /\ webhooks[i].replayOf < webhooks[i].id
        BY <2>1 DEF ShownInv, Attempts
    <2>6. QED
        BY <2>1, <2>2, <2>3, <2>4, <2>5 DEF ConsequencesAgree
<1>4. QED
    BY <1>1, <1>2, <1>3, PTL DEF Spec
-----------------------------------------------------------------------------
(* Types: what the two invariants leave open. *)

RestOK ==
    /\ Len(webhooks) <= MaxReplays + 2
    /\ stage \in 1..Stages /\ runState \in RunStates
    /\ Len(apiLog) <= LogLimit /\ reducedMotion \in BOOLEAN

\* The bounds as numbers.
LEMMA BoundFacts == MaxReplays \in Nat /\ Stages \in Nat /\ LogLimit \in Nat /\ 1 \in 1..Stages
BY PublicProofAssumption

\* The end of a verification keeps the log within its length.
LEMMA EndRest ==
    ASSUME LogInv, RestOK, NEW run, End(run)
    PROVE  runState' \in RunStates /\ Len(apiLog') <= LogLimit
<1> DEFINE kept == IF Len(apiLog) < LogLimit THEN Len(apiLog) ELSE LogLimit - 1
<1>1. PICK status : runState' = Ended(status)
    BY DEF End
<1>2. runState' \in RunStates
    BY <1>1 DEF Ended, RunStates
<1>3. PICK e : apiLog' = Logged(e)
    BY DEF End
<1>4. kept \in 0..Len(apiLog) /\ kept < LogLimit /\ LogLimit \in Nat
    BY PublicProofAssumption DEF LogInv
<1>5. SubSeq(apiLog, 1, kept) \in Seq(Honest) /\ Len(SubSeq(apiLog, 1, kept)) = kept
    BY <1>4 DEF LogInv
<1> HIDE DEF kept
<1>6. Len(<<e>> \o SubSeq(apiLog, 1, kept)) = 1 + kept
    BY <1>5
<1>7. apiLog' = <<e>> \o SubSeq(apiLog, 1, kept)
    BY <1>3 DEF Logged, kept
<1>8. QED
    BY <1>2, <1>4, <1>6, <1>7

\* So does its start.
LEMMA RunRest ==
    ASSUME LogInv, RestOK, NEW c, RunVerification(c)
    PROVE  stage' \in 1..Stages /\ runState' \in RunStates /\ Len(apiLog') <= LogLimit
<1>1. CASE reducedMotion
    BY <1>1, EndRest, PublicProofAssumption DEF RunVerification
<1>2. CASE ~reducedMotion
    BY <1>2, PublicProofAssumption DEF RunVerification, RestOK, RunStates
<1>3. QED
    BY <1>1, <1>2

\* A record is loaded with two attempts at most.
LEMMA LoadRest ==
    ASSUME NEW r \in Library, Load(r)
    PROVE  Len(webhooks') <= MaxReplays + 2
<1>1. Len(webhooks') \in 0..2
    BY DEF Load, BuildWebhookAttempts
<1>2. PICK n \in 0..2 : Len(webhooks') = n
    BY <1>1
<1>3. n <= MaxReplays + 2
    BY BoundFacts
<1>4. QED
    BY <1>2, <1>3

\* Every step is well typed.
LEMMA NextRest ==
    ASSUME LogInv, ShownInv, RestOK, [Next]_vars
    PROVE  RestOK'
<1>1. CASE \E r \in Library : SelectFixture(r)
    BY <1>1, LoadRest, PublicProofAssumption DEF SelectFixture, RestOK, RunStates
<1>2. ASSUME NEW r \in Library, Resolve(r) \/ ChooseLifecycle(r)
      PROVE  RestOK'
    <2>1. Load(r) /\ RunVerification(credential') /\ reducedMotion' = reducedMotion
        BY <1>2 DEF Resolve, ChooseLifecycle
    <2>2. Len(webhooks') <= MaxReplays + 2
        BY <2>1, LoadRest
    <2>3. PICK c : c = credential'
        OBVIOUS
    <2>4. RunVerification(c)
        BY <2>1, <2>3 DEF RunVerification
    <2>5. QED
        BY <2>1, <2>2, <2>4, RunRest DEF RestOK
<1>3. CASE ReplayVerification
    BY <1>3, RunRest DEF ReplayVerification, record, RestOK
<1>4. ASSUME NEW s \in Slots, Proceed(s)
      PROVE  RestOK'
    <2>1. runs[s] \in Taken
        BY <1>4 DEF LogInv, Proceed
    <2>2. stage' \in 1..Stages /\ reducedMotion' = reducedMotion /\ webhooks' = webhooks
        BY <1>4, <2>1 DEF Proceed, Taken, record
    <2>3. runState' \in RunStates /\ Len(apiLog') <= LogLimit
        BY <1>4, EndRest DEF Proceed, RestOK
    <2>4. QED
        BY <2>2, <2>3 DEF RestOK
<1>5. CASE \/ \E n \in 1..Stages : SetStage(n)
           \/ \E l \in Offered : SetLifecycle(l)
           \/ SetReducedMotion \/ UNCHANGED vars
    BY <1>5 DEF SetStage, SetLifecycle, SetReducedMotion, record, vars, RestOK
<1>6. ASSUME NEW i \in DOMAIN webhooks, RetryWebhook(i) \/ ReplayWebhook(i)
      PROVE  RestOK'
    <2>1. webhooks \in Seq(Tried)
        BY DEF ShownInv, Attempts
    <2>2. CASE RetryWebhook(i)
        <3>1. Len(webhooks') = Len(webhooks)
            BY <2>1, <2>2 DEF RetryWebhook
        <3>2. QED
            BY <2>2, <3>1 DEF RetryWebhook, RestOK
    <2>3. CASE ReplayWebhook(i)
        <3>1. Len(webhooks') = Len(webhooks) + 1 /\ Len(webhooks) < MaxReplays + 2 /\ Len(webhooks) \in Nat
            BY <2>1, <2>3 DEF ReplayWebhook
        <3>2. QED
            BY <2>3, <3>1, PublicProofAssumption DEF ReplayWebhook, RestOK
    <2>4. QED
        BY <1>6, <2>2, <2>3
<1>7. QED
    BY <1>1, <1>2, <1>3, <1>4, <1>5, <1>6, PublicProofAssumption DEF Next

\* Every reachable state of the public store is well typed.
THEOREM TypeCorrect == Spec => []TypeOK
<1>1. Init => LogInv /\ ShownInv /\ RestOK
    <2> SUFFICES ASSUME Init PROVE LogInv /\ ShownInv /\ RestOK
        OBVIOUS
    <2>1. Len(webhooks) \in 0..2
        BY DEF Init, BuildWebhookAttempts
    <2>2. PICK n \in 0..2 : Len(webhooks) = n
        BY <2>1
    <2>3. n <= MaxReplays + 2 /\ 0 <= LogLimit
        BY BoundFacts
    <2>4. RestOK
        BY <2>2, <2>3, BoundFacts DEF Init, RestOK, RunStates
    <2>5. QED
        BY <2>4, InitHolds, InitShows
<1>2. LogInv /\ ShownInv /\ RestOK /\ [Next]_vars => (LogInv /\ ShownInv /\ RestOK)'
    BY NextKeeps, NextShows, NextRest
<1>3. LogInv /\ ShownInv /\ RestOK => TypeOK
    <2> SUFFICES ASSUME LogInv, ShownInv, RestOK PROVE TypeOK
        OBVIOUS
    <2>1. \A i \in DOMAIN events : events[i].record \in Library /\ events[i].lifecycle \in Lifecycles
        <3>1. events \in Seq(Event)
            BY DEF ShownInv, Chain
        <3>2. \A i \in DOMAIN events : events[i] \in Event
            BY <3>1
        <3>3. QED
            BY <3>2 DEF Event
    <2>2. \A i \in DOMAIN webhooks : webhooks[i] \in WebhookAttempt
        <3> SUFFICES ASSUME NEW i \in DOMAIN webhooks PROVE webhooks[i] \in WebhookAttempt
            OBVIOUS
        <3>1. i \in 1..Len(webhooks) /\ webhooks[i] \in Tried /\ webhooks[i].id = i /\ webhooks[i].replayOf < i
            BY DEF ShownInv, Attempts
        <3>2. webhooks[i].replayOf \in Nat /\ i \in 1..(MaxReplays + 2)
            BY <3>1, PublicProofAssumption DEF RestOK, Tried, ShownInv, Attempts
        <3>3. webhooks[i].replayOf \in 0..(MaxReplays + 2)
            BY <3>1, <3>2, PublicProofAssumption
        <3>4. QED
            BY <3>1, <3>2, <3>3 DEF Tried, WebhookAttempt
    <2>3. runs \in [Slots -> [credential: Credential, next: 1..Stages] \cup {None}] /\ apiLog \in Seq(Request)
        BY DEF LogInv, Taken, Sound, Honest
    <2>4. QED
        BY <2>1, <2>2, <2>3 DEF ShownInv, RestOK, TypeOK
<1>4. QED
    BY <1>1, <1>2, <1>3, PTL DEF Spec

-----------------------------------------------------------------------------
(* IdentityScenes. *)

\* The types; of the scenes ScenesTypeOK says nothing about their domains.
ScenesTyped == ScenesTypeOK /\ scene \in [Objects -> [Runs -> Scene \cup {Nothing}]]

\* A run in force belongs to a page that is shown while WebGL is on.
RunsAreShown == \A o \in Objects : Current(o) => mounted[o] /\ ~noWebGL

\* What the flag of the observer's callback says is in view has its scene, or a task, or has failed.
Coming == \A o \in Objects : Current(o) /\ effect[o].visible /\ ~Built(o) /\ ~Queued(o) => mode[o] = "failed"

ScenesInv == ScenesTyped /\ RunsAreShown /\ OneLoop /\ NoOrphan /\ DrawsInView /\ Coming

\* Initially nothing is mounted and nothing built.
LEMMA ScenesInitInv == ScenesInit => ScenesInv
<1> SUFFICES ASSUME ScenesInit PROVE ScenesInv
  OBVIOUS
<1>1. ScenesTyped
  <2>1. {noWebGL, hidden} \subseteq BOOLEAN /\ mode \in [Objects -> {"fallback", "live", "failed"}]
    BY DEF ScenesInit
  <2>2. queue \in Seq(Objects \X Runs) /\ Len(queue) <= MaxQueued
    BY IdentityScenesAssumption DEF ScenesInit
  <2>3. scene \in [Objects -> [Runs -> Scene \cup {Nothing}]]
    BY DEF ScenesInit
  <2>4. started \in [Objects -> Runs \cup {0}] /\ effect \in [Objects -> Effect \cup {Nothing}]
    BY DEF ScenesInit
  <2>5. mounted \in [Objects -> BOOLEAN] /\ onscreen \in [Objects -> BOOLEAN]
        /\ report \in [Objects -> BOOLEAN \cup {Nothing}]
    BY DEF ScenesInit
  <2> QED BY <2>1, <2>2, <2>3, <2>4, <2>5 DEF ScenesTyped, ScenesTypeOK
<1>2. \A o \in Objects : effect[o] = Nothing /\ \A r \in Runs : scene[o][r] = Nothing
  BY DEF ScenesInit
<1> QED BY <1>1, <1>2 DEF ScenesInv, RunsAreShown, OneLoop, NoOrphan, DrawsInView, Coming, Current, Built

\* The scene of the run in force is the only one an object has.
LEMMA OnlyScene ==
    ASSUME ScenesInv, NEW o \in Objects
    PROVE  /\ \A r \in Runs : scene[o][r] \in Scene \cup {Nothing}
           /\ \A r \in Runs : scene[o][r] # Nothing => Current(o) /\ effect[o].run = r
           /\ Current(o) => effect[o] \in Effect /\ effect[o].run \in Runs
BY DEF ScenesInv, ScenesTyped, ScenesTypeOK, NoOrphan, Current, Effect

\* What a step leaves to the objects it is not about.
Same(o) == /\ effect'[o] = effect[o] /\ scene'[o] = scene[o] /\ mode'[o] = mode[o]
           /\ ToSet(queue) \subseteq ToSet(queue')

\* What the invariant says of one object.
ScenesOf(o) ==
    /\ Current(o) => mounted[o] /\ ~noWebGL
    /\ \A r \in Runs : scene[o][r] # Nothing =>
          /\ scene[o][r].frames = IF scene[o][r].paused THEN 0 ELSE 1
          /\ Current(o) /\ effect[o].run = r
    /\ Built(o) => scene[o][effect[o].run].paused = ~effect[o].visible
    /\ Current(o) /\ effect[o].visible /\ ~Built(o) /\ ~Queued(o) => mode[o] = "failed"

\* The invariant, object by object.
LEMMA ByObject == ScenesInv <=> ScenesTyped /\ \A o \in Objects : ScenesOf(o)
BY DEF ScenesInv, ScenesOf, RunsAreShown, OneLoop, NoOrphan, DrawsInView, Coming

\* The effects that are cleaned up lose their scene, and those that run anew have none yet.
LEMMA RerunInv ==
    ASSUME ScenesInv, NEW gone \in SUBSET Objects, NEW S \in SUBSET Objects, NEW fresh \in SUBSET Objects,
           NEW without \in BOOLEAN, Rerun(gone, S, fresh, without),
           fresh \subseteq S \cup gone, \A o \in S \ gone : ~Current(o),
           mounted' \in [Objects -> BOOLEAN], onscreen' \in [Objects -> BOOLEAN],
           noWebGL' \in BOOLEAN, hidden' \in BOOLEAN, queue' = queue,
           \A o \in Objects : (o \in S /\ ~without) \/ (Current(o) /\ o \notin gone) => mounted'[o] /\ ~noWebGL'
    PROVE  ScenesInv'
<1>1. PICK starts : starts = IF without THEN {} ELSE S
  OBVIOUS
<1>2. /\ \A o \in starts : Free(o)
      /\ started' = [o \in Objects |-> IF o \in starts THEN started[o] + 1 ELSE started[o]]
      /\ effect'  = [o \in Objects |-> IF o \in starts THEN NewRun(o)
                                       ELSE IF o \in gone THEN Nothing ELSE effect[o]]
      /\ scene'   = [o \in Objects |-> IF o \in gone /\ Current(o)
                                       THEN [scene[o] EXCEPT ![effect[o].run] = Nothing] ELSE scene[o]]
      /\ report'  = [o \in Objects |-> IF o \in starts THEN onscreen[o] ELSE IF o \in gone THEN Nothing ELSE report[o]]
      /\ mode'    = [o \in Objects |-> IF o \in fresh \/ (o \in S /\ without) THEN "fallback" ELSE mode[o]]
  BY <1>1 DEF Rerun
<1>3. \A o \in starts : o \in Objects /\ started[o] + 1 \in Runs /\ NewRun(o) \in Effect
  <2> SUFFICES ASSUME NEW o \in starts
               PROVE  o \in Objects /\ started[o] + 1 \in Runs /\ NewRun(o) \in Effect
    OBVIOUS
  <2>1. o \in Objects
    BY <1>1
  <2>2. started[o] \in Runs \cup {0} /\ started[o] < MaxRuns[o] /\ MaxRuns[o] \in Nat
    BY <1>2, <2>1, IdentityScenesAssumption DEF ScenesInv, ScenesTyped, ScenesTypeOK, Free
  <2>3. Runs \subseteq Nat
    BY IdentityScenesAssumption DEF Runs
  <2>4. started[o] + 1 \in 1..MaxRuns[o]
    <3>1. PICK n, m : n = started[o] /\ m = MaxRuns[o]
      OBVIOUS
    <3>2. n \in Runs \cup {0} /\ m \in Nat /\ n < m
      BY <2>2, <3>1
    <3>4. n \in Nat
      BY <2>3, <3>2
    <3>3. n + 1 \in 1..m
      BY <3>2, <3>4
    <3> QED BY <3>1, <3>3
  <2>5. started[o] + 1 \in Runs
    BY <2>1, <2>4 DEF Runs
  <2> QED BY <2>1, <2>5 DEF NewRun, Effect
<1>4. \A o \in Objects : scene'[o] \in [Runs -> Scene \cup {Nothing}]
  BY <1>2 DEF ScenesInv, ScenesTyped
<1>5. ScenesTyped'
  <2>1. started' \in [Objects -> Runs \cup {0}]
    BY <1>2, <1>3 DEF ScenesInv, ScenesTyped, ScenesTypeOK
  <2>2. effect' \in [Objects -> Effect \cup {Nothing}]
    BY <1>2, <1>3 DEF ScenesInv, ScenesTyped, ScenesTypeOK
  <2>3. report' \in [Objects -> BOOLEAN \cup {Nothing}]
    BY <1>2 DEF ScenesInv, ScenesTyped, ScenesTypeOK
  <2>4. mode' \in [Objects -> {"fallback", "live", "failed"}]
    BY <1>2 DEF ScenesInv, ScenesTyped, ScenesTypeOK
  <2>5. scene' \in [Objects -> [Runs -> Scene \cup {Nothing}]]
    BY <1>2, <1>4
  <2>6. queue' \in Seq(Objects \X Runs) /\ Len(queue') <= MaxQueued
    BY DEF ScenesInv, ScenesTyped, ScenesTypeOK
  <2> QED BY <2>1, <2>2, <2>3, <2>4, <2>5, <2>6 DEF ScenesTyped, ScenesTypeOK
<1>6. ASSUME NEW o \in Objects
      PROVE  ScenesOf(o)'
  <2>1. CASE o \in gone \/ o \in S
    <3>1. \A r \in Runs : scene'[o][r] = Nothing
      <4>1. ASSUME NEW r \in Runs
            PROVE  scene'[o][r] = Nothing
        <5>1. CASE Current(o)
          <6>1. o \in gone /\ scene'[o] = [scene[o] EXCEPT ![effect[o].run] = Nothing]
            BY <1>2, <2>1, <5>1
          <6>2. scene[o][r] # Nothing => effect[o].run = r
            BY OnlyScene
          <6>3. scene[o] \in [Runs -> Scene \cup {Nothing}]
            BY DEF ScenesInv, ScenesTyped
          <6> QED BY <6>1, <6>2, <6>3
        <5>2. CASE ~Current(o)
          BY <1>2, <5>2, OnlyScene
        <5> QED BY <5>1, <5>2
      <4> QED BY <4>1
    <3>2. effect'[o] = Nothing \/ (o \in starts /\ effect'[o] = NewRun(o))
      BY <1>1, <1>2, <2>1 DEF Current
    <3>3. CASE effect'[o] = Nothing
      BY <3>1, <3>3 DEF ScenesOf, Current, Built
    <3>4. CASE o \in starts /\ effect'[o] = NewRun(o)
      <4>1. effect'[o].run = started[o] + 1 /\ effect'[o].visible = FALSE
        BY <3>4 DEF NewRun
      <4>2. scene'[o][started[o] + 1] = Nothing
        BY <1>3, <3>1, <3>4
      <4>3. mounted'[o] /\ ~noWebGL'
        BY <1>1, <3>4
      <4> QED BY <3>1, <4>1, <4>2, <4>3 DEF ScenesOf, Current, Built
    <3> QED BY <3>2, <3>3, <3>4
  <2>2. CASE o \notin gone /\ o \notin S
    <3>1. effect'[o] = effect[o] /\ scene'[o] = scene[o] /\ mode'[o] = mode[o]
      BY <1>1, <1>2, <2>2
    <3>2. ScenesOf(o)
      BY ByObject
    <3>3. Current(o) => mounted'[o] /\ ~noWebGL'
      BY <2>2
    <3> QED BY <3>1, <3>2, <3>3 DEF ScenesOf, Current, Built, Queued
  <2> QED BY <2>1, <2>2
<1> QED BY <1>5, <1>6 DEF ScenesInv, ScenesOf, RunsAreShown, OneLoop, NoOrphan, DrawsInView, Coming

\* A page is shown.
LEMMA MountInv ==
    ASSUME ScenesInv, NEW o \in Objects, Mount(o) PROVE ScenesInv'
<1>1. /\ ~mounted[o] /\ mounted' = [mounted EXCEPT ![o] = TRUE]
      /\ Rerun({}, {o}, {o}, noWebGL)
      /\ UNCHANGED <<noWebGL, hidden, onscreen, queue>>
  BY DEF Mount
<1>2. noWebGL \in BOOLEAN /\ hidden \in BOOLEAN /\ mounted \in [Objects -> BOOLEAN] /\ onscreen \in [Objects -> BOOLEAN]
  BY DEF ScenesInv, ScenesTyped, ScenesTypeOK
<1>3. \A p \in Objects : Current(p) => mounted[p] /\ ~noWebGL
  BY DEF ScenesInv, RunsAreShown
<1>4. \A p \in Objects : (p \in {o} /\ ~noWebGL) \/ (Current(p) /\ p \notin {}) => mounted'[p] /\ ~noWebGL'
  BY <1>1, <1>2, <1>3
<1> QED BY <1>1, <1>2, <1>3, <1>4, RerunInv

\* A page goes, and its scene with it.
LEMMA UnmountInv ==
    ASSUME ScenesInv, NEW o \in Objects, Unmount(o) PROVE ScenesInv'
<1>1. /\ mounted' = [mounted EXCEPT ![o] = FALSE] /\ onscreen' = [onscreen EXCEPT ![o] = FALSE]
      /\ Rerun({o}, {}, {o}, noWebGL)
      /\ UNCHANGED <<noWebGL, hidden, queue>>
  BY DEF Unmount
<1>2. noWebGL \in BOOLEAN /\ hidden \in BOOLEAN /\ mounted \in [Objects -> BOOLEAN] /\ onscreen \in [Objects -> BOOLEAN]
  BY DEF ScenesInv, ScenesTyped, ScenesTypeOK
<1>3. \A p \in Objects : Current(p) => mounted[p] /\ ~noWebGL
  BY DEF ScenesInv, RunsAreShown
<1>4. \A p \in Objects : (p \in {} /\ ~noWebGL) \/ (Current(p) /\ p \notin {o}) => mounted'[p] /\ ~noWebGL'
  BY <1>1, <1>2, <1>3
<1>5. mounted' \in [Objects -> BOOLEAN] /\ onscreen' \in [Objects -> BOOLEAN]
  BY <1>1, <1>2
<1> QED BY <1>1, <1>2, <1>4, <1>5, RerunInv

\* The deck replaces one object.
LEMMA ActiveTierInv ==
    ASSUME ScenesInv, NEW o \in Objects, ActiveTier(o) PROVE ScenesInv'
<1>1. /\ mounted[o] /\ Rerun({o}, {o}, {o}, noWebGL)
      /\ UNCHANGED <<noWebGL, hidden, mounted, onscreen, queue>>
  BY DEF ActiveTier
<1>2. noWebGL \in BOOLEAN /\ hidden \in BOOLEAN /\ mounted \in [Objects -> BOOLEAN] /\ onscreen \in [Objects -> BOOLEAN]
  BY DEF ScenesInv, ScenesTyped, ScenesTypeOK
<1>3. \A p \in Objects : Current(p) => mounted[p] /\ ~noWebGL
  BY DEF ScenesInv, RunsAreShown
<1> QED BY <1>1, <1>2, <1>3, RerunInv

\* The preference for less motion runs every effect anew.
LEMMA PreferenceInv ==
    ASSUME ScenesInv, PreferReducedMotion PROVE ScenesInv'
<1>1. ~noWebGL /\ Rerun(Shown, Shown, {}, FALSE) /\ UNCHANGED <<noWebGL, hidden, mounted, onscreen, queue>>
  BY DEF PreferReducedMotion
<1>2. noWebGL \in BOOLEAN /\ hidden \in BOOLEAN /\ mounted \in [Objects -> BOOLEAN] /\ onscreen \in [Objects -> BOOLEAN]
  BY DEF ScenesInv, ScenesTyped, ScenesTypeOK
<1>3. \A p \in Objects : Current(p) => mounted[p] /\ ~noWebGL
  BY DEF ScenesInv, RunsAreShown
<1>4. Shown \in SUBSET Objects /\ \A p \in Shown : mounted[p]
  BY DEF Shown
<1>5. PICK off : off = FALSE
  OBVIOUS
<1>6. off \in BOOLEAN /\ Rerun(Shown, Shown, {}, off) /\ {} \in SUBSET Objects
  BY <1>1, <1>5
<1>7. \A p \in Objects : (p \in Shown /\ ~off) \/ (Current(p) /\ p \notin Shown) => mounted'[p] /\ ~noWebGL'
  BY <1>1, <1>3, <1>4
<1>8. mounted' \in [Objects -> BOOLEAN] /\ onscreen' \in [Objects -> BOOLEAN]
      /\ noWebGL' \in BOOLEAN /\ hidden' \in BOOLEAN /\ queue' = queue
  BY <1>1, <1>2
<1> QED BY <1>4, <1>6, <1>7, <1>8, RerunInv

\* The switch runs every effect anew, with or without WebGL.
LEMMA SetNoWebGLInv ==
    ASSUME ScenesInv, SetNoWebGL PROVE ScenesInv'
<1>1. noWebGL' = ~noWebGL /\ Rerun(Shown, Shown, {}, noWebGL') /\ UNCHANGED <<hidden, mounted, onscreen, queue>>
  BY DEF SetNoWebGL
<1>2. noWebGL \in BOOLEAN /\ hidden \in BOOLEAN /\ mounted \in [Objects -> BOOLEAN] /\ onscreen \in [Objects -> BOOLEAN]
  BY DEF ScenesInv, ScenesTyped, ScenesTypeOK
<1>3. \A p \in Objects : Current(p) => mounted[p] /\ ~noWebGL
  BY DEF ScenesInv, RunsAreShown
<1>4. Shown \in SUBSET Objects /\ \A p \in Objects : p \in Shown <=> mounted[p]
  BY DEF Shown
<1>5. \A p \in Objects : (p \in Shown /\ ~noWebGL') \/ (Current(p) /\ p \notin Shown) => mounted'[p] /\ ~noWebGL'
  BY <1>1, <1>3, <1>4
<1>6. PICK off : off = noWebGL'
  OBVIOUS
<1>7. off \in BOOLEAN /\ Rerun(Shown, Shown, {}, off) /\ {} \in SUBSET Objects
  BY <1>1, <1>2, <1>6
<1>8. mounted' \in [Objects -> BOOLEAN] /\ onscreen' \in [Objects -> BOOLEAN]
      /\ noWebGL' \in BOOLEAN /\ hidden' \in BOOLEAN /\ queue' = queue
  BY <1>1, <1>2
<1>9. \A p \in Objects : (p \in Shown /\ ~off) \/ (Current(p) /\ p \notin Shown) => mounted'[p] /\ ~noWebGL'
  BY <1>5, <1>6
<1> QED BY <1>4, <1>7, <1>8, <1>9, RerunInv

\* What comes into view, or leaves it, is only reported.
LEMMA ScrollInv ==
    ASSUME ScenesInv, NEW o \in Objects, Scroll(o) PROVE ScenesInv'
<1>1. /\ onscreen' = [onscreen EXCEPT ![o] = ~@]
      /\ report' = IF Current(o) /\ report[o] = Nothing THEN [report EXCEPT ![o] = ~onscreen[o]] ELSE report
      /\ UNCHANGED <<noWebGL, hidden, mounted, started, effect, scene, mode, queue>>
  BY DEF Scroll
<1>2. onscreen' \in [Objects -> BOOLEAN] /\ report' \in [Objects -> BOOLEAN \cup {Nothing}]
  BY <1>1 DEF ScenesInv, ScenesTyped, ScenesTypeOK
<1>3. ScenesTyped'
  BY <1>1, <1>2 DEF ScenesInv, ScenesTyped, ScenesTypeOK
<1> QED BY <1>1, <1>3 DEF ScenesInv, RunsAreShown, OneLoop, NoOrphan, DrawsInView, Coming,
                          Current, Built, Queued

\* A step that leaves the pages and what is in force of the effects alone, and changes one scene.
LEMMA SceneInv ==
    ASSUME ScenesInv, NEW o \in Objects, ScenesTyped',
           UNCHANGED <<noWebGL, mounted>>, \A p \in Objects \ {o} : Same(p), ScenesOf(o)'
    PROVE  ScenesInv'
<1>1. ASSUME NEW p \in Objects
      PROVE  ScenesOf(p)'
  <2>1. CASE p = o
    BY <2>1
  <2>2. CASE p # o
    <3>1. ScenesOf(p)
      BY ByObject
    <3>2. Same(p)
      BY <2>2
    <3>3. Queued(p) => Queued(p)'
      BY <3>2 DEF Same, Queued, Current
    <3> QED BY <3>1, <3>2, <3>3 DEF ScenesOf, Same, Current, Built
  <2> QED BY <2>1, <2>2
<1> QED BY <1>1 DEF ScenesInv, ScenesOf, RunsAreShown, OneLoop, NoOrphan, DrawsInView, Coming

\* The types of what belongs to one object.
LEMMA OneObjectTyped ==
    ASSUME ScenesTyped, NEW o \in Objects, NEW e \in Effect \cup {Nothing}, NEW c \in [Runs -> Scene \cup {Nothing}],
           NEW m \in {"fallback", "live", "failed"},
           effect' = [effect EXCEPT ![o] = e], scene' = [scene EXCEPT ![o] = c], mode' = [mode EXCEPT ![o] = m],
           UNCHANGED <<noWebGL, hidden, mounted, started, onscreen>>,
           report' \in [Objects -> BOOLEAN \cup {Nothing}],
           queue' \in Seq(Objects \X Runs), Len(queue') <= MaxQueued
    PROVE  /\ ScenesTyped' /\ effect'[o] = e /\ scene'[o] = c /\ mode'[o] = m
           /\ \A p \in Objects \ {o} : effect'[p] = effect[p] /\ scene'[p] = scene[p] /\ mode'[p] = mode[p]
BY DEF ScenesTyped, ScenesTypeOK

\* What becomes of a scene that draws in one loop.
LEMMA PausedLoop ==
    ASSUME NEW s \in Scene, s.frames = IF s.paused THEN 0 ELSE 1
    PROVE  Pause(s) \in Scene /\ Pause(s).paused = TRUE /\ Pause(s).frames = 0
<1>1. s.frames \in {0, 1} /\ s.paused \in BOOLEAN /\ s.lost \in BOOLEAN
  BY Zenon DEF Scene
<1>2. Pause(s) = [paused |-> TRUE, lost |-> s.lost, frames |-> 0]
  <2>1. Pause(s) = [s EXCEPT !.paused = TRUE, !.frames = 0]
    <3>1. (IF s.frames = 0 THEN 0 ELSE s.frames - 1) = 0
      BY <1>1
    <3> QED BY <3>1 DEF Pause
  <2> QED BY <2>1 DEF Scene
<1> QED BY <1>1, <1>2 DEF Scene

\* A scene that runs goes on with the frame it waits for.
LEMMA ResumedLoop ==
    ASSUME NEW s \in Scene, s.frames = IF s.paused THEN 0 ELSE 1
    PROVE  Resume(s) \in Scene /\ Resume(s).paused = FALSE /\ Resume(s).frames = 1
<1>1. s.frames \in {0, 1} /\ s.paused \in BOOLEAN /\ s.lost \in BOOLEAN
  BY Zenon DEF Scene
<1>2. CASE s.paused
  <2>1. Resume(s) = [s EXCEPT !.paused = FALSE, !.frames = 1]
    BY <1>2 DEF Resume
  <2>2. Resume(s) = [paused |-> FALSE, lost |-> s.lost, frames |-> 1]
    BY <2>1 DEF Scene
  <2> QED BY <1>1, <2>2 DEF Scene
<1>3. CASE ~s.paused
  <2>1. Resume(s) = s /\ s.paused = FALSE /\ s.frames = 1
    BY <1>1, <1>3 DEF Resume
  <2> QED BY <2>1
<1> QED BY <1>2, <1>3

\* A new scene waits for its first frame.
LEMMA NewLoop == /\ NewScene \in Scene /\ NewScene.paused = FALSE /\ NewScene.frames = 1
                 /\ Pause(NewScene) \in Scene /\ Pause(NewScene).paused = TRUE /\ Pause(NewScene).frames = 0
<1>1. NewScene \in Scene /\ NewScene.paused = FALSE /\ NewScene.frames = 1
  BY DEF NewScene, Scene
<1> QED BY <1>1, PausedLoop

\* The first report of an observer.
LEMMA NotifyInv ==
    ASSUME ScenesInv, NEW o \in Objects, Notify(o) PROVE ScenesInv'
<1>1. PICK visible, r, e, b : visible = report[o] /\ r = effect[o].run /\ e = effect[o] /\ b = (visible # onscreen[o])
  OBVIOUS
<1>2. /\ Current(o) /\ visible # Nothing /\ Len(queue) < MaxQueued
      /\ effect' = [effect EXCEPT ![o].visible = visible, ![o].missed = b]
      /\ queue'  = IF visible THEN CreateScene(o) ELSE queue
      /\ scene'  = IF ~Built(o) THEN scene
                   ELSE [scene EXCEPT ![o][r] = IF visible THEN Resume(@) ELSE Pause(@)]
      /\ report' = [report EXCEPT ![o] = Nothing]
      /\ UNCHANGED <<noWebGL, hidden, mounted, started, onscreen, mode>>
  BY <1>1 DEF Notify
<1>3. visible \in BOOLEAN /\ b \in BOOLEAN /\ e \in Effect /\ r \in Runs /\ r = e.run
  BY <1>1, <1>2, OnlyScene DEF ScenesInv, ScenesTyped, ScenesTypeOK
<1>4. PICK f : f = [e EXCEPT !.visible = visible, !.missed = b]
  OBVIOUS
<1>5. f \in Effect /\ f.run = r /\ f.visible = visible
  BY <1>3, <1>4 DEF Effect
<1>6. PICK s, t : s = scene[o][r] /\ t = IF visible THEN Resume(s) ELSE Pause(s)
  OBVIOUS
<1>7. /\ Built(o) <=> s # Nothing
      /\ s # Nothing => s \in Scene /\ s.frames = IF s.paused THEN 0 ELSE 1
      /\ \A q \in Runs : q # r => scene[o][q] = Nothing
      /\ scene[o] \in [Runs -> Scene \cup {Nothing}]
  <2>1. ScenesOf(o)
    BY ByObject
  <2> QED BY <1>1, <1>2, <1>3, <1>6, <2>1, OnlyScene DEF Built, ScenesOf, ScenesInv, ScenesTyped
<1>8. s # Nothing => t \in Scene /\ t # Nothing /\ t.paused = ~visible /\ t.frames = IF t.paused THEN 0 ELSE 1
  BY <1>3, <1>6, <1>7, PausedLoop, ResumedLoop, NothingAssumption
<1>9. PICK c : c = IF s = Nothing THEN scene[o] ELSE [scene[o] EXCEPT ![r] = t]
  OBVIOUS
<1>10. /\ c \in [Runs -> Scene \cup {Nothing}] /\ c[r] = IF s = Nothing THEN Nothing ELSE t
       /\ \A q \in Runs : q # r => c[q] = Nothing
  BY <1>3, <1>6, <1>7, <1>8, <1>9
<1>11. effect' = [effect EXCEPT ![o] = f] /\ scene' = [scene EXCEPT ![o] = c] /\ mode' = [mode EXCEPT ![o] = mode[o]]
  <2>1. effect' = [effect EXCEPT ![o] = f]
    BY <1>1, <1>2, <1>4
  <2>2. CASE s = Nothing
    BY <1>2, <1>7, <1>9, <2>1, <2>2 DEF ScenesInv, ScenesTyped, ScenesTypeOK
  <2>3. CASE s # Nothing
    <3>1. scene' = [scene EXCEPT ![o][r] = t]
      BY <1>2, <1>6, <1>7, <2>3
    <3>2. scene' = [scene EXCEPT ![o] = c]
      BY <1>9, <2>3, <3>1
    <3> QED BY <1>2, <2>1, <3>2 DEF ScenesInv, ScenesTyped, ScenesTypeOK
  <2> QED BY <2>2, <2>3
<1>12. queue' = IF visible /\ s = Nothing THEN Append(queue, <<o, r>>) ELSE queue
  BY <1>1, <1>2, <1>3, <1>7 DEF CreateScene
<1>13. /\ queue' \in Seq(Objects \X Runs) /\ Len(queue') <= MaxQueued
       /\ ToSet(queue) \subseteq ToSet(queue')
       /\ visible /\ s = Nothing => <<o, r>> \in ToSet(queue')
  <2>1. queue \in Seq(Objects \X Runs) /\ Len(queue) <= MaxQueued /\ MaxQueued \in Nat
    BY IdentityScenesAssumption DEF ScenesInv, ScenesTyped, ScenesTypeOK
  <2>2. PICK x : x = <<o, r>>
    OBVIOUS
  <2>3. x \in Objects \X Runs
    BY <1>3, <2>2
  <2>4. /\ Append(queue, x) \in Seq(Objects \X Runs) /\ Len(Append(queue, x)) = Len(queue) + 1
        /\ \A i \in 1..Len(queue) : Append(queue, x)[i] = queue[i]
        /\ Append(queue, x)[Len(queue) + 1] = x
    BY <2>1, <2>3
  <2>5. Len(Append(queue, x)) <= MaxQueued
    BY <1>2, <2>1, <2>4
  <2>6. ToSet(queue) \subseteq ToSet(Append(queue, x)) /\ x \in ToSet(Append(queue, x))
    <3>1. PICK w, n : w = Append(queue, x) /\ n = Len(queue)
      OBVIOUS
    <3>2. n \in Nat /\ DOMAIN queue = 1..n /\ DOMAIN w = 1..(n + 1)
      BY <2>1, <2>4, <3>1
    <3>3. (\A i \in 1..n : w[i] = queue[i] /\ i \in DOMAIN w) /\ w[n + 1] = x /\ n + 1 \in DOMAIN w
      BY <2>4, <3>1, <3>2
    <3> QED BY <3>1, <3>2, <3>3 DEF ToSet
  <2> QED BY <1>12, <2>1, <2>2, <2>4, <2>5, <2>6
<1>14. /\ ScenesTyped' /\ effect'[o] = f /\ scene'[o] = c /\ mode'[o] = mode[o]
       /\ \A p \in Objects \ {o} : effect'[p] = effect[p] /\ scene'[p] = scene[p] /\ mode'[p] = mode[p]
  <2>1. report' \in [Objects -> BOOLEAN \cup {Nothing}]
    BY <1>2 DEF ScenesInv, ScenesTyped, ScenesTypeOK
  <2>2. PICK m : m = mode[o]
    OBVIOUS
  <2>3. m \in {"fallback", "live", "failed"} /\ ScenesTyped
    BY <2>2 DEF ScenesInv, ScenesTyped, ScenesTypeOK
  <2>4. f \in Effect \cup {Nothing} /\ UNCHANGED <<noWebGL, hidden, mounted, started, onscreen>>
    BY <1>2, <1>5
  <2> QED BY <1>10, <1>11, <1>13, <2>1, <2>2, <2>3, <2>4, OneObjectTyped
<1>15. mounted'[o] /\ ~noWebGL'
  BY <1>2 DEF ScenesInv, RunsAreShown
<1>16. f # Nothing
  BY <1>5, NothingAssumption
<1>17. Current(o)' /\ (Built(o)' <=> s # Nothing)
  BY <1>5, <1>8, <1>10, <1>14, <1>16 DEF Current, Built
<1>18. ScenesOf(o)'
  <2>1. \A q \in Runs : scene'[o][q] # Nothing => q = r /\ s # Nothing /\ scene'[o][q] = t
    BY <1>10, <1>14
  <2>2. Built(o)' => scene'[o][effect'[o].run].paused = ~effect'[o].visible
    BY <1>5, <1>8, <1>10, <1>14, <1>17
  <2>3. effect'[o].visible /\ ~Built(o)' => Queued(o)'
    <3>1. effect'[o].visible = visible /\ effect'[o].run = r
      BY <1>5, <1>14
    <3> SUFFICES ASSUME effect'[o].visible, ~Built(o)'
                 PROVE  Queued(o)'
      OBVIOUS
    <3>2. visible /\ s = Nothing
      BY <1>17, <3>1
    <3>3. <<o, r>> \in ToSet(queue')
      BY <1>13, <3>2
    <3>4. <<o, effect'[o].run>> = <<o, r>>
      BY <3>1
    <3> QED BY <1>17, <3>3, <3>4 DEF Queued
  <2> QED BY <1>5, <1>8, <1>14, <1>15, <1>17, <2>1, <2>2, <2>3 DEF ScenesOf
<1>19. \A p \in Objects \ {o} : Same(p)
  <2>1. ToSet(queue) \subseteq ToSet(queue')
    BY <1>13
  <2> QED BY <1>14, <2>1 DEF Same
<1> QED BY <1>2, <1>14, <1>18, <1>19, SceneInv

\* A step that changes nothing of one object but its scene, keeping what it draws, and flags
\* other than whether it is in view.
LEMMA TouchInv ==
    ASSUME ScenesInv, NEW o \in Objects, ScenesTyped', Current(o), Current(o)',
           UNCHANGED <<noWebGL, mounted, queue>>,
           effect'[o].run = effect[o].run, effect'[o].visible = effect[o].visible,
           \A p \in Objects \ {o} : effect'[p] = effect[p] /\ scene'[p] = scene[p] /\ mode'[p] = mode[p],
           \A r \in Runs : scene[o][r] = Nothing => scene'[o][r] = Nothing,
           \A r \in Runs : scene[o][r] # Nothing => /\ scene'[o][r] # Nothing
                                                 /\ scene'[o][r].frames = scene[o][r].frames
                                                 /\ scene'[o][r].paused = scene[o][r].paused,
           mode'[o] = mode[o] \/ Built(o)
    PROVE  ScenesInv'
<1>1. ScenesOf(o) /\ effect[o].run \in Runs
  BY ByObject, OnlyScene
<1>2. Built(o)' <=> Built(o)
  BY <1>1 DEF Built
<1>3. Queued(o)' <=> Queued(o)
  BY DEF Queued
<1>4. ScenesOf(o)'
  <2>1. Current(o)' => mounted'[o] /\ ~noWebGL'
    BY <1>1 DEF ScenesOf
  <2>2. \A r \in Runs : scene'[o][r] # Nothing =>
           /\ scene'[o][r].frames = IF scene'[o][r].paused THEN 0 ELSE 1
           /\ Current(o)' /\ effect'[o].run = r
    BY <1>1 DEF ScenesOf
  <2>3. Built(o)' => scene'[o][effect'[o].run].paused = ~effect'[o].visible
    BY <1>1, <1>2 DEF ScenesOf, Built
  <2>4. effect'[o].visible /\ ~Built(o)' /\ ~Queued(o)' => mode'[o] = "failed"
    BY <1>1, <1>2, <1>3 DEF ScenesOf
  <2> QED BY <2>1, <2>2, <2>3, <2>4 DEF ScenesOf
<1>5. \A p \in Objects \ {o} : Same(p)
  BY DEF Same
<1> QED BY <1>4, <1>5, SceneInv

\* The timer only takes notice of the scene.
LEMMA BindTimerInv ==
    ASSUME ScenesInv, NEW o \in Objects, BindTimer(o) PROVE ScenesInv'
<1>1. PICK b : b = Built(o)
  OBVIOUS
<1>2. /\ Current(o) /\ effect' = [effect EXCEPT ![o].timer = FALSE, ![o].bound = b]
      /\ UNCHANGED <<noWebGL, hidden, mounted, started, onscreen, report, scene, mode, queue>>
  BY <1>1 DEF BindTimer
<1>3. b \in BOOLEAN
  BY <1>1 DEF Built
<1>4. PICK e, f : e = effect[o] /\ f = [e EXCEPT !.timer = FALSE, !.bound = b]
  OBVIOUS
<1>5. e \in Effect /\ e # Nothing
  BY <1>2, <1>4, OnlyScene, NothingAssumption
<1>6. f \in Effect /\ f.run = e.run /\ f.visible = e.visible /\ f # Nothing
  <2>1. f \in Effect /\ f.run = e.run /\ f.visible = e.visible
    BY <1>3, <1>4, <1>5 DEF Effect
  <2> QED BY <2>1, NothingAssumption
<1>7. effect' = [effect EXCEPT ![o] = f]
  BY <1>2, <1>4
<1>8. effect'[o] = f /\ \A p \in Objects \ {o} : effect'[p] = effect[p]
  BY <1>7 DEF ScenesInv, ScenesTyped, ScenesTypeOK
<1>9. ScenesTyped'
  <2>1. effect' \in [Objects -> Effect \cup {Nothing}]
    BY <1>6, <1>7 DEF ScenesInv, ScenesTyped, ScenesTypeOK
  <2> QED BY <1>2, <2>1 DEF ScenesInv, ScenesTyped, ScenesTypeOK
<1>10. Current(o)'
  BY <1>6, <1>8 DEF Current
<1> QED BY <1>2, <1>4, <1>6, <1>8, <1>9, <1>10, TouchInv

\* A frame of the scene asks for the next.
LEMMA FrameInv ==
    ASSUME ScenesInv, NEW o \in Objects, Frame(o) PROVE ScenesInv'
<1>1. PICK r, s : r = effect[o].run /\ s = scene[o][r]
  OBVIOUS
<1>2. /\ Built(o) /\ s.frames > 0 /\ scene' = [scene EXCEPT ![o][r] = Animate(@)]
      /\ UNCHANGED <<noWebGL, hidden, mounted, started, effect, onscreen, report, mode, queue>>
  BY <1>1 DEF Frame
<1>3. s # Nothing /\ Current(o) /\ r \in Runs
  BY <1>1, <1>2, OnlyScene DEF Built
<1>4. s.frames = IF s.paused THEN 0 ELSE 1
  BY <1>1, <1>3 DEF ScenesInv, OneLoop
<1>5. Animate(s) = s
  BY <1>2, <1>4 DEF Animate
<1>6. scene' = scene
  <2>1. scene \in [Objects -> [Runs -> Scene \cup {Nothing}]] /\ scene[o] \in [Runs -> Scene \cup {Nothing}]
    BY DEF ScenesInv, ScenesTyped
  <2>2. scene' = [scene EXCEPT ![o] = [scene[o] EXCEPT ![r] = s]]
    BY <1>1, <1>2, <1>5
  <2>3. [scene[o] EXCEPT ![r] = s] = scene[o]
    BY <1>1, <1>3, <2>1
  <2> QED BY <2>1, <2>2, <2>3
<1>7. UNCHANGED sceneVars
  BY <1>2, <1>6 DEF sceneVars
<1> QED BY <1>7 DEF sceneVars, ScenesInv, ScenesTyped, ScenesTypeOK, RunsAreShown, OneLoop, NoOrphan, DrawsInView,
                          Coming, Current, Built, Queued

\* A context that is lost or given back.
LEMMA ContextInv ==
    ASSUME ScenesInv, NEW o \in Objects, NEW lost \in BOOLEAN, Context(o, lost) PROVE ScenesInv'
<1>1. PICK r, s, t : r = effect[o].run /\ s = scene[o][r] /\ t = [s EXCEPT !.lost = lost]
  OBVIOUS
<1>2. /\ Built(o) /\ scene' = [scene EXCEPT ![o][r].lost = lost]
      /\ mode'  = IF effect[o].bound THEN [mode EXCEPT ![o] = IF lost THEN "failed" ELSE "live"] ELSE mode
      /\ UNCHANGED <<noWebGL, hidden, mounted, started, effect, onscreen, report, queue>>
  BY <1>1 DEF Context
<1>3. s # Nothing /\ Current(o) /\ r \in Runs /\ s \in Scene
  BY <1>1, <1>2, OnlyScene DEF Built
<1>4. t \in Scene /\ t.frames = s.frames /\ t.paused = s.paused /\ t # Nothing
  <2>1. t \in Scene /\ t.frames = s.frames /\ t.paused = s.paused
    BY <1>1, <1>3 DEF Scene
  <2> QED BY <2>1, NothingAssumption
<1>5. scene' = [scene EXCEPT ![o][r] = t]
  BY <1>1, <1>2
<1>6. /\ scene'[o] = [scene[o] EXCEPT ![r] = t] /\ \A p \in Objects \ {o} : scene'[p] = scene[p]
      /\ scene' \in [Objects -> [Runs -> Scene \cup {Nothing}]]
  BY <1>3, <1>4, <1>5 DEF ScenesInv, ScenesTyped
<1>7. scene'[o][r] = t /\ \A q \in Runs : q # r => scene'[o][q] = scene[o][q]
  BY <1>3, <1>6 DEF ScenesInv, ScenesTyped
<1>8. mode' \in [Objects -> {"fallback", "live", "failed"}] /\ \A p \in Objects \ {o} : mode'[p] = mode[p]
  BY <1>2 DEF ScenesInv, ScenesTyped, ScenesTypeOK
<1>9. ScenesTyped'
  BY <1>2, <1>6, <1>8 DEF ScenesInv, ScenesTyped, ScenesTypeOK
<1>10. Current(o)' /\ effect' = effect
  BY <1>2, <1>3 DEF Current
<1>11. \A q \in Runs : scene[o][q] # Nothing => q = r
  BY <1>1, OnlyScene
<1>12. \A q \in Runs : scene[o][q] = Nothing => scene'[o][q] = Nothing
  BY <1>1, <1>3, <1>7
<1>13. \A q \in Runs : scene[o][q] # Nothing => /\ scene'[o][q] # Nothing
                                             /\ scene'[o][q].frames = scene[o][q].frames
                                             /\ scene'[o][q].paused = scene[o][q].paused
  BY <1>1, <1>4, <1>7, <1>11
<1> QED BY <1>2, <1>3, <1>6, <1>8, <1>9, <1>10, <1>12, <1>13, TouchInv

\* The head of the queue.  Only what it is about loses a task.
LEMMA BuildInv ==
    ASSUME ScenesInv, Build PROVE ScenesInv'
<1>1. PICK x, o, r : x = Head(queue) /\ o = x[1] /\ r = x[2]
  OBVIOUS
<1>2. /\ queue # <<>> /\ queue' = Tail(queue)
      /\ \E ok \in IF Wanted(o, r) THEN BOOLEAN ELSE {TRUE} :
            IF ~Wanted(o, r) THEN UNCHANGED <<effect, scene, mode>>
            ELSE /\ effect' = [effect EXCEPT ![o] = IF @ = Nothing THEN Nothing ELSE [@ EXCEPT !.settled = TRUE]]
                 /\ scene'  = IF ok THEN [scene EXCEPT ![o][r] = Fresh(o)] ELSE scene
                 /\ mode'   = [mode EXCEPT ![o] = IF ok THEN "live" ELSE "failed"]
      /\ UNCHANGED <<noWebGL, hidden, mounted, started, onscreen, report>>
  BY <1>1, Zenon DEF Build, Popped
<1>3. /\ x = <<o, r>> /\ o \in Objects /\ r \in Runs
      /\ queue' \in Seq(Objects \X Runs) /\ Len(queue') <= MaxQueued
      /\ \A y \in ToSet(queue) : y = x \/ y \in ToSet(queue')
  <2>1. PICK w, n : w = queue /\ n = Len(queue)
    OBVIOUS
  <2>2. w \in Seq(Objects \X Runs) /\ w # <<>> /\ n <= MaxQueued /\ n \in Nat /\ n # 0
    BY <1>2, <2>1 DEF ScenesInv, ScenesTyped, ScenesTypeOK
  <2>3. x = w[1] /\ x \in Objects \X Runs
    BY <1>1, <2>1, <2>2
  <2>4. PICK v : v = Tail(w)
    OBVIOUS
  <2>5. v \in Seq(Objects \X Runs) /\ Len(v) = n - 1 /\ \A i \in 1..(n - 1) : v[i] = w[i + 1]
    BY <2>1, <2>2, <2>4
  <2>6. \A y \in ToSet(w) : y = x \/ y \in ToSet(v)
    <3>1. ASSUME NEW i \in 1..n
          PROVE  w[i] = x \/ \E j \in 1..(n - 1) : w[i] = v[j]
      <4>1. CASE i = 1
        BY <4>1, <2>3
      <4>2. CASE i # 1
        <5>1. i - 1 \in 1..(n - 1) /\ v[i - 1] = w[i]
          BY <2>2, <2>5, <4>2
        <5> QED BY <5>1
      <4> QED BY <4>1, <4>2
    <3>2. DOMAIN w = 1..n /\ DOMAIN v = 1..(n - 1)
      BY <2>1, <2>2, <2>5
    <3> QED BY <3>1, <3>2 DEF ToSet
  <2>7. x = <<o, r>> /\ o \in Objects /\ r \in Runs
    BY <1>1, <2>3
  <2>8. queue' = v /\ queue = w
    BY <1>2, <2>1, <2>4
  <2>9. Len(v) <= MaxQueued /\ MaxQueued \in Nat
    BY <2>2, <2>5, IdentityScenesAssumption
  <2>10. \A y \in ToSet(queue) : y = x \/ y \in ToSet(queue')
    BY <2>6, <2>8
  <2> QED BY <2>5, <2>7, <2>8, <2>9, <2>10
<1>4. ASSUME NEW p \in Objects, Current(p), Queued(p), <<p, effect[p].run>> # x
      PROVE  <<p, effect[p].run>> \in ToSet(queue')
  BY <1>3, <1>4 DEF Queued
<1>5. ASSUME NEW p \in Objects, p # o, effect'[p] = effect[p], scene'[p] = scene[p], mode'[p] = mode[p]
      PROVE  ScenesOf(p)'
  <2>1. ScenesOf(p)
    BY ByObject
  <2>2. Queued(p) => Queued(p)'
    <3>1. <<p, effect[p].run>> # x
      BY <1>3, <1>5
    <3> QED BY <1>4, <1>5, <3>1 DEF Queued, Current
  <2> QED BY <1>2, <1>5, <2>1, <2>2 DEF ScenesOf, Current, Built
<1>6. CASE ~Wanted(o, r)
  <2>1. UNCHANGED <<effect, scene, mode>>
    BY <1>2, <1>6
  <2>2. ScenesTyped'
    BY <1>2, <1>3, <2>1 DEF ScenesInv, ScenesTyped, ScenesTypeOK
  <2>3. ScenesOf(o)'
    <3>1. ScenesOf(o)
      BY <1>3, ByObject
    <3>2. Queued(o) => Queued(o)' \/ Built(o)
      <4>1. CASE <<o, effect[o].run>> = x
        BY <1>3, <1>6, <4>1 DEF Queued, Wanted, Built
      <4>2. CASE <<o, effect[o].run>> # x
        BY <1>3, <1>4, <2>1, <4>2 DEF Queued, Current
      <4> QED BY <4>1, <4>2
    <3> QED BY <1>2, <2>1, <3>1, <3>2 DEF ScenesOf, Current, Built
  <2> QED BY <1>5, <2>1, <2>2, <2>3 DEF ScenesInv, ScenesOf, RunsAreShown, OneLoop, NoOrphan, DrawsInView, Coming
<1>7. CASE Wanted(o, r)
  <2>1. PICK ok \in BOOLEAN :
           /\ effect' = [effect EXCEPT ![o] = IF @ = Nothing THEN Nothing ELSE [@ EXCEPT !.settled = TRUE]]
           /\ scene'  = IF ok THEN [scene EXCEPT ![o][r] = Fresh(o)] ELSE scene
           /\ mode'   = [mode EXCEPT ![o] = IF ok THEN "live" ELSE "failed"]
    BY <1>2, <1>7
  <2>2. PICK e, f : e = effect[o] /\ f = [e EXCEPT !.settled = TRUE]
    OBVIOUS
  <2>3. Current(o) /\ e # Nothing /\ e.run = r /\ scene[o][r] = Nothing /\ e \in Effect
    BY <1>3, <1>7, <2>2, OnlyScene DEF Wanted, Current
  <2>4. f \in Effect /\ f.run = r /\ f.visible = e.visible /\ f # Nothing /\ e.visible \in BOOLEAN
    <3>1. f \in Effect /\ f.run = r /\ f.visible = e.visible /\ e.visible \in BOOLEAN
      BY <2>2, <2>3 DEF Effect
    <3> QED BY <3>1, NothingAssumption
  <2>5. PICK s : s = Fresh(o)
    OBVIOUS
  <2>6. s \in Scene /\ s.paused = ~f.visible /\ s.frames = (IF s.paused THEN 0 ELSE 1) /\ s # Nothing
    BY <2>2, <2>3, <2>4, <2>5, NewLoop, NothingAssumption DEF Fresh
  <2>7. PICK c : c = IF ok THEN [scene[o] EXCEPT ![r] = s] ELSE scene[o]
    OBVIOUS
  <2>8. scene[o] \in [Runs -> Scene \cup {Nothing}] /\ \A q \in Runs : scene[o][q] = Nothing
    <3>1. scene[o] \in [Runs -> Scene \cup {Nothing}]
      BY <1>3 DEF ScenesInv, ScenesTyped
    <3> QED BY <1>3, <2>2, <2>3, <3>1, OnlyScene
  <2>9. /\ c \in [Runs -> Scene \cup {Nothing}] /\ c[r] = IF ok THEN s ELSE Nothing
        /\ \A q \in Runs : q # r => c[q] = Nothing
    BY <1>3, <2>6, <2>7, <2>8
  <2>10. PICK m : m = IF ok THEN "live" ELSE "failed"
    OBVIOUS
  <2>11. effect' = [effect EXCEPT ![o] = f] /\ scene' = [scene EXCEPT ![o] = c] /\ mode' = [mode EXCEPT ![o] = m]
    <3>1. effect' = [effect EXCEPT ![o] = f]
      BY <2>1, <2>2, <2>3
    <3>2. scene' = [scene EXCEPT ![o] = c]
      <4>1. CASE ok
        BY <2>1, <2>5, <2>7, <4>1
      <4>2. CASE ~ok
        BY <2>1, <2>7, <4>2 DEF ScenesInv, ScenesTyped
      <4> QED BY <4>1, <4>2
    <3> QED BY <2>1, <2>10, <3>1, <3>2
  <2>12. /\ ScenesTyped' /\ effect'[o] = f /\ scene'[o] = c /\ mode'[o] = m
         /\ \A p \in Objects \ {o} : effect'[p] = effect[p] /\ scene'[p] = scene[p] /\ mode'[p] = mode[p]
    <3>1. ScenesTyped /\ report' \in [Objects -> BOOLEAN \cup {Nothing}]
      BY <1>2 DEF ScenesInv, ScenesTyped, ScenesTypeOK
    <3>2. m \in {"fallback", "live", "failed"} /\ f \in Effect \cup {Nothing}
      BY <2>4, <2>10
    <3> QED BY <1>2, <1>3, <2>9, <2>11, <3>1, <3>2, OneObjectTyped
  <2>13. ScenesOf(o)'
    <3>1. Current(o)' /\ mounted'[o] /\ ~noWebGL'
      BY <1>2, <1>3, <2>3, <2>4, <2>12 DEF ScenesInv, RunsAreShown, Current
    <3>2. Built(o)' <=> ok
      BY <2>4, <2>6, <2>9, <2>12, <3>1 DEF Built
    <3>3. \A q \in Runs : scene'[o][q] # Nothing => q = r /\ ok /\ scene'[o][q] = s
      BY <2>9, <2>12
    <3>4. ~ok => mode'[o] = "failed"
      BY <2>10, <2>12
    <3>5. Built(o)' => scene'[o][effect'[o].run].paused = ~effect'[o].visible
      BY <2>4, <2>6, <2>9, <2>12, <3>2
    <3> QED BY <2>4, <2>6, <2>12, <3>1, <3>2, <3>3, <3>4, <3>5 DEF ScenesOf
  <2> QED BY <1>5, <2>12, <2>13 DEF ScenesInv, ScenesOf, RunsAreShown, OneLoop, NoOrphan, DrawsInView, Coming
<1> QED BY <1>6, <1>7

\* The tab goes to the background, or comes back.
LEMMA VisibilityInv ==
    ASSUME ScenesInv, Visibility PROVE ScenesInv'
BY DEF Visibility, ScenesInv, ScenesTyped, ScenesTypeOK, RunsAreShown, OneLoop, NoOrphan, DrawsInView,
       Coming, Current, Built, Queued

\* Every step keeps the invariant.
LEMMA ScenesNextInv == ScenesInv /\ [ScenesNext]_sceneVars => ScenesInv'
<1> SUFFICES ASSUME ScenesInv, [ScenesNext]_sceneVars PROVE ScenesInv'
  OBVIOUS
<1>1. CASE UNCHANGED sceneVars
  BY <1>1 DEF sceneVars, ScenesInv, ScenesTyped, ScenesTypeOK, RunsAreShown, OneLoop, NoOrphan, DrawsInView,
              Coming, Current, Built, Queued
<1>2. ASSUME NEW o \in Objects,
             Mount(o) \/ Unmount(o) \/ ActiveTier(o) \/ Scroll(o) \/ Notify(o) \/ BindTimer(o) \/ Frame(o)
      PROVE  ScenesInv'
  BY <1>2, MountInv, UnmountInv, ActiveTierInv, ScrollInv, NotifyInv, BindTimerInv, FrameInv
<1>3. CASE Build \/ PreferReducedMotion \/ SetNoWebGL \/ Visibility
  BY <1>3, BuildInv, PreferenceInv, SetNoWebGLInv, VisibilityInv
<1>4. ASSUME NEW o \in Objects, NEW lost \in BOOLEAN, Context(o, lost)
      PROVE  ScenesInv'
  BY <1>4, ContextInv
<1> QED BY <1>1, <1>2, <1>3, <1>4 DEF ScenesNext

-----------------------------------------------------------------------------
(* What the callback knows of an object. *)

\* The flag says what is so, once every report is delivered and unless the callback passed one over.
InStep == \A o \in Objects : Current(o) /\ Told(o) => effect[o].visible = onscreen[o]

\* A step that leaves the reports and what the callback knows alone.
LEMMA UntouchedInStep ==
    ASSUME InStep, UNCHANGED <<onscreen, report>>,
           \A o \in Objects : effect'[o] # Nothing => /\ effect[o] # Nothing
                                                      /\ effect'[o].visible = effect[o].visible
                                                      /\ effect'[o].missed = effect[o].missed
    PROVE  InStep'
BY DEF InStep, Current, Told

\* A run that begins has its first report to come, and the others of the objects are as they were.
LEMMA RerunInStep ==
    ASSUME ScenesInv, InStep, NEW gone \in SUBSET Objects, NEW S \in SUBSET Objects, NEW fresh \in SUBSET Objects,
           NEW without \in BOOLEAN, Rerun(gone, S, fresh, without),
           \A o \in Objects \ gone : onscreen'[o] = onscreen[o]
    PROVE  InStep'
<1>1. PICK starts : starts = IF without THEN {} ELSE S
  OBVIOUS
<1>2. /\ effect' = [o \in Objects |-> IF o \in starts THEN NewRun(o) ELSE IF o \in gone THEN Nothing ELSE effect[o]]
      /\ report' = [o \in Objects |-> IF o \in starts THEN onscreen[o] ELSE IF o \in gone THEN Nothing ELSE report[o]]
  BY <1>1 DEF Rerun
<1>3. ASSUME NEW o \in Objects, Current(o)', Told(o)'
      PROVE  effect'[o].visible = onscreen'[o]
  <2>1. onscreen[o] # Nothing
    BY NothingAssumption DEF ScenesInv, ScenesTyped, ScenesTypeOK
  <2>2. o \notin starts
    BY <1>2, <1>3, <2>1 DEF Told
  <2>3. o \notin gone /\ effect'[o] = effect[o] /\ report'[o] = report[o]
    BY <1>2, <1>3, <2>2 DEF Current
  <2> QED BY <1>3, <2>3 DEF InStep, Current, Told
<1> QED BY <1>3 DEF InStep

\* A scroll leaves a report to be delivered.
LEMMA ScrollInStep ==
    ASSUME ScenesInv, InStep, NEW o \in Objects, Scroll(o) PROVE InStep'
<1>1. /\ onscreen' = [onscreen EXCEPT ![o] = ~@] /\ effect' = effect
      /\ report' = IF Current(o) /\ report[o] = Nothing THEN [report EXCEPT ![o] = ~onscreen[o]] ELSE report
  BY DEF Scroll
<1>2. ASSUME NEW p \in Objects, Current(p)', Told(p)'
      PROVE  effect'[p].visible = onscreen'[p]
  <2>1. CASE p = o
    <3>1. Current(o) /\ report'[o] = Nothing
      BY <1>1, <1>2, <2>1 DEF Current, Told
    <3>2. PICK b : b = ~onscreen[o]
      OBVIOUS
    <3>3. b # Nothing
      <4>1. b \in BOOLEAN
        BY <3>2
      <4> QED BY <4>1, NothingAssumption
    <3>4. report \in [Objects -> BOOLEAN \cup {Nothing}]
      BY DEF ScenesInv, ScenesTyped, ScenesTypeOK
    <3>5. report' = IF report[o] = Nothing THEN [report EXCEPT ![o] = b] ELSE report
      BY <1>1, <3>1, <3>2
    <3> QED BY <3>1, <3>3, <3>4, <3>5
  <2>2. CASE p # o
    <3>1. onscreen'[p] = onscreen[p] /\ report'[p] = report[p] /\ effect'[p] = effect[p]
      BY <1>1, <2>2 DEF ScenesInv, ScenesTyped, ScenesTypeOK
    <3> QED BY <1>2, <3>1 DEF InStep, Current, Told
  <2> QED BY <2>1, <2>2
<1> QED BY <1>2 DEF InStep

\* The callback takes its flag from the report, and it passed one over exactly if that is not so.
LEMMA NotifyInStep ==
    ASSUME ScenesInv, InStep, NEW o \in Objects, Notify(o) PROVE InStep'
<1>1. PICK visible, e, b : visible = report[o] /\ e = effect[o] /\ b = (visible # onscreen[o])
  OBVIOUS
<1>2. /\ Current(o) /\ effect' = [effect EXCEPT ![o].visible = visible, ![o].missed = b]
      /\ report' = [report EXCEPT ![o] = Nothing] /\ onscreen' = onscreen
  BY <1>1 DEF Notify
<1>3. PICK f : f = [e EXCEPT !.visible = visible, !.missed = b]
  OBVIOUS
<1>4. e \in Effect
  BY <1>1, <1>2, OnlyScene
<1>5. f.visible = visible /\ f.missed = b
  BY <1>3, <1>4 DEF Effect
<1>6. effect'[o] = f /\ \A p \in Objects \ {o} : effect'[p] = effect[p] /\ report'[p] = report[p]
  <2>1. effect' = [effect EXCEPT ![o] = f]
    BY <1>1, <1>2, <1>3
  <2> QED BY <1>2, <2>1 DEF ScenesInv, ScenesTyped, ScenesTypeOK
<1>7. ASSUME NEW p \in Objects, Current(p)', Told(p)'
      PROVE  effect'[p].visible = onscreen'[p]
  <2>1. CASE p = o
    <3>1. ~b
      BY <1>5, <1>6, <1>7, <2>1 DEF Told
    <3> QED BY <1>1, <1>2, <1>5, <1>6, <2>1, <3>1
  <2>2. CASE p # o
    BY <1>2, <1>6, <1>7, <2>2 DEF InStep, Current, Told
  <2> QED BY <2>1, <2>2
<1> QED BY <1>7 DEF InStep

\* A timer, and a task that ran, leave the flags of the callback alone.
LEMMA FlagsKept ==
    ASSUME ScenesInv, InStep, NEW o \in Objects, NEW f, UNCHANGED <<onscreen, report>>,
           effect' = [effect EXCEPT ![o] = f],
           f # Nothing => /\ effect[o] # Nothing
                          /\ f.visible = effect[o].visible /\ f.missed = effect[o].missed
    PROVE  InStep'
<1>1. effect'[o] = f /\ \A p \in Objects \ {o} : effect'[p] = effect[p]
  BY DEF ScenesInv, ScenesTyped, ScenesTypeOK
<1>2. \A p \in Objects : effect'[p] # Nothing => /\ effect[p] # Nothing
                                                 /\ effect'[p].visible = effect[p].visible
                                                 /\ effect'[p].missed = effect[p].missed
  BY <1>1
<1> QED BY <1>2, UntouchedInStep

\* Every step keeps the flags in step with the reports.
LEMMA NextInStep == ScenesInv /\ InStep /\ [ScenesNext]_sceneVars => InStep'
<1> SUFFICES ASSUME ScenesInv, InStep, [ScenesNext]_sceneVars PROVE InStep'
  OBVIOUS
<1>1. CASE UNCHANGED sceneVars
  BY <1>1, UntouchedInStep DEF sceneVars
<1>2. ASSUME NEW o \in Objects, Mount(o) \/ Unmount(o) \/ ActiveTier(o)
      PROVE  InStep'
  <2>1. noWebGL \in BOOLEAN /\ onscreen \in [Objects -> BOOLEAN]
    BY DEF ScenesInv, ScenesTyped, ScenesTypeOK
  <2>2. CASE Mount(o)
    <3>1. Rerun({}, {o}, {o}, noWebGL) /\ onscreen' = onscreen
      BY <2>2 DEF Mount
    <3> QED BY <2>1, <3>1, RerunInStep
  <2>3. CASE Unmount(o)
    <3>1. Rerun({o}, {}, {o}, noWebGL) /\ onscreen' = [onscreen EXCEPT ![o] = FALSE]
      BY <2>3 DEF Unmount
    <3>2. PICK gone \in SUBSET Objects : gone = {o}
      OBVIOUS
    <3>3. \A p \in Objects \ gone : onscreen'[p] = onscreen[p]
      BY <2>1, <3>1, <3>2
    <3>4. Rerun(gone, {}, gone, noWebGL) /\ {} \in SUBSET Objects
      BY <3>1, <3>2
    <3> QED BY <2>1, <3>3, <3>4, RerunInStep
  <2>4. CASE ActiveTier(o)
    <3>1. Rerun({o}, {o}, {o}, noWebGL) /\ onscreen' = onscreen
      BY <2>4 DEF ActiveTier
    <3> QED BY <2>1, <3>1, RerunInStep
  <2> QED BY <1>2, <2>2, <2>3, <2>4
<1>3. CASE PreferReducedMotion \/ SetNoWebGL
  <2>1. PICK off : /\ off \in BOOLEAN /\ Rerun(Shown, Shown, {}, off) /\ onscreen' = onscreen
    <3>1. noWebGL \in BOOLEAN /\ (~noWebGL) \in BOOLEAN /\ FALSE \in BOOLEAN
      BY DEF ScenesInv, ScenesTyped, ScenesTypeOK
    <3>2. CASE PreferReducedMotion
      BY <3>1, <3>2 DEF PreferReducedMotion
    <3>3. CASE SetNoWebGL
      BY <3>1, <3>3 DEF SetNoWebGL
    <3> QED BY <1>3, <3>2, <3>3
  <2>2. Shown \in SUBSET Objects /\ {} \in SUBSET Objects
    BY DEF Shown
  <2> QED BY <2>1, <2>2, RerunInStep
<1>4. ASSUME NEW o \in Objects, BindTimer(o)
      PROVE  InStep'
  <2>1. PICK b : b = Built(o)
    OBVIOUS
  <2>2. PICK e, f : e = effect[o] /\ f = [e EXCEPT !.timer = FALSE, !.bound = b]
    OBVIOUS
  <2>3. /\ Current(o) /\ effect' = [effect EXCEPT ![o] = f] /\ UNCHANGED <<onscreen, report>>
    BY <1>4, <2>1, <2>2 DEF BindTimer
  <2>4. e \in Effect /\ e # Nothing
    BY <2>2, <2>3, OnlyScene DEF Current
  <2>5. f.visible = e.visible /\ f.missed = e.missed
    BY <2>2, <2>4 DEF Effect
  <2> QED BY <2>2, <2>3, <2>4, <2>5, FlagsKept
<1>5. CASE Build
  <2>1. PICK o : o = Head(queue)[1]
    OBVIOUS
  <2>2. o \in Objects
    <3>1. queue # <<>> /\ queue \in Seq(Objects \X Runs)
      BY <1>5 DEF Build, ScenesInv, ScenesTyped, ScenesTypeOK
    <3>2. Head(queue) \in Objects \X Runs
      BY <3>1
    <3> QED BY <2>1, <3>2
  <2>3. PICK e, f : e = effect[o] /\ f = IF e = Nothing THEN Nothing ELSE [e EXCEPT !.settled = TRUE]
    OBVIOUS
  <2>4. /\ effect' = effect \/ effect' = [effect EXCEPT ![o] = f]
        /\ UNCHANGED <<onscreen, report>>
    BY <1>5, <2>1, <2>3, Zenon DEF Build
  <2>5. f # Nothing => e # Nothing /\ f.visible = e.visible /\ f.missed = e.missed
    <3>1. e # Nothing => e \in Effect
      BY <2>2, <2>3 DEF ScenesInv, ScenesTyped, ScenesTypeOK
    <3> QED BY <2>3, <3>1 DEF Effect
  <2>6. CASE effect' = effect
    BY <2>4, <2>6, UntouchedInStep
  <2>7. CASE effect' = [effect EXCEPT ![o] = f]
    BY <2>2, <2>3, <2>4, <2>5, <2>7, FlagsKept
  <2> QED BY <2>4, <2>6, <2>7
<1>6. CASE Visibility \/ \E o \in Objects : Frame(o) \/ \E lost \in BOOLEAN : Context(o, lost)
  <2>1. effect' = effect /\ UNCHANGED <<onscreen, report>>
    BY <1>6 DEF Visibility, Frame, Context
  <2> QED BY <2>1, UntouchedInStep
<1> QED BY <1>1, <1>2, <1>3, <1>4, <1>5, <1>6, ScrollInStep, NotifyInStep DEF ScenesNext

-----------------------------------------------------------------------------
(* The theorems about the scenes. *)

\* The invariant holds in every reachable state.
LEMMA ScenesInvariance == ScenesSpec => [](ScenesInv /\ InStep)
<1>1. ScenesInit => InStep
  BY DEF ScenesInit, InStep, Current
<1> QED BY <1>1, ScenesInitInv, ScenesNextInv, NextInStep, PTL DEF ScenesSpec

\* A scene waits for exactly one frame while it runs and for none while it is paused, however often
\* it is paused and resumed (pause, resume, animate of identity3d.ts).
THEOREM ScenesDrawInOneLoop == ScenesSpec => []OneLoop
BY ScenesInvariance, PTL DEF ScenesInv

\* No scene is built for, or left to, a page that is gone, a mode that is off or a component that was
\* replaced, although the tasks that build them outlive the run that scheduled them (disposed in
\* createScene).
THEOREM NoSceneIsLeft == ScenesSpec => []NoOrphan
BY ScenesInvariance, PTL DEF ScenesInv

\* An object draws exactly while the flag of its observer's callback says so, also one that left the
\* view while its scene was waiting to be built (`if (!visible) scene.pause()`).
THEOREM ScenesDrawInView == ScenesSpec => []DrawsInView
BY ScenesInvariance, PTL DEF ScenesInv

\* An object that is on screen draws, or has a task to build its scene, or shows that it failed, once
\* its reports are delivered and unless the callback passed the last of them over (createScene, the
\* catch of its task, and the observer's callback).
THEOREM OnScreenIsShownOrComing == ScenesSpec => []ShownOrComing
<1>1. ScenesInv /\ InStep => ShownOrComing
  <2> SUFFICES ASSUME ScenesInv, InStep, NEW o \in Objects, Current(o), onscreen[o], Told(o),
                      ~Queued(o), mode[o] # "failed"
               PROVE  Built(o) /\ ~scene[o][effect[o].run].paused
    BY DEF ShownOrComing
  <2>1. effect[o].visible
    BY DEF InStep
  <2>2. Built(o)
    BY <2>1 DEF ScenesInv, Coming
  <2> QED BY <2>1, <2>2 DEF ScenesInv, DrawsInView
<1> QED BY <1>1, ScenesInvariance, PTL

\* Every reachable state of the scenes is well typed.
THEOREM ScenesTypesHold == ScenesSpec => []ScenesTypeOK
BY ScenesInvariance, PTL DEF ScenesInv, ScenesTyped
=============================================================================
