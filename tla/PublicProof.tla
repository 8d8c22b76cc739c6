---------------------------- MODULE PublicProof ----------------------------
(***************************************************************************)
(* The store behind the public pages: the record that is loaded, what is   *)
(* derived from it (decision, credential, signed events, delivery attempts *)
(* of its webhook), the stage of the verification that is shown, and the   *)
(* verifications under way.                                                *)
(*                                                                         *)
(* A verification takes decision and credential when it starts and then    *)
(* moves the shown stage on with a timer; the pages let another record be  *)
(* loaded, and another verification start, before it ends.  A record of    *)
(* the library is kept as what its evidence and authority inputs come to:  *)
(* the eligible tier, whether the issuer may issue, and the mark.          *)
(***************************************************************************)
EXTENDS Naturals, Sequences, FiniteSets, SequencesExt

CONSTANTS
    Library,       \* the records there are
    Fixture,       \* per record a FixtureRecord
    Initial,       \* the record loaded at first
    Lasting,       \* the records the home page offers by lifecycle
    Offered,       \* the lifecycles a credential can be changed to
    Stages,        \* the number of stages of a verification
    Slots,         \* verifications under way
    LogLimit,      \* the requests the log keeps
    MaxChanges,    \* bound: lifecycle changes of a loaded record
    MaxReplays,    \* bound: webhook replays of a loaded record
    None

Lifecycles    == {"draft", "active", "suspended", "superseded", "revoked", "expired", "not-found"}
FixtureRecord == [tier: 1..4, eligible: BOOLEAN, authorized: BOOLEAN, lifecycle: Lifecycles,
                  mark: {"pending", "authorized", "denied"}]

\* Issuance refuses what is not eligible, and the only ineligible record is the one not found.
Decided(f) == (f.authorized => f.eligible) /\ (f.eligible <=> f.lifecycle # "not-found")

ASSUME PublicProofAssumption ==
    /\ Fixture \in [Library -> FixtureRecord]
    /\ \A r \in Library : Decided(Fixture[r])
    /\ Initial \in Library /\ Lasting \subseteq Library /\ Offered \subseteq Lifecycles
    /\ {Stages, LogLimit} \subseteq Nat \ {0} /\ {MaxChanges, MaxReplays} \subseteq Nat

VARIABLES
    fixture,     \* the record loaded
    credential,  \* its credential
    events,      \* its signed events
    webhooks,    \* the delivery attempts of its webhook
    stage,       \* the stage shown
    runState,
    apiLog,      \* the newest requests, newest first
    runs,        \* per slot what a verification took with it and its next stage, or None
    reducedMotion

record == <<fixture, credential, events, webhooks>>
vars   == <<fixture, credential, events, webhooks, stage, runState, apiLog, runs, reducedMotion>>

Credential     == [record: Library, issued: BOOLEAN, tier: 0..4, sealed: BOOLEAN, lifecycle: Lifecycles]
WebhookAttempt == [id: 1..(MaxReplays + 2), event: Nat, attempt: Nat,
                   status: {"waiting", "delivered", "failed"}, replayOf: 0..(MaxReplays + 2)]
Request        == [record: Library, status: {200, 404, 409, 422}, lifecycle: Lifecycles]
RunStates      == {"idle", "running", "complete", "error"}

-----------------------------------------------------------------------------
(* What is derived from a record. *)

BuildCredential(r) ==
    LET issued == Fixture[r].authorized
    IN  [record |-> r, issued |-> issued, tier |-> IF issued THEN Fixture[r].tier ELSE 0,
         sealed |-> issued /\ Fixture[r].lifecycle = "active" /\ Fixture[r].mark = "authorized",
         lifecycle |-> IF issued THEN Fixture[r].lifecycle ELSE "draft"]

EventTypes(c) ==
    <<"verification.started", "evidence.bound", "claims.resolved", "review.completed">>
    \o IF ~c.issued THEN <<"credential.authorization.blocked">>
       ELSE <<"approval.completed">> \o (IF c.tier = 4 THEN <<"custos.completed">> ELSE <<>>)
            \o <<"credential.issued", "registry.published">>
            \o (IF c.sealed THEN <<"seal.authorized">> ELSE <<>>)
            \o <<"webhook.attempted", "webhook.failed">>

\* A hash stands for what it is taken of: the record and the type, or the lifecycle, of the event.
Hash(r, what) == <<r, what>>
Genesis       == <<"genesis", "test-mode">>

SignedEvent(r, type, sequence, previous, what, lifecycle) ==
    [type |-> type, record |-> r, sequence |-> sequence, previous |-> previous,
     hash |-> Hash(r, what), lifecycle |-> lifecycle]

BuildEvents(c) ==
    LET types == EventTypes(c)
    IN  [i \in 1..Len(types) |->
            SignedEvent(c.record, types[i], i, IF i = 1 THEN Genesis ELSE Hash(c.record, types[i - 1]),
                        types[i], c.lifecycle)]

\* The last attempt to deliver the record's webhook failed and the next one waits.
BuildWebhookAttempts(evs) ==
    LET attempted == {i \in DOMAIN evs : evs[i].type = "webhook.attempted"}
        Attempt(n, status) == [id |-> n, event |-> CHOOSE i \in attempted : TRUE, attempt |-> n,
                               status |-> status, replayOf |-> 0]
    IN  IF attempted = {} THEN <<>> ELSE <<Attempt(1, "failed"), Attempt(2, "waiting")>>

\* What the page reports of a verification.
StatusOf(c) ==
    IF Fixture[c.record].lifecycle = "not-found" THEN 404
    ELSE IF c.issued THEN 200
    ELSE IF Fixture[c.record].eligible THEN 409 ELSE 422

\* What POST /api/v1/verify answers.
Verify(r) ==
    IF Fixture[r].lifecycle = "not-found" THEN 404
    ELSE IF BuildCredential(r).issued THEN 200 ELSE 409

Logged(entry) ==
    LET kept == IF Len(apiLog) < LogLimit THEN Len(apiLog) ELSE LogLimit - 1
    IN  <<entry>> \o SubSeq(apiLog, 1, kept)

TypeOK ==
    /\ fixture \in Library /\ credential \in Credential
    /\ \A i \in DOMAIN events : events[i].record \in Library /\ events[i].lifecycle \in Lifecycles
    /\ \A i \in DOMAIN webhooks : webhooks[i] \in WebhookAttempt
    /\ stage \in 1..Stages /\ runState \in RunStates
    /\ apiLog \in Seq(Request) /\ Len(apiLog) <= LogLimit
    /\ runs \in [Slots -> [credential: Credential, next: 1..Stages] \cup {None}]
    /\ reducedMotion \in BOOLEAN

-----------------------------------------------------------------------------
(* The store's operations. *)

Init ==
    /\ fixture = Initial /\ credential = BuildCredential(Initial)
    /\ events = BuildEvents(credential) /\ webhooks = BuildWebhookAttempts(events)
    /\ stage = 1 /\ runState = "idle" /\ apiLog = <<>>
    /\ runs = [s \in Slots |-> None] /\ reducedMotion = FALSE

Load(r) ==
    /\ fixture' = r /\ credential' = BuildCredential(r)
    /\ events' = BuildEvents(credential') /\ webhooks' = BuildWebhookAttempts(events')

\* Mutant: a verification that ends reports what the store holds by then.
TakenAtTheEnd(run) == credential

\* A verification reports on the credential it started with.
Reported(run) == run.credential

\* Mutant: a refusal leaves the indicator alone.
EndedWell(status) == IF status >= 400 THEN runState ELSE "complete"

Ended(status) == IF status >= 400 THEN "error" ELSE "complete"

End(run) ==
    LET status == StatusOf(Reported(run))
        entry  == [record |-> run.credential.record, status |-> status,
                   lifecycle |-> Reported(run).lifecycle]
    IN  /\ runState' = Ended(status)
        /\ apiLog' = Logged(entry)

\* Without motion a verification goes through its stages in one step.
RunVerification(c) ==
    IF reducedMotion
    THEN /\ stage' = Stages /\ End([credential |-> c, next |-> Stages])
         /\ UNCHANGED runs
    ELSE /\ \E s \in Slots : runs[s] = None /\ runs' = [runs EXCEPT ![s] = [credential |-> c, next |-> 1]]
         /\ stage' = 1 /\ runState' = "running"
         /\ UNCHANGED apiLog

\* The timer of a verification fires.
Proceed(s) ==
    /\ runs[s] # None
    /\ stage' = runs[s].next
    /\ IF runs[s].next < Stages
       THEN runs' = [runs EXCEPT ![s].next = @ + 1] /\ UNCHANGED <<runState, apiLog>>
       ELSE runs' = [runs EXCEPT ![s] = None] /\ End(runs[s])
    /\ UNCHANGED <<record, reducedMotion>>

SelectFixture(r) ==
    /\ Load(r) /\ stage' = 1 /\ runState' = "idle"
    /\ UNCHANGED <<apiLog, runs, reducedMotion>>

SetStage(n) ==
    /\ stage' = n
    /\ UNCHANGED <<record, runState, apiLog, runs, reducedMotion>>

\* Mutant: the event's place is the number of events there were.
CountedFromZero(l) == SignedEvent(fixture, "credential.lifecycle.changed", Len(events), Last(events).hash, l, l)

LifecycleEvent(l) == SignedEvent(fixture, "credential.lifecycle.changed", Len(events) + 1, Last(events).hash, l, l)

\* The control is off while no credential is issued, and for the lifecycle it has.
SetLifecycle(l) ==
    /\ credential.issued /\ l # credential.lifecycle
    /\ Len(events) - Len(BuildEvents(BuildCredential(fixture))) < MaxChanges
    /\ credential' = [credential EXCEPT !.lifecycle = l]
    /\ events' = Append(events, LifecycleEvent(l))
    /\ UNCHANGED <<fixture, webhooks, stage, runState, apiLog, runs, reducedMotion>>

RetryWebhook(i) ==
    /\ webhooks[i].status = "failed"
    /\ webhooks' = [webhooks EXCEPT ![i].status = "delivered"]
    /\ UNCHANGED <<fixture, credential, events, stage, runState, apiLog, runs, reducedMotion>>

ReplayWebhook(i) ==
    /\ Len(webhooks) < MaxReplays + 2
    /\ webhooks' = Append(webhooks, [webhooks[i] EXCEPT !.id = Len(webhooks) + 1, !.attempt = @ + 1,
                                                        !.status = "delivered", !.replayOf = webhooks[i].id])
    /\ UNCHANGED <<fixture, credential, events, stage, runState, apiLog, runs, reducedMotion>>

SetReducedMotion ==
    /\ reducedMotion' = ~reducedMotion
    /\ UNCHANGED <<record, stage, runState, apiLog, runs>>

-----------------------------------------------------------------------------
(* What the pages do with them. *)

\* The verifier's button is off while a verification is shown as running.
Resolve(r) ==
    /\ runState # "running"
    /\ Load(r) /\ RunVerification(credential')
    /\ UNCHANGED reducedMotion

\* The home page's lifecycle tabs never are.
ChooseLifecycle(r) ==
    /\ Load(r) /\ RunVerification(credential')
    /\ UNCHANGED reducedMotion

\* Nor is the button of the request history.
ReplayVerification ==
    /\ RunVerification(credential)
    /\ UNCHANGED <<record, reducedMotion>>

Next ==
    \/ \E r \in Library : SelectFixture(r) \/ Resolve(r)
    \/ \E r \in Lasting : ChooseLifecycle(r)
    \/ ReplayVerification
    \/ \E s \in Slots : Proceed(s)
    \/ \E n \in 1..Stages : SetStage(n)
    \/ \E l \in Offered : SetLifecycle(l)
    \/ \E i \in DOMAIN webhooks : RetryWebhook(i) \/ ReplayWebhook(i)
    \/ SetReducedMotion

\* A timer that is set fires.
Spec == Init /\ [][Next]_vars /\ \A s \in Slots : WF_vars(Proceed(s))

-----------------------------------------------------------------------------
(* Properties. *)

\* What is shown of a record belongs together whatever is loaded and changed meanwhile: its events
\* are one chain without gaps that ends in the credential's lifecycle, the seal's event is there
\* exactly when the credential was issued with it, and every delivery attempt has an id of its own,
\* is about the record's webhook and, if it is a replay, names an earlier one.  (selectFixture,
\* setLifecycle, replayWebhook.)
ConsequencesAgree ==
    /\ credential.record = fixture
    /\ \A i \in DOMAIN events :
        /\ events[i].record = fixture /\ events[i].sequence = i
        /\ events[i].previous = IF i = 1 THEN Genesis ELSE events[i - 1].hash
    /\ Last(events).lifecycle = credential.lifecycle
    /\ credential.sealed <=> \E i \in DOMAIN events : events[i].type = "seal.authorized"
    /\ \A i \in DOMAIN webhooks :
        /\ events[webhooks[i].event].type = "webhook.attempted"
        /\ webhooks[i].replayOf < webhooks[i].id
        /\ \A j \in DOMAIN webhooks : webhooks[i].id = webhooks[j].id => i = j

\* The log answers for each request what the service answers for that record, though the request
\* may have ended after another record was loaded.  (runVerification against verify.)
LoggedAsServed == \A i \in DOMAIN apiLog : apiLog[i].status = Verify(apiLog[i].record)

\* A verification shown as running ends, however many overlap it: the verifier's button comes back.
RunEnds == runState = "running" ~> runState # "running"
=============================================================================
