# Verification of PROVENANCE VERIFIED

TLA+ models of the parts of this repository that decide something over several
steps: who has approved a credential, what the public registry shows, which
webhook was sent, what a browser tab may call synchronized, whom the signed-in
page speaks for, whether a key makes an operation happen once. Each model is
translated from the code and model-checked with TLC on a small instance; every invariant
and action property a passing run checks is also proved with TLAPS, for every instance. What is left
to TLC alone is liveness. Paths below are relative to the repository.

- [The system](#the-system)
- [The modules and the code](#the-modules-and-the-code)
- [What is checked](#what-is-checked)
- [What is proved](#what-is-proved)
- [Where the code and its documents disagree](#where-the-code-and-its-documents-disagree)
- [What is not modelled](#what-is-not-modelled)
- [Plan](#plan)

## The system

The product certifies gemstones. A batch of units is taken in, its evidence is
attested and reviewed, a credential is issued, signed, published and marked; later it is
suspended, corrected, revoked. The repository holds two implementations of
that life, which do not call each other, the queues around them, a signed-in
browser product, and a public site that shows and verifies records:

| Component | State | Operations | How it interacts | What is hard, and what must hold |
|---|---|---|---|---|
| **Review core** (`src/domain`, `src/operations/{kernel,lifecycle,corrections,permissions}.ts`) | none: a review record goes in and comes out | issuance gates, review decisions, CUSTOS, signing, publication, revocation control, mark; lifecycle; corrections | called by the routes | long sequences of legal calls: an issued credential must not outlive the approvals it stood on; two approvals are two people; a terminal credential stays so |
| **Review routes and in-process repository** (`src/app/api/v1/operations/review`, `batches/[batchId]/submit`, `src/operations/{repository,runtime}.ts`) | review cases, attestations, credentials, one object per row, no version check | decision, corrections, lifecycle, submit | HTTP; all in one Node process | a handler that reads, awaits the body and writes its whole copy back; the process dying between two writes |
| **Intake routes** (`src/app/api/v1/operations/{lots,batches,assets}`, CSV, bulk, search) | lots, batches, units, attestations in memory and in a file | create, import, edit, submit | same process, same repository; a save writes the whole file | copies taken before the body arrives, saves that fail between the writes of one handler, synchronized records whose links nobody checks: no other link may lead nowhere, no tenant may be shown another's records |
| **Operations workspace** (`src/operations/useOperationsStore.ts`, `src/ui/operations`) | a tab's records, selection, queue and indicator | edit, import, submit, review, switch session | awaits the routes; answers come in any order | late answers after the user has moved on: shown cases must have been stored, nothing may be asked for another organization |
| **Offline intake** (same store, `operations/sync/route.ts`, `assets/[assetId]`, `batches/[batchId]/{assets,csv}`) | a tab's own copies and queue; the server's versioned assets | local edits, flush in chunks, sync loop, PATCH, evidence, imports, submit | tabs post chunks; server answers a verdict per operation | overlapping flushes, half-applied requests, repeated operations, versions counted on both sides and set back by imports, operation ids that repeat |
| **R3 authority plane: issuance** (`supabase/migrations/20260722030000_*.sql`) | workflow, credential, public record, mark, provider receipts: rows of several tables | prepare, custos, signing, finalize, compensate, lifecycle, mark | an orchestrator outside the repository calls SQL functions; providers outside it give receipts | late, repeated and out-of-order calls; five tables that must agree after each |
| **Webhook queue** (same migration, `supabase/functions/webhook-worker`) | delivery rows with status, holder, attempt; an invocation's batch | claim, post, complete, back-off | scheduler invokes worker; worker posts to endpoints | overlapping invocations under one worker id, invocations that stop anywhere, timeouts |
| **Wave 1 request authority and signed-in browser** (`src/operations/{http,auth}.ts`, `src/app/api/v1/auth`, `src/authority`, `src/ui/authenticated`, `AuthoritySignInAccess.tsx`, `20260725050000_*.sql`) | provider sessions, memberships with versions, cookies, what a page shows | sign in, second factor, choose organization, resolve context, refresh, sign out, change a membership | a page asks two routes; each derives, decides, reads | cookies replaced and memberships changed between the reads one page is put together from; an ended session; answers that come in a state the shell has no move for |
| **Wave 1 idempotency keys** (`executeIdempotentWave1Operation` in `src/operations/http.ts`, `20260725050000_*.sql`, `20260807235900_*.sql`) | rows of keys | claim, execute, complete | between a route and the database | overlap and retry: one answer under one key, and one effect as long as nothing overlaps or breaks off |
| **Public proof** (`src/store/useProvenanceStore.ts`, `src/services`, `src/adapters`, `src/ui/{VerifyRoute,CaliberHomepage}.tsx`) | the record loaded, its derived credential, events and attempts, verifications under way | load, verify, change lifecycle, retry and replay a webhook | timers; a deterministic service | verifications that overlap and outlive the record they started with |
| **Identity scenes** (`src/identity`) | WebGL scenes, a shared construction queue, timers, observers | build, pause, resume, draw, dispose | effects of React, observers and frames of the browser | a task or timer that outlives the effect that made it |
| **Notification queue, audit exports** (`20260722080000_*.sql`, two workers) | as the webhook queue, with their own leases | claim, build or send, complete, revoke | scheduler, providers | as above, with other rules |
| **Reviewer assignment** (`20260722090000_*.sql`) | assignments | assign, claim, complete | reviewers | stages assigned at the same time; claims nobody releases |
| **Media custody** (R3 migration) | states of printed and NFC media | bind, ship, activate, lose, replace | CUSTOS operators | the graph of states, replacement without a lock |
| **Commercial, quotas, launch gates, freshness, licences, sandboxes** | rows of their own | single-transaction commands | operators | bounds under row locks |
| **Labels, status, remaining pages, SDKs, scripts, infrastructure** | none | read-only projections, presentation, tooling | | outside this project |

`PROJECT.json` lists the components file by file (`components`) and the
hazards of the code, each at its line (`hazards`), with the property that covers it or the
reason none does. Smaller ones met on the way, in parts with no module: two freshness runs
that open the same finding (`20260722050000_*.sql:107`), a gate approved between a
freshness run's reading and its commit (126), a payment's idempotency key looked up before
the invoice (`20260722100000_*.sql:351`), a batch command claimed in any state
(`20260722040000_*.sql:346`), a medium without a credential that is shipped (R3 migration, line 1312),
a data file replaced by fixtures when it cannot be read (`src/operations/runtime.ts:22`), a label made
after an await (`labels/route.ts:35`), and the hero's scene, paused by the user and resumed when its browser tab is shown
again, because the listener keeps the value of `paused` of the render that made it (`src/spatial/SpatialEnvironment.tsx:39`).

Four facts about how the code runs shape all of the models:

- **Node runs a handler alone between two awaits.** A handler that reads its records after its
  last await is one action. One that reads before is two: the first takes a copy, the
  second writes it.
- **An SQL function is a transaction under row locks.** It is one action, and an
  exception or a violated constraint undoes all of it.
- **Nobody waits for anybody.** Orchestrators, providers, endpoints and users are
  programs and people outside the repository: any call may come at any time, again,
  or never.
- **A page captures before it awaits.** What a browser handler read before its call is part of
  the request in the model; the answer is applied to whatever the page holds by then.

## The modules and the code

| Module | Models | Code it stands for |
|---|---|---|
| `ReviewCase` | the pure functions on a case | `src/domain/{authority,kernel,projectors}.ts`, `src/operations/{kernel,lifecycle,corrections,permissions}.ts`, the decision route's branches |
| `ReviewRoutes` | the handlers over the repository; extends `ReviewCase` | `src/app/api/v1/operations/review/[caseId]/*`, `.../batches/[batchId]/submit`, `src/operations/repository.ts` |
| `Intake` | the intake routes over the repository and its file | `src/app/api/v1/operations/{lots,batches,assets,search,sync}`, `src/operations/{csv,repository,runtime,kernel}.ts` |
| `Workspace` | a tab's store and pages over both | `src/operations/useOperationsStore.ts`, `src/ui/operations/*` |
| `OfflineSync` | a tab's queue, its flushes and imports, the sync loop, and the routes that change the same records | `src/operations/useOperationsStore.ts`, `src/app/api/v1/operations/sync/route.ts`, `.../assets/[assetId]`, `.../batches/[batchId]/{assets,csv,submit}`, `src/domain/fixtures.ts` |
| `CredentialAuthority` | what the authority plane promises a verifier (abstract) | — |
| `Issuance` | the R3 issuance workflow; implements `CredentialAuthority` | `supabase/migrations/20260722030000_*.sql` |
| `WebhookDelivery` | the webhook queue and its worker | same migration; `supabase/functions/webhook-worker/index.ts` |
| `RequestAuthority` | errors, tenant context and decisions as functions of the memberships | `src/operations/{http,public-error-mapper}.ts`, `src/authority/*`, `20260725050000_*.sql` |
| `AuthSession` | browser, routes, provider, memberships; extends `RequestAuthority` | `src/app/api/v1/auth/*`, `src/operations/auth.ts`, `src/ui/AuthoritySignInAccess.tsx`, `src/ui/authenticated/*` |
| `IdempotentOperation` | keys and the requests under them; extends `RequestAuthority` | `src/operations/http.ts`, `src/authority/supabase-data.ts`, both wave 1 migrations |
| `PublicProof` | the public store and what verification answers | `src/store/useProvenanceStore.ts`, `src/services/deterministic.ts`, `src/domain/{projectors,fixtures}.ts` |
| `IdentityScenes` | the life of WebGL objects | `src/identity/{R5IdentityObject.tsx,identity3d.ts,R5TierDeck.tsx}` |
| `MC*` | users, sessions, records and bounds of the instances | — |
| `*Proofs` | the theorems of the module they are named after; `RequestAuthorityProofs` those of `IdempotentOperation` and `AuthSession`, `PublicPagesProofs` those of `PublicProof` and `IdentityScenes` | — |

The definitions keep the source's names where TLA+ allows it; `map` in
`PROJECT.json` gives the lines of each. A few definitions with names like
`ForgetfulReset` or `ClaimableDead` stand before the one they resemble: they are
plausible mistakes in that code, and each property is shown to fail when its definition is
replaced by one of them (`mutants`).

### ReviewCase and ReviewRoutes

A case is a record: the attestation it is on, the approvals, clearance, CUSTOS
verdict, signing, registry and revocation states, lifecycle, mark, corrections,
the receipt log and the credential. An operation is a guard `Can...(r, ...)`, from
the early returns, and an effect on the record; `Refreshed` is the call that
rebuilds the credential at the end of each. The evidence enters as the tier it
supports, an attestation's hash as the pair of version and text it hashes, the
receipt log as its length and the set of types in it.

`ReviewRoutes` puts the functions behind the routes:

| Code | Actions |
|---|---|
| decision route: read (line 41), `await request.json()` (43), write (113) | `Load`, then `Review`, `DecideCustos`, `AuthorizeSigning`, `PublishRegistry`, `EnableRevocation`, `DecideMark`, or `Refuse` |
| corrections route, the same shape | `Load`, then `RequestCorrection`, `RejectCorrection`, `ResolveCorrection` |
| lifecycle route and submit route: read after their last await | `Transition`, `Submit`, one step each |
| evidence changed through intake | `ReviseEvidence` |
| the process dies between two repository writes | `CrashInRequest`, `CrashInReject`, `CrashInResolve`, `CrashInSubmit`; the requests in flight are gone |

`torn` is history: the cases whose record and credential a death separated, until a
handler writes that case again. The constant `Overlap` says whether two
requests may be in flight on one case.

### Intake

The data set is the batches, units, attestations, cases and lots with the links
between them; a record's other fields, and a unit's lot, are left out. A unit's identity is the tenant and the serial it was first
given; its current serial is data. `data` is the memory of the process, `disk` the file.

A handler is the list of its writes in order (`Imported`, `Submitted`, ...), and `Write` says what can become of such a list:
all of it (`Completed`), a save that fails after memory has changed (`SaveFailed`), or the
death of the process after some of them (`Died`). `Load` is the step that takes a batch or unit
and awaits the body; `ImportUnits`, `ImportCsv`, `SubmitBatch` and `EditUnit` write copies back;
`ReceiveLot`, `CreateBatch`, `SyncBatch` and `SyncUnit` read after their last await and are one step.
A batch created over HTTP names any lots, and no code looks a lot up. The sync route stores a
record with the links its payload names (`kernel.ts:118` spreads the payload over the record, nobody compares its
`batchId`): `SyncUnit` may leave a unit that names a batch which is not there, or another tenant's, and `SyncBatch` a batch
that lists such units. This is how the code is; the record is marked `astray`, which is history like
`acked`, what answers have called stored. What `validateBatch` finds wrong with a unit,
other than a serial used twice, is left open.

### Workspace

The store of a tab, for users who switch between sessions of different
organizations in it. `UserAct` are the handlers that end at once (select, edit, switch the
session), `Send` the first part of those that await a route, `Serve` the route, `Hear` the rest of the handler
with the answer, which finds the tab as it is by then. A request carries what its handler captured:
session, target, the cases shown. The routes are reduced to what a tab can tell from their answers, since `ReviewRoutes`, `Intake` and
`OfflineSync` say how they work. Two instances share the module: intake work with two organizations,
and review work with two roles of one.

### OfflineSync

Tabs and server start from one data set, which may hold an update that is still queued (`Init`, `Seed`;
`fixtures.ts:308`). `AddAsset`, `UpdateAsset`, `AddEvidence` and `AddEvidenceFile` are the store's edits:
the local copy changes at once, its version goes up, and an operation is queued under the session
selected then. Media operations are never sent from the sandbox.

`StartFlush` snapshots the whole queue; `Serve` is the chunk loop and, inside a request, the server's loop, one operation a
step. A request carries `ChunkSize` operations, its loop runs without giving way (`Free`), and `Phase` says when a chunk is answered. It may throw halfway,
over evidence of an unknown asset or a save that fails, and then the flush is over. `FinishFlush` books the verdicts after the last chunk, `FailFlush`
leaves everything queued. The store books by operation id, and the id of an update is the asset and the version it makes of the
tab's copy (`useOperationsStore.ts:691`, 1259): `SameId` says which operations share one, and an operation shows the last answer
to any of them (`Booked`, the field `holds`).

The rest of the world reaches the records through the other routes: `ReadForPatch` and `WritePatch` are PATCH with its await,
`ReceiveEvidence` counts a version up, `ImportAsset` is the JSON import, which stores a record of version 1 whether or not there is one, and
`StoreImport` the CSV import, which refuses serials in use. A tab that imports a CSV file (`StartImport`, `StoreImport`, `FinishImport`, `FailImport`) takes the
server's record in place of its own copy, so its versions, and the ids made of them, start again.
`StartSubmit`, `AcceptSubmit` and `FailSubmit` are `submitSelectedBatch`.

A record is its version and the writes it consists of, in order, which is what the properties read. `torn` and `rewound` are history: a
PATCH wrote back a copy that was older than the record; a version was set back, of a record by an import, or of a tab's copy by its own.

### CredentialAuthority and Issuance

`Issuance` indexes all rows by review case, because `review_case_id` is unique
among the credentials. Each SQL function is an action with the function's checks as its
guard: `PrepareIssuance`, `RecordCustos`, `RecordSigning`, `FinalizeRegistry`,
`RequireCompensation`, `LifecycleTransition` (and `LifecycleAborted`, where the
last update violates the table's check constraint and all is undone), `RecordMark`,
`SetLicense`, `WithdrawLicense`. The environment decides reviews and clearances
(`Decide`, `Clear`), switches controls (`SwitchReady`), and gives receipts that later
expire (`AcceptReceipt`, `Expire`). `aborted` is history.

`CredentialAuthority` is what remains when only the public registry is seen: how
far the authorities have come with a case, and the lifecycle shown. `Issuance` maps to it by
reading the stage off the credential row and the lifecycle off the public record.

### WebhookDelivery

`Claim` and `Complete` are `pv_r3_claim_webhook_deliveries` and
`pv_r3_complete_webhook_delivery`. An invocation works off its batch with `Deliver`
(the post, which the endpoint may or may not see) and `FailBeforeSending`
(target or secret refused), each followed by `Complete`. `Abandon` ends an invocation at
any point: stopped by the platform, a failed database call, or an answer lost after it
took effect; no handler catches it. `Elapse` is the end of the delay before a retry,
`SwitchEndpoint` an operator. `received` is history: the attempts the endpoint saw.

### RequestAuthority and AuthSession

`RequestAuthority` is stateless: `PublicCode` classifies an internal error by the words the
mapper's patterns look for, in their order; deriving a tenant and deciding on an action are functions of the
memberships at the instant of the call. The version a decision compares is the membership's; the SQL takes the greater of it and the
actor's (`20260725050000_*.sql:568-586`), and nothing in the repository raises the actor's. The statuses and expiries of actors and tenants, which only
refuse more, are left out.

`AuthSession` is one browser against it. A call carries the cookies of the instant it is sent;
the session routes are served in two steps (`ServeRead`: who asks for which tenant; `Authorize`: the decision),
with everything else in between; the answer's `Set-Cookie` headers reach the jar when it arrives.
`Submit`, `EnterCode`, `ChooseTenant` and `Hear...` are the sign-in page,
`ResolveShell`, `HearFirst`, `HearSecond` the shell, which puts its context together from the
session route and the operations route, `IssueCommand` and `HearCommand` the settings panel, whose 401
leads to a refresh and a repeat. The panel's commands go to `/api/v1/organization`, which `proxy.ts` forwards to a service that is not in
the repository: `ServeOutside` answers anything, a 401 after the command took effect included, so nothing is said here of how often a command takes effect
(that is `IdempotentOperation`'s question, of the repository's own wrapper). `Move` is the shell's table of states, which drops a move it does not list. `ElsewhereSignsIn` and `ElsewhereSignsOut` are another window of the browser,
`SessionEnds` and `ServiceFails` the identity provider, `ChangeMembership` an administrator.

### IdempotentOperation

`executeIdempotentWave1Operation` is `ClaimKey`, `Execute`, `Complete`; claim and completion derive the tenant anew and
are database functions, so each is one step. Every one of the three may succeed and have its answer lost (`lost`), or fail
before it did anything (`Fail`), and a refusal the server lists as retryable may be sent again (`RetryAfter`).
What the operation does is the caller's: here, an effect at one instant with a result. Facts the model shows or rests on:

- only tests call the function so far;
- a claim that finds the key in progress executes again (`http.ts:278`), so two overlapping requests both take effect; `OnceUndisturbed` says that nothing else leads there;
- the wrapper may answer 401 after the effect, when the token has expired by the time of the completion (`TokenRefused`; `http.ts:281-293`), and `authorityFetch` repeats a command
  after a 401 (`RepeatAfterRefresh`): the repeat finds the key in progress and executes again. `OnceUndisturbed` counts this among the rows on which a request broke off; no
  property denies that second effect, since the code has it;
- the request that loses the race to complete is refused with a conflict it may not retry, although the operation took effect and has a result under its key;
- `expires_at` is never read, and no code writes the status `FAILED`.

### PublicProof

A record of the library is what its evidence and authority come to. `Load` rebuilds what is
derived from it (credential, events, attempts); `SelectFixture`, `Resolve`, `ChooseLifecycle` are the ways
pages load one. `RunVerification` takes credential and decision with it and `Proceed` is its timer;
`SetLifecycle`, `RetryWebhook` and `ReplayWebhook` grow what loading made. `Verify` is the answer of the deterministic service. Of the pages only the
home page (`/`) and `VerifyRoute` (`/verify`) are mounted; the chapters under `src/ui/phase3` that call the store
are rendered by tests.

### IdentityScenes

An object's effect is one record per run of it: whether its observer's callback last heard that it is in view (`visible`), whether its construction
has settled, its timer. Tasks wait in one queue for all objects (`sceneConstructionQueue`) and know their run; `Build` is
the head of the queue in an animation frame, and may throw. `Scroll` and `Notify` are the observer: reports are delivered later, and
the callback goes by the first of the ones it is handed (`entries[0]`, `R5IdentityObject.tsx:123`). So `visible` is not the same as being on screen
(`onscreen`). When an object comes into view before the report that it was out of view is delivered, the callback hears only the older one: the
object is on screen with no scene, no task to build one and no failure shown, until it is scrolled again. The model reaches this state in three steps (`Mount`, `Scroll`,
`Notify`); it is a defect of the code, and no property denies it. `missed` is history: the last callback passed such a report over. `Frame` is a frame a scene
asked for, `Context` the browser taking a context away and back. `Rerun` is React running an effect's cleanup and the
effect again. The home page's hero is
`SpatialEnvironment`, with an effect of its own, and is not modelled.

## What is checked

A run checks the invariants and properties of its `.cfg`. The only symmetry is between interchangeable
requests or flushes, which no property tells apart, and in runs without a liveness property.
Deadlock is checked everywhere but in `offline_sync` and
`idempotent_operation`: there queues are worked off and requests come to their end, and nothing is left to do.

| Run | Instance | Shows |
|---|---|---|
| `review_serial` | 1 case, 4 users (reviewer, compliance officer, authorized attestor, owner), 1 request, evidence tiers 1 and 4, approvals that are independent, dependent or rejecting | the invariants of a case, and that a terminal credential stays terminal, when requests of a case do not overlap, deaths between writes included; that the invariants survive overlapping requests is proved |
| `revoked_stays_revoked` | the same with two requests in flight | a counterexample, see [below](#where-the-code-and-its-documents-disagree) |
| `issuance` | 1 case, 2 reviewers | the tables agree after every command, however late or repeated; the registry implements `CredentialAuthority` |
| `webhook_delivery` | 2 deliveries, 2 invocations under one worker id, 3 attempts, batch of 2 | the lease, the order of attempts, and that a delivery to an active endpoint settles or is orphaned |
| `offline_sync` | 2 tabs, 1 unit, an intake and an attestor session, 2 flushes, chunks of 1, a seeded operation, up to 3 operations in one tab (evidence and media weigh two) and 1 in the other, a CSV import of the first tab, PATCH, evidence and imports from elsewhere | order, truth of "applied", and that an update replaces what its tab had seen, each but for the versions that are set back |
| `intake` | 2 tenants, 3 sessions, 2 batches, 3 units with 2 serials, 1 lot, payloads that lead astray, 2 requests that hold copies, 1 fault | links, tenants and answers survive stale copies, failed saves, deaths and records sent with links of their own |
| `workspace` | intake session of one organization, administrator of another, 2 requests | nothing is asked across organizations; the button "Sync queue" comes back |
| `workspace_review` | attestor and compliance officer, 1 case stored up to 3 times, 2 requests | what is shown was stored, and does not go back behind what its request had seen |
| `auth_session` | 1 page, 2 users, 2 organizations, 2 provider sessions, another window of the browser, 1 change of a membership | what the page shows was authorized; an ended session is refused; no order of answers leaves the shell waiting |
| `idempotent_operation` | 3 requests (one, its duplicate, another user's) under 1 key, 2 results | one answer under one key, a second effect only after overlap or interruption (a 401 after the effect included), retries end |
| `public_proof` | 3 records (issued with mark, not issued, not found), 3 stages, 2 verifications under way, log of 1 | what is derived agrees, the log reports what the service answers, a verification ends |
| `identity_scenes` | a mark and a seal that is replaced once, 2 queued tasks, 1 context that can be lost | one loop per scene, no scene without its effect, drawing exactly while the observer's callback says it is in view, on screen means drawn or coming once the callback was told, tasks end, and the timer of a scene that was tried |

**Review.** `CredentialCurrent`: a stored credential is what its own record authorizes.
`DistinctApprovers`, `TierFourOnFourEyes`: two approvals are two people, and an
issued Tier 4 keeps standing on them although any role may be decided again.
`InactiveMarkDenied`, `AuthorityChain`, `HigherTierAttested`: what rests on what.
`TerminalHolds`: no step leaves a terminal lifecycle without a new attestation. `CredentialCurrent` leaves torn cases out, since
a death between the two writes really leaves an old seal on a suspended record;
the others do not.

**Issuance.** `AuthorityBehind`: nothing is public or active without review, CUSTOS and signer.
`RegistryAgrees`, `MarkOnActive`: rows of different tables that
different commands write. `RevivedOnlyCorrected`: no late answer revives a terminal credential.
`AuthoritySpec`: the refinement.

**Webhooks.** `LeaseHonoured`: no two invocations work on one delivery, and no completion
is booked on another's attempt, even under one worker id, which the database
cannot tell apart. `AttemptsInOrder`: the endpoint sees each attempt at most once, in order,
never more than the maximum. `SettlesUnlessOrphaned`: liveness.

**Offline.** `UpdatesInOrder`: a record takes a tab's creations and updates at most once
and in order, through repeats, overlapping flushes and lost updates. `AppliedIsStored`: what
a tab shows as applied is in the record. `SeesWhatItReplaces`: the
version check does what it is for as long as nothing of the tab's own was dropped
on the way. All three rest on versions that only go up, and the code has three ways round that, so each property names the
ones that break it, and holds under the others:

| Way | Code | What is lost | Exempt from |
|---|---|---|---|
| a PATCH writes back a copy that was taken before its await | `assets/[assetId]/route.ts` | an applied operation disappears from the record | `AppliedIsStored` (`torn`) |
| an import stores a record of version 1 where there is one | `batches/[batchId]/assets/route.ts:23`; the CSV route, if the serial of the record had been edited | the same; and the number a tab expects comes round again, over a value it has not seen | `AppliedIsStored`, `SeesWhatItReplaces` (`rewound`, `Elsewhere`) |
| a CSV import puts the server's record in the place of the tab's copy | `useOperationsStore.ts:631-638` | the tab expects versions it expected before, and operation ids repeat: a later edit may be applied before an earlier one, and one verdict is shown for both | `UpdatesInOrder` (`rewound`, the tab). With `AppliedIsStored` the operation that counts is the one whose verdict is shown (`holds`) |

**Intake.** `LinksHold`: in memory, and in the file a death would leave behind, every unit a batch lists, every attestation
it or a case names exists. It holds because of the order of the writes, and although the lists themselves lose units to stale copies.
`TenantsApart`: a session is shown records of its tenant, which refer to nothing of another's; a batch is attested, and a case opened, for units
of its tenant only, also when another tenant's unit names the batch; and a request writes back its own tenant's records. Both leave out
the links of a record that a synchronized payload led astray: nobody checks those, and the model has units that name a batch which is missing or another tenant's.
`AnsweredIsKept`: what an answer called stored survives any later failure.

**Workspace.** `ShownWasStored`: a case shown is, whole, one the server stored, also where a page is put together from two
requests of which the second was refused. `NoOlderThanAsked`: an answer may set the page back only behind requests made later. `ActsOnOwnTenant`:
late answers do select units of another organization, and still nothing is queued or asked for them. `SyncingEnds`: the indicator
that holds back the button is never left standing without a request that settles it.

**Signed-in browser.** `ShownIsAuthorized`: the context shown was true at one instant, of one user, session and organization, although two
routes and several reads each went into it. `EndedSessionRefused`: a call sent after its session ended is not allowed, in whatever order cookies
are set and cleared. `ShellMovesOn`: the shell waits only for an answer that is on its way, and offers organizations only when there are some, although its table drops
a move it does not list. One answer is dropped so: a 401 to the organization that was picked, in `CHANGING_TENANT`, leaves the chooser standing.

**Idempotency.** `AnsweredAlike`, `AnsweredWithOwn`: what is answered under one key is one result, which the asker's own
operation had. `OnceUndisturbed`: when a second effect is possible at all. `Settles`: a key left in progress blocks nobody.

**Public proof.** `ConsequencesAgree`: events, lifecycle, seal and attempts go on agreeing as they are
grown. `LoggedAsServed`: an entry is about the record its verification started with. `RunEnds`: liveness.

**Scenes.** `OneLoop`: a running scene waits for one frame, a paused one for none. `NoOrphan`: no scene without the run of the effect it was built for.
`DrawsInView`: a scene draws exactly while the flag of its observer's callback says that it is in view, also if that changed while it was waiting to be built.
`ShownOrComing` is about what is on screen: it draws, or its task is queued, or it shows that it failed, once the callback was told that it is there; the
report the callback passes over (`Told`, `missed`) is the defect described [above](#identityscenes).
`QueueSettles`, liveness: tasks end, also when a constructor throws, and so does the timer of a scene that was tried; the timer of an object
that is never reported in view polls until the clean-up.
`Frame` leaves the state as it was as long as `OneLoop` holds; it is there for what a second loop would do.

Each module's type invariant (`TypeOK`, in two of them `OperationTypeOK` and `ScenesTypeOK`) is proved and needs no run.

### Bounds, and why they are enough

- *One case, one unit.* No handler reads another case or unit, but for the submit routes, which
  write the cases of a batch one by one; a death among them is chosen as the subset that was
  written. The theorems hold for any set of cases.
- *Users.* One per role that a guard tells apart; the owner is in the serial run because it may sign
  and submit without supporting a tier.
- *`MaxChain`* bounds the receipt log: 9 receipts are a full issuance and what follows it
  (a correction, a lifecycle change, a second attestation). *`MaxCorrections`* 1,
  *`MaxVersion`* 2 (one new attestation).
- *Webhooks.* Two deliveries make a batch of which one is left behind; three attempts have a first, a middle and a last;
  two invocations can overlap.
- *Offline.* Two operations of one tab can be sent twice, split over two chunks and be served in either order;
  a third is what a CSV import makes bear the id of the first; the other tab's one is the write in between. `MaxVersion` 2 stops edits of a copy that is already at version 3,
  one past what two operations and a stranger's write need to make numbers coincide. `Small` lets a version be set back once (each of the three ways is reached), and one
  import, PATCH, submission or flush of the other tab be under way beside the first tab's flushes, an import beside two of them; a record holds one write from elsewhere.
- *Intake.* Two requests hold copies at once; two units or two batches are what a list can lose or a unit can move between; one
  fault is a failed save or a death, at any write. `Small` keeps the second batch apart from the second unit and from edited serials, and, with two batches, a fault apart from two held copies; a record
  led astray, a lot in a list or the other tenant's unit is there alone, with one of the other units, without a fault and with one held copy. The theorems have no such bounds.
- *Workspace.* Two requests are enough for one answer to overtake another; `MaxStored` counts all stored cases together.
- *Browser.* Two provider sessions of two users: one replaces the other in the jar. One change of a membership: a promotion, an end, or a second organization for a user who claims none. `AskedRows` are the rows of the role table the routes ask for.
- *Keys.* Three requests: one that completes, one that overlaps it, one that must not get its answer. `Small`: the membership that may be withdrawn is that of the user with two requests.
- *Public proof.* The code has 7 stages and a log of 16; a stage only counts towards the end, and a shorter log drops entries sooner. `MaxChanges` and `MaxReplays` bound what a loaded record can grow by.
- *Scenes.* `MaxRuns` 1 and 2: an object that stays, and one whose effect is run again while the task of its first run waits.

### Fairness

Review, issuance, intake, workspace, offline sync and the signed-in browser are driven by users and outside programs;
nothing in the code makes them go on, so no liveness is stated and no fairness assumed there. (`SyncingEnds` is
an invariant for that reason: it names the request that is under way.)

`WebhookDelivery!FairSpec` assumes that the scheduler keeps invoking the worker (weak
fairness of some claim, not of each invocation's), that an invocation that is not abandoned
goes on, and that the retry delay passes. Endpoints
answer as they like, operators need not switch one on, and abandoning is never
required nor forbidden. `SettlesUnlessOrphaned` therefore needs an endpoint that stays active, and
names the one state the program itself cannot leave.

`IdempotentOperation!OperationSpec` assumes that a caller refused with a retryable code sends the request again, which is what
`docs/RECOVERY_RUNBOOK.md:22` tells operators to do ("retry with the same idempotency key after the dependency is healthy"), and that
claim, operation and completion do not fail every time they are tried (strong fairness).

`PublicProof!Spec` assumes that a timer that is set fires; `IdentityScenes!ScenesSpec` that timers fire and that the browser draws
frames in a tab in the foreground. Browsers hold back both in the background, so `QueueSettles` asks nothing of a hidden tab.

## What is proved

Each `*Proofs` module proves its invariants as theorems `Spec => []Inv`, for every
number of cases, users, requests, invocations, tabs, verifications or scenes and every bound.
Hardly any property is inductive alone. The invariant that is, and why the addition is needed:

| Module | Inductive invariant | Why the addition is needed |
|---|---|---|
| `ReviewRoutesProofs` | `TypeOK /\ Sound /\ CredentialCurrent` | a commit writes back the copy it holds: `Sound` says of every copy in flight what is said of the stored cases, and that what a copy rests on (attestations) is never removed |
| `IssuanceProofs` | `TypeOK /\ Chain` | `Chain` orders the authorities of one case across its rows, so that a command's own check of one row implies the others |
| `WebhookDeliveryProofs` | `TypeOK /\ Lease /\ Counted` | `Lease` ties every held copy to its row, `Counted` bounds what the endpoint has seen by the row's attempt, which differs while a row is held and already posted |
| `IntakeProofs` | `IntakeInv`: `Good` data sets in memory and file, `Grows`, `Held`, `AnsweredIsKept` | a handler writes back a copy, and memory runs ahead of the file after a failed save: what a copy refers to is in memory (`Held`), memory holds all the file holds (`Grows`), what refers to each other is of one tenant (`Owned`), and attestations are numbered without gaps, so that none replaces one a case is on. A copy of a record that a payload led astray is written back as such (`UnitLed`, `BatchLed`). That a handler breaks off between any two writes is dealt with once (`WriteKeeps`) |
| `WorkspaceProofs` | `WsInv`: `TypeOK /\ SyncingEnds /\ ShownWasStored /\ Numbered /\ RequestsOK` | a case is shown from an answer, which was composed earlier and asked for earlier still: `RequestsOK` says of every request that the cases it knows and the cases of its answer are stored, none older than the one it knows; `Numbered`, that a case's number is its place among those stored, so that older can be told by it |
| `OfflineSyncProofs` | `TypeOK /\ Shape /\ Ordered /\ Truthful` | the order of a log follows from two facts: operations of a tab whose copy was not set back carry rising expected versions (`Counts`), and a log rises in them and stays below the record's version, also for the copies a PATCH holds; `Truthful` says of the verdicts on their way, by the place they are booked at, what is said of those booked |
| the same | `CInv`, with `Counted(start)` besides | `SeesWhatItReplaces` is about what a record consists of, the code compares numbers only. `Counted` links the two, for records no import replaced: a version is at least the start plus the length of the log, and an operation expects at most the start plus the tab's own earlier ones, also after a CSV import set the tab's copy back. Where the two meet, an injection of the tab's operations into the log leaves no room for another's |
| `RequestAuthorityProofs`, keys | `IInv`: `Shape /\ Bound /\ Executed /\ Answered /\ Backed` | an answer is only as good as its row: `Bound` ties every request past its claim to the digest in the row, `Executed` and `Backed` say that the result a request carries, and the one a completed row keeps, took effect under that digest |
| the same | `Once` besides | a count of one effect says nothing about who is still going to have one: while nothing disturbed a row, one request at most is past its claim, and an effect is followed by its completion or by the row's |
| `RequestAuthorityProofs`, browser | `AuthInv` | a context is derived at one instant and shown at another: the invariant follows each one from where it is derived through the call to the page, vouched for by sessions and by versions of memberships, of which nothing is ever taken back (`SessionsExtend`, `VersionsExtend`); what cookies and answers say of a session is true of it; and a page that awaits an answer shows no context. `Steady` says which call each state of the shell awaits, so that an answer whose move the table drops still finds it with a choice |
| `PublicPagesProofs`, log | `LogInv` | an entry is written from a credential taken when the verification started, so the invariant speaks of every credential the store still holds, loaded or under way |
| `PublicPagesProofs`, events | `ShownInv` | that a replay names an earlier attempt needs attempts numbered by their place; that the events stay one chain needs each one's hash and the last one's lifecycle |
| `PublicPagesProofs`, scenes | `ScenesInv`: types, `RunsAreShown`, `OneLoop`, `NoOrphan`, `DrawsInView`, `Coming`; `InStep` besides | a scene is built by a task that outlives the run that scheduled it; what keeps it from being built for nobody is that a run in force belongs to a page that is shown while WebGL is on. `Coming` is about the callback's flag; `InStep` says that the flag is what is on screen, once every report was delivered and none passed over |

`WsInv` and the counting of `CInv` were checked by TLC, as invariants of the instances above, before they were proved.

Theorems:

- `ReviewRoutesProofs`: `TypeCorrect`, `CredentialIsCurrent`, `ApproversAreDistinct`,
  `TierFourIsFourEyed`, `InactiveIsDenied`, `AuthorityIsChained`,
  `HigherTierIsAttested` hold with overlapping requests and deaths.
  `TerminalIsFinal` assumes `~Overlap`, and needs it: `revoked_stays_revoked` shows what happens
  with two requests.
- `IssuanceProofs`: `TypeCorrect`, `AuthorityIsBehind`, `RegistryIsCurrent`, `MarkIsOnActive`,
  `WorkflowIsCurrent`, `RevivalIsCorrection`, and `ImplementsAuthority`: `Issuance` implements
  `CredentialAuthority`, step by step.
- `WebhookDeliveryProofs`: `TypeCorrect`, `LeaseIsHonoured`, `AttemptsAreInOrder`, `SettledStays`.
- `IntakeProofs`: `TypeCorrect`, `LinksAreKept`, `TenantsStayApart`, `AnswersAreKept`, with any number of requests in flight,
  saves that fail and deaths between any two writes.
- `WorkspaceProofs`: `TypesHold`, `SyncingIsEnded`, `ShownIsStored`, and of steps `ActsWhereItMay` and `AnswersTakeNothingBack`,
  with any number of requests whose answers come in any order.
- `OfflineSyncProofs`: `TypeCorrect`, `UpdatesAreInOrder`, `AppliedStays`, `UpdatesSeeWhatTheyReplace`.
- `RequestAuthorityProofs`, of keys: `OperationTypesHold`, `AllAnsweredAlike`, `AllAnsweredWithOwn`, `SecondEffectNeedsDisturbance`;
  of the browser: `TypesHold`, `ShownWasAuthorized`, `EndedIsRefused`, `ShellNeverStuck`, for any permission rows, claims, tabs and memberships.
- `PublicPagesProofs`, of the store: `TypeCorrect`, `ConsequencesBelongTogether`, `LogIsAsServed`;
  of the scenes: `ScenesTypesHold`, `ScenesDrawInOneLoop`, `NoSceneIsLeft`, `ScenesDrawInView`, `OnScreenIsShownOrComing`.

The fairness of a specification is never used: the theorems hold without it.

The assumptions are those of the constants, named in the module that declares them and
evaluated by TLC in the runs:

- *who is who:* users have roles of the organization (`RoleAssumption`), editors, attestors and the session of the seeded operation are sessions (`SubsetAssumption`),
  a session has a tenant (`IntakeAssumption`, `WorkspaceAssumption`), memberships and their changes are of users, tenants and roles (`AuthAssumption`), a session claims a
  tenant or none (`ClaimAssumption`), requests have a user and a tenant (`IdempotentOperationAssumption`), an invocation a worker (`WorkerAssumption`);
- *identities:* those of batches, units and lots differ in kind and begin with their tenant, as the code makes them, and the data set is finite
  (`IntakeAssumption`); the units a tab enters and imports belong to a batch of its session's tenant (`WorkspaceAssumption`: the tab makes them so; units that others sent with
  links of their own are outside `Workspace`); what a payload may say are links and serials (`PayloadAssumption`);
- *ranges:* determinations, tiers and bounds (`RoutesAssumption`, `AttemptAssumption`, `BoundAssumption`, `IdentityScenesAssumption`), and a library of records that can be
  decided on (`PublicProofAssumption`);
- *nothing is not something:* the values that stand for "nothing here" are none of the real ones (`IdleAssumption`, `OutcomeAssumption`,
  `MarkAssumption`, `NoRowAssumption`, `NoRecordAssumption`, `NoneAssumption`, `NoTenantAssumption`, `NothingAssumption`).

Only model-checked: the four liveness properties, `SettlesUnlessOrphaned`, `Settles`, `RunEnds` and `QueueSettles`. TLAPS here proves no liveness, no
`ENABLED` and no induction over data; it proves nothing in modules with `RECURSIVE` operators, of which there are none.
The mutants, which show that a property can fail, are TLC's as well.

## Where the code and its documents disagree

One is a run that ends with a counterexample:

| Run | The document | The code |
|---|---|---|
| `revoked_stays_revoked` | `tests/integration/operations-lifecycle-correction.test.ts:74`: a revoked credential cannot be restored by operator action | a decision in flight during the revocation writes its older copy back, lifecycle active |

The others were met while modelling; the lines alone, or a few steps, show them. `SQL` is the R3 migration.

| The document | The code |
|---|---|
| `src/operations/corrections.ts:45`: an open correction blocks mark use | line 44: the mark is denied only if the credential is issued at that moment; one rejected, put under correction and approved again shows its seal while the correction is open |
| `docs/SECURITY_AUTHORITY_PLANE.md:22`: two conflict clearances | SQL:749: only a clearance that is not clear blocks; none at all passes |
| SQL:1148, comment: a transition updates everything atomically | SQL:1214: the workflow's check constraint has no state for some of the targets, so these transitions always abort |
| `docs/RECOVERY_RUNBOOK.md:22`: never a second payload under one credential id | SQL:1194 and 908: a correction replaces the payload and leaves digest and signature; the next finalization publishes it |
| SQL:1425, comment: atomic leasing and dead-letter custody | SQL:1463: nothing takes up a row whose invocation ended; the lease has no end |
| `docs/PHASE_4_OPERATIONAL_SYSTEM_CONTRACT.md:89`: unsynchronized work is never represented as submitted | `src/operations/useOperationsStore.ts:1000`: submission waits for queued operations only; refused ones are then shown as submitted |
| the same contract, line 57: tenant duplicate-serial rejection | `src/app/api/v1/operations/assets/[assetId]/route.ts:16`: a serial can be edited while the unit's identity keeps the first one, so two units of a tenant may carry one serial |
| `AuthenticatedProductShell.tsx:121-122`: server sign-out could not be confirmed, retry it | `src/app/api/v1/auth/sign-out/route.ts:26`: the provider is asked only when the access cookie is there; after it expired, or on the retry after a failed attempt that cleared the cookies, success is reported and the provider's session lives on |
| `AuthoritySignInAccess.tsx:152`: choose one organization, credentials are revalidated with that selection | `src/operations/http.ts:109`: the choice travels as a hint, and `derive_tenant_context` (`20260725050000_*.sql:541-565`) never selects by its hint: without a claim in the session it stays ambiguous, and whichever organization is picked is refused |
| `20260725050000_*.sql:76-88` gives roles the row (`tenant_resource`, `read`) | the session routes ask for type `tenant` and action `tenant_resource/read` (`auth/session/route.ts:11`): with the migration's rows alone every member's read is refused. `auth_session` therefore uses the rows the routes ask for |

## What is not modelled

In the modelled parts: audit events, fields of batches, units and cases no property tells apart, tenants in `ReviewRoutes` (every
handler looks its records up by tenant first; `Intake` has them), hash chains beyond the order of their
entries, signatures and secrets, quotas, the wording of reasons. A failing save is modelled in the
sync route and in `Intake`; in `ReviewRoutes` it is left out, because the repository keeps the change in memory
(`src/operations/runtime.ts:31`) and the request fails, which to the next request
is the same as a success whose answer was lost. The gates' five evidence
rules are the tier they give.

*Lifecycle transitions that cannot commit.* `LifecycleAborted` leaves them undone: as the check constraint of the workflow is written (R3 migration, line 1214), a
transition to a state it does not list violates it, and everything before it in the function is rolled back.

*Authority switched off later.* Controls, clearances and approvals are read once, at preparation; `Issuance` models that and judges nothing about it.

*Signed-in browser.* The service behind `/api/v1/organization`, which is not in the repository: the settings commands are answered anything. The audit rows of `authorize_and_audit`, workload actors, and the administrator's own authority inside
`set_membership_authority`. That two administrators may demote each other is listed as a hazard without a property.

*Intake.* A unit's lot and the fields of a synchronized record other than its links.

*Workspace.* The indicator that `addEvidenceFile` sets and its own catch settles (`useOperationsStore.ts:836-838`). `GET /operations/session` answers with no data set, in the sandbox not at all, so what `hydrateSession` would make of one never
happens; `selectSession` and `setOnline` have no caller in the pages, and are modelled as what the store offers. The standalone build's "Reset
deterministic data" and the dashboards are left out. A reloaded tab is a new tab: `loadOfflineSnapshot` has no caller, so what it had not
synchronized is gone (`useOperationsStore.ts:1113`), although the Phase 4 contract lists restart recovery.

*Public proof.* The remote service, what the deterministic service answers about registry and continuity besides a verification, the selection of an evidence item or claim, which only highlights, and `projectionParity`, which
reports a disagreement over the issued tier of a credential that was never issued (`null` against `undefined`); only chapters rendered by tests show it.

*Scenes.* What a constructor that throws halfway leaves behind: a construction happens or does not. Geometry, materials and the optical state; the hero (`SpatialEnvironment`).

Not modelled at all: read-only projections (labels, status),
presentation, single-row
commands without a protocol (licences, launch gates, sandboxes, inquiries), the freshness run
(its inputs are written outside the repository), batch commands (their executor is),
superseded migrations, SDKs, scripts and infrastructure. The rest of the table
of components is planned.

## Plan

Order: what decides about a credential first, then what carries the decision out, then who may do what, then what the public sees.

1. `ReviewCase`, `ReviewRoutes` with their proofs. *Done.*
2. `CredentialAuthority`, `Issuance`, the refinement and its proof. *Done.*
3. `WebhookDelivery` with its proofs. *Done.*
4. `OfflineSync` with its proofs. *Done.*
5. `Intake` and `Workspace`: the routes and the tab around the review core. *Done.*
6. `RequestAuthority`, `AuthSession`. *Done.*
7. `IdempotentOperation` with its proofs. *Done.*
8. `PublicProof` with its proofs, `IdentityScenes`. *Done.*
9. Proofs for `Intake`, `Workspace`, `AuthSession`, `IdentityScenes`, and of the properties
   that needed a strengthening of their own (`SeesWhatItReplaces`, `OnceUndisturbed`, `ConsequencesAgree`). *Done.*
10. Membership authority of two administrators: `set_membership_authority` locks its target and
    reads the caller's authority unlocked. Question: can the last manager of a tenant be lost.
11. Notification queue and audit exports: the two sibling queues, with the provider's
    idempotency key per attempt, and with dual control and a revocation during the build.
12. Reviewer assignment: the stages of one case through two governed parties, the workload limit.
13. Media custody: the graph of states, replacement against concurrent moves.

A counterexample is kept as a run where it takes an interleaving to see it; what a line shows by itself is described above.
