# vc-api in TLA+

A model of the vc-api server (`apps/vc-api`), model-checked with TLC and proved
about with TLAPS. Paths below are relative to `apps/vc-api/src`, where nothing
else is said.

## The system

vc-api is a NestJS server over a SQLite database (TypeORM) and an Askar wallet
(Credo). Holders of verifiable credentials run *exchanges* with it: they are
given a VP request with a challenge, submit a verifiable presentation that
answers it, and may be given a presentation with credentials in return. Issuers
and other back ends define exchanges and workflows, are told of submissions by
callbacks and review them.

| Component | State | Operations | Interacts with |
|---|---|---|---|
| Submission verification (`vc-api/*/vp-submission-verifier.service.ts`) | none | verdict on a presentation for a VP request | called by exchanges and workflows, calls Credentials |
| Exchanges v1 (`vc-api/exchanges`) | tables `exchange`, `transaction`, `vp_request`, `presentation_submission`, `presentation_review` | create, start, continue (PUT, POST), review, reads | holders, reviewers, callback endpoints, verifier |
| Workflows (`vc-api/workflows`) | tables `workflow`, `wf_exchange` (all steps in one JSON column) | create workflow, create exchange, participate, review, reads | the same |
| Keys (`key`) | Askar wallet | import, generate, export | Credo |
| DIDs (`did`, `libraries/did`) | DIDs in the wallet's store; `did_document` (did:ethr only) | generate, register, resolve | Keys, Credo |
| Seeder and start-up (`seeder`, `main.ts`) | where the loop over the fixtures is | seed | Keys, DIDs |
| Credentials (`vc-api/credentials`) | none | issue, verify, assemble, prove, authenticate | DIDs, Credo; asked by the verifiers |
| Exception filter (`exception-filters`) | none | a holder mismatch becomes a 403 | exchanges v1 |
| DTO validators, HTTP logger, configuration | none | - | - |

What makes it hard:

- **Interleavings.** Node.js runs one handler at a time and switches at every
  `await`. Each handler loads an entity, awaits verification, and saves the whole
  entity. No row is locked or versioned, no transaction spans the two, so the
  saved entity may be stale.
- **Check then create.** Exchange ids, workflow ids and keys are looked up and
  inserted in two calls.
- **Crashes.** The database and the wallet survive, requests and callbacks in
  flight do not. The server listens before it seeds its fixtures, so clients and
  the seeder race, and a lost race stops the process.
- **Callbacks** are posted without retry, after the save, in any order; nothing
  notes that they are due. Holders learn an outcome only by posting again.
- **Sequences of legal calls** nobody had in mind: reviewing before a submission,
  restarting a one-time exchange, submitting to a completed exchange, workflows
  that loop or name steps that do not exist.

`PROJECT.json` lists these hazards at their lines with the properties that cover
them. Four have none: two creations of one exchange id that race, a submitter without
a name who polls, a workflow callback lost in a crash, and two `save()` calls that mix
their columns. For a submission, a review, a step or a workflow lost in a race, the
properties listed say that it does not happen without a race, and the theorems that
nothing but overlapping requests causes it. The notes there say why no more is asked.

What makes each component correct:

- verifier: no error exactly for presentations that answer the request;
- exchanges: one holder, one challenge, one VP request per transaction; reviews
  go forward and are about a submission; answers and callbacks say what was
  decided and saved; who submits and keeps polling learns the outcome;
- workflows: an exchange walks a path of its workflow, forward, completing
  queries only by answers to their own challenge; what is delivered was reviewed;
  nothing keeps a walk from its end if both sides go on;
- credentials with exchanges: what is accepted rests on genuine credentials;
- keys, DIDs, seeder: what was acknowledged is stored, each DID has its key, the
  fixtures end up registered whatever happens meanwhile.

## Modules

| Module | Models |
|---|---|
| `VpSubmissionVerifier` | both copies of `VpSubmissionVerifierService`: the verdict, and `Answers`, what it promises |
| `VpSubmissionVerifierProofs` | the verdict keeps its promise |
| `ExchangeService` | the v1 exchanges, extends the verifier |
| `ExchangeServiceProofs` | inductive invariant and six safety theorems |
| `TransactionLifecycle` | abstract: what the v1 exchanges promise of a transaction |
| `ExchangeRefinement` | the refinement mapping from `ExchangeService` to it |
| `ExchangeRefinementProofs` | what holds when requests do not race: three safety theorems and the refinement |
| `MCExchangeService` | small instances of `ExchangeRefinement`: definitions, submissions, symmetry |
| `WorkflowService` | the workflows, extends the verifier |
| `WorkflowServiceProofs` | inductive invariant and five safety theorems |
| `WorkflowWalk` | abstract: what the workflows promise of an exchange |
| `WorkflowRefinement` | the refinement mapping from `WorkflowService` to it |
| `WorkflowRefinementProofs` | what holds when requests do not race: two safety theorems and the refinement |
| `MCWorkflowService` | small instances of `WorkflowRefinement`: five shapes of workflow, submissions, symmetry |
| `KeyService` | keys, did:key, seeder, start-up |
| `KeyServiceProofs` | inductive invariant and four safety theorems |
| `MCKeyService` | a small instance |
| `CredentialsService` | issuing, verifying, assembling and proving, extends the verifier |
| `VcApi` | the server end to end: composes `ExchangeService`, `KeyService` and `CredentialsService` |
| `VcApiProofs` | inductive invariant of the composed server and three safety theorems |
| `MCVcApi` | a small instance of it |

`VcApi` extends `ExchangeService` and instantiates the other two; they share the
process, so that a crash ends the requests of all, and `KeyService` and
`CredentialsService` share the wallet. It takes the presentations holders submit
from what the server has proved, where `ExchangeService` alone takes any.

### Grain

A handler is cut at its database accesses. A *Load* action puts the entity into
`requests[r]` (one slot per request in flight), a later action applies what the
handler does in memory and saves. Verification reads no row, so it belongs to the
step after it. `Crash` empties the slots and the callbacks and keeps the tables;
since only requests and callbacks are volatile, a crash is a stop and the next
start in one step. `RefuseCall` stands for the calls that are refused before they
have changed anything; `HolderForbidden` is the one the exception filter turns into
a 403.

### ExchangeService

| Code | Action |
|---|---|
| `createExchange` | `CreateExchangeCheck`, `CreateExchangeSave` |
| `startExchange`, `ExchangeEntity.start` | `StartExchangeLoad`, `StartExchangeSave` |
| `continueExchange` up to the load, and the holder check, which runs before the first `await` | `ContinueExchangeLoad` |
| verification errors; no service | `RefusePresentation` |
| `processPresentation` and `save`, one action per branch | `ProcessUnmediated`, `ProcessPendingSubmission`, `ProcessPendingReview`, `ProcessReviewed` |
| validation of the callback body, the POSTs, the response | `Respond`, `RespondFailure`, `CallbackDone` |
| `addReview` | `ReviewLoad`, `ReviewSave` |

`transactions` holds a transaction with its VP request and submission;
`reviews` is the review table, keyed by the challenge drawn together with the
review's id, because a restarted one-time exchange gets a new review row.
`SaveTransaction` models TypeORM: every property of the entity is written, one
that is `undefined` is not, a `null` is. A reviewer can send both: `ReviewLoad` takes a
`vp` that is a presentation, left out (`Undefined`) or JSON `null` (`None`), which
`@IsOptional()` lets through. An approval with `null` withdraws what an earlier approval
attached, one that leaves `vp` out does not; `ReviewNeverGoesBack` says exactly that, by
tying each change of a stored presentation to the approval that is saved. `vpRequests` remembers what each
challenge was drawn for (uuids are never drawn twice). `submitted`, `reviewed`
and `answered` are history.

### WorkflowService

| Code | Action |
|---|---|
| `createWorkflow` | `CreateWorkflowCheck`, `CreateWorkflowSave`, `CreateWorkflowConflict`, `ConflictAnswered` |
| `createExchange` | `CreateExchange` (nobody knows the exchange before its save) |
| `participateInExchange` with an empty body | `ParticipateEmpty` |
| with a presentation | `ParticipateLoad`, `ParticipateFailure`, `ParticipateProcess`, `ParticipateSave`, `Respond`, `CallbackDone` |
| `addReview` | `ReviewLoad`, `ReviewSave` |
| `getExchangeStep` | `GetExchangeStep`, which hands out the step's presentation |
| `getExchangeState` | the operator `GetExchangeState` |

An exchange is a record with a sequence of steps, as in its JSON column. Both
saves replace it whole. `Elsewhere` are challenges other services draw:
presentations bear them too.

### KeyService

| Code | Action |
|---|---|
| `importKey`, key found | `ImportExistingKey` |
| `importKey`, `saveNewKey` | `ImportNewKey`, `SaveNewKey`, `SaveNewKeyFailure` |
| `exportKey` | `ExportKey`; `ImportExportedKey` imports the result |
| `generateKeyDID` | `GenerateKey`, `RegisterGeneratedKey` |
| `registerKeyDID` | `RegisterKeyDID` |
| `SeederService.seed` | `SeedImport`, `SeedSave`, `SeedRegister` |
| unhandled rejection of `bootstrap()` | `SeedFailure` |

A private key is named by the public key it derives, which is all `saveNewKey`
asks about it.

### TransactionLifecycle and its mapping

A transaction is `absent`, `waiting`, `submitted`, `approved` or `rejected`; it has
the parties who submitted (none or one), an offer and the outcomes told. A restart
of a one-time exchange is `Begin` again, for the same party. A reviewer may decide
before a submission and may decide again: the code lets him, and the abstract
module says so. An approval makes an offer, leaves the one there is or withdraws it;
a rejection, a submission and telling the outcome leave it alone. `ExchangeRefinement` reads the stage off the rows: off the review
where there is one, else off whether the submission bears the current challenge.

### WorkflowWalk and its mapping

An exchange has a workflow, the trail of step names it came by, and whether the
last of them is complete and the walk over. `Begin` is `createExchange`; `GoOn` is a
save, of an answered query (which moves on, or ends the walk where the workflow
defines no next step), of a reviewed issuance (which stays), or of the holder coming
back after the review (which moves on or ends). `Define` is the creation of a
workflow, which then does not change. `WorkflowRefinement` reads all of that off the
row of the exchange; tables, challenges, presentations and requests in flight are
gone. A save that moves nothing, such as a second review, is a stutter.

### CredentialsService and VcApi

| Code | Definition |
|---|---|
| `issueCredential`, `getVerificationMethodForDid` | `IssueCredential`, `VerificationMethodForDid` |
| `verifyCredential` | `VerifyCredential` |
| `presentationFrom` | `PresentationsFrom` |
| `provePresentation` | `ProvePresentation`, whose verdict is `Verifies` |
| `didAuthenticate` | `DidAuthenticate` |
| the routes of `vc-api.controller.ts` | `Issue`, `Prove`, `Define`, `Start`, `Submit`, `Review`, `GetTransaction` |

The service stores nothing: `credentials` and `presentations` are what clients have
been handed, and each operation is one action. Credo is external: it signs with the
key the wallet has for the method the options name, whatever the holder field
says; a presentation verifies when it was signed for authentication and all its
credentials verify; what it makes of another purpose is left open.
The options' verification method is mandatory in the DTO, so that the branch that
looks one up for the holder is dead.

### Abstractions

A presentation is its holder, challenge, whether its proof verifies and which
presentation definitions it satisfies. Issued presentations, ids, challenges and
endpoints are model values. The interact services of an exchange are the type of
the first, the only one the code reads. Callbacks are a set: two identical bodies
to one endpoint are one. A submission's verification result is the challenge it
was verified against. A holder that a client sends as JSON `null` rather than
leaving it out is not told apart from an absent one. The `vp` of a review is (see
above), except in the workflows, where the code only asks whether a presentation is
there, so that one value stands for both.

One `save()` is one atomic write of the whole entity. This idealises TypeORM, which
reads the row again, compares and writes the columns that differ, over several
`await`s: two saves that overlap can mix, say, the `steps` of one with the `state` of
the other. What the runs and theorems with several requests say is about stale
entities, overwritten rows and every order of loads and saves, but not about such
mixtures. `OnlyCurrentStepIncomplete` in particular, checked in `workflow_concurrent`
and proved as `OnlyCurrentStepsIncomplete`, could be broken by one: `steps` with an open
step from a stale copy and `state` completed from another request. The same holds of
the rows `PendingReviewHasSubmission` relates. Where requests do not overlap, the
idealisation makes no difference.

## Runs

Invariants, action properties and the refinement hold without fairness. Deadlock is
checked in every run, but says little: in the exchanges and workflows a call that is
refused (`RefuseCall`) is a step of nearly every state, as a server that only ever
answers errors is not stuck. That the server gets somewhere is what the liveness
properties say.

| Run | Instance | Shows |
|---|---|---|
| `exchange_serial` | 1 request, 1 exchange, 2 transactions, 2 challenges, 2 holders, all kinds of definition; 1.04M states | with no race: types; `ChallengeBindsTransaction` (also proved for races); `OneHolderPerTransaction`; `ExchangeNotReplaced`; `ReviewNeverGoesBack`, for reviews with a presentation, with `null` and without; `ImplementsLifecycle`: the handlers implement the abstract life cycle |
| `exchange_concurrent` | 2 requests, one-time mediated exchange, 2 challenges; 833k states | stale saves and restarts: `PendingReviewHasSubmission`, `AnswerWasReviewed` |
| `exchange_two_holders` | 2 requests, 2 holders, 1 transaction; 584k states | `CallbackReportsSavedSubmission`, `AnsweredHolderSubmitted` although two holders race |
| `workflow_serial` | 1 request, 5 shapes of workflow, at most 3 steps; 17k states | types, `StepsFollowWorkflow`, `CallbackReportsSavedSubmission`, `ExchangeNeverRollsBack`, `WalkCompletes`; `ImplementsWalk`: each save is one legal step of the workflow or none |
| `workflow_concurrent` | 2 requests, 2 shapes, 2 steps; 2.3M states | `OnlyCurrentStepIncomplete`, `CompleteQueryWasAnswered`, `DeliveredVpWasReviewed` although saves overwrite each other |
| `key_seeding` | 2 requests, 2 fixtures, 2 more keys, 1 crash; 34k states | types, `AcknowledgedKeyIsStored`, `RegisteredDidHasKey`, `PassedFixturesAreSeeded`, `SeedCompletes` |
| `end_to_end` | 1 exchange request, 1 key request, 1 DID, 1 transaction, at most 3 presentations, 1 crash; 226k states | types, `AcceptedCredentialIsGenuine`, `PendingSubmissionIsReported`, `SubmitterLearnsOutcome` |

and five that find what the text of the repository says violated:

| Run | Property | What happens |
|---|---|---|
| `exchange_one_time_reuse` | `OneTimeExchangeStartsOnce` | a second start of a one-time exchange does not fail but replaces the VP request |
| `exchange_holder_race` | `OneHolderPerTransaction` | two holders load the transaction, both save |
| `exchange_lost_review` | `ReviewNeverGoesBack` | a stale submission overwrites a decision |
| `workflow_optional_id` | `IdIsOptional` | leaving out the id is a conflict once a workflow exists |
| `workflow_rejected_vp` | `DeliveredVpWasApproved` | the presentation of a rejecting review is delivered |

`OneHolderPerTransaction` and `ReviewNeverGoesBack` hold in the serial run and
fail with two requests in flight: the races, not the handlers, break them.
`ExchangeRefinementProofs` says exactly which races.

The texts behind the last run are weaker than behind the others. No line says that a
rejected presentation is not delivered; a DTO calls the result "the judgement made by
the reviewer" and the guide speaks of reviewing and approving. The v1 exchanges leave
the presentation of a rejection out. The behaviour is as the trace shows; whether it
is meant is for the maintainers to say.

Bounds and why they are enough: `Request` has two slots where interleavings
matter, since a stale save needs the request that loaded and one that saved in
between; a third only repeats the second. Two transactions and two challenges are
what a mix-up of two needs; restarting a one-time exchange needs one transaction
and two challenges. `MaxSteps` bounds the exchanges of workflows that loop: three
steps are twice round the shortest loop. `exchange_concurrent` leaves out
callbacks, which its properties do not mention and `exchange_two_holders` has.
`workflow_concurrent` leaves out callbacks and the shapes without a second step,
on which two requests have no step to lose. `end_to_end` has one transaction and one
exchange request: the liveness properties are about one transaction's two parties,
and with overlapping requests `exchange_lost_review` already shows a decision
undone, which no poll brings back. Its three presentations are one that is not
accepted, one that is, and one offered by the reviewer; one crash can fall between
any two steps, and the properties hold from every state, hence after the last of
any number. Its only query asks for authentication, so every submitter has a name:
the dead end of an anonymous submitter, whom the holder check refuses at each poll, is
outside this instance. `WalkCompletes` says nothing for the shape that loops, whose
walks use up the challenges (`UuidsLast` fails); the other shapes carry it. Where a set of model values is interchangeable the runs use symmetry;
runs with a liveness property use none.

Fairness, and why the code justifies it:

- `WF_vars(SeedStep)` (`key_seeding`): the event loop goes on with `seed()` while the
  process runs, and a stopped server is started again. The repository leaves the
  latter to whoever deploys it, so it is an assumption.
- `WF_vars(ServerStep(r))` (`workflow_serial`), `WF_apiVars(ExchangeStep(r))`
  (`end_to_end`): the event loop goes on with a handler whose `await` is over.
- Nothing is assumed of clients. What the liveness properties need of them is their
  antecedent: a holder who keeps posting an answering presentation
  (`KeepsPolling`, `KeepsParticipating`), a reviewer who keeps reviewing
  (`KeepsReviewing`). Strong fairness, because a slot is free again and again only.
  `WalkCompletes` also has crashes stop (`CrashesStop`) and the bounded supply of
  challenges last (`UuidsLast`), since uuids do not run out.
- Callbacks have no fairness: a POST may stay in flight for ever. That
  `PendingSubmissionIsReported` is about the POST being made, not answered.

`MaxCrashes` bounds crashes without a cause; stops by a lost race are not bounded:
each leaves one more fixture in the wallet, which is why seeding completes.

## Proofs

For all values of the constants, under the `ConstantsAssumption` (and, for the
v1 exchanges, `NoneAssumption`; for `VcApi`, `ApiConstantsAssumption`) TLC evaluates in
the runs. What they say beyond the
types of the constants is that `None` and `Undefined` are not objects:

- `VerdictCorrect`: `VerifyVpRequestSubmission` reports no error iff `Answers`.
- `ExchangeServiceProofs!Invariance`: an inductive invariant of the v1 exchanges,
  from which `TypeCorrect`, `ReviewsAreOfSubmissions`, `ChallengesBind`,
  `CallbacksReportSaved`, `AnswersWereReviewed` and `AnsweredHoldersSubmitted`
  follow. The properties are not inductive by themselves because requests carry
  old copies of the tables. The invariant therefore says of every entity in
  flight what it says of the rows: its VP request is the one drawn for its
  challenge, with this transaction; its submission was saved for the transaction;
  a decided review in it (and the presentation) comes from a saved review, or, in
  a review request, is about to be saved as one. All of that only refers to things
  that grow (challenges drawn, submissions and reviews saved), so it stays true
  however stale the entity gets. A pending review keeps its submission because a
  save writes the VP request, the submission and the review of one entity
  together, and a restart, which writes no submission, starts a review of its own
  at pending_submission and leaves the stored submission where it is.
- `WorkflowServiceProofs!Invariance`: an inductive invariant of the workflows, from
  which `TypeCorrect`, `OnlyCurrentStepsIncomplete`, `CompleteQueriesWereAnswered`,
  `DeliveredVpsWereReviewed` and `CallbacksReportSaved` follow, for workflows of any
  shape and exchanges of any length. Both saves replace a whole exchange by one that
  was loaded earlier, so the invariant says of the exchange each request holds that
  it may be saved (`Saveable`): its workflow exists, only its last step may be
  incomplete, each query's challenge was drawn for this exchange, each complete
  query has a submission that answered that challenge, and each presentation was
  attached to that step by a saved review. What a review in flight adds is about to
  be saved as a review (`ReviewInv`). As for v1 all of that refers only to what
  grows (`Growing`), so one lemma (`RequestInvStays`) keeps it for the requests an
  action does not touch, and another (`SaveKeeps`) turns it into the invariant of
  the row.
- `KeyServiceProofs!Invariance`: type correctness together with the three safety
  invariants of `KeyService`; the fixtures passed need the seeder's type, the
  others are inductive as they stand because the wallet only grows.
- `VcApiProofs!ApiInvariance`: the server end to end, from which `ApiTypeCorrect`,
  `AcceptedCredentialsAreGenuine` and `ExchangesKeepPromises` follow. Its exchanges
  take presentations from the server's own `provePresentation` where
  `ExchangeService` takes any, so the step lemmas of `ExchangeServiceProofs` are
  stated for `OpenNext`, which leaves open where a presentation comes from, and used
  for both. The new part of the invariant follows a credential: a signed
  presentation carries only genuine credentials, a request in flight continues with
  a presentation somebody proved, and each saved submission answered a VP request
  whose definitions genuine credentials satisfy. It rests on the part of the
  exchanges' invariant that ties an entity's VP request to its challenge: otherwise a
  submission could be judged by one VP request and kept under another.

Some promises hold only when requests do not race, as the violation runs show. The
two refinement modules prove them for any number of concurrent requests under a
hypothesis on the clients, a state predicate assumed to hold always:

| Hypothesis | Says that no two requests |
|---|---|
| `OneRequestPerTransaction` | start, continue or review one transaction at the same time |
| `OneCreatePerExchange` | create an exchange of one id at the same time |
| `OneCreatePerWorkflow` | create a workflow of one id at the same time |
| `OneRequestPerExchange` | participate in, or review, one workflow exchange at the same time |

Requests about different transactions or exchanges, crashes, lost callbacks and
restarts still interleave freely. No line of the code establishes the hypotheses:
handlers read, await and save without a lock or a version, so they are the clients'
side of the bargain. They are not empty either: with one request slot they always
hold (`OneSlotIsSerial`), so `OneSlotKeepsPromises` and `OneSlotWalks` state the same
conclusions with no hypothesis for the instances the serial runs check.

- `ExchangeRefinementProofs`: `OneHolder`, `ExchangesAreNotReplaced`,
  `ReviewsNeverGoBack` and `LifecycleImplemented`. The strengthening (`SerialInv`)
  says that what a request holds of a transaction is what the tables say, since
  nobody else writes the row in between, and that the VP request and the review a
  start is going to save are unknown to every row. Nothing is assumed of the reviews
  clients send: `null` is among them. With it each of the four kinds of
  save is one step of `TransactionLifecycle` or a stutter, and a final answer tells
  the outcome the row has.
- `WorkflowRefinementProofs`: `ExchangesFollowWorkflows` needs `OneCreatePerWorkflow`
  only. A workflow that exists is not replaced, so that an exchange is on the path of
  its workflow (`OnPath`) stays true of old copies too, whoever saves them. For
  `ExchangesNeverRollBack` and `WalkImplemented` the invariant also says that what a
  request is about to save is what the saved exchange goes on to (`GoesOn`), by one
  legal step of the walk or none (`WalksOn`). `OnPath` had to be strengthened for the
  refinement: a complete query is the last step only of a completed exchange,
  otherwise answering it once more would be a second step of the walk.

Each proof has a lemma or a step per action; the temporal theorems combine them
with `PTL`.

Every invariant, action property and refinement that a passing run checks is stated
by a theorem. Only model-checked are the liveness properties `SeedCompletes`,
`WalkCompletes`, `PendingSubmissionIsReported` and `SubmitterLearnsOutcome`, and the
violations. Out of the prover's reach are liveness under fairness and `ENABLED`,
induction over data (what a recursive definition computes for every input) and
modules with `RECURSIVE` operators; this project declares none.

## Not modelled

- secp256k1 keys and did:ethr, whose end-to-end tests are commented out and whose
  outcome depends on what the wallet library makes of such a key, and the two tables
  only did:ethr writes;
- the shape checks of DTOs, OpenAPI, the HTTP logger, wiring and configuration: no
  state;
- the reads that return a table row unchanged (`getWorkflow`, resolving a DID). The
  read of a step, which hands out a presentation, and of a transaction, by which a
  reviewer learns that a review is due, are modelled;
- start-up in the composition: `VcApi` runs `KeyService` without fixtures, since
  seeding is `key_seeding`'s subject;
- workflows in the composition: they share the process but no row and no key with
  the v1 exchanges;
- a failing database or wallet: a rejected query ends the handler as a crash does,
  for one request.

## Plan

Done: the verifier with its theorem; the v1 exchanges with theirs, their abstract
life cycle and its refinement; the workflows, with their liveness, their abstract
walk and its refinement; keys and seeder; credentials and the server end to end.
All safety properties and both refinements are proved. Next, in this order:

1. A `save()` in two steps, reading the row and writing the columns that differ, to see
   which promises survive overlapping saves.
2. What `TransactionLifecycle` and `WorkflowWalk` promise in turn (an outcome told is
   that of a decision; a finished walk has passed only steps the workflow defines, in
   its order), proved on the abstract modules and carried over by the refinements.
3. The lemmas the proof modules of the two services have in common, stated once.
