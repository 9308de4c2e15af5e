---------------------------- MODULE WorkflowService ----------------------------
(***************************************************************************)
(* The workflows: WorkflowService, the WorkflowEntity and WfExchangeEntity *)
(* aggregates with their exchange steps, the controller routes that call   *)
(* it and the callbacks it posts.                                          *)
(*                                                                         *)
(* An exchange walks through the steps its workflow defines and keeps them *)
(* all in one JSON column, so a save, taken to be one atomic write,        *)
(* replaces the whole exchange.  As in ExchangeService a handler is cut at *)
(* its database accesses and holds the entity it loaded in between.        *)
(* createExchange is one action: nobody can know the exchange before its   *)
(* save, so reading the workflow earlier changes nothing.                  *)
(***************************************************************************)
EXTENDS Integers, SequencesExt, VpSubmissionVerifier

CONSTANTS
  Workflow,         \* ids of workflows, chosen by clients or drawn
  StepId,           \* names of steps in workflow configurations
  Exchange,         \* uuids createExchange draws
  IssuedVp,         \* presentations a reviewer can attach to a review
  Url,              \* callback endpoints
  Request,          \* slots for requests in flight: bounds the concurrency
  WorkflowConfigs,  \* the configurations clients create workflows with
  Submissions,      \* the presentations clients submit
  Elsewhere,        \* the challenges other services draw
  MaxSteps          \* bounds the exchanges of workflows that loop

ReviewResult == {"approved", "rejected"}
ExchangeState == {"pending", "active", "completed"}
StepType == {"query", "issuance"}

(* What a step's verifiablePresentationRequest asks for.  Its interact      *)
(* services are copied to the VP request and not looked at.                 *)
VpRequestDefinition == SUBSET Query

(* A step with a verifiablePresentationRequest is a query, any other is an  *)
(* issuance.                                                                *)
WorkflowStepDefinition ==
  [type : StepType, query : VpRequestDefinition, nextStep : StepId \cup {None},
   callback : SUBSET Url]

WorkflowConfig ==
  [steps : [StepId -> WorkflowStepDefinition \cup {None}], initialStep : StepId]

(* A submission keeps the presentation and its verificationResult: the      *)
(* challenge tells which VP request it was verified against.                *)
PresentationSubmission ==
  [holder : Holder \cup {None}, challenge : Challenge]

ExchangeStep ==
  [stepId : StepId, type : StepType, callback : SUBSET Url, isComplete : BOOLEAN,
   challenge : Challenge \cup {None}, query : VpRequestDefinition,
   presentationSubmission : PresentationSubmission \cup {None},
   issuedVP : IssuedVp \cup {None}]

WfExchange ==
  [workflowId : Workflow, steps : Seq(ExchangeStep), state : ExchangeState]

ASSUME ConstantsAssumption ==
  /\ WorkflowConfigs \subseteq WorkflowConfig
  /\ Submissions \subseteq Presentation
  /\ Elsewhere \subseteq Challenge
  /\ None \notin Workflow \cup StepId \cup Exchange \cup Holder \cup IssuedVp
                  \cup Challenge
  /\ None \notin WorkflowStepDefinition \cup WorkflowConfig \cup WfExchange
                  \cup PresentationSubmission
  /\ MaxSteps \in Nat

VARIABLES
  workflows,   \* workflow table
  exchanges,   \* wf_exchange table
  requests,    \* what each request in flight holds
  callbacks,   \* callback POSTs on the wire
  challenges,  \* the exchange each challenge was drawn for
  \* history, for the properties only
  submitted,   \* submissions saved
  reviewed,    \* reviews saved, those that attach a presentation
  delivered    \* presentations handed out to holders

database == <<workflows, exchanges>>
history == <<submitted, reviewed, delivered>>
vars == <<workflows, exchanges, requests, callbacks, challenges,
          submitted, reviewed, delivered>>

-------------------------------------------------------------------------------
Idle == [op |-> "idle"]

RequestState ==
  {Idle}
    \cup [op : {"createWorkflow"}, workflowId : Workflow, config : WorkflowConfig]
    \cup [op : {"conflict"}, workflowId : Workflow \cup {None}]
    \cup [op : {"participate"}, exchangeId : Exchange, exchange : WfExchange,
          presentation : Presentation]
    \cup [op : {"save", "respond"}, exchangeId : Exchange, exchange : WfExchange,
          stepId : StepId]
    \cup [op : {"review"}, exchangeId : Exchange, exchange : WfExchange,
          stepId : StepId, result : ReviewResult, vp : IssuedVp \cup {None}]

Submitted ==
  [exchangeId : Exchange, stepId : StepId, submission : PresentationSubmission]

Callback ==
  [url : Url, exchangeId : Exchange, stepId : StepId,
   presentationSubmission : PresentationSubmission \cup {None}]

TypeOK ==
  /\ workflows \in [Workflow -> WorkflowConfig \cup {None}]
  /\ exchanges \in [Exchange -> WfExchange \cup {None}]
  /\ requests \in [Request -> RequestState]
  /\ callbacks \subseteq Callback
  /\ challenges \in [Challenge -> Exchange \cup {None}]
  /\ submitted \subseteq Submitted
  /\ reviewed \subseteq [exchangeId : Exchange, stepId : StepId,
                         result : ReviewResult, vp : IssuedVp]
  /\ delivered \subseteq [exchangeId : Exchange, stepId : StepId, vp : IssuedVp]

Init ==
  /\ workflows = [w \in Workflow |-> None]
  /\ exchanges = [e \in Exchange |-> None]
  /\ requests = [r \in Request |-> Idle]
  /\ callbacks = {}
  /\ challenges = [c \in Challenge |-> None]
  /\ submitted = {}
  /\ reviewed = {}
  /\ delivered = {}

Answer(r) == requests' = [requests EXCEPT ![r] = Idle]

-------------------------------------------------------------------------------
(* POST /workflows                                                          *)

(* findOneBy with an undefined workflowId has no condition left, and finds  *)
(* any workflow there is.                                                   *)
WorkflowFound(id) ==
  \E w \in Workflow : workflows[w] # None /\ id \in {w, None}

DrawnWorkflowIds ==
  {w \in Workflow :
     /\ workflows[w] = None
     /\ \A r \in Request :
          requests[r].op = "createWorkflow" => requests[r].workflowId # w}

CreateWorkflowCheck(r, id, config) ==
  /\ requests[r] = Idle
  /\ ~WorkflowFound(id)
  /\ \E w \in IF id = None THEN DrawnWorkflowIds ELSE {id} :
       requests' = [requests EXCEPT ![r] =
                      [op |-> "createWorkflow", workflowId |-> w,
                       config |-> config]]
  /\ UNCHANGED <<database, callbacks, challenges, history>>

CreateWorkflowConflict(r, id) ==
  /\ requests[r] = Idle
  /\ WorkflowFound(id)
  /\ requests' = [requests EXCEPT ![r] = [op |-> "conflict", workflowId |-> id]]
  /\ UNCHANGED <<database, callbacks, challenges, history>>

ConflictAnswered(r) ==
  /\ requests[r].op = "conflict"
  /\ Answer(r)
  /\ UNCHANGED <<database, callbacks, challenges, history>>

CreateWorkflowSave(r) ==
  /\ requests[r].op = "createWorkflow"
  /\ workflows' = [workflows EXCEPT ![requests[r].workflowId] = requests[r].config]
  /\ Answer(r)
  /\ UNCHANGED <<exchanges, callbacks, challenges, history>>

-------------------------------------------------------------------------------
(* The steps of an exchange.                                                *)

(* hydrateExchangeStep; challenge is the uuid drawn for a query.            *)
HydratedStep(definition, stepId, challenge) ==
  [stepId |-> stepId, type |-> definition.type, callback |-> definition.callback,
   isComplete |-> FALSE, challenge |-> challenge, query |-> definition.query,
   presentationSubmission |-> None, issuedVP |-> None]

StepChallenges(definition) ==
  IF definition # None /\ definition.type = "query"
  THEN {c \in Challenge \ Elsewhere : challenges[c] = None} ELSE {None}

DrawChallenge(challenge, e) ==
  challenges' = [c \in Challenge |-> IF c = challenge THEN e ELSE challenges[c]]

(* getStep finds the first step of that name.                               *)
StepIndex(steps, stepId) ==
  SelectInSeq(steps, LAMBDA step : step.stepId = stepId)

NewSubmission(presentation) ==
  [holder |-> presentation.holder, challenge |-> presentation.challenge]

(* Mutation: verified against the challenge the presentation itself bears.  *)
AcceptedForOwnChallenge(step, presentation) ==
  step.type = "query" =>
    VerifyVpRequestSubmission(
      presentation, [step EXCEPT !.challenge = presentation.challenge]) = {}

Accepted(step, presentation) ==
  step.type = "query" => VerifyVpRequestSubmission(presentation, step) = {}

(* Mutation: an issuance step is completed by a presentation, too.          *)
ProcessedAlways(step, presentation) ==
  [step EXCEPT !.presentationSubmission = NewSubmission(presentation),
               !.isComplete = TRUE]

(* processPresentation: an accepted presentation completes a query step;    *)
(* an issuance step takes no notice of it.                                  *)
Processed(step, presentation) ==
  IF step.type = "query"
  THEN [step EXCEPT !.presentationSubmission = NewSubmission(presentation),
                    !.isComplete = TRUE]
  ELSE step

(* The definition the workflow has for the next step; None also when        *)
(* nextStep names a step that is not defined.                               *)
NextStepDefinition(config, stepId) ==
  IF config.steps[stepId].nextStep = None THEN None
  ELSE config.steps[config.steps[stepId].nextStep]

(* Mutation: the next step comes whether or not the current one is done.    *)
NextStepsAnyway(step, definition, nextStep, challenge) ==
  IF definition # None
  THEN <<HydratedStep(definition, nextStep, challenge)>> ELSE <<>>

(* Mutation: the next step is given the name of the step before it.         *)
NextStepsMisnamed(step, definition, nextStep, challenge) ==
  IF step.isComplete /\ definition # None
  THEN <<HydratedStep(definition, step.stepId, challenge)>> ELSE <<>>

NextSteps(step, definition, nextStep, challenge) ==
  IF step.isComplete /\ definition # None
  THEN <<HydratedStep(definition, nextStep, challenge)>> ELSE <<>>

(* The exchange with its current step replaced and, once that is complete,  *)
(* the next one appended, or the exchange completed when there is none.     *)
Advanced(exchange, step, definition, nextStep, challenge) ==
  [exchange EXCEPT
     !.steps = ReplaceAt(@, Len(@), step)
                 \o NextSteps(step, definition, nextStep, challenge),
     !.state = IF step.isComplete /\ definition = None
               THEN "completed" ELSE "active"]

(* Mutation: an issuance step that has no presentation yet hands out that.  *)
DeliveredAlways(e, exchange) ==
  {[exchangeId |-> e, stepId |-> step.stepId, vp |-> step.issuedVP] :
     step \in {s \in {Last(exchange.steps)} : s.type = "issuance"}}

(* Mutation: a presentation left on an earlier step is handed out again.    *)
DeliveredOfAnyStep(e, exchange) ==
  {[exchangeId |-> e, stepId |-> Last(exchange.steps).stepId,
    vp |-> step.issuedVP] :
     step \in {s \in ToSet(exchange.steps) : s.issuedVP # None}}

(* getStepResponse: the presentation the response for a step carries, if    *)
(* any.  Without one it is a VP request or a URL to poll.                   *)
StepResponse(e, step) ==
  {[exchangeId |-> e, stepId |-> step.stepId, vp |-> vp] :
     vp \in {step.issuedVP} \ {None}}

DeliveredBy(e, exchange) == StepResponse(e, Last(exchange.steps))

-------------------------------------------------------------------------------
(* POST /workflows/:localWorkflowId/exchanges                               *)

CreateExchange(w, e) ==
  /\ workflows[w] # None
  /\ exchanges[e] = None
  /\ \A c \in Challenge : challenges[c] # e
  /\ LET stepId == workflows[w].initialStep
         definition == workflows[w].steps[stepId]
     IN \E c \in StepChallenges(definition) :
          /\ exchanges' =
               [exchanges EXCEPT ![e] =
                  [workflowId |-> w, state |-> "pending",
                   steps |-> IF definition = None THEN <<>>
                             ELSE <<HydratedStep(definition, stepId, c)>>]]
          /\ DrawChallenge(c, e)
  /\ UNCHANGED <<workflows, requests, callbacks, history>>

-------------------------------------------------------------------------------
(* POST /workflows/:localWorkflowId/exchanges/:localExchangeId              *)

(* An empty body asks what the current step expects or has to offer.        *)
ParticipateEmpty(e) ==
  /\ exchanges[e] # None
  /\ exchanges[e].steps # <<>>
  /\ delivered' = delivered \cup DeliveredBy(e, exchanges[e])
  /\ UNCHANGED <<database, requests, callbacks, challenges,
                 submitted, reviewed>>

ParticipateLoad(r, e, presentation) ==
  /\ requests[r] = Idle
  /\ exchanges[e] # None
  /\ \/ challenges[presentation.challenge] # None
     \/ presentation.challenge \in Elsewhere
  /\ requests' = [requests EXCEPT ![r] =
                    [op |-> "participate", exchangeId |-> e,
                     exchange |-> exchanges[e], presentation |-> presentation]]
  /\ UNCHANGED <<database, callbacks, challenges, history>>

(* The exchange has a current step, and the workflow still defines it.      *)
HasCurrentStep(exchange) ==
  /\ exchange.steps # <<>>
  /\ workflows[exchange.workflowId].steps[Last(exchange.steps).stepId] # None

(* No current step (500), or verification reports errors (400).             *)
ParticipateFailure(r) ==
  LET exchange == requests[r].exchange
  IN /\ requests[r].op = "participate"
     /\ HasCurrentStep(exchange) =>
          ~Accepted(Last(exchange.steps), requests[r].presentation)
     /\ Answer(r)
     /\ UNCHANGED <<database, callbacks, challenges, history>>

ParticipateProcess(r) ==
  LET request == requests[r]
      exchange == request.exchange
      config == workflows[exchange.workflowId]
      current == Last(exchange.steps)
      definition == NextStepDefinition(config, current.stepId)
      nextStep == config.steps[current.stepId].nextStep
      step == Processed(current, request.presentation)
  IN /\ request.op = "participate"
     /\ HasCurrentStep(exchange)
     /\ Accepted(current, request.presentation)
     /\ Len(exchange.steps) < MaxSteps \/ ~step.isComplete \/ definition = None
     /\ \E c \in IF step.isComplete THEN StepChallenges(definition) ELSE {None} :
          /\ requests' =
               [requests EXCEPT ![r] =
                  [op |-> "save", exchangeId |-> request.exchangeId,
                   exchange |-> Advanced(exchange, step, definition, nextStep, c),
                   stepId |-> current.stepId]]
          /\ DrawChallenge(c, request.exchangeId)
     /\ UNCHANGED <<database, callbacks, history>>

(* The submissions an exchange keeps.                                       *)
SubmissionsOf(e, exchange) ==
  {[exchangeId |-> e, stepId |-> step.stepId,
    submission |-> step.presentationSubmission] :
     step \in {s \in ToSet(exchange.steps) : s.presentationSubmission # None}}

ParticipateSave(r) ==
  LET request == requests[r]
  IN /\ request.op = "save"
     /\ exchanges' = [exchanges EXCEPT ![request.exchangeId] = request.exchange]
     /\ requests' = [requests EXCEPT ![r].op = "respond"]
     /\ submitted' = submitted \cup SubmissionsOf(request.exchangeId, request.exchange)
     /\ UNCHANGED <<workflows, callbacks, challenges,
                    reviewed, delivered>>

(* Mutation: the body names the step the exchange has moved on to.          *)
CallbackBodyOfNextStep(request, url) ==
  [url |-> url, exchangeId |-> request.exchangeId,
   stepId |-> Last(request.exchange.steps).stepId,
   presentationSubmission |->
     request.exchange.steps[StepIndex(request.exchange.steps, request.stepId)]
       .presentationSubmission]

(* The callback body is made from the step the presentation was for.        *)
CallbackBody(request, url) ==
  [url |-> url, exchangeId |-> request.exchangeId, stepId |-> request.stepId,
   presentationSubmission |->
     request.exchange.steps[StepIndex(request.exchange.steps, request.stepId)]
       .presentationSubmission]

Respond(r) ==
  LET request == requests[r]
      steps == request.exchange.steps
  IN /\ request.op = "respond"
     /\ callbacks' = callbacks \cup
          {CallbackBody(request, url) :
             url \in steps[StepIndex(steps, request.stepId)].callback}
     /\ delivered' = delivered \cup DeliveredBy(request.exchangeId, request.exchange)
     /\ Answer(r)
     /\ UNCHANGED <<database, challenges, submitted, reviewed>>

(* A callback POST succeeds or fails; the service only logs which.          *)
CallbackDone(c) ==
  /\ c \in callbacks
  /\ callbacks' = callbacks \ {c}
  /\ UNCHANGED <<database, requests, challenges, history>>

-------------------------------------------------------------------------------
(* GET /workflows/:localWorkflowId/exchanges/:localExchangeId and .../steps *)

GetExchangeState(exchange) ==
  [step |-> Last(exchange.steps).stepId, state |-> exchange.state]

(* Reading a step, current or not, hands out what its response carries.     *)
GetExchangeStep(e, stepId) ==
  LET steps == exchanges[e].steps
  IN /\ exchanges[e] # None
     /\ StepIndex(steps, stepId) # 0
     /\ delivered' =
          delivered \cup StepResponse(e, steps[StepIndex(steps, stepId)])
     /\ UNCHANGED <<database, requests, callbacks, challenges,
                    submitted, reviewed>>

-------------------------------------------------------------------------------
(* POST .../exchanges/:localExchangeId/steps/:localStepId/review            *)

(* Mutation: a rejection opens the step again.                              *)
AddVpReopens(step, result, vp) ==
  [step EXCEPT !.issuedVP = vp, !.isComplete = (result = "approved")]

(* addVP: the step is complete whatever the result of the review, and has   *)
(* the presentation given with it, or none any more.                        *)
AddVp(step, result, vp) == [step EXCEPT !.issuedVP = vp, !.isComplete = TRUE]

IsIssuanceStep(exchange, stepId) ==
  LET i == StepIndex(exchange.steps, stepId)
  IN i # 0 /\ exchange.steps[i].type = "issuance"

ReviewLoad(r, e, stepId, result, vp) ==
  /\ requests[r] = Idle
  /\ exchanges[e] # None
  /\ IsIssuanceStep(exchanges[e], stepId)
  /\ LET i == StepIndex(exchanges[e].steps, stepId)
     IN requests' =
          [requests EXCEPT ![r] =
             [op |-> "review", exchangeId |-> e, stepId |-> stepId,
              result |-> result, vp |-> vp,
              exchange |-> [exchanges[e] EXCEPT
                              !.steps[i] = AddVp(@, result, vp)]]]
  /\ UNCHANGED <<database, callbacks, challenges, history>>

ReviewSave(r) ==
  LET request == requests[r]
  IN /\ request.op = "review"
     /\ exchanges' = [exchanges EXCEPT ![request.exchangeId] = request.exchange]
     /\ reviewed' = reviewed \cup
          {[exchangeId |-> request.exchangeId, stepId |-> request.stepId,
            result |-> request.result, vp |-> vp] : vp \in {request.vp} \ {None}}
     /\ Answer(r)
     /\ UNCHANGED <<workflows, callbacks, challenges,
                    submitted, delivered>>

-------------------------------------------------------------------------------
(* The process stops and is started again on its database file.             *)
Crash ==
  /\ \/ \E r \in Request : requests[r] # Idle
     \/ callbacks # {}
  /\ requests' = [r \in Request |-> Idle]
  /\ callbacks' = {}
  /\ UNCHANGED <<database, challenges, history>>

(* The other calls refused before anything has changed.                     *)
RefuseCall(r) ==
  /\ requests[r] = Idle
  /\ \/ \E w \in Workflow : workflows[w] = None         \* 404
     \/ \E e \in Exchange :
          \/ exchanges[e] = None                        \* 404
          \/ /\ exchanges[e] # None                     \* no step: 500
             /\ exchanges[e].steps = <<>>
          \/ /\ exchanges[e] # None                     \* review: 400, 500
             /\ \E stepId \in StepId : ~IsIssuanceStep(exchanges[e], stepId)
  /\ UNCHANGED vars

ClientCall(r) ==
  \/ RefuseCall(r)
  \/ \E id \in Workflow \cup {None} :
       \/ CreateWorkflowConflict(r, id)
       \/ \E config \in WorkflowConfigs : CreateWorkflowCheck(r, id, config)
  \/ \E e \in Exchange :
       \/ \E presentation \in Submissions : ParticipateLoad(r, e, presentation)
       \/ \E stepId \in StepId, result \in ReviewResult,
             vp \in IssuedVp \cup {None} : ReviewLoad(r, e, stepId, result, vp)

ServerStep(r) ==
  \/ CreateWorkflowSave(r)
  \/ ConflictAnswered(r)
  \/ ParticipateFailure(r)
  \/ ParticipateProcess(r)
  \/ ParticipateSave(r)
  \/ Respond(r)
  \/ ReviewSave(r)

Next ==
  \/ \E r \in Request : ClientCall(r) \/ ServerStep(r)
  \/ \E e \in Exchange :
       \/ ParticipateEmpty(e)
       \/ \E w \in Workflow : CreateExchange(w, e)
       \/ \E stepId \in StepId : GetExchangeStep(e, stepId)
  \/ \E c \in callbacks : CallbackDone(c)
  \/ Crash

Spec == Init /\ [][Next]_vars

(* The event loop goes on with a handler whose await is over.               *)
FairSpec == Spec /\ \A r \in Request : WF_vars(ServerStep(r))

-------------------------------------------------------------------------------
(* Properties.                                                              *)

(* An exchange never leaves a step unfinished behind: every step but the    *)
(* current one is complete, and a completed exchange has no step open,      *)
(* though atomic saves of stale copies overwrite one another.               *)
OnlyCurrentStepIncomplete ==
  \A e \in Exchange : exchanges[e] # None =>
    \A i \in DOMAIN exchanges[e].steps :
      \/ exchanges[e].steps[i].isComplete
      \/ i = Len(exchanges[e].steps) /\ exchanges[e].state # "completed"

(* A query step counts as complete only with a submission that answered     *)
(* its own challenge, and that challenge was drawn for this exchange.       *)
CompleteQueryWasAnswered ==
  \A e \in Exchange : exchanges[e] # None =>
    \A step \in ToSet(exchanges[e].steps) :
      step.type = "query" /\ step.isComplete =>
        /\ step.presentationSubmission # None
        /\ step.presentationSubmission.challenge = step.challenge
        /\ challenges[step.challenge] = e

(* The steps of an exchange are a path through its workflow from the        *)
(* initial step, and a completed exchange is at an end of the workflow.     *)
StepsFollowWorkflow ==
  \A e \in Exchange : exchanges[e] # None =>
    LET steps == exchanges[e].steps
        config == workflows[exchanges[e].workflowId]
    IN /\ steps # <<>> => steps[1].stepId = config.initialStep
       /\ \A i \in 1..Len(steps) - 1 :
            steps[i + 1].stepId = config.steps[steps[i].stepId].nextStep
       /\ exchanges[e].state = "completed" =>
            NextStepDefinition(config, Last(steps).stepId) = None

(* A presentation handed to a holder was attached to that very step of that *)
(* very exchange in a review.                                               *)
DeliveredVpWasReviewed ==
  \A d \in delivered :
    \E review \in reviewed :
      /\ review.exchangeId = d.exchangeId
      /\ review.stepId = d.stepId
      /\ review.vp = d.vp

(* A presentation handed to a holder was attached in a review that          *)
(* approved: "The judgement made by the reviewer" decides.                  *)
DeliveredVpWasApproved ==
  \A d \in delivered :
    \E review \in reviewed :
      /\ review.exchangeId = d.exchangeId
      /\ review.vp = d.vp
      /\ review.result = "approved"

(* What a callback reports was saved for that step before the POST.         *)
CallbackReportsSavedSubmission ==
  \A c \in callbacks :
    c.presentationSubmission # None =>
      [exchangeId |-> c.exchangeId, stepId |-> c.stepId,
       submission |-> c.presentationSubmission] \in submitted

(* A workflow can be created without an id: nobody is refused an id he did  *)
(* not choose.                                                              *)
IdIsOptional ==
  \A r \in Request :
    requests[r].op = "conflict" => requests[r].workflowId # None

(* An exchange never rolls back: its steps keep their names and stay        *)
(* complete, and what a client reads of a completed exchange is final.      *)
ExchangeNeverRollsBack ==
  [][\A e \in Exchange : exchanges[e] # None =>
       /\ Len(exchanges'[e].steps) >= Len(exchanges[e].steps)
       /\ \A i \in DOMAIN exchanges[e].steps :
            /\ exchanges'[e].steps[i].stepId = exchanges[e].steps[i].stepId
            /\ exchanges[e].steps[i].isComplete =>
                 exchanges'[e].steps[i].isComplete
       /\ exchanges[e].state = "completed" =>
            GetExchangeState(exchanges'[e]) = GetExchangeState(exchanges[e])]_vars

(* The holder posts, again and again, a presentation that answers the       *)
(* current step, or any one to an issuance; a reviewer reviews that step.   *)
HasSteps(e) == exchanges[e] # None /\ exchanges[e].steps # <<>>

KeepsParticipating(e) ==
  SF_vars(\E r \in Request, presentation \in Submissions :
            /\ HasSteps(e)
            /\ LET step == Last(exchanges[e].steps)
               IN step.type = "query" => Answers(presentation, step)
            /\ ParticipateLoad(r, e, presentation))

KeepsReviewing(e) ==
  SF_vars(\E r \in Request, result \in ReviewResult, vp \in IssuedVp \cup {None} :
            /\ HasSteps(e)
            /\ ReviewLoad(r, e, Last(exchanges[e].steps).stepId, result, vp))

CrashesStop == <>[][~Crash]_vars

UuidsLast == [](\E c \in Challenge \ Elsewhere : challenges[c] = None)

(* A holder and a reviewer who do not give up bring an exchange to its end: *)
(* no refused presentation, no review out of turn and no crash leaves it    *)
(* where it cannot go on.  Workflows that loop only go on.                  *)
WalkCompletes ==
  \A e \in Exchange :
    CrashesStop /\ UuidsLast /\ KeepsParticipating(e) /\ KeepsReviewing(e) =>
      (HasSteps(e) ~> /\ HasSteps(e)
                      /\ \/ exchanges[e].state = "completed"
                         \/ Len(exchanges[e].steps) = MaxSteps)
===============================================================================
