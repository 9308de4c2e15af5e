------------------------ MODULE WorkflowRefinementProofs ------------------------
(***************************************************************************)
(* What the workflows promise when requests do not race, proved for        *)
(* workflows of any shape and any number of concurrent requests.  An       *)
(* exchange follows its workflow as long as no two requests create a       *)
(* workflow of the same id; it never rolls back, and implements            *)
(* WorkflowWalk, as long as, besides, no two requests that will save it    *)
(* overlap.  Nothing in the code sees to either: create,                   *)
(* participateInExchange and addReview read before they write, and hold no *)
(* lock in between.                                                        *)
(***************************************************************************)
EXTENDS WorkflowRefinement, WorkflowServiceProofs

-------------------------------------------------------------------------------
(* The clients' side of the bargain.                                        *)
OneCreatePerWorkflow ==
  \A r, s \in Request :
    /\ requests[r].op = "createWorkflow"
    /\ requests[s].op = "createWorkflow"
    /\ requests[r].workflowId = requests[s].workflowId
    => r = s

(* What these hold is going to be saved.                                    *)
Holding == {"participate", "save", "review"}

OneRequestPerExchange ==
  \A r, s \in Request :
    /\ requests[r].op \in Holding
    /\ requests[s].op \in Holding
    /\ requests[r].exchangeId = requests[s].exchangeId
    => r = s

-------------------------------------------------------------------------------
(* The inductive invariant for the workflows.  Its idea: a workflow that    *)
(* exists is not replaced, so what an exchange owes to it stays true, also  *)
(* of the older exchanges that concurrent requests hold and save.           *)
IsOfWorkflow(config, step) ==
  /\ config.steps[step.stepId] # None
  /\ config.steps[step.stepId].type = step.type

OnPath(config, exchange) ==
  LET steps == exchange.steps
  IN /\ steps # <<>> => steps[1].stepId = config.initialStep
     /\ \A i \in 1..Len(steps) - 1 :
          steps[i + 1].stepId = config.steps[steps[i].stepId].nextStep
     /\ exchange.state = "completed" =>
          NextStepDefinition(config, Last(steps).stepId) = None
     /\ \A i \in 1..Len(steps) : IsOfWorkflow(config, steps[i])
     /\ steps # <<>> /\ Last(steps).type = "query" /\ Last(steps).isComplete =>
          exchange.state = "completed"

OnItsPath(exchange) == OnPath(workflows[exchange.workflowId], exchange)

PathHeld(request) ==
  /\ request.op = "createWorkflow" => workflows[request.workflowId] = None
  /\ request.op \in Holding => OnItsPath(request.exchange)

PathInv ==
  /\ IInv
  /\ \A e \in Exchange : exchanges[e] # None => OnItsPath(exchanges[e])
  /\ \A r \in Request : PathHeld(requests[r])

-------------------------------------------------------------------------------
(* What the handlers do to the path of an exchange.                         *)

LEMMA SingleStep ==
  ASSUME NEW step, NEW steps, steps = <<step>>
  PROVE  Len(steps) = 1 /\ steps[1] = step /\ Last(steps) = step
<1>1. Len(steps) = 1 /\ steps[1] = step
  OBVIOUS
<1> QED
  BY <1>1 DEF Last

(* createExchange: a new exchange is at the initial step, if at any.        *)
LEMMA NewOnPath ==
  ASSUME NEW config, NEW definition, NEW stepId, NEW challenge, NEW exchange,
         stepId = config.initialStep,
         definition = config.steps[stepId],
         exchange.state = "pending",
         exchange.steps = IF definition = None THEN <<>>
                          ELSE <<HydratedStep(definition, stepId, challenge)>>
  PROVE  OnPath(config, exchange)
<1>1. CASE definition = None
  BY <1>1 DEF OnPath
<1>2. CASE definition # None
  <2>1. PICK step : step = HydratedStep(definition, stepId, challenge)
    OBVIOUS
  <2>2. /\ step.stepId = stepId
        /\ step.type = definition.type
        /\ ~step.isComplete
    BY <2>1 DEF HydratedStep
  <2>3. exchange.steps = <<step>>
    BY <1>2, <2>1
  <2>4. /\ Len(exchange.steps) = 1
        /\ exchange.steps[1] = step
        /\ Last(exchange.steps) = step
    BY <2>3, SingleStep
  <2>5. IsOfWorkflow(config, step)
    BY <1>2, <2>2 DEF IsOfWorkflow
  <2> QED
    BY <2>2, <2>4, <2>5 DEF OnPath
<1> QED
  BY <1>1, <1>2

(* processPresentation appends the step the workflow has next, or completes *)
(* the exchange where the workflow has none.                                *)
LEMMA AdvancedOnPath ==
  ASSUME NEW config, NEW exchange \in WfExchange, NEW after \in WfExchange,
         NEW current, NEW step, NEW definition, NEW nextStep, NEW next,
         exchange.steps # <<>>,
         OnPath(config, exchange),
         current = Last(exchange.steps),
         step.stepId = current.stepId,
         step.type = current.type,
         definition = NextStepDefinition(config, current.stepId),
         nextStep = config.steps[current.stepId].nextStep,
         next.stepId = nextStep,
         definition # None => next.type = definition.type /\ ~next.isComplete,
         IsAdvanced(after, exchange, step, definition, next)
  PROVE  OnPath(config, after)
<1> DEFINE n == Len(exchange.steps)
<1>1. /\ n \in Nat \ {0}
      /\ n \in 1..n
      /\ current = exchange.steps[n]
      /\ exchange.steps \in Seq(ExchangeStep)
      /\ after.steps \in Seq(ExchangeStep)
  BY LastStep DEF IsAdvanced, WfExchange
<1>2. /\ \A j \in 1..n - 1 : after.steps[j] = exchange.steps[j]
      /\ after.steps[n] = step
  BY DEF IsAdvanced
<1>3. \A j \in 1..n : after.steps[j].stepId = exchange.steps[j].stepId
  BY <1>1, <1>2
<1>0. \A j \in 1..n : IsOfWorkflow(config, after.steps[j])
  <2>1. \A j \in 1..n : IsOfWorkflow(config, exchange.steps[j])
    BY DEF OnPath
  <2>2. \A j \in 1..n : after.steps[j].type = exchange.steps[j].type
    BY <1>1, <1>2
  <2> QED
    BY <1>3, <2>1, <2>2 DEF IsOfWorkflow
<1>4. CASE step.isComplete /\ definition # None
  <2>1. /\ Len(after.steps) = n + 1
        /\ after.steps[n + 1] = next
        /\ after.state = "active"
    BY <1>4 DEF IsAdvanced
  <2>2. \A j \in 1..n :
          after.steps[j + 1].stepId = config.steps[after.steps[j].stepId].nextStep
    <3>1. ASSUME NEW j \in 1..n - 1
          PROVE  after.steps[j + 1].stepId
                   = config.steps[after.steps[j].stepId].nextStep
      <4>1. exchange.steps[j + 1].stepId
              = config.steps[exchange.steps[j].stepId].nextStep
        BY <1>1 DEF OnPath
      <4> QED
        BY <1>1, <1>3, <4>1
    <3>2. after.steps[n + 1].stepId = config.steps[after.steps[n].stepId].nextStep
      BY <1>2, <2>1
    <3>3. \A j \in 1..n : j = n \/ j \in 1..n - 1
      BY <1>1
    <3> QED
      BY <3>1, <3>2, <3>3
  <2>3. after.steps[1].stepId = config.initialStep
    BY <1>1, <1>3 DEF OnPath
  <2>4. /\ Last(after.steps) = next
        /\ ~next.isComplete
    BY <1>1, <1>4, <2>1 DEF Last
  <2>5. IsOfWorkflow(config, next)
    BY <1>4 DEF IsOfWorkflow, NextStepDefinition
  <2>6. \A j \in 1..n + 1 : IsOfWorkflow(config, after.steps[j])
    BY <1>0, <1>1, <2>1, <2>5
  <2> QED
    BY <1>1, <2>1, <2>2, <2>3, <2>4, <2>6 DEF OnPath
<1>5. CASE ~(step.isComplete /\ definition # None)
  <2>1. /\ Len(after.steps) = n
        /\ after.state = "completed" => definition = None
        /\ step.isComplete => after.state = "completed"
    BY <1>5 DEF IsAdvanced
  <2>2. ASSUME NEW j \in 1..n - 1
        PROVE  after.steps[j + 1].stepId
                 = config.steps[after.steps[j].stepId].nextStep
    <3>1. exchange.steps[j + 1].stepId
            = config.steps[exchange.steps[j].stepId].nextStep
      BY <1>1 DEF OnPath
    <3>2. j \in 1..n /\ j + 1 \in 1..n
      BY <1>1
    <3> HIDE DEF n
    <3> QED
      BY <1>3, <3>1, <3>2
  <2>3. after.steps[1].stepId = config.initialStep
    BY <1>1, <1>3 DEF OnPath
  <2>4. Last(after.steps) = step
    BY <1>1, <1>2, <2>1 DEF Last
  <2> QED
    BY <1>0, <1>1, <2>1, <2>2, <2>3, <2>4 DEF OnPath
<1> QED
  BY <1>4, <1>5

(* addReview changes neither a name nor the state.                          *)
LEMMA ReviewedOnPath ==
  ASSUME NEW config, NEW exchange \in WfExchange, NEW after \in WfExchange,
         NEW i \in 1..Len(exchange.steps), NEW step,
         OnPath(config, exchange),
         step.stepId = exchange.steps[i].stepId,
         step.type = exchange.steps[i].type,
         step.type = "issuance",
         IsReviewed(after, exchange, i, step)
  PROVE  OnPath(config, after)
<1>1. /\ exchange.steps \in Seq(ExchangeStep)
      /\ after.steps \in Seq(ExchangeStep)
      /\ Len(after.steps) = Len(exchange.steps)
      /\ after.state = exchange.state
  BY DEF IsReviewed, WfExchange
<1>2. \A j \in 1..Len(exchange.steps) :
        /\ after.steps[j].stepId = exchange.steps[j].stepId
        /\ after.steps[j].type = exchange.steps[j].type
  BY DEF IsReviewed
<1>3. Last(after.steps).stepId = Last(exchange.steps).stepId
  BY <1>1, <1>2 DEF Last
<1>4. \A j \in 1..Len(after.steps) : IsOfWorkflow(config, after.steps[j])
  <2>1. \A j \in 1..Len(exchange.steps) : IsOfWorkflow(config, exchange.steps[j])
    BY DEF OnPath
  <2> QED
    BY <1>1, <1>2, <2>1 DEF IsOfWorkflow
<1>5. ASSUME Last(after.steps).type = "query"
      PROVE  Last(after.steps) = Last(exchange.steps)
  <2>1. /\ Last(after.steps) = after.steps[Len(exchange.steps)]
        /\ Last(exchange.steps) = exchange.steps[Len(exchange.steps)]
    BY <1>1 DEF Last
  <2>2. CASE i = Len(exchange.steps)
    BY <1>5, <2>1, <2>2 DEF IsReviewed
  <2>3. CASE i # Len(exchange.steps)
    BY <1>1, <2>1, <2>3 DEF IsReviewed
  <2> QED
    BY <2>2, <2>3
<1>6. after.steps # <<>> /\ Last(after.steps).type = "query"
        /\ Last(after.steps).isComplete => after.state = "completed"
  BY <1>1, <1>5 DEF OnPath
<1> QED
  BY <1>1, <1>2, <1>3, <1>4, <1>6 DEF OnPath

-------------------------------------------------------------------------------
(* What a step does to the workflows and to what is held.                   *)
Kept == \A w \in Workflow : workflows[w] # None => workflows'[w] = workflows[w]

LEMMA OnItsPathStays ==
  ASSUME Kept, NEW exchange \in WfExchange,
         workflows[exchange.workflowId] # None, OnItsPath(exchange)
  PROVE  OnItsPath(exchange)'
BY DEF Kept, OnItsPath, WfExchange

LEMMA RowsStayOnPath ==
  ASSUME PathInv, Kept, NEW e \in Exchange, exchanges[e] # None
  PROVE  (\A x : x = exchanges[e] => OnItsPath(x)')
<1>1. PICK exchange \in WfExchange : exchange = exchanges[e]
  BY DEF PathInv, IInv, TypeOK
<1>2. workflows[exchange.workflowId] # None /\ OnItsPath(exchange)
  BY <1>1 DEF PathInv, IInv, RowInv, ExchangeInv, StepsInv
<1>3. OnItsPath(exchange)'
  BY <1>2, OnItsPathStays
<1> QED
  BY <1>1, <1>3

LEMMA HeldStaysOnPath ==
  ASSUME PathInv, Kept, NEW r \in Request, NEW request, request = requests[r],
         request.op = "createWorkflow" => workflows'[request.workflowId] = None
  PROVE  PathHeld(request)'
<1>1. CASE request.op \in Holding
  <2>1. PICK exchange \in WfExchange : exchange = request.exchange
    BY <1>1, RequestKinds DEF Holding, PathInv, IInv, TypeOK
  <2>2. /\ RequestInv(request)
        /\ PathHeld(request)
    BY DEF PathInv, IInv
  <2>3. workflows[exchange.workflowId] # None
    BY <1>1, <2>1, <2>2
       DEF Holding, RequestInv, Saveable, ReviewInv, ExchangeInv, StepsInv
  <2>4. OnItsPath(exchange)'
    BY <1>1, <2>1, <2>2, <2>3, OnItsPathStays DEF PathHeld
  <2> QED
    BY <1>1, <2>1, <2>4 DEF Holding, PathHeld
<1>2. CASE request.op \notin Holding
  BY <1>2 DEF PathHeld
<1> QED
  BY <1>1, <1>2

-------------------------------------------------------------------------------
(* What processPresentation hands to its save.                              *)
Processes(e, exchange, after, config, step) ==
  LET n == Len(exchange.steps)
      current == exchange.steps[n]
      definition == NextStepDefinition(config, current.stepId)
  IN /\ e \in Exchange
     /\ exchange \in WfExchange
     /\ exchange.steps # <<>>
     /\ after \in WfExchange
     /\ step.stepId = current.stepId
     /\ step.type = current.type
     /\ IF current.type = "query" THEN step.isComplete ELSE step = current
     /\ \E next :
          /\ definition # None => next.type = definition.type /\ ~next.isComplete
          /\ next.stepId = config.steps[current.stepId].nextStep
          /\ IsAdvanced(after, exchange, step, definition, next)

LEMMA ProcessHandsOn ==
  ASSUME IInv, NEW r \in Request, ParticipateProcess(r)
  PROVE  \E e, exchange, after, config, step, stepId :
           /\ requests[r].op = "participate"
           /\ e = requests[r].exchangeId
           /\ exchange = requests[r].exchange
           /\ config = workflows[exchange.workflowId]
           /\ requests' = [requests EXCEPT ![r] =
                             [op |-> "save", exchangeId |-> e, exchange |-> after,
                              stepId |-> stepId]]
           /\ Processes(e, exchange, after, config, step)
<1>1. /\ requests[r] \in RequestState
      /\ requests[r].op = "participate"
  BY DEF IInv, TypeOK, ParticipateProcess
<1>2. PICK e \in Exchange, exchange \in WfExchange, presentation \in Presentation :
        /\ e = requests[r].exchangeId
        /\ exchange = requests[r].exchange
        /\ presentation = requests[r].presentation
  BY <1>1, RequestKinds
<1>3. /\ exchange.steps # <<>>
      /\ ExchangeInv(e, exchange)
  BY <1>1, <1>2 DEF IInv, RequestInv, ParticipateProcess, HasCurrentStep
<1>4. PICK current \in ExchangeStep :
        /\ current = Last(exchange.steps)
        /\ current = exchange.steps[Len(exchange.steps)]
  BY <1>3, LastStep
<1>5. PICK config \in WorkflowConfig : config = workflows[exchange.workflowId]
  BY <1>3 DEF IInv, TypeOK, ExchangeInv, StepsInv, WfExchange
<1>6. PICK definition \in WorkflowStepDefinition \cup {None},
           nextStep \in StepId \cup {None} :
        /\ definition = NextStepDefinition(config, current.stepId)
        /\ nextStep = config.steps[current.stepId].nextStep
        /\ definition # None => nextStep \in StepId
  <2>1. config.steps[current.stepId] \in WorkflowStepDefinition
    BY <1>2, <1>4, <1>5
       DEF ParticipateProcess, HasCurrentStep, WorkflowConfig, ExchangeStep
  <2>2. config.steps[current.stepId].nextStep \in StepId \cup {None}
    BY <2>1 DEF WorkflowStepDefinition
  <2>3. CASE config.steps[current.stepId].nextStep = None
    BY <2>2, <2>3 DEF NextStepDefinition
  <2>4. CASE config.steps[current.stepId].nextStep # None
    <3>1. NextStepDefinition(config, current.stepId)
            \in WorkflowStepDefinition \cup {None}
      BY <2>2, <2>4 DEF NextStepDefinition, WorkflowConfig
    <3> QED
      BY <2>2, <2>4, <3>1
  <2> QED
    BY <2>3, <2>4
<1>7. PICK step : step = Processed(current, presentation)
  OBVIOUS
<1>8. PICK c, after :
        /\ c \in IF step.isComplete THEN StepChallenges(definition) ELSE {None}
        /\ after = Advanced(exchange, step, definition, nextStep, c)
        /\ requests' = [requests EXCEPT ![r] =
                          [op |-> "save", exchangeId |-> e, exchange |-> after,
                           stepId |-> current.stepId]]
  BY <1>2, <1>4, <1>5, <1>6, <1>7 DEF ParticipateProcess
<1>9. c \in Challenge \cup {None}
  BY <1>8 DEF StepChallenges
<1>10. /\ step \in ExchangeStep
       /\ step.stepId = current.stepId
       /\ step.type = current.type
       /\ IF current.type = "query" THEN step.isComplete ELSE step = current
  <2>1. step \in ExchangeStep
    BY <1>7, ProcessedType
  <2>2. CASE current.type = "query"
    BY <1>7, <2>1, <2>2 DEF Processed, ExchangeStep
  <2>3. CASE current.type # "query"
    BY <1>7, <2>1, <2>3 DEF Processed
  <2> QED
    BY <2>1, <2>2, <2>3
<1>11. PICK next : next = HydratedStep(definition, nextStep, c)
  OBVIOUS
<1>12. /\ next.stepId = nextStep
       /\ definition # None => next.type = definition.type /\ ~next.isComplete
       /\ IsAdvanced(after, exchange, step, definition, next)
  <2>1. IsAdvanced(after, exchange, step, definition,
                   HydratedStep(definition, nextStep, c))
    BY <1>3, <1>6, <1>8, <1>9, <1>10, AdvancedSteps
  <2> QED
    BY <1>11, <2>1 DEF HydratedStep
<1>13. Processes(e, exchange, after, config, step)
  <2>1. after \in WfExchange
    BY <1>12 DEF IsAdvanced
  <2> QED
    BY <1>3, <1>4, <1>6, <1>10, <1>12, <2>1 DEF Processes
<1> QED
  BY <1>1, <1>2, <1>5, <1>8, <1>13

(* What addReview hands to its save.                                        *)
Reviews(exchange, after, i, step) ==
  /\ exchange \in WfExchange
  /\ after \in WfExchange
  /\ i \in 1..Len(exchange.steps)
  /\ step.stepId = exchange.steps[i].stepId
  /\ step.type = exchange.steps[i].type
  /\ step.type = "issuance"
  /\ step.isComplete
  /\ IsReviewed(after, exchange, i, step)

LEMMA ReviewHandsOn ==
  ASSUME IInv, NEW r \in Request, NEW e \in Exchange, NEW stepId,
         NEW result, NEW vp \in IssuedVp \cup {None},
         ReviewLoad(r, e, stepId, result, vp)
  PROVE  \E exchange, after, i, step :
           /\ exchange = exchanges[e]
           /\ requests' = [requests EXCEPT ![r] =
                             [op |-> "review", exchangeId |-> e,
                              stepId |-> stepId, result |-> result, vp |-> vp,
                              exchange |-> after]]
           /\ Reviews(exchange, after, i, step)
<1>1. PICK exchange \in WfExchange : exchange = exchanges[e]
  BY DEF IInv, TypeOK, ReviewLoad
<1>2. PICK i \in 1..Len(exchange.steps) : i = StepIndex(exchange.steps, stepId)
  BY <1>1, StepIndexFinds DEF ReviewLoad, IsIssuanceStep, WfExchange
<1>3. PICK after : after = [exchange EXCEPT !.steps[i] = AddVp(@, result, vp)]
  OBVIOUS
<1>4. PICK step : step = AddVp(exchange.steps[i], result, vp)
  OBVIOUS
<1>5. IsReviewed(after, exchange, i, step)
  <2>1. IsReviewed(after, exchange, i, AddVp(exchange.steps[i], result, vp))
    BY <1>3, ReviewedSteps
  <2> QED
    BY <1>4, <2>1
<1>6. /\ step.stepId = exchange.steps[i].stepId
      /\ step.type = exchange.steps[i].type
      /\ step.type = "issuance"
      /\ step.isComplete
  <2>1. exchange.steps[i].type = "issuance"
    BY <1>1, <1>2 DEF ReviewLoad, IsIssuanceStep
  <2> QED
    BY <1>4, <2>1, StepOfExchange DEF AddVp, ExchangeStep
<1>7. requests' = [requests EXCEPT ![r] =
                     [op |-> "review", exchangeId |-> e, stepId |-> stepId,
                      result |-> result, vp |-> vp, exchange |-> after]]
  BY <1>1, <1>2, <1>3 DEF ReviewLoad
<1>8. after \in WfExchange
  BY <1>5 DEF IsReviewed
<1> QED
  BY <1>1, <1>5, <1>6, <1>7, <1>8 DEF Reviews

-------------------------------------------------------------------------------
(* Every step keeps the exchanges on their paths.                           *)
LEMMA WorkflowsKept ==
  ASSUME PathInv, [Next]_vars
  PROVE  Kept
<1>1. ASSUME NEW r \in Request, CreateWorkflowSave(r)
      PROVE  Kept
  <2>1. PICK w, config : /\ w = requests[r].workflowId
                         /\ workflows' = [workflows EXCEPT ![w] = config]
    BY <1>1 DEF CreateWorkflowSave
  <2>2. workflows[w] = None
    BY <1>1, <2>1 DEF PathInv, PathHeld, CreateWorkflowSave
  <2> QED
    BY <2>1, <2>2 DEF PathInv, IInv, TypeOK, Kept
<1>2. CASE UNCHANGED workflows
  BY <1>2 DEF Kept
<1>3. ASSUME NEW r \in Request, ServerStep(r)
      PROVE  Kept
  BY <1>1, <1>2, <1>3
     DEF ServerStep, ConflictAnswered, ParticipateFailure, ParticipateProcess,
         ParticipateSave, Respond, ReviewSave, database
<1>4. ASSUME NEW r \in Request, ClientCall(r)
      PROVE  Kept
  BY <1>2, <1>4
     DEF ClientCall, RefuseCall, CreateWorkflowConflict, CreateWorkflowCheck,
         ParticipateLoad, ReviewLoad, database, vars
<1>5. CASE \/ UNCHANGED vars
           \/ Crash
           \/ \E c \in callbacks : CallbackDone(c)
           \/ \E e \in Exchange :
                \/ ParticipateEmpty(e)
                \/ \E w \in Workflow : CreateExchange(w, e)
                \/ \E stepId \in StepId : GetExchangeStep(e, stepId)
  BY <1>2, <1>5
     DEF vars, Crash, CallbackDone, ParticipateEmpty, CreateExchange,
         GetExchangeStep, database
<1> QED
  BY <1>3, <1>4, <1>5 DEF Next

LEMMA OthersStayOnPath ==
  ASSUME PathInv, Kept, NEW r \in Request, NEW request,
         requests' = [requests EXCEPT ![r] = request],
         PathHeld(request)',
         \A s \in Request \ {r} :
           requests[s].op = "createWorkflow" =>
             workflows'[requests[s].workflowId] = None
  PROVE  \A s \in Request : PathHeld(requests[s])'
<1> SUFFICES ASSUME NEW s \in Request
             PROVE  PathHeld(requests[s])'
  OBVIOUS
<1>1. PICK held : held = requests[s]
  OBVIOUS
<1>2. CASE s = r
  <2>1. requests'[s] = request
    BY <1>2 DEF PathInv, IInv, TypeOK
  <2> QED
    BY <2>1
<1>3. CASE s # r
  <2>1. requests'[s] = held
    BY <1>1, <1>3 DEF PathInv, IInv, TypeOK
  <2>2. PathHeld(held)'
    BY <1>1, <1>3, HeldStaysOnPath
  <2> QED
    BY <2>1, <2>2
<1> QED
  BY <1>2, <1>3

(* A request takes something up, or lets go of it; the workflows stay.      *)
LEMMA TakesUp ==
  ASSUME PathInv, UNCHANGED workflows, NEW r \in Request, NEW request,
         requests' = [requests EXCEPT ![r] = request],
         PathHeld(request)'
  PROVE  \A s \in Request : PathHeld(requests[s])'
<1>1. Kept
  BY DEF Kept
<1>2. \A s \in Request \ {r} :
        requests[s].op = "createWorkflow" =>
          workflows'[requests[s].workflowId] = None
  BY DEF PathInv, PathHeld
<1> QED
  BY <1>1, <1>2, OthersStayOnPath

LEMMA LetsGo ==
  ASSUME PathInv, UNCHANGED workflows, NEW r \in Request, Answer(r)
  PROVE  \A s \in Request : PathHeld(requests[s])'
<1>1. PathHeld(Idle)'
  BY DEF PathHeld, Idle, Holding
<1> QED
  BY <1>1, TakesUp DEF Answer

LEMMA RowsSavedOnPath ==
  ASSUME PathInv, Kept, NEW e \in Exchange, NEW exchange,
         exchanges' = [exchanges EXCEPT ![e] = exchange],
         OnItsPath(exchange)'
  PROVE  \A x \in Exchange : exchanges'[x] # None => OnItsPath(exchanges[x])'
<1> SUFFICES ASSUME NEW x \in Exchange, exchanges'[x] # None
             PROVE  OnItsPath(exchanges[x])'
  OBVIOUS
<1>1. CASE x = e
  <2>1. exchanges'[x] = exchange
    BY <1>1 DEF PathInv, IInv, TypeOK
  <2> QED
    BY <2>1
<1>2. CASE x # e
  <2>1. exchanges'[x] = exchanges[x]
    BY <1>2 DEF PathInv, IInv, TypeOK
  <2>2. PICK row : row = exchanges[x]
    OBVIOUS
  <2>3. OnItsPath(row)'
    BY <2>1, <2>2, RowsStayOnPath
  <2> QED
    BY <2>1, <2>2, <2>3
<1> QED
  BY <1>1, <1>2

LEMMA RowsUnchangedOnPath ==
  ASSUME PathInv, Kept, UNCHANGED exchanges
  PROVE  \A x \in Exchange : exchanges'[x] # None => OnItsPath(exchanges[x])'
<1> SUFFICES ASSUME NEW x \in Exchange, exchanges'[x] # None
             PROVE  OnItsPath(exchanges[x])'
  OBVIOUS
<1>1. PICK row : row = exchanges[x]
  OBVIOUS
<1>2. OnItsPath(row)'
  BY <1>1, RowsStayOnPath
<1> QED
  BY <1>1, <1>2

LEMMA PathOfCreateWorkflow ==
  ASSUME PathInv, OneCreatePerWorkflow, Kept, NEW r \in Request,
         CreateWorkflowSave(r)
  PROVE  \A s \in Request : PathHeld(requests[s])'
<1>1. PathHeld(Idle)'
  BY DEF PathHeld, Idle, Holding
<1>2. ASSUME NEW s \in Request \ {r}, requests[s].op = "createWorkflow"
      PROVE  workflows'[requests[s].workflowId] = None
  <2>1. PICK w, config : /\ w = requests[r].workflowId
                         /\ workflows' = [workflows EXCEPT ![w] = config]
                         /\ requests[r].op = "createWorkflow"
    BY DEF CreateWorkflowSave
  <2>2. PICK other : other = requests[s].workflowId
    OBVIOUS
  <2>3. other # w
    BY <1>2, <2>1, <2>2 DEF OneCreatePerWorkflow
  <2>4. other \in Workflow /\ workflows[other] = None
    BY <1>2, <2>2, RequestKinds DEF PathInv, PathHeld, IInv, TypeOK
  <2> QED
    BY <2>1, <2>2, <2>3, <2>4 DEF PathInv, IInv, TypeOK
<1>3. requests' = [requests EXCEPT ![r] = Idle]
  BY DEF CreateWorkflowSave, Answer
<1> QED
  BY <1>1, <1>2, <1>3, OthersStayOnPath

LEMMA PathOfClientCall ==
  ASSUME PathInv, NEW r \in Request, ClientCall(r)
  PROVE  \A s \in Request : PathHeld(requests[s])'
<1>0. Kept /\ UNCHANGED <<workflows, exchanges>>
  BY DEF ClientCall, RefuseCall, CreateWorkflowConflict, CreateWorkflowCheck,
         ParticipateLoad, ReviewLoad, database, vars, Kept
<1>1. CASE RefuseCall(r)
  <2>1. requests' = requests
    BY <1>1 DEF RefuseCall, vars
  <2>2. requests' = [requests EXCEPT ![r] = requests[r]]
    BY <2>1 DEF PathInv, IInv, TypeOK
  <2>3. PICK request : request = requests[r]
    OBVIOUS
  <2>4. PathHeld(request)'
    BY <1>0, <2>3, HeldStaysOnPath DEF PathInv, PathHeld
  <2> QED
    BY <1>0, <2>2, <2>3, <2>4, TakesUp
<1>2. ASSUME NEW id \in Workflow \cup {None}, CreateWorkflowConflict(r, id)
      PROVE  \A s \in Request : PathHeld(requests[s])'
  <2>1. PICK request : request = [op |-> "conflict", workflowId |-> id]
    OBVIOUS
  <2>2. PathHeld(request)'
    BY <2>1 DEF PathHeld, Holding
  <2>3. requests' = [requests EXCEPT ![r] = request]
    BY <1>2, <2>1 DEF CreateWorkflowConflict
  <2> QED
    BY <1>0, <2>2, <2>3, TakesUp
<1>3. ASSUME NEW id \in Workflow \cup {None}, NEW config \in WorkflowConfigs,
             CreateWorkflowCheck(r, id, config)
      PROVE  \A s \in Request : PathHeld(requests[s])'
  <2>1. PICK w, request :
          /\ w \in IF id = None THEN DrawnWorkflowIds ELSE {id}
          /\ request = [op |-> "createWorkflow", workflowId |-> w,
                        config |-> config]
          /\ requests' = [requests EXCEPT ![r] = request]
    BY <1>3 DEF CreateWorkflowCheck
  <2>2. workflows[w] = None
    BY <1>3, <2>1 DEF CreateWorkflowCheck, WorkflowFound, DrawnWorkflowIds
  <2>3. PathHeld(request)'
    BY <1>0, <2>1, <2>2 DEF PathHeld, Holding
  <2> QED
    BY <1>0, <2>1, <2>3, TakesUp
<1>4. ASSUME NEW e \in Exchange, NEW presentation \in Submissions,
             ParticipateLoad(r, e, presentation)
      PROVE  \A s \in Request : PathHeld(requests[s])'
  <2>1. PICK exchange : exchange = exchanges[e]
    OBVIOUS
  <2>2. PICK request :
          request = [op |-> "participate", exchangeId |-> e,
                     exchange |-> exchange, presentation |-> presentation]
    OBVIOUS
  <2>3. OnItsPath(exchange)'
    BY <1>0, <1>4, <2>1, RowsStayOnPath DEF ParticipateLoad
  <2>4. PathHeld(request)'
    BY <2>2, <2>3 DEF PathHeld
  <2>5. requests' = [requests EXCEPT ![r] = request]
    BY <1>4, <2>1, <2>2 DEF ParticipateLoad
  <2> QED
    BY <1>0, <2>4, <2>5, TakesUp
<1>5. ASSUME NEW e \in Exchange, NEW stepId \in StepId,
             NEW result \in ReviewResult, NEW vp \in IssuedVp \cup {None},
             ReviewLoad(r, e, stepId, result, vp)
      PROVE  \A s \in Request : PathHeld(requests[s])'
  <2>1. PICK exchange, after, i, step :
           /\ exchange = exchanges[e]
           /\ requests' = [requests EXCEPT ![r] =
                             [op |-> "review", exchangeId |-> e,
                              stepId |-> stepId, result |-> result, vp |-> vp,
                              exchange |-> after]]
           /\ Reviews(exchange, after, i, step)
    BY <1>5, ReviewHandsOn DEF PathInv
  <2>2. PICK request :
          request = [op |-> "review", exchangeId |-> e, stepId |-> stepId,
                     result |-> result, vp |-> vp, exchange |-> after]
    OBVIOUS
  <2>3. OnItsPath(exchange)'
    BY <1>0, <1>5, <2>1, RowsStayOnPath DEF ReviewLoad
  <2>4. OnItsPath(after)'
    <3>1. PICK config : config = workflows'[exchange.workflowId]
      OBVIOUS
    <3>2. OnPath(config, exchange)
      BY <2>3, <3>1 DEF OnItsPath
    <3>3. OnPath(config, after)
      BY <2>1, <3>2, ReviewedOnPath DEF Reviews
    <3>4. after.workflowId = exchange.workflowId
      BY <2>1 DEF Reviews, IsReviewed
    <3> QED
      BY <3>1, <3>3, <3>4 DEF OnItsPath
  <2>5. PathHeld(request)'
    BY <2>2, <2>4 DEF PathHeld
  <2> QED
    BY <1>0, <2>1, <2>2, <2>5, TakesUp
<1> QED
  BY <1>1, <1>2, <1>3, <1>4, <1>5 DEF ClientCall

LEMMA PathOfProcess ==
  ASSUME PathInv, NEW r \in Request, ParticipateProcess(r)
  PROVE  \A s \in Request : PathHeld(requests[s])'
<1>1. UNCHANGED workflows
  BY DEF ParticipateProcess, database
<1>2. PICK e, exchange, after, config, step, stepId :
           /\ requests[r].op = "participate"
           /\ e = requests[r].exchangeId
           /\ exchange = requests[r].exchange
           /\ config = workflows[exchange.workflowId]
           /\ requests' = [requests EXCEPT ![r] =
                             [op |-> "save", exchangeId |-> e, exchange |-> after,
                              stepId |-> stepId]]
           /\ Processes(e, exchange, after, config, step)
  BY ProcessHandsOn DEF PathInv
<1>3. PICK current, definition, next :
        /\ current = exchange.steps[Len(exchange.steps)]
        /\ definition = NextStepDefinition(config, current.stepId)
        /\ definition # None => next.type = definition.type /\ ~next.isComplete
        /\ next.stepId = config.steps[current.stepId].nextStep
        /\ IsAdvanced(after, exchange, step, definition, next)
  BY <1>2 DEF Processes
<1>4. OnPath(config, exchange)
  BY <1>2 DEF PathInv, PathHeld, Holding, OnItsPath
<1>5. OnPath(config, after)
  <2>1. current = Last(exchange.steps)
    BY <1>2, <1>3, LastStep DEF Processes
  <2>2. /\ exchange \in WfExchange
        /\ after \in WfExchange
        /\ exchange.steps # <<>>
        /\ step.stepId = current.stepId
        /\ step.type = current.type
    BY <1>2, <1>3 DEF Processes
  <2>3. PICK nextStep : nextStep = config.steps[current.stepId].nextStep
    OBVIOUS
  <2> QED
    BY <1>3, <1>4, <2>1, <2>2, <2>3, AdvancedOnPath
<1>6. PICK request :
        request = [op |-> "save", exchangeId |-> e, exchange |-> after,
                   stepId |-> stepId]
  OBVIOUS
<1>7. PathHeld(request)'
  <2>1. after.workflowId = exchange.workflowId
    BY <1>3 DEF IsAdvanced
  <2> QED
    BY <1>1, <1>2, <1>5, <1>6, <2>1 DEF PathHeld, OnItsPath
<1> QED
  BY <1>1, <1>2, <1>6, <1>7, TakesUp

LEMMA PathOfSave ==
  ASSUME PathInv, NEW r \in Request, ParticipateSave(r) \/ ReviewSave(r)
  PROVE  /\ \A e \in Exchange : exchanges'[e] # None => OnItsPath(exchanges[e])'
         /\ \A s \in Request : PathHeld(requests[s])'
<1>0. Kept /\ UNCHANGED workflows
  BY DEF ParticipateSave, ReviewSave, Kept
<1>1. requests[r] \in RequestState /\ requests[r].op \in {"save", "review"}
  BY DEF PathInv, IInv, TypeOK, ParticipateSave, ReviewSave
<1>2. PICK request, e, exchange :
        /\ request = requests[r]
        /\ e = request.exchangeId
        /\ exchange = request.exchange
        /\ e \in Exchange
  BY <1>1, RequestKinds
<1>3. PathHeld(request)'
  BY <1>0, <1>1, <1>2, HeldStaysOnPath
<1>4. OnItsPath(exchange)'
  BY <1>1, <1>2, <1>3 DEF PathHeld, Holding
<1>5. exchanges' = [exchanges EXCEPT ![e] = exchange]
  BY <1>2 DEF ParticipateSave, ReviewSave
<1>6. \A x \in Exchange : exchanges'[x] # None => OnItsPath(exchanges[x])'
  BY <1>0, <1>2, <1>4, <1>5, RowsSavedOnPath
<1>7. CASE ParticipateSave(r)
  <2>1. PICK saved : saved = [request EXCEPT !.op = "respond"]
    OBVIOUS
  <2>2. requests' = [requests EXCEPT ![r] = saved]
    BY <1>2, <1>7, <2>1 DEF ParticipateSave
  <2>3. saved.op = "respond"
    BY <1>1, <1>2, <1>7, <2>1 DEF ParticipateSave, RequestState, Idle
  <2>4. PathHeld(saved)'
    BY <2>3 DEF PathHeld, Holding
  <2> QED
    BY <1>0, <1>6, <2>2, <2>4, TakesUp
<1>8. CASE ReviewSave(r)
  BY <1>0, <1>6, <1>8, LetsGo DEF ReviewSave
<1> QED
  BY <1>7, <1>8

LEMMA PathOfCreate ==
  ASSUME PathInv, NEW w \in Workflow, NEW e \in Exchange, CreateExchange(w, e)
  PROVE  \A x \in Exchange : exchanges'[x] # None => OnItsPath(exchanges[x])'
<1>0. Kept /\ UNCHANGED workflows
  BY DEF CreateExchange, Kept
<1>1. PICK config, stepId, definition :
        /\ config = workflows[w]
        /\ stepId = config.initialStep
        /\ definition = config.steps[stepId]
  OBVIOUS
<1>2. PICK c, exchange :
        /\ exchange =
             [workflowId |-> w, state |-> "pending",
              steps |-> IF definition = None THEN <<>>
                        ELSE <<HydratedStep(definition, stepId, c)>>]
        /\ exchanges' = [exchanges EXCEPT ![e] = exchange]
  BY <1>1 DEF CreateExchange
<1>3. OnPath(config, exchange)
  <2>1. /\ exchange.state = "pending"
        /\ exchange.steps = IF definition = None THEN <<>>
                            ELSE <<HydratedStep(definition, stepId, c)>>
    BY <1>2
  <2> QED
    BY <1>1, <2>1, NewOnPath
<1>4. OnItsPath(exchange)'
  BY <1>0, <1>1, <1>2, <1>3 DEF OnItsPath
<1> QED
  BY <1>0, <1>2, <1>4, RowsSavedOnPath

LEMMA PathStep ==
  ASSUME PathInv, OneCreatePerWorkflow, [Next]_vars
  PROVE  PathInv'
<1>0. IInv' /\ Kept
  BY InvariantStep, WorkflowsKept DEF PathInv
<1> DEFINE Rows == \A e \in Exchange : exchanges[e] # None => OnItsPath(exchanges[e])
           Held == \A r \in Request : PathHeld(requests[r])
<1> SUFFICES Rows' /\ Held'
  BY <1>0 DEF PathInv
<1>1. UNCHANGED exchanges => Rows'
  BY <1>0, RowsUnchangedOnPath
<1>2. CASE UNCHANGED <<workflows, exchanges, requests>>
  <2>1. ASSUME NEW r \in Request
        PROVE  PathHeld(requests[r])'
    <3>1. PICK request : request = requests[r]
      OBVIOUS
    <3>2. PathHeld(request)'
      BY <1>0, <1>2, <3>1, HeldStaysOnPath DEF PathInv, PathHeld
    <3> QED
      BY <1>2, <3>1, <3>2
  <2> QED
    BY <1>1, <1>2, <2>1
<1>3. ASSUME NEW r \in Request, ClientCall(r)
      PROVE  Rows' /\ Held'
  <2>1. UNCHANGED exchanges
    BY <1>3 DEF ClientCall, RefuseCall, CreateWorkflowConflict,
                CreateWorkflowCheck, ParticipateLoad, ReviewLoad, database, vars
  <2> QED
    BY <1>1, <1>3, <2>1, PathOfClientCall
<1>4. ASSUME NEW r \in Request, ServerStep(r)
      PROVE  Rows' /\ Held'
  <2>1. CASE CreateWorkflowSave(r)
    <3>1. UNCHANGED exchanges
      BY <2>1 DEF CreateWorkflowSave
    <3> QED
      BY <1>0, <1>1, <2>1, <3>1, PathOfCreateWorkflow
  <2>2. CASE ConflictAnswered(r) \/ ParticipateFailure(r) \/ Respond(r)
    <3>1. UNCHANGED <<workflows, exchanges>> /\ Answer(r)
      BY <2>2 DEF ConflictAnswered, ParticipateFailure, Respond, database
    <3> QED
      BY <1>1, <3>1, LetsGo
  <2>3. CASE ParticipateProcess(r)
    <3>1. UNCHANGED exchanges
      BY <2>3 DEF ParticipateProcess, database
    <3> QED
      BY <1>1, <2>3, <3>1, PathOfProcess
  <2>4. CASE ParticipateSave(r) \/ ReviewSave(r)
    BY <2>4, PathOfSave
  <2> QED
    BY <1>4, <2>1, <2>2, <2>3, <2>4 DEF ServerStep
<1>5. ASSUME NEW e \in Exchange, NEW w \in Workflow, CreateExchange(w, e)
      PROVE  Rows' /\ Held'
  <2>1. UNCHANGED <<workflows, requests>>
    BY <1>5 DEF CreateExchange
  <2>2. ASSUME NEW r \in Request
        PROVE  PathHeld(requests[r])'
    <3>1. PICK request : request = requests[r]
      OBVIOUS
    <3>2. PathHeld(request)'
      BY <1>0, <2>1, <3>1, HeldStaysOnPath DEF PathInv, PathHeld
    <3> QED
      BY <2>1, <3>1, <3>2
  <2> QED
    BY <1>5, <2>2, PathOfCreate
<1>6. CASE Crash
  <2>1. UNCHANGED exchanges /\ requests' = [r \in Request |-> Idle]
    BY <1>6 DEF Crash, database
  <2>2. PathHeld(Idle)'
    BY DEF PathHeld, Idle, Holding
  <2>3. Held'
    BY <2>1, <2>2
  <2> QED
    BY <1>1, <2>1, <2>3
<1>7. CASE \/ UNCHANGED vars
           \/ \E c \in callbacks : CallbackDone(c)
           \/ \E e \in Exchange :
                \/ ParticipateEmpty(e)
                \/ \E stepId \in StepId : GetExchangeStep(e, stepId)
  BY <1>2, <1>7
     DEF vars, CallbackDone, ParticipateEmpty, GetExchangeStep, database
<1> QED
  BY <1>3, <1>4, <1>5, <1>6, <1>7 DEF Next

LEMMA PathInit ==
  ASSUME Init
  PROVE  PathInv
<1>1. PathHeld(Idle)
  BY DEF PathHeld, Idle, Holding
<1> QED
  BY <1>1, InitInv DEF Init, PathInv

(* Every exchange that is kept, or held by a request that is going to save  *)
(* it, is on the path its workflow defines: createExchange puts it on the   *)
(* initial step, processPresentation moves it on.                           *)
THEOREM PathInvariance == Spec /\ []OneCreatePerWorkflow => []PathInv
<1>1. Init => PathInv
  BY PathInit
<1>2. PathInv /\ OneCreatePerWorkflow /\ [Next]_vars => PathInv'
  BY PathStep
<1> QED
  BY <1>1, <1>2, PTL DEF Spec

(* The steps of an exchange are a path through its workflow, and it is      *)
(* completed only where the workflow ends: however participations, reviews  *)
(* and crashes interleave, as long as no two requests create a workflow of  *)
(* the same id, which would replace the one the exchange is walking.        *)
THEOREM ExchangesFollowWorkflows ==
  Spec /\ []OneCreatePerWorkflow => []StepsFollowWorkflow
<1>1. PathInv => StepsFollowWorkflow
  BY DEF PathInv, OnItsPath, OnPath, StepsFollowWorkflow
<1> QED
  BY <1>1, PathInvariance, PTL

-------------------------------------------------------------------------------
(* The inductive invariant for the exchanges.  Its idea: nobody else saves  *)
(* the exchange a request is going to save, so what the request holds is    *)
(* the saved exchange, or what that goes on to.                             *)
GoesOn(before, after) ==
  /\ Len(after.steps) >= Len(before.steps)
  /\ \A i \in DOMAIN before.steps :
       /\ after.steps[i].stepId = before.steps[i].stepId
       /\ before.steps[i].isComplete => after.steps[i].isComplete
  /\ before.state = "completed" =>
       GetExchangeState(after) = GetExchangeState(before)

(* In terms of the walk: no step of it, or one.                             *)
WalksOn(config, before, after) ==
  \/ WalkOf(after) = WalkOf(before)
  \/ Walk!WalkStep(config, WalkOf(before), WalkOf(after))

Unraced(request) ==
  LET row == exchanges[request.exchangeId]
      config == workflows[row.workflowId]
  IN /\ request.op \in Holding => row # None
     /\ request.op = "participate" => request.exchange = row
     /\ request.op \in {"save", "review"} =>
          /\ GoesOn(row, request.exchange)
          /\ WalksOn(config, row, request.exchange)

SerialInv ==
  /\ PathInv
  /\ \A r \in Request : Unraced(requests[r])

(* addReview completes a step, and touches no other.                        *)
LEMMA ReviewGoesOn ==
  ASSUME NEW exchange, NEW after, NEW i, NEW step,
         Reviews(exchange, after, i, step)
  PROVE  GoesOn(exchange, after)
<1>1. /\ exchange.steps \in Seq(ExchangeStep)
      /\ after.steps \in Seq(ExchangeStep)
      /\ Len(after.steps) = Len(exchange.steps)
      /\ Len(exchange.steps) \in 1..Len(exchange.steps)
      /\ after.state = exchange.state
  BY DEF Reviews, IsReviewed, WfExchange
<1>2. ASSUME NEW j \in 1..Len(exchange.steps)
      PROVE  /\ after.steps[j].stepId = exchange.steps[j].stepId
             /\ exchange.steps[j].isComplete => after.steps[j].isComplete
  BY DEF Reviews, IsReviewed
<1>3. Last(after.steps).stepId = Last(exchange.steps).stepId
  BY <1>1, <1>2 DEF Last
<1> QED
  BY <1>1, <1>2, <1>3 DEF GoesOn, GetExchangeState

(* processPresentation finds a completed exchange at the end of its         *)
(* workflow, and leaves it there; any other it takes further.               *)
LEMMA ProcessGoesOn ==
  ASSUME NEW e, NEW exchange, NEW after, NEW config, NEW step,
         Processes(e, exchange, after, config, step),
         OnPath(config, exchange), NoneLeftBehind(exchange)
  PROVE  GoesOn(exchange, after)
<1>1. PICK n, current, definition, next :
        /\ n = Len(exchange.steps)
        /\ current = exchange.steps[n]
        /\ definition = NextStepDefinition(config, current.stepId)
        /\ IsAdvanced(after, exchange, step, definition, next)
  BY DEF Processes
<1>2. /\ n \in Nat \ {0}
      /\ exchange.steps \in Seq(ExchangeStep)
      /\ after.steps \in Seq(ExchangeStep)
      /\ current = Last(exchange.steps)
  BY <1>1, LastStep DEF Processes, IsAdvanced, WfExchange
<1>3. /\ step.stepId = current.stepId
      /\ current.isComplete => step.isComplete
  BY <1>1 DEF Processes
<1>4. /\ \A j \in 1..n - 1 : after.steps[j] = exchange.steps[j]
      /\ after.steps[n] = step
      /\ Len(after.steps) \in {n, n + 1}
  BY <1>1 DEF IsAdvanced
<1>5. ASSUME NEW j \in 1..n
      PROVE  /\ after.steps[j].stepId = exchange.steps[j].stepId
             /\ exchange.steps[j].isComplete => after.steps[j].isComplete
  <2>1. CASE j = n
    BY <1>1, <1>3, <1>4, <2>1
  <2>2. CASE j # n
    BY <1>2, <1>4, <2>2
  <2> QED
    BY <2>1, <2>2
<1>6. ASSUME exchange.state = "completed"
      PROVE  GetExchangeState(after) = GetExchangeState(exchange)
  <2>1. current.isComplete
    <3>1. n \in 1..Len(exchange.steps)
      BY <1>1, <1>2
    <3> QED
      BY <1>1, <1>6, <3>1, Zenon DEF NoneLeftBehind
  <2>2. definition = None
    BY <1>1, <1>2, <1>6 DEF OnPath
  <2>3. Len(after.steps) = n /\ after.state = "completed"
    BY <1>1, <1>3, <2>1, <2>2 DEF IsAdvanced
  <2>4. Last(after.steps) = step
    BY <1>2, <1>4, <2>3 DEF Last
  <2> QED
    BY <1>2, <1>3, <1>6, <2>3, <2>4 DEF GetExchangeState
<1> QED
  BY <1>1, <1>2, <1>4, <1>5, <1>6 DEF GoesOn

(* What the walk of an exchange is.                                         *)
LEMMA WalkFields ==
  ASSUME NEW exchange \in WfExchange, exchange.steps # <<>>,
         NEW n, n = Len(exchange.steps),
         NEW current, current = exchange.steps[n],
         NEW walk, walk = WalkOf(exchange)
  PROVE  /\ walk = [workflowId |-> exchange.workflowId,
                    trail      |-> Trail(exchange.steps),
                    isComplete |-> current.isComplete,
                    isOver     |-> exchange.state = "completed"]
         /\ Trail(exchange.steps) \in Seq(StepId)
         /\ Len(Trail(exchange.steps)) = n
         /\ Trail(exchange.steps) # <<>>
         /\ Walk!Current(walk) = current.stepId
         /\ n \in Nat \ {0}
<1>1. /\ exchange.steps \in Seq(ExchangeStep)
      /\ n \in Nat \ {0}
      /\ \A i \in 1..n : exchange.steps[i] \in ExchangeStep
  BY DEF WfExchange
<1>2. PICK trail : trail = Trail(exchange.steps)
  OBVIOUS
<1>3. trail = [i \in 1..n |-> exchange.steps[i].stepId]
  BY <1>2 DEF Trail
<1>4. \A i \in 1..n : exchange.steps[i].stepId \in StepId
  BY <1>1 DEF ExchangeStep
<1>5. trail \in Seq(StepId) /\ Len(trail) = n
  BY <1>1, <1>3, <1>4
<1>6. trail # <<>> /\ trail[n] = current.stepId
  BY <1>1, <1>3, <1>5
<1>7. (exchange.steps # <<>> /\ Last(exchange.steps).isComplete)
        = current.isComplete
  <2>1. Last(exchange.steps) = current
    BY DEF Last
  <2>2. current.isComplete \in BOOLEAN
    BY <1>1 DEF ExchangeStep
  <2> QED
    BY <2>1, <2>2
<1>8. walk = [workflowId |-> exchange.workflowId, trail |-> trail,
              isComplete |-> current.isComplete,
              isOver     |-> exchange.state = "completed"]
  BY <1>2, <1>7 DEF WalkOf
<1>9. Walk!Current(walk) = current.stepId
  BY <1>5, <1>6, <1>8 DEF Walk!Current
<1> QED
  BY <1>1, <1>2, <1>5, <1>6, <1>8, <1>9

(* Steps of the same names make the same trail, one more step a longer one. *)
LEMMA SameTrail ==
  ASSUME NEW exchange \in WfExchange, NEW after \in WfExchange,
         Len(after.steps) = Len(exchange.steps),
         \A i \in 1..Len(exchange.steps) :
           after.steps[i].stepId = exchange.steps[i].stepId
  PROVE  Trail(after.steps) = Trail(exchange.steps)
BY DEF Trail

LEMMA LongerTrail ==
  ASSUME NEW exchange \in WfExchange, NEW after \in WfExchange,
         NEW n, n = Len(exchange.steps), Len(after.steps) = n + 1,
         \A i \in 1..n : after.steps[i].stepId = exchange.steps[i].stepId,
         NEW stepId, after.steps[n + 1].stepId = stepId
  PROVE  Trail(after.steps) = Append(Trail(exchange.steps), stepId)
<1>1. /\ exchange.steps \in Seq(ExchangeStep)
      /\ after.steps \in Seq(ExchangeStep)
      /\ n \in Nat
  BY DEF WfExchange
<1>2. PICK trail, longer : /\ trail = Trail(exchange.steps)
                           /\ longer = Trail(after.steps)
  OBVIOUS
<1>3. /\ trail = [i \in 1..n |-> exchange.steps[i].stepId]
      /\ longer = [i \in 1..n + 1 |-> after.steps[i].stepId]
  BY <1>2 DEF Trail
<1>4. /\ \A i \in 1..n : exchange.steps[i].stepId \in StepId
      /\ \A i \in 1..n + 1 : after.steps[i].stepId \in StepId
  <2>1. /\ \A i \in 1..n : exchange.steps[i] \in ExchangeStep
        /\ \A i \in 1..n + 1 : after.steps[i] \in ExchangeStep
    BY StepOfExchange
  <2> QED
    BY <2>1 DEF ExchangeStep
<1>5. /\ trail \in Seq(StepId) /\ Len(trail) = n
      /\ longer \in Seq(StepId) /\ Len(longer) = n + 1
  BY <1>1, <1>3, <1>4
<1>6. /\ \A i \in 1..n : longer[i] = trail[i]
      /\ longer[n + 1] = stepId
      /\ stepId \in StepId
  BY <1>1, <1>3, <1>4
<1>7. longer = Append(trail, stepId)
  BY <1>1, <1>5, <1>6
<1> QED
  BY <1>2, <1>7

(* addReview completes an open issuance; nothing else is a step.            *)
LEMMA ReviewWalksOn ==
  ASSUME NEW exchange, NEW after, NEW i, NEW step, NEW config,
         Reviews(exchange, after, i, step), OnPath(config, exchange)
  PROVE  WalksOn(config, exchange, after)
<1>1. PICK n, current, last, walk, next :
        /\ n = Len(exchange.steps)
        /\ current = exchange.steps[n]
        /\ last = after.steps[n]
        /\ walk = WalkOf(exchange)
        /\ next = WalkOf(after)
  OBVIOUS
<1>2. /\ exchange \in WfExchange
      /\ after \in WfExchange
      /\ i \in 1..n
      /\ n \in Nat \ {0}
      /\ exchange.steps # <<>>
      /\ after.steps # <<>>
      /\ Len(after.steps) = n
      /\ after.workflowId = exchange.workflowId
      /\ after.state = exchange.state
  BY <1>1 DEF Reviews, IsReviewed, WfExchange
<1>3. \A j \in 1..n : after.steps[j].stepId = exchange.steps[j].stepId
  BY <1>1 DEF Reviews, IsReviewed
<1>4. PICK trail : trail = Trail(exchange.steps) /\ trail = Trail(after.steps)
  BY <1>1, <1>2, <1>3, SameTrail
<1>5. PICK over : over = (exchange.state = "completed")
  OBVIOUS
<1>6. /\ walk = [workflowId |-> exchange.workflowId, trail |-> trail,
                 isComplete |-> current.isComplete, isOver |-> over]
      /\ trail # <<>>
      /\ Walk!Current(walk) = current.stepId
  <2>1. /\ walk = [workflowId |-> exchange.workflowId,
                   trail      |-> Trail(exchange.steps),
                   isComplete |-> current.isComplete,
                   isOver     |-> exchange.state = "completed"]
        /\ Trail(exchange.steps) # <<>>
        /\ Walk!Current(walk) = current.stepId
    BY <1>1, <1>2, WalkFields
  <2> QED
    BY <1>4, <1>5, <2>1
<1>7. next = [workflowId |-> exchange.workflowId, trail |-> trail,
              isComplete |-> last.isComplete, isOver |-> over]
  <2>1. next = [workflowId |-> after.workflowId, trail |-> Trail(after.steps),
                isComplete |-> last.isComplete,
                isOver     |-> after.state = "completed"]
    BY <1>1, <1>2, WalkFields
  <2> QED
    BY <1>2, <1>4, <1>5, <2>1
<1>8. CASE last.isComplete = current.isComplete
  BY <1>1, <1>8, <1>6, <1>7 DEF WalksOn
<1>9. CASE last.isComplete # current.isComplete
  <2>1. i = n
    BY <1>1, <1>2, <1>9 DEF Reviews, IsReviewed
  <2>2. /\ last = step
        /\ last.isComplete
        /\ current.type = "issuance"
    BY <1>1, <2>1 DEF Reviews, IsReviewed
  <2>3. /\ last.isComplete \in BOOLEAN
        /\ current.isComplete \in BOOLEAN
    BY <1>1, <1>2, StepOfExchange DEF ExchangeStep
  <2>4. last.isComplete = TRUE /\ current.isComplete = FALSE
    BY <1>9, <2>2, <2>3
  <2>5. IsOfWorkflow(config, current)
    BY <1>1, <1>2 DEF OnPath
  <2>6. Walk!IsAt(config, walk, "issuance")
    BY <1>6, <2>2, <2>5 DEF IsOfWorkflow, Walk!IsAt
  <2>7. next = Walk!Walk(walk.workflowId, walk.trail, TRUE, walk.isOver)
    BY <1>6, <1>7, <2>4 DEF Walk!Walk
  <2>8. Walk!ReviewedIssuance(config, walk, next)
    BY <1>6, <2>4, <2>6, <2>7 DEF Walk!ReviewedIssuance
  <2> QED
    BY <1>1, <2>8 DEF WalksOn, Walk!WalkStep
<1> QED
  BY <1>8, <1>9

(* processPresentation goes one step further, or none: from an issuance     *)
(* that is not reviewed, or when the exchange is completed already.         *)
LEMMA ProcessWalksOn ==
  ASSUME NEW e, NEW exchange, NEW after, NEW config, NEW step,
         Processes(e, exchange, after, config, step),
         OnPath(config, exchange), NoneLeftBehind(exchange)
  PROVE  WalksOn(config, exchange, after)
<1>1. PICK n, current, definition, added, walk, next :
        /\ n = Len(exchange.steps)
        /\ current = exchange.steps[n]
        /\ definition = NextStepDefinition(config, current.stepId)
        /\ definition # None => added.type = definition.type /\ ~added.isComplete
        /\ added.stepId = config.steps[current.stepId].nextStep
        /\ IsAdvanced(after, exchange, step, definition, added)
        /\ walk = WalkOf(exchange)
        /\ next = WalkOf(after)
  BY DEF Processes
<1>2. /\ exchange \in WfExchange
      /\ after \in WfExchange
      /\ exchange.steps # <<>>
      /\ step.stepId = current.stepId
      /\ step.type = current.type
      /\ IF current.type = "query" THEN step.isComplete ELSE step = current
  BY <1>1 DEF Processes
<1>3. /\ n \in Nat \ {0}
      /\ n \in 1..n
      /\ current \in ExchangeStep
      /\ current = Last(exchange.steps)
  BY <1>1, <1>2, LastStep DEF IsAdvanced
<1>4. /\ \A j \in 1..n - 1 : after.steps[j] = exchange.steps[j]
      /\ after.steps[n] = step
      /\ after.workflowId = exchange.workflowId
  BY <1>1 DEF IsAdvanced
<1>5. \A j \in 1..n : after.steps[j].stepId = exchange.steps[j].stepId
  <2>1. \A j \in 1..n : j = n \/ j \in 1..n - 1
    BY <1>3
  <2> QED
    BY <1>1, <1>2, <1>4, <2>1
<1>6. PICK trail, over : /\ trail = Trail(exchange.steps)
                         /\ over = (exchange.state = "completed")
  OBVIOUS
<1>7. /\ walk = [workflowId |-> exchange.workflowId, trail |-> trail,
                 isComplete |-> current.isComplete, isOver |-> over]
      /\ trail # <<>>
      /\ Walk!Current(walk) = current.stepId
  BY <1>1, <1>2, <1>6, WalkFields
<1>8. IsOfWorkflow(config, current)
  BY <1>1, <1>3 DEF OnPath
<1>9. Walk!IsAt(config, walk, current.type)
  BY <1>7, <1>8 DEF IsOfWorkflow, Walk!IsAt
<1>10. exchange.state = "completed" => current.isComplete
  BY <1>1, <1>3, Zenon DEF NoneLeftBehind
<1>11. ASSUME step.isComplete, exchange.state # "completed",
              Walk!Forward(config, walk, next)
       PROVE  WalksOn(config, exchange, after)
  <2>1. CASE current.type = "query"
    <3>1. ~current.isComplete
      BY <1>2, <1>3, <1>11, <2>1 DEF OnPath
    <3>2. Walk!AnsweredQuery(config, walk, next)
      BY <1>7, <1>9, <1>11, <2>1, <3>1 DEF Walk!AnsweredQuery
    <3> QED
      BY <1>1, <3>2 DEF WalksOn, Walk!WalkStep
  <2>2. CASE current.type # "query"
    <3>1. current.type = "issuance"
      BY <1>3, <2>2 DEF ExchangeStep, StepType
    <3>2. current.isComplete
      BY <1>2, <1>11, <2>2
    <3>3. Walk!TakenIssuance(config, walk, next)
      BY <1>6, <1>7, <1>9, <1>11, <3>1, <3>2 DEF Walk!TakenIssuance
    <3> QED
      BY <1>1, <3>3 DEF WalksOn, Walk!WalkStep
  <2> QED
    BY <2>1, <2>2
<1>12. CASE ~(step.isComplete /\ definition # None)
  <2>1. Len(after.steps) = n
    BY <1>1, <1>12 DEF IsAdvanced
  <2>2. trail = Trail(after.steps)
    BY <1>1, <1>2, <1>5, <1>6, <2>1, SameTrail
  <2>3. after.steps # <<>> /\ step \in ExchangeStep
    BY <1>2, <1>3, <1>4, <2>1, StepOfExchange
  <2>4. PICK nextOver : nextOver = (after.state = "completed")
    OBVIOUS
  <2>5. next = [workflowId |-> exchange.workflowId, trail |-> trail,
                isComplete |-> step.isComplete, isOver |-> nextOver]
    <3>1. next = [workflowId |-> after.workflowId, trail |-> Trail(after.steps),
                  isComplete |-> step.isComplete,
                  isOver     |-> after.state = "completed"]
      BY <1>1, <1>2, <1>4, <2>1, <2>3, WalkFields
    <3> QED
      BY <1>4, <2>2, <2>4, <3>1
  <2>6. CASE ~step.isComplete
    <3>1. step = current /\ ~current.isComplete
      BY <1>2, <2>6
    <3>2. after.state = "active" /\ exchange.state # "completed"
      BY <1>1, <1>10, <2>6, <3>1 DEF IsAdvanced
    <3>3. nextOver = over
      BY <1>6, <2>4, <3>2
    <3> QED
      BY <1>1, <1>7, <2>5, <3>1, <3>3 DEF WalksOn
  <2>7. CASE step.isComplete
    <3>1. definition = None /\ after.state = "completed"
      BY <1>1, <1>12, <2>7 DEF IsAdvanced
    <3>2. step.isComplete = TRUE /\ nextOver = TRUE
      BY <2>3, <2>4, <2>7, <3>1 DEF ExchangeStep
    <3>3. CASE exchange.state = "completed"
      <4>1. current.isComplete = TRUE /\ over = TRUE
        BY <1>3, <1>6, <1>10, <3>3 DEF ExchangeStep
      <4> QED
        BY <1>1, <1>7, <2>5, <3>2, <4>1 DEF WalksOn
    <3>4. CASE exchange.state # "completed"
      <4>1. next = Walk!Walk(walk.workflowId, walk.trail, TRUE, TRUE)
        BY <1>7, <2>5, <3>2 DEF Walk!Walk
      <4>2. Walk!NextDefined(config, walk) = {}
        BY <1>1, <1>7, <3>1 DEF NextStepDefinition, Walk!NextDefined
      <4> QED
        BY <1>11, <2>7, <3>4, <4>1, <4>2 DEF Walk!Forward
    <3> QED
      BY <3>3, <3>4
  <2> QED
    BY <2>6, <2>7
<1>13. CASE step.isComplete /\ definition # None
  <2>1. /\ Len(after.steps) = n + 1
        /\ after.steps[n + 1] = added
        /\ after.state = "active"
    BY <1>1, <1>13 DEF IsAdvanced
  <2>2. PICK stepId : stepId = added.stepId
    OBVIOUS
  <2>3. Trail(after.steps) = Append(trail, stepId)
    BY <1>1, <1>2, <1>5, <1>6, <2>1, <2>2, LongerTrail
  <2>4. after.steps # <<>> /\ added \in ExchangeStep
    BY <1>2, <1>3, <2>1, StepOfExchange
  <2>5. added.isComplete = FALSE /\ (after.state = "completed") = FALSE
    BY <1>1, <1>13, <2>1, <2>4 DEF ExchangeStep
  <2>6. exchange.state # "completed"
    BY <1>1, <1>2, <1>3, <1>13 DEF OnPath
  <2>7. over = FALSE
    BY <1>6, <2>6
  <2>8. next = [workflowId |-> exchange.workflowId, trail |-> Append(trail, stepId),
                isComplete |-> FALSE, isOver |-> FALSE]
    <3>1. next = [workflowId |-> after.workflowId, trail |-> Trail(after.steps),
                  isComplete |-> added.isComplete,
                  isOver     |-> after.state = "completed"]
      BY <1>1, <1>2, <2>1, <2>4, WalkFields
    <3> QED
      BY <1>4, <2>3, <2>5, <3>1
  <2>9. next = Walk!Walk(walk.workflowId, Append(walk.trail, stepId), FALSE, FALSE)
    BY <1>7, <2>8 DEF Walk!Walk
  <2>10. stepId \in Walk!NextDefined(config, walk)
    <3>1. /\ stepId = config.steps[current.stepId].nextStep
          /\ stepId # None
          /\ config.steps[stepId] # None
      BY <1>1, <1>13, <2>2 DEF NextStepDefinition
    <3> QED
      BY <1>7, <3>1 DEF Walk!NextDefined
  <2>11. Walk!Forward(config, walk, next)
    BY <2>9, <2>10 DEF Walk!Forward
  <2> QED
    BY <1>11, <1>13, <2>6, <2>11
<1> QED
  BY <1>12, <1>13

LEMMA GoesOnItself ==
  ASSUME NEW exchange \in WfExchange
  PROVE  GoesOn(exchange, exchange)
<1>1. Len(exchange.steps) \in Nat
  BY DEF WfExchange
<1> QED
  BY <1>1 DEF GoesOn

-------------------------------------------------------------------------------
LEMMA UnracedStays ==
  ASSUME SerialInv, Kept, NEW r \in Request, NEW request, request = requests[r],
         request.op \in Holding =>
           exchanges'[request.exchangeId] = exchanges[request.exchangeId]
  PROVE  Unraced(request)'
<1>1. CASE request.op \notin Holding
  BY <1>1 DEF Unraced, Holding
<1>2. CASE request.op \in Holding
  <2>1. Unraced(request)
    BY DEF SerialInv
  <2>2. PICK e, row : e = request.exchangeId /\ row = exchanges[e]
    OBVIOUS
  <2>3. e \in Exchange
    BY <1>2, <2>2, RequestKinds DEF Holding, SerialInv, PathInv, IInv, TypeOK
  <2>4. row # None
    BY <1>2, <2>1, <2>2 DEF Unraced
  <2>5. PICK w \in Workflow : w = row.workflowId
    BY <2>2, <2>3, <2>4 DEF SerialInv, PathInv, IInv, TypeOK, WfExchange
  <2>6. workflows[w] # None
    BY <2>2, <2>3, <2>4, <2>5
       DEF SerialInv, PathInv, IInv, RowInv, ExchangeInv, StepsInv
  <2>7. workflows'[w] = workflows[w]
    BY <2>6 DEF Kept
  <2>8. exchanges'[e] = row
    BY <1>2, <2>2
  <2> QED
    BY <2>1, <2>2, <2>5, <2>7, <2>8 DEF Unraced
<1> QED
  BY <1>1, <1>2

(* Request r takes up request or lets go; no exchange held changes.         *)
LEMMA OthersStayUnraced ==
  ASSUME SerialInv, Kept, NEW r \in Request, NEW request,
         requests' = [requests EXCEPT ![r] = request],
         Unraced(request)',
         \A s \in Request \ {r} :
           requests[s].op \in Holding =>
             exchanges'[requests[s].exchangeId] = exchanges[requests[s].exchangeId]
  PROVE  \A s \in Request : Unraced(requests[s])'
<1> SUFFICES ASSUME NEW s \in Request
             PROVE  Unraced(requests[s])'
  OBVIOUS
<1>1. requests \in [Request -> RequestState]
  BY DEF SerialInv, PathInv, IInv, TypeOK
<1>2. CASE s = r
  <2>1. requests'[s] = request
    BY <1>1, <1>2
  <2> QED
    BY <2>1
<1>3. CASE s # r
  <2>1. PICK held : held = requests[s]
    OBVIOUS
  <2>2. requests'[s] = held
    BY <1>1, <1>3, <2>1
  <2>3. Unraced(held)'
    BY <1>3, <2>1, UnracedStays
  <2> QED
    BY <2>2, <2>3
<1> QED
  BY <1>2, <1>3

LEMMA AllStayUnraced ==
  ASSUME SerialInv, Kept, UNCHANGED requests,
         \A s \in Request :
           requests[s].op \in Holding =>
             exchanges'[requests[s].exchangeId] = exchanges[requests[s].exchangeId]
  PROVE  \A s \in Request : Unraced(requests[s])'
<1> SUFFICES ASSUME NEW s \in Request
             PROVE  Unraced(requests[s])'
  OBVIOUS
<1>1. PICK held : held = requests[s]
  OBVIOUS
<1>2. Unraced(held)'
  BY <1>1, UnracedStays
<1> QED
  BY <1>1, <1>2

LEMMA IdleIsUnraced ==
  Unraced(Idle)'
BY DEF Unraced, Idle, Holding

LEMMA UnracedClientCall ==
  ASSUME SerialInv, Kept, NEW r \in Request, ClientCall(r)
  PROVE  \A s \in Request : Unraced(requests[s])'
<1>0. UNCHANGED <<workflows, exchanges>>
  BY DEF ClientCall, RefuseCall, CreateWorkflowConflict, CreateWorkflowCheck,
         ParticipateLoad, ReviewLoad, database, vars
<1>1. CASE RefuseCall(r)
  <2>1. UNCHANGED requests
    BY <1>1 DEF RefuseCall, vars
  <2> QED
    BY <1>0, <2>1, AllStayUnraced
<1>2. ASSUME NEW id \in Workflow \cup {None},
             \/ CreateWorkflowConflict(r, id)
             \/ \E config \in WorkflowConfigs : CreateWorkflowCheck(r, id, config)
      PROVE  \A s \in Request : Unraced(requests[s])'
  <2>1. CASE CreateWorkflowConflict(r, id)
    <3>1. PICK request : request = [op |-> "conflict", workflowId |-> id]
      OBVIOUS
    <3>2. Unraced(request)'
      BY <3>1 DEF Unraced, Holding
    <3>3. requests' = [requests EXCEPT ![r] = request]
      BY <2>1, <3>1 DEF CreateWorkflowConflict
    <3> QED
      BY <1>0, <3>2, <3>3, OthersStayUnraced
  <2>2. ASSUME NEW config \in WorkflowConfigs, CreateWorkflowCheck(r, id, config)
        PROVE  \A s \in Request : Unraced(requests[s])'
    <3>1. PICK w, request :
            /\ request = [op |-> "createWorkflow", workflowId |-> w,
                          config |-> config]
            /\ requests' = [requests EXCEPT ![r] = request]
      BY <2>2 DEF CreateWorkflowCheck
    <3>2. Unraced(request)'
      BY <3>1 DEF Unraced, Holding
    <3> QED
      BY <1>0, <3>1, <3>2, OthersStayUnraced
  <2> QED
    BY <1>2, <2>1, <2>2
<1>3. ASSUME NEW e \in Exchange, NEW presentation \in Submissions,
             ParticipateLoad(r, e, presentation)
      PROVE  \A s \in Request : Unraced(requests[s])'
  <2>1. PICK request, exchange :
          /\ exchange = exchanges[e]
          /\ request = [op |-> "participate", exchangeId |-> e,
                        exchange |-> exchange, presentation |-> presentation]
    OBVIOUS
  <2>2. requests' = [requests EXCEPT ![r] = request]
    BY <1>3, <2>1 DEF ParticipateLoad
  <2>3. Unraced(request)'
    BY <1>0, <1>3, <2>1 DEF Unraced, ParticipateLoad
  <2> QED
    BY <1>0, <2>2, <2>3, OthersStayUnraced
<1>4. ASSUME NEW e \in Exchange, NEW stepId \in StepId,
             NEW result \in ReviewResult, NEW vp \in IssuedVp \cup {None},
             ReviewLoad(r, e, stepId, result, vp)
      PROVE  \A s \in Request : Unraced(requests[s])'
  <2>1. PICK exchange, after, i, step :
           /\ exchange = exchanges[e]
           /\ requests' = [requests EXCEPT ![r] =
                             [op |-> "review", exchangeId |-> e,
                              stepId |-> stepId, result |-> result, vp |-> vp,
                              exchange |-> after]]
           /\ Reviews(exchange, after, i, step)
    BY <1>4, ReviewHandsOn DEF SerialInv, PathInv
  <2>2. PICK request :
          request = [op |-> "review", exchangeId |-> e, stepId |-> stepId,
                     result |-> result, vp |-> vp, exchange |-> after]
    OBVIOUS
  <2>3. Unraced(request)'
    <3>1. GoesOn(exchange, after)
      BY <2>1, ReviewGoesOn
    <3>2. exchanges'[e] = exchange /\ exchange # None
      BY <1>0, <1>4, <2>1 DEF ReviewLoad
    <3>3. PICK config : config = workflows[exchange.workflowId]
      OBVIOUS
    <3>4. OnPath(config, exchange)
      BY <2>1, <3>2, <3>3, <1>0 DEF SerialInv, PathInv, OnItsPath
    <3>5. WalksOn(config, exchange, after)
      BY <2>1, <3>4, ReviewWalksOn
    <3>6. workflows'[exchange.workflowId] = config
      BY <1>0, <3>3
    <3> QED
      BY <2>2, <3>1, <3>2, <3>5, <3>6 DEF Unraced
  <2> QED
    BY <1>0, <2>1, <2>2, <2>3, OthersStayUnraced
<1> QED
  BY <1>1, <1>2, <1>3, <1>4 DEF ClientCall

LEMMA UnracedProcess ==
  ASSUME SerialInv, Kept, NEW r \in Request, ParticipateProcess(r)
  PROVE  \A s \in Request : Unraced(requests[s])'
<1>1. UNCHANGED <<workflows, exchanges>>
  BY DEF ParticipateProcess, database
<1>2. PICK e, exchange, after, config, step, stepId :
           /\ requests[r].op = "participate"
           /\ e = requests[r].exchangeId
           /\ exchange = requests[r].exchange
           /\ config = workflows[exchange.workflowId]
           /\ requests' = [requests EXCEPT ![r] =
                             [op |-> "save", exchangeId |-> e, exchange |-> after,
                              stepId |-> stepId]]
           /\ Processes(e, exchange, after, config, step)
  BY ProcessHandsOn DEF SerialInv, PathInv
<1>3. PICK request :
        request = [op |-> "save", exchangeId |-> e, exchange |-> after,
                   stepId |-> stepId]
  OBVIOUS
<1>4. GoesOn(exchange, after) /\ WalksOn(config, exchange, after)
  <2>1. OnPath(config, exchange)
    BY <1>2 DEF SerialInv, PathInv, PathHeld, Holding, OnItsPath
  <2>2. NoneLeftBehind(exchange)
    BY <1>2 DEF SerialInv, PathInv, IInv, RequestInv, ExchangeInv, StepsInv
  <2> QED
    BY <1>2, <2>1, <2>2, ProcessGoesOn, ProcessWalksOn
<1>5. exchanges'[e] = exchange /\ exchange # None
  BY <1>1, <1>2 DEF SerialInv, Unraced, Holding
<1>6. workflows'[exchange.workflowId] = config
  BY <1>1, <1>2
<1>7. Unraced(request)'
  BY <1>3, <1>4, <1>5, <1>6 DEF Unraced
<1> QED
  BY <1>1, <1>2, <1>3, <1>7, OthersStayUnraced

(* A save writes what the saved exchange goes on to, a step of its walk or  *)
(* none.                                                                    *)
Saves(r, e, exchange) ==
  /\ e \in Exchange
  /\ exchange \in WfExchange
  /\ e = requests[r].exchangeId
  /\ requests[r].op \in Holding
  /\ exchanges[e] # None
  /\ GoesOn(exchanges[e], exchange)
  /\ WalksOn(workflows[exchanges[e].workflowId], exchanges[e], exchange)
  /\ UNCHANGED workflows
  /\ exchanges' = [exchanges EXCEPT ![e] = exchange]

LEMMA SaveGoesOn ==
  ASSUME SerialInv, NEW r \in Request, ParticipateSave(r) \/ ReviewSave(r)
  PROVE  \E e, exchange : Saves(r, e, exchange)
<1>1. requests[r] \in RequestState /\ requests[r].op \in {"save", "review"}
  BY DEF SerialInv, PathInv, IInv, TypeOK, ParticipateSave, ReviewSave
<1>2. PICK e, exchange : e = requests[r].exchangeId /\ exchange = requests[r].exchange
  OBVIOUS
<1>3. e \in Exchange /\ exchange \in WfExchange
  BY <1>1, <1>2, RequestKinds
<1>4. /\ exchanges[e] # None
      /\ GoesOn(exchanges[e], exchange)
      /\ WalksOn(workflows[exchanges[e].workflowId], exchanges[e], exchange)
  BY <1>1, <1>2 DEF SerialInv, Unraced, Holding
<1>5. exchanges' = [exchanges EXCEPT ![e] = exchange] /\ UNCHANGED workflows
  BY <1>2 DEF ParticipateSave, ReviewSave
<1> QED
  BY <1>1, <1>2, <1>3, <1>4, <1>5 DEF Saves, Holding

LEMMA UnracedSave ==
  ASSUME SerialInv, Kept, OneRequestPerExchange,
         NEW r \in Request, ParticipateSave(r) \/ ReviewSave(r)
  PROVE  \A s \in Request : Unraced(requests[s])'
<1>1. PICK e, exchange : Saves(r, e, exchange)
  BY SaveGoesOn
<1>2. ASSUME NEW s \in Request \ {r}, requests[s].op \in Holding
      PROVE  exchanges'[requests[s].exchangeId] = exchanges[requests[s].exchangeId]
  <2>1. requests[s].exchangeId # e
    BY <1>1, <1>2 DEF Saves, OneRequestPerExchange
  <2>2. requests[s].exchangeId \in Exchange
    BY <1>2, RequestKinds DEF Holding, SerialInv, PathInv, IInv, TypeOK
  <2> QED
    BY <1>1, <2>1, <2>2 DEF Saves, SerialInv, PathInv, IInv, TypeOK
<1>3. CASE ParticipateSave(r)
  <2>1. PICK request : request = [requests[r] EXCEPT !.op = "respond"]
    OBVIOUS
  <2>2. requests' = [requests EXCEPT ![r] = request]
    BY <1>3, <2>1 DEF ParticipateSave
  <2>3. request.op = "respond"
    BY <1>3, <2>1 DEF ParticipateSave, SerialInv, PathInv, IInv, TypeOK,
                      RequestState, Idle
  <2>4. Unraced(request)'
    BY <2>3 DEF Unraced, Holding
  <2> QED
    BY <1>2, <2>2, <2>4, OthersStayUnraced
<1>4. CASE ReviewSave(r)
  <2>1. requests' = [requests EXCEPT ![r] = Idle]
    BY <1>4 DEF ReviewSave, Answer
  <2> QED
    BY <1>2, <2>1, IdleIsUnraced, OthersStayUnraced
<1> QED
  BY <1>3, <1>4

LEMMA UnracedCreate ==
  ASSUME SerialInv, Kept, NEW w \in Workflow, NEW e \in Exchange,
         CreateExchange(w, e)
  PROVE  \A s \in Request : Unraced(requests[s])'
<1>1. UNCHANGED requests /\ exchanges[e] = None
  BY DEF CreateExchange
<1>2. ASSUME NEW s \in Request, requests[s].op \in Holding
      PROVE  exchanges'[requests[s].exchangeId] = exchanges[requests[s].exchangeId]
  <2>1. requests[s].exchangeId # e
    BY <1>1, <1>2 DEF SerialInv, Unraced
  <2>2. requests[s].exchangeId \in Exchange
    BY <1>2, RequestKinds DEF Holding, SerialInv, PathInv, IInv, TypeOK
  <2>3. PICK exchange : exchanges' = [exchanges EXCEPT ![e] = exchange]
    BY DEF CreateExchange
  <2> QED
    BY <2>1, <2>2, <2>3 DEF SerialInv, PathInv, IInv, TypeOK
<1> QED
  BY <1>1, <1>2, AllStayUnraced

LEMMA SerialStep ==
  ASSUME SerialInv, OneCreatePerWorkflow, OneRequestPerExchange, [Next]_vars
  PROVE  SerialInv'
<1>0. PathInv' /\ Kept
  BY PathStep, WorkflowsKept DEF SerialInv
<1> DEFINE Held == \A r \in Request : Unraced(requests[r])
<1> SUFFICES Held'
  BY <1>0 DEF SerialInv
<1>1. ASSUME NEW r \in Request, ServerStep(r)
      PROVE  Held'
  <2>1. CASE \/ CreateWorkflowSave(r)
             \/ ConflictAnswered(r)
             \/ ParticipateFailure(r)
             \/ Respond(r)
    <3>1. UNCHANGED exchanges /\ requests' = [requests EXCEPT ![r] = Idle]
      BY <2>1 DEF CreateWorkflowSave, ConflictAnswered, ParticipateFailure,
                  Respond, Answer, database
    <3> QED
      BY <1>0, <3>1, IdleIsUnraced, OthersStayUnraced
  <2>2. CASE ParticipateProcess(r)
    BY <1>0, <2>2, UnracedProcess
  <2>3. CASE ParticipateSave(r) \/ ReviewSave(r)
    BY <1>0, <2>3, UnracedSave
  <2> QED
    BY <1>1, <2>1, <2>2, <2>3 DEF ServerStep
<1>2. CASE Crash
  <2>1. requests' = [r \in Request |-> Idle]
    BY <1>2 DEF Crash
  <2> QED
    BY <2>1, IdleIsUnraced
<1>3. CASE \/ UNCHANGED vars
           \/ \E c \in callbacks : CallbackDone(c)
           \/ \E e \in Exchange :
                \/ ParticipateEmpty(e)
                \/ \E stepId \in StepId : GetExchangeStep(e, stepId)
  <2>1. UNCHANGED <<exchanges, requests>>
    BY <1>3 DEF vars, CallbackDone, ParticipateEmpty, GetExchangeStep, database
  <2> QED
    BY <1>0, <2>1, AllStayUnraced
<1> QED
  BY <1>0, <1>1, <1>2, <1>3, UnracedClientCall, UnracedCreate DEF Next

(* As long as requests on one exchange do not overlap, whatever a request   *)
(* is about to save is what the saved exchange goes on to: nothing          *)
(* happened to it since participateInExchange or addReview loaded it.       *)
THEOREM SerialInvariance ==
  Spec /\ []OneCreatePerWorkflow /\ []OneRequestPerExchange => []SerialInv
<1>1. Init => SerialInv
  <2>1. Unraced(Idle)
    BY DEF Unraced, Idle, Holding
  <2> QED
    BY <2>1, PathInit DEF Init, SerialInv
<1>2. SerialInv /\ OneCreatePerWorkflow /\ OneRequestPerExchange /\ [Next]_vars
        => SerialInv'
  BY SerialStep
<1> QED
  BY <1>1, <1>2, PTL DEF Spec

(* Only the two saves and createExchange write exchanges.                   *)
LEMMA OnlySavesChangeExchanges ==
  ASSUME [Next]_vars
  PROVE  \/ UNCHANGED exchanges
         \/ \E r \in Request : ParticipateSave(r) \/ ReviewSave(r)
         \/ \E w \in Workflow, e \in Exchange : CreateExchange(w, e)
<1>1. ASSUME NEW r \in Request, ClientCall(r)
      PROVE  UNCHANGED exchanges
  BY <1>1 DEF ClientCall, RefuseCall, CreateWorkflowConflict,
              CreateWorkflowCheck, ParticipateLoad, ReviewLoad, database, vars
<1>2. ASSUME NEW r \in Request, ServerStep(r)
      PROVE  UNCHANGED exchanges \/ ParticipateSave(r) \/ ReviewSave(r)
  BY <1>2 DEF ServerStep, CreateWorkflowSave, ConflictAnswered,
              ParticipateFailure, ParticipateProcess, Respond, database
<1>3. CASE \/ UNCHANGED vars
           \/ Crash
           \/ \E c \in callbacks : CallbackDone(c)
           \/ \E e \in Exchange :
                \/ ParticipateEmpty(e)
                \/ \E stepId \in StepId : GetExchangeStep(e, stepId)
  BY <1>3 DEF vars, Crash, CallbackDone, ParticipateEmpty, GetExchangeStep,
              database
<1> QED
  BY <1>1, <1>2, <1>3 DEF Next

(* An exchange never rolls back, whoever participates, reviews or crashes:  *)
(* its steps keep their names and stay complete, and what a client reads of *)
(* a completed exchange is final, as long as the requests that save it do   *)
(* not overlap and its workflow is not replaced.                            *)
THEOREM ExchangesNeverRollBack ==
  Spec /\ []OneCreatePerWorkflow /\ []OneRequestPerExchange
    => ExchangeNeverRollsBack
<1> DEFINE GoOn == \A e \in Exchange :
                     exchanges[e] # None => GoesOn(exchanges[e], exchanges'[e])
<1>1. ASSUME SerialInv, [Next]_vars
      PROVE  GoOn
  <2> SUFFICES ASSUME NEW e \in Exchange, exchanges[e] # None
               PROVE  GoesOn(exchanges[e], exchanges'[e])
    OBVIOUS
  <2>1. PICK row \in WfExchange : row = exchanges[e]
    BY <1>1 DEF SerialInv, PathInv, IInv, TypeOK
  <2>2. CASE exchanges'[e] = exchanges[e]
    BY <2>1, <2>2, GoesOnItself
  <2>3. ASSUME NEW r \in Request, ParticipateSave(r) \/ ReviewSave(r)
        PROVE  GoesOn(exchanges[e], exchanges'[e])
    <3>1. PICK x, exchange : Saves(r, x, exchange)
      BY <1>1, <2>3, SaveGoesOn
    <3>2. CASE x = e
      <4>1. exchanges'[e] = exchange
        BY <1>1, <3>1, <3>2 DEF Saves, SerialInv, PathInv, IInv, TypeOK
      <4> QED
        BY <3>1, <3>2, <4>1 DEF Saves
    <3>3. CASE x # e
      <4>1. exchanges'[e] = exchanges[e]
        BY <1>1, <3>1, <3>3 DEF Saves, SerialInv, PathInv, IInv, TypeOK
      <4> QED
        BY <2>2, <4>1
    <3> QED
      BY <3>2, <3>3
  <2>4. ASSUME NEW w \in Workflow, NEW x \in Exchange, CreateExchange(w, x)
        PROVE  GoesOn(exchanges[e], exchanges'[e])
    <3>1. x # e
      BY <2>4 DEF CreateExchange
    <3>2. exchanges'[e] = exchanges[e]
      BY <1>1, <2>4, <3>1
         DEF CreateExchange, SerialInv, PathInv, IInv, TypeOK
    <3> QED
      BY <2>2, <3>2
  <2> QED
    BY <1>1, <2>2, <2>3, <2>4, OnlySavesChangeExchanges
<1>2. ASSUME SerialInv, [Next]_vars
      PROVE  [\A e \in Exchange : exchanges[e] # None =>
               /\ Len(exchanges'[e].steps) >= Len(exchanges[e].steps)
               /\ \A i \in DOMAIN exchanges[e].steps :
                    /\ exchanges'[e].steps[i].stepId = exchanges[e].steps[i].stepId
                    /\ exchanges[e].steps[i].isComplete =>
                         exchanges'[e].steps[i].isComplete
               /\ exchanges[e].state = "completed" =>
                    GetExchangeState(exchanges'[e])
                      = GetExchangeState(exchanges[e])]_vars
  BY <1>1, <1>2 DEF GoesOn
<1> QED
  BY <1>2, SerialInvariance, PTL DEF Spec, ExchangeNeverRollsBack

-------------------------------------------------------------------------------
(* The workflows implement the walk.                                        *)

LEMMA WalksStay ==
  ASSUME UNCHANGED exchanges
  PROVE  Walks' = Walks
BY DEF Walks

(* A save of one exchange replaces its walk and leaves the others.          *)
LEMMA WalkSaved ==
  ASSUME NEW e \in Exchange, NEW exchange \in WfExchange,
         exchanges \in [Exchange -> WfExchange \cup {None}],
         exchanges' = [exchanges EXCEPT ![e] = exchange]
  PROVE  /\ Walks' = [Walks EXCEPT ![e] = WalkOf(exchange)]
         /\ Walks'[e] = WalkOf(exchange)
<1>1. exchange # None
  BY ConstantsAssumption
<1>2. PICK walk : walk = WalkOf(exchange)
  OBVIOUS
<1>3. \A x \in Exchange : x # e => exchanges'[x] = exchanges[x]
  OBVIOUS
<1>4. exchanges'[e] = exchange
  OBVIOUS
<1>5. Walks' = [x \in Exchange |-> IF exchanges'[x] = None THEN NoWalk
                                   ELSE WalkOf(exchanges'[x])]
  BY DEF Walks, WalkOf
<1>6. Walks = [x \in Exchange |-> IF exchanges[x] = None THEN NoWalk
                                  ELSE WalkOf(exchanges[x])]
  BY DEF Walks
<1>7. Walks'[e] = walk
  BY <1>1, <1>2, <1>4, <1>5
<1>8. \A x \in Exchange : x # e => Walks'[x] = Walks[x]
  BY <1>3, <1>5, <1>6
<1>9. Walks' = [Walks EXCEPT ![e] = walk]
  BY <1>5, <1>6, <1>7, <1>8
<1> QED
  BY <1>2, <1>7, <1>9

(* The save of a workflow defines it: nobody else has meanwhile.            *)
LEMMA CreateIsDefine ==
  ASSUME PathInv, NEW r \in Request, CreateWorkflowSave(r)
  PROVE  Walk!Next
<1>1. PICK w, config : /\ w = requests[r].workflowId
                       /\ config = requests[r].config
                       /\ workflows' = [workflows EXCEPT ![w] = config]
  BY DEF CreateWorkflowSave
<1>2. w \in Workflow /\ config \in WorkflowConfig
  BY <1>1, RequestKinds DEF PathInv, IInv, TypeOK, CreateWorkflowSave
<1>3. workflows[w] = None
  BY <1>1 DEF PathInv, PathHeld, CreateWorkflowSave
<1>4. workflows'[w] = config
  BY <1>1, <1>2 DEF PathInv, IInv, TypeOK
<1>5. Walks' = Walks
  BY WalksStay DEF CreateWorkflowSave
<1>6. Walk!Define(w)
  BY <1>1, <1>2, <1>3, <1>4, <1>5 DEF Walk!Define
<1> QED
  BY <1>2, <1>6 DEF Walk!Next

(* createExchange begins a walk, at the initial step if that is defined.    *)
LEMMA CreateIsBegin ==
  ASSUME PathInv, NEW w \in Workflow, NEW e \in Exchange, CreateExchange(w, e)
  PROVE  Walk!Next
<1>1. PICK config, stepId, definition :
        /\ config = workflows[w]
        /\ stepId = config.initialStep
        /\ definition = config.steps[stepId]
  OBVIOUS
<1>2. PICK c, steps, exchange :
        /\ steps = IF definition = None THEN <<>>
                   ELSE <<HydratedStep(definition, stepId, c)>>
        /\ exchange = [workflowId |-> w, state |-> "pending", steps |-> steps]
        /\ exchanges' = [exchanges EXCEPT ![e] = exchange]
        /\ c \in StepChallenges(definition)
  BY <1>1 DEF CreateExchange
<1>3. exchange \in WfExchange
  <2>1. config \in WorkflowConfig
    BY <1>1 DEF PathInv, IInv, TypeOK, CreateExchange
  <2>2. stepId \in StepId /\ definition \in WorkflowStepDefinition \cup {None}
    BY <1>1, <2>1 DEF WorkflowConfig
  <2>3. c \in Challenge \cup {None}
    BY <1>2 DEF StepChallenges
  <2>4. definition # None => HydratedStep(definition, stepId, c) \in ExchangeStep
    BY <2>2, <2>3 DEF HydratedStep, ExchangeStep, WorkflowStepDefinition
  <2>5. PICK step : step = HydratedStep(definition, stepId, c)
    OBVIOUS
  <2>6. steps \in Seq(ExchangeStep)
    BY <1>2, <2>4, <2>5
  <2> QED
    BY <1>2, <2>6 DEF WfExchange, ExchangeState
<1>4. PICK trail : trail = IF definition = None THEN <<>> ELSE <<stepId>>
  OBVIOUS
<1>5. WalkOf(exchange) = [workflowId |-> w, trail |-> trail,
                          isComplete |-> FALSE, isOver |-> FALSE]
  <2>1. /\ exchange.workflowId = w
        /\ exchange.steps = steps
        /\ (exchange.state = "completed") = FALSE
    BY <1>2
  <2>2. CASE definition = None
    <3>1. steps = <<>> /\ trail = <<>>
      BY <1>2, <1>4, <2>2
    <3>2. Trail(steps) = <<>>
      BY <3>1 DEF Trail
    <3> QED
      BY <2>1, <3>1, <3>2 DEF WalkOf
  <2>3. CASE definition # None
    <3>1. PICK step : step = HydratedStep(definition, stepId, c)
      OBVIOUS
    <3>2. step.stepId = stepId /\ step.isComplete = FALSE
      BY <3>1 DEF HydratedStep
    <3>3. steps = <<step>> /\ trail = <<stepId>> /\ steps # <<>>
      BY <1>2, <1>4, <2>3, <3>1
    <3>4. Len(steps) = 1 /\ steps[1] = step /\ Last(steps) = step
      BY <3>3, SingleStep
    <3>5. Trail(steps) = <<stepId>>
      BY <3>2, <3>4 DEF Trail
    <3>6. (steps # <<>> /\ Last(steps).isComplete) = FALSE
      BY <3>2, <3>4
    <3> QED
      BY <2>1, <3>3, <3>5, <3>6 DEF WalkOf
  <2> QED
    BY <2>2, <2>3
<1>6. Walks' = [Walks EXCEPT ![e] = [workflowId |-> w, trail |-> trail,
                                     isComplete |-> FALSE, isOver |-> FALSE]]
  BY <1>2, <1>3, <1>5, WalkSaved DEF PathInv, IInv, TypeOK
<1>7. Walks[e] = NoWalk
  BY DEF CreateExchange, Walks
<1>8. Walk!Begin(e, w)
  <2>1. /\ workflows[w] # None
        /\ UNCHANGED workflows
    BY DEF CreateExchange
  <2>2. Walks[e] = Walk!NotBegun
    BY <1>7 DEF NoWalk, Walk!NotBegun, Walk!Walk
  <2>3. trail = IF config.steps[config.initialStep] = None
                THEN <<>> ELSE <<config.initialStep>>
    BY <1>1, <1>4
  <2> QED
    BY <1>1, <1>6, <2>1, <2>2, <2>3 DEF Walk!Begin, Walk!Walk
<1> QED
  BY <1>8 DEF Walk!Next

(* A save by participateInExchange or addReview is one step of the walk, or *)
(* none.                                                                    *)
LEMMA SaveIsGoOn ==
  ASSUME SerialInv, NEW r \in Request, ParticipateSave(r) \/ ReviewSave(r)
  PROVE  [Walk!Next]_(Walk!walking)
<1>1. PICK e, exchange : Saves(r, e, exchange)
  BY SaveGoesOn
<1>2. /\ e \in Exchange
      /\ exchange \in WfExchange
      /\ exchanges[e] # None
      /\ exchanges' = [exchanges EXCEPT ![e] = exchange]
      /\ UNCHANGED workflows
  BY <1>1 DEF Saves
<1>3. PICK row \in WfExchange : row = exchanges[e]
  BY <1>2 DEF SerialInv, PathInv, IInv, TypeOK
<1>4. PICK config : config = workflows[row.workflowId]
  OBVIOUS
<1>5. PICK walk, next : walk = WalkOf(row) /\ next = WalkOf(exchange)
  OBVIOUS
<1>6. next = walk \/ Walk!WalkStep(config, walk, next)
  BY <1>1, <1>3, <1>4, <1>5 DEF Saves, WalksOn
<1>7. Walks[e] = walk
  BY <1>2, <1>3, <1>5 DEF Walks
<1>8. Walks' = [Walks EXCEPT ![e] = next] /\ Walks'[e] = next
  BY <1>2, <1>5, WalkSaved DEF SerialInv, PathInv, IInv, TypeOK
<1>9. CASE next = walk
  <2>1. Walks' = Walks
    BY <1>7, <1>8, <1>9 DEF Walks
  <2> QED
    BY <1>2, <2>1 DEF Walk!walking
<1>10. CASE Walk!WalkStep(config, walk, next)
  <2>1. walk.workflowId = row.workflowId
    BY <1>5 DEF WalkOf
  <2>2. walk # Walk!NotBegun
    <3>1. walk.workflowId # None
      BY <2>1, ConstantsAssumption DEF WfExchange
    <3> QED
      BY <3>1 DEF Walk!NotBegun, Walk!Walk
  <2>3. Walk!GoOn(e)
    BY <1>2, <1>4, <1>7, <1>8, <1>10, <2>1, <2>2 DEF Walk!GoOn
  <2> QED
    BY <1>2, <2>3 DEF Walk!Next
<1> QED
  BY <1>6, <1>9, <1>10

LEMMA RefinementStep ==
  ASSUME SerialInv, [Next]_vars
  PROVE  [Walk!Next]_(Walk!walking)
<1>1. CASE UNCHANGED database
  BY <1>1, WalksStay DEF database, Walk!walking
<1>2. ASSUME NEW r \in Request, ClientCall(r)
      PROVE  [Walk!Next]_(Walk!walking)
  BY <1>1, <1>2
     DEF ClientCall, RefuseCall, CreateWorkflowConflict, CreateWorkflowCheck,
         ParticipateLoad, ReviewLoad, database, vars
<1>3. ASSUME NEW r \in Request, ServerStep(r)
      PROVE  [Walk!Next]_(Walk!walking)
  <2>1. CASE CreateWorkflowSave(r)
    BY <2>1, CreateIsDefine DEF SerialInv
  <2>2. CASE ParticipateSave(r) \/ ReviewSave(r)
    BY <2>2, SaveIsGoOn
  <2>3. CASE \/ ConflictAnswered(r)
             \/ ParticipateFailure(r)
             \/ ParticipateProcess(r)
             \/ Respond(r)
    BY <1>1, <2>3 DEF ConflictAnswered, ParticipateFailure, ParticipateProcess,
                      Respond
  <2> QED
    BY <1>3, <2>1, <2>2, <2>3 DEF ServerStep
<1>4. ASSUME NEW w \in Workflow, NEW e \in Exchange, CreateExchange(w, e)
      PROVE  [Walk!Next]_(Walk!walking)
  BY <1>4, CreateIsBegin DEF SerialInv
<1>5. CASE \/ UNCHANGED vars
           \/ Crash
           \/ \E c \in callbacks : CallbackDone(c)
           \/ \E e \in Exchange :
                \/ ParticipateEmpty(e)
                \/ \E stepId \in StepId : GetExchangeStep(e, stepId)
  BY <1>1, <1>5 DEF vars, Crash, CallbackDone, ParticipateEmpty,
                    GetExchangeStep, database
<1> QED
  BY <1>2, <1>3, <1>4, <1>5 DEF Next

(* The workflows implement the walk: every save of createExchange,          *)
(* participateInExchange and addReview is one legal step of the workflow or *)
(* none.  No step is skipped or taken twice, an issuance is passed only     *)
(* after a review, and a completed exchange stands still, as long as the    *)
(* requests that save it do not overlap and its workflow is not replaced.   *)
THEOREM WalkImplemented ==
  Spec /\ []OneCreatePerWorkflow /\ []OneRequestPerExchange => ImplementsWalk
<1>1. Init => Walk!Init
  BY DEF Init, Walk!Init, Walks, NoWalk, Walk!NotBegun, Walk!Walk
<1>2. SerialInv /\ [Next]_vars => [Walk!Next]_(Walk!walking)
  BY RefinementStep
<1> QED
  BY <1>1, <1>2, SerialInvariance, PTL DEF Spec, ImplementsWalk, Walk!Spec

(* With one request slot, as in the run workflow_serial, no client can      *)
(* overlap two requests and nothing has to be assumed.                      *)
LEMMA OneSlotIsSerial ==
  ASSUME \A r, s \in Request : r = s
  PROVE  OneCreatePerWorkflow /\ OneRequestPerExchange
BY DEF OneCreatePerWorkflow, OneRequestPerExchange

(* One request at a time, an exchange follows its workflow, never rolls     *)
(* back and implements the walk.                                            *)
COROLLARY OneSlotWalks ==
  ASSUME \A r, s \in Request : r = s
  PROVE  Spec => /\ []StepsFollowWorkflow
                 /\ ExchangeNeverRollsBack
                 /\ ImplementsWalk
<1>1. OneCreatePerWorkflow /\ OneRequestPerExchange
  BY OneSlotIsSerial
<1> QED
  BY <1>1, ExchangesFollowWorkflows, ExchangesNeverRollBack, WalkImplemented, PTL
===============================================================================
