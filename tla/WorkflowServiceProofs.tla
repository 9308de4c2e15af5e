------------------------- MODULE WorkflowServiceProofs -------------------------

(***************************************************************************)
(* What holds of WorkflowService for every value of its constants, and so  *)
(* for workflows of any shape and any number of concurrent requests: what  *)
(* survives when saves replace whole exchanges by older ones, with the     *)
(* inductive invariant it follows from.                                    *)
(***************************************************************************)
EXTENDS WorkflowService, VpSubmissionVerifierProofs, WellFoundedInduction

-------------------------------------------------------------------------------
(* The operators the handlers are built from.                               *)

LEMMA MinimumExists ==
  ASSUME NEW T \in SUBSET Nat, T # {}
  PROVE  Min(T) \in T
<1>1. PICK x \in T : \A y \in T : <<y, x>> \notin OpToRel(<, Nat)
  BY NatLessThanWellFounded, WFMin, Zenon
<1>2. \A y \in T : ~ (y < x)
  BY <1>1, Zenon DEF OpToRel
<1>3. \A y \in T : x =< y
  BY <1>2
<1> QED
  BY <1>3 DEF Min

(* getStep: the index it finds is that of a step of the name, and it finds  *)
(* one if there is one.                                                     *)
LEMMA StepIndexFinds ==
  ASSUME NEW steps \in Seq(ExchangeStep), NEW stepId
  PROVE  /\ StepIndex(steps, stepId) \in 0..Len(steps)
         /\ StepIndex(steps, stepId) # 0 =>
              /\ StepIndex(steps, stepId) \in 1..Len(steps)
              /\ steps[StepIndex(steps, stepId)].stepId = stepId
         /\ \A i \in 1..Len(steps) :
              steps[i].stepId = stepId => StepIndex(steps, stepId) # 0
<1> DEFINE found == {i \in 1..Len(steps) : steps[i].stepId = stepId}
<1>1. StepIndex(steps, stepId) = IF found # {} THEN Min(found) ELSE 0
  BY DEF StepIndex, SelectInSeq
<1>2. found \subseteq Nat
  OBVIOUS
<1>3. found # {} => Min(found) \in found
  BY <1>2, MinimumExists
<1> HIDE DEF found
<1>4. found # {} => Min(found) \in 1..Len(steps) /\ steps[Min(found)].stepId = stepId
  BY <1>3 DEF found
<1>5. \A i \in 1..Len(steps) : steps[i].stepId = stepId => found # {}
  BY DEF found
<1> QED
  BY <1>1, <1>4, <1>5

(* addReview: the exchange it saves, step by step.                          *)
IsReviewed(after, exchange, i, step) ==
  /\ after \in WfExchange
  /\ after.workflowId = exchange.workflowId
  /\ after.state = exchange.state
  /\ Len(after.steps) = Len(exchange.steps)
  /\ after.steps[i] = step
  /\ \A j \in 1..Len(exchange.steps) :
       j # i => after.steps[j] = exchange.steps[j]

LEMMA ReviewedSteps ==
  ASSUME NEW exchange \in WfExchange, NEW i \in 1..Len(exchange.steps),
         NEW result, NEW vp \in IssuedVp \cup {None},
         NEW after,
         after = [exchange EXCEPT !.steps[i] = AddVp(@, result, vp)]
  PROVE  IsReviewed(after, exchange, i, AddVp(exchange.steps[i], result, vp))
<1>1. exchange.steps \in Seq(ExchangeStep)
  BY DEF WfExchange
<1> DEFINE step == AddVp(exchange.steps[i], result, vp)
           steps == [exchange.steps EXCEPT ![i] = step]
<1>2. step \in ExchangeStep
  <2>1. exchange.steps[i] \in ExchangeStep
    BY <1>1
  <2> QED
    BY <2>1 DEF AddVp, ExchangeStep
<1> HIDE DEF step
<1>3. /\ steps \in Seq(ExchangeStep)
      /\ Len(steps) = Len(exchange.steps)
      /\ steps[i] = step
      /\ \A j \in 1..Len(exchange.steps) : j # i => steps[j] = exchange.steps[j]
  BY <1>1, <1>2
<1> HIDE DEF steps
<1>4. after = [exchange EXCEPT !.steps = steps]
  BY DEF steps, step
<1>5. /\ after \in WfExchange
      /\ after.workflowId = exchange.workflowId
      /\ after.state = exchange.state
      /\ after.steps = steps
  BY <1>3, <1>4 DEF WfExchange
<1> QED
  BY <1>3, <1>5 DEF step, IsReviewed

(* processPresentation: the exchange it leaves, step by step.               *)
IsAdvanced(after, exchange, step, definition, next) ==
  LET n == Len(exchange.steps)
  IN /\ n \in Nat \ {0}
     /\ after \in WfExchange
     /\ after.workflowId = exchange.workflowId
     /\ after.state = IF step.isComplete /\ definition = None
                      THEN "completed" ELSE "active"
     /\ \A j \in 1..n - 1 : after.steps[j] = exchange.steps[j]
     /\ after.steps[n] = step
     /\ IF step.isComplete /\ definition # None
        THEN Len(after.steps) = n + 1 /\ after.steps[n + 1] = next
        ELSE Len(after.steps) = n

LEMMA AdvancedSteps ==
  ASSUME NEW exchange \in WfExchange, exchange.steps # <<>>,
         NEW step \in ExchangeStep,
         NEW definition \in WorkflowStepDefinition \cup {None},
         NEW nextStep, definition # None => nextStep \in StepId,
         NEW challenge \in Challenge \cup {None},
         NEW after,
         after = Advanced(exchange, step, definition, nextStep, challenge)
  PROVE  IsAdvanced(after, exchange, step, definition,
                    HydratedStep(definition, nextStep, challenge))
<1> DEFINE n == Len(exchange.steps)
           replaced == ReplaceAt(exchange.steps, n, step)
           next == NextSteps(step, definition, nextStep, challenge)
           state == IF step.isComplete /\ definition = None
                    THEN "completed" ELSE "active"
<1>1. exchange.steps \in Seq(ExchangeStep)
  BY DEF WfExchange
<1>2. n \in Nat \ {0}
  BY <1>1
<1>3. /\ replaced \in Seq(ExchangeStep)
      /\ Len(replaced) = n
      /\ replaced[n] = step
      /\ \A j \in 1..n - 1 : replaced[j] = exchange.steps[j]
  BY <1>1, <1>2 DEF ReplaceAt
<1>4. /\ next \in Seq(ExchangeStep)
      /\ IF step.isComplete /\ definition # None
         THEN next = <<HydratedStep(definition, nextStep, challenge)>>
         ELSE next = <<>>
  <2>1. definition # None =>
          HydratedStep(definition, nextStep, challenge) \in ExchangeStep
    BY DEF HydratedStep, ExchangeStep, WorkflowStepDefinition
  <2> HIDE DEF n, replaced
  <2> QED
    BY <2>1 DEF NextSteps
<1>5. after = [exchange EXCEPT !.steps = replaced \o next, !.state = state]
  BY DEF Advanced
<1> HIDE DEF n, replaced, next
<1>6. /\ replaced \o next \in Seq(ExchangeStep)
      /\ Len(replaced \o next) = n + Len(next)
      /\ \A j \in 1..n : (replaced \o next)[j] = replaced[j]
      /\ next # <<>> => (replaced \o next)[n + 1] = next[1]
  BY <1>2, <1>3, <1>4
<1>7. /\ after \in WfExchange
      /\ after.workflowId = exchange.workflowId
      /\ after.state = state
      /\ after.steps = replaced \o next
  BY <1>5, <1>6 DEF WfExchange, ExchangeState
<1> HIDE DEF state
<1>8. /\ \A j \in 1..n - 1 : after.steps[j] = exchange.steps[j]
      /\ after.steps[n] = step
  BY <1>2, <1>3, <1>6, <1>7
<1>9. IF step.isComplete /\ definition # None
      THEN /\ Len(after.steps) = n + 1
           /\ after.steps[n + 1] = HydratedStep(definition, nextStep, challenge)
      ELSE Len(after.steps) = n
  <2> DEFINE hydrated == HydratedStep(definition, nextStep, challenge)
  <2> HIDE DEF hydrated
  <2>1. CASE step.isComplete /\ definition # None
    <3>1. next = <<hydrated>>
      BY <1>4, <2>1 DEF hydrated
    <3>2. /\ Len(after.steps) = n + 1
          /\ after.steps[n + 1] = hydrated
      BY <1>2, <1>6, <1>7, <3>1
    <3> QED
      BY <2>1, <3>2 DEF hydrated
  <2>2. CASE ~(step.isComplete /\ definition # None)
    <3>1. next = <<>>
      BY <1>4, <2>2
    <3>2. Len(after.steps) = n
      BY <1>2, <1>6, <1>7, <3>1
    <3> QED
      BY <2>2, <3>2
  <2> QED
    BY <2>1, <2>2
<1> QED
  BY <1>2, <1>7, <1>8, <1>9 DEF n, state, IsAdvanced

-------------------------------------------------------------------------------
(* The inductive invariant.  Whatever exchange a request carries, however   *)
(* old, may replace the saved one.  So each of them is an exchange that     *)
(* could be saved, and what it says is backed by what only grows: the       *)
(* challenges drawn, the histories of submissions and reviews.              *)

(* Every step but the current one is complete, and of a completed exchange  *)
(* every one.                                                               *)
NoneLeftBehind(exchange) ==
  \A i \in 1..Len(exchange.steps) :
    \/ exchange.steps[i].isComplete
    \/ i = Len(exchange.steps) /\ exchange.state # "completed"

(* The challenge of a query was drawn for the exchange, and a complete      *)
(* query has a submission that answered it.                                 *)
QueryInv(e, step) ==
  step.type = "query" =>
    /\ step.challenge # None
    /\ challenges[step.challenge] = e
    /\ step.isComplete =>
         /\ step.presentationSubmission # None
         /\ step.presentationSubmission.challenge = step.challenge

VpReviewed(e, step) ==
  step.issuedVP # None =>
    \E review \in reviewed :
      /\ review.exchangeId = e
      /\ review.stepId = step.stepId
      /\ review.vp = step.issuedVP

StepsInv(e, exchange) ==
  /\ workflows[exchange.workflowId] # None
  /\ NoneLeftBehind(exchange)
  /\ \A i \in 1..Len(exchange.steps) : QueryInv(e, exchange.steps[i])

ExchangeInv(e, exchange) ==
  /\ StepsInv(e, exchange)
  /\ \A i \in 1..Len(exchange.steps) : VpReviewed(e, exchange.steps[i])

RowInv(e) == exchanges[e] # None => ExchangeInv(e, exchanges[e])

(* The exchange is one that may be saved, and stepId names one of its steps. *)
Saveable(e, exchange, stepId) ==
  /\ ExchangeInv(e, exchange)
  /\ \E i \in 1..Len(exchange.steps) : exchange.steps[i].stepId = stepId

(* A review in flight is about to be saved itself.                          *)
ReviewInv(request) ==
  LET exchange == request.exchange
  IN /\ StepsInv(request.exchangeId, exchange)
     /\ \A i \in 1..Len(exchange.steps) :
          \/ VpReviewed(request.exchangeId, exchange.steps[i])
          \/ /\ exchange.steps[i].stepId = request.stepId
             /\ exchange.steps[i].issuedVP = request.vp

RequestInv(request) ==
  /\ request.op = "participate" => ExchangeInv(request.exchangeId, request.exchange)
  /\ request.op \in {"save", "respond"} =>
       Saveable(request.exchangeId, request.exchange, request.stepId)
  /\ request.op = "respond" =>
       SubmissionsOf(request.exchangeId, request.exchange) \subseteq submitted
  /\ request.op = "review" => ReviewInv(request)

IInv ==
  /\ TypeOK
  /\ \A e \in Exchange : RowInv(e)
  /\ \A r \in Request : RequestInv(requests[r])
  /\ CallbackReportsSavedSubmission
  /\ DeliveredVpWasReviewed

-------------------------------------------------------------------------------
(* The handler a request is in tells what it holds.                         *)
LEMMA RequestKinds ==
  ASSUME NEW request \in RequestState
  PROVE  /\ request.op = "createWorkflow" =>
              request.workflowId \in Workflow /\ request.config \in WorkflowConfig
         /\ request.op \in {"participate", "save", "respond", "review"} =>
              request.exchangeId \in Exchange /\ request.exchange \in WfExchange
         /\ request.op = "participate" => request.presentation \in Presentation
         /\ request.op \in {"save", "respond", "review"} => request.stepId \in StepId
         /\ request.op = "review" =>
              request.result \in ReviewResult /\ request.vp \in IssuedVp \cup {None}
         /\ request.op = "save" => [request EXCEPT !.op = "respond"] \in RequestState
  BY DEF RequestState, Idle

LEMMA IdleType == Idle \in RequestState
  BY DEF RequestState

LEMMA RequestsType ==
  ASSUME TypeOK, NEW r \in Request, NEW request \in RequestState,
         requests' = [requests EXCEPT ![r] = request]
  PROVE  requests' \in [Request -> RequestState]
  BY DEF TypeOK

LEMMA LastStep ==
  ASSUME NEW exchange \in WfExchange, exchange.steps # <<>>
  PROVE  /\ Len(exchange.steps) \in 1..Len(exchange.steps)
         /\ Last(exchange.steps) = exchange.steps[Len(exchange.steps)]
         /\ Last(exchange.steps) \in ExchangeStep
<1>1. exchange.steps \in Seq(ExchangeStep)
  BY DEF WfExchange
<1> QED
  BY <1>1 DEF Last

LEMMA StepOfExchange ==
  ASSUME NEW exchange \in WfExchange, NEW i \in 1..Len(exchange.steps)
  PROVE  exchange.steps[i] \in ExchangeStep
<1>1. exchange.steps \in Seq(ExchangeStep)
  BY DEF WfExchange
<1> QED
  BY <1>1

LEMMA ResponseType ==
  ASSUME NEW e \in Exchange, NEW step \in ExchangeStep
  PROVE  StepResponse(e, step)
           \subseteq [exchangeId : Exchange, stepId : StepId, vp : IssuedVp]
  BY DEF StepResponse, ExchangeStep

LEMMA ProcessedType ==
  ASSUME NEW step \in ExchangeStep, NEW presentation \in Presentation
  PROVE  Processed(step, presentation) \in ExchangeStep
<1>1. NewSubmission(presentation) \in PresentationSubmission
  BY DEF NewSubmission, Presentation, PresentationSubmission
<1> QED
  BY <1>1 DEF Processed, ExchangeStep

-------------------------------------------------------------------------------
(* Requests hold what they loaded while others act: it stays backed.        *)
Growing ==
  /\ \A c \in Challenge : challenges[c] # None => challenges'[c] = challenges[c]
  /\ \A w \in Workflow : workflows[w] # None => workflows'[w] # None
  /\ reviewed \subseteq reviewed'
  /\ submitted \subseteq submitted'

LEMMA StepsInvStays ==
  ASSUME Growing, NEW e \in Exchange, NEW exchange \in WfExchange,
         StepsInv(e, exchange)
  PROVE  StepsInv(e, exchange)'
<1>1. workflows'[exchange.workflowId] # None
  BY DEF Growing, StepsInv, WfExchange
<1>2. ASSUME NEW i \in 1..Len(exchange.steps)
      PROVE  QueryInv(e, exchange.steps[i])'
  <2>1. /\ exchange.steps[i] \in ExchangeStep
        /\ QueryInv(e, exchange.steps[i])
    BY StepOfExchange DEF StepsInv
  <2>2. PICK step : step = exchange.steps[i]
    OBVIOUS
  <2>3. step.challenge \in Challenge \cup {None}
    BY <2>1, <2>2 DEF ExchangeStep
  <2> QED
    BY <2>1, <2>2, <2>3, ConstantsAssumption DEF QueryInv, Growing
<1>3. NoneLeftBehind(exchange)'
  BY DEF StepsInv, NoneLeftBehind
<1> QED
  BY <1>1, <1>2, <1>3 DEF StepsInv

LEMMA VpReviewedStays ==
  ASSUME Growing, NEW e, NEW step, VpReviewed(e, step)
  PROVE  VpReviewed(e, step)'
  BY DEF Growing, VpReviewed

LEMMA ExchangeInvStays ==
  ASSUME Growing, NEW e \in Exchange, NEW exchange \in WfExchange,
         ExchangeInv(e, exchange)
  PROVE  ExchangeInv(e, exchange)'
<1>1. StepsInv(e, exchange)'
  BY StepsInvStays DEF ExchangeInv
<1>2. ASSUME NEW i \in 1..Len(exchange.steps)
      PROVE  VpReviewed(e, exchange.steps[i])'
  BY VpReviewedStays DEF ExchangeInv
<1> QED
  BY <1>1, <1>2 DEF ExchangeInv

LEMMA RequestInvStays ==
  ASSUME Growing, NEW request \in RequestState, RequestInv(request)
  PROVE  RequestInv(request)'
<1>0. ASSUME request.op = "participate"
      PROVE  ExchangeInv(request.exchangeId, request.exchange)'
  BY <1>0, RequestKinds, ExchangeInvStays DEF RequestInv
<1>1. ASSUME request.op \in {"save", "respond"}
      PROVE  Saveable(request.exchangeId, request.exchange, request.stepId)'
  BY <1>1, RequestKinds, ExchangeInvStays DEF RequestInv, Saveable
<1>2. ASSUME request.op = "respond"
      PROVE  (SubmissionsOf(request.exchangeId, request.exchange) \subseteq submitted)'
  BY <1>2 DEF RequestInv, SubmissionsOf, Growing
<1>3. ASSUME request.op = "review"
      PROVE  ReviewInv(request)'
  <2> DEFINE exchange == request.exchange
  <2>1. request.exchangeId \in Exchange /\ exchange \in WfExchange
    BY <1>3, RequestKinds
  <2>2. ReviewInv(request)
    BY <1>3 DEF RequestInv
  <2>3. StepsInv(request.exchangeId, exchange)'
    BY <2>1, <2>2, StepsInvStays DEF ReviewInv
  <2>4. ASSUME NEW i \in 1..Len(exchange.steps)
        PROVE  \/ VpReviewed(request.exchangeId, exchange.steps[i])'
               \/ /\ exchange.steps[i].stepId = request.stepId
                  /\ exchange.steps[i].issuedVP = request.vp
    BY <2>2, VpReviewedStays DEF ReviewInv
  <2> QED
    BY <2>3, <2>4 DEF ReviewInv
<1> QED
  BY <1>0, <1>1, <1>2, <1>3 DEF RequestInv

(* A step of one request leaves the others with what they hold.             *)
LEMMA RequestsKeep ==
  ASSUME IInv, Growing, NEW r \in Request, NEW request \in RequestState,
         requests' = [requests EXCEPT ![r] = request], RequestInv(request)'
  PROVE  \A other \in Request : RequestInv(requests[other])'
<1> SUFFICES ASSUME NEW other \in Request
             PROVE  RequestInv(requests[other])'
  OBVIOUS
<1>0. requests \in [Request -> RequestState]
  BY DEF IInv, TypeOK
<1>1. CASE other = r
  <2>1. requests'[other] = request
    BY <1>0, <1>1
  <2> QED
    BY <2>1
<1>2. CASE other # r
  <2>1. PICK held \in RequestState : held = requests[other]
    BY <1>0
  <2>2. requests'[other] = held
    BY <1>0, <1>2, <2>1
  <2>3. RequestInv(held)'
    BY <2>1, RequestInvStays DEF IInv
  <2> QED
    BY <2>2, <2>3
<1> QED
  BY <1>1, <1>2

LEMMA OtherRequestsKeep ==
  ASSUME IInv, Growing, UNCHANGED requests
  PROVE  \A r \in Request : RequestInv(requests[r])'
<1> SUFFICES ASSUME NEW r \in Request
             PROVE  RequestInv(requests[r])'
  OBVIOUS
<1>1. PICK held \in RequestState : held = requests[r]
  BY DEF IInv, TypeOK
<1>2. RequestInv(held)'
  BY <1>1, RequestInvStays DEF IInv
<1> QED
  BY <1>1, <1>2

LEMMA AnswerKeeps ==
  ASSUME IInv, Growing, NEW r \in Request, Answer(r)
  PROVE  /\ \A other \in Request : RequestInv(requests[other])'
         /\ requests' \in [Request -> RequestState]
<1>1. RequestInv(Idle)'
  BY DEF RequestInv, Idle
<1> QED
  BY <1>1, IdleType, RequestsKeep, RequestsType DEF Answer, IInv

LEMMA RowStays ==
  ASSUME IInv, Growing, NEW e \in Exchange, exchanges'[e] = exchanges[e]
  PROVE  RowInv(e)'
<1> SUFFICES ASSUME exchanges[e] # None
             PROVE  ExchangeInv(e, exchanges[e])'
  BY DEF RowInv
<1>1. PICK exchange \in WfExchange : exchange = exchanges[e]
  BY DEF IInv, TypeOK
<1>2. ExchangeInv(e, exchange)'
  BY <1>1, ExchangeInvStays DEF IInv, RowInv
<1> QED
  BY <1>1, <1>2

(* A save that keeps the invariant of what it saves keeps it everywhere.    *)
LEMMA SaveKeeps ==
  ASSUME IInv, Growing, NEW e \in Exchange, NEW exchange \in WfExchange,
         exchanges' = [exchanges EXCEPT ![e] = exchange],
         ExchangeInv(e, exchange)'
  PROVE  /\ \A x \in Exchange : RowInv(x)'
         /\ exchanges' \in [Exchange -> WfExchange \cup {None}]
<1>0. exchanges \in [Exchange -> WfExchange \cup {None}]
  BY DEF IInv, TypeOK
<1>1. ASSUME NEW x \in Exchange \ {e}
      PROVE  RowInv(x)'
  BY <1>0, RowStays
<1>2. RowInv(e)'
  <2>1. exchanges'[e] = exchange
    BY <1>0
  <2>2. ExchangeInv(e, exchanges[e])'
    BY <2>1
  <2> QED
    BY <2>2 DEF RowInv
<1>3. exchanges' \in [Exchange -> WfExchange \cup {None}]
  BY <1>0
<1> QED
  BY <1>1, <1>2, <1>3

LEMMA DeliveredStays ==
  ASSUME IInv, Growing, UNCHANGED delivered
  PROVE  DeliveredVpWasReviewed'
  BY DEF IInv, Growing, DeliveredVpWasReviewed

LEMMA CallbacksStay ==
  ASSUME IInv, Growing, callbacks' \subseteq callbacks
  PROVE  CallbackReportsSavedSubmission'
  BY DEF IInv, Growing, CallbackReportsSavedSubmission

-------------------------------------------------------------------------------
(* The invariant is kept.  First the steps that write nothing.              *)
LEMMA QuietKeeps ==
  ASSUME IInv, UNCHANGED <<database, challenges, history>>,
         callbacks' \subseteq callbacks,
         requests' \in [Request -> RequestState],
         \A r \in Request : RequestInv(requests[r])'
  PROVE  IInv'
<1>1. Growing
  BY DEF Growing, database, history
<1>2. TypeOK'
  BY DEF IInv, TypeOK, database, history
<1>3. \A e \in Exchange : RowInv(e)'
  BY <1>1, RowStays DEF database
<1> QED
  BY <1>1, <1>2, <1>3, DeliveredStays, CallbacksStay DEF IInv, history

LEMMA LoadKeeps ==
  ASSUME IInv, UNCHANGED <<database, callbacks, challenges, history>>,
         NEW r \in Request, NEW request \in RequestState,
         requests' = [requests EXCEPT ![r] = request], RequestInv(request)'
  PROVE  IInv'
<1>1. Growing
  BY DEF Growing, database, history
<1> QED
  BY <1>1, RequestsKeep, RequestsType, QuietKeeps DEF IInv

LEMMA EndKeeps ==
  ASSUME IInv, UNCHANGED <<database, callbacks, challenges, history>>,
         NEW r \in Request, Answer(r)
  PROVE  IInv'
<1>1. RequestInv(Idle)'
  BY DEF RequestInv, Idle
<1> QED
  BY <1>1, IdleType, LoadKeeps DEF Answer

(* Whatever a response hands out was reviewed.                              *)
LEMMA DeliveryKeeps ==
  ASSUME IInv, NEW e \in Exchange, NEW step \in ExchangeStep,
         VpReviewed(e, step), UNCHANGED reviewed,
         delivered' = delivered \cup StepResponse(e, step)
  PROVE  /\ DeliveredVpWasReviewed'
         /\ delivered' \subseteq [exchangeId : Exchange, stepId : StepId,
                                  vp : IssuedVp]
<1>1. \A d \in StepResponse(e, step) :
        \E review \in reviewed :
          /\ review.exchangeId = d.exchangeId
          /\ review.stepId = d.stepId
          /\ review.vp = d.vp
  BY DEF StepResponse, VpReviewed
<1>2. delivered \subseteq [exchangeId : Exchange, stepId : StepId, vp : IssuedVp]
  BY DEF IInv, TypeOK
<1> QED
  BY <1>1, <1>2, ResponseType DEF IInv, DeliveredVpWasReviewed

LEMMA ReadKeeps ==
  ASSUME IInv, NEW e \in Exchange, exchanges[e] # None,
         NEW i \in 1..Len(exchanges[e].steps),
         delivered' = delivered \cup StepResponse(e, exchanges[e].steps[i]),
         UNCHANGED <<database, requests, callbacks, challenges,
                     submitted, reviewed>>
  PROVE  IInv'
<1>1. exchanges[e] \in WfExchange
  BY DEF IInv, TypeOK
<1>2. exchanges[e].steps[i] \in ExchangeStep
  BY <1>1, StepOfExchange
<1>3. VpReviewed(e, exchanges[e].steps[i])
  BY DEF IInv, RowInv, ExchangeInv
<1>4. /\ DeliveredVpWasReviewed'
      /\ delivered' \subseteq [exchangeId : Exchange, stepId : StepId, vp : IssuedVp]
  BY <1>2, <1>3, DeliveryKeeps
<1>5. Growing
  BY DEF Growing, database
<1>6. \A x \in Exchange : RowInv(x)'
  BY <1>5, RowStays DEF database
<1>7. \A r \in Request : RequestInv(requests[r])'
  BY <1>5, OtherRequestsKeep
<1>8. TypeOK'
  BY <1>4 DEF IInv, TypeOK, database
<1> QED
  BY <1>4, <1>5, <1>6, <1>7, <1>8, CallbacksStay DEF IInv

(* createWorkflow                                                           *)
LEMMA CreateWorkflowKeeps ==
  ASSUME IInv, NEW r \in Request, CreateWorkflowSave(r)
  PROVE  IInv'
<1>1. requests[r].workflowId \in Workflow /\ requests[r].config \in WorkflowConfig
  BY RequestKinds DEF IInv, TypeOK, CreateWorkflowSave
<1>2. workflows \in [Workflow -> WorkflowConfig \cup {None}]
  BY DEF IInv, TypeOK
<1>3. PICK w \in Workflow, config \in WorkflowConfig :
        workflows' = [workflows EXCEPT ![w] = config]
  BY <1>1 DEF CreateWorkflowSave
<1>4. Growing
  BY <1>2, <1>3, ConstantsAssumption DEF Growing, CreateWorkflowSave, history
<1>5. /\ \A other \in Request : RequestInv(requests[other])'
      /\ requests' \in [Request -> RequestState]
  BY <1>4, AnswerKeeps DEF CreateWorkflowSave
<1>6. TypeOK'
  BY <1>2, <1>3, <1>5 DEF IInv, TypeOK, CreateWorkflowSave, history
<1>7. \A e \in Exchange : RowInv(e)'
  BY <1>4, RowStays DEF CreateWorkflowSave
<1> QED
  BY <1>4, <1>5, <1>6, <1>7, DeliveredStays, CallbacksStay
     DEF IInv, CreateWorkflowSave, history

(* A challenge that is drawn was nobody's, so the others stay whose they    *)
(* were.                                                                    *)
LEMMA DrawGrows ==
  ASSUME IInv, NEW e \in Exchange, NEW c \in Challenge \cup {None},
         c # None => challenges[c] = None, DrawChallenge(c, e)
  PROVE  /\ challenges' \in [Challenge -> Exchange \cup {None}]
         /\ \A x \in Challenge : challenges[x] # None => challenges'[x] = challenges[x]
         /\ c # None => challenges'[c] = e
<1>1. challenges \in [Challenge -> Exchange \cup {None}]
  BY DEF IInv, TypeOK
<1> QED
  BY <1>1, ConstantsAssumption DEF DrawChallenge

(* createExchange                                                           *)
LEMMA NewExchangeInv ==
  ASSUME NEW e \in Exchange, NEW w \in Workflow, NEW stepId \in StepId,
         NEW definition \in WorkflowStepDefinition \cup {None},
         NEW c \in Challenge \cup {None},
         definition # None /\ definition.type = "query" => c # None,
         NEW exchange,
         exchange =
           [workflowId |-> w, state |-> "pending",
            steps |-> IF definition = None THEN <<>>
                      ELSE <<HydratedStep(definition, stepId, c)>>],
         workflows'[w] # None, c # None => challenges'[c] = e
  PROVE  exchange \in WfExchange /\ ExchangeInv(e, exchange)'
<1> DEFINE step == HydratedStep(definition, stepId, c)
           steps == IF definition = None THEN <<>> ELSE <<step>>
<1>1. definition # None => step \in ExchangeStep
  BY DEF HydratedStep, ExchangeStep, WorkflowStepDefinition
<1>2. /\ steps \in Seq(ExchangeStep)
      /\ \A i \in 1..Len(steps) :
           i = Len(steps) /\ definition # None /\ steps[i] = step
  <2> HIDE DEF step
  <2> QED
    BY <1>1
<1>3. /\ exchange.workflowId = w
      /\ exchange.steps = steps
      /\ exchange.state = "pending"
  OBVIOUS
<1>4. exchange \in WfExchange
  BY <1>2 DEF WfExchange, ExchangeState
<1>5. ASSUME definition # None
      PROVE  QueryInv(e, step)' /\ VpReviewed(e, step)'
  BY <1>5 DEF QueryInv, VpReviewed, HydratedStep
<1> HIDE DEF steps, step
<1>6. \A i \in 1..Len(steps) : QueryInv(e, steps[i])' /\ VpReviewed(e, steps[i])'
  BY <1>2, <1>5
<1>7. NoneLeftBehind(exchange)'
  BY <1>2, <1>3 DEF NoneLeftBehind
<1> QED
  BY <1>3, <1>4, <1>6, <1>7 DEF ExchangeInv, StepsInv

LEMMA CreateExchangeKeeps ==
  ASSUME IInv, NEW w \in Workflow, NEW e \in Exchange, CreateExchange(w, e)
  PROVE  IInv'
<1>1. workflows[w] \in WorkflowConfig
  BY DEF IInv, TypeOK, CreateExchange
<1>2. PICK stepId \in StepId, definition \in WorkflowStepDefinition \cup {None} :
        /\ stepId = workflows[w].initialStep
        /\ definition = workflows[w].steps[stepId]
  BY <1>1 DEF WorkflowConfig
<1>3. PICK c, exchange :
        /\ c \in StepChallenges(definition)
        /\ exchange =
             [workflowId |-> w, state |-> "pending",
              steps |-> IF definition = None THEN <<>>
                        ELSE <<HydratedStep(definition, stepId, c)>>]
        /\ exchanges' = [exchanges EXCEPT ![e] = exchange]
        /\ DrawChallenge(c, e)
  BY <1>2 DEF CreateExchange
<1>4. /\ c \in Challenge \cup {None}
      /\ c # None => challenges[c] = None
      /\ definition # None /\ definition.type = "query" => c # None
  BY <1>3, ConstantsAssumption DEF StepChallenges
<1>5. /\ challenges' \in [Challenge -> Exchange \cup {None}]
      /\ \A x \in Challenge : challenges[x] # None => challenges'[x] = challenges[x]
      /\ c # None => challenges'[c] = e
  BY <1>3, <1>4, DrawGrows
<1>6. Growing
  BY <1>5 DEF Growing, CreateExchange, history
<1>7. workflows'[w] # None
  BY DEF CreateExchange
<1>8. exchange \in WfExchange /\ ExchangeInv(e, exchange)'
  BY <1>3, <1>4, <1>5, <1>7, NewExchangeInv
<1>9. /\ \A x \in Exchange : RowInv(x)'
      /\ exchanges' \in [Exchange -> WfExchange \cup {None}]
  BY <1>3, <1>6, <1>8, SaveKeeps
<1>10. \A r \in Request : RequestInv(requests[r])'
  BY <1>6, OtherRequestsKeep DEF CreateExchange
<1>11. TypeOK'
  BY <1>5, <1>9 DEF IInv, TypeOK, CreateExchange, history
<1> QED
  BY <1>6, <1>9, <1>10, <1>11, DeliveredStays, CallbacksStay
     DEF IInv, CreateExchange, history

(* participateInExchange                                                    *)
LEMMA ParticipateLoadKeeps ==
  ASSUME IInv, NEW r \in Request, NEW e \in Exchange,
         NEW presentation \in Submissions, ParticipateLoad(r, e, presentation)
  PROVE  IInv'
<1>1. PICK exchange \in WfExchange : exchange = exchanges[e]
  BY DEF IInv, TypeOK, ParticipateLoad
<1>2. PICK request :
        request = [op |-> "participate", exchangeId |-> e, exchange |-> exchange,
                   presentation |-> presentation]
  OBVIOUS
<1>3. request \in RequestState
  BY <1>2, ConstantsAssumption DEF RequestState
<1>4. requests' = [requests EXCEPT ![r] = request]
  BY <1>1, <1>2 DEF ParticipateLoad
<1>5. ExchangeInv(e, exchange)'
  <2>1. Growing
    BY DEF ParticipateLoad, Growing, database, history
  <2>2. ExchangeInv(e, exchange)
    BY <1>1 DEF IInv, RowInv, ParticipateLoad
  <2> QED
    BY <2>1, <2>2, ExchangeInvStays
<1>6. RequestInv(request)'
  BY <1>2, <1>5 DEF RequestInv
<1> QED
  BY <1>3, <1>4, <1>6, LoadKeeps DEF ParticipateLoad

(* A query step is only completed by an answer to its own challenge.        *)
LEMMA ProcessedInv ==
  ASSUME NEW e \in Exchange, NEW step \in ExchangeStep, QueryInv(e, step)',
         VpReviewed(e, step)', NEW presentation \in Presentation,
         Accepted(step, presentation),
         NEW processed, processed = Processed(step, presentation)
  PROVE  /\ processed \in ExchangeStep
         /\ processed.stepId = step.stepId
         /\ step.isComplete => processed.isComplete
         /\ QueryInv(e, processed)'
         /\ VpReviewed(e, processed)'
<1>1. processed \in ExchangeStep
  BY ProcessedType
<1>2. CASE step.type = "query"
  <2>1. presentation.challenge = step.challenge
    BY <1>2 DEF Accepted, VerifyVpRequestSubmission, VerifyPresentationProof,
                VerifyPresentation
  <2>2. PICK submission \in PresentationSubmission :
          submission = NewSubmission(presentation)
    BY DEF NewSubmission, Presentation, PresentationSubmission
  <2>3. submission # None /\ submission.challenge = step.challenge
    <3>1. submission.challenge \in Challenge /\ submission.challenge = step.challenge
      BY <2>1, <2>2 DEF NewSubmission, PresentationSubmission
    <3>2. None \notin PresentationSubmission
      BY ConstantsAssumption
    <3> QED
      BY <3>1, <3>2
  <2>4. processed = [step EXCEPT !.presentationSubmission = submission,
                                 !.isComplete = TRUE]
    BY <1>2, <2>2 DEF Processed
  <2>5. /\ processed.stepId = step.stepId
        /\ processed.type = step.type
        /\ processed.challenge = step.challenge
        /\ processed.issuedVP = step.issuedVP
        /\ processed.presentationSubmission = submission
        /\ processed.isComplete
    BY <2>4 DEF ExchangeStep
  <2> QED
    BY <1>1, <2>3, <2>5 DEF QueryInv, VpReviewed
<1>3. CASE step.type # "query"
  <2>1. processed = step
    BY <1>3 DEF Processed
  <2> QED
    BY <1>1, <2>1
<1> QED
  BY <1>2, <1>3

(* The exchange participateInExchange is going to save.                     *)
LEMMA AdvancedInv ==
  ASSUME NEW e \in Exchange, NEW exchange \in WfExchange, exchange.steps # <<>>,
         ExchangeInv(e, exchange)',
         NEW step \in ExchangeStep, QueryInv(e, step)', VpReviewed(e, step)',
         NEW definition \in WorkflowStepDefinition \cup {None},
         NEW nextStep, definition # None => nextStep \in StepId,
         NEW c \in Challenge \cup {None}, c # None => challenges'[c] = e,
         step.isComplete /\ definition # None /\ definition.type = "query" =>
           c # None,
         NEW after, after = Advanced(exchange, step, definition, nextStep, c)
  PROVE  after \in WfExchange /\ Saveable(e, after, step.stepId)'
<1>0. PICK n, next :
        /\ n = Len(exchange.steps)
        /\ next = HydratedStep(definition, nextStep, c)
  OBVIOUS
<1>1. /\ n \in Nat \ {0}
      /\ after \in WfExchange
      /\ after.workflowId = exchange.workflowId
      /\ after.state = IF step.isComplete /\ definition = None
                       THEN "completed" ELSE "active"
      /\ \A j \in 1..n - 1 : after.steps[j] = exchange.steps[j]
      /\ after.steps[n] = step
      /\ IF step.isComplete /\ definition # None
         THEN Len(after.steps) = n + 1 /\ after.steps[n + 1] = next
         ELSE Len(after.steps) = n
  <2>1. IsAdvanced(after, exchange, step, definition, next)
    BY <1>0, AdvancedSteps
  <2> QED
    BY <1>0, <2>1 DEF IsAdvanced
<1>2. \A j \in 1..Len(after.steps) :
        \/ j \in 1..n - 1 /\ after.steps[j] = exchange.steps[j]
        \/ j = n /\ after.steps[j] = step
        \/ /\ j = n + 1
           /\ j = Len(after.steps)
           /\ after.steps[j] = next
           /\ step.isComplete
           /\ definition # None
  BY <1>1
<1>3. step.isComplete /\ definition # None =>
        QueryInv(e, next)' /\ VpReviewed(e, next)'
  BY <1>0 DEF QueryInv, VpReviewed, HydratedStep
<1>4. \A j \in 1..n - 1 :
        /\ QueryInv(e, exchange.steps[j])'
        /\ VpReviewed(e, exchange.steps[j])'
        /\ exchange.steps[j].isComplete
  BY <1>0, <1>1 DEF ExchangeInv, StepsInv, NoneLeftBehind
<1>5. ASSUME NEW j \in 1..Len(after.steps)
      PROVE  QueryInv(e, after.steps[j])' /\ VpReviewed(e, after.steps[j])'
  BY <1>2, <1>3, <1>4
<1>6. NoneLeftBehind(after)'
  <2> SUFFICES ASSUME NEW j \in 1..Len(after.steps)
               PROVE  \/ after.steps[j].isComplete
                      \/ j = Len(after.steps) /\ after.state # "completed"
    BY DEF NoneLeftBehind
  <2>1. CASE j = n
    BY <1>1, <2>1
  <2> QED
    BY <1>1, <1>2, <1>4, <2>1
<1>7. \E i \in 1..Len(after.steps) : after.steps[i].stepId = step.stepId
  <2>1. n \in 1..Len(after.steps) /\ after.steps[n] = step
    BY <1>1
  <2> QED
    BY <2>1
<1>8. (workflows[after.workflowId] # None)'
  BY <1>1 DEF ExchangeInv, StepsInv
<1> QED
  BY <1>1, <1>5, <1>6, <1>7, <1>8 DEF Saveable, ExchangeInv, StepsInv

LEMMA ParticipateProcessKeeps ==
  ASSUME IInv, NEW r \in Request, ParticipateProcess(r)
  PROVE  IInv'
<1>1. /\ requests[r] \in RequestState
      /\ requests[r].op = "participate"
  BY DEF IInv, TypeOK, ParticipateProcess
<1>2. PICK e \in Exchange, exchange \in WfExchange, presentation \in Presentation :
        /\ e = requests[r].exchangeId
        /\ exchange = requests[r].exchange
        /\ presentation = requests[r].presentation
  BY <1>1, RequestKinds
<1>3. /\ exchange.steps # <<>>
      /\ ExchangeInv(e, exchange)
  BY <1>1, <1>2 DEF IInv, RequestInv, ParticipateProcess, HasCurrentStep
<1>4. PICK current \in ExchangeStep :
        /\ current = Last(exchange.steps)
        /\ current = exchange.steps[Len(exchange.steps)]
        /\ Len(exchange.steps) \in 1..Len(exchange.steps)
  BY <1>3, LastStep
<1>5. PICK config \in WorkflowConfig : config = workflows[exchange.workflowId]
  BY <1>3 DEF IInv, TypeOK, ExchangeInv, StepsInv, WfExchange
<1>6. PICK definition \in WorkflowStepDefinition \cup {None},
           nextStep \in StepId \cup {None} :
        /\ definition = NextStepDefinition(config, current.stepId)
        /\ nextStep = config.steps[current.stepId].nextStep
        /\ definition # None => nextStep \in StepId
  <2>1. config.steps[current.stepId] \in WorkflowStepDefinition
    BY <1>2, <1>4, <1>5
       DEF ParticipateProcess, HasCurrentStep, WorkflowConfig, ExchangeStep
  <2>2. config.steps[current.stepId].nextStep \in StepId \cup {None}
    BY <2>1 DEF WorkflowStepDefinition
  <2>3. CASE config.steps[current.stepId].nextStep = None
    BY <2>2, <2>3 DEF NextStepDefinition
  <2>4. CASE config.steps[current.stepId].nextStep # None
    <3>1. NextStepDefinition(config, current.stepId)
            \in WorkflowStepDefinition \cup {None}
      BY <2>2, <2>4 DEF NextStepDefinition, WorkflowConfig
    <3> QED
      BY <2>2, <2>4, <3>1
  <2> QED
    BY <2>3, <2>4
<1>7. PICK step : step = Processed(current, presentation)
  OBVIOUS
<1>8. PICK c, after, request :
        /\ c \in IF step.isComplete THEN StepChallenges(definition) ELSE {None}
        /\ after = Advanced(exchange, step, definition, nextStep, c)
        /\ request = [op |-> "save", exchangeId |-> e, exchange |-> after,
                      stepId |-> current.stepId]
        /\ requests' = [requests EXCEPT ![r] = request]
        /\ DrawChallenge(c, e)
  BY <1>2, <1>4, <1>5, <1>6, <1>7 DEF ParticipateProcess
<1>9. /\ c \in Challenge \cup {None}
      /\ c # None => challenges[c] = None
      /\ step.isComplete /\ definition # None /\ definition.type = "query" =>
           c # None
  BY <1>8, ConstantsAssumption DEF StepChallenges
<1>10. /\ challenges' \in [Challenge -> Exchange \cup {None}]
       /\ \A x \in Challenge : challenges[x] # None => challenges'[x] = challenges[x]
       /\ c # None => challenges'[c] = e
  BY <1>8, <1>9, DrawGrows
<1>11. Growing
  BY <1>10 DEF Growing, ParticipateProcess, database, history
<1>12. ExchangeInv(e, exchange)'
  BY <1>3, <1>11, ExchangeInvStays
<1>13. Accepted(current, presentation)
  BY <1>2, <1>4 DEF ParticipateProcess
<1>14. /\ step \in ExchangeStep
       /\ step.stepId = current.stepId
       /\ QueryInv(e, step)'
       /\ VpReviewed(e, step)'
  <2>1. QueryInv(e, current)' /\ VpReviewed(e, current)'
    BY <1>4, <1>12 DEF ExchangeInv, StepsInv
  <2> QED
    BY <1>7, <1>13, <2>1, ProcessedInv
<1>15. after \in WfExchange /\ Saveable(e, after, current.stepId)'
  <2>1. after = Advanced(exchange, step, definition, nextStep, c)
    BY <1>8
  <2>2. /\ c \in Challenge \cup {None}
        /\ c # None => challenges'[c] = e
        /\ step.isComplete /\ definition # None /\ definition.type = "query" =>
             c # None
    BY <1>9, <1>10
  <2>3. /\ exchange.steps # <<>>
        /\ definition # None => nextStep \in StepId
    BY <1>3, <1>6
  <2>4. after \in WfExchange /\ Saveable(e, after, step.stepId)'
    BY <1>12, <1>14, <2>1, <2>2, <2>3, AdvancedInv
  <2> QED
    BY <1>14, <2>4
<1>16. request \in RequestState /\ RequestInv(request)'
  <2>1. current.stepId \in StepId
    BY DEF ExchangeStep
  <2>2. request \in RequestState
    BY <1>8, <1>15, <2>1 DEF RequestState
  <2>3. RequestInv(request)'
    BY <1>8, <1>15 DEF RequestInv
  <2> QED
    BY <2>2, <2>3
<1>17. /\ \A other \in Request : RequestInv(requests[other])'
       /\ requests' \in [Request -> RequestState]
  BY <1>8, <1>11, <1>16, RequestsKeep, RequestsType DEF IInv
<1>18. TypeOK'
  BY <1>10, <1>17 DEF IInv, TypeOK, ParticipateProcess, database, history
<1>19. \A x \in Exchange : RowInv(x)'
  BY <1>11, RowStays DEF ParticipateProcess, database
<1> QED
  BY <1>11, <1>17, <1>18, <1>19, DeliveredStays, CallbacksStay
     DEF IInv, ParticipateProcess, history

LEMMA SubmissionsType ==
  ASSUME NEW e \in Exchange, NEW exchange \in WfExchange
  PROVE  SubmissionsOf(e, exchange) \subseteq Submitted
<1>1. exchange.steps \in Seq(ExchangeStep)
  BY DEF WfExchange
<1>2. \A step \in ToSet(exchange.steps) : step \in ExchangeStep
  BY <1>1 DEF ToSet
<1> QED
  BY <1>2 DEF SubmissionsOf, Submitted, ExchangeStep

LEMMA ParticipateSaveKeeps ==
  ASSUME IInv, NEW r \in Request, ParticipateSave(r)
  PROVE  IInv'
<1>1. /\ requests[r] \in RequestState
      /\ requests[r].op = "save"
      /\ RequestInv(requests[r])
  BY DEF IInv, TypeOK, ParticipateSave
<1>2. PICK e \in Exchange, exchange \in WfExchange, stepId \in StepId :
        /\ e = requests[r].exchangeId
        /\ exchange = requests[r].exchange
        /\ stepId = requests[r].stepId
  BY <1>1, RequestKinds
<1>3. PICK request :
        request = [op |-> "respond", exchangeId |-> e, exchange |-> exchange,
                   stepId |-> stepId]
  OBVIOUS
<1>4. /\ request \in RequestState
      /\ requests' = [requests EXCEPT ![r] = request]
  <2>1. request \in RequestState
    BY <1>3 DEF RequestState
  <2>2. [requests[r] EXCEPT !.op = "respond"] = request
    BY <1>1, <1>2, <1>3 DEF RequestState, Idle
  <2> QED
    BY <2>1, <2>2 DEF ParticipateSave
<1>5. Growing
  BY DEF Growing, ParticipateSave
<1>6. Saveable(e, exchange, stepId)'
  <2>1. Saveable(e, exchange, stepId)
    BY <1>1, <1>2 DEF RequestInv
  <2> QED
    BY <1>5, <2>1, ExchangeInvStays DEF Saveable
<1>7. SubmissionsOf(e, exchange) \subseteq submitted'
  BY <1>2 DEF ParticipateSave
<1>8. RequestInv(request)'
  BY <1>3, <1>6, <1>7 DEF RequestInv, SubmissionsOf
<1>9. /\ \A other \in Request : RequestInv(requests[other])'
      /\ requests' \in [Request -> RequestState]
  BY <1>4, <1>5, <1>8, RequestsKeep, RequestsType DEF IInv
<1>10. /\ \A x \in Exchange : RowInv(x)'
       /\ exchanges' \in [Exchange -> WfExchange \cup {None}]
  <2>1. exchanges' = [exchanges EXCEPT ![e] = exchange]
    BY <1>2 DEF ParticipateSave
  <2> QED
    BY <1>5, <1>6, <2>1, SaveKeeps DEF Saveable
<1>11. submitted' \subseteq Submitted
  BY <1>2, SubmissionsType DEF IInv, TypeOK, ParticipateSave
<1>12. TypeOK'
  BY <1>9, <1>10, <1>11 DEF IInv, TypeOK, ParticipateSave
<1> QED
  BY <1>5, <1>9, <1>10, <1>12, DeliveredStays, CallbacksStay
     DEF IInv, ParticipateSave

LEMMA RespondKeeps ==
  ASSUME IInv, NEW r \in Request, Respond(r)
  PROVE  IInv'
<1>1. /\ requests[r] \in RequestState
      /\ requests[r].op = "respond"
      /\ RequestInv(requests[r])
  BY DEF IInv, TypeOK, Respond
<1>2. PICK e \in Exchange, exchange \in WfExchange, stepId \in StepId :
        /\ e = requests[r].exchangeId
        /\ exchange = requests[r].exchange
        /\ stepId = requests[r].stepId
  BY <1>1, RequestKinds
<1>3. Saveable(e, exchange, stepId)
  BY <1>1, <1>2 DEF RequestInv
<1>4. SubmissionsOf(e, exchange) \subseteq submitted
  BY <1>1, <1>2 DEF RequestInv
<1>5. exchange.steps \in Seq(ExchangeStep)
  BY DEF WfExchange
<1>6. PICK i \in 1..Len(exchange.steps), step \in ExchangeStep :
        /\ i = StepIndex(exchange.steps, stepId)
        /\ step = exchange.steps[i]
        /\ step.stepId = stepId
  <2>1. StepIndex(exchange.steps, stepId) # 0
    BY <1>3, <1>5, StepIndexFinds DEF Saveable
  <2> QED
    BY <1>5, <2>1, StepIndexFinds, StepOfExchange
<1>7. Growing
  BY DEF Growing, Respond, database
<1>8. \A url \in Url :
        CallbackBody(requests[r], url) =
          [url |-> url, exchangeId |-> e, stepId |-> stepId,
           presentationSubmission |-> step.presentationSubmission]
  BY <1>2, <1>6 DEF CallbackBody
<1>9. callbacks' = callbacks \cup
        {[url |-> url, exchangeId |-> e, stepId |-> stepId,
          presentationSubmission |-> step.presentationSubmission] :
           url \in step.callback}
  <2>1. step.callback \subseteq Url
    BY DEF ExchangeStep
  <2>2. callbacks' = callbacks \cup
          {CallbackBody(requests[r], url) : url \in step.callback}
    BY <1>2, <1>6 DEF Respond
  <2> QED
    BY <1>8, <2>1, <2>2
<1>10. CallbackReportsSavedSubmission' /\ callbacks' \subseteq Callback
  <2>1. step.presentationSubmission # None =>
          [exchangeId |-> e, stepId |-> stepId,
           submission |-> step.presentationSubmission] \in submitted
    <3>1. step \in ToSet(exchange.steps)
      BY <1>5, <1>6 DEF ToSet
    <3> QED
      BY <1>4, <1>6, <3>1 DEF SubmissionsOf
  <2>2. callbacks' \subseteq Callback
    <3>1. /\ step.callback \subseteq Url
          /\ step.presentationSubmission \in PresentationSubmission \cup {None}
      BY DEF ExchangeStep
    <3>2. callbacks \subseteq Callback
      BY DEF IInv, TypeOK
    <3> QED
      BY <1>9, <3>1, <3>2 DEF Callback
  <2>3. ASSUME NEW c \in callbacks', c.presentationSubmission # None
        PROVE  [exchangeId |-> c.exchangeId, stepId |-> c.stepId,
                submission |-> c.presentationSubmission] \in submitted'
    <3>1. CASE c \in callbacks
      BY <2>3, <3>1 DEF IInv, CallbackReportsSavedSubmission, Respond
    <3>2. CASE c \notin callbacks
      <4>1. PICK url \in step.callback :
              c = [url |-> url, exchangeId |-> e, stepId |-> stepId,
                   presentationSubmission |-> step.presentationSubmission]
        BY <1>9, <3>2
      <4> QED
        BY <2>1, <2>3, <4>1 DEF Respond
    <3> QED
      BY <3>1, <3>2
  <2> QED
    BY <2>2, <2>3 DEF CallbackReportsSavedSubmission
<1>11. /\ DeliveredVpWasReviewed'
       /\ delivered' \subseteq [exchangeId : Exchange, stepId : StepId, vp : IssuedVp]
  <2>1. exchange.steps # <<>>
    BY <1>5, <1>6
  <2>2. PICK last \in ExchangeStep :
          /\ last = Last(exchange.steps)
          /\ last = exchange.steps[Len(exchange.steps)]
          /\ Len(exchange.steps) \in 1..Len(exchange.steps)
    BY <2>1, LastStep
  <2>3. VpReviewed(e, last)
    BY <1>3, <2>2 DEF Saveable, ExchangeInv
  <2>4. delivered' = delivered \cup StepResponse(e, last)
    BY <1>2, <2>2 DEF Respond, DeliveredBy
  <2> QED
    BY <2>3, <2>4, DeliveryKeeps DEF Respond
<1>12. /\ \A other \in Request : RequestInv(requests[other])'
       /\ requests' \in [Request -> RequestState]
  BY <1>7, AnswerKeeps DEF Respond
<1>13. \A x \in Exchange : RowInv(x)'
  BY <1>7, RowStays DEF Respond, database
<1>14. TypeOK'
  BY <1>10, <1>11, <1>12 DEF IInv, TypeOK, Respond, database
<1> QED
  BY <1>10, <1>11, <1>12, <1>13, <1>14 DEF IInv

(* addReview                                                                *)
LEMMA ReviewLoadKeeps ==
  ASSUME IInv, NEW r \in Request, NEW e \in Exchange, NEW stepId \in StepId,
         NEW result \in ReviewResult, NEW vp \in IssuedVp \cup {None},
         ReviewLoad(r, e, stepId, result, vp)
  PROVE  IInv'
<1>1. PICK exchange \in WfExchange : exchange = exchanges[e]
  BY DEF IInv, TypeOK, ReviewLoad
<1>2. exchange.steps \in Seq(ExchangeStep)
  BY DEF WfExchange
<1>3. PICK i \in 1..Len(exchange.steps), step \in ExchangeStep :
        /\ i = StepIndex(exchange.steps, stepId)
        /\ step = exchange.steps[i]
        /\ step.stepId = stepId
        /\ step.type = "issuance"
  <2>1. /\ StepIndex(exchange.steps, stepId) # 0
        /\ exchange.steps[StepIndex(exchange.steps, stepId)].type = "issuance"
    BY <1>1 DEF ReviewLoad, IsIssuanceStep
  <2> QED
    BY <1>2, <2>1, StepIndexFinds, StepOfExchange
<1>4. PICK after, request :
        /\ after = [exchange EXCEPT !.steps[i] = AddVp(@, result, vp)]
        /\ request = [op |-> "review", exchangeId |-> e, stepId |-> stepId,
                      result |-> result, vp |-> vp, exchange |-> after]
        /\ requests' = [requests EXCEPT ![r] = request]
  BY <1>1, <1>3 DEF ReviewLoad
<1>5. /\ after \in WfExchange
      /\ after.workflowId = exchange.workflowId
      /\ after.state = exchange.state
      /\ Len(after.steps) = Len(exchange.steps)
      /\ after.steps[i] = AddVp(step, result, vp)
      /\ \A j \in 1..Len(exchange.steps) :
           j # i => after.steps[j] = exchange.steps[j]
  <2>1. after = [exchange EXCEPT !.steps[i] = AddVp(@, result, vp)]
    BY <1>4
  <2>2. IsReviewed(after, exchange, i, AddVp(exchange.steps[i], result, vp))
    BY <2>1, ReviewedSteps
  <2> QED
    BY <1>3, <2>2 DEF IsReviewed
<1>6. PICK added : added = AddVp(step, result, vp)
  OBVIOUS
<1>7. /\ added.type = "issuance"
      /\ added.stepId = stepId
      /\ added.isComplete
      /\ added.issuedVP = vp
  BY <1>3, <1>6 DEF AddVp, ExchangeStep
<1>8. ExchangeInv(e, exchange)'
  <2>1. Growing
    BY DEF ReviewLoad, Growing, database, history
  <2>2. ExchangeInv(e, exchange)
    BY <1>1 DEF IInv, RowInv, ReviewLoad
  <2> QED
    BY <2>1, <2>2, ExchangeInvStays
<1>9. StepsInv(e, after)'
  <2>1. (workflows[after.workflowId] # None)'
    BY <1>5, <1>8 DEF ExchangeInv, StepsInv
  <2>2. NoneLeftBehind(after)'
    BY <1>5, <1>6, <1>7, <1>8 DEF ExchangeInv, StepsInv, NoneLeftBehind
  <2>3. ASSUME NEW j \in 1..Len(after.steps)
        PROVE  QueryInv(e, after.steps[j])'
    <3>1. CASE j = i
      BY <1>5, <1>6, <1>7, <3>1 DEF QueryInv
    <3>2. CASE j # i
      <4>1. after.steps[j] = exchange.steps[j] /\ j \in 1..Len(exchange.steps)
        BY <1>5, <3>2
      <4>2. QueryInv(e, exchange.steps[j])'
        BY <1>8, <4>1 DEF ExchangeInv, StepsInv
      <4> QED
        BY <4>1, <4>2
    <3> QED
      BY <3>1, <3>2
  <2> QED
    BY <2>1, <2>2, <2>3 DEF StepsInv
<1>10. ASSUME NEW j \in 1..Len(after.steps)
       PROVE  \/ VpReviewed(e, after.steps[j])'
              \/ after.steps[j].stepId = stepId /\ after.steps[j].issuedVP = vp
  <2>1. CASE j = i
    BY <1>5, <1>6, <1>7, <2>1
  <2>2. CASE j # i
    <3>1. after.steps[j] = exchange.steps[j] /\ j \in 1..Len(exchange.steps)
      BY <1>5, <2>2
    <3>2. VpReviewed(e, exchange.steps[j])'
      BY <1>8, <3>1 DEF ExchangeInv
    <3> QED
      BY <3>1, <3>2
  <2> QED
    BY <2>1, <2>2
<1>11. request \in RequestState
  BY <1>4, <1>5 DEF RequestState
<1>12. RequestInv(request)'
  <2>1. ReviewInv(request)'
    BY <1>4, <1>9, <1>10 DEF ReviewInv
  <2> QED
    BY <1>4, <2>1 DEF RequestInv
<1> QED
  BY <1>4, <1>11, <1>12, LoadKeeps DEF ReviewLoad

LEMMA ReviewSaveKeeps ==
  ASSUME IInv, NEW r \in Request, ReviewSave(r)
  PROVE  IInv'
<1>1. /\ requests[r] \in RequestState
      /\ requests[r].op = "review"
      /\ RequestInv(requests[r])
  BY DEF IInv, TypeOK, ReviewSave
<1>2. PICK e \in Exchange, exchange \in WfExchange, stepId \in StepId,
           result \in ReviewResult, vp \in IssuedVp \cup {None} :
        /\ e = requests[r].exchangeId
        /\ exchange = requests[r].exchange
        /\ stepId = requests[r].stepId
        /\ result = requests[r].result
        /\ vp = requests[r].vp
  BY <1>1, RequestKinds
<1>3. reviewed' = reviewed \cup
        {[exchangeId |-> e, stepId |-> stepId, result |-> result, vp |-> v] :
           v \in {vp} \ {None}}
  BY <1>2 DEF ReviewSave
<1>4. Growing
  BY DEF Growing, ReviewSave
<1>5. ExchangeInv(e, exchange)'
  <2>1. ReviewInv(requests[r])
    BY <1>1 DEF RequestInv
  <2>2. StepsInv(e, exchange)'
    BY <1>2, <1>4, <2>1, StepsInvStays DEF ReviewInv
  <2>3. ASSUME NEW i \in 1..Len(exchange.steps)
        PROVE  VpReviewed(e, exchange.steps[i])'
    <3>1. CASE VpReviewed(e, exchange.steps[i])
      BY <1>4, <3>1, VpReviewedStays
    <3>2. CASE /\ exchange.steps[i].stepId = stepId
               /\ exchange.steps[i].issuedVP = vp
      <4>1. PICK review :
              review = [exchangeId |-> e, stepId |-> stepId, result |-> result,
                        vp |-> vp]
        OBVIOUS
      <4>2. vp # None => review \in reviewed'
        BY <1>3, <4>1
      <4>3. review.exchangeId = e /\ review.stepId = stepId /\ review.vp = vp
        BY <4>1
      <4> QED
        BY <3>2, <4>2, <4>3 DEF VpReviewed
    <3> QED
      BY <1>2, <2>1, <3>1, <3>2 DEF ReviewInv
  <2> QED
    BY <2>2, <2>3 DEF ExchangeInv
<1>6. /\ \A x \in Exchange : RowInv(x)'
      /\ exchanges' \in [Exchange -> WfExchange \cup {None}]
  <2>1. exchanges' = [exchanges EXCEPT ![e] = exchange]
    BY <1>2 DEF ReviewSave
  <2> QED
    BY <1>4, <1>5, <2>1, SaveKeeps
<1>7. /\ \A other \in Request : RequestInv(requests[other])'
      /\ requests' \in [Request -> RequestState]
  BY <1>4, AnswerKeeps DEF ReviewSave
<1>8. reviewed' \subseteq [exchangeId : Exchange, stepId : StepId,
                           result : ReviewResult, vp : IssuedVp]
  <2>1. reviewed \subseteq [exchangeId : Exchange, stepId : StepId,
                            result : ReviewResult, vp : IssuedVp]
    BY DEF IInv, TypeOK
  <2> QED
    BY <1>3, <2>1
<1>9. TypeOK'
  BY <1>6, <1>7, <1>8 DEF IInv, TypeOK, ReviewSave
<1> QED
  BY <1>4, <1>6, <1>7, <1>9, DeliveredStays, CallbacksStay
     DEF IInv, ReviewSave

(* The steps that hand something over or let a request go.                  *)
LEMMA CreateWorkflowLoadKeeps ==
  ASSUME IInv, NEW r \in Request, NEW id \in Workflow \cup {None},
         \/ CreateWorkflowConflict(r, id)
         \/ \E config \in WorkflowConfigs : CreateWorkflowCheck(r, id, config)
  PROVE  IInv'
<1>1. PICK request \in RequestState :
        /\ request.op \in {"createWorkflow", "conflict"}
        /\ requests' = [requests EXCEPT ![r] = request]
        /\ UNCHANGED <<database, callbacks, challenges, history>>
  <2>1. CASE CreateWorkflowConflict(r, id)
    <3>1. PICK request : request = [op |-> "conflict", workflowId |-> id]
      OBVIOUS
    <3>2. request \in RequestState /\ request.op = "conflict"
      BY <3>1 DEF RequestState
    <3> QED
      BY <2>1, <3>1, <3>2 DEF CreateWorkflowConflict
  <2>2. ASSUME NEW config \in WorkflowConfigs, CreateWorkflowCheck(r, id, config)
        PROVE  \E request \in RequestState :
                 /\ request.op \in {"createWorkflow", "conflict"}
                 /\ requests' = [requests EXCEPT ![r] = request]
                 /\ UNCHANGED <<database, callbacks, challenges, history>>
    <3>1. PICK w, request :
            /\ w \in Workflow
            /\ request = [op |-> "createWorkflow", workflowId |-> w,
                          config |-> config]
            /\ requests' = [requests EXCEPT ![r] = request]
      BY <2>2 DEF CreateWorkflowCheck, DrawnWorkflowIds
    <3>2. request \in RequestState /\ request.op = "createWorkflow"
      BY <3>1, ConstantsAssumption DEF RequestState
    <3> QED
      BY <2>2, <3>1, <3>2 DEF CreateWorkflowCheck
  <2> QED
    BY <2>1, <2>2
<1>2. RequestInv(request)'
  BY <1>1 DEF RequestInv
<1> QED
  BY <1>1, <1>2, LoadKeeps

LEMMA ReadsKeep ==
  ASSUME IInv, NEW e \in Exchange,
         \/ ParticipateEmpty(e)
         \/ \E stepId \in StepId : GetExchangeStep(e, stepId)
  PROVE  IInv'
<1>1. PICK exchange \in WfExchange : exchange = exchanges[e]
  BY DEF IInv, TypeOK, ParticipateEmpty, GetExchangeStep
<1>2. exchange.steps \in Seq(ExchangeStep)
  BY DEF WfExchange
<1>3. exchanges[e] # None
  BY DEF ParticipateEmpty, GetExchangeStep
<1>4. CASE ParticipateEmpty(e)
  <2>1. exchange.steps # <<>>
    BY <1>1, <1>4 DEF ParticipateEmpty
  <2>2. delivered' = delivered \cup
          StepResponse(e, exchange.steps[Len(exchange.steps)])
    BY <1>1, <1>4, <2>1, LastStep DEF ParticipateEmpty, DeliveredBy
  <2>3. UNCHANGED <<database, requests, callbacks, challenges, submitted, reviewed>>
    BY <1>4 DEF ParticipateEmpty
  <2> QED
    BY <1>1, <1>3, <2>1, <2>2, <2>3, LastStep, ReadKeeps
<1>5. ASSUME NEW stepId \in StepId, GetExchangeStep(e, stepId)
      PROVE  IInv'
  <2>1. PICK i \in 1..Len(exchange.steps) : i = StepIndex(exchange.steps, stepId)
    BY <1>1, <1>2, <1>5, StepIndexFinds DEF GetExchangeStep
  <2>2. delivered' = delivered \cup StepResponse(e, exchange.steps[i])
    BY <1>1, <1>5, <2>1 DEF GetExchangeStep
  <2>3. UNCHANGED <<database, requests, callbacks, challenges, submitted, reviewed>>
    BY <1>5 DEF GetExchangeStep
  <2> QED
    BY <1>1, <1>3, <2>2, <2>3, ReadKeeps
<1> QED
  BY <1>4, <1>5

LEMMA CallbackDoneKeeps ==
  ASSUME IInv, NEW c, CallbackDone(c)
  PROVE  IInv'
<1>1. Growing
  BY DEF Growing, CallbackDone, database, history
<1>2. \A r \in Request : RequestInv(requests[r])'
  BY <1>1, OtherRequestsKeep DEF CallbackDone
<1>3. requests' \in [Request -> RequestState]
  BY DEF IInv, TypeOK, CallbackDone
<1> QED
  BY <1>2, <1>3, QuietKeeps DEF CallbackDone

LEMMA CrashKeeps ==
  ASSUME IInv, Crash
  PROVE  IInv'
<1>1. requests' = [r \in Request |-> Idle]
  BY DEF Crash
<1>2. requests' \in [Request -> RequestState]
  BY <1>1, IdleType
<1>3. ASSUME NEW r \in Request
      PROVE  RequestInv(requests[r])'
  <2>1. requests'[r] = Idle
    BY <1>1
  <2>2. RequestInv(Idle)'
    BY DEF RequestInv, Idle
  <2> QED
    BY <2>1, <2>2
<1> QED
  BY <1>2, <1>3, QuietKeeps DEF Crash

LEMMA StutterKeeps ==
  ASSUME IInv, UNCHANGED vars
  PROVE  IInv'
<1>1. UNCHANGED <<database, challenges, history>> /\ UNCHANGED <<requests, callbacks>>
  BY DEF vars, database, history
<1>2. Growing
  BY <1>1 DEF Growing, database, history
<1>3. requests' \in [Request -> RequestState]
  BY <1>1 DEF IInv, TypeOK
<1> QED
  BY <1>1, <1>2, <1>3, OtherRequestsKeep, QuietKeeps

-------------------------------------------------------------------------------

LEMMA InitInv ==
  ASSUME Init
  PROVE  IInv
<1>1. TypeOK
  BY IdleType DEF Init, TypeOK
<1>2. \A e \in Exchange : RowInv(e)
  BY DEF Init, RowInv
<1>3. \A r \in Request : RequestInv(requests[r])
  <2>1. RequestInv(Idle)
    BY DEF RequestInv, Idle
  <2> QED
    BY <2>1 DEF Init
<1>4. CallbackReportsSavedSubmission /\ DeliveredVpWasReviewed
  BY DEF Init, CallbackReportsSavedSubmission, DeliveredVpWasReviewed
<1> QED
  BY <1>1, <1>2, <1>3, <1>4 DEF IInv

LEMMA InvariantStep ==
  ASSUME IInv, [Next]_vars
  PROVE  IInv'
<1>1. ASSUME NEW r \in Request, ClientCall(r)
      PROVE  IInv'
  <2>1. CASE RefuseCall(r)
    BY <2>1, StutterKeeps DEF RefuseCall
  <2>2. ASSUME NEW id \in Workflow \cup {None},
               \/ CreateWorkflowConflict(r, id)
               \/ \E config \in WorkflowConfigs : CreateWorkflowCheck(r, id, config)
        PROVE  IInv'
    BY <2>2, CreateWorkflowLoadKeeps
  <2>3. ASSUME NEW e \in Exchange, NEW presentation \in Submissions,
               ParticipateLoad(r, e, presentation)
        PROVE  IInv'
    BY <2>3, ParticipateLoadKeeps
  <2>4. ASSUME NEW e \in Exchange, NEW stepId \in StepId,
               NEW result \in ReviewResult, NEW vp \in IssuedVp \cup {None},
               ReviewLoad(r, e, stepId, result, vp)
        PROVE  IInv'
    BY <2>4, ReviewLoadKeeps
  <2> QED
    BY <1>1, <2>1, <2>2, <2>3, <2>4 DEF ClientCall
<1>2. ASSUME NEW r \in Request, ServerStep(r)
      PROVE  IInv'
  <2>1. CASE CreateWorkflowSave(r)
    BY <2>1, CreateWorkflowKeeps
  <2>2. CASE ConflictAnswered(r)
    BY <2>2, EndKeeps DEF ConflictAnswered
  <2>3. CASE ParticipateFailure(r)
    BY <2>3, EndKeeps DEF ParticipateFailure
  <2>4. CASE ParticipateProcess(r)
    BY <2>4, ParticipateProcessKeeps
  <2>5. CASE ParticipateSave(r)
    BY <2>5, ParticipateSaveKeeps
  <2>6. CASE Respond(r)
    BY <2>6, RespondKeeps
  <2>7. CASE ReviewSave(r)
    BY <2>7, ReviewSaveKeeps
  <2> QED
    BY <1>2, <2>1, <2>2, <2>3, <2>4, <2>5, <2>6, <2>7 DEF ServerStep
<1>3. ASSUME NEW e \in Exchange,
             \/ ParticipateEmpty(e)
             \/ \E w \in Workflow : CreateExchange(w, e)
             \/ \E stepId \in StepId : GetExchangeStep(e, stepId)
      PROVE  IInv'
  BY <1>3, ReadsKeep, CreateExchangeKeeps
<1>4. ASSUME NEW c \in callbacks, CallbackDone(c)
      PROVE  IInv'
  BY <1>4, CallbackDoneKeeps
<1> QED
  BY <1>1, <1>2, <1>3, <1>4, CrashKeeps, StutterKeeps DEF Next

(* Whatever a request is about to save is an exchange that may be saved:    *)
(* its workflow exists, its steps are complete but for the last, its        *)
(* queries were asked for it and answered, and its presentations were       *)
(* reviewed.                                                                *)
THEOREM Invariance == Spec => []IInv
<1>1. Init => IInv
  BY InitInv
<1>2. IInv /\ [Next]_vars => IInv'
  BY InvariantStep
<1> QED
  BY <1>1, <1>2, PTL DEF Spec

(* Every reachable state of the workflow service is well typed: what each   *)
(* handler holds between two database accesses, and what the table keeps.   *)
THEOREM TypeCorrect == Spec => []TypeOK
<1>1. IInv => TypeOK
  BY DEF IInv
<1> QED
  BY <1>1, Invariance, PTL

(* However the saves of concurrent participations, reviews and crashes      *)
(* replace each other, the exchange that is kept has left no step           *)
(* unfinished but the current one, and none once it is completed.           *)
THEOREM OnlyCurrentStepsIncomplete == Spec => []OnlyCurrentStepIncomplete
<1>1. ASSUME IInv
      PROVE  OnlyCurrentStepIncomplete
  <2> SUFFICES ASSUME NEW e \in Exchange, exchanges[e] # None,
                      NEW i \in DOMAIN exchanges[e].steps
               PROVE  \/ exchanges[e].steps[i].isComplete
                      \/ i = Len(exchanges[e].steps) /\ exchanges[e].state # "completed"
    BY DEF OnlyCurrentStepIncomplete
  <2>1. exchanges[e].steps \in Seq(ExchangeStep)
    BY <1>1 DEF IInv, TypeOK, WfExchange
  <2>2. NoneLeftBehind(exchanges[e])
    BY <1>1 DEF IInv, RowInv, ExchangeInv, StepsInv
  <2> QED
    BY <2>1, <2>2 DEF NoneLeftBehind
<1> QED
  BY <1>1, Invariance, PTL

(* A query step that is kept as complete has a submission that answered the *)
(* challenge drawn for it, in this exchange and in no other.                *)
THEOREM CompleteQueriesWereAnswered == Spec => []CompleteQueryWasAnswered
<1>1. ASSUME IInv
      PROVE  CompleteQueryWasAnswered
  <2> SUFFICES ASSUME NEW e \in Exchange, exchanges[e] # None,
                      NEW step \in ToSet(exchanges[e].steps),
                      step.type = "query", step.isComplete
               PROVE  /\ step.presentationSubmission # None
                      /\ step.presentationSubmission.challenge = step.challenge
                      /\ challenges[step.challenge] = e
    BY DEF CompleteQueryWasAnswered
  <2>1. exchanges[e].steps \in Seq(ExchangeStep)
    BY <1>1 DEF IInv, TypeOK, WfExchange
  <2>2. PICK i \in 1..Len(exchanges[e].steps) : step = exchanges[e].steps[i]
    BY <2>1 DEF ToSet
  <2>3. QueryInv(e, exchanges[e].steps[i])
    BY <1>1 DEF IInv, RowInv, ExchangeInv, StepsInv
  <2> QED
    BY <2>2, <2>3 DEF QueryInv
<1> QED
  BY <1>1, Invariance, PTL

(* A holder is handed a presentation only for the step of the exchange that *)
(* a saved review attached it to, also when the review that attached it was *)
(* overwritten or the process has crashed since.                            *)
THEOREM DeliveredVpsWereReviewed == Spec => []DeliveredVpWasReviewed
<1>1. IInv => DeliveredVpWasReviewed
  BY DEF IInv
<1> QED
  BY <1>1, Invariance, PTL

(* A callback reports a submission for a step only after a save that kept   *)
(* it for that step.                                                        *)
THEOREM CallbacksReportSaved == Spec => []CallbackReportsSavedSubmission
<1>1. IInv => CallbackReportsSavedSubmission
  BY DEF IInv
<1> QED
  BY <1>1, Invariance, PTL
===============================================================================
