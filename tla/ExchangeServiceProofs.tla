------------------------- MODULE ExchangeServiceProofs -------------------------
(***************************************************************************)
(* What holds of ExchangeService for every value of its constants, and so  *)
(* for any number of concurrent requests: the properties that survive the  *)
(* stale saves, with the inductive invariant they follow from.             *)
(***************************************************************************)
EXTENDS ExchangeService, VpSubmissionVerifierProofs

-------------------------------------------------------------------------------
(* The inductive invariant.  Its idea: whatever a request carries, however  *)
(* stale, was true of the database when it was loaded, and every fact it    *)
(* may write back is backed by something that only grows: the VP requests   *)
(* drawn and the histories of submissions and reviews.                      *)

(* This VP request was drawn for this transaction.                          *)
VpRequestDrawn(id, vpRequest) ==
  vpRequests[vpRequest.challenge] = [transactionId |-> id, vpRequest |-> vpRequest]

(* This submission, if any, was saved for this transaction, and answered    *)
(* one of its VP requests.                                                  *)
SubmissionBacked(id, submission) ==
  submission # None =>
    /\ [transactionId |-> id, submission |-> submission] \in submitted
    /\ vpRequests[submission.challenge] # None
    /\ vpRequests[submission.challenge].transactionId = id

IssuedVpBacked(id, vp) ==
  vp \in IssuedVp =>
    [transactionId |-> id, result |-> "approved", VP |-> vp] \in reviewed

(* A decision, and a presentation to hand out, come from saved reviews.     *)
ReviewBacked(id, review) ==
  /\ review.reviewStatus \in ReviewResult =>
       \E saved \in reviewed : saved.transactionId = id
  /\ IssuedVpBacked(id, review.VP)

RowInv(id) ==
  LET row == transactions[id]
  IN row # None =>
       /\ VpRequestDrawn(id, row.vpRequest)
       /\ SubmissionBacked(id, row.presentationSubmission)
       /\ row.vpRequest.service = "mediated" =>
            reviews[row.vpRequest.challenge] # None

ReviewInv(c) ==
  reviews[c] # None =>
    /\ vpRequests[c] # None
    /\ vpRequests[c].vpRequest.service = "mediated"
    /\ ReviewBacked(vpRequests[c].transactionId, reviews[c])

(* The entity objects requests hold.                                        *)
EntityInv(id, t) ==
  /\ VpRequestDrawn(id, t.vpRequest)
  /\ t.presentationReview = None <=> t.vpRequest.service # "mediated"

LoadedEntityInv(id, t) ==
  /\ EntityInv(id, t)
  /\ SubmissionBacked(id, t.presentationSubmission)
  /\ t.presentationReview # None =>
       /\ ReviewBacked(id, t.presentationReview)
       /\ t.presentationReview.reviewStatus = "pending_review" =>
            t.presentationSubmission # None

RequestInv(request) ==
  /\ request.op = "start" => EntityInv(request.transactionId, request.transaction)
  /\ request.op = "continue" =>
       /\ LoadedEntityInv(request.transactionId, request.transaction)
       /\ HolderMatches(request.transaction.presentationSubmission,
                        request.presentation)
  /\ request.op = "respond" =>
       /\ LoadedEntityInv(request.transactionId, request.transaction)
       /\ request.transaction.presentationSubmission # None =>
            request.transaction.presentationSubmission.vpHolder =
              request.presentation.holder
       /\ request.transaction.presentationReview # None /\ ~request.inProgress =>
            /\ request.transaction.presentationReview.reviewStatus \in ReviewResult
            /\ IssuedVpBacked(request.transactionId, request.vp)
  /\ request.op = "review" =>
       LET t == request.transaction
       IN /\ EntityInv(request.transactionId, t)
          /\ SubmissionBacked(request.transactionId, t.presentationSubmission)
          /\ t.presentationReview # None
          /\ t.presentationReview.reviewStatus = "rejected" =>
               IssuedVpBacked(request.transactionId, t.presentationReview.VP)

IInv ==
  /\ TypeOK
  /\ \A id \in TransactionId : RowInv(id)
  /\ \A c \in Challenge : ReviewInv(c)
  /\ \A r \in Request : RequestInv(requests[r])
  /\ PendingReviewHasSubmission
  /\ CallbackReportsSavedSubmission
  /\ AnswerWasReviewed
  /\ AnsweredHolderSubmitted

-------------------------------------------------------------------------------
Entity == NewEntity \cup LoadedEntity \cup ReviewedEntity

(* The handler a request is in tells what it holds.                         *)
LEMMA RequestKinds ==
  ASSUME NEW request \in RequestState
  PROVE  /\ request.op = "create" => request \in CreateRequest
         /\ request.op = "start" => request \in StartRequest
         /\ request.op = "continue" => request \in ContinueRequest
         /\ request.op = "respond" => request \in RespondRequest
         /\ request.op = "review" => request \in ReviewRequest
  BY DEF RequestState, Idle, CreateRequest, StartRequest, ContinueRequest,
         RespondRequest, ReviewRequest

(* Loading and saving keep the types.                                       *)
LEMMA LoadType ==
  ASSUME TypeOK, NEW id \in TransactionId, transactions[id] # None
  PROVE  LoadTransaction(id) \in LoadedEntity
  <1>1. /\ transactions[id] \in TransactionRow
        /\ reviews[transactions[id].vpRequest.challenge] \in ReviewRow \cup {None}
    BY DEF TypeOK, TransactionRow, VpRequest
  <1> QED
    BY <1>1 DEF LoadTransaction, LoadedEntity, TransactionEntity, TransactionRow

LEMMA SaveType ==
  ASSUME TypeOK, NEW id \in TransactionId, NEW t \in Entity,
         SaveTransaction(id, t)
  PROVE  /\ exchanges' \in [Exchange -> ExchangeEntity \cup {None}]
         /\ transactions' \in [TransactionId -> TransactionRow \cup {None}]
         /\ reviews' \in [Challenge -> ReviewRow \cup {None}]
  <1>1. exchanges' \in [Exchange -> ExchangeEntity \cup {None}]
    BY DEF TypeOK, SaveTransaction
  <1>2. SavedTransaction(t, transactions[id]) \in TransactionRow
    <2>1. /\ t.exchangeId \in Exchange
          /\ t.vpRequest \in VpRequest
          /\ t.callback \in SUBSET Url
          /\ t.presentationSubmission \in
               PresentationSubmission \cup {None, Undefined}
      BY DEF Entity, NewEntity, LoadedEntity, ReviewedEntity, TransactionEntity
    <2>2. transactions[id] # None =>
            transactions[id].presentationSubmission
              \in PresentationSubmission \cup {None}
      BY DEF TypeOK, TransactionRow
    <2> QED
      BY <2>1, <2>2 DEF SavedTransaction, Saved, TransactionRow
  <1>3. CASE t.presentationReview = None
    BY <1>1, <1>2, <1>3 DEF TypeOK, SaveTransaction
  <1>4. CASE t.presentationReview # None
    <2>1. t.presentationReview \in PresentationReview /\ t.vpRequest.challenge \in Challenge
      BY <1>4 DEF Entity, NewEntity, LoadedEntity, ReviewedEntity, ReviewRow, ReviewResult, ReviewStatus,
             TransactionEntity, PresentationReview, VpRequest
    <2>2. reviews[t.vpRequest.challenge] \in ReviewRow \cup {None}
      BY <2>1 DEF TypeOK
    <2>3. SavedReview(t.presentationReview, reviews[t.vpRequest.challenge]) \in ReviewRow
      BY <2>1, <2>2 DEF SavedReview, Saved, ReviewRow, PresentationReview
    <2> QED
      BY <1>1, <1>2, <1>4, <2>1, <2>3 DEF TypeOK, SaveTransaction
  <1> QED
    BY <1>3, <1>4

LEMMA SaveRequestType ==
  ASSUME TypeOK, NEW r \in Request, NEW request \in RequestState,
         requests' = [requests EXCEPT ![r] = request]
  PROVE  requests' \in [Request -> RequestState]
  BY DEF TypeOK

LEMMA IdleType == Idle \in RequestState
  BY DEF RequestState

(* The steps of the service when a client may submit any presentation, not  *)
(* only one of Submissions.                                                 *)
OpenNext ==
  \/ Next
  \/ \E r \in Request, id \in TransactionId, presentation \in Presentation :
       ContinueExchangeLoad(r, id, presentation)

(* Every step keeps the types.                                              *)
LEMMA TypeStep ==
  ASSUME IInv, [OpenNext]_vars
  PROVE  TypeOK'
<1>0. TypeOK
  BY DEF IInv
<1> USE <1>0, ConstantsAssumption
<1>1. ASSUME NEW r \in Request, NEW e \in Exchange,
             NEW definition \in ExchangeDefinitions,
             CreateExchangeCheck(r, e, definition)
      PROVE  TypeOK'
  <2>1. PICK id \in TransactionId \cup {None} :
          /\ requests' = [requests EXCEPT ![r] =
                            [op |-> "create", exchangeId |-> e,
                             entity |-> NewExchange(definition, id)]]
          /\ usedTransactionIds' = usedTransactionIds \cup ({id} \ {None})
    BY <1>1 DEF CreateExchangeCheck
  <2>2. NewExchange(definition, id) \in ExchangeEntity
    BY <2>1 DEF NewExchange, ExchangeEntity, ExchangeDefinition
  <2>3. [op |-> "create", exchangeId |-> e,
         entity |-> NewExchange(definition, id)] \in RequestState
    BY <2>2 DEF RequestState, CreateRequest
  <2>4. requests' \in [Request -> RequestState]
    BY <2>1, <2>3, SaveRequestType
  <2> QED
    BY <1>1, <2>1, <2>4 DEF CreateExchangeCheck, TypeOK, database, history
<1>2. ASSUME NEW r \in Request, CreateExchangeSave(r)
      PROVE  TypeOK'
  <2>1. requests[r] \in CreateRequest
    BY <1>2, RequestKinds DEF CreateExchangeSave, TypeOK
  <2>2. requests' \in [Request -> RequestState]
    BY <1>2, IdleType, SaveRequestType DEF CreateExchangeSave, Answer
  <2> QED
    BY <1>2, <2>1, <2>2
       DEF CreateExchangeSave, CreateRequest, TypeOK, drawn, history
<1>3. ASSUME NEW r \in Request, NEW e \in Exchange, StartExchangeLoad(r, e)
      PROVE  TypeOK'
  <2>1. PICK id \in TransactionId, c \in Challenge :
          /\ requests' = [requests EXCEPT ![r] =
                            [op |-> "start", transactionId |-> id,
                             transaction |-> NewTransaction(e, c)]]
          /\ usedTransactionIds' = usedTransactionIds \cup {id}
          /\ vpRequests' = [vpRequests EXCEPT ![c] =
                              [transactionId |-> id,
                               vpRequest |-> NewTransaction(e, c).vpRequest]]
    <3>1. exchanges[e] \in ExchangeEntity
      BY <1>3 DEF StartExchangeLoad, TypeOK
    <3>2. StartTransactionIds(e) \subseteq TransactionId
      BY <3>1 DEF StartTransactionIds, ExchangeEntity
    <3> QED
      BY <1>3, <3>2 DEF StartExchangeLoad, FreshChallenges
  <2>2. /\ NewTransaction(e, c) \in NewEntity
        /\ NewTransaction(e, c).vpRequest \in VpRequest
    <3>1. exchanges[e] \in ExchangeEntity
      BY <1>3 DEF StartExchangeLoad, TypeOK
    <3> QED
      BY <3>1 DEF NewTransaction, NewEntity, TransactionEntity, ExchangeEntity,
                  VpRequest, ReviewStatus
  <2>3. requests' \in [Request -> RequestState]
    BY <2>1, <2>2, SaveRequestType DEF RequestState, StartRequest
  <2> QED
    BY <1>3, <2>1, <2>2, <2>3
       DEF StartExchangeLoad, TypeOK, database, history, DrawnVpRequest
<1>4. ASSUME NEW r \in Request, StartExchangeSave(r)
      PROVE  TypeOK'
  <2>1. requests[r] \in StartRequest
    BY <1>4, RequestKinds DEF StartExchangeSave, TypeOK
  <2>2. requests' \in [Request -> RequestState]
    BY <1>4, IdleType, SaveRequestType DEF StartExchangeSave, Answer
  <2> QED
    BY <1>4, <2>1, <2>2, SaveType
       DEF StartExchangeSave, StartRequest, Entity, TypeOK, drawn, history
<1>5. ASSUME NEW r \in Request, NEW id \in TransactionId,
             NEW presentation \in Presentation,
             ContinueExchangeLoad(r, id, presentation)
      PROVE  TypeOK'
  <2>1. LoadTransaction(id) \in LoadedEntity
    BY <1>5, LoadType DEF ContinueExchangeLoad
  <2>2. requests' \in [Request -> RequestState]
    BY <1>5, <2>1, SaveRequestType
       DEF ContinueExchangeLoad, RequestState, ContinueRequest
  <2> QED
    BY <1>5, <2>2 DEF ContinueExchangeLoad, TypeOK, database, drawn, history
<1>6. ASSUME NEW r \in Request, RefusePresentation(r)
      PROVE  TypeOK'
  <2>1. requests' \in [Request -> RequestState]
    BY <1>6, IdleType, SaveRequestType DEF RefusePresentation, Answer
  <2> QED
    BY <1>6, <2>1 DEF RefusePresentation, TypeOK, database, drawn, history
<1>7. ASSUME NEW r \in Request, NEW t \in LoadedEntity,
             NEW inProgress \in BOOLEAN, NEW vp \in IssuedVp \cup {None},
             NEW callback \in SUBSET Url,
             requests[r].op = "continue",
             t.presentationSubmission \in PresentationSubmission \cup {None},
             SaveAndRespond(r, t, inProgress, vp, callback)
      PROVE  TypeOK'
  <2>1. requests[r] \in ContinueRequest
    BY <1>7, RequestKinds DEF TypeOK
  <2>2. requests' \in [Request -> RequestState]
    BY <1>7, <2>1, SaveRequestType
       DEF SaveAndRespond, RequestState, RespondRequest, ContinueRequest
  <2>3. submitted' \subseteq
          [transactionId : TransactionId, submission : PresentationSubmission]
    BY <1>7, <2>1 DEF SaveAndRespond, TypeOK, ContinueRequest
  <2> QED
    BY <1>7, <2>1, <2>2, <2>3, SaveType
       DEF SaveAndRespond, ContinueRequest, Entity, TypeOK, drawn
<1>8. ASSUME NEW r \in Request, requests[r].op = "continue"
      PROVE  LET t == requests[r].transaction
                 presentation == requests[r].presentation
             IN /\ t \in LoadedEntity
                /\ WithSubmission(t, presentation) \in LoadedEntity
                /\ t.vpRequest.service = "mediated" =>
                     /\ t.presentationReview \in ReviewRow
                     /\ SubmittedForReview(t, presentation) \in LoadedEntity
  <2>1. requests[r] \in ContinueRequest
    BY <1>8, RequestKinds DEF TypeOK
  <2> DEFINE t == requests[r].transaction
             presentation == requests[r].presentation
  <2>2. t \in LoadedEntity /\ presentation \in Presentation
    BY <2>1 DEF ContinueRequest
  <2>3. NewSubmission(presentation) \in PresentationSubmission
    BY <2>2 DEF NewSubmission, Presentation, PresentationSubmission
  <2>4. WithSubmission(t, presentation) \in LoadedEntity
    BY <2>2, <2>3 DEF WithSubmission, LoadedEntity, TransactionEntity
  <2>5. ASSUME NEW s \in LoadedEntity, s.presentationReview # None
        PROVE  [s EXCEPT !.presentationReview.reviewStatus = "pending_review"]
                 \in LoadedEntity
    BY <2>5 DEF LoadedEntity, TransactionEntity, ReviewRow, ReviewStatus
  <2>6. t.vpRequest.service = "mediated" => t.presentationReview \in ReviewRow
    BY <1>8, <2>2
       DEF IInv, RequestInv, LoadedEntityInv, EntityInv, LoadedEntity,
           TransactionEntity
  <2>7. t.presentationReview \in ReviewRow =>
          SubmittedForReview(t, presentation) \in LoadedEntity
    BY <2>2, <2>4, <2>5, NoneAssumption
       DEF SubmittedForReview, WithSubmission, ReviewRow, PresentationReview
  <2> QED
    BY <2>2, <2>4, <2>6, <2>7
<1>9. ASSUME NEW r \in Request, ProcessUnmediated(r)
      PROVE  TypeOK'
  BY <1>7, <1>8, <1>9
     DEF ProcessUnmediated, LoadedEntity, TransactionEntity
<1>10. ASSUME NEW r \in Request, ProcessPendingSubmission(r)
       PROVE  TypeOK'
  BY <1>7, <1>8, <1>10
     DEF ProcessPendingSubmission, InStatus, LoadedEntity, TransactionEntity
<1>11. ASSUME NEW r \in Request, ProcessPendingReview(r)
       PROVE  TypeOK'
  BY <1>7, <1>8, <1>11
     DEF ProcessPendingReview, InStatus, LoadedEntity, TransactionEntity
<1>12. ASSUME NEW r \in Request, ProcessReviewed(r)
       PROVE  TypeOK'
  <2> DEFINE t == requests[r].transaction
  <2>1. /\ t \in LoadedEntity
        /\ t.presentationReview \in ReviewRow
    BY <1>8, <1>12 DEF ProcessReviewed, InStatus
  <2>2. /\ t.presentationReview.VP \in IssuedVp \cup {None}
        /\ t.presentationSubmission \in PresentationSubmission \cup {None}
    BY <2>1 DEF LoadedEntity, TransactionEntity, ReviewRow
  <2>3. /\ requests[r].op = "continue"
        /\ SaveAndRespond(r, t, FALSE, t.presentationReview.VP, {})
    BY <1>12 DEF ProcessReviewed, InStatus
  <2>4. FALSE \in BOOLEAN /\ {} \in SUBSET Url
    OBVIOUS
  <2> QED
    BY <1>7, <2>1, <2>2, <2>3, <2>4
<1>13. ASSUME NEW r \in Request, Respond(r)
       PROVE  TypeOK'
  <2>1. requests[r] \in RespondRequest
    BY <1>13, RequestKinds DEF Respond, TypeOK
  <2>2. requests' \in [Request -> RequestState]
    BY <1>13, IdleType, SaveRequestType DEF Respond, Answer
  <2>3. callbacks' \subseteq Callback
    BY <1>13, <2>1
       DEF Respond, BodyIsValid, CallbackBody, Callback, RespondRequest,
           LoadedEntity, TransactionEntity, TypeOK
  <2>4. answered' \subseteq
          [transactionId : TransactionId, holder : Holder \cup {None},
           VP : IssuedVp \cup {None}]
    BY <1>13, <2>1 DEF Respond, RespondRequest, Presentation, TypeOK
  <2> QED
    BY <1>13, <2>2, <2>3, <2>4 DEF Respond, TypeOK, database, drawn
<1>14. ASSUME NEW r \in Request, RespondFailure(r)
       PROVE  TypeOK'
  <2>1. requests' \in [Request -> RequestState]
    BY <1>14, IdleType, SaveRequestType DEF RespondFailure, Answer
  <2> QED
    BY <1>14, <2>1 DEF RespondFailure, TypeOK, database, drawn, history
<1>15. ASSUME NEW r \in Request, NEW id \in TransactionId,
              NEW result \in ReviewResult,
              NEW vp \in IssuedVp \cup {None, Undefined},
              ReviewLoad(r, id, result, vp)
       PROVE  TypeOK'
  <2> DEFINE t == LoadTransaction(id)
             reviewed_t == [t EXCEPT !.presentationReview = Reviewed(@, result, vp)]
  <2>1. t \in LoadedEntity /\ t.presentationReview # None
    BY <1>15, LoadType DEF ReviewLoad
  <2>2. reviewed_t \in ReviewedEntity
    BY <2>1 DEF Reviewed, LoadedEntity, ReviewedEntity, TransactionEntity,
                ReviewRow, ReviewResult
  <2>3. requests' \in [Request -> RequestState]
    BY <1>15, <2>2, SaveRequestType DEF ReviewLoad, RequestState, ReviewRequest
  <2> QED
    BY <1>15, <2>3 DEF ReviewLoad, TypeOK, database, drawn, history
<1>16. ASSUME NEW r \in Request, ReviewSave(r)
       PROVE  TypeOK'
  <2>1. requests[r] \in ReviewRequest
    BY <1>16, RequestKinds DEF ReviewSave, TypeOK
  <2>2. requests' \in [Request -> RequestState]
    BY <1>16, IdleType, SaveRequestType DEF ReviewSave, Answer
  <2>3. reviewed' \subseteq
          [transactionId : TransactionId, result : ReviewResult,
           VP : IssuedVp \cup {None}]
    BY <1>16, <2>1 DEF ReviewSave, ReviewRequest, ReviewedEntity,
                       TransactionEntity, Saved, TypeOK
  <2> QED
    BY <1>16, <2>1, <2>2, <2>3, SaveType
       DEF ReviewSave, ReviewRequest, Entity, TypeOK, drawn
<1>17. ASSUME NEW c \in callbacks, CallbackDone(c)
       PROVE  TypeOK'
  BY <1>17 DEF CallbackDone, TypeOK, database, drawn, history
<1>18. CASE Crash
  BY <1>18, IdleType DEF Crash, TypeOK, database, drawn, history
<1>19. CASE UNCHANGED vars
  BY <1>19 DEF vars, TypeOK
<1> QED
  BY <1>1, <1>2, <1>3, <1>4, <1>5, <1>6, <1>9, <1>10, <1>11, <1>12, <1>13,
     <1>14, <1>15, <1>16, <1>17, <1>18, <1>19
     DEF OpenNext, Next, ClientCall, ServerStep, RefuseCall

(* What only grows: submissions and reviews are never forgotten, and a VP   *)
(* request drawn keeps its transaction.                                     *)
Growing ==
  /\ submitted \subseteq submitted'
  /\ reviewed \subseteq reviewed'
  /\ \A c \in Challenge :
       vpRequests[c] # None => vpRequests'[c] = vpRequests[c]

(* Every step grows in this sense.                                          *)
LEMMA StepsGrow ==
  ASSUME IInv, [OpenNext]_vars
  PROVE  Growing
<1>1. ASSUME NEW r \in Request, NEW e \in Exchange, StartExchangeLoad(r, e)
      PROVE  Growing
  BY <1>1 DEF StartExchangeLoad, FreshChallenges, history, Growing, IInv, TypeOK
<1>2. ASSUME NEW r \in Request, NEW e \in Exchange,
             NEW definition \in ExchangeDefinitions,
             CreateExchangeCheck(r, e, definition)
      PROVE  Growing
  BY <1>2 DEF CreateExchangeCheck, history, Growing
<1>3. ASSUME NEW r \in Request, ServerStep(r)
      PROVE  Growing
  BY <1>3 DEF ServerStep, CreateExchangeSave, StartExchangeSave,
              RefusePresentation, ProcessUnmediated, ProcessPendingSubmission,
              ProcessPendingReview, ProcessReviewed, SaveAndRespond, Respond,
              RespondFailure, ReviewSave, drawn, history, Growing
<1>4. CASE UNCHANGED <<drawn, history>>
  BY <1>4 DEF drawn, history, Growing
<1> QED
  BY <1>1, <1>2, <1>3, <1>4
     DEF OpenNext, Next, ClientCall, RefuseCall, ContinueExchangeLoad, ReviewLoad,
         CallbackDone, Crash, vars, drawn, history

(* What is backed stays backed.                                             *)
LEMMA BackedStays ==
  ASSUME Growing, NEW id \in TransactionId
  PROVE  /\ \A vpRequest \in VpRequest :
              VpRequestDrawn(id, vpRequest) => VpRequestDrawn(id, vpRequest)'
         /\ \A submission \in PresentationSubmission \cup {None} :
              SubmissionBacked(id, submission) => SubmissionBacked(id, submission)'
         /\ \A vp : IssuedVpBacked(id, vp) => IssuedVpBacked(id, vp)'
         /\ \A review \in PresentationReview :
              ReviewBacked(id, review) => ReviewBacked(id, review)'
<1>1. ASSUME NEW vpRequest \in VpRequest, VpRequestDrawn(id, vpRequest)
      PROVE  VpRequestDrawn(id, vpRequest)'
  BY <1>1, NoneAssumption
     DEF Growing, VpRequestDrawn, VpRequest, DrawnVpRequest
<1>2. ASSUME NEW submission \in PresentationSubmission,
             SubmissionBacked(id, submission)
      PROVE  SubmissionBacked(id, submission)'
  BY <1>2, NoneAssumption DEF Growing, SubmissionBacked, PresentationSubmission
<1>3. ASSUME NEW vp, IssuedVpBacked(id, vp)
      PROVE  IssuedVpBacked(id, vp)'
  BY <1>3 DEF Growing, IssuedVpBacked
<1>4. ASSUME NEW review \in PresentationReview, ReviewBacked(id, review)
      PROVE  ReviewBacked(id, review)'
  BY <1>3, <1>4 DEF Growing, ReviewBacked
<1> QED
  BY <1>1, <1>2, <1>3, <1>4 DEF SubmissionBacked

(* A request that does nothing keeps its invariant while others act.        *)
LEMMA RequestStays ==
  ASSUME Growing, NEW request \in RequestState, RequestInv(request)
  PROVE  RequestInv(request)'
<1>1. ASSUME request.op = "start"
      PROVE  EntityInv(request.transactionId, request.transaction)'
  BY <1>1, RequestKinds, BackedStays
     DEF RequestInv, EntityInv, StartRequest, NewEntity, TransactionEntity
<1>2. ASSUME NEW id \in TransactionId, NEW t \in LoadedEntity,
             LoadedEntityInv(id, t)
      PROVE  LoadedEntityInv(id, t)'
  <2>1. /\ t.vpRequest \in VpRequest
        /\ t.presentationSubmission \in PresentationSubmission \cup {None}
        /\ t.presentationReview \in PresentationReview \cup {None}
    BY DEF LoadedEntity, TransactionEntity, ReviewRow, PresentationReview
  <2> QED
    BY <1>2, <2>1, BackedStays DEF LoadedEntityInv, EntityInv
<1>3. CASE request.op = "continue"
  <2>1. request \in ContinueRequest
    BY <1>3, RequestKinds
  <2> QED
    BY <1>2, <1>3, <2>1 DEF RequestInv, ContinueRequest
<1>4. CASE request.op = "respond"
  <2>1. request \in RespondRequest
    BY <1>4, RequestKinds
  <2> QED
    BY <1>2, <1>4, <2>1, BackedStays DEF RequestInv, RespondRequest
<1>5. CASE request.op = "review"
  <2>1. request \in ReviewRequest
    BY <1>5, RequestKinds
  <2>2. /\ request.transactionId \in TransactionId
        /\ request.transaction.vpRequest \in VpRequest
        /\ request.transaction.presentationSubmission
             \in PresentationSubmission \cup {None}
    BY <2>1 DEF ReviewRequest, ReviewedEntity, TransactionEntity
  <2> QED
    BY <1>5, <2>2, BackedStays DEF RequestInv, EntityInv
<1> QED
  BY <1>1, <1>3, <1>4, <1>5 DEF RequestInv

(* What makes an entity safe to write back, and what saving it keeps.       *)
Saveable(id, t) ==
  /\ EntityInv(id, t)
  /\ t.presentationSubmission # Undefined =>
       SubmissionBacked(id, t.presentationSubmission)
  /\ t.presentationReview # None =>
       /\ t.presentationReview.reviewStatus \in ReviewResult =>
            \E saved \in reviewed : saved.transactionId = id
       /\ IssuedVpBacked(id, t.presentationReview.VP)
       /\ t.presentationReview.reviewStatus = "pending_review" =>
            t.presentationSubmission \notin {None, Undefined}

LEMMA SaveKeeps ==
  ASSUME IInv, Growing, vpRequests' = vpRequests,
         NEW id \in TransactionId, NEW t \in Entity,
         Saveable(id, t)', SaveTransaction(id, t)
  PROVE  /\ \A i \in TransactionId : RowInv(i)'
         /\ \A c \in Challenge : ReviewInv(c)'
         /\ PendingReviewHasSubmission'
<1> DEFINE challenge == t.vpRequest.challenge
<1>0. TypeOK
  BY DEF IInv
<1>r. PICK row, review, oldRow, oldReview :
        /\ oldRow = transactions[id]
        /\ oldReview = reviews[challenge]
        /\ row = SavedTransaction(t, oldRow)
        /\ review = SavedReview(t.presentationReview, oldReview)
  OBVIOUS
<1>1. /\ t.vpRequest \in VpRequest
      /\ challenge \in Challenge
      /\ t.presentationSubmission \in PresentationSubmission \cup {None, Undefined}
      /\ t.presentationReview \in PresentationReview \cup {None}
  BY DEF Entity, NewEntity, LoadedEntity, ReviewedEntity, TransactionEntity,
         VpRequest, ReviewRow, PresentationReview, ReviewStatus, ReviewResult
<1>2. VpRequestDrawn(id, t.vpRequest)
  BY DEF Saveable, EntityInv, VpRequestDrawn
<1>3. /\ transactions' = [transactions EXCEPT ![id] = row]
      /\ transactions'[id] = row
      /\ \A i \in TransactionId \ {id} : transactions'[i] = transactions[i]
  BY <1>0, <1>r DEF SaveTransaction, TypeOK
<1>4. /\ t.presentationReview = None => reviews' = reviews
      /\ t.presentationReview # None =>
           /\ reviews'[challenge] = review
           /\ review \in ReviewRow
           /\ review # None
      /\ \A c \in Challenge \ {challenge} : reviews'[c] = reviews[c]
  <2>1. reviews[challenge] \in ReviewRow \cup {None}
    BY <1>0, <1>1 DEF TypeOK
  <2>2. t.presentationReview # None => review \in ReviewRow
    BY <1>1, <1>r, <2>1 DEF SavedReview, Saved, ReviewRow, PresentationReview
  <2>3. None \notin ReviewRow
    BY NoneAssumption DEF ReviewRow, PresentationReview
  <2> QED
    BY <1>0, <1>1, <1>r, <2>2, <2>3 DEF SaveTransaction, TypeOK
<1>5. \A c \in Challenge : reviews[c] # None => reviews'[c] # None
  BY <1>4
<1>6. \A i \in TransactionId : RowInv(i)'
  <2>1. RowInv(id)'
    <3>1. row.vpRequest = t.vpRequest
      BY <1>r DEF SavedTransaction
    <3>2. SubmissionBacked(id, row.presentationSubmission)'
      <4>1. CASE t.presentationSubmission # Undefined
        BY <1>r, <4>1 DEF Saveable, SavedTransaction, Saved
      <4>2. CASE oldRow # None
        <5>1. /\ SubmissionBacked(id, oldRow.presentationSubmission)
              /\ oldRow.presentationSubmission \in PresentationSubmission \cup {None}
          BY <1>0, <1>r, <4>2 DEF IInv, RowInv, TypeOK, TransactionRow
        <5>2. SubmissionBacked(id, oldRow.presentationSubmission)'
          BY <5>1, BackedStays
        <5> QED
          BY <1>r, <4>1, <4>2, <5>2 DEF SavedTransaction, Saved
      <4>3. CASE t.presentationSubmission = Undefined /\ oldRow = None
        BY <1>r, <4>3 DEF SavedTransaction, Saved, SubmissionBacked
      <4> QED
        BY <4>1, <4>2, <4>3
    <3>3. row.vpRequest.service = "mediated" => reviews'[challenge] # None
      BY <1>4, <3>1 DEF Saveable, EntityInv
    <3> QED
      BY <1>2, <1>3, <3>1, <3>2, <3>3 DEF RowInv, VpRequestDrawn
  <2>2. ASSUME NEW i \in TransactionId \ {id}, transactions[i] # None
        PROVE  RowInv(i)'
    <3>0. PICK kept \in TransactionRow : kept = transactions[i]
      BY <1>0, <2>2 DEF TypeOK
    <3>1. RowInv(i)
      BY DEF IInv
    <3>2. SubmissionBacked(i, kept.presentationSubmission)'
      BY <2>2, <3>0, <3>1, BackedStays DEF RowInv, TransactionRow
    <3>3. kept.vpRequest.challenge \in Challenge
      BY DEF TransactionRow, VpRequest
    <3> QED
      BY <1>3, <1>5, <2>2, <3>0, <3>1, <3>2, <3>3 DEF RowInv, VpRequestDrawn
  <2> QED
    BY <1>3, <2>1, <2>2 DEF RowInv
<1>7. \A c \in Challenge : ReviewInv(c)'
  <2>1. ASSUME NEW c \in Challenge, reviews'[c] = reviews[c]
        PROVE  ReviewInv(c)'
    <3>1. ReviewInv(c)
      BY DEF IInv
    <3>2. CASE reviews[c] # None
      <4>1. /\ reviews[c] \in PresentationReview
            /\ vpRequests[c].transactionId \in TransactionId
            /\ ReviewBacked(vpRequests[c].transactionId, reviews[c])
        BY <1>0, <3>1, <3>2
           DEF TypeOK, ReviewInv, ReviewRow, PresentationReview, DrawnVpRequest
      <4>2. ReviewBacked(vpRequests[c].transactionId, reviews[c])'
        BY <2>1, <4>1, BackedStays
      <4> QED
        BY <2>1, <3>1, <3>2, <4>2 DEF ReviewInv
    <3> QED
      BY <2>1, <3>2 DEF ReviewInv
  <2>2. CASE t.presentationReview # None
    <3>1. /\ vpRequests[challenge] # None
          /\ vpRequests[challenge].transactionId = id
          /\ vpRequests[challenge].vpRequest = t.vpRequest
          /\ t.vpRequest.service = "mediated"
      BY <1>1, <1>2, <2>2, NoneAssumption
         DEF Saveable, EntityInv, VpRequestDrawn, DrawnVpRequest
    <3>2. review.reviewStatus \in ReviewResult =>
            \E saved \in reviewed' : saved.transactionId = id
      BY <1>r, <2>2 DEF Saveable, SavedReview
    <3>3. IssuedVpBacked(id, review.VP)'
      <4>1. CASE t.presentationReview.VP # Undefined
        BY <1>r, <2>2, <4>1 DEF Saveable, SavedReview, Saved
      <4>2. CASE oldReview # None
        <5>1. IssuedVpBacked(id, oldReview.VP)
          BY <1>1, <1>r, <3>1, <4>2 DEF IInv, ReviewInv, ReviewBacked
        <5>2. IssuedVpBacked(id, oldReview.VP)'
          BY <5>1, BackedStays
        <5> QED
          BY <1>r, <4>1, <4>2, <5>2 DEF SavedReview, Saved
      <4>3. CASE t.presentationReview.VP = Undefined /\ oldReview = None
        BY <1>r, <4>3, ConstantsAssumption DEF SavedReview, Saved, IssuedVpBacked
      <4> QED
        BY <4>1, <4>2, <4>3
    <3>4. ReviewBacked(id, review)'
      BY <1>r, <3>2, <3>3 DEF ReviewBacked, SavedReview
    <3>5. ReviewInv(challenge)'
      BY <1>4, <2>2, <3>1, <3>4 DEF ReviewInv
    <3> QED
      BY <1>4, <2>1, <3>5
  <2>3. CASE t.presentationReview = None
    BY <1>4, <2>1, <2>3
  <2> QED
    BY <2>2, <2>3
<1>8. PendingReviewHasSubmission'
  <2>1. ASSUME NEW i \in TransactionId \ {id}, transactions[i] # None
        PROVE  transactions[i].vpRequest.challenge # challenge
    <3>1. VpRequestDrawn(i, transactions[i].vpRequest)
      BY <2>1 DEF IInv, RowInv
    <3> QED
      BY <1>2, <2>1, <3>1 DEF VpRequestDrawn
  <2>2. ASSUME NEW i \in TransactionId \ {id}, transactions[i] # None
        PROVE  reviews'[transactions[i].vpRequest.challenge]
                 = reviews[transactions[i].vpRequest.challenge]
    BY <1>0, <1>4, <2>1, <2>2 DEF TypeOK, TransactionRow, VpRequest
  <2>3. CASE t.presentationReview = None
    <3>1. reviews[challenge] = None
      BY <1>1, <1>2, <2>3
         DEF IInv, ReviewInv, Saveable, EntityInv, VpRequestDrawn
    <3> QED
      BY <1>3, <1>4, <1>r, <2>2, <2>3, <3>1
         DEF IInv, PendingReviewHasSubmission, SavedTransaction
  <2>4. CASE t.presentationReview # None
    <3>1. review.reviewStatus = "pending_review" =>
            row.presentationSubmission # None
      BY <1>r, <2>4 DEF Saveable, SavedReview, SavedTransaction, Saved
    <3> QED
      BY <1>3, <1>4, <1>r, <2>2, <2>4, <3>1
         DEF IInv, PendingReviewHasSubmission, SavedTransaction
  <2> QED
    BY <2>3, <2>4
<1> QED
  BY <1>6, <1>7, <1>8

(* A step that writes no row keeps the invariant of the database.           *)
LEMMA DatabaseKeeps ==
  ASSUME IInv, Growing, transactions' = transactions, reviews' = reviews
  PROVE  /\ \A id \in TransactionId : RowInv(id)'
         /\ \A c \in Challenge : ReviewInv(c)'
         /\ PendingReviewHasSubmission'
<1>0. TypeOK
  BY DEF IInv
<1>1. ASSUME NEW id \in TransactionId, transactions[id] # None
      PROVE  RowInv(id)'
  <2>1. PICK row \in TransactionRow : row = transactions[id]
    BY <1>0, <1>1 DEF TypeOK
  <2>2. /\ row.vpRequest \in VpRequest
        /\ row.presentationSubmission \in PresentationSubmission \cup {None}
    BY DEF TransactionRow
  <2>3. RowInv(id)
    BY DEF IInv
  <2>4. /\ VpRequestDrawn(id, row.vpRequest)'
        /\ SubmissionBacked(id, row.presentationSubmission)'
    BY <1>1, <2>1, <2>2, <2>3, BackedStays DEF RowInv
  <2>5. row.vpRequest.service = "mediated" =>
          reviews'[row.vpRequest.challenge] # None
    BY <1>1, <2>1, <2>3 DEF RowInv
  <2> QED
    BY <2>1, <2>4, <2>5 DEF RowInv, VpRequestDrawn
<1>2. ASSUME NEW c \in Challenge, reviews[c] # None
      PROVE  ReviewInv(c)'
  <2>1. PICK id, review :
          id = vpRequests[c].transactionId /\ review = reviews[c]
    OBVIOUS
  <2>2. /\ vpRequests'[c] = vpRequests[c]
        /\ id \in TransactionId
        /\ review \in PresentationReview
        /\ ReviewBacked(id, review)
    BY <1>0, <1>2, <2>1
       DEF IInv, ReviewInv, Growing, TypeOK, DrawnVpRequest, ReviewRow,
           PresentationReview
  <2>3. ReviewBacked(id, review)'
    BY <2>2, BackedStays
  <2> QED
    BY <1>2, <2>1, <2>2, <2>3 DEF IInv, ReviewInv
<1>3. PendingReviewHasSubmission'
  BY DEF IInv, PendingReviewHasSubmission
<1> QED
  BY <1>1, <1>2, <1>3 DEF RowInv, ReviewInv

(* A step of one request keeps the invariant of the others.                 *)
LEMMA RequestsKeep ==
  ASSUME IInv, Growing, NEW r \in Request, NEW request,
         requests' = [requests EXCEPT ![r] = request], RequestInv(request)'
  PROVE  \A s \in Request : RequestInv(requests[s])'
<1>0. TypeOK
  BY DEF IInv
<1>1. ASSUME NEW s \in Request \ {r}
      PROVE  RequestInv(requests[s])'
  <2>1. PICK kept \in RequestState : kept = requests[s]
    BY <1>0 DEF TypeOK
  <2>2. RequestInv(kept)
    BY <2>1 DEF IInv
  <2>3. RequestInv(kept)'
    BY <2>2, RequestStays
  <2>4. requests'[s] = kept
    BY <1>0, <2>1 DEF TypeOK
  <2> QED
    BY <2>3, <2>4
<1>2. requests'[r] = request
  BY <1>0 DEF TypeOK
<1> QED
  BY <1>1, <1>2

(* A step that answers nobody keeps what was said to the outside.           *)
LEMMA HistoryKeeps ==
  ASSUME IInv, Growing, callbacks' \subseteq callbacks, answered' = answered
  PROVE  /\ CallbackReportsSavedSubmission'
         /\ AnswerWasReviewed'
         /\ AnsweredHolderSubmitted'
<1>1. CallbackReportsSavedSubmission'
  BY DEF IInv, Growing, CallbackReportsSavedSubmission
<1>2. AnswerWasReviewed'
  BY DEF IInv, Growing, AnswerWasReviewed
<1>3. AnsweredHolderSubmitted'
  BY DEF IInv, Growing, AnsweredHolderSubmitted
<1> QED
  BY <1>1, <1>2, <1>3

(* A request that ends without having written anything.                     *)
LEMMA EndKeeps ==
  ASSUME IInv, [OpenNext]_vars, NEW r \in Request, Answer(r),
         UNCHANGED <<database, callbacks, answered>>
  PROVE  IInv'
<1>1. RequestInv(Idle)'
  BY DEF RequestInv, Idle
<1> QED
  BY <1>1, TypeStep, StepsGrow, DatabaseKeeps, RequestsKeep, HistoryKeeps
     DEF Answer, database, IInv

(* The entity a request loads.                                              *)
LEMMA LoadInv ==
  ASSUME IInv, NEW id \in TransactionId, transactions[id] # None
  PROVE  LoadedEntityInv(id, LoadTransaction(id))
<1>1. /\ transactions[id] \in TransactionRow
      /\ RowInv(id)
  BY DEF IInv, TypeOK
<1> DEFINE challenge == transactions[id].vpRequest.challenge
<1>2. challenge \in Challenge /\ ReviewInv(challenge)
  BY <1>1 DEF IInv, TransactionRow, VpRequest
<1>3. VpRequestDrawn(id, transactions[id].vpRequest)
  BY <1>1 DEF RowInv
<1>4. reviews[challenge] = None <=> transactions[id].vpRequest.service # "mediated"
  BY <1>1, <1>2, <1>3 DEF RowInv, ReviewInv, VpRequestDrawn
<1>5. reviews[challenge] # None =>
        /\ ReviewBacked(id, reviews[challenge])
        /\ reviews[challenge].reviewStatus = "pending_review" =>
             transactions[id].presentationSubmission # None
  BY <1>2, <1>3 DEF ReviewInv, VpRequestDrawn, IInv, PendingReviewHasSubmission
<1> QED
  BY <1>1, <1>3, <1>4, <1>5 DEF LoadTransaction, LoadedEntityInv, EntityInv, RowInv

(* Saving a loaded, processed entity and keeping the response.              *)
LEMMA SaveAndRespondKeeps ==
  ASSUME IInv, [OpenNext]_vars, NEW r \in Request,
         NEW request, request = requests[r], request.op = "continue",
         NEW t \in LoadedEntity, NEW inProgress, NEW vp, NEW callback,
         SaveAndRespond(r, t, inProgress, vp, callback),
         LoadedEntityInv(request.transactionId, t)',
         t.presentationSubmission # None =>
           t.presentationSubmission.vpHolder = request.presentation.holder,
         t.presentationReview # None /\ ~inProgress =>
           /\ t.presentationReview.reviewStatus \in ReviewResult
           /\ IssuedVpBacked(request.transactionId, vp)'
  PROVE  IInv'
<1> DEFINE id == request.transactionId
           response == [op |-> "respond", transactionId |-> id, transaction |-> t,
                        presentation |-> request.presentation,
                        inProgress |-> inProgress, vp |-> vp,
                        callback |-> callback]
<1>1. id \in TransactionId
  BY RequestKinds DEF IInv, TypeOK, ContinueRequest
<1>2. Growing /\ vpRequests' = vpRequests
  BY StepsGrow DEF SaveAndRespond, drawn
<1>3. /\ requests' = [requests EXCEPT ![r] = response]
      /\ SaveTransaction(id, t)
      /\ callbacks' = callbacks
      /\ answered' = answered
  BY DEF SaveAndRespond
<1>4. Saveable(id, t)'
  <2>1. t.presentationSubmission \in PresentationSubmission \cup {None}
    BY DEF LoadedEntity, TransactionEntity
  <2>2. t.presentationSubmission # Undefined
    BY <2>1, NoneAssumption, ConstantsAssumption
  <2> QED
    BY <2>2 DEF Saveable, LoadedEntityInv, ReviewBacked
<1>5. RequestInv(response)'
  BY DEF RequestInv
<1> QED
  BY <1>1, <1>2, <1>3, <1>4, <1>5, TypeStep, SaveKeeps, RequestsKeep, HistoryKeeps
     DEF IInv, Entity

(* An accepted presentation bears the challenge of the VP request.          *)
LEMMA AcceptedAnswers ==
  ASSUME NEW request \in ContinueRequest, Accepted(request)
  PROVE  request.presentation.challenge = request.transaction.vpRequest.challenge
<1>1. \A query \in request.transaction.vpRequest.query :
        query.type \in {"DIDAuth", "PresentationDefinition"}
  BY DEF ContinueRequest, LoadedEntity, TransactionEntity, VpRequest, Query
<1> QED
  BY <1>1, VerdictCorrect DEF Accepted, Answers

(* Only an accepted presentation makes a submission nobody had saved.       *)
LEMMA NewSubmissionsAccepted ==
  ASSUME IInv, [OpenNext]_vars, NEW s \in submitted' \ submitted
  PROVE  \E r \in Request :
           /\ requests[r].op = "continue"
           /\ Accepted(requests[r])
           /\ s = [transactionId |-> requests[r].transactionId,
                   submission |-> NewSubmission(requests[r].presentation)]
<1>1. ASSUME NEW r \in Request, NEW t, NEW inProgress, NEW vp, NEW callback,
             SaveAndRespond(r, t, inProgress, vp, callback)
      PROVE  /\ s.transactionId = requests[r].transactionId
             /\ s = [transactionId |-> requests[r].transactionId,
                     submission |-> t.presentationSubmission]
             /\ t.presentationSubmission # None
  BY <1>1 DEF SaveAndRespond
<1>2. ASSUME NEW r \in Request, requests[r].op = "continue"
      PROVE  LET t == requests[r].transaction
             IN /\ t \in LoadedEntity
                /\ SubmissionBacked(requests[r].transactionId,
                                    t.presentationSubmission)
  BY <1>2, RequestKinds
     DEF IInv, TypeOK, RequestInv, LoadedEntityInv, ContinueRequest
<1>3. ASSUME NEW r \in Request, ProcessUnmediated(r)
      PROVE  /\ requests[r].op = "continue"
             /\ Accepted(requests[r])
             /\ s = [transactionId |-> requests[r].transactionId,
                     submission |-> NewSubmission(requests[r].presentation)]
  <2>1. PICK t : t = requests[r].transaction
    OBVIOUS
  <2>2. WithSubmission(t, requests[r].presentation).presentationSubmission
          = NewSubmission(requests[r].presentation)
    BY <1>2, <1>3, <2>1
       DEF ProcessUnmediated, WithSubmission, LoadedEntity, TransactionEntity
  <2> QED
    BY <1>1, <1>3, <2>1, <2>2 DEF ProcessUnmediated
<1>4. ASSUME NEW r \in Request, ProcessPendingSubmission(r)
      PROVE  /\ requests[r].op = "continue"
             /\ Accepted(requests[r])
             /\ s = [transactionId |-> requests[r].transactionId,
                     submission |-> NewSubmission(requests[r].presentation)]
  <2>1. PICK t : t = requests[r].transaction
    OBVIOUS
  <2>2. PICK saved : saved = SubmittedForReview(t, requests[r].presentation)
    OBVIOUS
  <2>3. saved.presentationSubmission
          = IF t.presentationSubmission = None
            THEN NewSubmission(requests[r].presentation)
            ELSE t.presentationSubmission
    BY <1>2, <1>4, <2>1, <2>2
       DEF ProcessPendingSubmission, InStatus, SubmittedForReview,
           WithSubmission, LoadedEntity, TransactionEntity
  <2>4. SubmissionBacked(requests[r].transactionId, t.presentationSubmission)
    BY <1>2, <1>4, <2>1 DEF ProcessPendingSubmission, InStatus
  <2>5. /\ requests[r].op = "continue"
        /\ Accepted(requests[r])
        /\ SaveAndRespond(r, saved, TRUE, None, t.callback)
    BY <1>4, <2>1, <2>2 DEF ProcessPendingSubmission, InStatus
  <2> QED
    BY <1>1, <2>3, <2>4, <2>5 DEF SubmissionBacked
<1>5. ASSUME NEW r \in Request, ProcessPendingReview(r) \/ ProcessReviewed(r)
      PROVE  FALSE
  BY <1>1, <1>2, <1>5
     DEF ProcessPendingReview, ProcessReviewed, InStatus, SubmissionBacked
<1>6. CASE submitted' = submitted
  BY <1>6
<1> QED
  BY <1>3, <1>4, <1>5, <1>6
     DEF OpenNext, Next, ClientCall, ServerStep, RefuseCall, CreateExchangeCheck,
         CreateExchangeSave, StartExchangeLoad, StartExchangeSave,
         ContinueExchangeLoad, RefusePresentation, Respond, RespondFailure,
         ReviewLoad, ReviewSave, CallbackDone, Crash, vars, history

(* Every step keeps the invariant.                                          *)
LEMMA InvariantStep ==
  ASSUME IInv, [OpenNext]_vars
  PROVE  IInv'
<1>0. /\ TypeOK
      /\ TypeOK'
      /\ Growing
  BY TypeStep, StepsGrow DEF IInv
<1>1. ASSUME NEW r \in Request, NEW e \in Exchange,
             NEW definition \in ExchangeDefinitions,
             CreateExchangeCheck(r, e, definition)
      PROVE  IInv'
  <2>1. PICK request :
          /\ request.op = "create"
          /\ requests' = [requests EXCEPT ![r] = request]
    BY <1>1 DEF CreateExchangeCheck
  <2>2. RequestInv(request)'
    BY <2>1 DEF RequestInv
  <2>3. UNCHANGED <<database, callbacks, answered>>
    BY <1>1 DEF CreateExchangeCheck, history
  <2> QED
    BY <1>0, <2>1, <2>2, <2>3, DatabaseKeeps, RequestsKeep, HistoryKeeps
       DEF IInv, database
<1>2. ASSUME NEW r \in Request, CreateExchangeSave(r)
      PROVE  IInv'
  <2>1. RequestInv(Idle)'
    BY DEF RequestInv, Idle
  <2> QED
    BY <1>0, <1>2, <2>1, DatabaseKeeps, RequestsKeep, HistoryKeeps
       DEF IInv, CreateExchangeSave, Answer, history
<1>3. ASSUME NEW r \in Request, NEW e \in Exchange, StartExchangeLoad(r, e)
      PROVE  IInv'
  <2>1. PICK id, c, t :
          /\ id \in StartTransactionIds(e)
          /\ c \in FreshChallenges
          /\ t = NewTransaction(e, c)
          /\ requests' = [requests EXCEPT ![r] =
                            [op |-> "start", transactionId |-> id,
                             transaction |-> t]]
          /\ vpRequests' = [vpRequests EXCEPT ![c] =
                              [transactionId |-> id, vpRequest |-> t.vpRequest]]
    BY <1>3 DEF StartExchangeLoad
  <2>2. /\ t.vpRequest.challenge = c
        /\ t.presentationReview = None <=> t.vpRequest.service # "mediated"
    <3>1. [reviewStatus |-> "pending_submission", VP |-> Undefined] # None
      BY NoneAssumption DEF PresentationReview, ReviewStatus
    <3> QED
      BY <2>1, <3>1 DEF NewTransaction
  <2>3. VpRequestDrawn(id, t.vpRequest)'
    BY <1>0, <2>1, <2>2 DEF VpRequestDrawn, FreshChallenges, TypeOK
  <2>4. RequestInv([op |-> "start", transactionId |-> id, transaction |-> t])'
    BY <2>2, <2>3 DEF RequestInv, EntityInv
  <2>5. UNCHANGED <<database, callbacks, answered>>
    BY <1>3 DEF StartExchangeLoad, history
  <2> QED
    BY <1>0, <2>1, <2>4, <2>5, DatabaseKeeps, RequestsKeep, HistoryKeeps
       DEF IInv, database
<1>4. ASSUME NEW r \in Request, StartExchangeSave(r)
      PROVE  IInv'
  <2>1. PICK request : request = requests[r]
    OBVIOUS
  <2> DEFINE id == request.transactionId
             t == request.transaction
  <2>2. /\ request \in StartRequest
        /\ EntityInv(id, t)
    BY <1>0, <1>4, <2>1, RequestKinds DEF StartExchangeSave, TypeOK, IInv, RequestInv
  <2>3. /\ id \in TransactionId
        /\ t \in NewEntity
        /\ t.vpRequest \in VpRequest
        /\ t.presentationSubmission = Undefined
        /\ t.presentationReview # None => t.presentationReview.VP = Undefined
    BY <2>2 DEF StartRequest, NewEntity, TransactionEntity
  <2>4. t.presentationReview # None =>
          t.presentationReview.reviewStatus = "pending_submission"
    BY <2>2 DEF StartRequest, NewEntity, TransactionEntity
  <2>5. EntityInv(id, t)'
    BY <1>0, <2>2, <2>3, BackedStays DEF EntityInv
  <2>6. Saveable(id, t)'
    BY <2>3, <2>4, <2>5, ConstantsAssumption
       DEF Saveable, IssuedVpBacked, ReviewResult
  <2>7. /\ SaveTransaction(id, t)
        /\ vpRequests' = vpRequests
        /\ callbacks' = callbacks
        /\ answered' = answered
        /\ Answer(r)
    BY <1>4, <2>1 DEF StartExchangeSave, drawn, history
  <2>8. RequestInv(Idle)'
    BY DEF RequestInv, Idle
  <2> QED
    BY <1>0, <2>3, <2>6, <2>7, <2>8, SaveKeeps, RequestsKeep, HistoryKeeps
       DEF IInv, Entity, Answer
<1>5. ASSUME NEW r \in Request, NEW id \in TransactionId,
             NEW presentation \in Presentation,
             ContinueExchangeLoad(r, id, presentation)
      PROVE  IInv'
  <2>1. PICK t, request :
          /\ t = LoadTransaction(id)
          /\ request = [op |-> "continue", transactionId |-> id,
                        transaction |-> t, presentation |-> presentation]
    OBVIOUS
  <2>2. /\ t \in LoadedEntity
        /\ LoadedEntityInv(id, t)
    BY <1>0, <1>5, <2>1, LoadType, LoadInv DEF ContinueExchangeLoad
  <2>3. HolderMatches(t.presentationSubmission, presentation)
    BY <1>5, <2>1 DEF ContinueExchangeLoad, LoadTransaction
  <2>4. request \in RequestState
    BY <2>1, <2>2, ConstantsAssumption DEF RequestState, ContinueRequest
  <2>5. RequestInv(request)
    BY <2>1, <2>2, <2>3 DEF RequestInv
  <2>6. RequestInv(request)'
    BY <1>0, <2>4, <2>5, RequestStays
  <2>7. /\ requests' = [requests EXCEPT ![r] = request]
        /\ UNCHANGED <<database, callbacks, answered>>
    BY <1>5, <2>1 DEF ContinueExchangeLoad, history
  <2> QED
    BY <1>0, <2>6, <2>7, DatabaseKeeps, RequestsKeep, HistoryKeeps
       DEF IInv, database
<1>6. ASSUME NEW r \in Request, RefusePresentation(r)
      PROVE  IInv'
  BY <1>6, EndKeeps DEF RefusePresentation, history
<1>7. ASSUME NEW r \in Request, NEW request, request = requests[r],
             request.op = "continue", Accepted(request)
      PROVE  LET t == request.transaction
                 id == request.transactionId
             IN /\ request \in ContinueRequest
                /\ t \in LoadedEntity
                /\ LoadedEntityInv(id, t)'
                /\ HolderMatches(t.presentationSubmission, request.presentation)
                /\ NewSubmission(request.presentation) \in PresentationSubmission
                /\ vpRequests[request.presentation.challenge] # None
                /\ vpRequests[request.presentation.challenge].transactionId = id
  <2> DEFINE t == request.transaction
             id == request.transactionId
  <2>1. request \in ContinueRequest /\ RequestInv(request)
    BY <1>0, <1>7, RequestKinds DEF TypeOK, IInv
  <2>2. RequestInv(request)'
    BY <1>0, <1>7, <2>1, RequestStays DEF TypeOK
  <2>3. /\ request.presentation.challenge = t.vpRequest.challenge
        /\ VpRequestDrawn(id, t.vpRequest)
        /\ HolderMatches(t.presentationSubmission, request.presentation)
    BY <1>7, <2>1, AcceptedAnswers DEF RequestInv, LoadedEntityInv, EntityInv
  <2>4. /\ id \in TransactionId
        /\ t.vpRequest \in VpRequest
        /\ NewSubmission(request.presentation) \in PresentationSubmission
    BY <2>1 DEF ContinueRequest, LoadedEntity, TransactionEntity, NewSubmission,
                Presentation, PresentationSubmission
  <2>5. [transactionId |-> id, vpRequest |-> t.vpRequest] # None
    BY <2>4, NoneAssumption DEF DrawnVpRequest
  <2> QED
    BY <1>7, <2>1, <2>2, <2>3, <2>4, <2>5
       DEF RequestInv, ContinueRequest, VpRequestDrawn
<1>8. ASSUME NEW r \in Request, NEW request, request = requests[r],
             request.op = "continue", Accepted(request),
             NEW t, NEW inProgress, NEW vp, NEW callback,
             SaveAndRespond(r, t, inProgress, vp, callback),
             t.presentationSubmission = NewSubmission(request.presentation)
      PROVE  SubmissionBacked(request.transactionId, t.presentationSubmission)'
  <2>1. /\ t.presentationSubmission # None
        /\ t.presentationSubmission.challenge = request.presentation.challenge
        /\ vpRequests' = vpRequests
    BY <1>7, <1>8, NoneAssumption DEF NewSubmission, SaveAndRespond, drawn
  <2>2. [transactionId |-> request.transactionId,
         submission |-> t.presentationSubmission] \in submitted'
    BY <1>8, <2>1 DEF SaveAndRespond
  <2> QED
    BY <1>7, <1>8, <2>1, <2>2 DEF SubmissionBacked
<1>9. ASSUME NEW r \in Request, ProcessUnmediated(r)
      PROVE  IInv'
  <2>1. PICK request : request = requests[r]
    OBVIOUS
  <2>2. PICK t : t = request.transaction
    OBVIOUS
  <2>3. PICK saved : saved = WithSubmission(t, request.presentation)
    OBVIOUS
  <2>4. /\ request.op = "continue"
        /\ Accepted(request)
        /\ t.vpRequest.service = "unmediated"
        /\ SaveAndRespond(r, saved, FALSE, None, t.callback)
    BY <1>9, <2>1, <2>2, <2>3 DEF ProcessUnmediated
  <2>5. /\ t \in LoadedEntity
        /\ LoadedEntityInv(request.transactionId, t)'
        /\ NewSubmission(request.presentation) \in PresentationSubmission
    BY <1>7, <2>1, <2>2, <2>4
  <2>6. /\ saved \in LoadedEntity
        /\ saved.vpRequest = t.vpRequest
        /\ saved.presentationReview = t.presentationReview
        /\ saved.presentationSubmission = NewSubmission(request.presentation)
        /\ saved.presentationSubmission.vpHolder = request.presentation.holder
    BY <2>3, <2>5
       DEF WithSubmission, LoadedEntity, TransactionEntity, NewSubmission
  <2>7. SubmissionBacked(request.transactionId, saved.presentationSubmission)'
    BY <1>8, <2>1, <2>4, <2>6
  <2>8. saved.presentationReview = None
    BY <2>4, <2>5, <2>6 DEF LoadedEntityInv, EntityInv
  <2>9. LoadedEntityInv(request.transactionId, saved)'
    BY <2>5, <2>6, <2>7, <2>8 DEF LoadedEntityInv, EntityInv
  <2> QED
    BY <2>1, <2>4, <2>6, <2>8, <2>9, SaveAndRespondKeeps
<1>10. ASSUME NEW r \in Request, ProcessPendingSubmission(r)
       PROVE  IInv'
  <2>1. PICK request : request = requests[r]
    OBVIOUS
  <2>2. PICK t : t = request.transaction
    OBVIOUS
  <2>3. PICK saved : saved = SubmittedForReview(t, request.presentation)
    OBVIOUS
  <2>4. /\ request.op = "continue"
        /\ Accepted(request)
        /\ t.vpRequest.service = "mediated"
        /\ SaveAndRespond(r, saved, TRUE, None, t.callback)
    BY <1>10, <2>1, <2>2, <2>3 DEF ProcessPendingSubmission, InStatus
  <2>5. /\ t \in LoadedEntity
        /\ LoadedEntityInv(request.transactionId, t)'
        /\ HolderMatches(t.presentationSubmission, request.presentation)
        /\ NewSubmission(request.presentation) \in PresentationSubmission
    BY <1>7, <2>1, <2>2, <2>4
  <2>6. /\ t.presentationReview \in ReviewRow
        /\ t.presentationReview # None
    BY <2>4, <2>5 DEF LoadedEntityInv, EntityInv, LoadedEntity, TransactionEntity
  <2>7. /\ saved \in LoadedEntity
        /\ saved.vpRequest = t.vpRequest
        /\ saved.presentationReview
             = [reviewStatus |-> "pending_review", VP |-> t.presentationReview.VP]
        /\ saved.presentationSubmission
             = IF t.presentationSubmission = None
               THEN NewSubmission(request.presentation)
               ELSE t.presentationSubmission
    BY <2>3, <2>5, <2>6
       DEF SubmittedForReview, WithSubmission, LoadedEntity, TransactionEntity,
           ReviewRow, ReviewStatus
  <2>8. /\ saved.presentationSubmission # None
        /\ saved.presentationSubmission.vpHolder = request.presentation.holder
    BY <2>5, <2>7, NoneAssumption DEF NewSubmission, HolderMatches
  <2>9. SubmissionBacked(request.transactionId, saved.presentationSubmission)'
    <3>1. CASE t.presentationSubmission = None
      BY <1>8, <2>1, <2>4, <2>7, <3>1
    <3>2. CASE t.presentationSubmission # None
      BY <2>5, <2>7, <3>2 DEF LoadedEntityInv
    <3> QED
      BY <3>1, <3>2
  <2>10. ReviewBacked(request.transactionId, saved.presentationReview)'
    BY <2>5, <2>6, <2>7 DEF LoadedEntityInv, ReviewBacked, ReviewResult
  <2>11. saved.presentationReview # None
    BY <2>6, <2>7, NoneAssumption DEF PresentationReview, ReviewRow, ReviewStatus
  <2>12. LoadedEntityInv(request.transactionId, saved)'
    BY <2>4, <2>5, <2>7, <2>8, <2>9, <2>10, <2>11
       DEF LoadedEntityInv, EntityInv
  <2> QED
    BY <2>1, <2>4, <2>7, <2>8, <2>12, SaveAndRespondKeeps
<1>11. ASSUME NEW r \in Request, ProcessPendingReview(r)
       PROVE  IInv'
  <2>1. PICK request, t : request = requests[r] /\ t = request.transaction
    OBVIOUS
  <2>2. /\ request.op = "continue"
        /\ Accepted(request)
        /\ SaveAndRespond(r, t, TRUE, None, t.callback)
    BY <1>11, <2>1 DEF ProcessPendingReview, InStatus
  <2>3. /\ t \in LoadedEntity
        /\ LoadedEntityInv(request.transactionId, t)'
        /\ HolderMatches(t.presentationSubmission, request.presentation)
    BY <1>7, <2>1, <2>2
  <2> QED
    BY <2>1, <2>2, <2>3, SaveAndRespondKeeps DEF HolderMatches
<1>12. ASSUME NEW r \in Request, ProcessReviewed(r)
       PROVE  IInv'
  <2>1. PICK request, t : request = requests[r] /\ t = request.transaction
    OBVIOUS
  <2>2. /\ request.op = "continue"
        /\ Accepted(request)
        /\ t.vpRequest.service = "mediated"
        /\ t.presentationReview.reviewStatus \in ReviewResult
        /\ SaveAndRespond(r, t, FALSE, t.presentationReview.VP, {})
    BY <1>12, <2>1 DEF ProcessReviewed, InStatus
  <2>3. /\ t \in LoadedEntity
        /\ LoadedEntityInv(request.transactionId, t)'
        /\ HolderMatches(t.presentationSubmission, request.presentation)
    BY <1>7, <2>1, <2>2
  <2>4. IssuedVpBacked(request.transactionId, t.presentationReview.VP)'
    BY <2>2, <2>3 DEF LoadedEntityInv, EntityInv, ReviewBacked
  <2> QED
    BY <2>1, <2>2, <2>3, <2>4, SaveAndRespondKeeps DEF HolderMatches
<1>13. ASSUME NEW r \in Request, Respond(r)
       PROVE  IInv'
  <2>1. PICK request : request = requests[r]
    OBVIOUS
  <2>2. /\ request.op = "respond"
        /\ request.transaction.presentationSubmission # None
        /\ request \in RespondRequest
        /\ RequestInv(request)
    BY <1>0, <1>13, <2>1, RequestKinds DEF Respond, BodyIsValid, TypeOK, IInv
  <2>3. UNCHANGED <<exchanges, transactions, reviews, vpRequests, submitted, reviewed>>
    BY <1>13 DEF Respond, database, drawn
  <2>4. CallbackReportsSavedSubmission'
    <3>1. ASSUME NEW c \in callbacks'
          PROVE  \/ c \in callbacks
                 \/ \E url \in request.callback : c = CallbackBody(request, url)
      BY <1>13, <2>1, <3>1 DEF Respond
    <3>2. ASSUME NEW url
          PROVE  LET c == CallbackBody(request, url)
                 IN /\ [transactionId |-> c.transactionId,
                        submission |-> c.presentationSubmission] \in submitted
                    /\ c.vp.holder = c.presentationSubmission.vpHolder
      BY <2>2 DEF CallbackBody, RequestInv, LoadedEntityInv, SubmissionBacked
    <3>3. ASSUME NEW c \in callbacks'
          PROVE  /\ [transactionId |-> c.transactionId,
                     submission |-> c.presentationSubmission] \in submitted
                 /\ c.vp.holder = c.presentationSubmission.vpHolder
      BY <3>1, <3>2, <3>3 DEF IInv, CallbackReportsSavedSubmission
    <3> QED
      BY <2>3, <3>3 DEF CallbackReportsSavedSubmission
  <2>5. AnswerWasReviewed' /\ AnsweredHolderSubmitted'
    <3>1. CASE answered' = answered
      <4>1. AnswerWasReviewed'
        BY <1>0, <3>1 DEF IInv, Growing, AnswerWasReviewed
      <4>2. AnsweredHolderSubmitted'
        BY <1>0, <3>1 DEF IInv, Growing, AnsweredHolderSubmitted
      <4> QED
        BY <4>1, <4>2
    <3>2. CASE answered' # answered
      <4> DEFINE answer == [transactionId |-> request.transactionId,
                            holder |-> request.presentation.holder,
                            VP |-> request.vp]
      <4>1. /\ answered' = answered \cup {answer}
            /\ request.transaction.presentationReview # None
            /\ ~request.inProgress
        BY <1>13, <2>1, <3>2 DEF Respond
      <4>2. /\ \E review \in reviewed : review.transactionId = answer.transactionId
            /\ answer.VP # None =>
                 [transactionId |-> answer.transactionId, result |-> "approved",
                  VP |-> answer.VP] \in reviewed
        BY <2>2, <4>1
           DEF RequestInv, LoadedEntityInv, ReviewBacked, IssuedVpBacked,
               RespondRequest
      <4>3. \E s \in submitted :
              /\ s.transactionId = answer.transactionId
              /\ s.submission.vpHolder = answer.holder
        BY <2>2 DEF RequestInv, LoadedEntityInv, SubmissionBacked
      <4> HIDE DEF answer
      <4>4. AnswerWasReviewed'
        BY <2>3, <4>1, <4>2 DEF IInv, AnswerWasReviewed
      <4>5. AnsweredHolderSubmitted'
        <5>1. ASSUME NEW a \in answered
              PROVE  \E s \in submitted' : /\ s.transactionId = a.transactionId
                                           /\ s.submission.vpHolder = a.holder
          BY <1>0 DEF IInv, Growing, AnsweredHolderSubmitted
        <5>2. \E s \in submitted' : /\ s.transactionId = answer.transactionId
                                    /\ s.submission.vpHolder = answer.holder
          BY <1>0, <4>3 DEF Growing
        <5> QED
          BY <4>1, <5>1, <5>2 DEF AnsweredHolderSubmitted
      <4> QED
        BY <4>4, <4>5
    <3> QED
      BY <3>1, <3>2
  <2>7. RequestInv(Idle)'
    BY DEF RequestInv, Idle
  <2>8. requests' = [requests EXCEPT ![r] = Idle]
    BY <1>13 DEF Respond, Answer
  <2> QED
    BY <1>0, <2>3, <2>4, <2>5, <2>7, <2>8, DatabaseKeeps, RequestsKeep DEF IInv
<1>14. ASSUME NEW r \in Request, RespondFailure(r)
       PROVE  IInv'
  BY <1>14, EndKeeps DEF RespondFailure, history
<1>15. ASSUME NEW r \in Request, NEW id \in TransactionId,
              NEW result \in ReviewResult,
              NEW vp \in IssuedVp \cup {None, Undefined},
              ReviewLoad(r, id, result, vp)
       PROVE  IInv'
  <2>1. PICK loaded, t, request :
          /\ loaded = LoadTransaction(id)
          /\ t = [loaded EXCEPT !.presentationReview = Reviewed(@, result, vp)]
          /\ request = [op |-> "review", transactionId |-> id, transaction |-> t]
    OBVIOUS
  <2>2. /\ loaded \in LoadedEntity
        /\ LoadedEntityInv(id, loaded)
        /\ loaded.presentationReview # None
    BY <1>0, <1>15, <2>1, LoadType, LoadInv DEF ReviewLoad
  <2>3. LoadedEntityInv(id, loaded)'
    <3>1. /\ loaded.vpRequest \in VpRequest
          /\ loaded.presentationSubmission \in PresentationSubmission \cup {None}
          /\ loaded.presentationReview \in PresentationReview \cup {None}
      BY <2>2 DEF LoadedEntity, TransactionEntity, ReviewRow, PresentationReview
    <3> QED
      BY <1>0, <2>2, <3>1, BackedStays DEF LoadedEntityInv, EntityInv
  <2>4. /\ t.vpRequest = loaded.vpRequest
        /\ t.presentationSubmission = loaded.presentationSubmission
        /\ t.presentationReview = Reviewed(loaded.presentationReview, result, vp)
        /\ t.presentationReview \in PresentationReview
        /\ t.presentationReview # None
    BY <2>1, <2>2, NoneAssumption
       DEF LoadedEntity, TransactionEntity, Reviewed, ReviewRow, ReviewResult,
           ReviewStatus, PresentationReview
  <2>5. t.presentationReview.reviewStatus = "rejected" =>
          t.presentationReview.VP = loaded.presentationReview.VP
    BY <2>2, <2>4
       DEF Reviewed, ReviewResult, LoadedEntity, TransactionEntity, ReviewRow
  <2>6. RequestInv(request)'
    BY <2>1, <2>2, <2>3, <2>4, <2>5
       DEF RequestInv, LoadedEntityInv, EntityInv, ReviewBacked
  <2>7. /\ requests' = [requests EXCEPT ![r] = request]
        /\ UNCHANGED <<database, callbacks, answered>>
    BY <1>15, <2>1 DEF ReviewLoad, history
  <2> QED
    BY <1>0, <2>6, <2>7, DatabaseKeeps, RequestsKeep, HistoryKeeps
       DEF IInv, database
<1>16. ASSUME NEW r \in Request, ReviewSave(r)
       PROVE  IInv'
  <2>1. PICK request, id, t :
          request = requests[r] /\ id = request.transactionId
            /\ t = request.transaction
    OBVIOUS
  <2>2. /\ request \in ReviewRequest
        /\ RequestInv(request)
        /\ RequestInv(request)'
    BY <1>0, <1>16, <2>1, RequestKinds, RequestStays DEF ReviewSave, TypeOK, IInv
  <2>3. /\ id \in TransactionId
        /\ t \in ReviewedEntity
    BY <2>1, <2>2 DEF ReviewRequest
  <2>4. /\ SaveTransaction(id, t)
        /\ reviewed' = reviewed \cup
             {[transactionId |-> id, result |-> t.presentationReview.reviewStatus,
               VP |-> Saved(t.presentationReview.VP, None)]}
        /\ vpRequests' = vpRequests
        /\ callbacks' = callbacks
        /\ answered' = answered
        /\ Answer(r)
    BY <1>16, <2>1 DEF ReviewSave, drawn
  <2>5. /\ t.presentationReview # None
        /\ t.presentationReview.reviewStatus \in ReviewResult
        /\ t.presentationSubmission # Undefined
    BY <2>1, <2>2, <2>3, NoneAssumption, ConstantsAssumption
       DEF RequestInv, ReviewRequest, ReviewedEntity, TransactionEntity
  <2>6. IssuedVpBacked(id, t.presentationReview.VP)'
    <3>1. CASE t.presentationReview.reviewStatus = "rejected"
      BY <2>1, <2>2, <3>1 DEF RequestInv, ReviewRequest
    <3>2. CASE t.presentationReview.reviewStatus = "approved"
      BY <2>4, <3>2, ConstantsAssumption DEF IssuedVpBacked, Saved
    <3> QED
      BY <2>5, <3>1, <3>2 DEF ReviewResult
  <2>7. Saveable(id, t)'
    <3>1. /\ EntityInv(id, t)'
          /\ SubmissionBacked(id, t.presentationSubmission)'
      BY <2>1, <2>2 DEF RequestInv, ReviewRequest
    <3>2. \E saved \in reviewed' : saved.transactionId = id
      <4>1. PICK saved : saved = [transactionId |-> id,
                                  result |-> t.presentationReview.reviewStatus,
                                  VP |-> Saved(t.presentationReview.VP, None)]
        OBVIOUS
      <4>2. saved \in reviewed' /\ saved.transactionId = id
        BY <2>4, <4>1
      <4> QED
        BY <4>2
    <3> QED
      BY <2>5, <2>6, <3>1, <3>2 DEF Saveable, ReviewResult
  <2>8. RequestInv(Idle)'
    BY DEF RequestInv, Idle
  <2> QED
    BY <1>0, <2>3, <2>4, <2>7, <2>8, SaveKeeps, RequestsKeep, HistoryKeeps
       DEF IInv, Entity, Answer
<1>17. ASSUME NEW c \in callbacks, CallbackDone(c)
       PROVE  IInv'
  <2>1. \A r \in Request : RequestInv(requests[r])'
    <3>1. ASSUME NEW r \in Request
          PROVE  RequestInv(requests[r])'
      <4>1. PICK kept \in RequestState : kept = requests[r] /\ RequestInv(kept)
        BY <1>0 DEF TypeOK, IInv
      <4>2. RequestInv(kept)'
        BY <1>0, <4>1, RequestStays
      <4>3. requests'[r] = kept
        BY <1>17, <4>1 DEF CallbackDone
      <4> QED
        BY <4>2, <4>3
    <3> QED
      BY <3>1
  <2> QED
    BY <1>0, <1>17, <2>1, DatabaseKeeps, HistoryKeeps
       DEF CallbackDone, IInv, database, history
<1>18. CASE Crash
  <2>1. RequestInv(Idle)'
    BY DEF RequestInv, Idle
  <2>2. \A r \in Request : requests'[r] = Idle
    BY <1>18 DEF Crash
  <2>3. \A r \in Request : RequestInv(requests[r])'
    BY <2>1, <2>2
  <2> QED
    BY <1>0, <1>18, <2>3, DatabaseKeeps, HistoryKeeps
       DEF Crash, IInv, database, history
<1>19. CASE UNCHANGED vars
  BY <1>19, <1>0
     DEF vars, IInv, RowInv, ReviewInv, RequestInv, LoadedEntityInv, EntityInv,
         VpRequestDrawn, SubmissionBacked, ReviewBacked, IssuedVpBacked,
         PendingReviewHasSubmission, CallbackReportsSavedSubmission,
         AnswerWasReviewed, AnsweredHolderSubmitted
<1>20. CASE Next
  BY <1>1, <1>2, <1>3, <1>4, <1>5, <1>6, <1>9, <1>10, <1>11, <1>12, <1>13,
     <1>14, <1>15, <1>16, <1>17, <1>18, <1>19, <1>20, ConstantsAssumption
     DEF Next, ClientCall, ServerStep, RefuseCall
<1> QED
  BY <1>5, <1>19, <1>20 DEF OpenNext

(* The service starts with empty tables and no request.                     *)
LEMMA InitIInv == Init => IInv
<1> SUFFICES ASSUME Init PROVE IInv
  OBVIOUS
<1>1. TypeOK
  BY DEF Init, TypeOK, RequestState
<1>2. \A r \in Request : RequestInv(requests[r])
  BY DEF Init, RequestInv, Idle
<1> QED
  BY <1>1, <1>2
     DEF Init, IInv, RowInv, ReviewInv, PendingReviewHasSubmission,
         CallbackReportsSavedSubmission, AnswerWasReviewed,
         AnsweredHolderSubmitted

(* The invariant holds in every state the service reaches.                  *)
THEOREM Invariance == Spec => []IInv
<1>1. Init => IInv
  BY InitIInv
<1>2. IInv /\ [Next]_vars => IInv'
  BY InvariantStep DEF OpenNext
<1> QED
  BY <1>1, <1>2, PTL DEF Spec

(* Every table, request and callback keeps its type: no handler stores a    *)
(* half-built entity, whatever the order of the loads and saves.            *)
THEOREM TypeCorrect == Spec => []TypeOK
<1>1. IInv => TypeOK
  BY DEF IInv
<1> QED
  BY <1>1, Invariance, PTL

(* processPresentation and addReview: a review is pending only on a         *)
(* transaction that has a submission.                                       *)
THEOREM ReviewsAreOfSubmissions == Spec => []PendingReviewHasSubmission
<1>1. IInv => PendingReviewHasSubmission
  BY DEF IInv
<1> QED
  BY <1>1, Invariance, PTL

(* startExchange and processPresentation: no challenge belongs to two       *)
(* transactions.                                                            *)
THEOREM ChallengesBind == Spec => []ChallengeBindsTransaction
<1>1. IInv => ChallengeBindsTransaction
  <2> SUFFICES ASSUME IInv, NEW id1 \in TransactionId, NEW id2 \in TransactionId,
                      NEW c \in ChallengesOf(id1) \cap ChallengesOf(id2)
               PROVE  id1 = id2
    BY DEF ChallengeBindsTransaction
  <2>1. ASSUME NEW id \in TransactionId, c \in ChallengesOf(id)
        PROVE  vpRequests[c].transactionId = id
    <3>1. RowInv(id) /\ transactions[id] # None
      BY <2>1 DEF IInv, ChallengesOf
    <3> QED
      BY <2>1, <3>1 DEF ChallengesOf, RowInv, VpRequestDrawn, SubmissionBacked
  <2> QED
    BY <2>1
<1> QED
  BY <1>1, Invariance, PTL

(* continueExchange posts only what it saved.                               *)
THEOREM CallbacksReportSaved == Spec => []CallbackReportsSavedSubmission
<1>1. IInv => CallbackReportsSavedSubmission
  BY DEF IInv
<1> QED
  BY <1>1, Invariance, PTL

(* continueExchange and addReview: no final answer, and no issued           *)
(* presentation, without a reviewer's decision for that transaction.        *)
THEOREM AnswersWereReviewed == Spec => []AnswerWasReviewed
<1>1. IInv => AnswerWasReviewed
  BY DEF IInv
<1> QED
  BY <1>1, Invariance, PTL

(* continueExchange: only the holder of a saved submission is answered,     *)
(* also when two holders race for the transaction.                          *)
THEOREM AnsweredHoldersSubmitted == Spec => []AnsweredHolderSubmitted
<1>1. IInv => AnsweredHolderSubmitted
  BY DEF IInv
<1> QED
  BY <1>1, Invariance, PTL
===============================================================================
