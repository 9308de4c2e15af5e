---------------------------- MODULE ExchangeService ----------------------------
(***************************************************************************)
(* The v1 exchanges: ExchangeService, the ExchangeEntity and               *)
(* TransactionEntity aggregates it loads and saves, the controller routes  *)
(* that call it and the callbacks it posts.                                *)
(*                                                                         *)
(* Node runs one handler at a time and switches only at an await, so each  *)
(* handler is cut at its database accesses: a first action loads an entity *)
(* into the request, a later one saves the (by then possibly stale) entity *)
(* back.  Nothing locks or versions a row.  What lies between two accesses *)
(* (verification, which reads no row, and the in-memory changes) belongs   *)
(* to the save that follows it.  A request refused before it has changed   *)
(* anything (RefuseCall) leaves no trace.                                  *)
(***************************************************************************)
EXTENDS Integers, VpSubmissionVerifier

CONSTANTS
  Exchange,            \* exchange ids clients choose
  TransactionId,       \* uuids start() draws for transactions
  IssuedVp,            \* presentations a reviewer can attach to a review
  Url,                 \* callback endpoints
  Request,             \* slots for requests in flight: bounds the concurrency
  Undefined,           \* a property the entity object does not have
  ExchangeDefinitions, \* the definitions clients create exchanges with
  Submissions          \* the presentations clients submit

Service == {"mediated", "unmediated", "none"}
ReviewStatus == {"pending_submission", "pending_review", "approved", "rejected"}
ReviewResult == {"approved", "rejected"}

(* service abstracts interactServices to the type of its first element, the *)
(* only one the code looks at ("none": the list is empty).                  *)
ExchangeDefinition ==
  [service : Service, query : SUBSET Query, isOneTime : BOOLEAN,
   callback : SUBSET Url]

ASSUME ConstantsAssumption ==
  /\ ExchangeDefinitions \subseteq ExchangeDefinition
  /\ Submissions \subseteq Presentation
  /\ None \notin Holder \cup IssuedVp \cup TransactionId
  /\ Undefined \notin IssuedVp \cup {None}

ExchangeEntity ==
  [service : Service, query : SUBSET Query, callback : SUBSET Url,
   oneTimeTransactionId : TransactionId \cup {None}]

VpRequest == [challenge : Challenge, query : SUBSET Query, service : Service]

(* The challenge kept with a submission stands for its verificationResult:  *)
(* it tells which VP request the presentation was verified against.         *)
PresentationSubmission ==
  [vpHolder : Holder \cup {None}, challenge : Challenge]

PresentationReview ==
  [reviewStatus : ReviewStatus, VP : IssuedVp \cup {None, Undefined}]

ReviewRow == [reviewStatus : ReviewStatus, VP : IssuedVp \cup {None}]

(* Who a VP request was built for.                                          *)
DrawnVpRequest == [transactionId : TransactionId, vpRequest : VpRequest]

(* A row of the transaction table.  Its vpRequest never changes, and start() *)
(* draws the key of the presentation_review row together with the           *)
(* challenge, so the challenge also serves as the key of the review.        *)
TransactionRow ==
  [exchangeId : Exchange, vpRequest : VpRequest, callback : SUBSET Url,
   presentationSubmission : PresentationSubmission \cup {None}]

(* null and undefined are not objects.                                      *)
ASSUME NoneAssumption ==
  \A nothing \in {None, Undefined} :
    nothing \notin PresentationSubmission \cup PresentationReview
                    \cup DrawnVpRequest \cup TransactionRow

(* A TransactionEntity object, as a request holds it.                       *)
TransactionEntity(submissions, presentationReviews) ==
  [exchangeId : Exchange, vpRequest : VpRequest, callback : SUBSET Url,
   presentationSubmission : submissions, presentationReview : presentationReviews]

NewEntity ==
  TransactionEntity({Undefined},
                    [reviewStatus : {"pending_submission"}, VP : {Undefined}]
                      \cup {None})

LoadedEntity ==
  TransactionEntity(PresentationSubmission \cup {None}, ReviewRow \cup {None})

ReviewedEntity ==
  TransactionEntity(PresentationSubmission \cup {None},
                    [reviewStatus : ReviewResult,
                     VP : IssuedVp \cup {None, Undefined}])

VARIABLES
  exchanges,           \* exchange table
  transactions,        \* transaction table, with its vp_request and submission rows
  reviews,             \* presentation_review table
  requests,            \* what each request in flight holds
  callbacks,           \* callback POSTs on the wire
  usedTransactionIds,  \* uuids drawn so far for transactions
  vpRequests,          \* VP requests built so far, each under its own challenge
  \* history, for the properties only
  submitted,           \* submissions saved, with their transaction
  reviewed,            \* reviews saved, with their transaction
  answered             \* final answers holders of mediated transactions got

database == <<exchanges, transactions, reviews>>
drawn == <<usedTransactionIds, vpRequests>>
history == <<submitted, reviewed, answered>>
vars == <<exchanges, transactions, reviews, requests, callbacks,
          usedTransactionIds, vpRequests, submitted, reviewed, answered>>

-------------------------------------------------------------------------------
Idle == [op |-> "idle"]

CreateRequest ==
  [op : {"create"}, exchangeId : Exchange, entity : ExchangeEntity]
StartRequest ==
  [op : {"start"}, transactionId : TransactionId, transaction : NewEntity]
ContinueRequest ==
  [op : {"continue"}, transactionId : TransactionId,
   transaction : LoadedEntity, presentation : Presentation]
RespondRequest ==
  [op : {"respond"}, transactionId : TransactionId,
   transaction : LoadedEntity, presentation : Presentation,
   inProgress : BOOLEAN, vp : IssuedVp \cup {None}, callback : SUBSET Url]
ReviewRequest ==
  [op : {"review"}, transactionId : TransactionId, transaction : ReviewedEntity]

RequestState ==
  {Idle} \cup CreateRequest \cup StartRequest \cup ContinueRequest
    \cup RespondRequest \cup ReviewRequest

Callback ==
  [url : Url, transactionId : TransactionId,
   presentationSubmission : PresentationSubmission, vp : Presentation]

TypeOK ==
  /\ exchanges \in [Exchange -> ExchangeEntity \cup {None}]
  /\ transactions \in [TransactionId -> TransactionRow \cup {None}]
  /\ reviews \in [Challenge -> ReviewRow \cup {None}]
  /\ requests \in [Request -> RequestState]
  /\ callbacks \subseteq Callback
  /\ usedTransactionIds \subseteq TransactionId
  /\ vpRequests \in [Challenge -> DrawnVpRequest \cup {None}]
  /\ submitted \subseteq
       [transactionId : TransactionId, submission : PresentationSubmission]
  /\ reviewed \subseteq
       [transactionId : TransactionId, result : ReviewResult,
        VP : IssuedVp \cup {None}]
  /\ answered \subseteq
       [transactionId : TransactionId, holder : Holder \cup {None},
        VP : IssuedVp \cup {None}]

Init ==
  /\ exchanges = [e \in Exchange |-> None]
  /\ transactions = [id \in TransactionId |-> None]
  /\ reviews = [c \in Challenge |-> None]
  /\ requests = [r \in Request |-> Idle]
  /\ callbacks = {}
  /\ usedTransactionIds = {}
  /\ vpRequests = [c \in Challenge |-> None]
  /\ submitted = {}
  /\ reviewed = {}
  /\ answered = {}

-------------------------------------------------------------------------------
(* The repositories (TypeORM over SQLite).                                  *)

(* findOne with the vpRequest, presentationReview and presentationSubmission *)
(* relations: absent relations come back as null.                           *)
LoadTransaction(id) ==
  LET row == transactions[id]
  IN [exchangeId |-> row.exchangeId, vpRequest |-> row.vpRequest,
      callback |-> row.callback,
      presentationSubmission |-> row.presentationSubmission,
      presentationReview |-> reviews[row.vpRequest.challenge]]

(* save() updates the row with the entity's primary key, or inserts it.     *)
(* Every property of the entity is written, whatever the row holds by now,  *)
(* except one that is undefined, which leaves the column as it is.  One     *)
(* save() is taken to be one atomic write.                                  *)
Saved(value, column) == IF value = Undefined THEN column ELSE value

SavedTransaction(t, row) ==
  [exchangeId |-> t.exchangeId, vpRequest |-> t.vpRequest,
   callback |-> t.callback,
   presentationSubmission |->
     Saved(t.presentationSubmission,
           IF row = None THEN None ELSE row.presentationSubmission)]

(* Mutation: a property that is undefined is written as NULL.               *)
SavedReviewWithNull(review, row) ==
  [reviewStatus |-> review.reviewStatus, VP |-> Saved(review.VP, None)]

SavedReview(review, row) ==
  [reviewStatus |-> review.reviewStatus,
   VP |-> Saved(review.VP, IF row = None THEN None ELSE row.VP)]

SaveTransaction(id, t) ==
  /\ transactions' =
       [transactions EXCEPT ![id] = SavedTransaction(t, transactions[id])]
  /\ reviews' =
       IF t.presentationReview = None
       THEN reviews
       ELSE [reviews EXCEPT ![t.vpRequest.challenge] =
               SavedReview(t.presentationReview, reviews[t.vpRequest.challenge])]
  /\ UNCHANGED exchanges

Answer(r) == requests' = [requests EXCEPT ![r] = Idle]

-------------------------------------------------------------------------------
(* POST /exchanges                                                          *)

NewExchange(definition, oneTimeTransactionId) ==
  [service |-> definition.service, query |-> definition.query,
   callback |-> definition.callback,
   oneTimeTransactionId |-> oneTimeTransactionId]

(* Mutation: the look-up of an exchange under the chosen id is missing.     *)
AnyExchangeId(e) == TRUE

ExchangeIdIsFree(e) == exchanges[e] = None

(* The exchange id is free: the entity is built, its save not yet done.     *)
CreateExchangeCheck(r, e, definition) ==
  /\ requests[r] = Idle
  /\ ExchangeIdIsFree(e)
  /\ \E id \in IF definition.isOneTime
               THEN TransactionId \ usedTransactionIds ELSE {None} :
       /\ requests' = [requests EXCEPT ![r] =
                         [op |-> "create", exchangeId |-> e,
                          entity |-> NewExchange(definition, id)]]
       /\ usedTransactionIds' = usedTransactionIds \cup ({id} \ {None})
  /\ UNCHANGED <<database, callbacks, vpRequests, history>>

CreateExchangeSave(r) ==
  /\ requests[r].op = "create"
  /\ exchanges' =
       [exchanges EXCEPT ![requests[r].exchangeId] = requests[r].entity]
  /\ Answer(r)
  /\ UNCHANGED <<transactions, reviews, callbacks, drawn, history>>

-------------------------------------------------------------------------------
(* POST /exchanges/:exchangeId                                              *)

NewTransaction(e, challenge) ==
  [exchangeId |-> e,
   vpRequest |-> [challenge |-> challenge, query |-> exchanges[e].query,
                  service |-> exchanges[e].service],
   callback |-> exchanges[e].callback,
   presentationSubmission |-> Undefined,
   presentationReview |->
     IF exchanges[e].service = "mediated"
     THEN [reviewStatus |-> "pending_submission", VP |-> Undefined]
     ELSE None]

(* Mutation: no fallback for exchanges without a oneTimeTransactionId.      *)
OnlyOneTimeTransactionId(e) == {exchanges[e].oneTimeTransactionId}

(* ExchangeEntity.start: a one-time exchange starts under the transaction   *)
(* id it was created with, any other under a fresh one.                     *)
StartTransactionIds(e) ==
  IF exchanges[e].oneTimeTransactionId # None
  THEN {exchanges[e].oneTimeTransactionId}
  ELSE TransactionId \ usedTransactionIds

FreshChallenges == {c \in Challenge : vpRequests[c] = None}

StartExchangeLoad(r, e) ==
  /\ requests[r] = Idle
  /\ exchanges[e] # None
  /\ \E id \in StartTransactionIds(e), c \in FreshChallenges :
       /\ requests' = [requests EXCEPT ![r] =
                         [op |-> "start", transactionId |-> id,
                          transaction |-> NewTransaction(e, c)]]
       /\ usedTransactionIds' = usedTransactionIds \cup {id}
       /\ vpRequests' = [vpRequests EXCEPT ![c] =
                           [transactionId |-> id,
                            vpRequest |-> NewTransaction(e, c).vpRequest]]
  /\ UNCHANGED <<database, callbacks, history>>

StartExchangeSave(r) ==
  /\ requests[r].op = "start"
  /\ SaveTransaction(requests[r].transactionId, requests[r].transaction)
  /\ Answer(r)
  /\ UNCHANGED <<callbacks, drawn, history>>

-------------------------------------------------------------------------------
(* PUT and POST /exchanges/:exchangeId/:transactionId                       *)

(* Mutation: the holder of a later submission is not compared.              *)
AnyHolder(submission, presentation) == TRUE

(* Mutation: a second submission is refused whoever it is from.             *)
FirstSubmission(submission, presentation) == submission = None

(* A holder stored as NULL never equals the absent holder of a presentation. *)
HolderMatches(submission, presentation) ==
  submission # None =>
    /\ submission.vpHolder = presentation.holder
    /\ presentation.holder # None

(* The route only asks that the exchange in its path exists: the            *)
(* transaction may be another exchange's.  Exchanges are never deleted, so  *)
(* that check and the load are one step.                                    *)
ContinueExchangeLoad(r, id, presentation) ==
  /\ requests[r] = Idle
  /\ \E e \in Exchange : exchanges[e] # None
  /\ transactions[id] # None
  /\ vpRequests[presentation.challenge] # None
  /\ HolderMatches(transactions[id].presentationSubmission, presentation)
  /\ requests' = [requests EXCEPT ![r] =
                    [op |-> "continue", transactionId |-> id,
                     transaction |-> LoadTransaction(id),
                     presentation |-> presentation]]
  /\ UNCHANGED <<database, callbacks, drawn, history>>

(* Mutation: verified against the challenge the presentation itself bears.  *)
AcceptedForOwnChallenge(request) ==
  VerifyVpRequestSubmission(
    request.presentation,
    [request.transaction.vpRequest EXCEPT
       !.challenge = request.presentation.challenge]) = {}

Accepted(request) ==
  VerifyVpRequestSubmission(request.presentation, request.transaction.vpRequest) = {}

NewSubmission(presentation) ==
  [vpHolder |-> presentation.holder, challenge |-> presentation.challenge]

(* Verification reports errors (400), or the VP request has no service to    *)
(* process the presentation with (500); nothing is saved.                   *)
RefusePresentation(r) ==
  /\ requests[r].op = "continue"
  /\ \/ ~Accepted(requests[r])
     \/ requests[r].transaction.vpRequest.service = "none"
  /\ Answer(r)
  /\ UNCHANGED <<database, callbacks, drawn, history>>

(* Common end of processPresentation: save the entity, keep the response.   *)
SaveAndRespond(r, t, inProgress, vp, callback) ==
  LET request == requests[r]
  IN /\ SaveTransaction(request.transactionId, t)
     /\ requests' = [requests EXCEPT ![r] =
                       [op |-> "respond", transactionId |-> request.transactionId,
                        transaction |-> t, presentation |-> request.presentation,
                        inProgress |-> inProgress, vp |-> vp,
                        callback |-> callback]]
     /\ submitted' = submitted \cup
          {[transactionId |-> request.transactionId, submission |-> s] :
             s \in {t.presentationSubmission} \ {None}}
     /\ UNCHANGED <<callbacks, drawn, reviewed, answered>>

WithSubmission(t, presentation) ==
  [t EXCEPT !.presentationSubmission = NewSubmission(presentation)]

ProcessUnmediated(r) ==
  LET t == requests[r].transaction
  IN /\ requests[r].op = "continue"
     /\ Accepted(requests[r])
     /\ t.vpRequest.service = "unmediated"
     /\ SaveAndRespond(r, WithSubmission(t, requests[r].presentation),
                       FALSE, None, t.callback)

(* Mutation: the review status is not looked at.                            *)
InAnyStatus(r, statuses) ==
  /\ requests[r].op = "continue"
  /\ Accepted(requests[r])
  /\ requests[r].transaction.vpRequest.service = "mediated"

InStatus(r, statuses) ==
  /\ requests[r].op = "continue"
  /\ Accepted(requests[r])
  /\ requests[r].transaction.vpRequest.service = "mediated"
  /\ requests[r].transaction.presentationReview.reviewStatus \in statuses

(* Mutation: the review starts without the submission being attached.       *)
ReviewWithoutSubmission(t, presentation) ==
  [t EXCEPT !.presentationReview.reviewStatus = "pending_review"]

(* Mutation: the holder who asks while the review is pending is not         *)
(* reported again.                                                          *)
ProcessPendingReviewSilently(r) ==
  LET t == requests[r].transaction
  IN /\ InStatus(r, {"pending_review"})
     /\ SaveAndRespond(r, t, TRUE, None, {})

(* A submission an earlier run of a one-time exchange left is kept.         *)
SubmittedForReview(t, presentation) ==
  [(IF t.presentationSubmission = None THEN WithSubmission(t, presentation) ELSE t)
     EXCEPT !.presentationReview.reviewStatus = "pending_review"]

ProcessPendingSubmission(r) ==
  LET t == requests[r].transaction
  IN /\ InStatus(r, {"pending_submission"})
     /\ SaveAndRespond(r, SubmittedForReview(t, requests[r].presentation),
                       TRUE, None, t.callback)

ProcessPendingReview(r) ==
  LET t == requests[r].transaction
  IN /\ InStatus(r, {"pending_review"})
     /\ SaveAndRespond(r, t, TRUE, None, t.callback)

ProcessReviewed(r) ==
  LET t == requests[r].transaction
  IN /\ InStatus(r, ReviewResult)
     /\ SaveAndRespond(r, t, FALSE, t.presentationReview.VP, {})

(* Mutation: the response does not depend on the callback body.             *)
AnyBody(request) == TRUE

(* The callback body has to carry the submission's verificationResult:      *)
(* without a submission its validation fails, after the save.               *)
BodyIsValid(request) == request.transaction.presentationSubmission # None

CallbackBody(request, url) ==
  [url |-> url, transactionId |-> request.transactionId,
   presentationSubmission |-> request.transaction.presentationSubmission,
   vp |-> request.presentation]

Respond(r) ==
  LET request == requests[r]
  IN /\ request.op = "respond"
     /\ BodyIsValid(request)
     /\ callbacks' =
          callbacks \cup {CallbackBody(request, url) : url \in request.callback}
     /\ answered' =
          IF request.transaction.presentationReview = None \/ request.inProgress
          THEN answered
          ELSE answered \cup {[transactionId |-> request.transactionId,
                               holder |-> request.presentation.holder,
                               VP |-> request.vp]}
     /\ Answer(r)
     /\ UNCHANGED <<database, drawn, submitted, reviewed>>

RespondFailure(r) ==
  /\ requests[r].op = "respond"
  /\ ~BodyIsValid(requests[r])
  /\ Answer(r)
  /\ UNCHANGED <<database, callbacks, drawn, history>>

(* A callback POST succeeds or fails; the service only logs which.          *)
CallbackDone(c) ==
  /\ c \in callbacks
  /\ callbacks' = callbacks \ {c}
  /\ UNCHANGED <<database, requests, drawn, history>>

-------------------------------------------------------------------------------
(* POST /exchanges/:exchangeId/:transactionId/review                        *)

(* Mutation: a rejection keeps the presentation the reviewer sent along.    *)
ReviewedWithVp(review, result, vp) == [reviewStatus |-> result, VP |-> vp]

(* approvePresentationSubmission takes the reviewer's vp (undefined when he *)
(* leaves it out, null when he sends null); rejectPresentationSubmission    *)
(* leaves VP alone.                                                         *)
Reviewed(review, result, vp) ==
  IF result = "approved"
  THEN [reviewStatus |-> "approved", VP |-> vp]
  ELSE [review EXCEPT !.reviewStatus = "rejected"]

ReviewLoad(r, id, result, vp) ==
  /\ requests[r] = Idle
  /\ \E e \in Exchange : exchanges[e] # None
  /\ transactions[id] # None
  /\ LoadTransaction(id).presentationReview # None
  /\ requests' =
       [requests EXCEPT ![r] =
          [op |-> "review", transactionId |-> id,
           transaction |-> [LoadTransaction(id) EXCEPT
                              !.presentationReview = Reviewed(@, result, vp)]]]
  /\ UNCHANGED <<database, callbacks, drawn, history>>

ReviewSave(r) ==
  LET t == requests[r].transaction
  IN /\ requests[r].op = "review"
     /\ SaveTransaction(requests[r].transactionId, t)
     /\ reviewed' = reviewed \cup
          {[transactionId |-> requests[r].transactionId,
            result |-> t.presentationReview.reviewStatus,
            VP |-> Saved(t.presentationReview.VP, None)]}
     /\ Answer(r)
     /\ UNCHANGED <<callbacks, drawn, submitted, answered>>

-------------------------------------------------------------------------------
(* The process stops and is started again on its database file: requests    *)
(* and callbacks in flight are lost.                                        *)
Crash ==
  /\ \/ \E r \in Request : requests[r] # Idle
     \/ callbacks # {}
  /\ requests' = [r \in Request |-> Idle]
  /\ callbacks' = {}
  /\ UNCHANGED <<database, drawn, history>>

(* Another holder than the submission's: the exception of the entity is     *)
(* answered with a 403.                                                     *)
HolderForbidden(id) ==
  /\ transactions[id] # None
  /\ \E presentation \in Submissions :
       ~HolderMatches(transactions[id].presentationSubmission, presentation)

(* The calls refused before anything has changed.                           *)
RefuseCall(r) ==
  /\ requests[r] = Idle
  /\ \/ \E e \in Exchange : exchanges[e] # None      \* create: 409
     \/ \E e \in Exchange : exchanges[e] = None      \* any route: 404
     \/ \E id \in TransactionId :
          \/ transactions[id] = None                 \* continue, review: 404
          \/ /\ transactions[id] # None              \* review, unmediated: 500
             /\ LoadTransaction(id).presentationReview = None
          \/ HolderForbidden(id)
  /\ UNCHANGED vars

ClientCall(r) ==
  \/ RefuseCall(r)
  \/ \E e \in Exchange, definition \in ExchangeDefinitions :
       CreateExchangeCheck(r, e, definition)
  \/ \E e \in Exchange : StartExchangeLoad(r, e)
  \/ \E id \in TransactionId, presentation \in Submissions :
       ContinueExchangeLoad(r, id, presentation)
  \/ \E id \in TransactionId, result \in ReviewResult,
        vp \in IssuedVp \cup {None, Undefined} : ReviewLoad(r, id, result, vp)

ServerStep(r) ==
  \/ CreateExchangeSave(r)
  \/ StartExchangeSave(r)
  \/ RefusePresentation(r)
  \/ ProcessUnmediated(r)
  \/ ProcessPendingSubmission(r)
  \/ ProcessPendingReview(r)
  \/ ProcessReviewed(r)
  \/ Respond(r)
  \/ RespondFailure(r)
  \/ ReviewSave(r)

Next ==
  \/ \E r \in Request : ClientCall(r) \/ ServerStep(r)
  \/ \E c \in callbacks : CallbackDone(c)
  \/ Crash

Spec == Init /\ [][Next]_vars

-------------------------------------------------------------------------------
(* Properties.                                                              *)

(* A transaction waits for a review only when there is a submission to      *)
(* review: no order of loads and (atomic) saves, no restart of a one-time   *)
(* exchange and no crash separates the pending_review status from the       *)
(* submission it is about.                                                  *)
PendingReviewHasSubmission ==
  \A id \in TransactionId :
    LET row == transactions[id]
    IN (/\ row # None
        /\ reviews[row.vpRequest.challenge] # None
        /\ reviews[row.vpRequest.challenge].reviewStatus = "pending_review")
       => row.presentationSubmission # None

(* A challenge ties a presentation to one transaction: neither the VP       *)
(* request nor the saved submission of one transaction bears a challenge    *)
(* another one's bears.                                                     *)
ChallengesOf(id) ==
  IF transactions[id] = None THEN {}
  ELSE {transactions[id].vpRequest.challenge} \cup
       {s.challenge : s \in {transactions[id].presentationSubmission} \ {None}}

ChallengeBindsTransaction ==
  \A id1, id2 \in TransactionId :
    id1 # id2 => ChallengesOf(id1) \cap ChallengesOf(id2) = {}

(* What a callback reports was saved for that transaction before the POST,  *)
(* and its presentation comes from the holder of the reported submission.   *)
CallbackReportsSavedSubmission ==
  \A c \in callbacks :
    /\ [transactionId |-> c.transactionId,
        submission |-> c.presentationSubmission] \in submitted
    /\ c.vp.holder = c.presentationSubmission.vpHolder

(* A holder gets a final answer to a mediated transaction only after a      *)
(* reviewer decided it, and a presentation only if a reviewer approved that *)
(* very presentation for that very transaction.                             *)
AnswerWasReviewed ==
  \A a \in answered :
    /\ \E review \in reviewed : review.transactionId = a.transactionId
    /\ a.VP # None =>
         [transactionId |-> a.transactionId, result |-> "approved", VP |-> a.VP]
           \in reviewed

(* Whoever gets the final answer had an error-free submission saved for the *)
(* transaction.                                                             *)
AnsweredHolderSubmitted ==
  \A a \in answered :
    \E s \in submitted :
      s.transactionId = a.transactionId /\ s.submission.vpHolder = a.holder

(* All the submissions ever saved for a transaction come from one holder    *)
(* ("DID does not match the DID that initially submitted").                 *)
OneHolderPerTransaction ==
  \A s1, s2 \in submitted :
    s1.transactionId = s2.transactionId =>
      s1.submission.vpHolder = s2.submission.vpHolder

(* An exchange, once created, is not replaced: a second create under its id *)
(* is a conflict.                                                           *)
ExchangeNotReplaced ==
  [][\A e \in Exchange :
       exchanges[e] # None => exchanges'[e] = exchanges[e]]_vars

(* A review never goes back: pending_submission, pending_review, decided.   *)
(* The presentation kept with it changes only to what an approval that is   *)
(* saved brings: an approval can replace it, or withdraw it with null, but  *)
(* an approval that leaves vp out, a rejection, a submission or a poll      *)
(* never loses it.                                                          *)
Rank(reviewStatus) ==
  CASE reviewStatus = "pending_submission" -> 0
    [] reviewStatus = "pending_review"     -> 1
    [] OTHER                               -> 2

ApprovalIsSaved(c, vp) ==
  \E r \in Request :
    /\ requests[r].op = "review"
    /\ requests[r].transaction.vpRequest.challenge = c
    /\ requests[r].transaction.presentationReview =
         [reviewStatus |-> "approved", VP |-> vp]
    /\ requests'[r] = Idle

ReviewNeverGoesBack ==
  [][\A c \in Challenge :
       reviews[c] # None =>
         /\ Rank(reviews'[c].reviewStatus) >= Rank(reviews[c].reviewStatus)
         /\ reviews'[c].VP # reviews[c].VP =>
              ApprovalIsSaved(c, reviews'[c].VP)]_vars

(* A one-time exchange is used once: its transaction, once started, keeps   *)
(* the VP request it was started with.                                      *)
OneTimeExchangeStartsOnce ==
  [][\A e \in Exchange :
       LET id == exchanges[e].oneTimeTransactionId
       IN (exchanges[e] # None /\ id # None /\ transactions[id] # None)
          => transactions'[id].vpRequest = transactions[id].vpRequest]_vars
===============================================================================
