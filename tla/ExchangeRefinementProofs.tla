----------------------- MODULE ExchangeRefinementProofs -----------------------
(***************************************************************************)
(* What the v1 exchanges promise when requests do not race: proved for any *)
(* number of concurrent requests, as long as no two of them are about the  *)
(* same transaction, or create the same exchange.  Nothing in the code     *)
(* sees to that; the runs exchange_holder_race and exchange_lost_review    *)
(* show what happens otherwise.                                            *)
(***************************************************************************)
EXTENDS ExchangeRefinement, ExchangeServiceProofs

-------------------------------------------------------------------------------
(* The clients' side of the bargain.                                        *)
AboutTransaction == {"start", "continue", "respond", "review"}

OneRequestPerTransaction ==
  \A r, s \in Request :
    /\ requests[r].op \in AboutTransaction
    /\ requests[s].op \in AboutTransaction
    /\ requests[r].transactionId = requests[s].transactionId
    => r = s

OneCreatePerExchange ==
  \A r, s \in Request :
    /\ requests[r].op = "create"
    /\ requests[s].op = "create"
    /\ requests[r].exchangeId = requests[s].exchangeId
    => r = s

-------------------------------------------------------------------------------
(* The inductive invariant.  Its idea: nobody else writes the row of a      *)
(* transaction a request is about, so the entity the request holds is still *)
(* what the tables say.                                                     *)

(* The entity has the VP request and the submission of the row.             *)
Current(id, t) ==
  /\ transactions[id] # None
  /\ t.vpRequest = transactions[id].vpRequest
  /\ t.presentationSubmission = transactions[id].presentationSubmission

CurrentReview(t) == reviews[t.vpRequest.challenge]

(* No row knows of the challenge.                                           *)
NotSavedYet(c) ==
  /\ reviews[c] = None
  /\ \A id \in TransactionId : c \notin ChallengesOf(id)

Fresh(request) ==
  /\ request.op = "start" => NotSavedYet(request.transaction.vpRequest.challenge)
  /\ request.op \in {"continue", "respond"} =>
       /\ Current(request.transactionId, request.transaction)
       /\ request.transaction.presentationReview = CurrentReview(request.transaction)
  /\ (/\ request.op = "respond"
      /\ request.transaction.presentationReview # None
      /\ ~request.inProgress) =>
        /\ request.vp = request.transaction.presentationReview.VP
        /\ \/ request.transaction.presentationSubmission = None
           \/ request.presentation.holder # None
  /\ request.op = "review" =>
       /\ Current(request.transactionId, request.transaction)
       /\ request.transaction.presentationReview.reviewStatus = "rejected" =>
            request.transaction.presentationReview.VP
              = CurrentReview(request.transaction).VP

(* Whoever submitted last is the only one who ever submitted.               *)
SubmittedByHolder(s) ==
  LET row == transactions[s.transactionId]
  IN /\ row # None
     /\ row.presentationSubmission # None
     /\ row.presentationSubmission.vpHolder = s.submission.vpHolder

SerialInv ==
  /\ IInv
  /\ \A r \in Request : Fresh(requests[r])
  /\ \A s \in submitted : SubmittedByHolder(s)

-------------------------------------------------------------------------------
(* What a save leaves in the tables.                                        *)
LEMMA SaveRows ==
  ASSUME TypeOK, NEW id \in TransactionId, NEW t \in Entity, NEW row,
         row = transactions[id], SaveTransaction(id, t)
  PROVE  /\ transactions'[id] # None
         /\ transactions'[id].vpRequest = t.vpRequest
         /\ transactions'[id].presentationSubmission =
              Saved(t.presentationSubmission,
                    IF row = None THEN None ELSE row.presentationSubmission)
         /\ \A i \in TransactionId \ {id} : transactions'[i] = transactions[i]
         /\ \A c \in Challenge \ {t.vpRequest.challenge} : reviews'[c] = reviews[c]
<1>1. transactions' = [transactions EXCEPT ![id] = SavedTransaction(t, row)]
  BY DEF SaveTransaction
<1>2. transactions' \in [TransactionId -> TransactionRow \cup {None}]
  BY SaveType
<1>3. transactions'[id] = SavedTransaction(t, row)
  BY <1>1 DEF TypeOK
<1>4. SavedTransaction(t, row) # None
  <2>1. /\ t.exchangeId \in Exchange
        /\ t.vpRequest \in VpRequest
        /\ t.callback \in SUBSET Url
        /\ t.presentationSubmission \in
             PresentationSubmission \cup {None, Undefined}
    BY DEF Entity, NewEntity, LoadedEntity, ReviewedEntity, TransactionEntity
  <2>2. row # None =>
          row.presentationSubmission \in PresentationSubmission \cup {None}
    BY DEF TypeOK, TransactionRow
  <2>3. SavedTransaction(t, row) \in TransactionRow
    BY <2>1, <2>2 DEF SavedTransaction, Saved, TransactionRow
  <2> QED
    BY <2>3, NoneAssumption
<1>5. \A i \in TransactionId \ {id} : transactions'[i] = transactions[i]
  BY <1>1 DEF TypeOK
<1>6. \A c \in Challenge \ {t.vpRequest.challenge} : reviews'[c] = reviews[c]
  BY DEF SaveTransaction, TypeOK
<1> QED
  BY <1>3, <1>4, <1>5, <1>6 DEF SavedTransaction

LEMMA SaveReview ==
  ASSUME TypeOK, NEW id \in TransactionId, NEW t \in Entity, NEW c, NEW review,
         c = t.vpRequest.challenge, review = reviews[c],
         t.presentationReview # None, SaveTransaction(id, t)
  PROVE  /\ reviews'[c] # None
         /\ reviews'[c].reviewStatus = t.presentationReview.reviewStatus
         /\ reviews'[c].VP = Saved(t.presentationReview.VP,
                                   IF review = None THEN None ELSE review.VP)
<1>1. /\ c \in Challenge
      /\ t.presentationReview \in PresentationReview
  BY DEF Entity, NewEntity, LoadedEntity, ReviewedEntity, TransactionEntity,
         VpRequest, ReviewRow, PresentationReview, ReviewStatus, ReviewResult
<1>2. review \in ReviewRow \cup {None}
  BY <1>1 DEF TypeOK
<1>3. SavedReview(t.presentationReview, review) \in PresentationReview
  BY <1>1, <1>2 DEF SavedReview, Saved, ReviewRow, PresentationReview
<1>4. reviews'[c] = SavedReview(t.presentationReview, review)
  BY <1>1 DEF SaveTransaction, TypeOK
<1> QED
  BY <1>3, <1>4, NoneAssumption DEF SavedReview

(* The tables then say what the entity said.                                *)
LEMMA SaveMakesCurrent ==
  ASSUME TypeOK, NEW id \in TransactionId, NEW t \in LoadedEntity,
         t.presentationReview = None => CurrentReview(t) = None,
         SaveTransaction(id, t)
  PROVE  Current(id, t)' /\ t.presentationReview = CurrentReview(t)'
<1>0. /\ t \in Entity
      /\ t.presentationSubmission \in PresentationSubmission \cup {None}
      /\ t.presentationReview \in ReviewRow \cup {None}
      /\ t.presentationSubmission # Undefined
  BY NoneAssumption, ConstantsAssumption DEF Entity, LoadedEntity, TransactionEntity
<1>1. Current(id, t)'
  <2>1. PICK row : row = transactions[id]
    OBVIOUS
  <2>2. /\ transactions'[id] # None
        /\ transactions'[id].vpRequest = t.vpRequest
        /\ transactions'[id].presentationSubmission
             = Saved(t.presentationSubmission,
                     IF row = None THEN None ELSE row.presentationSubmission)
    BY <1>0, <2>1, SaveRows
  <2> QED
    BY <1>0, <2>2 DEF Current, Saved
<1>2. CASE t.presentationReview = None
  BY <1>1, <1>2 DEF SaveTransaction, CurrentReview
<1>3. CASE t.presentationReview # None
  <2>1. PICK c, review : c = t.vpRequest.challenge /\ review = reviews[c]
    OBVIOUS
  <2>2. /\ t.presentationReview \in ReviewRow
        /\ t.presentationReview.VP # Undefined
    BY <1>0, <1>3, ConstantsAssumption DEF ReviewRow
  <2>3. /\ reviews'[c] # None
        /\ reviews'[c].reviewStatus = t.presentationReview.reviewStatus
        /\ reviews'[c].VP = t.presentationReview.VP
    BY <1>0, <1>3, <2>1, <2>2, SaveReview DEF Saved
  <2>4. reviews'[c] \in ReviewRow
    <3>1. c \in Challenge
      BY <2>1 DEF LoadedEntity, TransactionEntity, VpRequest
    <3>2. reviews' \in [Challenge -> ReviewRow \cup {None}]
      BY <1>0, SaveType
    <3> QED
      BY <2>3, <3>1, <3>2
  <2> QED
    BY <1>1, <2>1, <2>2, <2>3, <2>4 DEF CurrentReview, ReviewRow
<1> QED
  BY <1>1, <1>2, <1>3

(* Freshness is a matter of the tables only.                                *)
LEMMA FreshStays ==
  ASSUME UNCHANGED <<transactions, reviews>>, NEW request, Fresh(request)
  PROVE  Fresh(request)'
  BY DEF Fresh, Current, CurrentReview, NotSavedYet, ChallengesOf

(* What is not of a start or of a handler that loaded is always fresh.      *)
LEMMA OthersAreFresh ==
  ASSUME NEW request, request.op \notin AboutTransaction
  PROVE  Fresh(request)
  BY DEF Fresh, AboutTransaction

-------------------------------------------------------------------------------
(* What processPresentation makes of a loaded transaction t, and what it    *)
(* answers: the cases of the code, told apart by the review.                *)
Unmediated(t, presentation, saved) ==
  /\ t.presentationReview = None
  /\ saved.presentationReview = None
  /\ saved.presentationSubmission = NewSubmission(presentation)

ReviewStarts(t, presentation, saved, inProgress) ==
  /\ t.presentationReview # None
  /\ t.presentationReview.reviewStatus = "pending_submission"
  /\ saved.presentationReview
       = [reviewStatus |-> "pending_review", VP |-> t.presentationReview.VP]
  /\ saved.presentationSubmission
       = IF t.presentationSubmission = None THEN NewSubmission(presentation)
         ELSE t.presentationSubmission
  /\ inProgress

Repeated(t, saved, inProgress, vp) ==
  /\ t.presentationReview # None
  /\ saved = t
  /\ \/ inProgress
     \/ /\ ~inProgress
        /\ t.presentationReview.reviewStatus \in ReviewResult
        /\ vp = t.presentationReview.VP

Processed(t, presentation, saved, inProgress, vp) ==
  /\ saved.vpRequest = t.vpRequest
  /\ \/ Unmediated(t, presentation, saved)
     \/ ReviewStarts(t, presentation, saved, inProgress)
     \/ Repeated(t, saved, inProgress, vp)

ContinueSave(r) ==
  \/ ProcessUnmediated(r)
  \/ ProcessPendingSubmission(r)
  \/ ProcessPendingReview(r)
  \/ ProcessReviewed(r)

(* What a request that got through the verification holds.                  *)
LoadedByContinue(id, t, presentation) ==
  /\ id \in TransactionId
  /\ t \in LoadedEntity
  /\ LoadedEntityInv(id, t)
  /\ Current(id, t)
  /\ t.presentationReview = CurrentReview(t)
  /\ HolderMatches(t.presentationSubmission, presentation)
  /\ presentation.holder \in Holder \cup {None}
  /\ presentation.challenge = t.vpRequest.challenge
  /\ NewSubmission(presentation) \in PresentationSubmission

LEMMA ContinueSaves ==
  ASSUME SerialInv, NEW r \in Request, ContinueSave(r),
         NEW id, NEW t, NEW presentation,
         id = requests[r].transactionId,
         t = requests[r].transaction,
         presentation = requests[r].presentation
  PROVE  /\ requests[r].op = "continue"
         /\ LoadedByContinue(id, t, presentation)
         /\ \E saved \in LoadedEntity, inProgress \in BOOLEAN,
               vp \in IssuedVp \cup {None}, callback \in SUBSET Url :
              /\ SaveAndRespond(r, saved, inProgress, vp, callback)
              /\ Processed(t, presentation, saved, inProgress, vp)
<1>1. PICK request : request = requests[r]
  OBVIOUS
<1>2. request.op = "continue" /\ Accepted(request)
  BY <1>1 DEF ContinueSave, ProcessUnmediated, ProcessPendingSubmission,
              ProcessPendingReview, ProcessReviewed, InStatus
<1>3. /\ request \in ContinueRequest
      /\ RequestInv(request)
      /\ Fresh(request)
  BY <1>1, <1>2, RequestKinds DEF SerialInv, IInv, TypeOK
<1>4. LoadedByContinue(id, t, presentation)
  <2>1. /\ id \in TransactionId
        /\ t \in LoadedEntity
        /\ presentation.holder \in Holder \cup {None}
        /\ NewSubmission(presentation) \in PresentationSubmission
    BY <1>1, <1>3 DEF ContinueRequest, NewSubmission, Presentation,
                      PresentationSubmission
  <2>2. presentation.challenge = t.vpRequest.challenge
    BY <1>1, <1>2, <1>3, AcceptedAnswers
  <2>3. /\ LoadedEntityInv(id, t)
        /\ HolderMatches(t.presentationSubmission, presentation)
    BY <1>1, <1>2, <1>3 DEF RequestInv
  <2>4. Current(id, t) /\ t.presentationReview = CurrentReview(t)
    BY <1>1, <1>2, <1>3 DEF Fresh
  <2> QED
    BY <2>1, <2>2, <2>3, <2>4 DEF LoadedByContinue
<1>5. /\ t.presentationReview \in ReviewRow \cup {None}
      /\ t.presentationSubmission \in PresentationSubmission \cup {None}
      /\ t.callback \in SUBSET Url
      /\ t.presentationReview = None <=> t.vpRequest.service # "mediated"
  BY <1>4 DEF LoadedByContinue, LoadedEntityInv, EntityInv, LoadedEntity,
              TransactionEntity
<1>6. CASE ProcessUnmediated(r)
  <2>1. PICK saved : saved = WithSubmission(t, presentation)
    OBVIOUS
  <2>2. /\ t.vpRequest.service = "unmediated"
        /\ SaveAndRespond(r, saved, FALSE, None, t.callback)
    BY <1>1, <1>6, <2>1 DEF ProcessUnmediated
  <2>3. /\ saved \in LoadedEntity
        /\ saved.vpRequest = t.vpRequest
        /\ saved.presentationReview = t.presentationReview
        /\ saved.presentationSubmission = NewSubmission(presentation)
    BY <1>4, <2>1
       DEF LoadedByContinue, WithSubmission, LoadedEntity, TransactionEntity
  <2>4. Processed(t, presentation, saved, FALSE, None)
    BY <1>5, <2>2, <2>3 DEF Processed, Unmediated
  <2> QED
    BY <1>1, <1>2, <1>4, <1>5, <2>2, <2>3, <2>4
<1>7. ASSUME t.vpRequest.service = "mediated"
      PROVE  t.presentationReview \in ReviewRow /\ t.presentationReview # None
  BY <1>5, <1>7
<1>8. CASE ProcessPendingSubmission(r)
  <2>1. PICK saved : saved = SubmittedForReview(t, presentation)
    OBVIOUS
  <2>2. /\ t.vpRequest.service = "mediated"
        /\ t.presentationReview.reviewStatus = "pending_submission"
        /\ SaveAndRespond(r, saved, TRUE, None, t.callback)
    BY <1>1, <1>8, <2>1 DEF ProcessPendingSubmission, InStatus
  <2>3. /\ saved \in LoadedEntity
        /\ saved.vpRequest = t.vpRequest
        /\ saved.presentationReview
             = [reviewStatus |-> "pending_review", VP |-> t.presentationReview.VP]
        /\ saved.presentationSubmission
             = IF t.presentationSubmission = None
               THEN NewSubmission(presentation)
               ELSE t.presentationSubmission
    BY <1>4, <1>7, <2>1, <2>2
       DEF LoadedByContinue, SubmittedForReview, WithSubmission, LoadedEntity,
           TransactionEntity, ReviewRow, ReviewStatus
  <2>4. Processed(t, presentation, saved, TRUE, None)
    BY <1>7, <2>2, <2>3 DEF Processed, ReviewStarts
  <2> QED
    BY <1>1, <1>2, <1>4, <1>5, <2>2, <2>3, <2>4
<1>9. CASE ProcessPendingReview(r)
  <2>1. /\ t.vpRequest.service = "mediated"
        /\ SaveAndRespond(r, t, TRUE, None, t.callback)
    BY <1>1, <1>9 DEF ProcessPendingReview, InStatus
  <2>2. Processed(t, presentation, t, TRUE, None)
    BY <1>7, <2>1 DEF Processed, Repeated
  <2> QED
    BY <1>1, <1>2, <1>4, <1>5, <2>1, <2>2 DEF LoadedByContinue
<1>10. CASE ProcessReviewed(r)
  <2>1. /\ t.vpRequest.service = "mediated"
        /\ t.presentationReview.reviewStatus \in ReviewResult
        /\ SaveAndRespond(r, t, FALSE, t.presentationReview.VP, {})
    BY <1>1, <1>10 DEF ProcessReviewed, InStatus
  <2>2. Processed(t, presentation, t, FALSE, t.presentationReview.VP)
    BY <1>7, <2>1 DEF Processed, Repeated
  <2>3. t.presentationReview.VP \in IssuedVp \cup {None}
    BY <1>7, <2>1 DEF ReviewRow
  <2>4. FALSE \in BOOLEAN /\ {} \in SUBSET Url
    OBVIOUS
  <2> QED
    BY <1>1, <1>2, <1>4, <2>1, <2>2, <2>3, <2>4 DEF LoadedByContinue
<1> QED
  BY <1>6, <1>8, <1>9, <1>10 DEF ContinueSave

-------------------------------------------------------------------------------
(* A save keeps the row's submission, or adds one of the same holder for    *)
(* the VP request of the entity.                                            *)
OldSubmission(id) ==
  IF transactions[id] = None THEN None ELSE transactions[id].presentationSubmission

SubmissionGoesOn(id, t) ==
  \/ t.presentationSubmission \in {Undefined, OldSubmission(id)}
  \/ /\ t.presentationSubmission \in PresentationSubmission
     /\ t.presentationSubmission.challenge = t.vpRequest.challenge
     /\ OldSubmission(id) # None =>
          t.presentationSubmission.vpHolder = OldSubmission(id).vpHolder

LEMMA SaveChallenges ==
  ASSUME TypeOK, NEW id \in TransactionId, NEW t \in Entity,
         SaveTransaction(id, t), SubmissionGoesOn(id, t), NEW i \in TransactionId
  PROVE  ChallengesOf(i)' \subseteq ChallengesOf(i) \cup {t.vpRequest.challenge}
<1>1. PICK row : row = transactions[id]
  OBVIOUS
<1>2. /\ transactions'[id] # None
      /\ transactions'[id].vpRequest = t.vpRequest
      /\ transactions'[id].presentationSubmission =
           Saved(t.presentationSubmission,
                 IF row = None THEN None ELSE row.presentationSubmission)
      /\ \A j \in TransactionId \ {id} : transactions'[j] = transactions[j]
  BY <1>1, SaveRows
<1>3. CASE i # id
  BY <1>2, <1>3 DEF ChallengesOf
<1>4. CASE i = id
  BY <1>1, <1>2, <1>4 DEF ChallengesOf, SubmissionGoesOn, OldSubmission, Saved
<1> QED
  BY <1>3, <1>4

(* The transaction and the VP request a request is about.                   *)
LEMMA AboutDrawn ==
  ASSUME NEW request \in RequestState, RequestInv(request),
         request.op \in AboutTransaction
  PROVE  /\ request.transactionId \in TransactionId
         /\ request.transaction \in Entity
         /\ request.transaction.vpRequest \in VpRequest
         /\ request.transaction.vpRequest.challenge \in Challenge
         /\ VpRequestDrawn(request.transactionId, request.transaction.vpRequest)
<1>1. /\ request.transactionId \in TransactionId
      /\ request.transaction \in Entity
  BY RequestKinds DEF AboutTransaction, Entity, StartRequest, ContinueRequest,
                      RespondRequest, ReviewRequest
<1>2. request.transaction.vpRequest \in VpRequest
  BY <1>1 DEF Entity, NewEntity, LoadedEntity, ReviewedEntity, TransactionEntity
<1>3. VpRequestDrawn(request.transactionId, request.transaction.vpRequest)
  BY DEF AboutTransaction, RequestInv, LoadedEntityInv, EntityInv
<1> QED
  BY <1>1, <1>2, <1>3 DEF VpRequest

(* Requests about other transactions notice nothing of a save.              *)
LEMMA OthersStayFresh ==
  ASSUME SerialInv, OneRequestPerTransaction,
         NEW r \in Request, requests[r].op \in AboutTransaction,
         NEW id \in TransactionId, id = requests[r].transactionId,
         NEW t \in Entity, VpRequestDrawn(id, t.vpRequest),
         SaveTransaction(id, t), SubmissionGoesOn(id, t),
         NEW s \in Request \ {r}, NEW request, request = requests[s]
  PROVE  Fresh(request)'
<1>1. /\ TypeOK
      /\ request \in RequestState
      /\ RequestInv(request)
      /\ Fresh(request)
  BY DEF SerialInv, IInv, TypeOK
<1>2. CASE request.op \notin AboutTransaction
  BY <1>2 DEF Fresh, AboutTransaction
<1>3. CASE request.op \in AboutTransaction
  <2>1. PICK id2, t2, c, c2 :
          /\ id2 = request.transactionId
          /\ t2 = request.transaction
          /\ c = t.vpRequest.challenge
          /\ c2 = t2.vpRequest.challenge
    OBVIOUS
  <2>2. /\ id2 \in TransactionId
        /\ c2 \in Challenge
        /\ VpRequestDrawn(id2, t2.vpRequest)
    BY <1>1, <1>3, <2>1, AboutDrawn
  <2>3. id2 # id
    BY <1>3, <2>1 DEF OneRequestPerTransaction
  <2>4. c2 # c
    BY <2>1, <2>2, <2>3 DEF VpRequestDrawn
  <2>5. /\ transactions'[id2] = transactions[id2]
        /\ reviews'[c2] = reviews[c2]
    <3>1. PICK row : row = transactions[id]
      OBVIOUS
    <3> QED
      BY <1>1, <2>1, <2>2, <2>3, <2>4, <3>1, SaveRows
  <2>6. CASE request.op = "start"
    <3>1. NotSavedYet(c2)
      BY <1>1, <2>1, <2>6 DEF Fresh
    <3>2. \A i \in TransactionId : c2 \notin ChallengesOf(i)'
      BY <1>1, <2>1, <2>4, <3>1, SaveChallenges DEF NotSavedYet
    <3>3. NotSavedYet(c2)'
      BY <2>5, <3>1, <3>2 DEF NotSavedYet
    <3> QED
      BY <2>1, <2>6, <3>3 DEF Fresh
  <2>7. CASE request.op # "start"
    BY <1>1, <2>1, <2>5, <2>7 DEF Fresh, Current, CurrentReview
  <2> QED
    BY <2>6, <2>7
<1> QED
  BY <1>2, <1>3

(* The invariant after a save, and after a step that saves nothing.         *)
LEMMA SerialSave ==
  ASSUME SerialInv, OneRequestPerTransaction, [Next]_vars,
         NEW r \in Request, requests[r].op \in AboutTransaction,
         NEW id \in TransactionId, id = requests[r].transactionId,
         NEW t \in Entity, VpRequestDrawn(id, t.vpRequest),
         SaveTransaction(id, t), SubmissionGoesOn(id, t),
         \A s \in submitted' \ submitted :
           /\ s.transactionId = id
           /\ s.submission = t.presentationSubmission
           /\ s.submission # None
           /\ s.submission # Undefined,
         NEW response, requests' = [requests EXCEPT ![r] = response],
         Fresh(response)'
  PROVE  SerialInv'
<1>0. TypeOK /\ IInv'
  BY InvariantStep DEF SerialInv, IInv, OpenNext
<1>1. \A s \in Request : Fresh(requests[s])'
  <2>1. ASSUME NEW s \in Request \ {r}
        PROVE  Fresh(requests[s])'
    <3>1. PICK request : request = requests[s]
      OBVIOUS
    <3>2. Fresh(request)'
      BY <3>1, OthersStayFresh
    <3>3. requests'[s] = request
      BY <1>0, <3>1 DEF TypeOK
    <3> QED
      BY <3>2, <3>3
  <2>2. requests'[r] = response
    BY <1>0 DEF TypeOK
  <2> QED
    BY <2>1, <2>2
<1>2. PICK row, old : row = transactions[id] /\ old = OldSubmission(id)
  OBVIOUS
<1>3. /\ transactions'[id] # None
      /\ transactions'[id].presentationSubmission
           = Saved(t.presentationSubmission, old)
      /\ \A i \in TransactionId \ {id} : transactions'[i] = transactions[i]
  BY <1>0, <1>2, SaveRows DEF OldSubmission
<1>4. ASSUME NEW s \in submitted'
      PROVE  SubmittedByHolder(s)'
  <2>1. CASE s \in submitted /\ s.transactionId # id
    <3>1. SubmittedByHolder(s) /\ s.transactionId \in TransactionId
      BY <1>0, <2>1 DEF SerialInv, TypeOK
    <3> QED
      BY <1>3, <2>1, <3>1 DEF SubmittedByHolder
  <2>2. CASE s \in submitted /\ s.transactionId = id
    <3>1. SubmittedByHolder(s)
      BY <2>2 DEF SerialInv
    <3>2. /\ old # None
          /\ old.vpHolder = s.submission.vpHolder
      BY <1>2, <2>2, <3>1 DEF SubmittedByHolder, OldSubmission
    <3>3. /\ Saved(t.presentationSubmission, old) # None
          /\ Saved(t.presentationSubmission, old).vpHolder = old.vpHolder
      BY <1>2, <3>2, NoneAssumption DEF SubmissionGoesOn, Saved
    <3> QED
      BY <1>3, <2>2, <3>2, <3>3 DEF SubmittedByHolder
  <2>3. CASE s \notin submitted
    BY <1>3, <1>4, <2>3 DEF SubmittedByHolder, Saved
  <2> QED
    BY <2>1, <2>2, <2>3
<1> QED
  BY <1>0, <1>1, <1>4 DEF SerialInv

LEMMA SerialNoSave ==
  ASSUME SerialInv, [Next]_vars, UNCHANGED <<transactions, reviews, submitted>>,
         \A r \in Request : requests'[r] # requests[r] => Fresh(requests[r])'
  PROVE  SerialInv'
<1>0. TypeOK /\ IInv'
  BY InvariantStep DEF SerialInv, IInv, OpenNext
<1>1. ASSUME NEW r \in Request, requests'[r] = requests[r]
      PROVE  Fresh(requests[r])'
  <2>1. PICK request : request = requests[r]
    OBVIOUS
  <2>2. Fresh(request)'
    BY <2>1, FreshStays DEF SerialInv
  <2> QED
    BY <1>1, <2>1, <2>2
<1>2. ASSUME NEW s \in submitted'
      PROVE  SubmittedByHolder(s)'
  BY <1>2 DEF SerialInv, SubmittedByHolder
<1> QED
  BY <1>0, <1>1, <1>2 DEF SerialInv

(* A request that takes a step without a save.                              *)
LEMMA SerialRequest ==
  ASSUME SerialInv, [Next]_vars, UNCHANGED <<transactions, reviews, submitted>>,
         NEW r \in Request, NEW request,
         requests' = [requests EXCEPT ![r] = request], Fresh(request)'
  PROVE  SerialInv'
<1>1. \A s \in Request : requests'[s] # requests[s] => Fresh(requests[s])'
  BY DEF SerialInv, IInv, TypeOK
<1> QED
  BY <1>1, SerialNoSave

LEMMA SerialAnswer ==
  ASSUME SerialInv, [Next]_vars, UNCHANGED <<transactions, reviews, submitted>>,
         NEW r \in Request, Answer(r)
  PROVE  SerialInv'
<1>1. PICK request : request = Idle
  OBVIOUS
<1>2. Fresh(request)'
  BY <1>1 DEF Idle, Fresh
<1> QED
  BY <1>1, <1>2, SerialRequest DEF Answer

(* What a handler of the continue route saves, it can rely on afterwards.   *)
LEMMA ContinueMakesCurrent ==
  ASSUME SerialInv, NEW id, NEW t, NEW presentation,
         LoadedByContinue(id, t, presentation),
         NEW saved \in LoadedEntity, NEW inProgress, NEW vp,
         Processed(t, presentation, saved, inProgress, vp),
         SaveTransaction(id, saved)
  PROVE  Current(id, saved)' /\ saved.presentationReview = CurrentReview(saved)'
<1>1. saved.presentationReview = None => t.presentationReview = None
  <2>1. t.presentationReview # None =>
          [reviewStatus |-> "pending_review", VP |-> t.presentationReview.VP] # None
    BY NoneAssumption
       DEF LoadedByContinue, LoadedEntity, TransactionEntity, ReviewRow,
           PresentationReview, ReviewStatus
  <2> QED
    BY <2>1 DEF Processed, Unmediated, ReviewStarts, Repeated
<1>2. saved.presentationReview = None => CurrentReview(saved) = None
  BY <1>1 DEF LoadedByContinue, CurrentReview, Processed
<1> QED
  BY <1>2, SaveMakesCurrent DEF SerialInv, IInv, LoadedByContinue

LEMMA ContinueKeepsSerial ==
  ASSUME SerialInv, OneRequestPerTransaction, [Next]_vars,
         NEW r \in Request, ContinueSave(r)
  PROVE  SerialInv'
<1>1. PICK id, t, presentation :
        /\ id = requests[r].transactionId
        /\ t = requests[r].transaction
        /\ presentation = requests[r].presentation
  OBVIOUS
<1>2. /\ requests[r].op = "continue"
      /\ LoadedByContinue(id, t, presentation)
  BY <1>1, ContinueSaves
<1>3. PICK saved \in LoadedEntity, inProgress \in BOOLEAN,
           vp \in IssuedVp \cup {None}, callback \in SUBSET Url :
        /\ SaveAndRespond(r, saved, inProgress, vp, callback)
        /\ Processed(t, presentation, saved, inProgress, vp)
  BY <1>1, ContinueSaves
<1>4. PICK response :
        response = [op |-> "respond", transactionId |-> id, transaction |-> saved,
                    presentation |-> presentation, inProgress |-> inProgress,
                    vp |-> vp, callback |-> callback]
  OBVIOUS
<1>5. /\ SaveTransaction(id, saved)
      /\ requests' = [requests EXCEPT ![r] = response]
      /\ submitted' = submitted \cup
           {[transactionId |-> id, submission |-> s] :
              s \in {saved.presentationSubmission} \ {None}}
  BY <1>1, <1>3, <1>4 DEF SaveAndRespond
<1>6. /\ id \in TransactionId
      /\ saved \in Entity
      /\ saved.vpRequest = t.vpRequest
      /\ VpRequestDrawn(id, saved.vpRequest)
      /\ saved.presentationSubmission # Undefined
  BY <1>2, <1>3, NoneAssumption, ConstantsAssumption
     DEF LoadedByContinue, LoadedEntityInv, EntityInv, Processed, Entity,
         LoadedEntity, TransactionEntity
<1>7. OldSubmission(id) = t.presentationSubmission
  BY <1>2 DEF LoadedByContinue, Current, OldSubmission
<1>8. /\ SubmissionGoesOn(id, saved)
      /\ saved.presentationSubmission = None \/ t.presentationSubmission # None
           \/ saved.presentationSubmission = NewSubmission(presentation)
  <2>1. saved.presentationSubmission
          \in {t.presentationSubmission, NewSubmission(presentation)}
    BY <1>3 DEF Processed, Unmediated, ReviewStarts, Repeated
  <2>2. CASE saved.presentationSubmission = t.presentationSubmission
    BY <1>7, <2>2 DEF SubmissionGoesOn
  <2>3. CASE saved.presentationSubmission = NewSubmission(presentation)
    BY <1>2, <1>6, <1>7, <2>3
       DEF SubmissionGoesOn, LoadedByContinue, HolderMatches, NewSubmission
  <2> QED
    BY <2>1, <2>2, <2>3
<1>9. Fresh(response)'
  <2>3. Current(id, saved)' /\ saved.presentationReview = CurrentReview(saved)'
    BY <1>2, <1>3, <1>5, ContinueMakesCurrent
  <2>4. saved.presentationReview # None /\ ~inProgress =>
          /\ vp = saved.presentationReview.VP
          /\ \/ saved.presentationSubmission = None
             \/ presentation.holder # None
    BY <1>2, <1>3
       DEF Processed, Unmediated, ReviewStarts, Repeated, LoadedByContinue,
           HolderMatches
  <2> QED
    BY <1>4, <2>3, <2>4 DEF Fresh
<1>10. \A s \in submitted' \ submitted :
         /\ s.transactionId = id
         /\ s.submission = saved.presentationSubmission
         /\ s.submission # None
         /\ s.submission # Undefined
  BY <1>5, <1>6
<1> QED
  BY <1>1, <1>2, <1>5, <1>6, <1>8, <1>9, <1>10, SerialSave DEF AboutTransaction

(* What a review holds until its save.                                      *)
HeldByReview(id, t) ==
  /\ id \in TransactionId
  /\ t \in ReviewedEntity
  /\ VpRequestDrawn(id, t.vpRequest)
  /\ t.presentationReview # None
  /\ Current(id, t)
  /\ CurrentReview(t) # None
  /\ t.presentationReview.reviewStatus = "rejected" =>
       t.presentationReview.VP = CurrentReview(t).VP

LEMMA ReviewHolds ==
  ASSUME SerialInv, NEW r \in Request, requests[r].op = "review"
  PROVE  HeldByReview(requests[r].transactionId, requests[r].transaction)
<1>1. PICK request, id, t :
        /\ request = requests[r]
        /\ id = request.transactionId
        /\ t = request.transaction
  OBVIOUS
<1>2. /\ request \in ReviewRequest
      /\ RequestInv(request)
      /\ Fresh(request)
  BY <1>1, RequestKinds DEF SerialInv, IInv, TypeOK
<1>3. /\ id \in TransactionId
      /\ t \in ReviewedEntity
      /\ Current(id, t)
      /\ t.presentationReview # None
      /\ EntityInv(id, t)
      /\ t.presentationReview.reviewStatus = "rejected" =>
           t.presentationReview.VP = CurrentReview(t).VP
  BY <1>1, <1>2 DEF ReviewRequest, Fresh, RequestInv
<1>4. CurrentReview(t) # None
  BY <1>3 DEF SerialInv, IInv, RowInv, Current, CurrentReview, EntityInv
<1> QED
  BY <1>1, <1>3, <1>4 DEF HeldByReview, EntityInv

LEMMA ReviewKeepsSerial ==
  ASSUME SerialInv, OneRequestPerTransaction, [Next]_vars,
         NEW r \in Request, ReviewSave(r)
  PROVE  SerialInv'
<1>1. PICK id, t, response :
        /\ id = requests[r].transactionId
        /\ t = requests[r].transaction
        /\ response = Idle
  OBVIOUS
<1>2. /\ requests[r].op = "review"
      /\ HeldByReview(id, t)
      /\ SaveTransaction(id, t)
      /\ requests' = [requests EXCEPT ![r] = response]
      /\ submitted' = submitted
  BY <1>1, ReviewHolds DEF ReviewSave, Answer
<1>3. Fresh(response)'
  BY <1>1 DEF Fresh, Idle
<1>4. SubmissionGoesOn(id, t)
  BY <1>2 DEF HeldByReview, Current, SubmissionGoesOn, OldSubmission
<1>5. /\ id \in TransactionId
      /\ t \in Entity
      /\ VpRequestDrawn(id, t.vpRequest)
  BY <1>2 DEF HeldByReview, Entity
<1> QED
  BY <1>1, <1>2, <1>3, <1>4, <1>5, SerialSave DEF AboutTransaction

LEMMA StartKeepsSerial ==
  ASSUME SerialInv, OneRequestPerTransaction, [Next]_vars,
         NEW r \in Request, StartExchangeSave(r)
  PROVE  SerialInv'
<1>1. PICK id, t, response :
        /\ id = requests[r].transactionId
        /\ t = requests[r].transaction
        /\ response = Idle
  OBVIOUS
<1>2. /\ requests[r].op = "start"
      /\ SaveTransaction(id, t)
      /\ requests' = [requests EXCEPT ![r] = response]
      /\ submitted' = submitted
  BY <1>1 DEF StartExchangeSave, Answer, history
<1>3. Fresh(response)'
  BY <1>1 DEF Fresh, Idle
<1>4. requests[r] \in StartRequest /\ RequestInv(requests[r])
  BY <1>2, RequestKinds DEF SerialInv, IInv, TypeOK
<1>5. /\ id \in TransactionId
      /\ t \in Entity
      /\ VpRequestDrawn(id, t.vpRequest)
      /\ t.presentationSubmission = Undefined
  BY <1>1, <1>2, <1>4
     DEF StartRequest, Entity, NewEntity, TransactionEntity, RequestInv, EntityInv
<1>6. SubmissionGoesOn(id, t)
  BY <1>5 DEF SubmissionGoesOn
<1> QED
  BY <1>1, <1>2, <1>3, <1>5, <1>6, SerialSave DEF AboutTransaction

LEMMA LoadsKeepSerial ==
  ASSUME SerialInv, [Next]_vars, NEW r \in Request, ClientCall(r)
  PROVE  SerialInv'
<1>0. TypeOK /\ IInv
  BY DEF SerialInv, IInv
<1>1. CASE RefuseCall(r)
  BY <1>1, SerialNoSave DEF RefuseCall, vars
<1>2. ASSUME NEW e \in Exchange, NEW definition \in ExchangeDefinitions,
             CreateExchangeCheck(r, e, definition)
      PROVE  SerialInv'
  <2>1. PICK request :
          /\ request.op = "create"
          /\ requests' = [requests EXCEPT ![r] = request]
    BY <1>2 DEF CreateExchangeCheck
  <2>2. Fresh(request)'
    BY <2>1 DEF Fresh
  <2> QED
    BY <1>2, <2>1, <2>2, SerialRequest DEF CreateExchangeCheck, database, history
<1>3. ASSUME NEW e \in Exchange, StartExchangeLoad(r, e)
      PROVE  SerialInv'
  <2>1. PICK id, c, t, request :
          /\ c \in FreshChallenges
          /\ t = NewTransaction(e, c)
          /\ request = [op |-> "start", transactionId |-> id,
                        transaction |-> t]
          /\ requests' = [requests EXCEPT ![r] = request]
    BY <1>3 DEF StartExchangeLoad
  <2>2. /\ c \in Challenge
        /\ vpRequests[c] = None
        /\ request.op = "start"
        /\ request.transaction.vpRequest.challenge = c
    BY <2>1 DEF FreshChallenges, NewTransaction
  <2>3. UNCHANGED <<transactions, reviews, submitted>>
    BY <1>3 DEF StartExchangeLoad, database, history
  <2>4. reviews[c] = None
    BY <1>0, <2>2 DEF IInv, ReviewInv
  <2>5. ASSUME NEW i \in TransactionId
        PROVE  c \notin ChallengesOf(i)
    <3>1. RowInv(i)
      BY <1>0 DEF IInv
    <3>2. transactions[i] # None =>
            transactions[i].vpRequest.challenge # c
      <4>1. ASSUME transactions[i] # None
            PROVE  /\ transactions[i].vpRequest \in VpRequest
                   /\ [transactionId |-> i, vpRequest |-> transactions[i].vpRequest]
                        # None
        BY <1>0, <4>1, NoneAssumption DEF TypeOK, TransactionRow, DrawnVpRequest
      <4> QED
        BY <2>2, <3>1, <4>1 DEF RowInv, VpRequestDrawn
    <3> QED
      BY <2>2, <3>1, <3>2 DEF ChallengesOf, RowInv, SubmissionBacked
  <2>6. NotSavedYet(c)'
    BY <2>3, <2>4, <2>5 DEF NotSavedYet, ChallengesOf
  <2>7. Fresh(request)'
    BY <2>2, <2>6 DEF Fresh
  <2> QED
    BY <2>1, <2>3, <2>7, SerialRequest
<1>4. ASSUME NEW id \in TransactionId, NEW presentation \in Submissions,
             ContinueExchangeLoad(r, id, presentation)
      PROVE  SerialInv'
  <2>1. PICK t, request :
          /\ t = LoadTransaction(id)
          /\ request = [op |-> "continue", transactionId |-> id,
                        transaction |-> t, presentation |-> presentation]
          /\ requests' = [requests EXCEPT ![r] = request]
    BY <1>4 DEF ContinueExchangeLoad
  <2>2. /\ UNCHANGED <<transactions, reviews, submitted>>
        /\ transactions[id] # None
    BY <1>4 DEF ContinueExchangeLoad, database, history
  <2>3. Current(id, t) /\ t.presentationReview = CurrentReview(t)
    BY <2>1, <2>2 DEF LoadTransaction, Current, CurrentReview
  <2>4. Fresh(request)
    BY <2>1, <2>3 DEF Fresh
  <2>5. Fresh(request)'
    BY <2>2, <2>4, FreshStays
  <2> QED
    BY <2>1, <2>2, <2>5, SerialRequest
<1>5. ASSUME NEW id \in TransactionId, NEW result \in ReviewResult,
             NEW vp \in IssuedVp \cup {None, Undefined},
             ReviewLoad(r, id, result, vp)
      PROVE  SerialInv'
  <2>1. PICK loaded, t, request :
          /\ loaded = LoadTransaction(id)
          /\ t = [loaded EXCEPT !.presentationReview = Reviewed(@, result, vp)]
          /\ request = [op |-> "review", transactionId |-> id, transaction |-> t]
    OBVIOUS
  <2>2. /\ UNCHANGED <<transactions, reviews, submitted>>
        /\ transactions[id] # None
        /\ loaded.presentationReview # None
        /\ requests' = [requests EXCEPT ![r] = request]
    BY <1>5, <2>1 DEF ReviewLoad, database, history
  <2>3. /\ loaded \in LoadedEntity
        /\ Current(id, loaded)
        /\ loaded.presentationReview = CurrentReview(loaded)
    BY <1>0, <2>1, <2>2, LoadType DEF LoadTransaction, Current, CurrentReview
  <2>4. /\ t.vpRequest = loaded.vpRequest
        /\ t.presentationSubmission = loaded.presentationSubmission
        /\ t.presentationReview = Reviewed(loaded.presentationReview, result, vp)
    BY <2>1, <2>3 DEF LoadedEntity, TransactionEntity
  <2>5. t.presentationReview.reviewStatus = "rejected" =>
          t.presentationReview.VP = loaded.presentationReview.VP
    BY <2>2, <2>3, <2>4
       DEF Reviewed, ReviewResult, LoadedEntity, TransactionEntity, ReviewRow
  <2>6. Fresh(request)
    BY <2>1, <2>3, <2>4, <2>5 DEF Fresh, Current, CurrentReview
  <2>7. Fresh(request)'
    BY <2>2, <2>6, FreshStays
  <2> QED
    BY <2>2, <2>7, SerialRequest
<1> QED
  BY <1>1, <1>2, <1>3, <1>4, <1>5 DEF ClientCall

LEMMA SerialStep ==
  ASSUME SerialInv, OneRequestPerTransaction, [Next]_vars
  PROVE  SerialInv'
<1>1. ASSUME NEW r \in Request, ServerStep(r)
      PROVE  SerialInv'
  <2>1. CASE StartExchangeSave(r)
    BY <2>1, StartKeepsSerial
  <2>2. CASE ContinueSave(r)
    BY <2>2, ContinueKeepsSerial
  <2>3. CASE ReviewSave(r)
    BY <2>3, ReviewKeepsSerial
  <2>4. CASE CreateExchangeSave(r)
    BY <2>4, SerialAnswer DEF CreateExchangeSave, history
  <2>5. CASE RefusePresentation(r) \/ Respond(r) \/ RespondFailure(r)
    BY <2>5, SerialAnswer
       DEF RefusePresentation, Respond, RespondFailure, database, history
  <2> QED
    BY <1>1, <2>1, <2>2, <2>3, <2>4, <2>5 DEF ServerStep, ContinueSave
<1>2. CASE Crash
  <2>1. Fresh(Idle)'
    BY DEF Fresh, Idle
  <2>2. \A r \in Request : Fresh(requests[r])'
    BY <1>2, <2>1 DEF Crash
  <2> QED
    BY <1>2, <2>2, SerialNoSave DEF Crash, database, history
<1>3. CASE UNCHANGED vars \/ \E c \in callbacks : CallbackDone(c)
  BY <1>3, SerialNoSave DEF CallbackDone, vars, database, history
<1> QED
  BY <1>1, <1>2, <1>3, LoadsKeepSerial DEF Next

(* What continueExchange, addReview and startExchange are about to save is  *)
(* up to date: nothing was written between their load and their save.       *)
THEOREM SerialInvariance == Spec /\ []OneRequestPerTransaction => []SerialInv
<1>1. Init => SerialInv
  <2> SUFFICES ASSUME Init PROVE SerialInv
    OBVIOUS
  <2>1. \A r \in Request : Fresh(requests[r])
    BY DEF Init, Fresh, Idle
  <2> QED
    BY <2>1, InitIInv DEF Init, SerialInv
<1>2. SerialInv /\ OneRequestPerTransaction /\ [Next]_vars => SerialInv'
  BY SerialStep
<1> QED
  BY <1>1, <1>2, PTL DEF Spec

(* continueExchange: the holder of a transaction's first submission is the  *)
(* only one whose submissions are ever saved for it.                        *)
THEOREM OneHolder ==
  Spec /\ []OneRequestPerTransaction => []OneHolderPerTransaction
<1>1. SerialInv => OneHolderPerTransaction
  BY DEF SerialInv, SubmittedByHolder, OneHolderPerTransaction
<1> QED
  BY <1>1, SerialInvariance, PTL

-------------------------------------------------------------------------------
(* createExchange looks for the exchange id first: two creates that do not  *)
(* overlap cannot both find it free.                                        *)
CreatesFree ==
  \A r \in Request :
    requests[r].op = "create" => exchanges[requests[r].exchangeId] = None

ExchangesStay ==
  \A e \in Exchange : exchanges[e] # None => exchanges'[e] = exchanges[e]

LEMMA CreateStep ==
  ASSUME TypeOK, CreatesFree, OneCreatePerExchange, [Next]_vars
  PROVE  CreatesFree' /\ ExchangesStay
<1>1. ASSUME NEW r \in Request, CreateExchangeSave(r)
      PROVE  CreatesFree' /\ ExchangesStay
  <2>1. PICK request : request = requests[r]
    OBVIOUS
  <2>2. /\ request \in CreateRequest
        /\ request.op = "create"
        /\ exchanges' = [exchanges EXCEPT ![request.exchangeId] = request.entity]
        /\ requests' = [requests EXCEPT ![r] = Idle]
    BY <1>1, <2>1, RequestKinds DEF CreateExchangeSave, Answer, TypeOK
  <2>3. ExchangesStay
    BY <2>1, <2>2 DEF CreatesFree, ExchangesStay, TypeOK
  <2>4. ASSUME NEW s \in Request, requests'[s].op = "create"
        PROVE  exchanges'[requests'[s].exchangeId] = None
    <3>1. s # r /\ requests'[s] = requests[s]
      BY <2>2, <2>4 DEF Idle, TypeOK
    <3>2. requests[s].exchangeId # request.exchangeId
      BY <2>1, <2>2, <2>4, <3>1 DEF OneCreatePerExchange
    <3>3. exchanges[requests[s].exchangeId] = None
      BY <2>4, <3>1 DEF CreatesFree
    <3>4. requests[s].exchangeId \in Exchange
      BY <2>4, <3>1, RequestKinds DEF TypeOK, CreateRequest
    <3> QED
      BY <2>2, <3>1, <3>2, <3>3, <3>4 DEF TypeOK
  <2> QED
    BY <2>3, <2>4 DEF CreatesFree
<1>2. ASSUME exchanges' = exchanges,
             \A r \in Request :
               requests'[r].op = "create" =>
                 \/ requests'[r] = requests[r]
                 \/ exchanges[requests'[r].exchangeId] = None
      PROVE  CreatesFree' /\ ExchangesStay
  BY <1>2 DEF CreatesFree, ExchangesStay
<1>3. ASSUME NEW r \in Request, NEW request, exchanges' = exchanges,
             requests' = [requests EXCEPT ![r] = request],
             request.op = "create" => exchanges[request.exchangeId] = None
      PROVE  CreatesFree' /\ ExchangesStay
  BY <1>2, <1>3 DEF TypeOK
<1>4. ASSUME NEW r \in Request, exchanges' = exchanges, Answer(r)
      PROVE  CreatesFree' /\ ExchangesStay
  <2>1. PICK request : request = Idle
    OBVIOUS
  <2>2. request.op # "create"
    BY <2>1 DEF Idle
  <2> QED
    BY <1>3, <1>4, <2>1, <2>2 DEF Answer
<1>5. ASSUME NEW r \in Request, NEW t, NEW inProgress, NEW vp, NEW callback,
             SaveAndRespond(r, t, inProgress, vp, callback)
      PROVE  CreatesFree' /\ ExchangesStay
  <2>1. PICK request : /\ request.op = "respond"
                       /\ requests' = [requests EXCEPT ![r] = request]
    BY <1>5 DEF SaveAndRespond
  <2> QED
    BY <1>3, <1>5, <2>1 DEF SaveAndRespond, SaveTransaction
<1>6. ASSUME NEW r \in Request, ServerStep(r)
      PROVE  CreatesFree' /\ ExchangesStay
  <2>1. CASE CreateExchangeSave(r)
    BY <1>1, <2>1
  <2>2. CASE StartExchangeSave(r) \/ ReviewSave(r)
    BY <1>4, <2>2 DEF StartExchangeSave, ReviewSave, SaveTransaction
  <2>3. CASE RefusePresentation(r) \/ Respond(r) \/ RespondFailure(r)
    BY <1>4, <2>3 DEF RefusePresentation, Respond, RespondFailure, database
  <2>4. CASE ContinueSave(r)
    BY <1>5, <2>4 DEF ContinueSave, ProcessUnmediated, ProcessPendingSubmission,
                      ProcessPendingReview, ProcessReviewed
  <2> QED
    BY <1>6, <2>1, <2>2, <2>3, <2>4 DEF ServerStep, ContinueSave
<1>7. ASSUME NEW r \in Request, ClientCall(r)
      PROVE  CreatesFree' /\ ExchangesStay
  <2>1. CASE RefuseCall(r)
    BY <1>2, <2>1 DEF RefuseCall, vars
  <2>2. ASSUME NEW e \in Exchange, NEW definition \in ExchangeDefinitions,
               CreateExchangeCheck(r, e, definition)
        PROVE  CreatesFree' /\ ExchangesStay
    <3>1. PICK request : /\ request.exchangeId = e
                         /\ requests' = [requests EXCEPT ![r] = request]
      BY <2>2 DEF CreateExchangeCheck
    <3> QED
      BY <1>3, <2>2, <3>1 DEF CreateExchangeCheck, ExchangeIdIsFree, database
  <2>3. ASSUME NEW e \in Exchange, StartExchangeLoad(r, e)
        PROVE  CreatesFree' /\ ExchangesStay
    <3>1. PICK request : /\ request.op = "start"
                         /\ requests' = [requests EXCEPT ![r] = request]
      BY <2>3 DEF StartExchangeLoad
    <3> QED
      BY <1>3, <2>3, <3>1 DEF StartExchangeLoad, database
  <2>4. ASSUME NEW id \in TransactionId, NEW presentation \in Submissions,
               ContinueExchangeLoad(r, id, presentation)
        PROVE  CreatesFree' /\ ExchangesStay
    <3>1. PICK request : /\ request.op = "continue"
                         /\ requests' = [requests EXCEPT ![r] = request]
      BY <2>4 DEF ContinueExchangeLoad
    <3> QED
      BY <1>3, <2>4, <3>1 DEF ContinueExchangeLoad, database
  <2>5. ASSUME NEW id \in TransactionId, NEW result \in ReviewResult,
               NEW vp \in IssuedVp \cup {None, Undefined},
               ReviewLoad(r, id, result, vp)
        PROVE  CreatesFree' /\ ExchangesStay
    <3>1. PICK request : /\ request.op = "review"
                         /\ requests' = [requests EXCEPT ![r] = request]
      BY <2>5 DEF ReviewLoad
    <3> QED
      BY <1>3, <2>5, <3>1 DEF ReviewLoad, database
  <2> QED
    BY <1>7, <2>1, <2>2, <2>3, <2>4, <2>5 DEF ClientCall
<1>8. CASE Crash
  <2>1. \A r \in Request : requests'[r].op # "create"
    BY <1>8 DEF Crash, Idle
  <2> QED
    BY <1>2, <1>8, <2>1 DEF Crash, database
<1>9. CASE UNCHANGED vars \/ \E c \in callbacks : CallbackDone(c)
  BY <1>2, <1>9 DEF CallbackDone, vars, database
<1> QED
  BY <1>6, <1>7, <1>8, <1>9 DEF Next

(* createExchange: an exchange stays the one it was created as.             *)
THEOREM ExchangesAreNotReplaced ==
  Spec /\ []OneCreatePerExchange => ExchangeNotReplaced
<1>1. Init => CreatesFree
  BY DEF Init, CreatesFree, Idle
<1>2. TypeOK /\ CreatesFree /\ OneCreatePerExchange /\ [Next]_vars => CreatesFree'
  BY CreateStep
<1>3. TypeOK /\ CreatesFree /\ OneCreatePerExchange /\ [Next]_vars
        => [\A e \in Exchange :
              exchanges[e] # None => exchanges'[e] = exchanges[e]]_vars
  BY CreateStep DEF ExchangesStay
<1> QED
  BY <1>1, <1>2, <1>3, TypeCorrect, PTL DEF Spec, ExchangeNotReplaced

-------------------------------------------------------------------------------
(* The reviews a save leaves alone: those of other challenges, and all when *)
(* the entity has none.                                                     *)
LEMMA SaveKeepsReviews ==
  ASSUME TypeOK, NEW id \in TransactionId, NEW t \in Entity, SaveTransaction(id, t),
         NEW c \in Challenge,
         t.presentationReview = None \/ c # t.vpRequest.challenge
  PROVE  reviews'[c] = reviews[c]
<1>1. PICK row : row = transactions[id]
  OBVIOUS
<1> QED
  BY <1>1, SaveRows DEF SaveTransaction

ReviewsGoOn(c) ==
  reviews[c] # None =>
    /\ Rank(reviews'[c].reviewStatus) >= Rank(reviews[c].reviewStatus)
    /\ reviews'[c].VP # reviews[c].VP => ApprovalIsSaved(c, reviews'[c].VP)

LEMMA ReviewStep ==
  ASSUME SerialInv, [Next]_vars, NEW c \in Challenge
  PROVE  ReviewsGoOn(c)
<1>0. /\ TypeOK
      /\ Undefined # None
  BY ConstantsAssumption DEF SerialInv, IInv
<1>1. ASSUME reviews'[c] = reviews[c]
      PROVE  ReviewsGoOn(c)
  <2>1. reviews[c] # None => Rank(reviews[c].reviewStatus) \in 0..2
    BY DEF Rank
  <2> QED
    BY <1>1, <2>1 DEF ReviewsGoOn
<1>2. ASSUME NEW r \in Request, StartExchangeSave(r)
      PROVE  ReviewsGoOn(c)
  <2>1. PICK request, id, t :
          /\ request = requests[r]
          /\ id = request.transactionId
          /\ t = request.transaction
    OBVIOUS
  <2>2. /\ request \in StartRequest
        /\ SaveTransaction(id, t)
        /\ NotSavedYet(t.vpRequest.challenge)
    BY <1>0, <1>2, <2>1, RequestKinds DEF StartExchangeSave, SerialInv, Fresh, TypeOK
  <2>3. id \in TransactionId /\ t \in Entity
    BY <2>1, <2>2 DEF StartRequest, Entity
  <2>4. c # t.vpRequest.challenge => reviews'[c] = reviews[c]
    BY <1>0, <2>2, <2>3, SaveKeepsReviews
  <2> QED
    BY <1>1, <2>2, <2>4 DEF NotSavedYet, ReviewsGoOn
<1>3. ASSUME NEW r \in Request, ContinueSave(r)
      PROVE  ReviewsGoOn(c)
  <2>1. PICK id, t, presentation :
          /\ id = requests[r].transactionId
          /\ t = requests[r].transaction
          /\ presentation = requests[r].presentation
    OBVIOUS
  <2>2. LoadedByContinue(id, t, presentation)
    BY <1>3, <2>1, ContinueSaves
  <2>3. PICK saved \in LoadedEntity, inProgress \in BOOLEAN,
             vp \in IssuedVp \cup {None}, callback \in SUBSET Url :
          /\ SaveAndRespond(r, saved, inProgress, vp, callback)
          /\ Processed(t, presentation, saved, inProgress, vp)
    BY <1>3, <2>1, ContinueSaves
  <2>4. /\ id \in TransactionId
        /\ saved \in Entity
        /\ SaveTransaction(id, saved)
        /\ saved.vpRequest = t.vpRequest
    BY <2>1, <2>2, <2>3 DEF LoadedByContinue, Entity, SaveAndRespond, Processed
  <2>5. CASE saved.presentationReview = None \/ c # saved.vpRequest.challenge
    <3>1. reviews'[c] = reviews[c]
      BY <1>0, <2>4, <2>5, SaveKeepsReviews
    <3> QED
      BY <1>1, <3>1
  <2>6. CASE saved.presentationReview # None /\ c = saved.vpRequest.challenge
    <3>1. PICK review : review = reviews[c] /\ review = t.presentationReview
      BY <2>2, <2>4, <2>6 DEF LoadedByContinue, CurrentReview
    <3>2. /\ saved.presentationReview \in ReviewRow
          /\ t.presentationReview \in ReviewRow
          /\ Undefined \notin {saved.presentationReview.VP, t.presentationReview.VP}
      <4>1. t.presentationReview # None
        BY <2>3, <2>6 DEF Processed, Unmediated, ReviewStarts, Repeated
      <4> QED
        BY <2>2, <2>3, <2>6, <4>1, ConstantsAssumption
           DEF LoadedByContinue, LoadedEntity, TransactionEntity, ReviewRow
    <3>3. /\ reviews'[c].reviewStatus = saved.presentationReview.reviewStatus
          /\ reviews'[c].VP = saved.presentationReview.VP
      BY <1>0, <2>4, <2>6, <3>1, <3>2, SaveReview DEF Saved
    <3>4. /\ saved.presentationReview.VP = t.presentationReview.VP
          /\ Rank(saved.presentationReview.reviewStatus)
               >= Rank(t.presentationReview.reviewStatus)
      BY <2>3, <2>6 DEF Processed, Unmediated, ReviewStarts, Repeated, Rank
    <3> QED
      BY <3>1, <3>3, <3>4 DEF ReviewsGoOn
  <2> QED
    BY <2>5, <2>6
<1>4. ASSUME NEW r \in Request, ReviewSave(r)
      PROVE  ReviewsGoOn(c)
  <2>1. PICK id, t : id = requests[r].transactionId /\ t = requests[r].transaction
    OBVIOUS
  <2>2. /\ HeldByReview(id, t)
        /\ SaveTransaction(id, t)
    BY <1>4, <2>1, ReviewHolds DEF ReviewSave
  <2>3. /\ id \in TransactionId
        /\ t \in Entity
        /\ t.presentationReview.reviewStatus \in ReviewResult
    BY <2>2 DEF HeldByReview, Entity, ReviewedEntity, TransactionEntity
  <2>4. CASE c # t.vpRequest.challenge
    <3>1. reviews'[c] = reviews[c]
      BY <1>0, <2>2, <2>3, <2>4, SaveKeepsReviews
    <3> QED
      BY <1>1, <3>1
  <2>5. CASE c = t.vpRequest.challenge
    <3>1. PICK review : review = reviews[c]
      OBVIOUS
    <3>2. /\ reviews'[c].reviewStatus = t.presentationReview.reviewStatus
          /\ reviews'[c].VP = Saved(t.presentationReview.VP,
                                    IF review = None THEN None ELSE review.VP)
      BY <1>0, <2>2, <2>3, <2>5, <3>1, SaveReview DEF HeldByReview
    <3>3. reviews'[c].VP # review.VP => ApprovalIsSaved(c, reviews'[c].VP)
      <4>1. SUFFICES ASSUME reviews'[c].VP # review.VP
                     PROVE  ApprovalIsSaved(c, reviews'[c].VP)
        OBVIOUS
      <4>2. review # None /\ reviews'[c].VP = Saved(t.presentationReview.VP, review.VP)
        BY <2>2, <2>5, <3>1, <3>2 DEF HeldByReview, CurrentReview
      <4>3. /\ t.presentationReview.VP = reviews'[c].VP
            /\ t.presentationReview.reviewStatus = "approved"
        BY <2>2, <2>3, <2>5, <3>1, <4>1, <4>2
           DEF HeldByReview, CurrentReview, ReviewResult, Saved
      <4>4. t.presentationReview
              = [reviewStatus |-> "approved", VP |-> reviews'[c].VP]
        BY <2>2, <4>3 DEF HeldByReview, ReviewedEntity, TransactionEntity
      <4>5. requests'[r] = Idle
        BY <1>0, <1>4 DEF ReviewSave, Answer, TypeOK
      <4> QED
        BY <1>4, <2>1, <2>5, <4>4, <4>5 DEF ReviewSave, ApprovalIsSaved
    <3>4. Rank(reviews'[c].reviewStatus) = 2 /\ Rank(review.reviewStatus) \in 0..2
      BY <2>3, <3>2 DEF Rank, ReviewResult
    <3> QED
      BY <3>1, <3>3, <3>4 DEF ReviewsGoOn
  <2> QED
    BY <2>4, <2>5
<1>5. CASE UNCHANGED reviews
  BY <1>1, <1>5
<1> QED
  BY <1>2, <1>3, <1>4, <1>5
     DEF Next, ClientCall, ServerStep, ContinueSave, RefuseCall,
         CreateExchangeCheck, CreateExchangeSave, StartExchangeLoad,
         ContinueExchangeLoad, RefusePresentation, Respond, RespondFailure,
         ReviewLoad, CallbackDone, Crash, vars, database

(* continueExchange and addReview: a decision is final, and the             *)
(* presentation kept with it changes only to what a reviewer's approval     *)
(* brings, as long as requests on one transaction do not overlap.           *)
THEOREM ReviewsNeverGoBack ==
  Spec /\ []OneRequestPerTransaction => ReviewNeverGoesBack
<1>1. SerialInv /\ [Next]_vars
        => [\A c \in Challenge :
              reviews[c] # None =>
                /\ Rank(reviews'[c].reviewStatus) >= Rank(reviews[c].reviewStatus)
                /\ reviews'[c].VP # reviews[c].VP =>
                     ApprovalIsSaved(c, reviews'[c].VP)]_vars
  BY ReviewStep DEF ReviewsGoOn
<1> QED
  BY <1>1, SerialInvariance, PTL DEF Spec, ReviewNeverGoesBack

-------------------------------------------------------------------------------
(* The refinement: what a transaction looks like to a party.                *)
Looks(id, stage, parties, offer) ==
  /\ RowStage(transactions[id]) = stage
  /\ RowParties(transactions[id]) = parties
  /\ RowOffer(transactions[id]) = offer

LooksTheSame(id) ==
  /\ RowStage(transactions[id])' = RowStage(transactions[id])
  /\ RowParties(transactions[id])' = RowParties(transactions[id])
  /\ RowOffer(transactions[id])' = RowOffer(transactions[id])

(* What a row and its review look like.                                     *)
LEMMA RowLooks ==
  ASSUME NEW id, NEW row, row = transactions[id], row # None,
         NEW review, review = reviews[row.vpRequest.challenge]
  PROVE  /\ review # None =>
              /\ RowStage(transactions[id]) = ReviewStage(review.reviewStatus)
              /\ RowOffer(transactions[id]) = review.VP
         /\ review = None =>
              /\ RowStage(transactions[id])
                   = IF HasCurrentSubmission(row) THEN "submitted" ELSE "waiting"
              /\ RowOffer(transactions[id]) = None
         /\ RowParties(transactions[id])
              = {s.vpHolder : s \in {row.presentationSubmission} \ {None}}
  BY DEF RowStage, RowOffer, RowParties, ReviewOf

(* The same transaction after a step, whose row has this VP request, this   *)
(* submission and this review.                                              *)
LEMMA RowWillLook ==
  ASSUME NEW id, transactions'[id] # None,
         NEW vpRequest, vpRequest = transactions'[id].vpRequest,
         NEW submission, submission = transactions'[id].presentationSubmission,
         NEW review, review = reviews'[vpRequest.challenge]
  PROVE  /\ review # None =>
              /\ RowStage(transactions[id])' = ReviewStage(review.reviewStatus)
              /\ RowOffer(transactions[id])' = review.VP
         /\ review = None =>
              /\ RowStage(transactions[id])'
                   = IF /\ submission # None
                        /\ submission.challenge = vpRequest.challenge
                     THEN "submitted" ELSE "waiting"
              /\ RowOffer(transactions[id])' = None
         /\ RowParties(transactions[id])'
              = {s.vpHolder : s \in {submission} \ {None}}
  BY DEF RowStage, RowOffer, RowParties, ReviewOf, HasCurrentSubmission

(* To other transactions a save makes no difference.                        *)
LEMMA OthersLookTheSame ==
  ASSUME SerialInv, NEW id \in TransactionId, NEW t \in Entity,
         VpRequestDrawn(id, t.vpRequest), SaveTransaction(id, t),
         NEW i \in TransactionId \ {id}
  PROVE  LooksTheSame(i)
<1>0. TypeOK
  BY DEF SerialInv, IInv
<1>1. PICK row, old : row = transactions[i] /\ old = transactions[id]
  OBVIOUS
<1>2. transactions'[i] = row
  BY <1>0, <1>1, SaveRows
<1>3. CASE row = None
  BY <1>1, <1>2, <1>3 DEF LooksTheSame, RowStage, RowParties, RowOffer
<1>4. CASE row # None
  <2>1. PICK c : c = row.vpRequest.challenge
    OBVIOUS
  <2>2. /\ c \in Challenge
        /\ VpRequestDrawn(i, row.vpRequest)
    BY <1>0, <1>1, <1>4, <2>1
       DEF SerialInv, IInv, RowInv, TypeOK, TransactionRow, VpRequest
  <2>3. c # t.vpRequest.challenge
    BY <2>1, <2>2 DEF VpRequestDrawn
  <2>4. reviews'[c] = reviews[c]
    BY <1>0, <2>2, <2>3, SaveKeepsReviews
  <2> QED
    BY <1>1, <1>2, <1>4, <2>1, <2>4
       DEF LooksTheSame, RowStage, RowParties, RowOffer, ReviewOf,
           HasCurrentSubmission
<1> QED
  BY <1>3, <1>4

(* A step of one transaction's row as a step of the life cycle's functions. *)
Stages == [id \in TransactionId |-> RowStage(transactions[id])]
AllParties == [id \in TransactionId |-> RowParties(transactions[id])]
Offers == [id \in TransactionId |-> RowOffer(transactions[id])]

LEMMA LifecycleStep ==
  ASSUME NEW id \in TransactionId,
         \A i \in TransactionId \ {id} : LooksTheSame(i),
         NEW stage, NEW parties, NEW offer,
         Looks(id, stage, parties, offer)'
  PROVE  /\ Stages' = [Stages EXCEPT ![id] = stage]
         /\ AllParties' = [AllParties EXCEPT ![id] = parties]
         /\ Offers' = [Offers EXCEPT ![id] = offer]
  BY DEF Looks, LooksTheSame, Stages, AllParties, Offers

LEMMA LifecycleStutter ==
  ASSUME \A i \in TransactionId : LooksTheSame(i), answered' = answered
  PROVE  UNCHANGED Lifecycle!lifecycle
  BY DEF LooksTheSame, Lifecycle!lifecycle

(* startExchange's save begins a transaction, or begins it anew.            *)
LEMMA StartIsBegin ==
  ASSUME SerialInv, NEW r \in Request, StartExchangeSave(r)
  PROVE  \E id \in TransactionId : Lifecycle!Begin(id)
<1>0. TypeOK
  BY DEF SerialInv, IInv
<1>1. PICK request, id, t, c :
        /\ request = requests[r]
        /\ id = request.transactionId
        /\ t = request.transaction
        /\ c = t.vpRequest.challenge
  OBVIOUS
<1>2. /\ request \in StartRequest
      /\ request.op = "start"
      /\ RequestInv(request)
      /\ SaveTransaction(id, t)
      /\ NotSavedYet(c)
      /\ answered' = answered
  BY <1>0, <1>1, RequestKinds
     DEF StartExchangeSave, SerialInv, IInv, Fresh, TypeOK, history
<1>3. /\ id \in TransactionId
      /\ t \in NewEntity
      /\ t \in Entity
      /\ VpRequestDrawn(id, t.vpRequest)
  BY <1>1, <1>2 DEF StartRequest, Entity, RequestInv, EntityInv
<1>4. /\ t.presentationSubmission = Undefined
      /\ t.presentationReview # None =>
           /\ t.presentationReview.reviewStatus = "pending_submission"
           /\ t.presentationReview.VP = Undefined
      /\ c \in Challenge
      /\ reviews[c] = None
  BY <1>1, <1>2, <1>3
     DEF NewEntity, TransactionEntity, VpRequest, NotSavedYet
<1>5. PICK row, submission, review :
        /\ row = transactions[id]
        /\ submission = (IF row = None THEN None ELSE row.presentationSubmission)
        /\ review = reviews'[c]
  OBVIOUS
<1>6. /\ transactions'[id] # None
      /\ transactions'[id].vpRequest = t.vpRequest
      /\ transactions'[id].presentationSubmission = submission
  BY <1>0, <1>2, <1>3, <1>4, <1>5, SaveRows DEF Saved
<1>7. submission # None => submission.challenge # c
  BY <1>2, <1>3, <1>5 DEF NotSavedYet, ChallengesOf
<1>8. IF t.presentationReview = None THEN review = None
      ELSE /\ review # None
           /\ review.reviewStatus = "pending_submission"
           /\ review.VP = None
  <2>1. CASE t.presentationReview = None
    BY <1>2, <1>4, <1>5, <2>1 DEF SaveTransaction
  <2>2. CASE t.presentationReview # None
    <3>1. PICK oldReview : oldReview = reviews[c]
      OBVIOUS
    <3> QED
      BY <1>0, <1>1, <1>2, <1>3, <1>4, <1>5, <2>2, <3>1, SaveReview DEF Saved
  <2> QED
    BY <2>1, <2>2
<1>9. PICK parties : parties = RowParties(transactions[id])
  OBVIOUS
<1>10. parties = {s.vpHolder : s \in {submission} \ {None}}
  BY <1>5, <1>9 DEF RowParties
<1>11. Looks(id, "waiting", parties, None)'
  <2>1. /\ review # None =>
             /\ RowStage(transactions[id])' = ReviewStage(review.reviewStatus)
             /\ RowOffer(transactions[id])' = review.VP
        /\ review = None =>
             /\ RowStage(transactions[id])'
                  = IF submission # None /\ submission.challenge = c
                    THEN "submitted" ELSE "waiting"
             /\ RowOffer(transactions[id])' = None
        /\ RowParties(transactions[id])'
             = {s.vpHolder : s \in {submission} \ {None}}
    BY <1>1, <1>5, <1>6, RowWillLook
  <2> QED
    BY <1>7, <1>8, <1>10, <2>1 DEF Looks, ReviewStage
<1>12. \A i \in TransactionId \ {id} : LooksTheSame(i)
  BY <1>2, <1>3, OthersLookTheSame
<1>13. [AllParties EXCEPT ![id] = parties] = AllParties
  BY <1>3, <1>9 DEF AllParties
<1>14. /\ Stages' = [Stages EXCEPT ![id] = "waiting"]
       /\ AllParties' = [AllParties EXCEPT ![id] = parties]
       /\ Offers' = [Offers EXCEPT ![id] = None]
  BY <1>3, <1>11, <1>12, LifecycleStep
<1> QED
  BY <1>2, <1>3, <1>13, <1>14
     DEF Lifecycle!Begin, Stages, AllParties, Offers

(* processPresentation's save submits, or says again what was said.         *)
LEMMA ContinueIsSubmit ==
  ASSUME SerialInv, NEW r \in Request, ContinueSave(r)
  PROVE  \/ UNCHANGED Lifecycle!lifecycle
         \/ \E id \in TransactionId, party \in Holder \cup {None} :
              Lifecycle!Submit(id, party)
<1>0. TypeOK
  BY DEF SerialInv, IInv
<1>1. PICK id, t, presentation :
        /\ id = requests[r].transactionId
        /\ t = requests[r].transaction
        /\ presentation = requests[r].presentation
  OBVIOUS
<1>2. LoadedByContinue(id, t, presentation)
  BY <1>1, ContinueSaves
<1>3. PICK saved \in LoadedEntity, inProgress \in BOOLEAN,
           vp \in IssuedVp \cup {None}, callback \in SUBSET Url :
        /\ SaveAndRespond(r, saved, inProgress, vp, callback)
        /\ Processed(t, presentation, saved, inProgress, vp)
  BY <1>1, ContinueSaves
<1>4. PICK c, party : c = t.vpRequest.challenge /\ party = presentation.holder
  OBVIOUS
<1>5. /\ id \in TransactionId
      /\ party \in Holder \cup {None}
      /\ saved \in Entity
      /\ saved.vpRequest = t.vpRequest
      /\ VpRequestDrawn(id, saved.vpRequest)
      /\ SaveTransaction(id, saved)
      /\ answered' = answered
  BY <1>1, <1>2, <1>3, <1>4
     DEF LoadedByContinue, LoadedEntityInv, EntityInv, Processed, Entity,
         SaveAndRespond
<1>6. /\ transactions'[id] # None
      /\ transactions'[id].vpRequest = t.vpRequest
      /\ transactions'[id].presentationSubmission = saved.presentationSubmission
      /\ reviews'[c] = saved.presentationReview
  <2>1. Current(id, saved)' /\ saved.presentationReview = CurrentReview(saved)'
    BY <1>2, <1>3, <1>5, ContinueMakesCurrent
  <2> QED
    BY <1>4, <1>5, <2>1 DEF Current, CurrentReview
<1>7. \A i \in TransactionId \ {id} : LooksTheSame(i)
  BY <1>5, OthersLookTheSame
<1>8. PICK stage, parties, offer : Looks(id, stage, parties, offer)
  BY DEF Looks
<1>9. /\ t.presentationReview # None =>
           /\ stage = ReviewStage(t.presentationReview.reviewStatus)
           /\ offer = t.presentationReview.VP
      /\ t.presentationReview = None =>
           /\ stage = IF /\ t.presentationSubmission # None
                         /\ t.presentationSubmission.challenge = c
                      THEN "submitted" ELSE "waiting"
           /\ offer = None
      /\ parties = {s.vpHolder : s \in {t.presentationSubmission} \ {None}}
  <2>1. PICK row, review : row = transactions[id] /\ review = t.presentationReview
    OBVIOUS
  <2>2. /\ row # None
        /\ row.vpRequest = t.vpRequest
        /\ row.presentationSubmission = t.presentationSubmission
        /\ review = reviews[row.vpRequest.challenge]
    BY <1>2, <2>1 DEF LoadedByContinue, Current, CurrentReview
  <2> QED
    BY <1>4, <1>8, <2>1, <2>2, RowLooks DEF Looks, HasCurrentSubmission
<1>10. /\ saved.presentationReview # None =>
            /\ RowStage(transactions[id])'
                 = ReviewStage(saved.presentationReview.reviewStatus)
            /\ RowOffer(transactions[id])' = saved.presentationReview.VP
       /\ saved.presentationReview = None =>
            /\ RowStage(transactions[id])'
                 = IF /\ saved.presentationSubmission # None
                      /\ saved.presentationSubmission.challenge = c
                   THEN "submitted" ELSE "waiting"
            /\ RowOffer(transactions[id])' = None
       /\ RowParties(transactions[id])'
            = {s.vpHolder : s \in {saved.presentationSubmission} \ {None}}
  <2>1. PICK vpRequest, submission, review :
          /\ vpRequest = t.vpRequest
          /\ submission = saved.presentationSubmission
          /\ review = saved.presentationReview
    OBVIOUS
  <2> QED
    BY <1>4, <1>6, <2>1, RowWillLook
<1>11. parties = {} \/ (parties = {party} /\ party # None)
  BY <1>2, <1>4, <1>9 DEF LoadedByContinue, HolderMatches
<1>12. /\ NewSubmission(presentation) # None
       /\ NewSubmission(presentation).vpHolder = party
       /\ NewSubmission(presentation).challenge = c
  BY <1>2, <1>4, NoneAssumption DEF LoadedByContinue, NewSubmission
<1>13. ASSUME stage = "waiting", Looks(id, "submitted", {party}, offer)'
       PROVE  Lifecycle!Submit(id, party)
  <2>1. /\ Stages' = [Stages EXCEPT ![id] = "submitted"]
        /\ AllParties' = [AllParties EXCEPT ![id] = {party}]
        /\ Offers' = [Offers EXCEPT ![id] = offer]
    BY <1>5, <1>7, <1>13, LifecycleStep
  <2>2. /\ Stages[id] = "waiting"
        /\ AllParties[id] = parties
        /\ [Offers EXCEPT ![id] = offer] = Offers
    BY <1>5, <1>8, <1>13 DEF Looks, Stages, AllParties, Offers
  <2> QED
    BY <1>5, <1>11, <2>1, <2>2
       DEF Lifecycle!Submit, Stages, AllParties, Offers
<1>14. ASSUME Looks(id, stage, parties, offer)'
       PROVE  UNCHANGED Lifecycle!lifecycle
  <2>1. LooksTheSame(id)
    BY <1>8, <1>14 DEF Looks, LooksTheSame
  <2> QED
    BY <1>5, <1>7, <2>1, LifecycleStutter
<1>15. CASE Unmediated(t, presentation, saved)
  <2>1. Looks(id, "submitted", {party}, offer)'
    BY <1>9, <1>10, <1>12, <1>15 DEF Unmediated, Looks
  <2>2. CASE stage = "waiting"
    BY <1>5, <1>13, <2>1, <2>2
  <2>3. CASE stage # "waiting"
    <3>1. stage = "submitted" /\ parties = {party}
      BY <1>9, <1>11, <1>15, <2>3 DEF Unmediated
    <3> QED
      BY <1>14, <2>1, <3>1
  <2> QED
    BY <2>2, <2>3
<1>16. CASE ReviewStarts(t, presentation, saved, inProgress)
  <2>1. saved.presentationReview # None
    <3>1. /\ t.presentationReview \in ReviewRow
          /\ saved.presentationReview \in ReviewRow \cup {None}
      BY <1>2, <1>16
         DEF ReviewStarts, LoadedByContinue, LoadedEntity, TransactionEntity
    <3>2. [reviewStatus |-> "pending_review", VP |-> t.presentationReview.VP]
            \in PresentationReview
      BY <3>1 DEF ReviewRow, PresentationReview, ReviewStatus
    <3> QED
      BY <1>16, <3>2, NoneAssumption DEF ReviewStarts
  <2>2. {s.vpHolder : s \in {saved.presentationSubmission} \ {None}} = {party}
    BY <1>9, <1>11, <1>12, <1>16 DEF ReviewStarts
  <2>3. Looks(id, "submitted", {party}, offer)'
    BY <1>9, <1>10, <1>16, <2>1, <2>2 DEF ReviewStarts, Looks, ReviewStage
  <2>4. stage = "waiting"
    BY <1>9, <1>16 DEF ReviewStarts, ReviewStage
  <2> QED
    BY <1>5, <1>13, <2>3, <2>4
<1>17. CASE Repeated(t, saved, inProgress, vp)
  <2>1. Looks(id, stage, parties, offer)'
    BY <1>9, <1>10, <1>17 DEF Repeated, Looks
  <2> QED
    BY <1>14, <2>1
<1> QED
  BY <1>3, <1>15, <1>16, <1>17 DEF Processed

(* addReview's save approves or rejects.                                    *)
LEMMA ReviewIsDecision ==
  ASSUME SerialInv, NEW r \in Request, ReviewSave(r)
  PROVE  \E id \in TransactionId :
           \/ \E vp \in IssuedVp \cup {None, Offers[id]} : Lifecycle!Approve(id, vp)
           \/ Lifecycle!Reject(id)
<1>0. TypeOK
  BY DEF SerialInv, IInv
<1>1. PICK id, t, c, review :
        /\ id = requests[r].transactionId
        /\ t = requests[r].transaction
        /\ c = t.vpRequest.challenge
        /\ review = reviews[c]
  OBVIOUS
<1>2. /\ HeldByReview(id, t)
      /\ SaveTransaction(id, t)
      /\ answered' = answered
  BY <1>1, ReviewHolds DEF ReviewSave
<1>3. /\ id \in TransactionId
      /\ t \in Entity
      /\ t.presentationReview.reviewStatus \in ReviewResult
      /\ t.presentationReview.VP \in IssuedVp \cup {None, Undefined}
      /\ t.presentationSubmission # Undefined
      /\ c \in Challenge
  BY <1>1, <1>2, NoneAssumption, ConstantsAssumption
     DEF HeldByReview, Entity, ReviewedEntity, TransactionEntity, VpRequest
<1>4. /\ review # None
      /\ review \in ReviewRow
  BY <1>0, <1>1, <1>2, <1>3 DEF HeldByReview, CurrentReview, TypeOK
<1>5. PICK newReview, status, vp :
        /\ newReview = reviews'[c]
        /\ status = t.presentationReview.reviewStatus
        /\ vp = Saved(t.presentationReview.VP, review.VP)
  OBVIOUS
<1>6. /\ newReview # None
      /\ newReview.reviewStatus = status
      /\ newReview.VP = vp
  BY <1>0, <1>1, <1>2, <1>3, <1>4, <1>5, SaveReview DEF HeldByReview
<1>7. PICK row : row = transactions[id]
  OBVIOUS
<1>8. /\ row # None
      /\ row.vpRequest = t.vpRequest
      /\ row.presentationSubmission = t.presentationSubmission
  BY <1>2, <1>7 DEF HeldByReview, Current
<1>9. PICK stage, parties, offer : Looks(id, stage, parties, offer)
  BY DEF Looks
<1>10. /\ stage = ReviewStage(review.reviewStatus)
       /\ offer = review.VP
       /\ parties = {s.vpHolder : s \in {t.presentationSubmission} \ {None}}
  BY <1>1, <1>4, <1>7, <1>8, <1>9, RowLooks DEF Looks
<1>11. Looks(id, status, parties, vp)'
  <2>1. /\ transactions'[id] # None
        /\ transactions'[id].vpRequest = t.vpRequest
        /\ transactions'[id].presentationSubmission = t.presentationSubmission
    BY <1>0, <1>2, <1>3, <1>7, SaveRows DEF Saved
  <2>2. PICK vpRequest, submission :
          /\ vpRequest = t.vpRequest
          /\ submission = t.presentationSubmission
    OBVIOUS
  <2>3. /\ RowStage(transactions[id])' = ReviewStage(status)
        /\ RowOffer(transactions[id])' = vp
        /\ RowParties(transactions[id])'
             = {s.vpHolder : s \in {submission} \ {None}}
    BY <1>1, <1>5, <1>6, <2>1, <2>2, RowWillLook
  <2>4. ReviewStage(status) = status
    BY <1>3, <1>5 DEF ReviewStage, ReviewResult
  <2> QED
    BY <1>10, <2>2, <2>3, <2>4 DEF Looks
<1>12. /\ Stages' = [Stages EXCEPT ![id] = status]
       /\ AllParties' = [AllParties EXCEPT ![id] = parties]
       /\ Offers' = [Offers EXCEPT ![id] = vp]
  <2>1. \A i \in TransactionId \ {id} : LooksTheSame(i)
    BY <1>2, <1>3, OthersLookTheSame DEF HeldByReview
  <2> QED
    BY <1>3, <1>11, <2>1, LifecycleStep
<1>13. /\ Stages[id] # "absent"
       /\ [AllParties EXCEPT ![id] = parties] = AllParties
       /\ Offers[id] = offer
  <2>1. stage # "absent"
    BY <1>4, <1>10 DEF ReviewRow, ReviewStatus, ReviewStage
  <2> QED
    BY <1>3, <1>9, <2>1 DEF Looks, Stages, AllParties, Offers
<1>14. CASE status = "approved"
  <2>1. vp \in IssuedVp \cup {None, Offers[id]}
    BY <1>2, <1>3, <1>5, <1>10, <1>13, <1>14 DEF HeldByReview, Saved
  <2>2. Lifecycle!Approve(id, vp)
    BY <1>2, <1>12, <1>13, <1>14
       DEF Lifecycle!Approve, Stages, AllParties, Offers
  <2> QED
    BY <1>3, <2>1, <2>2
<1>15. CASE status = "rejected"
  <2>1. vp = offer
    BY <1>1, <1>2, <1>5, <1>10, <1>15 DEF HeldByReview, CurrentReview, Saved
  <2>2. [Offers EXCEPT ![id] = vp] = Offers
    BY <1>3, <1>13, <2>1 DEF Offers
  <2>3. Lifecycle!Reject(id)
    BY <1>2, <1>12, <1>13, <1>15, <2>2
       DEF Lifecycle!Reject, Stages, AllParties, Offers
  <2> QED
    BY <1>3, <2>3
<1> QED
  BY <1>3, <1>5, <1>14, <1>15 DEF ReviewResult

(* The response tells the outcome to the party that submitted.              *)
LEMMA RespondIsTell ==
  ASSUME SerialInv, NEW r \in Request, Respond(r)
  PROVE  \/ UNCHANGED Lifecycle!lifecycle
         \/ \E id \in TransactionId, party \in Holder \cup {None} :
              Lifecycle!Tell(id, party)
<1>0. TypeOK
  BY DEF SerialInv, IInv
<1>1. PICK request, id, t, party, vp :
        /\ request = requests[r]
        /\ id = request.transactionId
        /\ t = request.transaction
        /\ party = request.presentation.holder
        /\ vp = request.vp
  OBVIOUS
<1>2. /\ request \in RespondRequest
      /\ request.op = "respond"
      /\ RequestInv(request)
      /\ Fresh(request)
      /\ t.presentationSubmission # None
      /\ UNCHANGED <<transactions, reviews>>
  BY <1>0, <1>1, RequestKinds
     DEF Respond, BodyIsValid, SerialInv, IInv, TypeOK, database
<1>3. \A i \in TransactionId : LooksTheSame(i)
  BY <1>2 DEF LooksTheSame, RowStage, RowParties, RowOffer, ReviewOf,
              HasCurrentSubmission
<1>4. CASE answered' = answered
  BY <1>3, <1>4, LifecycleStutter
<1>5. CASE answered' # answered
  <2>1. /\ t.presentationReview # None
        /\ ~request.inProgress
        /\ answered' = answered \cup
             {[transactionId |-> id, holder |-> party, VP |-> vp]}
    BY <1>1, <1>5 DEF Respond
  <2>2. /\ id \in TransactionId
        /\ party \in Holder \cup {None}
    BY <1>1, <1>2 DEF RespondRequest, Presentation
  <2>3. /\ t.presentationReview.reviewStatus \in ReviewResult
        /\ t.presentationSubmission.vpHolder = party
        /\ Current(id, t)
        /\ t.presentationReview = CurrentReview(t)
        /\ vp = t.presentationReview.VP
        /\ party # None
    BY <1>1, <1>2, <2>1 DEF RequestInv, Fresh
  <2>4. PICK row, review : row = transactions[id] /\ review = t.presentationReview
    OBVIOUS
  <2>5. /\ row # None
        /\ row.presentationSubmission = t.presentationSubmission
        /\ review = reviews[row.vpRequest.challenge]
        /\ review # None
    BY <2>1, <2>3, <2>4 DEF Current, CurrentReview
  <2>6. Looks(id, review.reviewStatus, {party}, vp)
    <3>1. /\ RowStage(transactions[id]) = ReviewStage(review.reviewStatus)
          /\ RowOffer(transactions[id]) = review.VP
          /\ RowParties(transactions[id])
               = {s.vpHolder : s \in {row.presentationSubmission} \ {None}}
      BY <2>4, <2>5, RowLooks
    <3>2. ReviewStage(review.reviewStatus) = review.reviewStatus
      BY <2>3, <2>4 DEF ReviewStage, ReviewResult
    <3> QED
      BY <1>2, <2>3, <2>4, <2>5, <3>1, <3>2 DEF Looks
  <2>7. /\ Stages[id] \in {"approved", "rejected"}
        /\ AllParties[id] = {party}
        /\ Offers[id] = vp
    BY <2>2, <2>3, <2>4, <2>6 DEF Looks, ReviewResult, Stages, AllParties, Offers
  <2>8. UNCHANGED <<Stages, AllParties, Offers>>
    BY <1>3 DEF LooksTheSame, Stages, AllParties, Offers
  <2>9. Lifecycle!Tell(id, party)
    BY <2>1, <2>3, <2>7, <2>8 DEF Lifecycle!Tell, Stages, AllParties, Offers
  <2> QED
    BY <2>2, <2>9
<1> QED
  BY <1>4, <1>5

(* Loads, refusals, crashes and what concerns exchanges alone change        *)
(* nothing a party could notice; each other step is a step of the cycle.    *)
LEMMA RefinementStep ==
  ASSUME SerialInv, [Next]_vars
  PROVE  [Lifecycle!Next]_(Lifecycle!lifecycle)
<1>1. CASE UNCHANGED <<transactions, reviews, answered>>
  <2>1. \A i \in TransactionId : LooksTheSame(i)
    BY <1>1 DEF LooksTheSame, RowStage, RowParties, RowOffer, ReviewOf,
                HasCurrentSubmission
  <2> QED
    BY <1>1, <2>1, LifecycleStutter
<1>2. ASSUME NEW r \in Request, StartExchangeSave(r)
      PROVE  Lifecycle!Next
  BY <1>2, StartIsBegin DEF Lifecycle!Next
<1>3. ASSUME NEW r \in Request, ContinueSave(r)
      PROVE  [Lifecycle!Next]_(Lifecycle!lifecycle)
  BY <1>3, ContinueIsSubmit DEF Lifecycle!Next
<1>4. ASSUME NEW r \in Request, ReviewSave(r)
      PROVE  Lifecycle!Next
  BY <1>4, ReviewIsDecision DEF Lifecycle!Next, Offers
<1>5. ASSUME NEW r \in Request, Respond(r)
      PROVE  [Lifecycle!Next]_(Lifecycle!lifecycle)
  BY <1>5, RespondIsTell DEF Lifecycle!Next
<1>6. ASSUME NEW r \in Request, ServerStep(r)
      PROVE  [Lifecycle!Next]_(Lifecycle!lifecycle)
  <2>1. CASE CreateExchangeSave(r) \/ RefusePresentation(r) \/ RespondFailure(r)
    BY <1>1, <2>1 DEF CreateExchangeSave, RefusePresentation, RespondFailure,
                      database, history
  <2> QED
    BY <1>2, <1>3, <1>4, <1>5, <1>6, <2>1 DEF ServerStep, ContinueSave
<1>7. ASSUME NEW r \in Request, ClientCall(r)
      PROVE  [Lifecycle!Next]_(Lifecycle!lifecycle)
  BY <1>1, <1>7
     DEF ClientCall, RefuseCall, CreateExchangeCheck, StartExchangeLoad,
         ContinueExchangeLoad, ReviewLoad, vars, database, history
<1>8. CASE Crash \/ UNCHANGED vars \/ \E c \in callbacks : CallbackDone(c)
  BY <1>1, <1>8 DEF Crash, CallbackDone, vars, database, history
<1> QED
  BY <1>6, <1>7, <1>8 DEF Next

(* The v1 exchanges implement the transaction life cycle: nothing a party   *)
(* can notice of startExchange, continueExchange and addReview falls        *)
(* outside it, as long as requests on one transaction do not overlap.       *)
THEOREM LifecycleImplemented ==
  Spec /\ []OneRequestPerTransaction => ImplementsLifecycle
<1>1. Init => Lifecycle!Init
  BY DEF Init, Lifecycle!Init, RowStage, RowParties, RowOffer
<1>2. SerialInv /\ [Next]_vars => [Lifecycle!Next]_(Lifecycle!lifecycle)
  BY RefinementStep
<1> QED
  BY <1>1, <1>2, SerialInvariance, PTL
     DEF Spec, ImplementsLifecycle, Lifecycle!Spec

(* With one request slot, as in the run exchange_serial, no client can      *)
(* overlap two requests and nothing has to be assumed.                      *)
LEMMA OneSlotIsSerial ==
  ASSUME \A r, s \in Request : r = s
  PROVE  OneRequestPerTransaction /\ OneCreatePerExchange
BY DEF OneRequestPerTransaction, OneCreatePerExchange

(* One request at a time, the v1 exchanges keep the promises that races     *)
(* break, and implement the transaction life cycle.                         *)
COROLLARY OneSlotKeepsPromises ==
  ASSUME \A r, s \in Request : r = s
  PROVE  Spec => /\ []OneHolderPerTransaction
                 /\ ExchangeNotReplaced
                 /\ ReviewNeverGoesBack
                 /\ ImplementsLifecycle
<1>1. OneRequestPerTransaction /\ OneCreatePerExchange
  BY OneSlotIsSerial
<1> QED
  BY <1>1, OneHolder, ExchangesAreNotReplaced, ReviewsNeverGoBack,
     LifecycleImplemented, PTL
===============================================================================
