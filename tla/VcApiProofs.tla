------------------------------ MODULE VcApiProofs ------------------------------
(***************************************************************************)
(* What holds end to end, for every value of the constants: the routes of  *)
(* the whole server, called in any order and from any number of requests,  *)
(* keep the types of all tables, wallets and documents, keep the invariant *)
(* of the exchanges, and accept credentials only that verify.              *)
(***************************************************************************)
EXTENDS VcApi, ExchangeServiceProofs

-------------------------------------------------------------------------------
(* The inductive invariant.  A signed presentation carries genuine          *)
(* credentials only (Genuine), a request continues with a presentation      *)
(* somebody proved, and an accepted presentation satisfies the definitions  *)
(* of the VP request drawn under its challenge.                             *)

(* Somebody was issued, or handed, a genuine credential for it.             *)
Genuine(definition) ==
  \E vc \in credentials \cup Received :
    vc.genuine /\ vc.definition = definition

SignedPresentationsAreGenuine ==
  \A vp \in presentations :
    vp.signed => \A definition \in vp.satisfies : Genuine(definition)

RequestsSubmitPresentations ==
  \A r \in Request :
    requests[r].op = "continue" => requests[r].presentation \in presentations

(* The presentation definitions a VP request asks for are satisfied by      *)
(* genuine credentials.                                                     *)
AskedIsGenuine(vpRequest) ==
  \A query \in vpRequest.query :
    \A definition \in query.definitions :
      query.type = "PresentationDefinition" => Genuine(definition)

SubmittedIsGenuine ==
  \A s \in submitted :
    /\ vpRequests[s.submission.challenge] # None
    /\ AskedIsGenuine(vpRequests[s.submission.challenge].vpRequest)

ApiIInv ==
  /\ IInv
  /\ Keys!TypeOK
  /\ Credentials!DocumentsTypeOK
  /\ SignedPresentationsAreGenuine
  /\ RequestsSubmitPresentations
  /\ SubmittedIsGenuine

-------------------------------------------------------------------------------
(* Credentials are never taken back.                                        *)
LEMMA GenuineStays ==
  ASSUME credentials \subseteq credentials'
  PROVE  /\ \A definition : Genuine(definition) => Genuine(definition)'
         /\ \A vpRequest : AskedIsGenuine(vpRequest) => AskedIsGenuine(vpRequest)'
<1>1. \A definition : Genuine(definition) => Genuine(definition)'
  BY DEF Genuine
<1> QED
  BY <1>1 DEF AskedIsGenuine

(* A presentation is assembled of what the server issued and clients hold.  *)
LEMMA AssembledType ==
  ASSUME NEW vcs \in Assembled
  PROVE  vcs \subseteq credentials \cup Received
  BY DEF Assembled, Credentials!PresentationsFrom, Credentials!SelectFrom

(* Every step of the exchange routes is a step the v1 proofs are about; the *)
(* presentations requests carry are ones somebody proved.                   *)
LEMMA ExchangeRoutesOpen ==
  ASSUME ApiIInv, [ApiNext]_apiVars
  PROVE  [OpenNext]_vars /\ RequestsSubmitPresentations'
<1>0. /\ TypeOK
      /\ presentations \subseteq Presentation
      /\ RequestsSubmitPresentations
  BY DEF ApiIInv, IInv, Credentials!DocumentsTypeOK, Credentials!Presentation, Presentation
<1>1. ASSUME NEW r \in Request, NEW request, presentations' = presentations,
             requests' = [requests EXCEPT ![r] = request],
             request.op = "continue" => request.presentation \in presentations
      PROVE  RequestsSubmitPresentations'
  BY <1>0, <1>1 DEF TypeOK, RequestsSubmitPresentations
<1>2. Idle.op # "continue"
  BY DEF Idle
<1>3. ASSUME NEW r \in Request, ExchangeStep(r)
      PROVE  [OpenNext]_vars /\ RequestsSubmitPresentations'
  <2>1. ServerStep(r) /\ presentations' = presentations
    BY <1>3 DEF ExchangeStep, documents
  <2>2. OpenNext
    BY <2>1 DEF OpenNext, Next
  <2>3. CASE Answer(r)
    <3>1. PICK request :
            /\ request.op # "continue"
            /\ requests' = [requests EXCEPT ![r] = request]
      BY <1>2, <2>3 DEF Answer
    <3> QED
      BY <1>1, <2>1, <2>2, <3>1
  <2>4. ASSUME NEW t, NEW inProgress, NEW vp, NEW callback,
               SaveAndRespond(r, t, inProgress, vp, callback)
        PROVE  RequestsSubmitPresentations'
    <3>1. PICK request :
            /\ request.op = "respond"
            /\ requests' = [requests EXCEPT ![r] = request]
      BY <2>4 DEF SaveAndRespond
    <3> QED
      BY <1>1, <2>1, <3>1
  <2>5. RequestsSubmitPresentations'
    BY <2>1, <2>3, <2>4
       DEF ServerStep, CreateExchangeSave, StartExchangeSave, RefusePresentation,
           ProcessUnmediated, ProcessPendingSubmission, ProcessPendingReview,
           ProcessReviewed, Respond, RespondFailure, ReviewSave
  <2> QED
    BY <2>2, <2>5
<1>4. ASSUME NEW r \in Request, ExchangeCall(r)
      PROVE  [OpenNext]_vars /\ RequestsSubmitPresentations'
  <2>0. presentations' = presentations
    BY <1>4 DEF ExchangeCall, documents
  <2>1. CASE Define(r)
    <3>1. PICK e \in Exchange, definition \in ExchangeDefinitions :
            CreateExchangeCheck(r, e, definition)
      BY <2>1 DEF Define
    <3>2. PICK request :
            /\ request.op = "create"
            /\ requests' = [requests EXCEPT ![r] = request]
      BY <3>1 DEF CreateExchangeCheck
    <3> QED
      BY <1>1, <2>0, <3>1, <3>2 DEF OpenNext, Next, ClientCall
  <2>2. CASE Start(r)
    <3>1. PICK e \in Exchange : StartExchangeLoad(r, e)
      BY <2>2 DEF Start
    <3>2. PICK request :
            /\ request.op = "start"
            /\ requests' = [requests EXCEPT ![r] = request]
      BY <3>1 DEF StartExchangeLoad
    <3> QED
      BY <1>1, <2>0, <3>1, <3>2 DEF OpenNext, Next, ClientCall
  <2>3. CASE Submit(r)
    <3>1. PICK id \in TransactionId, vp \in presentations :
            ContinueExchangeLoad(r, id, vp)
      BY <2>3 DEF Submit
    <3>2. PICK request :
            /\ request.presentation = vp
            /\ requests' = [requests EXCEPT ![r] = request]
      BY <3>1 DEF ContinueExchangeLoad
    <3> QED
      BY <1>0, <1>1, <2>0, <3>1, <3>2 DEF OpenNext
  <2>4. ASSUME NEW id \in TransactionId, Review(r, id)
        PROVE  [OpenNext]_vars /\ RequestsSubmitPresentations'
    <3>1. PICK result \in ReviewResult, vp \in IssuedVp \cup {None, Undefined} :
            ReviewLoad(r, id, result, vp)
      BY <2>4 DEF Review, ReviewOffers
    <3>2. PICK request :
            /\ request.op = "review"
            /\ requests' = [requests EXCEPT ![r] = request]
      BY <3>1 DEF ReviewLoad
    <3> QED
      BY <1>1, <2>0, <3>1, <3>2 DEF OpenNext, Next, ClientCall
  <2> QED
    BY <1>4, <2>1, <2>2, <2>3, <2>4 DEF ExchangeCall
<1>5. CASE CallbackStep
  <2>1. PICK c \in callbacks : CallbackDone(c)
    BY <1>5 DEF CallbackStep
  <2> QED
    BY <1>0, <1>5, <2>1
       DEF CallbackStep, CallbackDone, OpenNext, Next,
           RequestsSubmitPresentations, documents
<1>6. CASE ApiCrash
  BY <1>2, <1>6
     DEF ApiCrash, Crash, OpenNext, Next, RequestsSubmitPresentations
<1>7. CASE KeyStep \/ Issue \/ Prove \/ UNCHANGED apiVars
  <2>1. UNCHANGED vars
    BY <1>7 DEF KeyStep, Issue, Prove, apiVars
  <2>2. presentations \subseteq presentations'
    BY <1>7 DEF KeyStep, Issue, Prove, apiVars, documents,
                Credentials!IssueCredential, Credentials!DidAuthenticate,
                Credentials!ProvePresentation
  <2> QED
    BY <1>0, <2>1, <2>2 DEF vars, RequestsSubmitPresentations
<1> QED
  BY <1>3, <1>4, <1>5, <1>6, <1>7 DEF ApiNext

(* The key and DID routes keep the wallet's types, and no other route       *)
(* touches it.                                                              *)
LEMMA KeysKeep ==
  ASSUME Keys!TypeOK, [ApiNext]_apiVars
  PROVE  Keys!TypeOK'
<1>1. ASSUME NEW q \in KeyRequest, NEW did \in Holder, Keys!GenerateKey(q, did)
      PROVE  Keys!TypeOK'
  BY <1>1 DEF Keys!GenerateKey, Keys!Goto, Keys!TypeOK, Keys!RequestState, Keys!SeederState
<1>2. ASSUME NEW q \in KeyRequest, Keys!RegisterGeneratedKey(q)
      PROVE  Keys!TypeOK'
  BY <1>2 DEF Keys!RegisterGeneratedKey, Keys!Goto, Keys!TypeOK, Keys!Idle,
              Keys!RequestState, Keys!SeederState
<1>3. CASE ApiCrash
  BY <1>3, ApiConstantsAssumption
     DEF ApiCrash, Keys!Crash, Keys!Restart, Keys!TypeOK, Keys!Idle,
         Keys!RequestState, Keys!SeederState
<1>4. CASE UNCHANGED <<keyVars, crashes>>
  BY <1>4 DEF keyVars, Keys!TypeOK
<1> QED
  BY <1>1, <1>2, <1>3, <1>4
     DEF ApiNext, KeyStep, Issue, Prove, ExchangeCall, ExchangeStep,
         CallbackStep, apiVars

(* The credential routes keep the documents' types, forget none, and sign   *)
(* nothing that verifies around a credential that does not.                 *)
DocumentsInv ==
  Credentials!DocumentsTypeOK /\ SignedPresentationsAreGenuine

LEMMA DocumentsKeep ==
  ASSUME DocumentsInv, [ApiNext]_apiVars
  PROVE  DocumentsInv' /\ credentials \subseteq credentials'
<1> USE DEF DocumentsInv
<1>1. CASE Issue
  <2>1. PICK issuer \in Holder, definition \in Definition :
          Credentials!IssueCredential(issuer, definition)
    BY <1>1 DEF Issue
  <2>2. /\ credentials' =
             credentials \cup {[definition |-> definition, genuine |-> TRUE]}
        /\ presentations' = presentations
    BY <2>1 DEF Credentials!IssueCredential
  <2>3. [definition |-> definition, genuine |-> TRUE] \in Credentials!Credential
    BY DEF Credentials!Credential
  <2>4. Credentials!DocumentsTypeOK'
    BY <2>2, <2>3 DEF Credentials!DocumentsTypeOK
  <2> QED
    BY <2>2, <2>4, GenuineStays DEF SignedPresentationsAreGenuine
<1>2. CASE Prove
  <2>1. PICK options \in Credentials!ProveOptions, holder \in Holder \cup {None},
             vcs \in SUBSET (credentials \cup Received) :
          Credentials!ProvePresentation(holder, vcs, options)
    <3>1. PICK options \in Credentials!ProveOptions :
            \/ \E did \in Holder : Credentials!DidAuthenticate(did, options)
            \/ \E holder \in Holder \cup {None}, vcs \in Assembled :
                 Credentials!ProvePresentation(holder, vcs, options)
      BY <1>2 DEF Prove
    <3> QED
      BY <3>1, AssembledType DEF Credentials!DidAuthenticate
  <2>2. PICK verifies, vp :
          /\ verifies \in Credentials!Verifies(vcs, options.proofPurpose)
          /\ vp = [holder |-> holder, challenge |-> options.challenge,
                   signed |-> verifies,
                   satisfies |-> {vc.definition : vc \in vcs}]
          /\ presentations' = presentations \cup {vp}
          /\ credentials' = credentials
    BY <2>1 DEF Credentials!ProvePresentation
  <2>3. /\ verifies \in BOOLEAN
        /\ verifies => \A vc \in vcs : vc.genuine
    BY <2>2 DEF Credentials!Verifies, Credentials!VerifyCredential,
                Credentials!VerificationErrors
  <2>4. Credentials!DocumentsTypeOK'
    <3>1. vcs \subseteq Credentials!Credential
      BY <2>1, ApiConstantsAssumption DEF Credentials!DocumentsTypeOK
    <3>2. vp \in Credentials!Presentation
      BY <2>2, <2>3, <3>1
         DEF Credentials!Presentation, Credentials!Credential,
             Credentials!ProveOptions
    <3> QED
      BY <2>2, <3>2 DEF Credentials!DocumentsTypeOK
  <2>5. ASSUME vp.signed, NEW definition \in vp.satisfies
        PROVE  Genuine(definition)'
    <3>1. PICK vc \in vcs : definition = vc.definition
      BY <2>2, <2>5
    <3>2. vc.genuine
      BY <2>2, <2>3, <2>5
    <3> QED
      BY <2>1, <2>2, <3>1, <3>2 DEF Genuine
  <2> QED
    BY <2>2, <2>4, <2>5, GenuineStays DEF SignedPresentationsAreGenuine
<1>3. CASE UNCHANGED documents
  BY <1>3 DEF documents, Credentials!DocumentsTypeOK,
              SignedPresentationsAreGenuine, Genuine
<1> QED
  BY <1>1, <1>2, <1>3
     DEF ApiNext, KeyStep, ExchangeCall, ExchangeStep, CallbackStep, ApiCrash,
         apiVars

(* A submission is saved only of a presentation that answers the VP request *)
(* drawn under its challenge.                                               *)
LEMMA SubmittedKeeps ==
  ASSUME ApiIInv, [OpenNext]_vars, credentials \subseteq credentials'
  PROVE  SubmittedIsGenuine'
<1>0. IInv /\ TypeOK /\ Growing
  BY StepsGrow DEF ApiIInv, IInv
<1>1. ASSUME NEW s \in submitted
      PROVE  (/\ vpRequests[s.submission.challenge] # None
              /\ AskedIsGenuine(vpRequests[s.submission.challenge].vpRequest))'
  <2>1. PICK c, vpRequest :
          c = s.submission.challenge /\ vpRequest = vpRequests[c].vpRequest
    OBVIOUS
  <2>2. /\ c \in Challenge
        /\ vpRequests[c] # None
        /\ AskedIsGenuine(vpRequest)
    BY <1>0, <1>1, <2>1
       DEF ApiIInv, SubmittedIsGenuine, TypeOK, PresentationSubmission
  <2>3. vpRequests'[c] = vpRequests[c]
    BY <1>0, <2>2 DEF Growing
  <2> QED
    BY <2>1, <2>2, <2>3, GenuineStays DEF AskedIsGenuine
<1>2. ASSUME NEW s \in submitted' \ submitted
      PROVE  (/\ vpRequests[s.submission.challenge] # None
              /\ AskedIsGenuine(vpRequests[s.submission.challenge].vpRequest))'
  <2>1. PICK r \in Request :
          /\ requests[r].op = "continue"
          /\ Accepted(requests[r])
          /\ s = [transactionId |-> requests[r].transactionId,
                  submission |-> NewSubmission(requests[r].presentation)]
    BY <1>0, <1>2, NewSubmissionsAccepted
  <2>2. PICK request, vp, vpRequest :
          /\ request = requests[r]
          /\ vp = request.presentation
          /\ vpRequest = request.transaction.vpRequest
    OBVIOUS
  <2>3. /\ request \in ContinueRequest
        /\ vp \in presentations
        /\ VpRequestDrawn(request.transactionId, vpRequest)
    BY <1>0, <2>1, <2>2, RequestKinds
       DEF ApiIInv, IInv, TypeOK, RequestsSubmitPresentations, RequestInv,
           LoadedEntityInv, EntityInv
  <2>4. /\ vpRequest \in VpRequest
        /\ request.transactionId \in TransactionId
    BY <2>2, <2>3 DEF ContinueRequest, LoadedEntity, TransactionEntity
  <2>5. Answers(vp, vpRequest)
    BY <2>1, <2>2, <2>4, VerdictCorrect DEF Accepted, VpRequest, Query
  <2>6. s.submission.challenge = vpRequest.challenge
    BY <2>1, <2>2, <2>5 DEF NewSubmission, Answers
  <2>7. /\ vpRequests[vpRequest.challenge] # None
        /\ vpRequests[vpRequest.challenge].vpRequest = vpRequest
    BY <2>3, <2>4, NoneAssumption DEF VpRequestDrawn, DrawnVpRequest
  <2>8. vpRequests'[vpRequest.challenge] = vpRequests[vpRequest.challenge]
    BY <1>0, <2>4, <2>7 DEF Growing, VpRequest
  <2>9. AskedIsGenuine(vpRequest)
    BY <2>3, <2>5
       DEF Answers, AskedIsGenuine, ApiIInv, SignedPresentationsAreGenuine
  <2> QED
    BY <2>6, <2>7, <2>8, <2>9, GenuineStays DEF AskedIsGenuine
<1> QED
  BY <1>1, <1>2 DEF SubmittedIsGenuine

-------------------------------------------------------------------------------
(* The invariant holds in every state the server reaches, whatever its      *)
(* clients call.                                                            *)
THEOREM ApiInvariance == ApiSpec => []ApiIInv
<1>1. ApiInit => ApiIInv
  <2> SUFFICES ASSUME ApiInit PROVE ApiIInv
    OBVIOUS
  <2>1. IInv
    BY InitIInv DEF ApiInit
  <2>2. Keys!TypeOK
    BY ApiConstantsAssumption
       DEF ApiInit, Keys!Init, Keys!TypeOK, Keys!Idle, Keys!RequestState,
           Keys!SeederState
  <2>3. Credentials!DocumentsTypeOK /\ SignedPresentationsAreGenuine
    BY DEF ApiInit, Credentials!DocumentsInit, Credentials!DocumentsTypeOK,
           SignedPresentationsAreGenuine
  <2>4. RequestsSubmitPresentations /\ SubmittedIsGenuine
    BY DEF ApiInit, Init, Idle, RequestsSubmitPresentations, SubmittedIsGenuine
  <2> QED
    BY <2>1, <2>2, <2>3, <2>4 DEF ApiIInv
<1>2. ApiIInv /\ [ApiNext]_apiVars => ApiIInv'
  <2> SUFFICES ASSUME ApiIInv, [ApiNext]_apiVars PROVE ApiIInv'
    OBVIOUS
  <2>1. [OpenNext]_vars /\ RequestsSubmitPresentations'
    BY ExchangeRoutesOpen
  <2>2. IInv'
    BY <2>1, InvariantStep DEF ApiIInv
  <2>3. Keys!TypeOK'
    BY KeysKeep DEF ApiIInv
  <2>4. /\ Credentials!DocumentsTypeOK'
        /\ SignedPresentationsAreGenuine'
        /\ credentials \subseteq credentials'
    BY DocumentsKeep DEF ApiIInv, DocumentsInv
  <2>5. SubmittedIsGenuine'
    BY <2>1, <2>4, SubmittedKeeps
  <2> QED
    BY <2>1, <2>2, <2>3, <2>4, <2>5 DEF ApiIInv
<1> QED
  BY <1>1, <1>2, PTL DEF ApiSpec

(* Tables, wallet and documents keep their types, whatever routes are       *)
(* called in whatever order.                                                *)
THEOREM ApiTypeCorrect == ApiSpec => []ApiTypeOK
<1>1. ApiIInv => ApiTypeOK
  BY DEF ApiIInv, IInv, ApiTypeOK
<1> QED
  BY <1>1, ApiInvariance, PTL

(* verifyVpRequestSubmission and provePresentation together: an exchange    *)
(* accepts a presentation for a definition only when somebody has a genuine *)
(* credential for it.                                                       *)
THEOREM AcceptedCredentialsAreGenuine == ApiSpec => []AcceptedCredentialIsGenuine
<1>1. ApiIInv => AcceptedCredentialIsGenuine
  BY DEF ApiIInv, SubmittedIsGenuine, AskedIsGenuine, Genuine,
         AcceptedCredentialIsGenuine
<1> QED
  BY <1>1, ApiInvariance, PTL

(* What the exchanges promise on their own they also promise as part of the *)
(* server, where presentations are proved by its own routes.                *)
THEOREM ExchangesKeepPromises ==
  ApiSpec => [](/\ PendingReviewHasSubmission
                /\ CallbackReportsSavedSubmission
                /\ AnswerWasReviewed
                /\ AnsweredHolderSubmitted)
<1>1. ApiIInv => /\ PendingReviewHasSubmission
                 /\ CallbackReportsSavedSubmission
                 /\ AnswerWasReviewed
                 /\ AnsweredHolderSubmitted
  BY DEF ApiIInv, IInv
<1> QED
  BY <1>1, ApiInvariance, PTL
===============================================================================
