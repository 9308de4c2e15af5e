--------------------------------- MODULE VcApi ---------------------------------
(***************************************************************************)
(* The server as its clients use it end to end: holders and issuers make   *)
(* keys and DIDs, issue credentials and prove presentations with it, and   *)
(* submit these presentations to its exchanges.  Composes ExchangeService, *)
(* KeyService and CredentialsService, which share the process (a crash     *)
(* ends the requests of all) and the wallet.                               *)
(***************************************************************************)
EXTENDS ExchangeService, FiniteSets

CONSTANTS
  KeyRequest,       \* slots for /key and /did requests in flight
  Received,         \* credentials clients were handed elsewhere
  MaxPresentations, \* bounds the presentations clients have proved
  MaxCrashes        \* bounds the crashes

VARIABLES
  wallet,         \* keys in the Askar wallet
  dids,           \* keys a did:key was created for
  keyRequests,    \* what each /key and /did request in flight holds
  crashes,        \* crashes so far
  credentials,    \* verifiable credentials issued so far
  presentations   \* verifiable presentations proved so far

(* The seeder has no fixtures here: start-up is a matter of KeyService.     *)
Keys ==
  INSTANCE KeyService WITH
    KeyId <- Holder, Fixtures <- <<>>, Pairs <- {}, Request <- KeyRequest,
    requests <- keyRequests, seeder <- [next |-> 1, phase |-> "done"],
    acknowledged <- {}

Credentials == INSTANCE CredentialsService

ASSUME ApiConstantsAssumption ==
  /\ Received \subseteq Credentials!Credential
  /\ MaxCrashes \in Nat

keyVars == <<wallet, dids, keyRequests>>
documents == <<credentials, presentations>>
apiVars == <<vars, keyVars, crashes, documents>>

ApiTypeOK ==
  /\ TypeOK
  /\ Keys!TypeOK
  /\ Credentials!DocumentsTypeOK

ApiInit ==
  /\ Init
  /\ Keys!Init
  /\ Credentials!DocumentsInit

-------------------------------------------------------------------------------
(* The key and DID routes.                                                  *)
KeyStep ==
  /\ \E q \in KeyRequest :
       \/ \E did \in Holder : Keys!GenerateKey(q, did)
       \/ Keys!RegisterGeneratedKey(q)
  /\ UNCHANGED <<vars, documents>>

(* The credential routes.  Clients ask for proofs with the challenges they  *)
(* were given, of what the server assembled for them or of nothing.         *)
KnownChallenges == {c \in Challenge : vpRequests[c] # None}

Assembled ==
  {{}} \cup UNION {Credentials!PresentationsFrom(definition, vcs) :
                     definition \in Definition,
                     vcs \in SUBSET (credentials \cup Received)}

Issue ==
  /\ \E issuer \in Holder, definition \in Definition :
       Credentials!IssueCredential(issuer, definition)
  /\ UNCHANGED <<vars, keyVars, crashes>>

Prove ==
  /\ \E options \in Credentials!ProveOptions :
       /\ options.challenge \in KnownChallenges
       /\ \/ \E did \in Holder : Credentials!DidAuthenticate(did, options)
          \/ \E holder \in Holder \cup {None}, vcs \in Assembled :
               Credentials!ProvePresentation(holder, vcs, options)
  /\ Cardinality(presentations') <= MaxPresentations
  /\ UNCHANGED <<vars, keyVars, crashes>>

(* The exchange routes.                                                     *)
Define(r) ==
  \E e \in Exchange, definition \in ExchangeDefinitions :
    CreateExchangeCheck(r, e, definition)

Start(r) == \E e \in Exchange : StartExchangeLoad(r, e)

Submit(r) ==
  \E id \in TransactionId, vp \in presentations : ContinueExchangeLoad(r, id, vp)

(* GET /exchanges/:exchangeId/:transactionId answers every member of the    *)
(* entity: the conversion to its DTO leaves none out.                       *)
GetTransaction(id) == LoadTransaction(id)

(* What a reviewer sends along: a presentation the agent signed, null, or   *)
(* nothing.                                                                 *)
ReviewOffers == (presentations \cap IssuedVp) \cup {None, Undefined}

Review(r, id) ==
  \E result \in ReviewResult, vp \in ReviewOffers : ReviewLoad(r, id, result, vp)

ExchangeCall(r) ==
  /\ \/ Define(r)
     \/ Start(r)
     \/ Submit(r)
     \/ \E id \in TransactionId : Review(r, id)
  /\ UNCHANGED <<keyVars, crashes, documents>>

ExchangeStep(r) ==
  /\ ServerStep(r)
  /\ UNCHANGED <<keyVars, crashes, documents>>

CallbackStep ==
  /\ \E c \in callbacks : CallbackDone(c)
  /\ UNCHANGED <<keyVars, crashes, documents>>

(* One process serves all the routes.                                       *)
ApiCrash ==
  /\ Crash
  /\ Keys!Crash
  /\ UNCHANGED documents

ApiNext ==
  \/ KeyStep
  \/ Issue
  \/ Prove
  \/ \E r \in Request : ExchangeCall(r) \/ ExchangeStep(r)
  \/ CallbackStep
  \/ ApiCrash

(* The event loop goes on with a handler whose await is over.               *)
Fairness == \A r \in Request : WF_apiVars(ExchangeStep(r))

ApiSpec == ApiInit /\ [][ApiNext]_apiVars /\ Fairness

-------------------------------------------------------------------------------
(* Properties.                                                              *)

(* What an exchange has accepted for a presentation definition goes back to *)
(* a genuine credential for it: signing a presentation around a credential  *)
(* that does not verify, which the server does, gets nobody through.        *)
AcceptedCredentialIsGenuine ==
  \A s \in submitted :
    \A query \in vpRequests[s.submission.challenge].vpRequest.query :
      \A definition \in query.definitions :
        query.type = "PresentationDefinition" =>
          \E vc \in credentials \cup Received :
            vc.genuine /\ vc.definition = definition

(* The submitter of a transaction posts a presentation that answers its VP  *)
(* request again.                                                           *)
Poll(id) ==
  \E r \in Request, vp \in presentations :
    /\ transactions[id] # None
    /\ transactions[id].presentationSubmission # None
    /\ Answers(vp, transactions[id].vpRequest)
    /\ ContinueExchangeLoad(r, id, vp)
    /\ UNCHANGED <<keyVars, crashes, documents>>

KeepsPolling(id) == SF_apiVars(Poll(id))

KeepsReviewing(id) ==
  SF_apiVars(\E r \in Request :
               Review(r, id) /\ UNCHANGED <<keyVars, crashes, documents>>)

(* A reviewer who reads the transaction finds a review pending.             *)
AwaitsReview(id) ==
  /\ transactions[id] # None
  /\ GetTransaction(id).presentationReview # None
  /\ GetTransaction(id).presentationReview.reviewStatus = "pending_review"

(* A crash between the save of a submission and its callbacks loses them,   *)
(* and nothing notes that they are due.  All the same, the reviewing side   *)
(* hears of the submission as long as its holder keeps polling.             *)
PendingSubmissionIsReported ==
  \A id \in TransactionId :
    KeepsPolling(id) =>
      (AwaitsReview(id) ~>
         (~AwaitsReview(id) \/ \E c \in callbacks : c.transactionId = id))

(* Whoever submitted and keeps polling is given the outcome, once somebody  *)
(* reviews: no answer of a handler, no error path and no crash is a dead    *)
(* end.                                                                     *)
SubmitterLearnsOutcome ==
  \A id \in TransactionId :
    KeepsPolling(id) /\ KeepsReviewing(id) =>
      (AwaitsReview(id) ~> \E a \in answered : a.transactionId = id)
===============================================================================
