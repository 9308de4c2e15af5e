---------------------- MODULE VpSubmissionVerifierProofs ----------------------
(***************************************************************************)
(* The verdict of the submission verifier, for every presentation and      *)
(* every VP request.                                                       *)
(***************************************************************************)
EXTENDS VpSubmissionVerifier, TLAPS

(* verifyVpRequestSubmission returns no error exactly for the presentations  *)
(* that answer the VP request.                                              *)
THEOREM VerdictCorrect ==
  ASSUME NEW vp, NEW vpRequest,
         \A query \in vpRequest.query :
           query.type \in {"DIDAuth", "PresentationDefinition"}
  PROVE  VerifyVpRequestSubmission(vp, vpRequest) = {} <=> Answers(vp, vpRequest)
<1>1. VerifyPresentationProof(vp, vpRequest.challenge) = {}
        <=> vp.signed /\ vp.challenge = vpRequest.challenge
  BY DEF VerifyPresentationProof, VerifyPresentation
<1>2. ASSUME NEW query \in vpRequest.query
      PROVE  ValidateQuery(vp, query) = {}
               <=> \/ query.type = "DIDAuth" /\ vp.holder # None
                   \/ /\ query.type = "PresentationDefinition"
                      /\ query.definitions \subseteq vp.satisfies
  BY <1>2 DEF ValidateQuery, VerifyDidAuth, VerifyPresentationDefinition
<1>3. ValidateAgainstVpRequest(vp, vpRequest) = {}
        <=> /\ \A query \in vpRequest.query : ValidateQuery(vp, query) = {}
            /\ vp.challenge = vpRequest.challenge
  <2> DEFINE errors == UNION {ValidateQuery(vp, query) : query \in vpRequest.query}
  <2>1. ASSUME \A query \in vpRequest.query : ValidateQuery(vp, query) = {}
        PROVE  errors = {}
    BY <2>1
  <2>2. ASSUME errors = {}, NEW query \in vpRequest.query
        PROVE  ValidateQuery(vp, query) = {}
    <3>1. ValidateQuery(vp, query) \subseteq errors
      BY <2>2
    <3> QED
      BY <2>2, <3>1
  <2>3. ValidateAgainstVpRequest(vp, vpRequest) = {}
          <=> errors = {} /\ vp.challenge = vpRequest.challenge
    BY DEF ValidateAgainstVpRequest
  <2> QED
    BY <2>1, <2>2, <2>3
<1> QED
  BY <1>1, <1>2, <1>3 DEF VerifyVpRequestSubmission, Answers
===============================================================================
