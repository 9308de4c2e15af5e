------------------------- MODULE VpSubmissionVerifier -------------------------
(***************************************************************************)
(* The verdict of VpSubmissionVerifierService on a presentation submitted  *)
(* in answer to a VP request.  The v1 exchanges and the workflows each     *)
(* carry a copy of the class; the two differ only in their types, so one   *)
(* module serves both.                                                     *)
(*                                                                         *)
(* A presentation is abstracted to what the verdict tells apart: its       *)
(* holder, the challenge in its proof, whether the proof verifies, and the *)
(* presentation definitions its credentials satisfy.  The verdict is the   *)
(* set of errors; no error means accepted.                                 *)
(***************************************************************************)

CONSTANTS
  Holder,      \* DIDs that may appear as the holder of a presentation
  Challenge,   \* challenges (uuids) a VP request can carry
  Definition,  \* presentation definitions a query can ask for
  None         \* an absent member, or NULL in a column

Presentation ==
  [holder    : Holder \cup {None},
   challenge : Challenge,
   signed    : BOOLEAN,
   satisfies : SUBSET Definition]

Query ==
  [type        : {"DIDAuth", "PresentationDefinition"},
   definitions : SUBSET Definition]

-------------------------------------------------------------------------------
(* Credo's verifyPresentation, as the service uses it: the proof must       *)
(* verify, for the challenge the service expects.                           *)
VerifyPresentation(vp, challenge) ==
  vp.signed /\ vp.challenge = challenge

VerifyPresentationProof(vp, challenge) ==
  IF VerifyPresentation(vp, challenge) THEN {} ELSE {"proof does not verify"}

VerifyDidAuth(vp) ==
  IF vp.holder = None THEN {"holder is required"} ELSE {}

VerifyPresentationDefinition(vp, definitions) ==
  IF definitions \subseteq vp.satisfies THEN {} ELSE {"definition not satisfied"}

ValidateQuery(vp, query) ==
  IF query.type = "DIDAuth"
  THEN VerifyDidAuth(vp)
  ELSE VerifyPresentationDefinition(vp, query.definitions)

ValidateAgainstVpRequest(vp, vpRequest) ==
  (UNION {ValidateQuery(vp, query) : query \in vpRequest.query})
    \cup (IF vp.challenge # vpRequest.challenge
          THEN {"challenge does not match"} ELSE {})

(* The errors reported for presentation vp submitted to vpRequest.          *)
VerifyVpRequestSubmission(vp, vpRequest) ==
  VerifyPresentationProof(vp, vpRequest.challenge)
    \cup ValidateAgainstVpRequest(vp, vpRequest)

-------------------------------------------------------------------------------
(* What the service promises its callers, said without its error lists: an  *)
(* accepted presentation is proved for the request's own challenge, names   *)
(* its holder when authentication is asked for, and satisfies every         *)
(* definition asked for.                                                    *)
Answers(vp, vpRequest) ==
  /\ vp.signed
  /\ vp.challenge = vpRequest.challenge
  /\ \A query \in vpRequest.query :
       \/ query.type = "DIDAuth" /\ vp.holder # None
       \/ query.type = "PresentationDefinition"
            /\ query.definitions \subseteq vp.satisfies
===============================================================================
