--------------------------- MODULE CredentialsService ---------------------------
(***************************************************************************)
(* Issuing, assembling and proving: CredentialsService, the routes under   *)
(* /credentials and /presentations, and the part of DIDService it asks for *)
(* a DID's document.                                                       *)
(*                                                                         *)
(* The service keeps nothing.  It resolves a DID, signs with a key of the  *)
(* wallet and hands the document to the client: the two variables below    *)
(* are what clients have been handed.  Resolving a did:key reads nothing   *)
(* but the DID and the wallet never loses a key, so an operation is one    *)
(* action.  A DID is named by the key it was made from.                    *)
(***************************************************************************)
EXTENDS VpSubmissionVerifier

ProofPurpose == {"authentication", "assertionMethod"}

(* The options of a proof.  Their verification method is mandatory.         *)
ProveOptions ==
  [verificationMethod : Holder, challenge : Challenge, proofPurpose : ProofPurpose]

(* Of a credential the verdicts tell apart which presentation definition it *)
(* satisfies and whether its proof verifies.                                *)
Credential == [definition : Definition, genuine : BOOLEAN]

VARIABLES
  wallet,        \* keys in the Askar wallet
  credentials,   \* verifiable credentials issued so far
  presentations  \* verifiable presentations proved so far

documents == <<credentials, presentations>>

DocumentsTypeOK ==
  /\ credentials \subseteq Credential
  /\ presentations \subseteq Presentation

DocumentsInit ==
  /\ credentials = {}
  /\ presentations = {}

-------------------------------------------------------------------------------
(* A did:key has one verification method, its key, whether or not the       *)
(* server has registered the DID: resolving reads only the DID.             *)
VerificationMethodForDid(did) == did

(* Credo signs with the private key the wallet has for a method.            *)
HasKey(verificationMethod) == verificationMethod \in wallet

VerificationErrors(isValid) ==
  IF isValid THEN {} ELSE {"proof does not verify"}

(* POST /credentials/verify: errors are answered with a 400.                *)
VerifyCredential(vc) == VerificationErrors(vc.genuine)

(* POST /credentials/issue: a DID without a key in the wallet is a 500.     *)
IssueCredential(issuer, definition) ==
  /\ HasKey(VerificationMethodForDid(issuer))
  /\ credentials' =
       credentials \cup {[definition |-> definition, genuine |-> TRUE]}
  /\ UNCHANGED presentations

(* POST /presentations/from: the credentials that satisfy the definition;   *)
(* that there are none is a 500.                                            *)
SelectFrom(definition, vcs) == {vc \in vcs : vc.definition = definition}

PresentationsFrom(definition, vcs) ==
  {SelectFrom(definition, vcs)} \ {{}}

(* Mutation: the proof of the presentation says nothing of its credentials. *)
VerifiesAlone(vcs, proofPurpose) == {TRUE}

(* Whether what is signed verifies: its credentials have to, and its proof  *)
(* has to be for authentication.  What Credo makes of another purpose is    *)
(* left open.                                                               *)
Verifies(vcs, proofPurpose) ==
  IF \E vc \in vcs : VerifyCredential(vc) # {} THEN {FALSE}
  ELSE IF proofPurpose = "authentication" THEN {TRUE} ELSE BOOLEAN

(* POST /presentations/prove.  The holder's own verification method is not  *)
(* looked up, as the options name one, and nothing compares the two.        *)
ProvePresentation(holder, vcs, options) ==
  /\ HasKey(options.verificationMethod)
  /\ \E verifies \in Verifies(vcs, options.proofPurpose) :
       presentations' = presentations \cup
         {[holder |-> holder, challenge |-> options.challenge, signed |-> verifies,
           satisfies |-> {vc.definition : vc \in vcs}]}
  /\ UNCHANGED credentials

(* POST /presentations/prove/authentication; another purpose is a 400.      *)
DidAuthenticate(did, options) ==
  /\ options.proofPurpose = "authentication"
  /\ ProvePresentation(did, {}, options)
===============================================================================
