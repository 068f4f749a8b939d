------------------------------ MODULE Registry ------------------------------
(***************************************************************************)
(* Docker.digest (library/docker.py): whether a container image exists,    *)
(* with its retries, its authorization, and the tokens that all instances  *)
(* of Docker share. Between two awaits a coroutine is not interrupted; one *)
(* action here is what happens from one answer of the registry to the next *)
(* request. All calls are about the same image, so there is one entry of   *)
(* tokens. The registry is external.                                       *)
(***************************************************************************)
EXTENDS ImageReference

CONSTANTS
  Requests,    \* concurrent callers
  Images,      \* images that may be named
  MaxRetries,  \* MAX_RETRIES
  MaxFaults    \* bound on failures

\* Official images are left out: docker.py does not add their namespace.
ASSUME RegistryAssumption == \A i \in Images : WellFormed(i) /\ ~Official(i)

VARIABLES
  image,       \* the image that is named
  manifest_url,  \* where digest looks for it
  published,   \* it exists in its registry
  private,     \* its registry asks for a token
  tokens,      \* the stored token: its age, and whether the registry accepts it
  call,        \* where a caller is in digest
  tok,         \* the token it has in hand
  attempt,     \* attempt of _retry
  found,       \* it has got a digest
  errors,      \* history: transient errors it has met
  broken,      \* history: it has met an answer that no retry is meant for
  faults

imageVars == <<image, manifest_url, published, private>>
callVars == <<tokens, call, tok, attempt, found, errors, broken>>

NoToken == [age |-> "none", accepted |-> FALSE]
Token == {"none", "accepted", "refused"}

RegistryTypeOK ==
  /\ image \in Images /\ published \in BOOLEAN /\ private \in BOOLEAN
  /\ manifest_url \in [registry : Seq(STRING), repo : Seq(STRING), reference : Seq(STRING)]
  /\ tokens \in [age : {"none", "valid", "expired"}, accepted : BOOLEAN]
  /\ call \in [Requests -> {"idle", "attempt", "head", "retryHead", "authorize",
                            "headAgain", "done", "raised"}]
  /\ tok \in [Requests -> Token]
  /\ attempt \in [Requests -> 1..MaxRetries]
  /\ found \in [Requests -> BOOLEAN]
  /\ errors \in [Requests -> 0..MaxRetries]
  /\ broken \in [Requests -> BOOLEAN]
  /\ faults \in 0..MaxFaults

RegistryInit ==
  /\ image \in Images /\ manifest_url = Manifest(Name(image))
  /\ published \in BOOLEAN /\ private \in BOOLEAN
  /\ tokens = NoToken
  /\ call = [c \in Requests |-> "idle"]
  /\ tok = [c \in Requests |-> "none"]
  /\ attempt = [c \in Requests |-> 1]
  /\ found = [c \in Requests |-> FALSE]
  /\ errors = [c \in Requests |-> 0]
  /\ broken = [c \in Requests |-> FALSE]
  /\ faults = 0

Fault == faults < MaxFaults /\ faults' = faults + 1
Move(c, to) == call' = [call EXCEPT ![c] = to]

-----------------------------------------------------------------------------
(* External: the registry.                                                 *)

\* Time passes: a stored token expires.
TokenExpires ==
  /\ tokens.age = "valid"
  /\ tokens' = [tokens EXCEPT !.age = "expired"]
  /\ UNCHANGED <<imageVars, call, tok, attempt, found, errors, broken, faults>>

\* The registry stops accepting the tokens that it has granted. Whoever has just
\* been granted one has no luck.
Revoke ==
  /\ Fault
  /\ tokens' = [tokens EXCEPT !.accepted = FALSE]
  /\ tok' = [c \in Requests |-> IF tok[c] = "accepted" THEN "refused" ELSE tok[c]]
  /\ broken' = [c \in Requests |-> broken[c] \/ (call[c] = "headAgain" /\ tok[c] = "accepted")]
  /\ UNCHANGED <<imageVars, call, attempt, found, errors>>

\* It answers a HEAD request with the digest, 404, or 401. It has the manifest that
\* the name means, and digest asks for the one that it reads from the name.
Accepts(c) == ~private \/ tok[c] = "accepted"
Exists == published /\ manifest_url = Meaning(image)

-----------------------------------------------------------------------------
(* digest, _retry and _get_digest.                                         *)

\* _get_digest returns a digest, or None.
Returns(c, d) ==
  /\ Move(c, "done")
  /\ found' = [found EXCEPT ![c] = d]
  /\ tok' = [tok EXCEPT ![c] = "none"]

Digest(c) ==
  /\ call[c] = "idle"
  /\ Move(c, "attempt")
  /\ UNCHANGED <<tokens, tok, attempt, found, errors, broken>>

\* The stored token is used unless it has expired.
token == tokens.age = "valid"

\* The token is looked up, an expired one is removed, and the request is sent.
SendHead(c) ==
  /\ call[c] = "attempt"
  /\ Move(c, "head")
  /\ tok' = [tok EXCEPT ![c] = IF ~token THEN "none"
                               ELSE IF tokens.accepted THEN "accepted" ELSE "refused"]
  /\ tokens' = IF token THEN tokens ELSE NoToken
  /\ UNCHANGED <<imageVars, attempt, found, errors, broken, faults>>

\* Mutant: the answer to an expired token is taken for that of a missing image.
ChallengedNoToken(c) == ~Accepts(c) /\ tok[c] = "none"

\* 401 with a www-authenticate header.
Challenged(c) == ~Accepts(c)

\* The first answer. Without a realm in the header of a 401, which registries leave
\* out when they refuse a token, authorize forgets the token and asks again.
HeadAnswer(c) ==
  /\ call[c] = "head"
  /\ IF Challenged(c)
     THEN /\ \/ Move(c, "authorize") /\ UNCHANGED tokens
             \/ tok[c] = "refused" /\ Move(c, "retryHead") /\ tokens' = NoToken
          /\ tok' = [tok EXCEPT ![c] = "none"]
          /\ UNCHANGED found
     ELSE Returns(c, Exists /\ Accepts(c)) /\ UNCHANGED tokens
  /\ UNCHANGED <<imageVars, attempt, errors, broken, faults>>

\* The answer without a token has a realm.
RetryHeadAnswer(c) ==
  /\ call[c] = "retryHead"
  /\ Move(c, "authorize")
  /\ UNCHANGED <<imageVars, tokens, tok, attempt, found, errors, broken, faults>>

\* A token is granted and stored; when the answer does not say for how long it is
\* valid, it counts as expired.
Authorize(c) ==
  /\ call[c] = "authorize"
  /\ Move(c, "headAgain")
  /\ tok' = [tok EXCEPT ![c] = "accepted"]
  /\ \E age \in {"valid", "expired"} : tokens' = [age |-> age, accepted |-> TRUE]
  /\ UNCHANGED <<imageVars, attempt, found, errors, broken, faults>>

HeadAgainAnswer(c) ==
  /\ call[c] = "headAgain"
  /\ Returns(c, Exists /\ Accepts(c))
  /\ UNCHANGED <<imageVars, tokens, attempt, errors, broken, faults>>

InFlight(c) == call[c] \in {"head", "retryHead", "authorize", "headAgain"}

\* _retry after a transient error.
Retry(c) ==
  IF attempt[c] < MaxRetries
  THEN /\ Move(c, "attempt")
       /\ attempt' = [attempt EXCEPT ![c] = @ + 1]
       /\ tok' = [tok EXCEPT ![c] = "none"] /\ UNCHANGED found
  ELSE Returns(c, FALSE) /\ UNCHANGED attempt

TransientError(c) ==
  /\ InFlight(c) /\ Fault
  /\ errors' = [errors EXCEPT ![c] = @ + 1]
  /\ Retry(c)
  /\ UNCHANGED <<imageVars, tokens, broken>>

\* An answer that is neither: an error status, no usable header, no token (None is
\* returned), or an exception that is not retried.
BrokenAnswer(c) ==
  /\ InFlight(c) /\ Fault
  /\ broken' = [broken EXCEPT ![c] = TRUE]
  /\ \/ Returns(c, FALSE)
     \/ Move(c, "raised") /\ tok' = [tok EXCEPT ![c] = "none"] /\ UNCHANGED found
  /\ UNCHANGED <<imageVars, tokens, attempt, errors>>

RegistryStep(c) ==
  \/ SendHead(c) \/ HeadAnswer(c) \/ RetryHeadAnswer(c) \/ Authorize(c) \/ HeadAgainAnswer(c)
  \/ TransientError(c) \/ BrokenAnswer(c)

-----------------------------------------------------------------------------
\* An image that exists is found, whatever the state of the stored token and the
\* other callers do to it, unless every attempt met a transient error or the
\* registry gave a broken answer (digest, _retry, authorize).
Resilient ==
  \A c \in Requests :
    call[c] = "done" /\ published /\ ~found[c] => broken[c] \/ errors[c] = MaxRetries
=============================================================================
