------------------------------ MODULE OciClient ------------------------------
(***************************************************************************)
(* OCIClient._request and _poll_work_request (ha_script.oci.api) against   *)
(* OCI: a request is signed, renewing the token if need be, sent, sent     *)
(* again by the HTTP session when it gets no answer, repeated once with a  *)
(* new token after a 401, and an update that OCI accepted as a work        *)
(* request is polled until it ends or the deadline has passed.             *)
(*                                                                         *)
(* Time counts in seconds of OCI's clock.  It passes while the client      *)
(* waits for an answer, sleeps, or has no call to make.                    *)
(***************************************************************************)
EXTENDS RequestSigner

CONSTANTS
    Value,         \* the values an update can write
    Read,          \* a request that changes nothing
    HttpRetries,   \* Retry(total)
    WrTimeout,     \* WR_TIMEOUT
    MaxRetryAfter, \* bound: the longest Retry-After OCI asks for
    MaxRequest     \* bound: seconds one signed request, or one renewal, takes

ASSUME ClientAssumption ==
    /\ {None, Read} \cap Value = {} /\ Read # None
    /\ {HttpRetries, MaxRetryAfter, MaxRequest} \subseteq Nat
    /\ WrTimeout \in Nat \ {0}

VARIABLES
    \* OCI
    store,   \* what the resource being updated holds
    work,    \* the work request being polled
    stray,   \* values of copies nobody waits for, which OCI may still write
    \* the client
    pc,      \* where the client is
    call,    \* the request being made: Read or the value of an update
    phase,   \* the request itself, or its polling
    retried, \* this request is the second one, after a 401
    tries,   \* how often the HTTP session has sent it again
    reply,   \* OCI's answer on its way
    sleep,   \* seconds left to sleep
    \* what the properties speak of
    age,     \* seconds since the request was signed or its renewal began
    waited,  \* seconds since the polling began
    renewed, \* a token was requested for this request
    done,    \* the update was written since the call began
    answer   \* how the last update ended

oci      == <<store, work, stray>>
ghosts   == <<done, answer>>
progress == <<pc, call, phase, retried, tries, reply, sleep, age, waited, renewed>>
vars     == <<signerVars, oci, progress, ghosts>>

Label == {"idle", "sign", "token", "sent", "sleep"}
Reply == {"none", "ok", "accepted", "refused", "401", "running", "SUCCEEDED", "FAILED"}

\* A polling never takes longer: the last poll begins before the deadline, may
\* renew the token twice and send two requests, and is followed by a sleep.
WaitLimit == WrTimeout - 1 + 4 * MaxRequest + MaxRetryAfter

Updating == call \in Value

-----------------------------------------------------------------------------
(* The call as a whole.                                                    *)

\* The next request of the call is to be signed.
ToSign(ph, again) ==
    /\ pc' = "sign"
    /\ phase' = ph
    /\ retried' = again
    /\ tries' = 0 /\ reply' = "none" /\ sleep' = 0 /\ age' = 0
    /\ renewed' = (again /\ renewed)

\* The call ends: it returns, or an exception leaves it.  OCI goes on with a
\* work request nobody waits for any more.
End(outcome) ==
    /\ pc' = "idle"
    /\ call' = None
    /\ phase' = "request" /\ retried' = FALSE /\ renewed' = FALSE
    /\ tries' = 0 /\ reply' = "none" /\ sleep' = 0 /\ age' = 0 /\ waited' = 0
    /\ answer' = IF Updating THEN outcome ELSE answer
    /\ stray' = IF work = "running" THEN stray \cup {call} ELSE stray
    /\ work' = "none"
    /\ UNCHANGED <<store, done>>

Raise == End("failed")

\* get, put, post or delete is called.
Start ==
    /\ pc = "idle"
    /\ \E c \in Value \cup {Read} :
        /\ call' = c
        /\ done' = IF c \in Value THEN FALSE ELSE done
        /\ answer' = IF c \in Value THEN "none" ELSE answer
    /\ ToSign("request", FALSE)
    /\ UNCHANGED <<signerVars, oci, waited>>

-----------------------------------------------------------------------------
(* RequestSigner.__call__, before the request is sent.                     *)

Sent ==
    /\ pc' = "sent"
    /\ age' = 0
    /\ UNCHANGED <<call, phase, retried, tries, reply, sleep, waited>>

SignWithKeptToken ==
    /\ pc = "sign"
    /\ ~NeedsToken
    /\ Sent
    /\ UNCHANGED <<signerVars, oci, renewed, ghosts>>

\* _session_credentials reads the metadata service, or raises.
RenewCredentials ==
    /\ pc = "sign"
    /\ NeedsToken
    /\ \/ /\ NewCredentials
          /\ pc' = "token"
          /\ UNCHANGED <<oci, call, phase, retried, tries, reply, sleep, age, waited,
                         renewed, ghosts>>
       \/ Raise /\ UNCHANGED signerVars

\* _request_token asks OCI for a token, or raises and leaves the credentials.
RenewToken ==
    /\ pc = "token"
    /\ \/ NewToken /\ Sent /\ renewed' = TRUE /\ UNCHANGED <<oci, ghosts>>
       \/ Raise /\ UNCHANGED signerVars

-----------------------------------------------------------------------------
(* OCI.                                                                    *)

Replies(r) ==
    /\ reply' = r
    /\ UNCHANGED <<signerVars, pc, call, phase, retried, tries, sleep, age, waited,
                   renewed, answer>>

Writes(v) == store' = v /\ done' = (done \/ v = call)

AwaitsOci == pc = "sent" /\ reply = "none"

\* The signature is not accepted.
Reject ==
    /\ AwaitsOci
    /\ ~Honoured
    /\ Replies("401")
    /\ UNCHANGED <<oci, done>>

\* The request is accepted and carried out, taken in as a work request, or
\* refused for another reason.
Process ==
    /\ AwaitsOci
    /\ Honoured
    /\ phase = "request"
    /\ \/ Replies("refused") /\ UNCHANGED <<oci, done>>
       \/ ~Updating /\ Replies("ok") /\ UNCHANGED <<oci, done>>
       \/ Updating /\ Replies("ok") /\ Writes(call) /\ UNCHANGED <<work, stray>>
       \/ /\ Updating /\ Replies("accepted")
          /\ work' = "running"
          /\ UNCHANGED <<store, stray, done>>

\* A poll is answered with the state of the work request.
TellStatus ==
    /\ AwaitsOci
    /\ Honoured
    /\ phase = "poll"
    /\ Replies(work)
    /\ UNCHANGED <<oci, done>>

\* The work request ends; FAILED stands for CANCELED too.
WorkEnds ==
    /\ work = "running"
    /\ \/ work' = "SUCCEEDED" /\ Writes(call)
       \/ work' = "FAILED" /\ UNCHANGED <<store, done>>
    /\ UNCHANGED <<signerVars, stray, progress, answer>>

\* A copy nobody waits for is written; there may be another one.
StrayWritten ==
    /\ \E v \in stray : Writes(v) /\ stray' \in {stray, stray \ {v}}
    /\ UNCHANGED <<signerVars, work, progress, answer>>

-----------------------------------------------------------------------------
(* The HTTP session (session_with_retry).                                  *)

\* The answer to this copy is lost, or the copy is late: OCI may write it
\* although the client will not know.
LosesTrack ==
    IF phase = "request" /\ work = "running" THEN stray' = stray \cup {call}
    ELSE IF phase = "request" /\ Updating /\ AwaitsOci /\ Honoured
    THEN stray' \in {stray, stray \cup {call}}
    ELSE stray' = stray

\* Mutant: the session sends once more than it may.
RetriesLeft_OneMore == tries <= HttpRetries

RetriesLeft == tries < HttpRetries

\* No answer in time, a broken connection, or a status of status_forcelist: the
\* same signed request is sent again.
Resend ==
    /\ pc = "sent"
    /\ RetriesLeft
    /\ tries' = tries + 1
    /\ reply' = "none"
    /\ LosesTrack
    /\ work' = IF phase = "request" THEN "none" ELSE work
    /\ UNCHANGED <<signerVars, store, pc, call, phase, retried, sleep, age, waited,
                   renewed, ghosts>>

\* The session has no retry left and raises.
NoAnswer ==
    /\ pc = "sent"
    /\ ~RetriesLeft
    /\ Raise
    /\ UNCHANGED signerVars

-----------------------------------------------------------------------------
(* _request and _poll_work_request, once an answer is there.               *)

Got(r) == pc = "sent" /\ reply = r

\* Mutant: every 401 is answered with another attempt.
RetryWithNewToken_Always ==
    /\ Got("401")
    /\ Invalidate
    /\ ToSign(phase, TRUE)
    /\ UNCHANGED <<oci, call, waited, ghosts>>

\* A 401: invalidate, and the request once more.
RetryWithNewToken ==
    /\ Got("401")
    /\ ~retried
    /\ Invalidate
    /\ ToSign(phase, TRUE)
    /\ UNCHANGED <<oci, call, waited, ghosts>>

\* raise_for_status, and a work request that failed.
RaiseForStatus ==
    /\ \/ Got("401") /\ retried
       \/ Got("refused")
       \/ Got("FAILED")
    /\ Raise
    /\ UNCHANGED signerVars

\* The call is done; its body may be no JSON.
Return ==
    /\ Got("ok") \/ Got("SUCCEEDED")
    /\ End("ok") \/ Raise
    /\ UNCHANGED signerVars

\* The answer has an opc-work-request-id: the polling begins.
BeginPolling ==
    /\ Got("accepted")
    /\ waited' = 0
    /\ ToSign("poll", FALSE)
    /\ UNCHANGED <<signerVars, oci, call, ghosts>>

\* The work request has not ended: sleep for Retry-After.
Sleep ==
    /\ Got("running")
    /\ pc' = "sleep"
    /\ reply' = "none"
    /\ sleep' \in 0..MaxRetryAfter
    /\ age' = 0
    /\ UNCHANGED <<signerVars, oci, call, phase, retried, tries, waited, renewed, ghosts>>

\* Mutant: the deadline is never looked at.
InTime_Always == TRUE

\* The condition of the polling loop.
InTime == waited < WrTimeout

PollAgain ==
    /\ pc = "sleep" /\ sleep = 0
    /\ InTime
    /\ ToSign("poll", FALSE)
    /\ UNCHANGED <<signerVars, oci, call, waited, ghosts>>

\* Mutant: the loop ends and so does the call.
TimeOut_Returns ==
    /\ pc = "sleep" /\ sleep = 0
    /\ ~InTime
    /\ End("ok")
    /\ UNCHANGED signerVars

\* The work request timed out.
TimeOut ==
    /\ pc = "sleep" /\ sleep = 0
    /\ ~InTime
    /\ Raise
    /\ UNCHANGED signerVars

-----------------------------------------------------------------------------
\* A second passes.  A request or a renewal ends within MaxRequest seconds.
Tick ==
    /\ pc # "sign"
    /\ pc \in {"token", "sent"} => age < MaxRequest
    /\ pc = "sleep" => sleep > 0
    /\ age' = IF pc \in {"token", "sent"} THEN age + 1 ELSE age
    /\ sleep' = IF pc = "sleep" THEN sleep - 1 ELSE sleep
    /\ waited' = IF phase = "poll" /\ waited <= WaitLimit THEN waited + 1 ELSE waited
    /\ Ages
    /\ UNCHANGED <<oci, pc, call, phase, retried, tries, reply, renewed, ghosts>>

Init ==
    /\ SignerInit
    /\ store = None /\ work = "none" /\ stray = {}
    /\ pc = "idle" /\ call = None /\ phase = "request" /\ retried = FALSE
    /\ tries = 0 /\ reply = "none" /\ sleep = 0 /\ age = 0 /\ waited = 0
    /\ renewed = FALSE /\ done = FALSE /\ answer = "none"

Client ==
    \/ SignWithKeptToken \/ RenewCredentials \/ RenewToken
    \/ Resend \/ NoAnswer
    \/ RetryWithNewToken \/ RaiseForStatus \/ Return
    \/ BeginPolling \/ Sleep \/ PollAgain \/ TimeOut

Environment ==
    \/ Reject \/ Process \/ TellStatus \/ WorkEnds \/ StrayWritten
    \/ (Revoke \/ SetClockBack) /\ UNCHANGED <<oci, progress, ghosts>>

Next == Start \/ Client \/ Environment \/ Tick

Spec == Init /\ [][Next]_vars

\* The client is a sequential program whose requests time out; time passes.
FairSpec == Spec /\ WF_vars(Client) /\ SF_vars(Tick)

TypeOK ==
    /\ SignerTypeOK
    /\ store \in Value \cup {None}
    /\ work \in {"none", "running", "SUCCEEDED", "FAILED"}
    /\ stray \subseteq Value
    /\ pc \in Label
    /\ call \in Value \cup {Read, None}
    /\ phase \in {"request", "poll"}
    /\ retried \in BOOLEAN
    /\ tries \in 0..HttpRetries
    /\ reply \in Reply
    /\ sleep \in 0..MaxRetryAfter
    /\ age \in 0..MaxRequest
    /\ waited \in 0..WaitLimit + 1
    /\ renewed \in BOOLEAN /\ done \in BOOLEAN
    /\ answer \in {"none", "ok", "failed"}

-----------------------------------------------------------------------------
(* Properties.                                                             *)

\* A request is signed with the session key its token was issued for, although
\* a renewal can fail after the key was replaced; only an engine whose clock is
\* set back sends the old token with the new key (RequestSigner.__call__).
SignatureMatchesToken == pc = "sent" => Matches \/ back > 0

\* A 401 to a token kept from an earlier request, revoked or expired or paired
\* with the wrong key, never fails the call: it fails only when OCI rejects a
\* token requested for this very request.
KeptTokenFailsNoCall ==
    [][Got("401") /\ RaiseForStatus => renewed]_vars

\* Renewed with its headroom, a token outlives a signed request, resends with the
\* same signature included, that is under way no longer than the headroom: unless
\* OCI revokes the token or the clock was set back, OCI rejects only a slower one.
\* Four attempts, each with up to 30 s to connect and to read, and the pauses in
\* between can be slower than the 120 s of the code; the repetition after a 401
\* is what saves those calls (KeptTokenFailsNoCall).
RejectedOnlyIfSlow ==
    [][reply' = "401" /\ reply # "401" /\ ~token.revoked /\ back = 0
         => age > Headroom]_vars

\* The caller is not held longer than WR_TIMEOUT, one poll and one Retry-After.
WaitIsBounded == waited <= WaitLimit

\* What a call that returned or raised tells its caller.
Cloud == INSTANCE CloudCall WITH
    call <- IF Updating THEN call ELSE None,
    waiting <- stray \cup (IF work = "running" THEN {call} ELSE {})

KeepsCloudPromise == Cloud!CallSpec

\* Every call ends.
CallEnds == pc # "idle" ~> pc = "idle"
=============================================================================
