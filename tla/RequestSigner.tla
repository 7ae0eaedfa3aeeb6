---------------------------- MODULE RequestSigner ----------------------------
(***************************************************************************)
(* ha_script.oci.auth.RequestSigner: the session key and the security      *)
(* token that sign the requests to OCI.  One signer serves both clients of *)
(* a script, whose requests come one after the other.                      *)
(***************************************************************************)
EXTENDS Integers

CONSTANTS
    Session,  \* session keys; a generated one differs from the token's
    None,     \* Python's None
    Lifetime, \* how long OCI makes a token valid
    Headroom, \* Token.renew_headroom
    MaxBack   \* bound: how far the engine's clock may be set back

VARIABLES
    credentials, \* the session key in self.credentials
    token,       \* self.token
    back         \* how far time.time() is behind OCI's clock

signerVars == <<credentials, token, back>>

\* A token: the session key it was issued for, the time to its expiry by OCI's
\* clock, and whether OCI has stopped to honour it before.
Token == [session: Session, left: -MaxBack..Lifetime, revoked: BOOLEAN]

ASSUME SignerAssumption ==
    /\ None \notin Session \cup Token
    /\ {Headroom, MaxBack} \subseteq Nat
    /\ Lifetime \in Nat /\ Headroom < Lifetime

SignerTypeOK ==
    /\ credentials \in Session \cup {None}
    /\ token \in Token \cup {None}
    /\ back \in 0..MaxBack

SignerInit == credentials = None /\ token = None /\ back = 0

\* Mutant: a token is used up to its last second.
Expired_NoHeadroom == token.left + back <= 0

\* Token.expired
Expired == token.left + back <= Headroom

\* A new token is needed before the next signature.
NeedsToken == IF credentials = None \/ token = None THEN TRUE ELSE Expired

\* _session_credentials generates a session key.
NewCredentials ==
    /\ credentials' \in {s \in Session : token # None => s # token.session}
    /\ UNCHANGED <<token, back>>

\* _request_token: OCI issues a token for the session key it is given.
NewToken ==
    /\ token' = [session |-> credentials, left |-> Lifetime, revoked |-> FALSE]
    /\ UNCHANGED <<credentials, back>>

\* Mutant: the token survives, as self.token is not reset.
Invalidate_KeepsToken == credentials' = None /\ UNCHANGED <<token, back>>

\* Mutant: only a token known to have expired is discarded.
Invalidate_OnlyExpired ==
    IF NeedsToken THEN credentials' = None /\ token' = None /\ UNCHANGED back
    ELSE UNCHANGED signerVars

\* invalidate
Invalidate == credentials' = None /\ token' = None /\ UNCHANGED back

-----------------------------------------------------------------------------
(* OCI's side.                                                             *)

\* The pair a signature was made with belongs together.
Matches == token # None /\ credentials = token.session

\* OCI accepts a signature made with the pair.
Honoured == Matches /\ token.left > 0 /\ ~token.revoked

\* A second passes.
Ages ==
    /\ token' = IF token = None THEN token
                ELSE [token EXCEPT !.left = IF @ = -MaxBack THEN @ ELSE @ - 1]
    /\ UNCHANGED <<credentials, back>>

\* OCI stops to honour the token (a rotated certificate, a changed policy).
Revoke ==
    /\ token # None
    /\ token' = [token EXCEPT !.revoked = TRUE]
    /\ UNCHANGED <<credentials, back>>

\* The engine's clock is set back.
SetClockBack ==
    /\ \E b \in back + 1..MaxBack : back' = b
    /\ UNCHANGED <<credentials, token>>
=============================================================================
