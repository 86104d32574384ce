------------------------------ MODULE Accounts ------------------------------
(***************************************************************************)
(* The account behind one email address: the rows Better-Auth keeps for it *)
(* as apps/api/src/auth.ts configures it, the links mailed to it, and the  *)
(* endpoints that change them, DELETE /v1/me (routes/me.ts) included.      *)
(* Better-Auth is a library: each of its endpoints is one step.            *)
(***************************************************************************)


CONSTANTS
    Sessions,   \* ids of sessions; one nobody carries any more is given again (bound)
    None

ASSUME SessionsAssumption == None \notin Sessions

VARIABLES
    account,   \* "none", "unverified" or "verified"
    sess,      \* for each session: not there, made under the password of now,
               \* or "stale": left over from an earlier password or account
    reset,     \* the reset links in the mailbox: for this account, for an older one
    verify     \* the mailbox holds a link that verifies the address

accountVars == <<account, sess, reset, verify>>

Live(s) == s # None /\ sess[s] # "none"
There == account # "none"

\* Any account a browser may meet, with no session yet.
AccountInit ==
    /\ account \in {"none", "unverified", "verified"}
    /\ sess = [s \in Sessions |-> "none"]
    /\ reset = {} /\ verify = (account = "unverified")

AccountTypeOK ==
    /\ account \in {"none", "unverified", "verified"}
    /\ sess \in [Sessions -> {"none", "current", "stale"}]
    /\ reset \subseteq {"this", "older"} /\ verify \in BOOLEAN

-----------------------------------------------------------------------------
(* Sessions *)

Minted(old, s) == [old EXCEPT ![s] = "current"]
Gone(s) == IF s = None THEN sess ELSE [sess EXCEPT ![s] = "none"]

\* Sessions left alive by a new password.
Outdated(old) == [s \in Sessions |-> IF old[s] = "none" THEN "none" ELSE "stale"]

\* revokeSessionsOnPasswordReset; revokeOtherSessions: true.
Revoked(old) == [s \in Sessions |-> "none"]

\* ON DELETE CASCADE from user to session.
Cascaded(old) == [s \in Sessions |-> "none"]

\* 30 days unused, or its cookie's age.
Expire(s) ==
    /\ Live(s)
    /\ sess' = Gone(s)
    /\ UNCHANGED <<account, reset, verify>>

-----------------------------------------------------------------------------
(* Better-Auth's endpoints *)

\* sendOnSignUp; an address with an account is refused.
SignUp(s) ==
    /\ ~There
    /\ account' = "unverified" /\ sess' = Minted(sess, s) /\ verify' = TRUE
    /\ UNCHANGED reset

SignIn(s) ==
    /\ There
    /\ sess' = Minted(sess, s)
    /\ UNCHANGED <<account, reset, verify>>

SignOut(s) == sess' = Gone(s) /\ UNCHANGED <<account, reset, verify>>

\* changePassword, as the account page calls it: the caller gets a new session.
ChangePassword(caller, s) ==
    /\ Live(caller)
    /\ sess' = Minted(Revoked(sess), s)
    /\ UNCHANGED <<account, reset, verify>>

\* sendResetPassword: the token exists outside the database only in this mail.
Mails == account = "verified"

\* The answer is the same whatever happened; a mail may be rejected (send.ts).
RequestReset ==
    /\ reset' \in IF Mails THEN {reset, reset \union {"this"}} ELSE {reset}
    /\ UNCHANGED <<account, sess, verify>>

\* The link is consumed by its use; an older account's leads to no user.
ResetPassword(link) ==
    /\ link = "this" /\ link \in reset
    /\ reset' = reset \ {link}
    /\ sess' = Revoked(sess)
    /\ UNCHANGED <<account, verify>>

\* RESET_TOKEN_TTL_SECONDS, VERIFICATION_TOKEN_TTL_SECONDS.
LinksExpire ==
    /\ reset' \in {reset, {}} /\ verify' \in {verify, FALSE}
    /\ UNCHANGED <<account, sess>>

\* autoSignInAfterVerification, for an address not verified before.
Verify(s) ==
    /\ verify /\ account = "unverified"
    /\ account' = "verified" /\ sess' = Minted(sess, s)
    /\ UNCHANGED <<reset, verify>>

Resend ==
    /\ account = "unverified"
    /\ verify' \in {verify, TRUE}
    /\ UNCHANGED <<account, sess, reset>>

-----------------------------------------------------------------------------
(* DELETE /v1/me, its sign-out being SignOut *)

\* "verification" rows stay, and lead to a user that no longer exists.
Aged == IF "this" \in reset THEN {"older"} ELSE reset

Delete ==
    /\ account' = "none" /\ sess' = Cascaded(sess) /\ reset' = Aged
    /\ UNCHANGED verify

-----------------------------------------------------------------------------

\* Another browser of the same person, with its own sessions, an endpoint at a
\* time; "new" is the id of the session it may be given.
Elsewhere(new) ==
    \/ \E s \in new : SignUp(s) \/ SignIn(s) \/ \E caller \in Sessions : ChangePassword(caller, s)
    \/ \E s \in Sessions : Expire(s) \/ (Live(s) /\ SignOut(s))
    \/ ResetPassword("this")
    \/ There /\ (\E s \in Sessions : Live(s)) /\ Delete

\* No session survives the password it was made under, nor its account
\* (auth.ts:100-103, account/+page.server.ts:100-104, me.ts:80-88).
NoSessionOutlives ==
    \A s \in Sessions : Live(s) => There /\ sess[s] = "current"

\* A reset link that would work belongs to an account that has verified its
\* address: an unverified one is sent none (FR-1.7, auth.ts:105-119), and what
\* is left of a deleted account never opens the one that takes its address next.
ResetNeedsVerified == "this" \in reset => account = "verified"
=============================================================================
