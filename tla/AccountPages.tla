---------------------------- MODULE AccountPages ----------------------------
(***************************************************************************)
(* The web server in front of the account (apps/web/src/hooks.server.ts,   *)
(* lib/server/auth.ts and the account routes) and one tab of a browser.    *)
(* Every request goes through the session lookup and the guard; a form     *)
(* then calls the api, whose cookies are relayed with the answer.  Another *)
(* browser of the same person changes the account at any time.             *)
(***************************************************************************)
EXTENDS Accounts

VARIABLES
    cookie,   \* the session the browser's cookie names, None without one
    shown,    \* the page in front of the person, and what it says
    ask       \* the request on the way

browserVars == <<cookie, shown, ask>>
vars == <<account, sess, reset, verify, cookie, shown, ask>>

-----------------------------------------------------------------------------
(* Routes and requests *)

\* PUBLIC_PATHS.
PublicPaths ==
    {"/", "sign-in", "sign-up", "sign-out", "forgot-password", "reset-password", "verify-email"}

\* The sign-in page guarded like any other.
PublicButSignIn(path) == path \in PublicPaths \ {"sign-in"}

Public(path) == path \in PublicPaths

Paths == PublicPaths \union {"account", "boards", "resend-verification"}

\* The forms, with the page each is submitted from; the header's sign-out and
\* the notice's resend are on every page of a signed-in user.
FormsOn ==
    [sign_in |-> {"sign-in"}, sign_up |-> {"sign-up"}, forgot |-> {"forgot-password"},
     reset |-> {"reset-password"}, change |-> {"account"}, delete |-> {"account"},
     sign_out |-> {"account", "boards"}, resend |-> {"account", "boards"}]

ActionPath ==
    [sign_in |-> "sign-in", sign_up |-> "sign-up", forgot |-> "forgot-password",
     reset |-> "reset-password", change |-> "account", delete |-> "account",
     sign_out |-> "sign-out", resend |-> "resend-verification"]

\* What a page says: why it was come to (a path: the returnTo of a session that
\* expired there), or what became of its form.
Says == Paths \union {"nothing", "reset", "deleted", "sent", "changed", "refused"}
Shown == [page : Paths \union {"unavailable", "failed"}, says : Says]

\* What an answer does: show a page or lead to another path, and to the cookie.
Reply == [to : Shown, follow : BOOLEAN, set : {"keep", "clear"} \union Sessions]

\* A request: its path, form and query, the cookie sent with it, whom the
\* lookup found (a user, one whose address is verified, nobody, or no answer),
\* how far it is, and in the end the reply.
Requests ==
    [path : Paths, form : DOMAIN FormsOn \union {"none", "link"}, query : Says,
     sent : Sessions \union {None}, who : {"nobody", "unknown", "user", "verified"},
     pc : {"asked", "inside", "erasing", "replied"}, reply : {None} \union Reply]

Idle == [pc |-> "idle"]

Asked(path, form, query, sent) ==
    [path |-> path, form |-> form, query |-> query, sent |-> sent,
     who |-> "nobody", pc |-> "asked", reply |-> None]

Replies(reply) == ask' = [ask EXCEPT !.pc = "replied", !.reply = reply]

Show(page, says) == [to |-> [page |-> page, says |-> says], follow |-> FALSE, set |-> "keep"]
Follow(path, query) == [Show(path, query) EXCEPT !.follow = TRUE]

\* relaySetCookies.
WithCookie(reply, set) == [reply EXCEPT !.set = set]

\* An id no session has and nothing still carries.
Fresh ==
    {s \in Sessions : ~Live(s) /\ s # cookie
                        /\ (ask.pc # "idle" => s # ask.sent)
                        /\ (ask.pc = "replied" => s # ask.reply.set)}

Init ==
    /\ AccountInit
    /\ cookie = None /\ shown = [page |-> "/", says |-> "nothing"] /\ ask = Idle

-----------------------------------------------------------------------------
(* The person *)

Visit(path) ==
    /\ ask = Idle
    /\ path = "reset-password" => reset # {}
    /\ ask' = Asked(path, "none", "nothing", cookie)
    /\ UNCHANGED <<account, sess, reset, verify, cookie, shown>>

Submit(form) ==
    /\ ask = Idle /\ shown.page \in FormsOn[form]
    /\ ask' = Asked(ActionPath[form], form,
                    IF form = "sign_in" /\ shown.says \in Paths THEN shown.says ELSE "nothing",
                    cookie)
    /\ UNCHANGED <<account, sess, reset, verify, cookie, shown>>

\* The mailed link to /v1/auth/verify-email: handleApiProxy passes it on before
\* any lookup.
OpenVerifyLink ==
    /\ ask = Idle /\ verify
    /\ ask' = [Asked("verify-email", "link", "nothing", cookie) EXCEPT !.pc = "inside"]
    /\ UNCHANGED <<account, sess, reset, verify, cookie, shown>>

-----------------------------------------------------------------------------
(* handleSession and handleAuthGuard *)

\* lookupSession: a 401 is nobody; a limit, an error, no answer are unknown.
Lookup ==
    {"unknown"} \union
        {IF ~Live(ask.sent) THEN "nobody" ELSE IF account = "verified" THEN "verified" ELSE "user"}

\* No answer taken for a sign-out.
BouncedWhenUnsure(who) == Follow("sign-in", ask.path)

\* A bounce to sign-in, or a 503 when nobody could say.
TurnedAway(who) ==
    IF who = "unknown" THEN Show("unavailable", "nothing")
    ELSE Follow("sign-in", ask.path)

\* The notice's own handler (VerifyEmailFooter): it stays on the page and takes
\* anything but a success for a failure, redirects included.
NotSent == Show(shown.page, "refused")

Guard ==
    /\ ask.pc = "asked"
    /\ \E who \in Lookup :
          IF Public(ask.path) \/ who \in {"user", "verified"}
          THEN ask' = [ask EXCEPT !.pc = "inside", !.who = who]
          ELSE Replies(IF ask.form = "resend" THEN NotSent ELSE TurnedAway(who))
    /\ UNCHANGED <<account, sess, reset, verify, cookie, shown>>

SignedIn == ask.who \in {"user", "verified"}

\* postAuthDestination: safeReturnTo, with the board list to fall back on.
Destination(query) == IF query \in Paths \ {"sign-in"} THEN query ELSE "boards"

-----------------------------------------------------------------------------
(* The loads *)

\* Rendering a page asks nothing of the account, except for the list of boards.
Loaded ==
    CASE ask.path \in {"/", "sign-up"} /\ SignedIn -> Follow("boards", "nothing")
      [] ask.path = "sign-in" /\ SignedIn -> Follow(Destination(ask.query), "nothing")
      [] ask.path = "sign-out" -> Follow("sign-in", "nothing")
      [] ask.path = "resend-verification" -> Follow("boards", "nothing")
      [] ask.path = "boards" /\ ~Live(ask.sent) -> Follow("sign-in", "boards")
      [] OTHER -> Show(ask.path, ask.query)

Load ==
    /\ ask.pc = "inside" /\ ask.form = "none"
    /\ Replies(Loaded)
    /\ UNCHANGED <<account, sess, reset, verify, cookie, shown>>

-----------------------------------------------------------------------------
(* The form actions: one call to the api each *)

\* Where the api may be reached but answer nothing the action can use, or the
\* answer may be lost: postAuth throws, and the error page is shown.
Calls(form) == ask.pc = "inside" /\ ask.form = form
Answers(reply) == Replies(reply) \/ Replies(Show("failed", "nothing"))

\* A limit, wrong input, a refusal: the page again, with the message.
Refuses(form) ==
    /\ Calls(form)
    /\ Replies(IF form = "resend" THEN NotSent
               ELSE Show(ask.path, IF ask.query \in Paths THEN ask.query ELSE "refused"))
    /\ UNCHANGED accountVars

SignInForm(s) ==
    /\ Calls("sign_in") /\ SignIn(s)
    /\ Answers(WithCookie(Follow(Destination(ask.query), "nothing"), s))

SignUpForm(s) ==
    /\ Calls("sign_up") /\ SignUp(s)
    /\ Answers(WithCookie(Follow("boards", "nothing"), s))

\* A sign-out that failed is logged and still lands on sign-in.
SignOutForm ==
    /\ Calls("sign_out")
    /\ \/ SignOut(ask.sent) /\ Answers(WithCookie(Follow("sign-in", "nothing"), "clear"))
       \/ UNCHANGED accountVars /\ Replies(Follow("sign-in", "nothing"))

\* "Sent", whatever the api made of it; only a limit is told (Refuses).
ForgotForm ==
    /\ Calls("forgot")
    /\ RequestReset \/ UNCHANGED accountVars
    /\ Answers(Show("forgot-password", "sent"))

ResetForm ==
    /\ Calls("reset")
    /\ \E link \in {"this", "older"} : ResetPassword(link)
    /\ Answers(Follow("sign-in", "reset"))

ChangeForm(s) ==
    /\ Calls("change") /\ ChangePassword(ask.sent, s)
    /\ Answers(WithCookie(Show("account", "changed"), s))

\* Who is verified by now is led to the boards, which the notice does not follow.
ResendForm ==
    /\ Calls("resend") /\ ask.who # "verified"
    /\ Resend
    /\ Replies(NotSent) \/ Replies(Show(shown.page, "sent"))

VerifyLink(s) ==
    /\ Calls("link") /\ Verify(s)
    /\ Answers(WithCookie(Follow("verify-email", "nothing"), s))

\* Opened once verified, or when it is too old, the link only leads to the page.
SpentLink ==
    /\ Calls("link")
    /\ UNCHANGED accountVars /\ Answers(Follow("verify-email", "nothing"))

\* deleteAccount.  A 401 counts as gone: "/?deleted=1" all the same.
DeleteForm ==
    /\ Calls("delete")
    /\ IF Live(ask.sent)
       THEN SignOut(ask.sent) /\ ask' = [ask EXCEPT !.pc = "erasing"]
       ELSE UNCHANGED accountVars /\ Replies(Follow("/", "deleted"))

\* The row goes after the session; when that fails the cookie stays too.
Erase ==
    /\ ask.pc = "erasing"
    /\ \/ Delete /\ Answers(WithCookie(Follow("/", "deleted"), "clear"))
       \/ UNCHANGED accountVars /\ Replies(Show("account", "refused"))

Act ==
    \/ \E form \in DOMAIN FormsOn \ {"sign_out"} : Refuses(form)
    \/ SignOutForm \/ ForgotForm \/ ResetForm \/ ResendForm \/ DeleteForm \/ Erase \/ SpentLink
    \/ \E s \in Fresh : SignInForm(s) \/ SignUpForm(s) \/ ChangeForm(s) \/ VerifyLink(s)

-----------------------------------------------------------------------------
(* The browser *)

Jar(set) == IF set = "keep" THEN cookie ELSE IF set = "clear" THEN None ELSE set

\* The cookie is stored, then the page is shown or the redirect followed.
Arrive ==
    /\ ask.pc = "replied"
    /\ cookie' = Jar(ask.reply.set)
    /\ IF ask.reply.follow
       THEN ask' = Asked(ask.reply.to.page, "none", ask.reply.to.says, cookie') /\ UNCHANGED shown
       ELSE ask' = Idle /\ shown' = ask.reply.to
    /\ UNCHANGED accountVars

Web == (Guard \/ Load) \/ (Act /\ UNCHANGED <<cookie, shown>>)

Person ==
    \/ \E path \in Paths : Visit(path)
    \/ \E form \in DOMAIN FormsOn : Submit(form)
    \/ OpenVerifyLink

\* An id is always left for this browser (bound on Sessions).
Others ==
    /\ LinksExpire \/ Elsewhere({s \in Fresh : \E other \in Fresh : other # s})
    /\ UNCHANGED browserVars

Next == Person \/ Web \/ Arrive \/ Others

Spec == Init /\ [][Next]_vars /\ WF_vars(Web) /\ WF_vars(Arrive)

\* The types of the rows, of the browser's state and of its request.
TypeOK ==
    /\ AccountTypeOK
    /\ cookie \in Sessions \union {None} /\ shown \in Shown
    /\ ask \in {Idle} \union Requests

\* A page that says "your session expired" is never in front of somebody whose
\* session lives: an api that cannot answer is not a sign-out
\* (hooks.server.ts:152-163, lib/server/auth.ts:112-139).
ExpiredIsSignedOut ==
    ask = Idle /\ shown.page = "sign-in" /\ shown.says \in Paths => ~Live(cookie)

\* Every visit and every form ends in a page: no chain of redirects goes round,
\* whatever becomes of the session on the way.
VisitsEnd == ask # Idle ~> ask = Idle

\* Credentials end with what they stand for: a session with its password and its
\* account, a reset link with the account that verified its address.
AccountsSound == TypeOK /\ NoSessionOutlives /\ ResetNeedsVerified
=============================================================================
