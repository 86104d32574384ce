------------------------- MODULE AccountPages_proofs -------------------------
(***************************************************************************)
(* The account under any number of sessions: what ends with a password and *)
(* with an account, and the one page of the browser that says a session    *)
(* has ended.  The account's endpoints come first, then the web server and *)
(* the browser.                                                            *)
(***************************************************************************)
EXTENDS AccountPages, Naturals, TLAPS

-----------------------------------------------------------------------------
(* The endpoints *)

AccountInv == AccountTypeOK /\ NoSessionOutlives /\ ResetNeedsVerified

\* The endpoints that give a session ...
Mints(s) ==
    \/ SignUp(s) \/ SignIn(s) \/ Verify(s)
    \/ \E caller \in Sessions \union {None} : ChangePassword(caller, s)

\* ... and those that give none.
MintsNone ==
    \/ RequestReset \/ LinksExpire \/ Resend \/ Delete \/ UNCHANGED accountVars
    \/ \E link \in {"this", "older"} : ResetPassword(link)
    \/ \E s \in Sessions \union {None} : Expire(s) \/ SignOut(s)

\* No endpoint brings back a session other than the one it gives.
LEMMA MintsKeeps ==
    ASSUME AccountInv, NEW s \in Sessions, Mints(s)
    PROVE  AccountInv' /\ \A t \in Sessions \ {s} : sess'[t] # "none" => sess[t] # "none"
<1>1. account \in {"none", "unverified", "verified"}
      /\ sess \in [Sessions -> {"none", "current", "stale"}]
      /\ reset \subseteq {"this", "older"} /\ verify \in BOOLEAN
  BY DEF AccountInv, AccountTypeOK
<1>2. \A t \in Sessions : sess[t] # "none" => account # "none" /\ sess[t] = "current"
  BY SessionsAssumption DEF AccountInv, NoSessionOutlives, Live, There
<1>3. CASE SignUp(s) \/ SignIn(s) \/ Verify(s)
  <2>1. sess' = [sess EXCEPT ![s] = "current"] /\ account' # "none"
        /\ account' \in {"none", "unverified", "verified"} /\ UNCHANGED reset
        /\ verify' \in BOOLEAN /\ (account = "verified" => account' = "verified")
    BY <1>1, <1>3 DEF SignUp, SignIn, Verify, Minted, There
  <2>2. sess' \in [Sessions -> {"none", "current", "stale"}]
        /\ \A t \in Sessions : sess'[t] = IF t = s THEN "current" ELSE sess[t]
    BY <1>1, <2>1
  <2>3. QED
    BY <1>1, <1>2, <2>1, <2>2
       DEF AccountInv, AccountTypeOK, NoSessionOutlives, ResetNeedsVerified, Live, There
<1>4. ASSUME NEW caller \in Sessions \union {None}, ChangePassword(caller, s)
      PROVE  AccountInv' /\ \A t \in Sessions \ {s} : sess'[t] # "none" => sess[t] # "none"
  <2>1. sess' = [[t \in Sessions |-> "none"] EXCEPT ![s] = "current"]
        /\ UNCHANGED <<account, reset, verify>> /\ account # "none"
    BY <1>2, <1>4 DEF ChangePassword, Minted, Revoked, Live
  <2>2. sess' \in [Sessions -> {"none", "current", "stale"}]
        /\ \A t \in Sessions : sess'[t] = IF t = s THEN "current" ELSE "none"
    BY <2>1
  <2>3. QED
    BY <1>1, <2>1, <2>2
       DEF AccountInv, AccountTypeOK, NoSessionOutlives, ResetNeedsVerified, Live, There
<1>5. QED
  BY <1>3, <1>4 DEF Mints

LEMMA MintsNoneKeeps ==
    ASSUME AccountInv, MintsNone
    PROVE  AccountInv' /\ \A t \in Sessions : sess'[t] # "none" => sess[t] # "none"
<1>1. account \in {"none", "unverified", "verified"}
      /\ sess \in [Sessions -> {"none", "current", "stale"}]
      /\ reset \subseteq {"this", "older"} /\ verify \in BOOLEAN
  BY DEF AccountInv, AccountTypeOK
<1>2. (\A t \in Sessions : sess[t] # "none" => account # "none" /\ sess[t] = "current")
      /\ ("this" \in reset => account = "verified")
  BY SessionsAssumption DEF AccountInv, NoSessionOutlives, ResetNeedsVerified, Live, There
<1>3. CASE RequestReset \/ LinksExpire \/ Resend \/ UNCHANGED accountVars
  <2>1. UNCHANGED <<account, sess>> /\ reset' \subseteq {"this", "older"} /\ verify' \in BOOLEAN
        /\ ("this" \in reset' => account = "verified")
    BY <1>1, <1>2, <1>3 DEF RequestReset, Mails, LinksExpire, Resend, accountVars
  <2>2. QED
    BY <1>1, <1>2, <2>1
       DEF AccountInv, AccountTypeOK, NoSessionOutlives, ResetNeedsVerified, Live, There
<1>4. CASE Delete \/ \E link \in {"this", "older"} : ResetPassword(link)
  <2>1. /\ sess' = [t \in Sessions |-> "none"] /\ account' \in {"none", "unverified", "verified"}
        /\ verify' = verify /\ reset' \subseteq {"this", "older"} /\ "this" \notin reset'
    BY <1>1, <1>4 DEF Delete, Cascaded, Aged, ResetPassword, Revoked
  <2>2. QED
    BY <1>1, <2>1
       DEF AccountInv, AccountTypeOK, NoSessionOutlives, ResetNeedsVerified, Live, There
<1>5. ASSUME NEW s \in Sessions \union {None}, Expire(s) \/ SignOut(s)
      PROVE  AccountInv' /\ \A t \in Sessions : sess'[t] # "none" => sess[t] # "none"
  <2>1. UNCHANGED <<account, reset, verify>>
        /\ (sess' = sess \/ sess' = [sess EXCEPT ![s] = "none"])
    BY <1>5 DEF Expire, SignOut, Gone
  <2>2. sess' \in [Sessions -> {"none", "current", "stale"}]
        /\ \A t \in Sessions : sess'[t] = sess[t] \/ sess'[t] = "none"
    BY <1>1, <2>1
  <2>3. QED
    BY <1>1, <1>2, <2>1, <2>2
       DEF AccountInv, AccountTypeOK, NoSessionOutlives, ResetNeedsVerified, Live, There
<1>6. QED
  BY <1>3, <1>4, <1>5 DEF MintsNone

-----------------------------------------------------------------------------
(* Requests and replies *)

LEMMA AskedType ==
    ASSUME NEW path \in Paths, NEW form \in DOMAIN FormsOn \union {"none", "link"},
           NEW query \in Says, NEW sent \in Sessions \union {None}
    PROVE  /\ Asked(path, form, query, sent) \in Requests
           /\ Asked(path, form, query, sent).pc = "asked"
           /\ Asked(path, form, query, sent).path = path
           /\ Asked(path, form, query, sent).query = query
           /\ Asked(path, form, query, sent).sent = sent
BY DEF Asked, Requests

LEMMA ShowType ==
    ASSUME NEW page \in Paths \union {"unavailable", "failed"}, NEW says \in Says
    PROVE  /\ Show(page, says) \in Reply /\ ~Show(page, says).follow
           /\ Show(page, says).to.page = page /\ Show(page, says).to.says = says
           /\ Show(page, says).set = "keep"
BY DEF Show, Reply, Shown

LEMMA FollowType ==
    ASSUME NEW path \in Paths, NEW query \in Says
    PROVE  /\ Follow(path, query) \in Reply /\ Follow(path, query).follow
           /\ Follow(path, query).to.page = path /\ Follow(path, query).to.says = query
           /\ Follow(path, query).set = "keep"
<1>1. Show(path, query) \in Reply /\ Show(path, query).to.page = path
      /\ Show(path, query).to.says = query /\ Show(path, query).set = "keep"
  BY ShowType
<1>2. PICK r \in Reply : r = Show(path, query)
  BY <1>1
<1>3. Follow(path, query) = [r EXCEPT !.follow = TRUE]
  BY <1>2 DEF Follow
<1>4. QED
  BY <1>1, <1>2, <1>3 DEF Reply

LEMMA WithCookieType ==
    ASSUME NEW r \in Reply, NEW set \in {"keep", "clear"} \union Sessions
    PROVE  /\ WithCookie(r, set) \in Reply /\ (WithCookie(r, set).follow <=> r.follow)
           /\ WithCookie(r, set).to = r.to /\ WithCookie(r, set).set = set
BY DEF WithCookie, Reply

-----------------------------------------------------------------------------
(* The browser *)

\* A request carries the browser's cookie; it asks sign-in to say that a session
\* has ended only when the one of this cookie has.
AskInv ==
    ask.pc # "idle" =>
        /\ ask \in Requests /\ ask.sent = cookie
        /\ ask.path = "sign-in" /\ ask.query \in Paths => ~Live(cookie)

\* A redirect leads to a path, and a reply that says so leaves the cookie alone.
ReplyInv ==
    ask.pc = "replied" =>
        /\ ask.reply \in Reply
        /\ ask.reply.follow => ask.reply.to.page \in Paths
        /\ ask.reply.to.page = "sign-in" /\ ask.reply.to.says \in Paths =>
               ask.reply.set = "keep" /\ ~Live(cookie)

BrowserTypeOK ==
    cookie \in Sessions \union {None} /\ shown \in Shown /\ ask \in {Idle} \union Requests

PagesInv == AccountInv /\ BrowserTypeOK /\ AskInv /\ ReplyInv /\ ExpiredIsSignedOut

\* The account changed and the browser's session, if it had ended, stays ended.
StaysEnded == AccountInv' /\ (~Live(cookie) => ~Live(cookie)') /\ UNCHANGED cookie

LEMMA AskIsRequest ==
    ASSUME BrowserTypeOK
    PROVE  /\ ask.pc # "idle" <=> ask \in Requests
           /\ ask = Idle <=> ask.pc = "idle"
BY DEF BrowserTypeOK, Idle, Requests

\* The browser's own endpoints give a session that is not the browser's yet.
LEMMA EndpointStaysEnded ==
    ASSUME PagesInv, UNCHANGED cookie, MintsNone \/ \E s \in Fresh : Mints(s)
    PROVE  StaysEnded
<1>1. cookie \in Sessions \union {None} /\ AccountInv
  BY DEF PagesInv, BrowserTypeOK
<1>2. ASSUME NEW s \in Fresh, Mints(s)
      PROVE  StaysEnded
  <2>1. s \in Sessions /\ s # cookie
    BY DEF Fresh
  <2>2. QED
    BY <1>1, <1>2, <2>1, MintsKeeps DEF StaysEnded, Live
<1>3. CASE MintsNone
  BY <1>1, <1>3, MintsNoneKeeps DEF StaysEnded, Live
<1>4. QED
  BY <1>2, <1>3

\* Replies, and the lookup that answers none yet.
LEMMA ReplyKeeps ==
    ASSUME PagesInv, ask.pc # "idle", StaysEnded, UNCHANGED shown,
           NEW r \in Reply, Replies(r), r.follow => r.to.page \in Paths,
           r.to.page = "sign-in" /\ r.to.says \in Paths => r.set = "keep" /\ ~Live(cookie)
    PROVE  PagesInv'
<1>1. ask \in Requests /\ AskInv /\ BrowserTypeOK
  BY AskIsRequest DEF PagesInv
<1>2. ask' \in Requests /\ ask'.pc = "replied" /\ ask'.reply = r /\ ask'.sent = ask.sent
      /\ ask'.path = ask.path /\ ask'.query = ask.query
  BY <1>1 DEF Replies, Requests
<1>3. AskInv' /\ ReplyInv' /\ BrowserTypeOK'
  BY <1>1, <1>2 DEF AskInv, ReplyInv, BrowserTypeOK, StaysEnded
<1>4. ask' # Idle
  BY <1>2 DEF Idle
<1>5. QED
  BY <1>3, <1>4 DEF PagesInv, StaysEnded, ExpiredIsSignedOut

\* A page shown, or a path led to, that does not say a session has ended.
LEMMA PlainReplyKeeps ==
    ASSUME PagesInv, ask.pc # "idle", StaysEnded, UNCHANGED shown,
           NEW page \in Paths \union {"unavailable", "failed"}, NEW says \in Says,
           page = "sign-in" => says \notin Paths \/ ~Live(cookie),
           \/ Replies(Show(page, says))
           \/ page \in Paths /\ Replies(Follow(page, says))
           \/ /\ page # "sign-in" \/ says \notin Paths
              /\ \E set \in {"keep", "clear"} \union Sessions :
                    \/ Replies(WithCookie(Show(page, says), set))
                    \/ page \in Paths /\ Replies(WithCookie(Follow(page, says), set))
    PROVE  PagesInv'
<1>1. CASE Replies(Show(page, says))
  BY <1>1, ShowType, ReplyKeeps
<1>2. CASE page \in Paths /\ Replies(Follow(page, says))
  BY <1>2, FollowType, ReplyKeeps
<1>3. ASSUME page # "sign-in" \/ says \notin Paths,
             NEW set \in {"keep", "clear"} \union Sessions,
             \/ Replies(WithCookie(Show(page, says), set))
             \/ page \in Paths /\ Replies(WithCookie(Follow(page, says), set))
      PROVE  PagesInv'
  <2>1. CASE Replies(WithCookie(Show(page, says), set))
    <3>1. PICK r \in Reply : /\ r = Show(page, says) /\ (r.follow => page \in Paths)
                            /\ r.to.page = page /\ r.to.says = says
      BY <2>1, ShowType
    <3>2. PICK q \in Reply : /\ q = WithCookie(r, set) /\ (q.follow <=> r.follow) /\ q.to = r.to
      BY WithCookieType
    <3>3. q.to.page = page /\ q.to.says = says /\ (q.follow => page \in Paths)
      BY <3>1, <3>2
    <3>4. Replies(q) /\ ~(page = "sign-in" /\ says \in Paths)
      BY <1>3, <2>1, <3>1, <3>2
    <3>5. QED
      BY <3>3, <3>4, ReplyKeeps
  <2>2. CASE page \in Paths /\ Replies(WithCookie(Follow(page, says), set))
    <3>1. PICK r \in Reply : /\ r = Follow(page, says) /\ (r.follow => page \in Paths)
                            /\ r.to.page = page /\ r.to.says = says
      BY <2>2, FollowType
    <3>2. PICK q \in Reply : /\ q = WithCookie(r, set) /\ (q.follow <=> r.follow) /\ q.to = r.to
      BY WithCookieType
    <3>3. q.to.page = page /\ q.to.says = says /\ (q.follow => page \in Paths)
      BY <3>1, <3>2
    <3>4. Replies(q) /\ ~(page = "sign-in" /\ says \in Paths)
      BY <1>3, <2>2, <3>1, <3>2
    <3>5. QED
      BY <3>3, <3>4, ReplyKeeps
  <2>3. QED
    BY <1>3, <2>1, <2>2
<1>4. QED
  BY <1>1, <1>2, <1>3

\* A step of the person: a request goes out with the cookie.
LEMMA AskKeeps ==
    ASSUME PagesInv, UNCHANGED <<account, sess, reset, verify, cookie, shown>>,
           NEW path \in Paths, NEW form \in DOMAIN FormsOn \union {"none", "link"},
           NEW query \in Says, ask' = Asked(path, form, query, cookie),
           path = "sign-in" /\ query \in Paths => ~Live(cookie)
    PROVE  PagesInv'
<1>1. cookie \in Sessions \union {None}
  BY DEF PagesInv, BrowserTypeOK
<1>2. ask' \in Requests /\ ask'.pc = "asked" /\ ask'.path = path /\ ask'.query = query
      /\ ask'.sent = cookie
  BY <1>1, AskedType
<1>3. ask' # Idle
  BY <1>2 DEF Idle
<1>4. AccountInv'
  BY DEF PagesInv, AccountInv, AccountTypeOK, NoSessionOutlives, ResetNeedsVerified, Live, There
<1>5. AskInv' /\ ReplyInv' /\ BrowserTypeOK' /\ ExpiredIsSignedOut'
  BY <1>2, <1>3 DEF PagesInv, AskInv, ReplyInv, BrowserTypeOK, ExpiredIsSignedOut, Live
<1>6. QED
  BY <1>4, <1>5 DEF PagesInv

LEMMA VisitKeeps ==
    ASSUME PagesInv, NEW path \in Paths, Visit(path)
    PROVE  PagesInv'
<1>1. "nothing" \in Says /\ "nothing" \notin Paths
  BY DEF Says, Paths, PublicPaths
<1>2. QED
  BY <1>1, AskKeeps DEF Visit

\* Only the sign-in form passes on what its page says.
LEMMA SubmitKeeps ==
    ASSUME PagesInv, NEW form \in DOMAIN FormsOn, Submit(form)
    PROVE  PagesInv'
<1> DEFINE query == IF form = "sign_in" /\ shown.says \in Paths THEN shown.says ELSE "nothing"
<1>1. "nothing" \in Says /\ "nothing" \notin Paths /\ query \in Says
  BY DEF Says, Paths, PublicPaths
<1>2. ActionPath[form] \in Paths
  BY DEF ActionPath, FormsOn, Paths, PublicPaths
<1>3. query \in Paths => shown.page = "sign-in" /\ shown.says \in Paths
  BY <1>1 DEF Submit, FormsOn
<1>4. query \in Paths => ~Live(cookie)
  BY <1>3 DEF Submit, PagesInv, ExpiredIsSignedOut
<1>5. QED
  BY <1>1, <1>2, <1>4, AskKeeps DEF Submit

LEMMA OpenVerifyLinkKeeps ==
    ASSUME PagesInv, OpenVerifyLink
    PROVE  PagesInv'
<1>1. cookie \in Sessions \union {None} /\ "verify-email" \in Paths /\ "nothing" \in Says
  BY DEF PagesInv, BrowserTypeOK, Paths, PublicPaths, Says
<1>2. PICK r \in Requests : /\ r = Asked("verify-email", "link", "nothing", cookie)
                            /\ r.path = "verify-email" /\ r.sent = cookie
  BY <1>1, AskedType
<1>3. ask' = [r EXCEPT !.pc = "inside"]
  BY <1>2 DEF OpenVerifyLink
<1>4. ask' \in Requests /\ ask'.pc = "inside" /\ ask'.path = "verify-email" /\ ask'.sent = cookie
  BY <1>2, <1>3 DEF Requests
<1>5. ask' # Idle
  BY <1>4 DEF Idle
<1>6. AccountInv'
  BY DEF PagesInv, AccountInv, AccountTypeOK, NoSessionOutlives, ResetNeedsVerified, Live, There,
         OpenVerifyLink
<1>7. AskInv' /\ ReplyInv' /\ BrowserTypeOK' /\ ExpiredIsSignedOut'
  BY <1>4, <1>5
     DEF PagesInv, AskInv, ReplyInv, BrowserTypeOK, ExpiredIsSignedOut, Live, OpenVerifyLink
<1>8. QED
  BY <1>6, <1>7 DEF PagesInv

-----------------------------------------------------------------------------
(* The web server *)

\* A request that goes on, as it was asked.
LEMMA GoesOnKeeps ==
    ASSUME PagesInv, ask.pc # "idle", StaysEnded, UNCHANGED shown,
           NEW pc \in {"inside", "erasing"}, NEW who \in {"nobody", "unknown", "user", "verified"},
           ask' = [ask EXCEPT !.pc = pc, !.who = who] \/ ask' = [ask EXCEPT !.pc = pc]
    PROVE  PagesInv'
<1>1. ask \in Requests /\ AskInv /\ BrowserTypeOK
  BY AskIsRequest DEF PagesInv
<1>2. ask' \in Requests /\ ask'.pc = pc /\ ask'.sent = ask.sent
      /\ ask'.path = ask.path /\ ask'.query = ask.query
  BY <1>1 DEF Requests
<1>3. AskInv' /\ ReplyInv' /\ BrowserTypeOK'
  BY <1>1, <1>2 DEF AskInv, ReplyInv, BrowserTypeOK, StaysEnded
<1>4. ask' # Idle
  BY <1>2 DEF Idle
<1>5. QED
  BY <1>3, <1>4 DEF PagesInv, StaysEnded, ExpiredIsSignedOut

\* What a request that is not idle is known to carry.
LEMMA AskFacts ==
    ASSUME PagesInv, ask.pc # "idle"
    PROVE  /\ ask.path \in Paths /\ ask.query \in Says /\ ask.sent = cookie
           /\ ask.who \in {"nobody", "unknown", "user", "verified"}
           /\ cookie \in Sessions \union {None}
           /\ shown.page \in Paths \union {"unavailable", "failed"}
           /\ (ask.path = "sign-in" /\ ask.query \in Paths => ~Live(cookie))
           /\ Paths \subseteq Says
<1>1. ask \in Requests /\ AskInv /\ BrowserTypeOK
  BY AskIsRequest DEF PagesInv
<1>2. QED
  BY <1>1 DEF Requests, AskInv, BrowserTypeOK, Shown, Says

\* The words of a page that are no path.
LEMMA Words ==
    /\ {"nothing", "reset", "deleted", "sent", "changed", "refused"} \subseteq Says
    /\ {"nothing", "reset", "deleted", "sent", "changed", "refused"} \intersect Paths = {}
    /\ {"/", "sign-in", "forgot-password", "verify-email", "account", "boards"} \subseteq Paths
BY DEF Says, Paths, PublicPaths

LEMMA DestinationIsElsewhere ==
    ASSUME NEW query
    PROVE  Destination(query) \in Paths /\ Destination(query) # "sign-in"
BY Words DEF Destination

\* The notice's answer and the page of an error.
LEMMA NotSentKeeps ==
    ASSUME PagesInv, ask.pc # "idle", StaysEnded, UNCHANGED shown,
           Replies(NotSent) \/ Replies(Show(shown.page, "sent")) \/ Replies(Show("failed", "nothing"))
    PROVE  PagesInv'
<1>1. CASE Replies(NotSent)
  BY <1>1, AskFacts, Words, PlainReplyKeeps DEF NotSent
<1>2. CASE Replies(Show(shown.page, "sent"))
  BY <1>2, AskFacts, Words, PlainReplyKeeps
<1>3. CASE Replies(Show("failed", "nothing"))
  BY <1>3, Words, PlainReplyKeeps
<1>4. QED
  BY <1>1, <1>2, <1>3

\* Only somebody who is known to have no session is told to sign in.
LEMMA GuardKeeps ==
    ASSUME PagesInv, Guard
    PROVE  PagesInv'
<1>1. ask.pc # "idle" /\ StaysEnded /\ UNCHANGED shown
  BY EndpointStaysEnded DEF Guard, MintsNone, accountVars
<1>2. PICK who \in Lookup :
          IF Public(ask.path) \/ who \in {"user", "verified"}
          THEN ask' = [ask EXCEPT !.pc = "inside", !.who = who]
          ELSE Replies(IF ask.form = "resend" THEN NotSent ELSE TurnedAway(who))
  BY DEF Guard
<1>3. who \in {"nobody", "unknown", "user", "verified"} /\ (who = "nobody" => ~Live(cookie))
  BY <1>1, AskFacts DEF Lookup
<1>4. CASE ask' = [ask EXCEPT !.pc = "inside", !.who = who]
  BY <1>1, <1>3, <1>4, GoesOnKeeps
<1>5. CASE Replies(NotSent)
  BY <1>1, <1>5, NotSentKeeps
<1>6. CASE who \notin {"user", "verified"} /\ Replies(TurnedAway(who))
  <2>1. CASE who = "unknown"
    BY <1>1, <1>6, <2>1, Words, PlainReplyKeeps DEF TurnedAway
  <2>2. CASE who = "nobody"
    BY <1>1, <1>3, <1>6, <2>2, AskFacts, Words, PlainReplyKeeps DEF TurnedAway
  <2>3. QED
    BY <1>3, <1>6, <2>1, <2>2
<1>7. QED
  BY <1>2, <1>4, <1>5, <1>6

LEMMA LoadKeeps ==
    ASSUME PagesInv, Load
    PROVE  PagesInv'
<1>1. ask.pc # "idle" /\ StaysEnded /\ UNCHANGED shown /\ Replies(Loaded)
  BY EndpointStaysEnded DEF Load, MintsNone, accountVars
<1>2. \/ Loaded = Follow("boards", "nothing")
      \/ Loaded = Follow(Destination(ask.query), "nothing")
      \/ Loaded = Follow("sign-in", "nothing")
      \/ Loaded = Follow("sign-in", "boards") /\ ~Live(ask.sent)
      \/ Loaded = Show(ask.path, ask.query)
  BY DEF Loaded
<1>3. QED
  BY <1>1, <1>2, AskFacts, Words, DestinationIsElsewhere, PlainReplyKeeps

\* The actions that may give the browser a session.
LEMMA SessionFormKeeps ==
    ASSUME PagesInv, UNCHANGED <<cookie, shown>>, NEW s \in Fresh,
           SignInForm(s) \/ SignUpForm(s) \/ ChangeForm(s) \/ VerifyLink(s)
    PROVE  PagesInv'
<1>1. ask.pc # "idle" /\ s \in Sessions
  BY DEF SignInForm, SignUpForm, ChangeForm, VerifyLink, Calls, Fresh
<1>2. Mints(s)
  BY <1>1, AskFacts DEF SignInForm, SignUpForm, ChangeForm, VerifyLink, Mints
<1>3. StaysEnded
  BY <1>2, EndpointStaysEnded
<1>4. \/ Replies(WithCookie(Follow(Destination(ask.query), "nothing"), s))
      \/ Replies(WithCookie(Follow("boards", "nothing"), s))
      \/ Replies(WithCookie(Show("account", "changed"), s))
      \/ Replies(WithCookie(Follow("verify-email", "nothing"), s))
      \/ Replies(Show("failed", "nothing"))
  BY DEF SignInForm, SignUpForm, ChangeForm, VerifyLink, Answers
<1>5. QED
  BY <1>1, <1>3, <1>4, Words, DestinationIsElsewhere, PlainReplyKeeps

\* The others.
LEMMA PlainFormKeeps ==
    ASSUME PagesInv, UNCHANGED <<cookie, shown>>,
           SignOutForm \/ ForgotForm \/ ResetForm \/ ResendForm \/ SpentLink
    PROVE  PagesInv'
<1>1. ask.pc # "idle"
  BY DEF SignOutForm, ForgotForm, ResetForm, ResendForm, SpentLink, Calls
<1>2. MintsNone
  BY <1>1, AskFacts DEF SignOutForm, ForgotForm, ResetForm, ResendForm, SpentLink, MintsNone
<1>3. StaysEnded
  BY <1>2, EndpointStaysEnded
<1>4. CASE SignOutForm
  <2>1. \/ Replies(WithCookie(Follow("sign-in", "nothing"), "clear"))
        \/ Replies(Follow("sign-in", "nothing")) \/ Replies(Show("failed", "nothing"))
    BY <1>4 DEF SignOutForm, Answers
  <2>2. QED
    BY <1>1, <1>3, <2>1, Words, PlainReplyKeeps
<1>5. CASE ForgotForm \/ ResetForm \/ SpentLink
  <2>1. \/ Replies(Show("forgot-password", "sent")) \/ Replies(Follow("sign-in", "reset"))
        \/ Replies(Follow("verify-email", "nothing")) \/ Replies(Show("failed", "nothing"))
    BY <1>5 DEF ForgotForm, ResetForm, SpentLink, Answers
  <2>2. QED
    BY <1>1, <1>3, <2>1, Words, PlainReplyKeeps
<1>6. CASE ResendForm
  BY <1>1, <1>3, <1>6, NotSentKeeps DEF ResendForm
<1>7. QED
  BY <1>4, <1>5, <1>6

LEMMA RefusesKeeps ==
    ASSUME PagesInv, UNCHANGED <<cookie, shown>>, NEW form \in DOMAIN FormsOn, Refuses(form)
    PROVE  PagesInv'
<1>1. ask.pc # "idle" /\ StaysEnded
  BY EndpointStaysEnded DEF Refuses, Calls, MintsNone
<1>2. CASE Replies(NotSent)
  BY <1>1, <1>2, NotSentKeeps
<1>3. CASE Replies(Show(ask.path, IF ask.query \in Paths THEN ask.query ELSE "refused"))
  BY <1>1, <1>3, AskFacts, Words, PlainReplyKeeps
<1>4. QED
  BY <1>2, <1>3 DEF Refuses

\* The session goes first, the account with the next step.
LEMMA DeleteFormKeeps ==
    ASSUME PagesInv, UNCHANGED <<cookie, shown>>, DeleteForm \/ Erase
    PROVE  PagesInv'
<1>1. ask.pc # "idle"
  BY DEF DeleteForm, Erase, Calls
<1>2. MintsNone
  BY <1>1, AskFacts DEF DeleteForm, Erase, MintsNone
<1>3. StaysEnded
  BY <1>2, EndpointStaysEnded
<1>4. CASE ask' = [ask EXCEPT !.pc = "erasing"]
  BY <1>1, <1>3, <1>4, GoesOnKeeps
<1>5. CASE \/ Replies(Follow("/", "deleted")) \/ Replies(Show("failed", "nothing"))
           \/ Replies(WithCookie(Follow("/", "deleted"), "clear"))
           \/ Replies(Show("account", "refused"))
  BY <1>1, <1>3, <1>5, Words, PlainReplyKeeps
<1>6. QED
  BY <1>4, <1>5 DEF DeleteForm, Erase, Answers

-----------------------------------------------------------------------------
(* The browser's answer, and the other browser *)

LEMMA ArriveKeeps ==
    ASSUME PagesInv, Arrive
    PROVE  PagesInv'
<1> DEFINE r == ask.reply
<1>1. /\ r \in Reply /\ (r.follow => r.to.page \in Paths) /\ cookie \in Sessions \union {None}
      /\ r.to.page = "sign-in" /\ r.to.says \in Paths => r.set = "keep" /\ ~Live(cookie)
  BY DEF PagesInv, ReplyInv, BrowserTypeOK, Arrive
<1>2. r.to \in Shown /\ r.to.says \in Says /\ r.set \in {"keep", "clear"} \union Sessions
  BY <1>1 DEF Reply, Shown
<1>3. cookie' \in Sessions \union {None} /\ (r.set = "keep" => cookie' = cookie)
      /\ UNCHANGED <<account, sess, reset, verify>>
  BY <1>1, <1>2 DEF Arrive, Jar, accountVars
<1>4. AccountInv' /\ (r.to.page = "sign-in" /\ r.to.says \in Paths => ~Live(cookie)')
  BY <1>1, <1>3
     DEF PagesInv, AccountInv, AccountTypeOK, NoSessionOutlives, ResetNeedsVerified, Live, There
<1>5. CASE r.follow
  <2>1. ask' = Asked(r.to.page, "none", r.to.says, cookie') /\ UNCHANGED shown
    BY <1>5 DEF Arrive
  <2>2. ask' \in Requests /\ ask'.pc = "asked" /\ ask'.path = r.to.page
        /\ ask'.query = r.to.says /\ ask'.sent = cookie'
    <3>1. PICK path \in Paths, says \in Says, jar \in Sessions \union {None} :
              path = r.to.page /\ says = r.to.says /\ jar = cookie'
      BY <1>1, <1>2, <1>3, <1>5
    <3>2. ask' = Asked(path, "none", says, jar)
      BY <2>1, <3>1
    <3>3. PICK a \in Requests : /\ a = Asked(path, "none", says, jar) /\ a.pc = "asked"
                               /\ a.path = path /\ a.query = says /\ a.sent = jar
      BY AskedType
    <3>4. QED
      BY <3>1, <3>2, <3>3
  <2>3. ask' # Idle
    BY <2>2 DEF Idle
  <2>4. QED
    BY <1>3, <1>4, <2>1, <2>2, <2>3
       DEF PagesInv, AskInv, ReplyInv, BrowserTypeOK, ExpiredIsSignedOut
<1>6. CASE ~r.follow
  <2>1. ask' = Idle /\ shown' = r.to /\ Idle.pc = "idle"
    BY <1>6 DEF Arrive, Idle
  <2>2. QED
    BY <1>2, <1>3, <1>4, <2>1 DEF PagesInv, AskInv, ReplyInv, BrowserTypeOK, ExpiredIsSignedOut
<1>7. QED
  BY <1>5, <1>6

LEMMA OthersKeeps ==
    ASSUME PagesInv, Others
    PROVE  PagesInv'
<1>1. UNCHANGED <<cookie, shown, ask>>
  BY DEF Others, browserVars
<1>2. MintsNone \/ \E s \in Fresh : Mints(s)
  BY DEF Others, Elsewhere, MintsNone, Mints
<1>3. StaysEnded
  BY <1>1, <1>2, EndpointStaysEnded
<1>4. AskInv' /\ ReplyInv' /\ BrowserTypeOK' /\ ExpiredIsSignedOut'
  BY <1>1, <1>3 DEF PagesInv, AskInv, ReplyInv, BrowserTypeOK, ExpiredIsSignedOut, StaysEnded
<1>5. QED
  BY <1>3, <1>4 DEF PagesInv, StaysEnded

-----------------------------------------------------------------------------
(* Every step *)

LEMMA PagesInitInv == Init => PagesInv
<1> SUFFICES ASSUME Init
             PROVE  PagesInv
  OBVIOUS
<1>1. AccountInv
  BY DEF Init, AccountInit, AccountInv, AccountTypeOK, NoSessionOutlives, ResetNeedsVerified, Live
<1>2. Idle.pc = "idle" /\ shown \in Shown /\ shown.page = "/"
  BY Words DEF Init, Idle, Shown
<1>3. QED
  BY <1>1, <1>2 DEF Init, PagesInv, BrowserTypeOK, AskInv, ReplyInv, ExpiredIsSignedOut

LEMMA PagesNextInv == PagesInv /\ [Next]_vars => PagesInv'
<1> SUFFICES ASSUME PagesInv, [Next]_vars
             PROVE  PagesInv'
  OBVIOUS
<1>1. CASE Person
  BY <1>1, VisitKeeps, SubmitKeeps, OpenVerifyLinkKeeps DEF Person
<1>2. CASE Web
  <2>1. CASE Guard \/ Load
    BY <2>1, GuardKeeps, LoadKeeps
  <2>2. CASE Act /\ UNCHANGED <<cookie, shown>>
    BY <2>2, RefusesKeeps, PlainFormKeeps, DeleteFormKeeps, SessionFormKeeps DEF Act
  <2>3. QED
    BY <1>2, <2>1, <2>2 DEF Web
<1>3. CASE Arrive
  BY <1>3, ArriveKeeps
<1>4. CASE Others
  BY <1>4, OthersKeeps
<1>5. CASE UNCHANGED vars
  BY <1>5 DEF vars, PagesInv, AccountInv, AccountTypeOK, NoSessionOutlives, ResetNeedsVerified,
      Live, There, AskInv, ReplyInv, BrowserTypeOK, ExpiredIsSignedOut
<1>6. QED
  BY <1>1, <1>2, <1>3, <1>4, <1>5 DEF Next

\* No session survives the password it was made under or its account, and no
\* reset link opens an account that has not verified its address, however many
\* sessions there are and whoever ends them.
THEOREM CredentialsEnd == Spec => []AccountsSound
<1>1. PagesInv => AccountsSound
  BY DEF PagesInv, AccountInv, BrowserTypeOK, AccountsSound, TypeOK
<1>2. QED
  BY <1>1, PagesInitInv, PagesNextInv, PTL DEF Spec

\* The page that says "your session expired" is never in front of somebody whose
\* session lives: the lookup found none, and no other browser brings it back.
THEOREM ExpiredMeansEnded == Spec => []ExpiredIsSignedOut
<1>1. PagesInv => ExpiredIsSignedOut
  BY DEF PagesInv
<1>2. QED
  BY <1>1, PagesInitInv, PagesNextInv, PTL DEF Spec

-----------------------------------------------------------------------------
(* No chain of redirects goes round *)

\* The most redirects that a request for a page may lead to: for somebody with
\* a session, which may end on the way, and for somebody without one.
HopsFrom(path) ==
    CASE path \in {"account", "boards"} -> 1
      [] path \in {"/", "sign-up", "resend-verification"} -> 2
      [] path = "sign-out" -> 3
      [] OTHER -> 0

HopsInside(path, query) ==
    IF path = "sign-in" THEN HopsFrom(Destination(query)) + 1 ELSE HopsFrom(path)

HopsOutside(path) ==
    CASE path \in {"account", "boards", "sign-out"} -> 1
      [] path = "resend-verification" -> 2
      [] OTHER -> 0

Hops(path, query, in) == IF in THEN HopsInside(path, query) ELSE HopsOutside(path)

\* Whoever had a session when the guard asked is still sent to the pages behind it.
TakenIn == Live(ask.sent) \/ (ask.pc = "inside" /\ SignedIn)

MaxHops == 4

\* A form's answer may lead anywhere.
HopsLeft == IF ask.form = "none" THEN Hops(ask.path, ask.query, TakenIn) ELSE MaxHops + 1

\* Four steps to a request at most: guard, load or action, erasing, arrival.
StepsAfter(reply, jar) ==
    IF reply.follow THEN 4 * Hops(reply.to.page, reply.to.says, Live(jar)) + 5 ELSE 1

StepsLeft ==
    CASE ask.pc = "asked"   -> 4 * HopsLeft + 4
      [] ask.pc = "inside"  -> 4 * HopsLeft + 3
      [] ask.pc = "erasing" -> 4 * MaxHops + 6
      [] ask.pc = "replied" -> StepsAfter(ask.reply, Jar(ask.reply.set))
      [] OTHER -> 0

LongestVisit == 4 * MaxHops + 8

\* A visit or a form is over within LongestVisit steps of the web server and the browser:
\* each of them leaves fewer to go, and nothing that happens to the session meanwhile
\* adds one (hooks.server.ts, lib/server/auth.ts, the routes' redirects).
VisitsShorten ==
    [][ask # Idle => IF ask' = ask THEN StepsLeft' <= StepsLeft ELSE StepsLeft' < StepsLeft]_vars

LEMMA HopsFromIs == ASSUME NEW path PROVE HopsFrom(path) \in 0 .. 3
BY DEF HopsFrom

LEMMA HopsOutsideIs ==
    ASSUME NEW path PROVE HopsOutside(path) \in 0 .. 2
BY DEF HopsOutside

LEMMA HopsInsideIs ==
    ASSUME NEW path, NEW query
    PROVE  HopsInside(path, query) \in 0 .. MaxHops /\ HopsOutside(path) <= HopsInside(path, query)
<1>1. CASE path = "sign-in"
  <2>1. HopsOutside(path) = 0
    BY <1>1 DEF HopsOutside
  <2> DEFINE h == HopsFrom(Destination(query))
  <2>2. h \in 0 .. 3
    BY HopsFromIs
  <2>3. HopsInside(path, query) = h + 1
    BY <1>1 DEF HopsInside
  <2> HIDE DEF h
  <2> QED
    BY <2>1, <2>2, <2>3 DEF MaxHops
<1>2. CASE path # "sign-in"
  <2>1. HopsInside(path, query) = HopsFrom(path)
    BY <1>2 DEF HopsInside
  <2>2. HopsFrom(path) \in 0 .. 3 /\ HopsOutside(path) <= HopsFrom(path)
    BY DEF HopsFrom, HopsOutside
  <2> QED
    BY <2>1, <2>2 DEF MaxHops
<1> QED
  BY <1>1, <1>2

LEMMA HopsIs ==
    ASSUME NEW path, NEW query, NEW in \in BOOLEAN
    PROVE  /\ Hops(path, query, in) \in 0 .. MaxHops
           /\ Hops(path, query, in) <= Hops(path, query, TRUE)
           /\ Hops(path, query, FALSE) <= Hops(path, query, in)
<1> USE HopsInsideIs, HopsOutsideIs DEF MaxHops
<1>1. CASE in
  BY <1>1 DEF Hops
<1>2. CASE ~in
  BY <1>2 DEF Hops
<1> QED
  BY <1>1, <1>2

\* Steps to go, phase by phase.
LEMMA StepsAre ==
    ASSUME BrowserTypeOK
    PROVE  /\ ask.pc = "asked" => StepsLeft = 4 * HopsLeft + 4
           /\ ask.pc = "inside" => StepsLeft = 4 * HopsLeft + 3
           /\ ask.pc = "erasing" => StepsLeft = 4 * MaxHops + 6
           /\ ask.pc = "replied" => StepsLeft = StepsAfter(ask.reply, Jar(ask.reply.set))
           /\ ask.pc = "idle" => StepsLeft = 0
           /\ HopsLeft \in 0 .. MaxHops + 1
<1>1. TakenIn \in BOOLEAN
  BY DEF TakenIn, Live, SignedIn
<1>2. Hops(ask.path, ask.query, TakenIn) \in 0 .. MaxHops
  BY <1>1, HopsIs
<1>3. HopsLeft \in 0 .. MaxHops + 1
  BY <1>2 DEF HopsLeft, MaxHops
<1> QED
  BY <1>3 DEF StepsLeft

LEMMA StepsAfterIs ==
    ASSUME NEW r, NEW jar
    PROVE  /\ StepsAfter(r, jar) \in 1 .. 4 * MaxHops + 5
           /\ ~r.follow => StepsAfter(r, jar) = 1
           /\ r.follow => StepsAfter(r, jar) = 4 * Hops(r.to.page, r.to.says, Live(jar)) + 5
<1> DEFINE h == Hops(r.to.page, r.to.says, Live(jar))
<1>1. h \in 0 .. MaxHops
  <2>1. Live(jar) \in BOOLEAN
    BY DEF Live
  <2> QED
    BY <2>1, HopsIs
<1>2. StepsAfter(r, jar) = IF r.follow THEN 4 * h + 5 ELSE 1
  BY DEF StepsAfter
<1> HIDE DEF h
<1>3. StepsAfter(r, jar) \in 1 .. 4 * MaxHops + 5
  BY <1>1, <1>2 DEF MaxHops
<1> QED
  BY <1>2, <1>3 DEF h

LEMMA StepsBounded == PagesInv => StepsLeft \in 0 .. LongestVisit
<1> SUFFICES ASSUME PagesInv PROVE StepsLeft \in 0 .. LongestVisit
  OBVIOUS
<1>1. BrowserTypeOK /\ ask.pc \in {"idle", "asked", "inside", "erasing", "replied"}
  BY DEF PagesInv, BrowserTypeOK, Idle, Requests
<1>2. HopsLeft \in 0 .. MaxHops + 1
  BY <1>1, StepsAre
<1>3. StepsAfter(ask.reply, Jar(ask.reply.set)) \in 1 .. 4 * MaxHops + 5
  BY StepsAfterIs
<1>4. \E n \in 0 .. MaxHops + 1, k \in 1 .. 4 * MaxHops + 5 :
        StepsLeft \in {0, 4 * n + 4, 4 * n + 3, 4 * MaxHops + 6, k}
  BY <1>1, <1>2, <1>3, StepsAre
<1> QED
  BY <1>4 DEF MaxHops, LongestVisit

LEMMA StepsBoundedNext == PagesInv' => (StepsLeft \in 0 .. LongestVisit)'
BY StepsBounded, PTL

\* A reply ends the request, or redirects it with a hop less to go.
LEMMA ReplyShortens ==
    ASSUME PagesInv, ask.pc \in {"asked", "inside", "erasing"}, UNCHANGED cookie,
           NEW r \in Reply, Replies(r),
           ask.pc # "erasing" /\ r.follow =>
               Hops(r.to.page, r.to.says, Live(Jar(r.set))') + 1 <= HopsLeft
    PROVE  StepsLeft' < StepsLeft
<1>1. BrowserTypeOK /\ ask \in Requests
  BY AskIsRequest DEF PagesInv
<1>2. ask'.pc = "replied" /\ ask'.reply = r
  BY <1>1 DEF Replies, Requests
<1> DEFINE h == Hops(r.to.page, r.to.says, Live(Jar(r.set))')
<1>3. StepsLeft' = IF r.follow THEN 4 * h + 5 ELSE 1
  BY <1>2 DEF StepsLeft, StepsAfter
<1>4. h \in 0 .. MaxHops
  <2>1. Live(Jar(r.set))' \in BOOLEAN
    BY DEF Live
  <2> QED
    BY <2>1, HopsIs
<1>5. StepsLeft >= 4 * HopsLeft + 3 \/ (ask.pc = "erasing" /\ StepsLeft = 4 * MaxHops + 6)
  BY <1>1, StepsAre
<1>6. HopsLeft \in 0 .. MaxHops + 1
  BY <1>1, StepsAre
<1>7. StepsLeft \in Nat
  BY StepsBounded DEF LongestVisit, MaxHops
<1>8. ask.pc # "erasing" /\ r.follow => h + 1 <= HopsLeft
  OBVIOUS
<1>9. ask.pc # "erasing" => StepsLeft >= 4 * HopsLeft + 3
  BY <1>1, <1>6, StepsAre
<1> HIDE DEF h
<1>10. CASE ~r.follow
  <2>1. StepsLeft >= 3
    BY <1>5, <1>6, <1>7 DEF MaxHops
  <2> QED
    BY <1>3, <1>7, <1>10, <2>1
<1>11. CASE r.follow /\ ask.pc = "erasing"
  BY <1>1, <1>3, <1>4, <1>11, StepsAre DEF MaxHops
<1>12. CASE r.follow /\ ask.pc # "erasing"
  <2>1. StepsLeft' = 4 * h + 5
    BY <1>3, <1>12
  <2> QED
    BY <1>4, <1>6, <1>7, <1>8, <1>9, <1>12, <2>1 DEF MaxHops
<1> QED
  BY <1>10, <1>11, <1>12

\* A page shown ends it.
LEMMA ShowShortens ==
    ASSUME PagesInv, ask.pc \in {"asked", "inside", "erasing"}, UNCHANGED cookie,
           NEW page \in Paths \union {"unavailable", "failed"}, NEW says \in Says,
           Replies(Show(page, says))
    PROVE  StepsLeft' < StepsLeft
BY ShowType, ReplyShortens

\* Whatever a form's action answers, it answers a form.
LEMMA FormShortens ==
    ASSUME PagesInv, ask.pc = "erasing" \/ (ask.pc = "inside" /\ ask.form # "none"),
           UNCHANGED cookie, NEW r \in Reply, Replies(r)
    PROVE  StepsLeft' < StepsLeft
<1>1. ask.pc # "erasing" => HopsLeft = MaxHops + 1
  BY DEF HopsLeft
<1>2. Hops(r.to.page, r.to.says, Live(Jar(r.set))') \in 0 .. MaxHops
  <2>1. Live(Jar(r.set))' \in BOOLEAN
    BY DEF Live
  <2> QED
    BY <2>1, HopsIs
<1>3. ask.pc # "erasing" =>
        Hops(r.to.page, r.to.says, Live(Jar(r.set))') + 1 <= HopsLeft
  BY <1>1, <1>2 DEF MaxHops
<1> QED
  BY <1>3, ReplyShortens

LEMMA GuardShortens == ASSUME PagesInv, Guard PROVE StepsLeft' < StepsLeft
<1>1. /\ ask \in Requests /\ ask.pc = "asked" /\ BrowserTypeOK
      /\ UNCHANGED <<account, sess, reset, verify, cookie, shown>>
  BY AskIsRequest DEF Guard, PagesInv
<1>2. PICK who \in Lookup :
          IF Public(ask.path) \/ who \in {"user", "verified"}
          THEN ask' = [ask EXCEPT !.pc = "inside", !.who = who]
          ELSE Replies(IF ask.form = "resend" THEN NotSent ELSE TurnedAway(who))
  BY DEF Guard
<1>3. /\ who \in {"user", "verified"} => Live(ask.sent)
      /\ who = "nobody" => ~Live(ask.sent)
      /\ who \in {"nobody", "unknown", "user", "verified"}
  BY DEF Lookup
<1>4. CASE ask' = [ask EXCEPT !.pc = "inside", !.who = who]
  <2>1. /\ ask'.pc = "inside" /\ ask'.who = who /\ ask'.path = ask.path
        /\ ask'.query = ask.query /\ ask'.sent = ask.sent /\ ask'.form = ask.form
    BY <1>1, <1>4 DEF Requests
  <2>2. TakenIn' <=> TakenIn
    BY <1>1, <1>3, <2>1 DEF TakenIn, SignedIn, Live
  <2>3. HopsLeft' = HopsLeft
    <3>1. Hops(ask.path, ask.query, TakenIn') = Hops(ask.path, ask.query, TakenIn)
      BY <2>2 DEF Hops
    <3> QED
      BY <2>1, <3>1 DEF HopsLeft
  <2>4. StepsLeft' = 4 * HopsLeft' + 3
    BY <2>1 DEF StepsLeft
  <2>5. StepsLeft = 4 * HopsLeft + 4 /\ HopsLeft \in 0 .. MaxHops + 1
    BY <1>1, StepsAre
  <2> QED
    BY <2>3, <2>4, <2>5 DEF MaxHops
<1>5. CASE Replies(NotSent)
  BY <1>1, <1>5, AskFacts, Words, ShowShortens DEF NotSent
<1>6. CASE ~Public(ask.path) /\ who \notin {"user", "verified"} /\ Replies(TurnedAway(who))
  <2>1. CASE who = "unknown"
    BY <1>1, <1>6, <2>1, Words, ShowShortens DEF TurnedAway
  <2>2. CASE who = "nobody"
    <3>1. PICK r \in Reply : /\ r = Follow("sign-in", ask.path) /\ r.follow
                            /\ r.to.page = "sign-in" /\ r.to.says = ask.path /\ r.set = "keep"
      BY <1>1, AskFacts, Words, FollowType
    <3>2. Replies(r)
      BY <1>6, <2>2, <3>1 DEF TurnedAway
    <3>3. ~Live(Jar(r.set))'
      BY <1>1, <1>3, <2>2, <3>1, AskFacts DEF Jar, Live
    <3>4. Hops(r.to.page, r.to.says, Live(Jar(r.set))') = 0
      BY <3>1, <3>3 DEF Hops, HopsOutside
    <3>5. HopsLeft >= 1
      <4>1. ~TakenIn
        BY <1>1, <1>3, <2>2 DEF TakenIn
      <4>2. ask.path \in {"account", "boards", "resend-verification"}
        BY <1>1, <1>6, AskFacts DEF Public, Paths
      <4> QED
        BY <4>1, <4>2 DEF HopsLeft, Hops, HopsOutside, MaxHops
    <3> QED
      BY <1>1, <3>1, <3>2, <3>4, <3>5, StepsAre, ReplyShortens DEF MaxHops
  <2> QED
    BY <1>3, <1>6, <2>1, <2>2
<1> QED
  BY <1>2, <1>4, <1>5, <1>6

LEMMA LoadShortens == ASSUME PagesInv, Load PROVE StepsLeft' < StepsLeft
<1>1. /\ ask \in Requests /\ ask.pc = "inside" /\ ask.form = "none" /\ BrowserTypeOK
      /\ UNCHANGED <<account, sess, reset, verify, cookie, shown>> /\ Replies(Loaded)
      /\ ask.sent = cookie
  BY AskIsRequest, AskFacts DEF Load, PagesInv
<1> DEFINE in == Live(cookie)
<1>2. TakenIn <=> in \/ SignedIn
  BY <1>1 DEF TakenIn
<1>3. HopsLeft = Hops(ask.path, ask.query, TakenIn)
  BY <1>1 DEF HopsLeft
<1>4. \A page \in Paths, says \in Says :
        Hops(page, says, in) + 1 <= HopsLeft /\ Replies(Follow(page, says)) => StepsLeft' < StepsLeft
  <2> SUFFICES ASSUME NEW page \in Paths, NEW says \in Says,
                      Hops(page, says, in) + 1 <= HopsLeft, Replies(Follow(page, says))
               PROVE  StepsLeft' < StepsLeft
    OBVIOUS
  <2>1. PICK r \in Reply : /\ r = Follow(page, says) /\ r.follow
                          /\ r.to.page = page /\ r.to.says = says /\ r.set = "keep"
    BY FollowType
  <2>2. Live(Jar(r.set))' <=> in
    BY <1>1, <2>1 DEF Jar, Live
  <2>3. Hops(page, says, Live(Jar(r.set))') = Hops(page, says, in)
    BY <2>2 DEF Hops
  <2> QED
    BY <1>1, <2>1, <2>3, ReplyShortens
<1>5. CASE ask.path \in {"/", "sign-up"} /\ SignedIn
  <2>1. Loaded = Follow("boards", "nothing")
    BY <1>5 DEF Loaded
  <2>2. HopsLeft = 2
    BY <1>2, <1>3, <1>5 DEF Hops, HopsInside, HopsFrom
  <2>3. Hops("boards", "nothing", in) = 1
    BY DEF Hops, HopsInside, HopsFrom, HopsOutside
  <2> QED
    BY <1>1, <1>4, <2>1, <2>2, <2>3, Words
<1>6. CASE ask.path = "sign-in" /\ SignedIn
  <2> DEFINE d == Destination(ask.query)
  <2>1. Loaded = Follow(d, "nothing")
    BY <1>6 DEF Loaded
  <2>2. d \in Paths /\ d # "sign-in"
    BY DestinationIsElsewhere
  <2>3. HopsLeft = HopsFrom(d) + 1
    BY <1>2, <1>3, <1>6 DEF Hops, HopsInside
  <2>4. Hops(d, "nothing", TRUE) = HopsFrom(d)
    BY <2>2 DEF Hops, HopsInside
  <2>5. in \in BOOLEAN
    BY DEF Live
  <2>6. /\ Hops(d, "nothing", in) <= Hops(d, "nothing", TRUE)
        /\ Hops(d, "nothing", in) \in 0 .. MaxHops
    BY <2>5, HopsIs
  <2>7. HopsFrom(d) \in 0 .. 3
    BY HopsFromIs
  <2>8. PICK h \in 0 .. MaxHops, k \in 0 .. 3 : h = Hops(d, "nothing", in) /\ k = HopsFrom(d)
    BY <2>6, <2>7
  <2>9. h <= k /\ HopsLeft = k + 1
    BY <2>3, <2>4, <2>6, <2>8
  <2>10. Hops(d, "nothing", in) + 1 <= HopsLeft
    BY <2>8, <2>9
  <2> QED
    BY <1>1, <1>4, <2>1, <2>2, <2>10, Words
<1>7. CASE ask.path = "sign-out"
  <2>1. Loaded = Follow("sign-in", "nothing")
    BY <1>7 DEF Loaded
  <2>2. in => Hops("sign-in", "nothing", in) = 2
    BY Words DEF Hops, HopsInside, HopsFrom, Destination
  <2>3. ~in => Hops("sign-in", "nothing", in) = 0
    BY DEF Hops, HopsOutside
  <2>4. in => HopsLeft = 3
    BY <1>2, <1>3, <1>7 DEF Hops, HopsInside, HopsFrom
  <2>5. HopsLeft >= 1
    BY <1>3, <1>7 DEF Hops, HopsInside, HopsFrom, HopsOutside
  <2>6. HopsLeft \in 0 .. MaxHops + 1
    BY <1>1, StepsAre
  <2>7. Hops("sign-in", "nothing", in) + 1 <= HopsLeft
    BY <2>2, <2>3, <2>4, <2>5, <2>6 DEF MaxHops
  <2> QED
    BY <1>1, <1>4, <2>1, <2>7, Words
<1>8. CASE ask.path = "resend-verification"
  <2>1. Loaded = Follow("boards", "nothing")
    BY <1>8 DEF Loaded
  <2>2. Hops("boards", "nothing", in) = 1
    BY DEF Hops, HopsInside, HopsFrom, HopsOutside
  <2>3. HopsLeft = 2
    BY <1>3, <1>8 DEF Hops, HopsInside, HopsFrom, HopsOutside
  <2> QED
    BY <1>1, <1>4, <2>1, <2>2, <2>3, Words
<1>9. CASE ask.path = "boards" /\ ~in
  <2>1. Loaded = Follow("sign-in", "boards")
    BY <1>1, <1>9 DEF Loaded
  <2>2. Hops("sign-in", "boards", in) = 0
    BY <1>9 DEF Hops, HopsOutside
  <2>3. HopsLeft = 1
    BY <1>3, <1>9 DEF Hops, HopsInside, HopsFrom, HopsOutside
  <2> QED
    BY <1>1, <1>4, <2>1, <2>2, <2>3, AskFacts, Words
<1>10. CASE Loaded = Show(ask.path, ask.query)
  BY <1>1, <1>10, AskFacts, ShowShortens
<1>11. \/ ask.path \in {"/", "sign-up"} /\ SignedIn
       \/ ask.path = "sign-in" /\ SignedIn
       \/ ask.path \in {"sign-out", "resend-verification"}
       \/ ask.path = "boards" /\ ~in
       \/ Loaded = Show(ask.path, ask.query)
  BY <1>1 DEF Loaded
<1> QED
  BY <1>5, <1>6, <1>7, <1>8, <1>9, <1>10, <1>11

\* The words and paths that forms answer with.
LEMMA AnswersAreReplies ==
    ASSUME NEW path \in Paths, NEW says \in Says, NEW set \in {"clear"} \union Sessions
    PROVE  /\ Show(path, says) \in Reply /\ Follow(path, says) \in Reply
           /\ WithCookie(Show(path, says), set) \in Reply
           /\ WithCookie(Follow(path, says), set) \in Reply
<1>1. Show(path, says) \in Reply /\ Follow(path, says) \in Reply
  BY ShowType, FollowType
<1> QED
  BY <1>1, WithCookieType

LEMMA ActShortens ==
    ASSUME PagesInv, Act, UNCHANGED cookie
    PROVE  StepsLeft' < StepsLeft
<1> DEFINE onForm == ask.pc = "erasing" \/ (ask.pc = "inside" /\ ask.form # "none")
<1>1. ASSUME ask.pc # "idle", onForm, \E r \in Reply : Replies(r)
      PROVE  StepsLeft' < StepsLeft
  BY <1>1, FormShortens
<1>2. "none" \notin DOMAIN FormsOn
  BY DEF FormsOn
<1>3. ASSUME NEW form \in DOMAIN FormsOn, Refuses(form)
      PROVE  StepsLeft' < StepsLeft
  <2>1. ask.pc = "inside" /\ ask.form # "none"
    BY <1>2, <1>3 DEF Refuses, Calls
  <2>2. \/ Replies(NotSent)
        \/ Replies(Show(ask.path, IF ask.query \in Paths THEN ask.query ELSE "refused"))
    BY <1>3 DEF Refuses
  <2>3. NotSent \in Reply
    BY <2>1, AskFacts, Words, ShowType DEF NotSent
  <2>4. Show(ask.path, IF ask.query \in Paths THEN ask.query ELSE "refused") \in Reply
    BY <2>1, AskFacts, Words, ShowType
  <2> QED
    BY <1>1, <2>1, <2>2, <2>3, <2>4
<1>4. CASE SignOutForm \/ ForgotForm \/ ResetForm \/ SpentLink
  <2>1. ask.pc = "inside" /\ ask.form # "none"
    BY <1>4 DEF SignOutForm, ForgotForm, ResetForm, SpentLink, Calls
  <2>2. \/ Replies(WithCookie(Follow("sign-in", "nothing"), "clear"))
        \/ Replies(Follow("sign-in", "nothing")) \/ Replies(Show("failed", "nothing"))
        \/ Replies(Show("forgot-password", "sent")) \/ Replies(Follow("sign-in", "reset"))
        \/ Replies(Follow("verify-email", "nothing"))
    BY <1>4 DEF SignOutForm, ForgotForm, ResetForm, SpentLink, Answers
  <2>3. Show("failed", "nothing") \in Reply
    BY Words, ShowType
  <2> QED
    BY <1>1, <2>1, <2>2, <2>3, Words, AnswersAreReplies
<1>5. CASE ResendForm
  <2>1. ask.pc = "inside" /\ ask.form # "none" /\ (Replies(NotSent) \/ Replies(Show(shown.page, "sent")))
    BY <1>5 DEF ResendForm, Calls
  <2>2. NotSent \in Reply /\ Show(shown.page, "sent") \in Reply
    BY <2>1, AskFacts, Words, ShowType DEF NotSent
  <2> QED
    BY <1>1, <2>1, <2>2
<1>6. CASE DeleteForm
  <2>1. ask.pc = "inside" /\ ask.form # "none"
    BY <1>6 DEF DeleteForm, Calls
  <2>2. CASE ask' = [ask EXCEPT !.pc = "erasing"]
    <3>1. ask \in Requests /\ BrowserTypeOK
      BY <2>1, AskIsRequest DEF PagesInv
    <3>2. ask'.pc = "erasing"
      BY <2>2, <3>1 DEF Requests
    <3>3. StepsLeft' = 4 * MaxHops + 6
      BY <3>2 DEF StepsLeft
    <3>4. StepsLeft = 4 * HopsLeft + 3 /\ HopsLeft = MaxHops + 1
      BY <2>1, <3>1, StepsAre DEF HopsLeft
    <3> QED
      BY <3>3, <3>4 DEF MaxHops
  <2>3. CASE Replies(Follow("/", "deleted"))
    BY <1>1, <2>1, <2>3, Words, AnswersAreReplies
  <2> QED
    BY <1>6, <2>2, <2>3 DEF DeleteForm
<1>7. CASE Erase
  <2>1. \/ Replies(WithCookie(Follow("/", "deleted"), "clear")) \/ Replies(Show("failed", "nothing"))
        \/ Replies(Show("account", "refused"))
    BY <1>7 DEF Erase, Answers
  <2>2. Show("failed", "nothing") \in Reply
    BY Words, ShowType
  <2> QED
    BY <1>1, <1>7, <2>1, <2>2, Words, AnswersAreReplies DEF Erase
<1>8. ASSUME NEW s \in Fresh, SignInForm(s) \/ SignUpForm(s) \/ ChangeForm(s) \/ VerifyLink(s)
      PROVE  StepsLeft' < StepsLeft
  <2>1. ask.pc = "inside" /\ ask.form # "none" /\ s \in Sessions
    BY <1>8 DEF SignInForm, SignUpForm, ChangeForm, VerifyLink, Calls, Fresh
  <2>2. \/ Replies(WithCookie(Follow(Destination(ask.query), "nothing"), s))
        \/ Replies(WithCookie(Follow("boards", "nothing"), s))
        \/ Replies(WithCookie(Show("account", "changed"), s))
        \/ Replies(WithCookie(Follow("verify-email", "nothing"), s))
        \/ Replies(Show("failed", "nothing"))
    BY <1>8 DEF SignInForm, SignUpForm, ChangeForm, VerifyLink, Answers
  <2>3. Show("failed", "nothing") \in Reply
    BY Words, ShowType
  <2>4. Destination(ask.query) \in Paths
    BY DestinationIsElsewhere
  <2> QED
    BY <1>1, <2>1, <2>2, <2>3, <2>4, Words, AnswersAreReplies
<1> QED
  BY <1>3, <1>4, <1>5, <1>6, <1>7, <1>8 DEF Act

LEMMA ArriveShortens == ASSUME PagesInv, Arrive PROVE StepsLeft' < StepsLeft
<1> DEFINE r == ask.reply
           h == Hops(r.to.page, r.to.says, Live(Jar(r.set)))
<1>1. /\ BrowserTypeOK /\ ask.pc = "replied" /\ cookie' = Jar(r.set)
      /\ UNCHANGED <<account, sess, reset, verify>>
  BY DEF Arrive, PagesInv, accountVars
<1>2. StepsLeft = StepsAfter(r, Jar(r.set))
  BY <1>1, StepsAre
<1>3. CASE ~r.follow
  <2>1. ask'.pc = "idle"
    BY <1>3 DEF Arrive, Idle
  <2>2. StepsLeft' = 0
    BY <2>1 DEF StepsLeft
  <2> QED
    BY <1>2, <1>3, <2>2, StepsAfterIs
<1>4. CASE r.follow
  <2>1. ask' = Asked(r.to.page, "none", r.to.says, cookie')
    BY <1>4 DEF Arrive
  <2>2. /\ ask'.pc = "asked" /\ ask'.form = "none" /\ ask'.path = r.to.page
        /\ ask'.query = r.to.says /\ ask'.sent = cookie'
    BY <2>1 DEF Asked
  <2>3. TakenIn' <=> Live(Jar(r.set))
    BY <1>1, <2>2 DEF TakenIn, Live
  <2>4. HopsLeft' = h
    BY <2>2, <2>3 DEF HopsLeft, Hops
  <2>5. StepsLeft' = 4 * h + 4
    BY <2>2, <2>4 DEF StepsLeft
  <2>6. StepsLeft = 4 * h + 5
    BY <1>2, <1>4, StepsAfterIs
  <2>7. h \in 0 .. MaxHops
    <3>1. Live(Jar(r.set)) \in BOOLEAN
      BY DEF Live
    <3> QED
      BY <3>1, HopsIs
  <2> HIDE DEF h
  <2> QED
    BY <2>5, <2>6, <2>7 DEF MaxHops
<1> QED
  BY <1>3, <1>4

\* What other browsers do brings no session back that this one carries.
LEMMA OthersLengthenNothing ==
    ASSUME PagesInv, Others, ask # Idle PROVE StepsLeft' <= StepsLeft
<1>1. UNCHANGED <<cookie, shown, ask>> /\ BrowserTypeOK /\ AccountInv /\ ask.pc # "idle"
  BY AskIsRequest DEF Others, browserVars, PagesInv
<1>2. MintsNone \/ \E s \in Fresh : Mints(s)
  BY DEF Others, Elsewhere, MintsNone, Mints
<1>3. ASSUME NEW t \in Sessions \union {None},
             t \in {cookie, ask.sent} \/ (ask.pc = "replied" /\ t = ask.reply.set)
      PROVE  Live(t)' => Live(t)
  <2>1. ASSUME NEW s \in Fresh, Mints(s)
        PROVE  Live(t)' => Live(t)
    <3>1. s \in Sessions /\ s # t
      BY <1>1, <1>3 DEF Fresh
    <3> QED
      BY <1>1, <2>1, <3>1, MintsKeeps DEF Live
  <2>2. CASE MintsNone
    BY <1>1, <2>2, MintsNoneKeeps DEF Live
  <2> QED
    BY <1>2, <2>1, <2>2
<1>4. ASSUME NEW page, NEW says, NEW was \in BOOLEAN, NEW now \in BOOLEAN, now => was
      PROVE  Hops(page, says, now) <= Hops(page, says, was)
  BY <1>4, HopsIs
<1>5. CASE ask.pc = "replied"
  <2> DEFINE r == ask.reply
  <2>1. r \in Reply /\ r.set \in {"keep", "clear"} \union Sessions
    BY <1>5 DEF PagesInv, ReplyInv, Reply
  <2>2. Jar(r.set) \in Sessions \union {None} /\ Jar(r.set)' = Jar(r.set)
    BY <1>1, <2>1 DEF Jar, BrowserTypeOK
  <2>3. Jar(r.set) \in {None, cookie, r.set}
    BY DEF Jar
  <2>4. Live(Jar(r.set))' => Live(Jar(r.set))
    BY <1>1, <1>3, <1>5, <2>2, <2>3 DEF Live
  <2>5. Live(Jar(r.set))' \in BOOLEAN /\ Live(Jar(r.set)) \in BOOLEAN
    BY DEF Live
  <2> DEFINE was == Hops(r.to.page, r.to.says, Live(Jar(r.set)))
             now == Hops(r.to.page, r.to.says, Live(Jar(r.set))')
  <2>6. now <= was /\ was \in 0 .. MaxHops /\ now \in 0 .. MaxHops
    BY <1>4, <2>4, <2>5, HopsIs
  <2>7. StepsLeft = IF r.follow THEN 4 * was + 5 ELSE 1
    BY <1>1, <1>5 DEF StepsLeft, StepsAfter
  <2>8. StepsLeft' = IF r.follow THEN 4 * now + 5 ELSE 1
    BY <1>1, <1>5 DEF StepsLeft, StepsAfter
  <2> HIDE DEF was, now
  <2>9. CASE r.follow
    BY <2>6, <2>7, <2>8, <2>9 DEF MaxHops
  <2>10. CASE ~r.follow
    BY <2>7, <2>8, <2>10
  <2> QED
    BY <2>9, <2>10
<1>6. CASE ask.pc # "replied"
  <2>1. ask.sent \in Sessions \union {None}
    BY <1>1, AskFacts
  <2>2. TakenIn' => TakenIn
    BY <1>1, <1>3, <2>1 DEF TakenIn, SignedIn
  <2>3. TakenIn \in BOOLEAN /\ TakenIn' \in BOOLEAN
    BY DEF TakenIn, Live, SignedIn
  <2>4. HopsLeft' <= HopsLeft
    <3>1. CASE ask.form = "none"
      BY <1>1, <1>4, <2>2, <2>3, <3>1 DEF HopsLeft
    <3>2. CASE ask.form # "none"
      BY <1>1, <3>2 DEF HopsLeft, MaxHops
    <3> QED
      BY <3>1, <3>2
  <2>5. HopsLeft \in 0 .. MaxHops + 1 /\ HopsLeft' \in 0 .. MaxHops + 1
    <3>1. Hops(ask.path, ask.query, TakenIn') \in 0 .. MaxHops
      BY <2>3, HopsIs
    <3>2. HopsLeft' \in 0 .. MaxHops + 1
      BY <1>1, <3>1 DEF HopsLeft, MaxHops
    <3> QED
      BY <1>1, <3>2, StepsAre
  <2>6. PICK n \in 0 .. MaxHops + 1, m \in 0 .. MaxHops + 1 : n = HopsLeft /\ m = HopsLeft'
    BY <2>5
  <2>7. m <= n
    BY <2>4, <2>6
  <2>8. \/ StepsLeft = 4 * n + 4 /\ StepsLeft' = 4 * m + 4
        \/ StepsLeft = 4 * n + 3 /\ StepsLeft' = 4 * m + 3
        \/ StepsLeft = 4 * MaxHops + 6 /\ StepsLeft' = 4 * MaxHops + 6
        \/ StepsLeft = 0 /\ StepsLeft' = 0
    BY <1>1, <1>6, <2>6 DEF StepsLeft
  <2> QED
    BY <2>6, <2>7, <2>8 DEF MaxHops
<1> QED
  BY <1>5, <1>6

\* Every visit and every form is over within LongestVisit steps, whatever the lookups
\* answer, wherever a sign-in leads on to, and however the session ends meanwhile:
\* no redirects go round (hooks.server.ts:117-163, lib/server/auth.ts).
THEOREM VisitsAreShort == Spec => [](StepsLeft \in 0 .. LongestVisit) /\ VisitsShorten
<1>1. PagesInv /\ [Next]_vars =>
        [ask # Idle => IF ask' = ask THEN StepsLeft' <= StepsLeft ELSE StepsLeft' < StepsLeft]_vars
  <2> SUFFICES ASSUME PagesInv, Next, ask # Idle
               PROVE  IF ask' = ask THEN StepsLeft' <= StepsLeft ELSE StepsLeft' < StepsLeft
    OBVIOUS
  <2>1. StepsLeft \in 0 .. LongestVisit /\ StepsLeft' \in 0 .. LongestVisit
    <3>1. PagesInv'
      BY PagesNextInv
    <3> QED
      BY <3>1, StepsBounded, StepsBoundedNext
  <2>2. StepsLeft' < StepsLeft => StepsLeft' <= StepsLeft
    BY <2>1 DEF LongestVisit, MaxHops
  <2>3. CASE Web
    BY <2>2, <2>3, GuardShortens, LoadShortens, ActShortens DEF Web
  <2>4. CASE Arrive
    BY <2>2, <2>4, ArriveShortens
  <2>5. CASE Others
    <3>1. ask' = ask
      BY <2>5 DEF Others, browserVars
    <3> QED
      BY <2>5, <3>1, OthersLengthenNothing
  <2>6. ~Person
    BY DEF Person, Visit, Submit, OpenVerifyLink
  <2> QED
    BY <2>3, <2>4, <2>5, <2>6 DEF Next
<1>2. Spec => []PagesInv
  BY PagesInitInv, PagesNextInv, PTL DEF Spec
<1>3. Spec => [](StepsLeft \in 0 .. LongestVisit)
  BY <1>2, StepsBounded, PTL
<1>4. Spec => VisitsShorten
  BY <1>1, <1>2, PTL DEF Spec, VisitsShorten
<1> QED
  BY <1>3, <1>4
=============================================================================
