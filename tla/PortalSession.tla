---------------------------- MODULE PortalSession ----------------------------
(***************************************************************************)
(* The session of a browser: an access token for the API, a refresh token   *)
(* that is good for one use, the cookies and the local storage they are     *)
(* kept in, and the tabs that renew them.  A bundle of tokens is its        *)
(* number; 0 is no token.                                                    *)
(***************************************************************************)
EXTENDS NetworkAdmin

CONSTANTS Tabs, Visitor,        \* the tabs of the browser, the account of its user
          MaxCalls              \* bound: calls to the API for a session

VARIABLES
    jar,        \* the cookies portal_token and portal_refresh
    stored,     \* portal_token of the local storage
    tabs,       \* what each tab waits for
    calls,      \* the calls made
    bundles,    \* the bundles issued
    ended,      \* the bundles whose access token has expired
    past        \* history: what was redeemed, revoked, raced or unanswered

sessionVars == <<jar, stored, tabs, calls, bundles, ended, past>>

Free == [op |-> "none", from |-> Nil, call |-> 0]

SignedIn(bundle) == [token |-> bundle, refresh |-> bundle]

NoCookies == SignedIn(0)

SessionInit(bundle) ==
    /\ jar = SignedIn(bundle) /\ stored = bundle /\ bundles = bundle
    /\ tabs = [t \in Tabs |-> Free] /\ ended = {}
    /\ past = [redeemed |-> {}, twice |-> FALSE, revoked |-> {}, raced |-> FALSE, unanswered |-> FALSE]

-----------------------------------------------------------------------------
(* The backend.                                                             *)

Reply(bundle) == [kind |-> "reply", bundle |-> bundle]

(* updateRefreshToken, clearRefreshToken: one statement on the account,      *)
(* whatever token it has by then.                                            *)
RememberNothing(bundle) == Tx(<<>>)     \* Variant: the old token stays good

Remember(bundle) == Tx(<< Update("user", [id |-> Visitor], [hash |-> bundle]) >>)

IssueTokenBundle(w, r) ==
    /\ bundles' = bundles + 1
    /\ Begin(w, r, << Remember(bundles + 1), Reply(bundles + 1) >>)

ValidateCredentials(r) ==
    /\ r.by \in DOMAIN db.user /\ db.user[r.by].active
    /\ db.user[r.by].password = r.dto.password

VerifyRefreshToken(r) ==
    /\ r.by \in DOMAIN db.user /\ db.user[r.by].active
    /\ db.user[r.by].hash = r.dto.token

Login(w, r) ==
    /\ r.op = "login" /\ ValidateCredentials(r)
    /\ IssueTokenBundle(w, r)
    /\ UNCHANGED <<jar, stored, tabs, calls, ended, past>>

Refresh(w, r) ==
    /\ r.op = "refresh" /\ VerifyRefreshToken(r)
    /\ IssueTokenBundle(w, r)
    /\ UNCHANGED <<jar, stored, tabs, calls, ended, past>>

(* A token that is not the account's is no error.                            *)
Logout(w, r) ==
    /\ r.op = "logout"
    /\ Begin(w, r, (IF r.by \in DOMAIN db.user /\ db.user[r.by].hash = r.dto.token
                    THEN << Remember(Nil) >> ELSE <<>>) \o << Reply(0) >>)
    /\ UNCHANGED sessionVars

-----------------------------------------------------------------------------
(* The browser and the portal's server.                                     *)

Ask(t, op, from, dto) ==
    /\ tabs[t] = Free /\ calls < MaxCalls
    /\ calls' = calls + 1
    /\ tabs' = [tabs EXCEPT ![t] = [op |-> op, from |-> from, call |-> calls + 1]]
    /\ requests' = requests \cup { [op |-> op, by |-> Visitor, id |-> calls + 1, dto |-> dto] }
    /\ past' = [past EXCEPT !.raced = @ \/ \E o \in Tabs : tabs[o].op # "none"]
    /\ UNCHANGED <<db, disk, pbx, work, clean, lost, jar, stored, bundles, ended>>

(* The login page sends a browser that has a token away.                     *)
SignIn(t) ==
    /\ jar.token = 0
    /\ Ask(t, "login", "page", [password |-> "first"])

AskRefresh(t, from) ==
    /\ Ask(t, "refresh", from, [token |-> jar.refresh])

(* middleware: a page is asked for without an access token.                  *)
OpenPage(t) ==
    /\ jar.token = 0 /\ jar.refresh # 0
    /\ AskRefresh(t, "page")

(* resolveAuthToken: the local storage before the cookie.                    *)
AuthToken == IF stored # 0 THEN stored ELSE jar.token

(* apiFetch: an answer 401 asks for a refresh, which clears the cookies when *)
(* there is none to give.                                                    *)
CallApi(t) ==
    /\ AuthToken \in ended \cup {0} \/ Visitor \notin DOMAIN db.user
    /\ IF jar.refresh # 0 THEN AskRefresh(t, "api")
       ELSE /\ tabs[t] = Free /\ jar # NoCookies /\ jar' = NoCookies
            /\ UNCHANGED <<db, disk, pbx, requests, work, clean, lost, stored, tabs, calls, bundles, ended, past>>

SignOut(t) ==
    /\ jar # NoCookies
    /\ Ask(t, "logout", "page", [token |-> jar.refresh])

(* The cookie of an access token expires with it; the local storage keeps it.*)
Expire ==
    /\ bundles \notin ended /\ bundles # 0
    /\ ended' = ended \cup {bundles}
    /\ jar' = [jar EXCEPT !.token = IF @ = bundles THEN 0 ELSE @]
    /\ UNCHANGED <<db, disk, pbx, requests, work, clean, lost, stored, tabs, calls, bundles, past>>

-----------------------------------------------------------------------------
(* What a tab does with an answer: bundle 0 is a refusal, which only the     *)
(* login page leaves without effect.                                         *)

LoggedIn(t, bundle) ==
    /\ tabs[t].op = "login"
    /\ jar' = IF bundle # 0 THEN SignedIn(bundle) ELSE jar
    /\ stored' = IF bundle # 0 THEN bundle ELSE stored

(* Variant: only the access token is renewed.                                *)
RefreshedAccess(t, bundle) ==
    /\ tabs[t].op = "refresh" /\ tabs[t].from = "page"
    /\ jar' = IF bundle = 0 THEN NoCookies ELSE [jar EXCEPT !.token = bundle]
    /\ UNCHANGED stored

RefreshedPage(t, bundle) ==
    /\ tabs[t].op = "refresh" /\ tabs[t].from = "page"
    /\ jar' = SignedIn(bundle)
    /\ UNCHANGED stored

RefreshedCall(t, bundle) ==
    /\ tabs[t].op = "refresh" /\ tabs[t].from = "api"
    /\ jar' = SignedIn(bundle)
    /\ stored' = IF bundle # 0 THEN bundle ELSE stored

LoggedOut(t) == tabs[t].op = "logout" /\ jar' = NoCookies /\ stored' = 0

Received(t, bundle) ==
    /\ tabs' = [tabs EXCEPT ![t] = Free]
    /\ LoggedIn(t, bundle) \/ RefreshedPage(t, bundle) \/ RefreshedCall(t, bundle) \/ LoggedOut(t)

Waiting(t, call) == tabs[t].op # "none" /\ tabs[t].call = call

Answer(w) ==
    LET r == work[w].req
        bundle == Head(work[w].todo).bundle
        token(op) == IF r.op = op THEN {r.dto.token} ELSE {} IN
    /\ Step(w, "reply")
    /\ Advance(w, Rest(w), FALSE)
    /\ past' = [past EXCEPT !.revoked = @ \cup token("logout"),
                            !.twice = @ \/ token("refresh") \cap past.redeemed # {},
                            !.redeemed = @ \cup token("refresh")]
    /\ \/ \E t \in Tabs : Waiting(t, r.id) /\ Received(t, bundle)
       \/ (\A t \in Tabs : ~Waiting(t, r.id)) /\ UNCHANGED <<jar, stored, tabs>>
    /\ UNCHANGED <<db, disk, pbx, requests, lost, calls, bundles, ended>>

(* The 401 of a login or of a refresh.                                       *)
Deny(r) ==
    /\ \/ r.op = "login" /\ ~ValidateCredentials(r)
       \/ r.op = "refresh" /\ ~VerifyRefreshToken(r)
    /\ requests' = requests \ {r}
    /\ \/ \E t \in Tabs : Waiting(t, r.id) /\ Received(t, 0)
       \/ (\A t \in Tabs : ~Waiting(t, r.id)) /\ UNCHANGED <<jar, stored, tabs>>
    /\ UNCHANGED <<db, disk, pbx, work, clean, lost, calls, bundles, ended, past>>

(* The portal's call to the backend fails, whatever the backend does of it.  *)
NoAnswer(t) ==
    /\ tabs[t] # Free
    /\ Received(t, 0)
    /\ past' = [past EXCEPT !.unanswered = TRUE]
    /\ UNCHANGED <<db, disk, pbx, requests, work, clean, lost, calls, bundles, ended>>

SessionRequest(w, r) == Login(w, r) \/ Refresh(w, r) \/ Logout(w, r)

SessionStep ==
    \/ \E t \in Tabs : SignIn(t) \/ OpenPage(t) \/ CallApi(t) \/ SignOut(t) \/ NoAnswer(t)
    \/ \E r \in requests : Deny(r)
    \/ \E w \in Workers : Answer(w)
    \/ Expire
=============================================================================
