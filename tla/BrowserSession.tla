---------------------------- MODULE BrowserSession ----------------------------
(***************************************************************************)
(* The session of one browser as its tabs use it: every call goes through  *)
(* the API client, which answers a 401 with one refresh, shared by the     *)
(* tab's calls, and one retry.  The tabs share the cookies and nothing     *)
(* else.  A call's cookies are those of the moment it is sent; its answer  *)
(* sets cookies when it arrives.                                           *)
(*                                                                         *)
(* Of the API's tokens only what the client can tell apart is kept: a      *)
(* refresh token is live, spent by a rotation, or dead: expired, or ended  *)
(* with its family.  RefreshTokens is the module about them.               *)
(***************************************************************************)
EXTENDS Naturals, FiniteSets

CONSTANTS
    Tabs,
    OldTabs,    \* tabs opened before the browser's session began
    Calls,      \* calls of the interface, each made once
    TabOf,      \* TabOf[c]: the tab c is made in
    Kind,       \* Kind[c]: "work" (any guarded endpoint), "me", "login" or "logout"
    MaxTokens   \* bound: refresh tokens issued; past it the refresh throttle answers

Token == 1 .. MaxTokens
Sessions == {0, 1}     \* the families of the session at the start and of one sign-in

ASSUME BrowserAssumption ==
    /\ OldTabs \subseteq Tabs
    /\ TabOf \in [Calls -> Tabs]
    /\ Kind \in [Calls -> {"work", "me", "login", "logout"}]
    /\ MaxTokens \in Nat \ {0}
    /\ \A c, d \in Calls : Kind[c] = "login" /\ Kind[d] = "login" => c = d

VARIABLES
    token,      \* token[k]: "unused", "live", "spent" or "dead"
    family,     \* family[k]: the session it belongs to
    jar,        \* the cookies
    call,       \* call[c]: where it stands
    refresh,    \* refresh[t]: refreshInFlight of the tab t
    shown,      \* shown[t]: the session in the tab's query cache
    history,    \* lost: the answer of a rotation was lost, the cookies have its old token
                \* crossed: a logout and a refresh were in flight at the same time
                \* signedOut: a logout was answered, and no login since
    over, cut   \* history: the calls while which the session was over at one moment,
                \*   and those whose refresh broke off (CutOff)

vars == <<token, family, jar, call, refresh, shown, history, over, cut>>

NoCookies == [access |-> "none", refresh |-> 0]
NoRefresh == [pc |-> "none", presented |-> 0, reply |-> "ok", new |-> 0, raced |-> FALSE]
NoCall == [pc |-> "idle", retried |-> FALSE, access |-> "none", presented |-> 0,
           reply |-> "ok", new |-> 0]

Cookies == [access : {"none", "live", "expired"}, refresh : {0} \cup Token]

TypeOK ==
    /\ token \in [Token -> {"unused", "live", "spent", "dead"}]
    /\ family \in [Token -> Sessions]
    /\ jar \in Cookies
    /\ call \in [Calls -> [pc : {"idle", "sent", "served", "waiting", "done"},
                           retried : BOOLEAN, access : {"none", "live", "expired"},
                           presented : {0} \cup Token, reply : {"ok", "401", "failed"},
                           new : {0} \cup Token]]
    /\ refresh \in [Tabs -> [pc : {"none", "sent", "served"}, presented : {0} \cup Token,
                             reply : {"ok", "401", "failed"}, new : {0} \cup Token,
                             raced : BOOLEAN]]
    /\ shown \in [Tabs -> {"unknown", "in", "out"}]
    /\ history \in [lost : BOOLEAN, crossed : BOOLEAN, signedOut : BOOLEAN]
    /\ over \subseteq Calls /\ cut \subseteq Calls
    /\ \A c \in Calls : call[c].pc = "waiting" => refresh[TabOf[c]].pc # "none"

\* A browser that has a session, whose access token may have expired.  A tab
\* opened before the sign-in may still show the login page.
Init ==
    /\ token = [k \in Token |-> IF k = 1 THEN "live" ELSE "unused"]
    /\ family = [k \in Token |-> 0]
    /\ \E a \in {"live", "expired"} : jar = [access |-> a, refresh |-> 1]
    /\ call = [c \in Calls |-> NoCall]
    /\ refresh = [t \in Tabs |-> NoRefresh]
    /\ \E S \in SUBSET OldTabs : shown = [t \in Tabs |-> IF t \in S THEN "out" ELSE "in"]
    /\ history = [lost |-> FALSE, crossed |-> FALSE, signedOut |-> FALSE]
    /\ over = {} /\ cut = {}

----------------------------------------------------------------------------
(* The API.                                                                *)

Issued(k, f) == /\ token[k] = "unused"
                /\ \A j \in Token : j < k => token[j] # "unused"
                /\ family' = [family EXCEPT ![k] = f]

\* No refresh cookie, or one that has expired or whose session has ended.
Worthless == {0} \cup {k \in Token : token[k] = "dead"}

KillFamily(f) == [k \in Token |-> IF family[k] = f /\ token[k] # "unused" THEN "dead" ELSE token[k]]

----------------------------------------------------------------------------
(* A call.                                                                 *)

Busy(c) == call[c].pc \in {"sent", "served", "waiting"}

Guarded(c) == Kind[c] \in {"work", "me"}

\* fetch(path, init), with the cookies the endpoint looks at.
Sent(c, cookies, again) ==
    [call[c] EXCEPT !.pc = "sent", !.retried = again,
                    !.access = IF Guarded(c) THEN cookies.access ELSE "none",
                    !.presented = IF Kind[c] = "logout" THEN cookies.refresh ELSE 0]

\* Only what it was answered is kept of a call that is over.
Ended(c, reply) == [NoCall EXCEPT !.pc = "done", !.reply = reply]

\* RequireSession: the room and the session menu take a session to show.
Offered(c) ==
    /\ Kind[c] = "login" => shown[TabOf[c]] # "in"
    /\ Kind[c] \in {"work", "logout"} => shown[TabOf[c]] = "in"

Start(c) ==
    /\ call[c].pc = "idle" /\ Offered(c)
    /\ call' = [call EXCEPT ![c] = Sent(c, jar, FALSE)]
    /\ history' = [history EXCEPT !.crossed = @ \/ (Kind[c] = "logout" /\ \E t \in Tabs : refresh[t].pc # "none"),
                                  !.signedOut = @ /\ Kind[c] # "login"]
    /\ UNCHANGED <<token, family, jar, refresh, shown>>

\* The guard, and the handler of a guarded endpoint.  An access token that was
\* live when it was sent may have expired on the way, except that of a retry,
\* which was issued an instant before.
ServeGuarded(c) ==
    /\ call[c].pc = "sent" /\ Guarded(c)
    /\ \/ /\ call[c].access = "live"
          /\ call' = [call EXCEPT ![c].pc = "served", ![c].reply = "ok"]
       \/ /\ call[c].access # "live" \/ ~call[c].retried
          /\ call' = [call EXCEPT ![c].pc = "served", ![c].reply = "401"]
    /\ UNCHANGED <<token, family, jar, refresh, shown, history>>

\* The password is right, or it is not: then a 401 as well.
ServeLogin(c) ==
    /\ call[c].pc = "sent" /\ Kind[c] = "login"
    /\ \/ \E k \in Token :
             /\ Issued(k, 1)
             /\ token' = [token EXCEPT ![k] = "live"]
             /\ call' = [call EXCEPT ![c].pc = "served", ![c].reply = "ok", ![c].new = k]
       \/ /\ call' = [call EXCEPT ![c].pc = "served", ![c].reply = "401"]
          /\ UNCHANGED <<token, family>>
    /\ UNCHANGED <<jar, refresh, shown, history>>

\* endSession: a revocation that fails is logged, and answered like another.
ServeLogout(c) ==
    /\ call[c].pc = "sent" /\ Kind[c] = "logout"
    /\ \/ token' = token
       \/ call[c].presented # 0 /\ token' = KillFamily(family[call[c].presented])
    /\ call' = [call EXCEPT ![c].pc = "served", ![c].reply = "ok"]
    /\ UNCHANGED <<family, jar, refresh, shown, history>>

\* The network fails before or after the API has served the call; a handler
\* may fail too.
CallFails(c) ==
    /\ call[c].pc \in {"sent", "served"}
    /\ call' = [call EXCEPT ![c] = Ended(c, "failed")]
    /\ UNCHANGED <<token, family, jar, refresh, shown, history>>

\* Mutant: the refresh cookie is cleared under another path.
CookiesAfterElsewhere(c) ==
    IF Kind[c] = "login" THEN [access |-> "live", refresh |-> call[c].new]
    ELSE IF Kind[c] = "logout" THEN [jar EXCEPT !.access = "none"]
    ELSE jar

\* Set-Cookie of a login or a logout.
CookiesAfter(c) ==
    IF Kind[c] = "login" THEN [access |-> "live", refresh |-> call[c].new]
    ELSE IF Kind[c] = "logout" THEN NoCookies
    ELSE jar

ShownAfter(c) ==
    IF Kind[c] \in {"me", "login"} THEN "in"
    ELSE IF Kind[c] = "logout" THEN "out"
    ELSE shown[TabOf[c]]

\* The answer is not a 401.  A refresh in flight when a logout is answered
\* crosses it.
Answered(c) ==
    /\ call[c].pc = "served" /\ call[c].reply = "ok"
    /\ call' = [call EXCEPT ![c] = Ended(c, "ok")]
    /\ jar' = CookiesAfter(c)
    /\ shown' = [shown EXCEPT ![TabOf[c]] = ShownAfter(c)]
    /\ history' = [lost |-> history.lost /\ (Kind[c] # "login" \/ \E t \in Tabs : refresh[t].pc # "none"),
                   crossed |-> history.crossed \/ (Kind[c] = "logout" /\ \E t \in Tabs : refresh[t].pc # "none"),
                   signedOut |-> Kind[c] = "logout" \/ (history.signedOut /\ Kind[c] # "login")]
    /\ UNCHANGED <<token, family, refresh>>

\* fetchSessionUser: a 401 is an answer.
SignedOutBy(S, t) ==
    shown' = [shown EXCEPT ![t] = IF \E c \in S : Kind[c] = "me" THEN "out" ELSE @]

Overlapping(t) == \E u \in Tabs \ {t} : refresh[u].pc # "none"

\* The tab t asks for a refresh: its calls share it.
RefreshAsked(t) ==
    [u \in Tabs |->
        IF u = t THEN [NoRefresh EXCEPT !.pc = "sent", !.presented = jar.refresh, !.raced = Overlapping(t)]
        ELSE IF refresh[u].pc # "none" THEN [refresh[u] EXCEPT !.raced = TRUE]
        ELSE refresh[u]]

\* Mutant: every 401 rotates for itself.
UnauthorizedAlone(c) ==
    LET t == TabOf[c] IN
    /\ call[c].pc = "served" /\ call[c].reply = "401" /\ ~call[c].retried
    /\ call' = [call EXCEPT ![c].pc = "waiting"]
    /\ refresh' = RefreshAsked(t)
    /\ history' = [history EXCEPT !.crossed = @ \/ \E d \in Calls : Kind[d] = "logout" /\ Busy(d)]
    /\ UNCHANGED <<token, family, jar, shown>>

\* The first 401: wait for the refresh in flight, or start one.
Unauthorized(c) ==
    LET t == TabOf[c] IN
    /\ call[c].pc = "served" /\ call[c].reply = "401" /\ ~call[c].retried
    /\ call' = [call EXCEPT ![c].pc = "waiting"]
    /\ IF refresh[t].pc = "none"
         THEN /\ refresh' = RefreshAsked(t)
              /\ history' = [history EXCEPT !.crossed = @ \/ \E d \in Calls : Kind[d] = "logout" /\ Busy(d)]
         ELSE UNCHANGED <<refresh, history>>
    /\ UNCHANGED <<token, family, jar, shown>>

\* The second one.
Refused(c) ==
    /\ call[c].pc = "served" /\ call[c].reply = "401" /\ call[c].retried
    /\ call' = [call EXCEPT ![c] = Ended(c, "401")]
    /\ SignedOutBy({c}, TabOf[c])
    /\ UNCHANGED <<token, family, jar, refresh, history>>

----------------------------------------------------------------------------
(* A refresh.                                                              *)

\* AuthController.refresh: rotate a live token; a spent one gets a sibling in
\* the grace window and ends the session after it; one that has expired by now
\* is refused.  With the new cookies on the answer the handler still reads the
\* user, and when that fails the answer is an error that carries them.  (An
\* error before the rotation is RefreshFails to the client, which sees that the
\* answer is not ok and nothing else.)
ServeRefresh(t) ==
    LET p == refresh[t].presented
        answer(reply, k) == refresh' = [refresh EXCEPT ![t].pc = "served", ![t].reply = reply, ![t].new = k]
    IN /\ refresh[t].pc = "sent"
       /\ \/ \E k \in Token :
             /\ p # 0 /\ token[p] \in {"live", "spent"}
             /\ Issued(k, family[p])
             /\ token' = [token EXCEPT ![k] = "live", ![p] = "spent"]
             /\ answer("ok", k) \/ answer("failed", k)
          \/ /\ p # 0 /\ token[p] = "spent"
             /\ token' = KillFamily(family[p])
             /\ answer("401", 0) /\ UNCHANGED family
          \/ /\ p # 0 /\ token[p] \in {"live", "spent"}
             /\ token' = [token EXCEPT ![p] = "dead"]
             /\ answer("401", 0) /\ UNCHANGED family
          \/ /\ p \in Worthless
             /\ answer("401", 0) /\ UNCHANGED <<token, family>>
          \/ /\ \A k \in Token : token[k] # "unused"
             /\ answer("failed", 0) /\ UNCHANGED <<token, family>>
       /\ UNCHANGED <<jar, call, shown, history>>

Waiting(t) == {c \in Calls : TabOf[c] = t /\ call[c].pc = "waiting"}

\* All who wait go on with the same result: they send their call again with
\* the new cookies, or fail with the 401 they got.
Resume(t, ok, cookies) ==
    call' = [c \in Calls |->
                IF c \notin Waiting(t) THEN call[c]
                ELSE IF ok THEN Sent(c, cookies, TRUE)
                ELSE Ended(c, "401")]

\* Mutant: a refused refresh is asked for through the client itself.
RefreshAnsweredByClient(t) ==
    LET r == refresh[t]
        cookies == IF r.new # 0 THEN [access |-> "live", refresh |-> r.new] ELSE jar
    IN /\ r.pc = "served" /\ r.reply # "401"
       /\ jar' = cookies
       /\ Resume(t, r.reply = "ok", cookies)
       /\ refresh' = [refresh EXCEPT ![t] = NoRefresh]
       /\ IF r.reply = "ok" THEN UNCHANGED shown ELSE SignedOutBy(Waiting(t), t)
       /\ history' = [history EXCEPT !.lost = @ /\ r.new = 0]
       /\ UNCHANGED <<token, family>>

\* Mutant: the shared promise of a refresh that failed is kept.
RefreshAnsweredForGood(t) ==
    LET r == refresh[t]
        cookies == IF r.new # 0 THEN [access |-> "live", refresh |-> r.new]
                   ELSE IF r.reply = "401" /\ r.presented # 0 THEN NoCookies
                   ELSE jar
    IN /\ r.pc = "served"
       /\ jar' = cookies
       /\ Resume(t, r.reply = "ok", cookies)
       /\ refresh' = [refresh EXCEPT ![t] = IF r.reply = "ok" THEN NoRefresh
                                            ELSE [NoRefresh EXCEPT !.pc = "served", !.reply = "failed"]]
       /\ IF r.reply = "ok" THEN UNCHANGED shown ELSE SignedOutBy(Waiting(t), t)
       /\ history' = [history EXCEPT !.lost = @ /\ r.new = 0]
       /\ UNCHANGED <<token, family>>

\* The answer arrives and its cookies are set, whatever its status; the shared
\* promise is cleared.
RefreshAnswered(t) ==
    LET r == refresh[t]
        cookies == IF r.new # 0 THEN [access |-> "live", refresh |-> r.new]
                   ELSE IF r.reply = "401" /\ r.presented # 0 THEN NoCookies
                   ELSE jar
    IN /\ r.pc = "served"
       /\ jar' = cookies
       /\ Resume(t, r.reply = "ok", cookies)
       /\ refresh' = [refresh EXCEPT ![t] = NoRefresh]
       /\ IF r.reply = "ok" THEN UNCHANGED shown ELSE SignedOutBy(Waiting(t), t)
       /\ history' = [history EXCEPT !.lost = @ /\ r.new = 0]
       /\ UNCHANGED <<token, family>>

\* The network fails: a rotation the API has made is lost.
RefreshFails(t) ==
    /\ refresh[t].pc \in {"sent", "served"}
    /\ Resume(t, FALSE, jar)
    /\ SignedOutBy(Waiting(t), t)
    /\ refresh' = [refresh EXCEPT ![t] = NoRefresh]
    /\ history' = [history EXCEPT !.lost = @ \/ refresh[t].pc = "served"]
    /\ UNCHANGED <<token, family, jar>>

----------------------------------------------------------------------------

Expire ==
    /\ jar.access = "live"
    /\ jar' = [jar EXCEPT !.access = "expired"]
    /\ UNCHANGED <<token, family, call, refresh, shown, history>>

Served(c) == ServeGuarded(c) \/ ServeLogin(c) \/ ServeLogout(c)
Received(c) == Answered(c) \/ Unauthorized(c) \/ Refused(c)

Over == jar.refresh \in Worthless

\* The refresh of t ends in an error, or leaves the cookies as they are: the
\* network or the throttle broke it off, the handler failed, or it had been
\* asked for without a cookie and has found one since.
CutOff(t) ==
    /\ refresh[t].pc # "none" /\ refresh'[t] # refresh[t]
    /\ refresh[t].reply = "failed" \/ jar' = jar

Watch ==
    /\ over' = over \cup {c \in Calls : Guarded(c) /\ (Busy(c) \/ Busy(c)') /\ Over'}
    /\ cut' = cut \cup {c \in Calls : /\ Guarded(c) /\ CutOff(TabOf[c])
                                     /\ call[c].pc = "waiting" /\ call'[c].pc # "waiting"}

Next ==
    \/ \E c \in Calls :
          \/ Start(c) /\ Watch
          \/ ServeGuarded(c) /\ Watch
          \/ ServeLogin(c) /\ Watch
          \/ ServeLogout(c) /\ Watch
          \/ Answered(c) /\ Watch
          \/ Unauthorized(c) /\ Watch
          \/ Refused(c) /\ Watch
          \/ CallFails(c) /\ Watch
    \/ \E t \in Tabs :
          \/ ServeRefresh(t) /\ Watch
          \/ RefreshAnswered(t) /\ Watch
          \/ RefreshFails(t) /\ Watch
    \/ Expire /\ Watch

\* The API and the network answer what they have been sent.
Fairness ==
    /\ \A c \in Calls : WF_call(Served(c)) /\ WF_call(Received(c))
    /\ \A t \in Tabs : WF_refresh(ServeRefresh(t)) /\ WF_refresh(RefreshAnswered(t))

Spec == Init /\ [][Next]_vars /\ Fairness

----------------------------------------------------------------------------
(* Properties.                                                             *)

\* A tab on its own never presents a token it has rotated, which the API
\* takes for a theft: it takes two tabs that refresh at the same time, or an
\* answer that was lost.
ReplaysNeedTwoTabs ==
    \A t \in Tabs :
        /\ refresh[t].pc = "sent" /\ refresh[t].presented # 0
        /\ token[refresh[t].presented] = "spent"
        => refresh[t].raced \/ history.lost

SignedOutCall(c) == Guarded(c) /\ call[c].pc = "done" /\ call[c].reply = "401"

\* A call reports a 401 only when the session was over at one moment while it
\* ran, or the refresh it waited for broke off (CutOff: then the session may
\* well live): not because of a refresh that had failed before it, nor because
\* another call had used the cookies first.
RefusedOnlyIfOver == \A c \in Calls : SignedOutCall(c) => c \in over \cup cut

\* After a logout no tab's late answer brings the cookies back, unless a
\* refresh was in flight with it.
SignedOutHoldsNothing == history.signedOut /\ ~history.crossed => jar = NoCookies

\* Every call ends: none waits for a refresh for ever.
CallsEnd == \A c \in Calls : Busy(c) ~> call[c].pc = "done"

=============================================================================
