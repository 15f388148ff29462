------------------------ MODULE BrowserSession_proofs ------------------------
(***************************************************************************)
(* Proofs about BrowserSession: for any tabs, any calls of them and any    *)
(* number of tokens, a tab on its own never presents a token it has        *)
(* rotated, a call reports a 401 only of a session that was over or of a   *)
(* refresh that was cut off, and after a logout no late answer brings the  *)
(* cookies back.                                                           *)
(*                                                                         *)
(* The tabs share the cookies only, so what has to be known of an answer   *)
(* on its way is what it will put there: NewTokensFresh says that nobody   *)
(* has presented that token yet, SpentIsExplained that the cookie is       *)
(* behind only while such an answer is on its way or has been lost.        *)
(***************************************************************************)
EXTENDS BrowserSession, TLAPS

-----------------------------------------------------------------------------
(* The inductive invariant *)

InFlight(t) == refresh[t].pc # "none"

\* An answer on its way that will set a new refresh cookie, whatever its status.
Rotated(t) == refresh[t].pc = "served" /\ refresh[t].new # 0
SignedIn(c) == Kind[c] = "login" /\ call[c].pc = "served" /\ call[c].reply = "ok"

\* The browser and its refreshes hold tokens that have been issued.
Known(k) == k = 0 \/ token[k] # "unused"
TokensKnown == Known(jar.refresh) /\ \A t \in Tabs : InFlight(t) => Known(refresh[t].presented)

\* A token on its way to the browser has been presented by nobody.
Fresh(k) ==
    /\ k \in Token /\ token[k] \in {"live", "dead"} /\ k # jar.refresh
    /\ \A t \in Tabs : InFlight(t) => refresh[t].presented # k
NewTokensFresh ==
    /\ \A t \in Tabs : Rotated(t) => Fresh(refresh[t].new)
    /\ \A c \in Calls : SignedIn(c) => Fresh(call[c].new)
NewTokensDiffer ==
    /\ \A t, u \in Tabs : Rotated(t) /\ Rotated(u) /\ t # u => refresh[t].new # refresh[u].new
    /\ \A t \in Tabs, c \in Calls : Rotated(t) /\ SignedIn(c) => refresh[t].new # call[c].new

\* Refreshes in flight together know it.
RacesKnown == \A t, u \in Tabs : InFlight(t) /\ InFlight(u) /\ t # u => refresh[t].raced

\* The cookie holds a rotated token only until the rotation's answer arrives
\* or is lost.
SpentIsExplained ==
    jar.refresh # 0 /\ token[jar.refresh] = "spent" => history.lost \/ \E t \in Tabs : Rotated(t)

\* Without a cookie there is nothing to rotate, a refusal brings no token, and
\* a success brings one.
NothingFromNothing ==
    \A t \in Tabs :
        /\ Rotated(t) => refresh[t].presented # 0 /\ refresh[t].reply # "401"
        /\ refresh[t].pc = "served" /\ refresh[t].reply = "ok" => Rotated(t)

\* After a logout that crossed no refresh, those in flight carry no cookie.
SignedOutStays ==
    history.signedOut /\ ~history.crossed =>
        jar = NoCookies /\ \A t \in Tabs : InFlight(t) => refresh[t].presented = 0

\* A guarded call sent again carries the access token it waited for.
RetriesAreCurrent ==
    \A c \in Calls : Guarded(c) /\ call[c].retried =>
        /\ call[c].pc = "sent" => call[c].access = "live"
        /\ call[c].pc = "served" => call[c].reply # "401"

IInv ==
    /\ TypeOK
    /\ TokensKnown /\ NewTokensFresh /\ NewTokensDiffer
    /\ RacesKnown /\ SpentIsExplained /\ ReplaysNeedTwoTabs
    /\ NothingFromNothing /\ SignedOutStays
    /\ RetriesAreCurrent /\ RefusedOnlyIfOver

\* What an answer on its way may put in the cookies, and who knows of it.
TokenPart ==
    /\ TokensKnown /\ NewTokensFresh /\ NewTokensDiffer
    /\ RacesKnown /\ SpentIsExplained /\ ReplaysNeedTwoTabs
    /\ NothingFromNothing /\ SignedOutStays
CallPart == RetriesAreCurrent /\ RefusedOnlyIfOver

LEMMA Parts == IInv <=> TypeOK /\ TokenPart /\ CallPart
  BY DEF IInv, TokenPart, CallPart

LEMMA PartsAfter == TypeOK' /\ TokenPart' /\ CallPart' => IInv'
<1>1. (IInv <=> TypeOK /\ TokenPart /\ CallPart)'
  BY Parts, PTL
<1> QED
  BY <1>1

-----------------------------------------------------------------------------
(* Types *)

CallRow == [pc : {"idle", "sent", "served", "waiting", "done"},
            retried : BOOLEAN, access : {"none", "live", "expired"},
            presented : {0} \cup Token, reply : {"ok", "401", "failed"},
            new : {0} \cup Token]
RefreshRow == [pc : {"none", "sent", "served"}, presented : {0} \cup Token,
               reply : {"ok", "401", "failed"}, new : {0} \cup Token, raced : BOOLEAN]
HistoryRow == [lost : BOOLEAN, crossed : BOOLEAN, signedOut : BOOLEAN]

StoreTypes ==
    /\ token \in [Token -> {"unused", "live", "spent", "dead"}]
    /\ family \in [Token -> Sessions]
    /\ jar \in Cookies
RefreshTypes == refresh \in [Tabs -> RefreshRow]
CallTypes == call \in [Calls -> CallRow]
ShownTypes ==
    /\ shown \in [Tabs -> {"unknown", "in", "out"}]
    /\ history \in HistoryRow
    /\ over \subseteq Calls /\ cut \subseteq Calls
WaitersAreServed == \A c \in Calls : call[c].pc = "waiting" => refresh[TabOf[c]].pc # "none"

LEMMA TypesSplit ==
    TypeOK <=> StoreTypes /\ RefreshTypes /\ CallTypes /\ ShownTypes /\ WaitersAreServed
  BY DEF TypeOK, StoreTypes, RefreshTypes, CallTypes, ShownTypes, WaitersAreServed,
         CallRow, RefreshRow, HistoryRow

LEMMA Constants ==
    /\ TabOf \in [Calls -> Tabs]
    /\ Token \subseteq Nat \ {0} /\ 1 \in Token
    /\ \A c, d \in Calls : Kind[c] = "login" /\ Kind[d] = "login" => c = d
  BY BrowserAssumption DEF Token

LEMMA SentIs ==
    ASSUME CallTypes, NEW c \in Calls, NEW cookies \in Cookies, NEW again \in BOOLEAN
    PROVE  /\ Sent(c, cookies, again) \in CallRow
           /\ Sent(c, cookies, again).pc = "sent"
           /\ Sent(c, cookies, again).retried = again
           /\ Guarded(c) => Sent(c, cookies, again).access = cookies.access
<1>1. PICK q \in CallRow : q = call[c]
  BY DEF CallTypes
<1>2. PICK a \in {"none", "live", "expired"} :
        a = (IF Guarded(c) THEN cookies.access ELSE "none")
  BY DEF Cookies
<1>3. PICK p \in {0} \cup Token : p = (IF Kind[c] = "logout" THEN cookies.refresh ELSE 0)
  BY DEF Cookies
<1>4. PICK new : new = [q EXCEPT !.pc = "sent", !.retried = again, !.access = a, !.presented = p]
  OBVIOUS
<1>5. new \in CallRow /\ new.pc = "sent" /\ new.retried = again /\ new.access = a
  BY <1>4 DEF CallRow
<1>6. Sent(c, cookies, again) = new
  BY <1>1, <1>2, <1>3, <1>4 DEF Sent
<1> QED
  BY <1>2, <1>5, <1>6

LEMMA EndedIs ==
    ASSUME NEW c \in Calls, NEW reply \in {"ok", "401", "failed"}
    PROVE  /\ Ended(c, reply) \in CallRow
           /\ Ended(c, reply).pc = "done"
           /\ Ended(c, reply).retried = FALSE
           /\ Ended(c, reply).reply = reply
  BY DEF Ended, NoCall, CallRow

LEMMA NoRefreshIs ==
    /\ NoRefresh \in RefreshRow /\ NoRefresh.pc = "none"
    /\ \A p \in {0} \cup Token, b \in BOOLEAN :
          /\ [NoRefresh EXCEPT !.pc = "sent", !.presented = p, !.raced = b] \in RefreshRow
          /\ [NoRefresh EXCEPT !.pc = "sent", !.presented = p, !.raced = b].pc = "sent"
          /\ [NoRefresh EXCEPT !.pc = "sent", !.presented = p, !.raced = b].presented = p
          /\ [NoRefresh EXCEPT !.pc = "sent", !.presented = p, !.raced = b].raced = b
  BY DEF NoRefresh, RefreshRow

LEMMA InitInv == Init => IInv
<1> SUFFICES ASSUME Init
             PROVE  IInv
  OBVIOUS
<1>1. TypeOK
  <2>1. StoreTypes
    BY Constants DEF Init, StoreTypes, Cookies, Sessions
  <2>2. RefreshTypes
    BY NoRefreshIs DEF Init, RefreshTypes
  <2>3. CallTypes
    BY DEF Init, CallTypes, NoCall, CallRow
  <2>4. ShownTypes
    BY DEF Init, ShownTypes, HistoryRow
  <2>5. WaitersAreServed
    BY DEF Init, WaitersAreServed, NoCall
  <2> QED
    BY <2>1, <2>2, <2>3, <2>4, <2>5, TypesSplit
<1>2. /\ \A t \in Tabs : ~InFlight(t) /\ ~Rotated(t)
      /\ \A c \in Calls : call[c].pc = "idle"
      /\ jar.refresh = 1 /\ token[1] = "live" /\ ~history.signedOut
  <2>1. \A t \in Tabs : ~InFlight(t) /\ ~Rotated(t)
    BY NoRefreshIs DEF Init, InFlight, Rotated
  <2>2. \A c \in Calls : call[c].pc = "idle"
    BY DEF Init, NoCall
  <2>3. jar.refresh = 1
    BY DEF Init
  <2>4. token[1] = "live" /\ ~history.signedOut
    BY Constants DEF Init
  <2> QED
    BY <2>1, <2>2, <2>3, <2>4
<1>3. TokenPart
  BY <1>2 DEF TokenPart, TokensKnown, Known, NewTokensFresh, NewTokensDiffer, SignedIn, RacesKnown,
              SpentIsExplained, ReplaysNeedTwoTabs, NothingFromNothing, SignedOutStays, InFlight
<1>4. CallPart
  BY <1>2 DEF CallPart, RetriesAreCurrent, RefusedOnlyIfOver, SignedOutCall
<1> QED
  BY <1>1, <1>3, <1>4, Parts

-----------------------------------------------------------------------------
(* What a step leaves alone *)

LEMMA WatchGrows ==
    ASSUME Watch, ShownTypes
    PROVE  over \subseteq over' /\ cut \subseteq cut' /\ over' \subseteq Calls /\ cut' \subseteq Calls
  BY DEF Watch, ShownTypes

\* The cookies, the refreshes and the tokens are as they were, and no sign-in
\* has been answered.
LEMMA TokensStay ==
    ASSUME TokenPart, token' = token, jar'.refresh = jar.refresh, refresh' = refresh,
           jar = NoCookies => jar' = NoCookies,
           \A c \in Calls : SignedIn(c)' => SignedIn(c) /\ call'[c].new = call[c].new,
           history'.lost = history.lost, history'.signedOut => history.signedOut,
           history.crossed => history'.crossed
    PROVE  TokenPart'
<1>1. \A k : Known(k)' <=> Known(k)
  BY DEF Known
<1>2. \A k : Fresh(k)' <=> Fresh(k)
  BY DEF Fresh, InFlight
<1>3. \A t \in Tabs : (Rotated(t)' <=> Rotated(t)) /\ (InFlight(t)' <=> InFlight(t))
  BY DEF Rotated, InFlight
<1>4. TokensKnown'
  BY <1>1, <1>3 DEF TokenPart, TokensKnown, Known
<1>5. NewTokensFresh' /\ NewTokensDiffer'
  <2>1. \A t \in Tabs : Rotated(t)' => Fresh(refresh'[t].new)
    BY <1>3 DEF TokenPart, NewTokensFresh
  <2>2. \A c \in Calls : SignedIn(c)' => Fresh(call'[c].new)
    BY DEF TokenPart, NewTokensFresh
  <2>3. NewTokensFresh'
    BY <2>1, <2>2 DEF NewTokensFresh, Fresh, InFlight
  <2>4. NewTokensDiffer'
    BY <1>3 DEF TokenPart, NewTokensDiffer
  <2> QED
    BY <2>3, <2>4
<1>6. RacesKnown' /\ NothingFromNothing'
  BY <1>3 DEF TokenPart, RacesKnown, NothingFromNothing
<1>7. SpentIsExplained' /\ ReplaysNeedTwoTabs'
  BY <1>3 DEF TokenPart, SpentIsExplained, ReplaysNeedTwoTabs
<1>8. SignedOutStays'
  BY <1>3 DEF TokenPart, SignedOutStays, NoCookies
<1> QED
  BY <1>4, <1>5, <1>6, <1>7, <1>8 DEF TokenPart

\* What has to be true of a call that took a step.
CallFine(c) ==
    Guarded(c) =>
        /\ call[c].retried /\ call[c].pc = "sent" => call[c].access = "live"
        /\ call[c].retried /\ call[c].pc = "served" => call[c].reply # "401"
        /\ call[c].pc = "done" /\ call[c].reply = "401" => c \in over \cup cut

LEMMA CallsFine == CallPart <=> \A c \in Calls : CallFine(c)
  BY DEF CallPart, RetriesAreCurrent, RefusedOnlyIfOver, SignedOutCall, CallFine

LEMMA CallsFineAfter == CallPart' <=> \A c \in Calls : CallFine(c)'
<1>1. (CallPart <=> \A c \in Calls : CallFine(c))'
  BY CallsFine, PTL
<1> QED
  BY <1>1

LEMMA CallsStay ==
    ASSUME CallPart, ShownTypes, Watch,
           \A c \in Calls : call'[c] = call[c] \/ CallFine(c)'
    PROVE  CallPart'
<1>1. ASSUME NEW c \in Calls
      PROVE  CallFine(c)'
  <2>1. CASE call'[c] = call[c]
    BY <2>1, CallsFine, WatchGrows DEF CallFine, Guarded
  <2> QED
    BY <2>1
<1> QED
  BY <1>1, CallsFineAfter

\* A step of one call.
LEMMA CallStepTypes ==
    ASSUME TypeOK, Watch, NEW c \in Calls, NEW row \in CallRow,
           call' = [call EXCEPT ![c] = row],
           StoreTypes', RefreshTypes',
           shown' \in [Tabs -> {"unknown", "in", "out"}], history' \in HistoryRow,
           \A t \in Tabs : refresh[t].pc # "none" => refresh'[t].pc # "none",
           row.pc = "waiting" => refresh'[TabOf[c]].pc # "none"
    PROVE  TypeOK' /\ call'[c] = row /\ \A d \in Calls \ {c} : call'[d] = call[d]
<1>1. call \in [Calls -> CallRow] /\ ShownTypes /\ WaitersAreServed
  BY TypesSplit DEF CallTypes
<1>2. CallTypes' /\ call'[c] = row /\ \A d \in Calls \ {c} : call'[d] = call[d]
  BY <1>1 DEF CallTypes
<1>3. ShownTypes'
  BY <1>1, WatchGrows DEF ShownTypes
<1>4. WaitersAreServed'
  BY <1>1, <1>2, Constants DEF WaitersAreServed
<1>5. (TypeOK <=> StoreTypes /\ RefreshTypes /\ CallTypes /\ ShownTypes /\ WaitersAreServed)'
  BY TypesSplit, PTL
<1> QED
  BY <1>2, <1>3, <1>4, <1>5

\* A step of one call that touches nothing but the call, what the tab shows
\* and the history.
LEMMA PlainCallStep ==
    ASSUME IInv, Watch, NEW c \in Calls, NEW row \in CallRow,
           call' = [call EXCEPT ![c] = row], UNCHANGED <<token, family, jar, refresh>>,
           shown' \in [Tabs -> {"unknown", "in", "out"}], history' \in HistoryRow,
           history'.lost = history.lost, history'.signedOut => history.signedOut,
           history.crossed => history'.crossed,
           row.pc = "waiting" => refresh[TabOf[c]].pc # "none",
           ~(Kind[c] = "login" /\ row.pc = "served" /\ row.reply = "ok"),
           CallFine(c)'
    PROVE  IInv'
<1>1. TypeOK /\ TokenPart /\ CallPart /\ StoreTypes /\ RefreshTypes /\ ShownTypes
  BY Parts, TypesSplit
<1>2. StoreTypes' /\ RefreshTypes'
  BY <1>1 DEF StoreTypes, RefreshTypes
<1>3. TypeOK' /\ call'[c] = row /\ \A d \in Calls \ {c} : call'[d] = call[d]
  BY <1>1, <1>2, CallStepTypes
<1>4. \A d \in Calls : SignedIn(d)' => SignedIn(d) /\ call'[d].new = call[d].new
  BY <1>3 DEF SignedIn
<1>5. TokenPart'
  BY <1>1, <1>4, TokensStay
<1>6. CallPart'
  BY <1>1, <1>3, CallsStay
<1>7. (IInv <=> TypeOK /\ TokenPart /\ CallPart)'
  BY Parts, PTL
<1> QED
  BY <1>3, <1>5, <1>6, <1>7

-----------------------------------------------------------------------------
(* The steps that leave tokens and cookies alone *)

LEMMA StartStep ==
    ASSUME IInv, NEW c \in Calls, Start(c), Watch
    PROVE  IInv'
<1>1. CallTypes /\ StoreTypes /\ ShownTypes /\ jar \in Cookies
  BY Parts, TypesSplit DEF StoreTypes
<1>2. PICK row : row = Sent(c, jar, FALSE)
  OBVIOUS
<1>3. row \in CallRow /\ row.pc = "sent" /\ row.retried = FALSE
  BY <1>1, <1>2, SentIs
<1>4. PICK x \in BOOLEAN, s \in BOOLEAN :
        /\ history' = [history EXCEPT !.crossed = x, !.signedOut = s]
        /\ history.crossed => x
        /\ s => history.signedOut
  <2>1. PICK x, s \in BOOLEAN :
          /\ x = (history.crossed \/ (Kind[c] = "logout" /\ \E t \in Tabs : refresh[t].pc # "none"))
          /\ s = (history.signedOut /\ Kind[c] # "login")
    OBVIOUS
  <2>2. history' = [history EXCEPT !.crossed = x, !.signedOut = s]
    BY <2>1 DEF Start
  <2> QED
    BY <2>1, <2>2
<1>5. /\ history' \in HistoryRow /\ history'.lost = history.lost
      /\ history'.signedOut => history.signedOut
      /\ history.crossed => history'.crossed
  <2>1. history \in HistoryRow
    BY <1>1 DEF ShownTypes
  <2>2. /\ history' \in HistoryRow /\ history'.lost = history.lost
        /\ history'.signedOut = s /\ history'.crossed = x
    BY <1>4, <2>1 DEF HistoryRow
  <2> QED
    BY <1>4, <2>2
<1>6. call' = [call EXCEPT ![c] = row] /\ UNCHANGED <<token, family, jar, refresh, shown>>
  BY <1>2 DEF Start
<1>7. CallFine(c)'
  BY <1>1, <1>3, <1>6 DEF CallFine, CallTypes, Guarded
<1> QED
  BY <1>1, <1>3, <1>5, <1>6, <1>7, PlainCallStep DEF ShownTypes

LEMMA ServeGuardedStep ==
    ASSUME IInv, NEW c \in Calls, ServeGuarded(c), Watch
    PROVE  IInv'
<1>1. CallTypes /\ ShownTypes /\ CallFine(c) /\ call[c] \in CallRow
  BY Parts, TypesSplit, CallsFine DEF CallTypes
<1>2. PICK reply \in {"ok", "401"} :
        /\ call' = [call EXCEPT ![c].pc = "served", ![c].reply = reply]
        /\ call[c].access = "live" /\ call[c].retried => reply = "ok"
  BY DEF ServeGuarded
<1>q. PICK q \in CallRow : q = call[c]
  BY <1>1
<1>3. PICK row : row = [q EXCEPT !.pc = "served", !.reply = reply]
  OBVIOUS
<1>4. row \in CallRow /\ row.pc = "served" /\ row.reply = reply /\ row.retried = call[c].retried
  BY <1>3, <1>q DEF CallRow
<1>5. call' = [call EXCEPT ![c] = row]
  BY <1>1, <1>2, <1>3, <1>q DEF CallTypes
<1>6. UNCHANGED <<token, family, jar, refresh, shown, history>> /\ Guarded(c) /\ call[c].pc = "sent"
  BY DEF ServeGuarded
<1>7. CallFine(c)'
  BY <1>1, <1>2, <1>4, <1>5, <1>6 DEF CallFine, CallTypes, Guarded
<1>8. Kind[c] # "login"
  BY <1>6 DEF Guarded
<1> QED
  BY <1>1, <1>4, <1>5, <1>6, <1>7, <1>8, PlainCallStep DEF ShownTypes

LEMMA CallFailsStep ==
    ASSUME IInv, NEW c \in Calls, CallFails(c), Watch
    PROVE  IInv'
<1>1. CallTypes /\ ShownTypes
  BY Parts, TypesSplit
<1>2. PICK row \in CallRow : row = Ended(c, "failed")
  BY EndedIs
<1>3. row.pc = "done" /\ row.reply = "failed"
  BY <1>2, EndedIs
<1>4. /\ UNCHANGED <<token, family, jar, refresh, shown, history>>
      /\ call' = [call EXCEPT ![c] = row]
  BY <1>2 DEF CallFails
<1>5. CallFine(c)'
  BY <1>1, <1>3, <1>4 DEF CallFine, CallTypes, Guarded
<1> QED
  BY <1>1, <1>3, <1>4, <1>5, PlainCallStep DEF ShownTypes

LEMMA RefusedStep ==
    ASSUME IInv, NEW c \in Calls, Refused(c), Watch
    PROVE  IInv'
<1>1. CallTypes /\ ShownTypes /\ CallFine(c)
  BY Parts, TypesSplit, CallsFine
<1>2. PICK row \in CallRow : row = Ended(c, "401")
  BY EndedIs
<1>3. row.pc = "done" /\ row.reply = "401"
  BY <1>2, EndedIs
<1>4. /\ UNCHANGED <<token, family, jar, refresh, history>>
      /\ call' = [call EXCEPT ![c] = row]
      /\ call[c].pc = "served" /\ call[c].reply = "401" /\ call[c].retried
  BY <1>2 DEF Refused
<1>5. shown' \in [Tabs -> {"unknown", "in", "out"}]
  BY <1>1, Constants DEF Refused, SignedOutBy, ShownTypes
<1>6. ~Guarded(c)
  BY <1>1, <1>4 DEF CallFine
<1>7. CallFine(c)'
  BY <1>6 DEF CallFine, Guarded
<1> QED
  BY <1>1, <1>3, <1>4, <1>5, <1>7, PlainCallStep DEF ShownTypes

\* The access token expires in the browser's hands.
LEMMA ExpireStep ==
    ASSUME IInv, Expire, Watch
    PROVE  IInv'
<1>1. /\ TypeOK /\ TokenPart /\ CallPart /\ StoreTypes /\ RefreshTypes /\ CallTypes /\ ShownTypes
      /\ WaitersAreServed
  BY Parts, TypesSplit
<1>2. UNCHANGED <<token, family, call, refresh, shown, history>>
  BY DEF Expire
<1>3. jar' \in Cookies /\ jar'.refresh = jar.refresh /\ jar # NoCookies
  BY <1>1 DEF Expire, StoreTypes, Cookies, NoCookies
<1>4. StoreTypes' /\ RefreshTypes' /\ CallTypes' /\ WaitersAreServed'
  BY <1>1, <1>2, <1>3 DEF StoreTypes, RefreshTypes, CallTypes, WaitersAreServed
<1>5. ShownTypes'
  BY <1>1, <1>2, WatchGrows DEF ShownTypes
<1>6. TokenPart'
  BY <1>1, <1>2, <1>3, TokensStay DEF SignedIn
<1>7. CallPart'
  BY <1>1, <1>2, CallsStay
<1>8. /\ (TypeOK <=> StoreTypes /\ RefreshTypes /\ CallTypes /\ ShownTypes /\ WaitersAreServed)'
      /\ (IInv <=> TypeOK /\ TokenPart /\ CallPart)'
  BY Parts, TypesSplit, PTL
<1> QED
  BY <1>4, <1>5, <1>6, <1>7, <1>8

-----------------------------------------------------------------------------
(* Tokens are issued, or die *)

\* A token that has been issued is no one else's yet.
LEMMA UnusedIsNobodys ==
    ASSUME TokenPart, NEW k \in Token, token[k] = "unused"
    PROVE  /\ k # 0 /\ k # jar.refresh
           /\ \A t \in Tabs : InFlight(t) => refresh[t].presented # k
           /\ \A t \in Tabs : Rotated(t) => refresh[t].new # k
           /\ \A c \in Calls : SignedIn(c) => call[c].new # k
  BY Constants DEF TokenPart, TokensKnown, Known, NewTokensFresh, Fresh

\* Tokens only die or come to life where nobody holds them.
LEMMA TokensMove ==
    ASSUME TokenPart, jar' = jar, refresh' = refresh, history' = history,
           \A k \in Token : token[k] # "unused" => token'[k] # "unused",
           \A k \in Token : token'[k] = "spent" => token[k] = "spent",
           \A c \in Calls : SignedIn(c)' =>
              \/ SignedIn(c) /\ call'[c].new = call[c].new
              \/ /\ ~SignedIn(c) /\ call'[c].new \in Token
                 /\ token[call'[c].new] = "unused" /\ token'[call'[c].new] = "live",
           jar \in Cookies, refresh \in [Tabs -> RefreshRow],
           token' \in [Token -> {"unused", "live", "spent", "dead"}]
    PROVE  TokenPart'
<1>1. /\ TokensKnown /\ NewTokensFresh /\ NewTokensDiffer
      /\ RacesKnown /\ SpentIsExplained /\ ReplaysNeedTwoTabs
      /\ NothingFromNothing /\ SignedOutStays
  BY DEF TokenPart
<1>2. \A t \in Tabs : (Rotated(t)' <=> Rotated(t)) /\ (InFlight(t)' <=> InFlight(t))
  BY DEF Rotated, InFlight
<1>3. jar.refresh \in {0} \cup Token /\ \A t \in Tabs : refresh[t].presented \in {0} \cup Token
  BY DEF Cookies, RefreshRow
<1>4. TokensKnown'
  BY <1>1, <1>2, <1>3 DEF TokensKnown, Known
<1>5. ASSUME NEW k, Fresh(k)
      PROVE  Fresh(k)'
  BY <1>2, <1>5 DEF Fresh
<1>6. NewTokensFresh'
  <2>1. ASSUME NEW t \in Tabs, Rotated(t)'
        PROVE  Fresh(refresh[t].new)'
    BY <1>1, <1>2, <1>5, <2>1 DEF NewTokensFresh
  <2>2. ASSUME NEW c \in Calls, SignedIn(c)'
        PROVE  /\ call'[c].new \in Token /\ token'[call'[c].new] \in {"live", "dead"}
               /\ call'[c].new # jar'.refresh
               /\ \A t \in Tabs : InFlight(t)' => refresh'[t].presented # call'[c].new
    <3>1. CASE SignedIn(c) /\ call'[c].new = call[c].new
      <4>1. Fresh(call[c].new)
        BY <1>1, <3>1 DEF NewTokensFresh
      <4> QED
        BY <1>2, <1>5, <3>1, <4>1 DEF Fresh
    <3>2. CASE /\ call'[c].new \in Token
               /\ token[call'[c].new] = "unused" /\ token'[call'[c].new] = "live"
      BY <1>2, <3>2, UnusedIsNobodys
    <3> QED
      BY <2>2, <3>1, <3>2
  <2> QED
    BY <1>2, <2>1, <2>2 DEF NewTokensFresh, Fresh
<1>7. NewTokensDiffer'
  <2>1. ASSUME NEW t \in Tabs, NEW c \in Calls, Rotated(t)', SignedIn(c)'
        PROVE  refresh[t].new # call'[c].new
    <3>1. CASE SignedIn(c) /\ call'[c].new = call[c].new
      BY <1>1, <1>2, <2>1, <3>1 DEF NewTokensDiffer
    <3>2. CASE call'[c].new \in Token /\ token[call'[c].new] = "unused"
      BY <1>2, <2>1, <3>2, UnusedIsNobodys
    <3> QED
      BY <2>1, <3>1, <3>2
  <2> QED
    BY <1>1, <1>2, <2>1 DEF NewTokensDiffer
<1>8. RacesKnown' /\ NothingFromNothing' /\ SignedOutStays'
  BY <1>1, <1>2 DEF RacesKnown, NothingFromNothing, SignedOutStays
<1>9. SpentIsExplained' /\ ReplaysNeedTwoTabs'
  BY <1>1, <1>2, <1>3 DEF SpentIsExplained, ReplaysNeedTwoTabs
<1> QED
  BY <1>4, <1>6, <1>7, <1>8, <1>9 DEF TokenPart

LEMMA ServeLoginStep ==
    ASSUME IInv, NEW c \in Calls, ServeLogin(c), Watch
    PROVE  IInv'
<1>1. TypeOK /\ TokenPart /\ CallPart /\ StoreTypes /\ RefreshTypes /\ ShownTypes
      /\ call \in [Calls -> CallRow]
  BY Parts, TypesSplit DEF CallTypes
<1>2. UNCHANGED <<jar, refresh, shown, history>> /\ call[c].pc = "sent" /\ Kind[c] = "login"
  BY DEF ServeLogin
<1>3. ASSUME call' = [call EXCEPT ![c].pc = "served", ![c].reply = "401"],
             UNCHANGED <<token, family>>
      PROVE  IInv'
  <2>1. PICK row : row = [call[c] EXCEPT !.pc = "served", !.reply = "401"]
    OBVIOUS
  <2>2. row \in CallRow /\ row.pc = "served" /\ row.reply = "401"
    BY <1>1, <2>1 DEF CallRow
  <2>3. call' = [call EXCEPT ![c] = row]
    BY <1>1, <1>3, <2>1
  <2>4. CallFine(c)'
    BY <1>2 DEF CallFine, Guarded
  <2> QED
    BY <1>1, <1>2, <1>3, <2>2, <2>3, <2>4, PlainCallStep DEF ShownTypes
<1>4. ASSUME NEW k \in Token, Issued(k, 1), token' = [token EXCEPT ![k] = "live"],
             call' = [call EXCEPT ![c].pc = "served", ![c].reply = "ok", ![c].new = k]
      PROVE  IInv'
  <2>1. PICK row : row = [call[c] EXCEPT !.pc = "served", !.reply = "ok", !.new = k]
    OBVIOUS
  <2>2. row \in CallRow /\ row.pc = "served" /\ row.reply = "ok" /\ row.new = k
    BY <1>1, <2>1 DEF CallRow
  <2>3. call' = [call EXCEPT ![c] = row]
    BY <1>1, <1>4, <2>1
  <2>4. token[k] = "unused" /\ family' = [family EXCEPT ![k] = 1]
    BY <1>4 DEF Issued
  <2>5. StoreTypes' /\ RefreshTypes' /\ history' \in HistoryRow
        /\ shown' \in [Tabs -> {"unknown", "in", "out"}]
    BY <1>1, <1>2, <1>4, <2>4 DEF StoreTypes, RefreshTypes, ShownTypes, Sessions
  <2>6. TypeOK' /\ call'[c] = row /\ \A d \in Calls \ {c} : call'[d] = call[d]
    BY <1>1, <1>2, <2>2, <2>3, <2>5, CallStepTypes
  <2>7. /\ \A j \in Token : token[j] # "unused" => token'[j] # "unused"
        /\ \A j \in Token : token'[j] = "spent" => token[j] = "spent"
        /\ token'[k] = "live" /\ token' \in [Token -> {"unused", "live", "spent", "dead"}]
    BY <1>1, <1>4 DEF StoreTypes
  <2>8. ~SignedIn(c)
    BY <1>2 DEF SignedIn
  <2>9. \A d \in Calls : SignedIn(d)' =>
              \/ SignedIn(d) /\ call'[d].new = call[d].new
              \/ /\ ~SignedIn(d) /\ call'[d].new \in Token
                 /\ token[call'[d].new] = "unused" /\ token'[call'[d].new] = "live"
    BY <2>2, <2>4, <2>6, <2>7, <2>8 DEF SignedIn
  <2>10. TokenPart'
    BY <1>1, <1>2, <2>7, <2>9, TokensMove DEF StoreTypes, RefreshTypes
  <2>11. CallFine(c)'
    BY <1>2 DEF CallFine, Guarded
  <2>12. CallPart'
    BY <1>1, <2>6, <2>11, CallsStay
  <2>13. (IInv <=> TypeOK /\ TokenPart /\ CallPart)'
    BY Parts, PTL
  <2> QED
    BY <2>6, <2>10, <2>12, <2>13
<1> QED
  BY <1>3, <1>4 DEF ServeLogin

LEMMA KillIs ==
    ASSUME StoreTypes, NEW f
    PROVE  /\ KillFamily(f) \in [Token -> {"unused", "live", "spent", "dead"}]
           /\ \A k \in Token : KillFamily(f)[k] \in {token[k], "dead"}
           /\ \A k \in Token : token[k] = "unused" <=> KillFamily(f)[k] = "unused"
  BY DEF StoreTypes, KillFamily

LEMMA ServeLogoutStep ==
    ASSUME IInv, NEW c \in Calls, ServeLogout(c), Watch
    PROVE  IInv'
<1>1. TypeOK /\ TokenPart /\ CallPart /\ StoreTypes /\ RefreshTypes /\ ShownTypes
      /\ call \in [Calls -> CallRow]
  BY Parts, TypesSplit DEF CallTypes
<1>2. UNCHANGED <<family, jar, refresh, shown, history>> /\ Kind[c] = "logout"
  BY DEF ServeLogout
<1>3. PICK row : row = [call[c] EXCEPT !.pc = "served", !.reply = "ok"]
  OBVIOUS
<1>4. row \in CallRow /\ row.pc = "served" /\ row.reply = "ok"
  BY <1>1, <1>3 DEF CallRow
<1>5. call' = [call EXCEPT ![c] = row]
  BY <1>1, <1>3 DEF ServeLogout
<1>6. token' = token \/ token' = KillFamily(family[call[c].presented])
  BY DEF ServeLogout
<1>7. /\ token' \in [Token -> {"unused", "live", "spent", "dead"}]
      /\ \A k \in Token : token[k] # "unused" => token'[k] # "unused"
      /\ \A k \in Token : token'[k] = "spent" => token[k] = "spent"
  <2>1. CASE token' = token
    BY <1>1, <2>1 DEF StoreTypes
  <2>2. CASE token' = KillFamily(family[call[c].presented])
    BY <1>1, <2>2, KillIs DEF StoreTypes
  <2> QED
    BY <1>6, <2>1, <2>2
<1>8. StoreTypes' /\ RefreshTypes' /\ history' \in HistoryRow
      /\ shown' \in [Tabs -> {"unknown", "in", "out"}]
  BY <1>1, <1>2, <1>7 DEF StoreTypes, RefreshTypes, ShownTypes
<1>9. TypeOK' /\ call'[c] = row /\ \A d \in Calls \ {c} : call'[d] = call[d]
  BY <1>1, <1>2, <1>4, <1>5, <1>8, CallStepTypes
<1>10. \A d \in Calls : SignedIn(d)' => SignedIn(d) /\ call'[d].new = call[d].new
  BY <1>2, <1>9 DEF SignedIn
<1>11. TokenPart'
  BY <1>1, <1>2, <1>7, <1>10, TokensMove DEF StoreTypes, RefreshTypes
<1>12. CallFine(c)'
  BY <1>2 DEF CallFine, Guarded
<1>13. CallPart'
  BY <1>1, <1>9, <1>12, CallsStay
<1>14. (IInv <=> TypeOK /\ TokenPart /\ CallPart)'
  BY Parts, PTL
<1> QED
  BY <1>9, <1>11, <1>13, <1>14

-----------------------------------------------------------------------------
(* Answers arrive *)

\* Refreshes end and answers are taken in: what is in the cookies then is
\* nobody else's to bring.
LEMMA CookiesMove ==
    ASSUME TokenPart, token' = token,
           \A u \in Tabs : refresh'[u] = refresh[u] \/ refresh'[u].pc = "none",
           \A d \in Calls : SignedIn(d)' => SignedIn(d) /\ call'[d].new = call[d].new,
           \/ jar'.refresh \in {0, jar.refresh}
           \/ /\ jar'.refresh \in Token /\ token[jar'.refresh] \in {"live", "dead"}
              /\ \A u \in Tabs : Rotated(u)' => refresh'[u].new # jar'.refresh
              /\ \A d \in Calls : SignedIn(d)' => call'[d].new # jar'.refresh,
           \/ history.lost => history'.lost
           \/ \A u \in Tabs : InFlight(u)' => refresh'[u].raced,
           SpentIsExplained', SignedOutStays'
    PROVE  TokenPart'
<1>1. /\ TokensKnown /\ NewTokensFresh /\ NewTokensDiffer
      /\ RacesKnown /\ ReplaysNeedTwoTabs /\ NothingFromNothing
  BY DEF TokenPart
<1>2. \A u \in Tabs : InFlight(u)' => InFlight(u) /\ refresh'[u] = refresh[u]
  BY DEF InFlight
<1>3. \A u \in Tabs : Rotated(u)' => Rotated(u) /\ InFlight(u)' /\ refresh'[u] = refresh[u]
  BY DEF Rotated, InFlight
<1>4. TokensKnown'
  BY <1>1, <1>2 DEF TokensKnown, Known
<1>5. ASSUME NEW k, Fresh(k), k # jar'.refresh
      PROVE  Fresh(k)'
  BY <1>2, <1>5 DEF Fresh
<1>6. \A k : Fresh(k) => k # 0 /\ k # jar.refresh
  BY Constants DEF Fresh
<1>7. NewTokensFresh'
  <2>1. ASSUME NEW u \in Tabs, Rotated(u)'
        PROVE  Fresh(refresh[u].new)' /\ refresh'[u] = refresh[u]
    <3>1. Fresh(refresh[u].new) /\ refresh'[u] = refresh[u]
      BY <1>1, <1>3, <2>1 DEF NewTokensFresh
    <3>2. refresh[u].new # jar'.refresh
      BY <1>6, <2>1, <3>1
    <3> QED
      BY <1>5, <3>1, <3>2
  <2>2. ASSUME NEW d \in Calls, SignedIn(d)'
        PROVE  Fresh(call[d].new)' /\ call'[d].new = call[d].new
    <3>1. Fresh(call[d].new) /\ call'[d].new = call[d].new
      BY <1>1, <2>2 DEF NewTokensFresh
    <3>2. call[d].new # jar'.refresh
      BY <1>6, <2>2, <3>1
    <3> QED
      BY <1>5, <3>1, <3>2
  <2> QED
    BY <2>1, <2>2 DEF NewTokensFresh, Fresh
<1>8. NewTokensDiffer'
  BY <1>1, <1>3 DEF NewTokensDiffer
<1>9. RacesKnown' /\ NothingFromNothing'
  BY <1>1, <1>2, <1>3 DEF RacesKnown, NothingFromNothing, Rotated, InFlight
<1>10. ReplaysNeedTwoTabs'
  BY <1>1, <1>2 DEF ReplaysNeedTwoTabs, InFlight
<1> QED
  BY <1>4, <1>7, <1>8, <1>9, <1>10 DEF TokenPart

LEMMA AnsweredStep ==
    ASSUME IInv, NEW c \in Calls, Answered(c), Watch
    PROVE  IInv'
<1>1. /\ TypeOK /\ TokenPart /\ CallPart /\ StoreTypes /\ RefreshTypes /\ ShownTypes
      /\ call \in [Calls -> CallRow]
  BY Parts, TypesSplit DEF CallTypes
<1>2. /\ UNCHANGED <<token, family, refresh>>
      /\ call[c].pc = "served" /\ call[c].reply = "ok" /\ jar' = CookiesAfter(c)
  BY DEF Answered
<1>3. PICK row \in CallRow : row = Ended(c, "ok")
  BY EndedIs
<1>4. row.pc = "done" /\ row.reply = "ok" /\ call' = [call EXCEPT ![c] = row]
  BY <1>3, EndedIs DEF Answered
<1>5. shown' \in [Tabs -> {"unknown", "in", "out"}]
  BY <1>1, Constants DEF Answered, ShownAfter, ShownTypes
<1>6. PICK flying \in BOOLEAN : flying = \E t \in Tabs : refresh[t].pc # "none"
  OBVIOUS
<1>7. history' = [lost |-> history.lost /\ (Kind[c] # "login" \/ flying),
                  crossed |-> history.crossed \/ (Kind[c] = "logout" /\ flying),
                  signedOut |-> Kind[c] = "logout" \/ (history.signedOut /\ Kind[c] # "login")]
  BY <1>6 DEF Answered
<1>8. history \in HistoryRow /\ history' \in HistoryRow
  BY <1>1, <1>7 DEF ShownTypes, HistoryRow
<1>9. /\ history'.lost <=> history.lost /\ (Kind[c] # "login" \/ flying)
      /\ history'.crossed <=> history.crossed \/ (Kind[c] = "logout" /\ flying)
      /\ history'.signedOut <=> Kind[c] = "logout" \/ (history.signedOut /\ Kind[c] # "login")
  BY <1>7
<1>10. CallFine(c)'
  BY <1>1, <1>4 DEF CallFine, Guarded
<1>11. CASE Kind[c] \notin {"login", "logout"}
  <2>1. jar' = jar
    BY <1>2, <1>11 DEF CookiesAfter
  <2>2. history'.lost = history.lost
    BY <1>8, <1>9, <1>11 DEF HistoryRow
  <2>3. (history'.signedOut => history.signedOut) /\ (history.crossed => history'.crossed)
    BY <1>9, <1>11
  <2> QED
    BY <1>2, <1>4, <1>5, <1>8, <1>10, <2>1, <2>2, <2>3, PlainCallStep
<1>12. CASE Kind[c] \in {"login", "logout"}
  <2>1. \/ Kind[c] = "login" /\ jar' = [access |-> "live", refresh |-> call[c].new]
        \/ Kind[c] = "logout" /\ jar' = NoCookies
    BY <1>2, <1>12 DEF CookiesAfter
  <2>2. jar' \in Cookies
    BY <1>1, <2>1 DEF Cookies, NoCookies, CallRow
  <2>3. StoreTypes' /\ RefreshTypes'
    BY <1>1, <1>2, <2>2 DEF StoreTypes, RefreshTypes
  <2>4. TypeOK' /\ call'[c] = row /\ \A d \in Calls \ {c} : call'[d] = call[d]
    BY <1>1, <1>2, <1>4, <1>5, <1>8, <2>3, CallStepTypes
  <2>5. \A d \in Calls : SignedIn(d)' => d # c /\ SignedIn(d) /\ call'[d].new = call[d].new
    BY <1>4, <2>4 DEF SignedIn
  <2>6. \A u \in Tabs : /\ refresh'[u] = refresh[u]
                        /\ InFlight(u)' <=> InFlight(u)
                        /\ Rotated(u)' <=> Rotated(u)
    BY <1>2 DEF InFlight, Rotated
  <2>7. CASE Kind[c] = "logout"
    <3>1. jar' = NoCookies /\ jar'.refresh = 0
      BY <2>1, <2>7 DEF NoCookies
    <3>2. SpentIsExplained'
      BY <3>1 DEF SpentIsExplained
    <3>3. SignedOutStays'
      BY <1>6, <1>9, <2>6, <2>7, <3>1 DEF SignedOutStays, InFlight
    <3>4. history.lost => history'.lost
      BY <1>9, <2>7
    <3>5. TokenPart'
      BY <1>1, <1>2, <2>5, <2>6, <3>1, <3>2, <3>3, <3>4, CookiesMove
    <3>c. CallPart'
      BY <1>1, <1>10, <2>4, CallsStay
    <3> QED
      BY <2>4, <3>5, <3>c, PartsAfter
  <2>8. CASE Kind[c] = "login"
    <3>1. jar'.refresh = call[c].new
      BY <2>1, <2>8
    <3>2. SignedIn(c) /\ Fresh(call[c].new)
      BY <1>1, <1>2, <2>8 DEF SignedIn, TokenPart, NewTokensFresh
    <3>3. jar'.refresh \in Token /\ token[jar'.refresh] \in {"live", "dead"}
      BY <3>1, <3>2 DEF Fresh
    <3>4. \A u \in Tabs : Rotated(u)' => refresh'[u].new # jar'.refresh
      BY <1>1, <2>6, <3>1, <3>2 DEF TokenPart, NewTokensDiffer
    <3>5. \A d \in Calls : ~SignedIn(d)'
      BY <2>5, <2>8, Constants DEF SignedIn
    <3>6. SpentIsExplained'
      BY <1>2, <3>3 DEF SpentIsExplained
    <3>7. SignedOutStays'
      BY <1>9, <2>8 DEF SignedOutStays
    <3>8. (history.lost => history'.lost) \/ \A u \in Tabs : ~InFlight(u)'
      BY <1>6, <1>9, <2>6 DEF InFlight
    <3>9. TokenPart'
      BY <1>1, <1>2, <2>5, <2>6, <3>3, <3>4, <3>5, <3>6, <3>7, <3>8, CookiesMove
    <3>c. CallPart'
      BY <1>1, <1>10, <2>4, CallsStay
    <3> QED
      BY <2>4, <3>9, <3>c, PartsAfter
  <2> QED
    BY <1>12, <2>7, <2>8
<1> QED
  BY <1>11, <1>12

-----------------------------------------------------------------------------
(* A refresh *)

\* What a tab that asks for a refresh makes of the refreshes.
LEMMA AskedIs ==
    ASSUME StoreTypes, RefreshTypes, NEW t \in Tabs, refresh[t].pc = "none",
           refresh' = RefreshAsked(t)
    PROVE  /\ RefreshTypes'
           /\ refresh'[t].pc = "sent" /\ refresh'[t].presented = jar.refresh
           /\ (\E u \in Tabs \ {t} : InFlight(u)) => refresh'[t].raced
           /\ \A u \in Tabs \ {t} :
                 /\ refresh'[u].pc = refresh[u].pc /\ refresh'[u].reply = refresh[u].reply
                 /\ refresh'[u].new = refresh[u].new
                 /\ refresh'[u].presented = refresh[u].presented
                 /\ InFlight(u) => refresh'[u].raced
<1>1. /\ jar.refresh \in {0} \cup Token /\ refresh \in [Tabs -> RefreshRow]
      /\ Overlapping(t) \in BOOLEAN
  BY DEF StoreTypes, Cookies, RefreshTypes, Overlapping
<1>2. PICK b \in BOOLEAN : b = Overlapping(t)
  BY <1>1
<1>3. PICK asked : asked = [NoRefresh EXCEPT !.pc = "sent", !.presented = jar.refresh, !.raced = b]
  OBVIOUS
<1>4. /\ asked \in RefreshRow /\ asked.pc = "sent" /\ asked.presented = jar.refresh
      /\ asked.raced <=> b
  BY <1>1, <1>3 DEF NoRefresh, RefreshRow
<1>5. \A u \in Tabs :
        refresh'[u] = IF u = t THEN asked
                      ELSE IF refresh[u].pc # "none" THEN [refresh[u] EXCEPT !.raced = TRUE]
                      ELSE refresh[u]
  BY <1>2, <1>3 DEF RefreshAsked
<1>6. ASSUME NEW u \in Tabs \ {t}
      PROVE  /\ refresh'[u] \in RefreshRow
             /\ refresh'[u].pc = refresh[u].pc /\ refresh'[u].reply = refresh[u].reply
             /\ refresh'[u].new = refresh[u].new
             /\ refresh'[u].presented = refresh[u].presented
             /\ InFlight(u) => refresh'[u].raced
  <2>1. PICK q \in RefreshRow : q = refresh[u]
    BY <1>1
  <2>2. CASE q.pc # "none"
    <3>1. PICK p : p = [q EXCEPT !.raced = TRUE]
      OBVIOUS
    <3>2. /\ p \in RefreshRow /\ p.pc = q.pc /\ p.reply = q.reply /\ p.new = q.new
          /\ p.presented = q.presented /\ p.raced
      BY <3>1 DEF RefreshRow
    <3>3. refresh'[u] = p
      BY <1>5, <2>1, <2>2, <3>1
    <3> QED
      BY <2>1, <3>2, <3>3
  <2>3. CASE q.pc = "none"
    BY <1>5, <2>1, <2>3 DEF InFlight
  <2> QED
    BY <2>2, <2>3
<1>7. (\E u \in Tabs \ {t} : InFlight(u)) => b
  BY <1>2 DEF Overlapping, InFlight
<1>8. refresh' \in [Tabs -> RefreshRow]
  <2>1. \A u \in Tabs : refresh'[u] \in RefreshRow
    BY <1>4, <1>5, <1>6
  <2>2. DOMAIN refresh' = Tabs /\ refresh' = [u \in Tabs |-> refresh'[u]]
    BY DEF RefreshAsked
  <2> QED
    BY <2>1, <2>2
<1> QED
  BY <1>4, <1>5, <1>6, <1>7, <1>8 DEF RefreshTypes

LEMMA UnauthorizedStep ==
    ASSUME IInv, NEW c \in Calls, Unauthorized(c), Watch
    PROVE  IInv'
<1>1. /\ TypeOK /\ TokenPart /\ CallPart /\ StoreTypes /\ RefreshTypes /\ ShownTypes
      /\ call \in [Calls -> CallRow] /\ history \in HistoryRow
  BY Parts, TypesSplit DEF CallTypes, ShownTypes
<1>2. PICK t \in Tabs : t = TabOf[c]
  BY Constants
<1>3. UNCHANGED <<token, family, jar, shown>>
  BY DEF Unauthorized
<1>4. PICK row : row = [call[c] EXCEPT !.pc = "waiting"]
  OBVIOUS
<1>5. row \in CallRow /\ row.pc = "waiting"
  BY <1>1, <1>4 DEF CallRow
<1>6. call' = [call EXCEPT ![c] = row]
  BY <1>1, <1>4 DEF Unauthorized
<1>7. CallFine(c)'
  BY <1>1, <1>5, <1>6 DEF CallFine, Guarded
<1>8. CASE refresh[t].pc # "none"
  <2>1. UNCHANGED <<refresh, history>>
    BY <1>2, <1>8 DEF Unauthorized
  <2> QED
    BY <1>1, <1>2, <1>3, <1>5, <1>6, <1>7, <1>8, <2>1, PlainCallStep DEF ShownTypes
<1>9. CASE refresh[t].pc = "none"
  <2>1. refresh' = RefreshAsked(t)
    BY <1>2, <1>9 DEF Unauthorized
  <2>2. PICK x \in BOOLEAN : x = (history.crossed \/ \E d \in Calls : Kind[d] = "logout" /\ Busy(d))
    OBVIOUS
  <2>3. history' = [history EXCEPT !.crossed = x] /\ (history.crossed => x)
    BY <1>2, <1>9, <2>2 DEF Unauthorized
  <2>4. /\ history' \in HistoryRow
        /\ history'.lost <=> history.lost
        /\ history'.signedOut <=> history.signedOut
        /\ history.crossed => history'.crossed
    BY <1>1, <2>3 DEF HistoryRow
  <2>5. /\ RefreshTypes'
        /\ refresh'[t].pc = "sent" /\ refresh'[t].presented = jar.refresh
        /\ (\E u \in Tabs \ {t} : InFlight(u)) => refresh'[t].raced
        /\ \A u \in Tabs \ {t} :
              /\ refresh'[u].pc = refresh[u].pc /\ refresh'[u].reply = refresh[u].reply
              /\ refresh'[u].new = refresh[u].new
              /\ refresh'[u].presented = refresh[u].presented
              /\ InFlight(u) => refresh'[u].raced
    BY <1>1, <1>9, <2>1, AskedIs
  <2>6. StoreTypes'
    BY <1>1, <1>3 DEF StoreTypes
  <2>7. TypeOK' /\ call'[c] = row /\ \A d \in Calls \ {c} : call'[d] = call[d]
    <3>1. \A u \in Tabs : refresh[u].pc # "none" => refresh'[u].pc # "none"
      BY <2>5
    <3>2. refresh'[TabOf[c]].pc # "none" /\ shown' \in [Tabs -> {"unknown", "in", "out"}]
      BY <1>1, <1>2, <1>3, <2>5 DEF ShownTypes
    <3>3. TypeOK /\ RefreshTypes' /\ history' \in HistoryRow
      BY <1>1, <2>4, <2>5
    <3> QED
      BY <1>5, <1>6, <2>6, <3>1, <3>2, <3>3, CallStepTypes
  <2>8. /\ \A u \in Tabs : Rotated(u)' <=> Rotated(u)
        /\ \A u \in Tabs : InFlight(u)' <=> u = t \/ InFlight(u)
        /\ \A u \in Tabs : Rotated(u) => u # t
    BY <1>9, <2>5 DEF Rotated, InFlight
  <2>9. \A d \in Calls : SignedIn(d)' => SignedIn(d) /\ call'[d].new = call[d].new
    BY <1>5, <2>7 DEF SignedIn
  <2>10. /\ TokensKnown /\ NewTokensFresh /\ NewTokensDiffer
         /\ RacesKnown /\ SpentIsExplained /\ ReplaysNeedTwoTabs
         /\ NothingFromNothing /\ SignedOutStays
    BY <1>1 DEF TokenPart
  <2>11. TokensKnown'
    BY <1>3, <2>5, <2>8, <2>10 DEF TokensKnown, Known
  <2>12. \A k : Fresh(k) => Fresh(k)'
    BY <1>3, <2>5, <2>8 DEF Fresh
  <2>13. NewTokensFresh'
    <3>1. ASSUME NEW u \in Tabs, Rotated(u)'
          PROVE  Fresh(refresh[u].new)' /\ refresh'[u].new = refresh[u].new
      BY <2>5, <2>8, <2>10, <2>12, <3>1 DEF NewTokensFresh
    <3>2. ASSUME NEW d \in Calls, SignedIn(d)'
          PROVE  Fresh(call[d].new)' /\ call'[d].new = call[d].new
      BY <2>9, <2>10, <2>12, <3>2 DEF NewTokensFresh
    <3> QED
      BY <3>1, <3>2 DEF NewTokensFresh, Fresh
  <2>14. NewTokensDiffer'
    BY <2>5, <2>8, <2>9, <2>10 DEF NewTokensDiffer
  <2>15. RacesKnown'
    BY <2>5, <2>8 DEF RacesKnown
  <2>16. SpentIsExplained'
    BY <1>3, <2>4, <2>8, <2>10 DEF SpentIsExplained
  <2>17. ReplaysNeedTwoTabs'
    <3> SUFFICES ASSUME NEW u \in Tabs, refresh'[u].pc = "sent", refresh'[u].presented # 0,
                        token[refresh'[u].presented] = "spent", ~history.lost
                 PROVE  refresh'[u].raced
      BY <1>3, <2>4 DEF ReplaysNeedTwoTabs
    <3>1. CASE u = t
      <4>1. PICK v \in Tabs : Rotated(v)
        BY <2>5, <2>10, <3>1 DEF SpentIsExplained
      <4>2. v \in Tabs \ {t} /\ InFlight(v)
        BY <2>8, <4>1 DEF Rotated, InFlight
      <4> QED
        BY <2>5, <3>1, <4>2
    <3>2. CASE u # t
      BY <2>5, <3>2 DEF InFlight
    <3> QED
      BY <3>1, <3>2
  <2>18. NothingFromNothing'
    BY <2>5, <2>8, <2>10 DEF NothingFromNothing
  <2>19. SignedOutStays'
    <3>1. jar = NoCookies => jar.refresh = 0
      BY DEF NoCookies
    <3> QED
      BY <1>3, <2>4, <2>5, <2>8, <2>10, <3>1 DEF SignedOutStays
  <2>20. TokenPart'
    BY <2>11, <2>13, <2>14, <2>15, <2>16, <2>17, <2>18, <2>19 DEF TokenPart
  <2>21. CallPart'
    BY <1>1, <1>7, <2>7, CallsStay
  <2> QED
    BY <2>7, <2>20, <2>21, PartsAfter
<1> QED
  BY <1>8, <1>9

LEMMA ServeRefreshStep ==
    ASSUME IInv, NEW t \in Tabs, ServeRefresh(t), Watch
    PROVE  IInv'
<1>1. /\ TypeOK /\ TokenPart /\ CallPart /\ StoreTypes /\ RefreshTypes /\ CallTypes /\ ShownTypes
      /\ WaitersAreServed /\ refresh \in [Tabs -> RefreshRow] /\ jar \in Cookies
  BY Parts, TypesSplit DEF RefreshTypes, StoreTypes
<1>2. /\ TokensKnown /\ NewTokensFresh /\ NewTokensDiffer
      /\ RacesKnown /\ SpentIsExplained /\ ReplaysNeedTwoTabs
      /\ NothingFromNothing /\ SignedOutStays
  BY <1>1 DEF TokenPart
<1>3. UNCHANGED <<jar, call, shown, history>> /\ refresh[t].pc = "sent"
  BY DEF ServeRefresh
<1>4. PICK p \in {0} \cup Token : p = refresh[t].presented
  BY <1>1 DEF RefreshRow
<1>5. ASSUME NEW reply \in {"ok", "401", "failed"}, NEW k \in {0} \cup Token, StoreTypes', TokenPart',
             refresh' = [refresh EXCEPT ![t].pc = "served", ![t].reply = reply, ![t].new = k]
      PROVE  IInv'
  <2>1. RefreshTypes' /\ \A u \in Tabs : refresh[u].pc # "none" => refresh'[u].pc # "none"
    <3>1. PICK row : row = [refresh[t] EXCEPT !.pc = "served", !.reply = reply, !.new = k]
      OBVIOUS
    <3>2. row \in RefreshRow /\ row.pc = "served"
      BY <1>1, <3>1 DEF RefreshRow
    <3>3. refresh' = [refresh EXCEPT ![t] = row]
      BY <1>1, <1>5, <3>1
    <3> QED
      BY <1>1, <3>2, <3>3 DEF RefreshTypes
  <2>2. CallTypes' /\ WaitersAreServed'
    BY <1>1, <1>3, <2>1, Constants DEF CallTypes, WaitersAreServed
  <2>3. ShownTypes'
    BY <1>1, <1>3, WatchGrows DEF ShownTypes
  <2>4. CallPart'
    BY <1>1, <1>3, CallsStay
  <2>5. (TypeOK <=> StoreTypes /\ RefreshTypes /\ CallTypes /\ ShownTypes /\ WaitersAreServed)'
    BY TypesSplit, PTL
  <2> QED
    BY <1>5, <2>1, <2>2, <2>3, <2>4, <2>5, PartsAfter
<1>6. ASSUME NEW reply \in {"401", "failed"}, NEW kept,
             kept \in [Token -> {"unused", "live", "spent", "dead"}],
             \A k \in Token : kept[k] \in {token[k], "dead"},
             \A k \in Token : token[k] = "unused" <=> kept[k] = "unused",
             token' = kept, family' = family,
             refresh' = [refresh EXCEPT ![t].pc = "served", ![t].reply = reply, ![t].new = 0]
      PROVE  IInv'
  <2>1. /\ refresh'[t].pc = "served" /\ refresh'[t].reply = reply /\ refresh'[t].presented = p
        /\ refresh'[t].raced = refresh[t].raced /\ refresh'[t].new = 0
        /\ \A u \in Tabs \ {t} : refresh'[u] = refresh[u]
    BY <1>1, <1>4, <1>6 DEF RefreshRow
  <2>2. /\ \A u \in Tabs : Rotated(u)' <=> Rotated(u)
        /\ \A u \in Tabs : InFlight(u)' <=> InFlight(u)
        /\ \A u \in Tabs : Rotated(u) => u # t
        /\ \A u \in Tabs : refresh'[u].presented = refresh[u].presented
    BY <1>3, <1>4, <2>1 DEF Rotated, InFlight
  <2>3. \A c \in Calls : SignedIn(c)' <=> SignedIn(c)
    BY <1>3 DEF SignedIn
  <2>4. jar.refresh \in {0} \cup Token /\ \A u \in Tabs : refresh[u].presented \in {0} \cup Token
    BY <1>1 DEF Cookies, RefreshRow
  <2>5. TokensKnown'
    BY <1>2, <1>3, <1>6, <2>2, <2>4 DEF TokensKnown, Known
  <2>6. \A k : Fresh(k) => Fresh(k)'
    BY <1>3, <1>6, <2>2 DEF Fresh
  <2>7. NewTokensFresh'
    <3>1. ASSUME NEW u \in Tabs, Rotated(u)'
          PROVE  Fresh(refresh[u].new)' /\ refresh'[u] = refresh[u]
      BY <1>2, <2>1, <2>2, <2>6, <3>1 DEF NewTokensFresh
    <3>2. ASSUME NEW d \in Calls, SignedIn(d)'
          PROVE  Fresh(call[d].new)' /\ call'[d].new = call[d].new
      BY <1>2, <1>3, <2>3, <2>6, <3>2 DEF NewTokensFresh
    <3> QED
      BY <3>1, <3>2 DEF NewTokensFresh, Fresh
  <2>8. NewTokensDiffer'
    BY <1>2, <1>3, <2>1, <2>2, <2>3 DEF NewTokensDiffer
  <2>9. RacesKnown' /\ NothingFromNothing' /\ SignedOutStays'
    BY <1>2, <1>3, <2>1, <2>2 DEF RacesKnown, NothingFromNothing, SignedOutStays
  <2>10. SpentIsExplained'
    BY <1>2, <1>3, <1>6, <2>2, <2>4 DEF SpentIsExplained
  <2>11. ReplaysNeedTwoTabs'
    <3> SUFFICES ASSUME NEW u \in Tabs, refresh'[u].pc = "sent", refresh'[u].presented # 0,
                        token'[refresh'[u].presented] = "spent", ~history.lost
                 PROVE  refresh'[u].raced
      BY <1>3 DEF ReplaysNeedTwoTabs
    <3>1. u # t /\ refresh'[u] = refresh[u] /\ refresh[u].pc = "sent"
          /\ refresh[u].presented \in Token
      BY <2>1, <2>4
    <3>2. token[refresh[u].presented] = "spent"
      BY <1>6, <3>1
    <3> QED
      BY <1>2, <3>1, <3>2 DEF ReplaysNeedTwoTabs
  <2>12. TokenPart'
    BY <2>5, <2>7, <2>8, <2>9, <2>10, <2>11 DEF TokenPart
  <2>13. StoreTypes'
    BY <1>1, <1>3, <1>6 DEF StoreTypes
  <2> QED
    BY <1>5, <1>6, <2>12, <2>13
<1>7. ASSUME NEW k \in Token, p # 0, token[p] \in {"live", "spent"}, Issued(k, family[p]),
             token' = [token EXCEPT ![k] = "live", ![p] = "spent"], NEW reply \in {"ok", "failed"},
             refresh' = [refresh EXCEPT ![t].pc = "served", ![t].reply = reply, ![t].new = k]
      PROVE  IInv'
  <2>1. /\ refresh'[t].pc = "served" /\ refresh'[t].reply = reply /\ refresh'[t].presented = p
        /\ refresh'[t].raced = refresh[t].raced /\ refresh'[t].new = k
        /\ \A u \in Tabs \ {t} : refresh'[u] = refresh[u]
    BY <1>1, <1>4, <1>7 DEF RefreshRow
  <2>2. /\ \A u \in Tabs : Rotated(u)' <=> u = t \/ Rotated(u)
        /\ \A u \in Tabs : InFlight(u)' <=> InFlight(u)
        /\ \A u \in Tabs : Rotated(u) => u # t
        /\ \A u \in Tabs : refresh'[u].presented = refresh[u].presented
        /\ InFlight(t)
    <3>1. k # 0
      BY Constants
    <3> QED
      BY <1>3, <1>4, <2>1, <3>1 DEF Rotated, InFlight
  <2>3. \A c \in Calls : SignedIn(c)' <=> SignedIn(c)
    BY <1>3 DEF SignedIn
  <2>4. token[k] = "unused" /\ family' = [family EXCEPT ![k] = family[p]] /\ p \in Token /\ p # k
    BY <1>7 DEF Issued
  <2>5. /\ k # 0 /\ k # jar.refresh
        /\ \A u \in Tabs : InFlight(u) => refresh[u].presented # k
        /\ \A u \in Tabs : Rotated(u) => refresh[u].new # k
        /\ \A c \in Calls : SignedIn(c) => call[c].new # k
    BY <1>1, <2>4, UnusedIsNobodys
  <2>6. StoreTypes'
    BY <1>1, <1>3, <1>7, <2>4 DEF StoreTypes
  <2>7. /\ token'[k] = "live" /\ token'[p] = "spent"
        /\ \A j \in Token : j # k /\ j # p => token'[j] = token[j]
    BY <1>1, <1>7, <2>4 DEF StoreTypes
  <2>8. jar.refresh \in {0} \cup Token /\ \A u \in Tabs : refresh[u].presented \in {0} \cup Token
    BY <1>1 DEF Cookies, RefreshRow
  <2>9. TokensKnown'
    BY <1>2, <1>3, <2>2, <2>4, <2>7, <2>8 DEF TokensKnown, Known
  <2>10. \A j : Fresh(j) /\ j # k => Fresh(j)'
    BY <1>3, <1>4, <2>2, <2>7 DEF Fresh
  <2>11. Fresh(k)'
    BY <1>3, <2>2, <2>5, <2>7 DEF Fresh
  <2>12. NewTokensFresh'
    <3>1. ASSUME NEW u \in Tabs, Rotated(u)'
          PROVE  /\ refresh'[u].new \in Token /\ token'[refresh'[u].new] \in {"live", "dead"}
                 /\ refresh'[u].new # jar'.refresh
                 /\ \A v \in Tabs : InFlight(v)' => refresh'[v].presented # refresh'[u].new
      <4>1. CASE u = t
        BY <2>1, <2>11, <4>1 DEF Fresh
      <4>2. CASE u # t
        <5>1. Fresh(refresh[u].new) /\ refresh[u].new # k /\ refresh'[u] = refresh[u]
          BY <1>2, <2>1, <2>2, <2>5, <3>1, <4>2 DEF NewTokensFresh
        <5>2. Fresh(refresh[u].new)'
          BY <2>10, <5>1
        <5> QED
          BY <5>1, <5>2 DEF Fresh
      <4> QED
        BY <4>1, <4>2
    <3>2. ASSUME NEW d \in Calls, SignedIn(d)'
          PROVE  Fresh(call[d].new)' /\ call'[d].new = call[d].new
      BY <1>2, <1>3, <2>3, <2>5, <2>10, <3>2 DEF NewTokensFresh
    <3> QED
      BY <3>1, <3>2 DEF NewTokensFresh, Fresh
  <2>13. NewTokensDiffer'
    BY <1>2, <1>3, <2>1, <2>2, <2>3, <2>5 DEF NewTokensDiffer
  <2>14. RacesKnown' /\ NothingFromNothing'
    BY <1>2, <1>7, <2>1, <2>2 DEF RacesKnown, NothingFromNothing
  <2>15. SignedOutStays'
    BY <1>2, <1>3, <2>2 DEF SignedOutStays
  <2>16. SpentIsExplained'
    BY <2>2 DEF SpentIsExplained
  <2>17. ReplaysNeedTwoTabs'
    <3> SUFFICES ASSUME NEW u \in Tabs, refresh'[u].pc = "sent", refresh'[u].presented # 0,
                        token'[refresh'[u].presented] = "spent", ~history.lost
                 PROVE  refresh'[u].raced
      BY <1>3 DEF ReplaysNeedTwoTabs
    <3>1. u # t /\ refresh'[u] = refresh[u] /\ InFlight(u) /\ refresh[u].pc = "sent"
          /\ refresh[u].presented \in Token
      BY <2>1, <2>8 DEF InFlight
    <3>2. refresh[u].raced
      BY <1>2, <2>2, <3>1 DEF RacesKnown
    <3> QED
      BY <3>1, <3>2
  <2>18. TokenPart'
    BY <2>9, <2>12, <2>13, <2>14, <2>15, <2>16, <2>17 DEF TokenPart
  <2> QED
    BY <1>5, <1>7, <2>6, <2>18
<1>8. CASE /\ token' = KillFamily(family[p]) /\ UNCHANGED family
           /\ refresh' = [refresh EXCEPT ![t].pc = "served", ![t].reply = "401", ![t].new = 0]
  BY <1>1, <1>6, <1>8, KillIs
<1>9. CASE /\ UNCHANGED <<token, family>>
           /\ \/ refresh' = [refresh EXCEPT ![t].pc = "served", ![t].reply = "401", ![t].new = 0]
              \/ refresh' = [refresh EXCEPT ![t].pc = "served", ![t].reply = "failed", ![t].new = 0]
  BY <1>1, <1>6, <1>9 DEF StoreTypes
<1>10. CASE /\ p # 0 /\ token[p] \in {"live", "spent"}
            /\ token' = [token EXCEPT ![p] = "dead"] /\ UNCHANGED family
            /\ refresh' = [refresh EXCEPT ![t].pc = "served", ![t].reply = "401", ![t].new = 0]
  BY <1>1, <1>6, <1>10 DEF StoreTypes
<1> QED
  BY <1>4, <1>7, <1>8, <1>9, <1>10 DEF ServeRefresh

\* The refresh of t is over: its calls go on, the others know nothing of it.
LEMMA ResumeIs ==
    ASSUME CallTypes, WaitersAreServed, NEW t \in Tabs, NEW ok \in BOOLEAN, NEW cookies \in Cookies,
           Resume(t, ok, cookies), ok => cookies.access = "live",
           refresh' = [refresh EXCEPT ![t] = NoRefresh], RefreshTypes
    PROVE  /\ CallTypes' /\ WaitersAreServed' /\ RefreshTypes'
           /\ \A c \in Calls : SignedIn(c)' => SignedIn(c) /\ call'[c].new = call[c].new
           /\ \A c \in Calls :
                 \/ call'[c] = call[c]
                 \/ /\ TabOf[c] = t /\ call[c].pc = "waiting"
                    /\ \/ call'[c].pc = "sent" /\ (Guarded(c) => call'[c].access = "live")
                       \/ ~ok /\ call'[c].pc = "done"
           /\ ~InFlight(t)' /\ ~Rotated(t)'
           /\ \A u \in Tabs \ {t} : refresh'[u] = refresh[u]
<1>1. ASSUME NEW c \in Calls
      PROVE  /\ call'[c] \in CallRow
             /\ \/ call'[c] = call[c] /\ ~(TabOf[c] = t /\ call[c].pc = "waiting")
                \/ /\ TabOf[c] = t /\ call[c].pc = "waiting"
                   /\ \/ call'[c].pc = "sent" /\ (Guarded(c) => call'[c].access = "live")
                      \/ ~ok /\ call'[c].pc = "done"
  <2>1. CASE c \notin Waiting(t)
    <3>1. call'[c] = call[c]
      BY <2>1 DEF Resume
    <3> QED
      BY <2>1, <3>1 DEF CallTypes, Waiting
  <2>2. CASE c \in Waiting(t) /\ ok
    <3>1. call'[c] = Sent(c, cookies, TRUE)
      BY <2>2 DEF Resume
    <3>2. /\ Sent(c, cookies, TRUE) \in CallRow
          /\ Sent(c, cookies, TRUE).pc = "sent"
          /\ Guarded(c) => Sent(c, cookies, TRUE).access = cookies.access
      BY SentIs
    <3> QED
      BY <2>2, <3>1, <3>2 DEF Waiting
  <2>3. CASE c \in Waiting(t) /\ ~ok
    <3>1. call'[c] = Ended(c, "401")
      BY <2>3 DEF Resume
    <3> QED
      BY <2>3, <3>1, EndedIs DEF Waiting
  <2> QED
    BY <2>1, <2>2, <2>3
<1>2. CallTypes'
  <2>1. call' = [c \in Calls |-> call'[c]]
    BY DEF Resume
  <2> QED
    BY <1>1, <2>1 DEF CallTypes
<1>3. ~InFlight(t)' /\ ~Rotated(t)' /\ RefreshTypes'
  BY NoRefreshIs DEF RefreshTypes, InFlight, Rotated
<1>4. \A u \in Tabs \ {t} : refresh'[u] = refresh[u]
  BY DEF RefreshTypes
<1>5. WaitersAreServed'
  BY <1>1, <1>4, Constants DEF WaitersAreServed
<1>6. \A c \in Calls : SignedIn(c)' => SignedIn(c) /\ call'[c].new = call[c].new
  BY <1>1 DEF SignedIn
<1> QED
  BY <1>1, <1>2, <1>3, <1>4, <1>5, <1>6

\* The end of a refresh, whatever it set: cookies, no cookies, or nothing; an
\* error and nothing cut off those who waited for it.
LEMMA RefreshEnds ==
    ASSUME IInv, NEW t \in Tabs, NEW ok \in BOOLEAN, NEW cookies \in Cookies, Watch,
           Resume(t, ok, cookies), ok => cookies.access = "live",
           refresh[t].pc # "none", refresh' = [refresh EXCEPT ![t] = NoRefresh],
           UNCHANGED <<token, family>>,
           shown' \in [Tabs -> {"unknown", "in", "out"}], history' \in HistoryRow,
           jar' = cookies, ~ok => jar' = jar \/ jar'.refresh = 0 \/ refresh[t].reply = "failed",
           TokenPart'
    PROVE  IInv'
<1>1. /\ TypeOK /\ CallPart /\ StoreTypes /\ RefreshTypes /\ CallTypes /\ ShownTypes /\ WaitersAreServed
  BY Parts, TypesSplit
<1>2. /\ CallTypes' /\ WaitersAreServed' /\ RefreshTypes'
      /\ \A c \in Calls :
            \/ call'[c] = call[c]
            \/ /\ TabOf[c] = t /\ call[c].pc = "waiting"
               /\ \/ call'[c].pc = "sent" /\ (Guarded(c) => call'[c].access = "live")
                  \/ ~ok /\ call'[c].pc = "done"
  BY <1>1, ResumeIs
<1>3. StoreTypes' /\ ShownTypes'
  BY <1>1, WatchGrows DEF StoreTypes, ShownTypes
<1>4. TypeOK'
  <2>1. (TypeOK <=> StoreTypes /\ RefreshTypes /\ CallTypes /\ ShownTypes /\ WaitersAreServed)'
    BY TypesSplit, PTL
  <2> QED
    BY <1>2, <1>3, <2>1
<1>5. refresh'[t] # refresh[t]
  BY <1>1, NoRefreshIs DEF RefreshTypes
<1>6. ASSUME NEW c \in Calls, call'[c] # call[c]
      PROVE  CallFine(c)'
  <2>1. CASE call'[c].pc = "sent" /\ (Guarded(c) => call'[c].access = "live")
    BY <2>1 DEF CallFine, Guarded
  <2>2. CASE ~ok /\ call'[c].pc = "done"
    <3>1. TabOf[c] = t /\ call[c].pc = "waiting"
      BY <1>2, <1>6
    <3> SUFFICES ASSUME Guarded(c)
                 PROVE  c \in over' \cup cut'
      BY <2>2 DEF CallFine, Guarded
    <3>2. CASE jar' = jar \/ refresh[t].reply = "failed"
      <4>1. CutOff(t)
        BY <1>5, <3>2 DEF CutOff
      <4> QED
        BY <2>2, <3>1, <4>1 DEF Watch
    <3>3. CASE jar'.refresh = 0
      <4>1. Over'
        BY <3>3 DEF Over, Worthless
      <4>2. Busy(c)
        BY <3>1 DEF Busy
      <4> QED
        BY <4>1, <4>2 DEF Watch
    <3> QED
      BY <2>2, <3>2, <3>3
  <2> QED
    BY <1>2, <1>6, <2>1, <2>2
<1>7. CallPart'
  BY <1>1, <1>6, CallsStay
<1> QED
  BY <1>4, <1>7, PartsAfter

LEMMA RefreshAnsweredStep ==
    ASSUME IInv, NEW t \in Tabs, RefreshAnswered(t), Watch
    PROVE  IInv'
<1>1. /\ TypeOK /\ TokenPart /\ CallPart /\ StoreTypes /\ RefreshTypes /\ CallTypes /\ ShownTypes
      /\ WaitersAreServed /\ refresh \in [Tabs -> RefreshRow] /\ jar \in Cookies
      /\ history \in HistoryRow
  BY Parts, TypesSplit DEF RefreshTypes, StoreTypes, ShownTypes
<1>2. /\ TokensKnown /\ NewTokensFresh /\ NewTokensDiffer
      /\ RacesKnown /\ SpentIsExplained /\ ReplaysNeedTwoTabs
      /\ NothingFromNothing /\ SignedOutStays
  BY <1>1 DEF TokenPart
<1>3. /\ refresh[t].pc = "served" /\ refresh' = [refresh EXCEPT ![t] = NoRefresh]
      /\ UNCHANGED <<token, family>>
  BY DEF RefreshAnswered
<1>4. PICK ok \in BOOLEAN : ok <=> refresh[t].reply = "ok"
  OBVIOUS
<1>a. PICK new \in BOOLEAN : new <=> refresh[t].new # 0
  OBVIOUS
<1>b. (ok => new) /\ (new /\ ~ok => refresh[t].reply = "failed")
  BY <1>1, <1>2, <1>3, <1>4, <1>a DEF NothingFromNothing, Rotated, RefreshRow
<1>5. /\ Resume(t, ok, jar')
      /\ new => jar' = [access |-> "live", refresh |-> refresh[t].new]
      /\ ~new => jar' = jar \/ (refresh[t].presented # 0 /\ jar' = NoCookies)
  BY <1>4, <1>a DEF RefreshAnswered
<1>6. /\ jar' \in Cookies /\ (ok => jar'.access = "live")
      /\ ~new => jar' = jar \/ jar'.refresh = 0
      /\ ~ok => jar' = jar \/ jar'.refresh = 0 \/ refresh[t].reply = "failed"
  BY <1>1, <1>b, <1>5 DEF Cookies, NoCookies, RefreshRow
<1>7. /\ history' \in HistoryRow
      /\ history'.lost <=> history.lost /\ ~new
      /\ history'.signedOut <=> history.signedOut
      /\ history'.crossed <=> history.crossed
  BY <1>1, <1>a DEF RefreshAnswered, HistoryRow
<1>8. shown' \in [Tabs -> {"unknown", "in", "out"}]
  BY <1>1 DEF RefreshAnswered, SignedOutBy, ShownTypes
<1>9. /\ \A c \in Calls : SignedIn(c)' => SignedIn(c) /\ call'[c].new = call[c].new
      /\ ~InFlight(t)' /\ ~Rotated(t)'
      /\ \A u \in Tabs \ {t} : refresh'[u] = refresh[u]
  <2>1. PICK cookies \in Cookies : cookies = jar'
    BY <1>6
  <2>2. Resume(t, ok, cookies) /\ (ok => cookies.access = "live")
    BY <1>5, <1>6, <2>1
  <2>3. CASE ok
    <3>1. Resume(t, TRUE, cookies) /\ TRUE \in BOOLEAN
      BY <2>2, <2>3
    <3> QED
      BY <1>1, <1>3, <2>2, <2>3, <3>1, ResumeIs
  <2>4. CASE ~ok
    <3>1. Resume(t, FALSE, cookies) /\ FALSE \in BOOLEAN
      BY <2>2, <2>4
    <3> QED
      BY <1>1, <1>3, <3>1, ResumeIs
  <2> QED
    BY <2>3, <2>4
<1>10. /\ \A u \in Tabs : refresh'[u] = refresh[u] \/ refresh'[u].pc = "none"
       /\ \A u \in Tabs : InFlight(u)' <=> u # t /\ InFlight(u)
       /\ \A u \in Tabs : Rotated(u)' <=> u # t /\ Rotated(u)
       /\ InFlight(t) /\ (new <=> Rotated(t))
  BY <1>3, <1>a, <1>9 DEF InFlight, Rotated
<1>11. SpentIsExplained'
  <2>1. CASE new
    <3>1. Fresh(refresh[t].new) /\ jar'.refresh = refresh[t].new
      BY <1>2, <1>5, <1>10, <2>1 DEF NewTokensFresh
    <3> QED
      BY <1>3, <3>1 DEF Fresh, SpentIsExplained
  <2>2. CASE ~new
    <3>1. history.lost => history'.lost
      BY <1>7, <2>2
    <3>2. \A u \in Tabs : Rotated(u) => Rotated(u)'
      BY <1>10, <2>2
    <3> QED
      BY <1>2, <1>3, <1>6, <2>2, <3>1, <3>2 DEF SpentIsExplained
  <2> QED
    BY <2>1, <2>2
<1>12. SignedOutStays'
  <2> SUFFICES ASSUME history.signedOut, ~history.crossed
               PROVE  jar' = NoCookies /\ \A u \in Tabs : InFlight(u)' => refresh'[u].presented = 0
    BY <1>7 DEF SignedOutStays
  <2>1. jar = NoCookies /\ \A u \in Tabs : InFlight(u) => refresh[u].presented = 0
    BY <1>2 DEF SignedOutStays
  <2>2. ~new /\ jar' = jar
    BY <1>2, <1>5, <1>10, <2>1 DEF NothingFromNothing
  <2> QED
    BY <1>9, <1>10, <2>1, <2>2
<1>13. TokenPart'
  <2>1. \/ jar'.refresh \in {0, jar.refresh}
        \/ /\ jar'.refresh \in Token /\ token[jar'.refresh] \in {"live", "dead"}
           /\ \A u \in Tabs : Rotated(u)' => refresh'[u].new # jar'.refresh
           /\ \A d \in Calls : SignedIn(d)' => call'[d].new # jar'.refresh
    <3>1. CASE new
      <4>1. Fresh(refresh[t].new) /\ jar'.refresh = refresh[t].new
        BY <1>2, <1>5, <1>10, <3>1 DEF NewTokensFresh
      <4>2. \A u \in Tabs : Rotated(u)' => refresh'[u].new # refresh[t].new
        BY <1>2, <1>9, <1>10, <3>1 DEF NewTokensDiffer
      <4>3. \A d \in Calls : SignedIn(d)' => call'[d].new # refresh[t].new
        BY <1>2, <1>9, <1>10, <3>1 DEF NewTokensDiffer
      <4> QED
        BY <4>1, <4>2, <4>3 DEF Fresh
    <3>2. CASE ~new
      BY <1>6, <3>2
    <3> QED
      BY <3>1, <3>2
  <2>2. \/ history.lost => history'.lost
        \/ \A u \in Tabs : InFlight(u)' => refresh'[u].raced
    BY <1>2, <1>7, <1>9, <1>10 DEF RacesKnown
  <2> QED
    BY <1>1, <1>3, <1>9, <1>10, <1>11, <1>12, <2>1, <2>2, CookiesMove
<1> QED
  BY <1>3, <1>5, <1>6, <1>7, <1>8, <1>13, RefreshEnds

LEMMA RefreshFailsStep ==
    ASSUME IInv, NEW t \in Tabs, RefreshFails(t), Watch
    PROVE  IInv'
<1>1. /\ TypeOK /\ TokenPart /\ CallPart /\ StoreTypes /\ RefreshTypes /\ CallTypes /\ ShownTypes
      /\ WaitersAreServed /\ refresh \in [Tabs -> RefreshRow] /\ jar \in Cookies
      /\ history \in HistoryRow
  BY Parts, TypesSplit DEF RefreshTypes, StoreTypes, ShownTypes
<1>2. SpentIsExplained /\ SignedOutStays
  BY <1>1 DEF TokenPart
<1>3. /\ refresh[t].pc \in {"sent", "served"} /\ refresh' = [refresh EXCEPT ![t] = NoRefresh]
      /\ UNCHANGED <<token, family, jar>> /\ Resume(t, FALSE, jar)
  BY DEF RefreshFails
<1>4. /\ history' \in HistoryRow
      /\ history'.lost <=> history.lost \/ refresh[t].pc = "served"
      /\ history'.signedOut <=> history.signedOut
      /\ history'.crossed <=> history.crossed
  BY <1>1 DEF RefreshFails, HistoryRow
<1>5. shown' \in [Tabs -> {"unknown", "in", "out"}]
  BY <1>1 DEF RefreshFails, SignedOutBy, ShownTypes
<1>6. FALSE \in BOOLEAN
  OBVIOUS
<1>7. /\ \A c \in Calls : SignedIn(c)' => SignedIn(c) /\ call'[c].new = call[c].new
      /\ ~InFlight(t)' /\ ~Rotated(t)'
      /\ \A u \in Tabs \ {t} : refresh'[u] = refresh[u]
  BY <1>1, <1>3, <1>6, ResumeIs
<1>8. /\ \A u \in Tabs : refresh'[u] = refresh[u] \/ refresh'[u].pc = "none"
      /\ \A u \in Tabs : InFlight(u)' <=> u # t /\ InFlight(u)
      /\ \A u \in Tabs : Rotated(u)' <=> u # t /\ Rotated(u)
  BY <1>7 DEF InFlight, Rotated
<1>9. SpentIsExplained'
  <2>1. Rotated(t) => history'.lost
    BY <1>4 DEF Rotated
  <2> QED
    BY <1>2, <1>3, <1>4, <1>8, <2>1 DEF SpentIsExplained
<1>10. SignedOutStays'
  BY <1>2, <1>3, <1>4, <1>7, <1>8 DEF SignedOutStays
<1>11. TokenPart'
  BY <1>1, <1>3, <1>4, <1>7, <1>8, <1>9, <1>10, CookiesMove
<1> QED
  BY <1>1, <1>3, <1>4, <1>5, <1>6, <1>11, RefreshEnds

-----------------------------------------------------------------------------
(* The specification *)

LEMMA StutterStep == IInv /\ UNCHANGED vars => IInv'
  BY DEF vars, IInv, TypeOK, TokensKnown, Known, NewTokensFresh, Fresh, NewTokensDiffer, RacesKnown,
         SpentIsExplained, ReplaysNeedTwoTabs, NothingFromNothing, SignedOutStays,
         RetriesAreCurrent, RefusedOnlyIfOver, SignedOutCall, InFlight, Rotated, SignedIn, Guarded

LEMMA StepInv == IInv /\ [Next]_vars => IInv'
<1> SUFFICES ASSUME IInv, [Next]_vars
             PROVE  IInv'
  OBVIOUS
<1>1. ASSUME NEW c \in Calls, Start(c), Watch
      PROVE  IInv'
  BY <1>1, StartStep
<1>2. ASSUME NEW c \in Calls, ServeGuarded(c), Watch
      PROVE  IInv'
  BY <1>2, ServeGuardedStep
<1>3. ASSUME NEW c \in Calls, ServeLogin(c), Watch
      PROVE  IInv'
  BY <1>3, ServeLoginStep
<1>4. ASSUME NEW c \in Calls, ServeLogout(c), Watch
      PROVE  IInv'
  BY <1>4, ServeLogoutStep
<1>5. ASSUME NEW c \in Calls, Answered(c), Watch
      PROVE  IInv'
  BY <1>5, AnsweredStep
<1>6. ASSUME NEW c \in Calls, Unauthorized(c), Watch
      PROVE  IInv'
  BY <1>6, UnauthorizedStep
<1>7. ASSUME NEW c \in Calls, Refused(c), Watch
      PROVE  IInv'
  BY <1>7, RefusedStep
<1>8. ASSUME NEW c \in Calls, CallFails(c), Watch
      PROVE  IInv'
  BY <1>8, CallFailsStep
<1>9. ASSUME NEW t \in Tabs, ServeRefresh(t), Watch
      PROVE  IInv'
  BY <1>9, ServeRefreshStep
<1>10. ASSUME NEW t \in Tabs, RefreshAnswered(t), Watch
       PROVE  IInv'
  BY <1>10, RefreshAnsweredStep
<1>11. ASSUME NEW t \in Tabs, RefreshFails(t), Watch
       PROVE  IInv'
  BY <1>11, RefreshFailsStep
<1>12. CASE Expire /\ Watch
  BY <1>12, ExpireStep
<1>13. CASE UNCHANGED vars
  BY <1>13, StutterStep
<1> QED
  BY <1>1, <1>2, <1>3, <1>4, <1>5, <1>6, <1>7, <1>8, <1>9, <1>10, <1>11, <1>12, <1>13 DEF Next

LEMMA Invariance == Spec => []IInv
  BY InitInv, StepInv, PTL DEF Spec

\* Every variable keeps its shape, and a call of a tab waits only while a
\* refresh of that tab is in flight (refreshInFlight of client.ts).
THEOREM TypeCorrect == Spec => []TypeOK
<1>1. IInv => TypeOK
  BY DEF IInv
<1> QED
  BY <1>1, Invariance, PTL

\* A refresh presents a rotated token, which the API answers as a replay, only
\* when another refresh was in flight with it or a rotation's answer was lost:
\* one tab, whose calls share its refresh, never ends its own session.
THEOREM ReplaysTakeTwo == Spec => []ReplaysNeedTwoTabs
<1>1. IInv => ReplaysNeedTwoTabs
  BY DEF IInv
<1> QED
  BY <1>1, Invariance, PTL

\* The interface hears of a 401 only when the session was over while the call
\* ran, or the refresh it waited for broke off: as long as a refresh does not
\* break off, the one retry of client.ts is enough.
THEOREM RefusalIsDeserved == Spec => []RefusedOnlyIfOver
<1>1. IInv => RefusedOnlyIfOver
  BY DEF IInv
<1> QED
  BY <1>1, Invariance, PTL

\* After a logout that crossed no refresh the browser holds no cookie until the
\* next login, whichever answers of the tabs are still on their way.
THEOREM SignOutLasts == Spec => []SignedOutHoldsNothing
<1>1. IInv => SignedOutHoldsNothing
  BY DEF IInv, SignedOutStays, SignedOutHoldsNothing
<1> QED
  BY <1>1, Invariance, PTL

==============================================================================
