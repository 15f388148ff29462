-------------------------- MODULE MCBrowserSession --------------------------
(* A small instance of BrowserSession for TLC: two calls in one tab, while   *)
(* the session is ended and started again in another.                      *)
EXTENDS BrowserSession, TLC

CONSTANTS t1, t2, me, work, login, logout

MCTabs == {t1, t2}
MCOldTabs == {t2}
MCCalls == {me, work, login, logout}
MCTabOf == [c \in MCCalls |-> IF c \in {login, logout} THEN t2 ELSE t1]
MCKind == [c \in MCCalls |-> CASE c = me -> "me" [] c = login -> "login"
                              [] c = logout -> "logout" [] OTHER -> "work"]

=============================================================================
