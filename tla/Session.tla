------------------------------ MODULE Session ------------------------------
(***************************************************************************)
(* Who the web UI thinks is signed in, and which page that lets him see:   *)
(* AuthProvider (ui/web/src/lib/auth.tsx), the handshake with the host     *)
(* page when the UI runs in its iframe (corp.ts), the guards of the routes *)
(* (App.tsx), the login form (Login.tsx) and the top bar (AppShell.tsx).   *)
(*                                                                         *)
(* A request is a call under way.  The server takes it in one step and its *)
(* answer is handled in another, so that answers may overtake each other;  *)
(* a request may fail before or after the server took it.  A redirect of   *)
(* the router belongs to the step that causes it.  The server knows the    *)
(* browser by a cookie or by the host's bearer token, which goes out with  *)
(* every request once it is set.  One person uses the browser.  A session  *)
(* ends when its time is over; the host's token is good as long as the     *)
(* page is open.                                                           *)
(***************************************************************************)
EXTENDS Integers

CONSTANT MaxFaults  \* bound: sign-ins and -outs, links followed, failed and
                    \* denied requests and ended sessions together

ASSUME SessionAssumption == MaxFaults \in Nat

VARIABLES
    isAdmin,    \* is the user an administrator?
    mayRead,    \* whom the server lets read: the "user" by his permissions,
                \* the "anonymous" if the node was started so
    cookie,     \* does the server know the browser's cookie?
    bearer,     \* bearerToken: has the host's token been set?
    mode,       \* "standalone", or "iframe" after the handshake
    me,         \* is somebody signed in, as far as the UI knows?
    loading,    \* has the first answer about the user not yet come?
    path, from, \* the route, and where the login page is to go back to
    submitting, \* the login form waits for its answer
    calls,      \* session requests under way, as records
    faults      \* counted for the bound

sessionVars == <<isAdmin, mayRead, cookie, bearer, mode, me, loading, path, from,
                 submitting, calls, faults>>

Page == {"/", "services", "cluster", "tokens", "audit"}

\* st: "sent", or "served" with what the server answered; by: for a "me"
\* request, whether AuthProvider sent it at its start or login() did; b: does
\* it carry the token?
Call(kind, by, b) == [kind |-> kind, by |-> by, bearer |-> b, st |-> "sent",
                      got |-> FALSE]

-----------------------------------------------------------------------------
(* Routing: RequireAuth, RequireAdmin and the redirect of the login page.  *)

\* Where the router ends when somebody is signed in (m) or not, the first
\* answer is awaited (l), and the route is p with f remembered.
Settled(m, l, p, f) ==
    LET q == IF p = "login" /\ m THEN f ELSE p
    IN  IF q = "login" \/ l THEN q
        ELSE IF ~m THEN "login"
        ELSE IF q = "audit" /\ ~isAdmin THEN "/" ELSE q

\* The router goes to p; w: does the login form still wait, if it stays?
Go(p, w) ==
    /\ path' = Settled(me', loading', p, from)
    /\ from' = IF path' # "login" THEN "/" ELSE IF p = "login" THEN from ELSE p
    /\ submitting' = (w /\ path' = "login")

\* What is on the screen; "" is an empty page.
Shown == IF path # "login" /\ loading THEN "" ELSE path

\* The UI runs on its own or in the host's iframe.
isIframe == BOOLEAN

SessionInit ==
    /\ isAdmin \in BOOLEAN /\ cookie \in BOOLEAN
    /\ mayRead \in SUBSET {"user", "anonymous"}
    /\ isAdmin => "user" \in mayRead
    /\ bearer = FALSE /\ mode = "standalone"
    /\ me = FALSE /\ loading = TRUE
    /\ path \in Page \union {"login"} /\ from = "/"
    /\ isAdmin => path \in {"cluster", "tokens", "audit"}   \* where it matters
    /\ mayRead # {"user", "anonymous"} => path = "/"
    /\ submitting = FALSE
    /\ \E embedded \in isIframe :
         calls = {Call(IF embedded THEN "handshake" ELSE "me", "boot", FALSE)}
    /\ faults = 0

-----------------------------------------------------------------------------
(* AuthProvider.                                                           *)

Fault == faults < MaxFaults /\ faults' = faults + 1

\* It resolves with the host's token, or it rejects.
loadCorpSDK(ok) == IF ok THEN bearer' = TRUE /\ mode' = "iframe" /\ UNCHANGED faults
                         ELSE UNCHANGED <<bearer, mode>> /\ Fault

Handshake(c, ok) ==
    /\ c.kind = "handshake"
    /\ loadCorpSDK(ok)
    /\ calls' = (calls \ {c}) \union {Call("me", "boot", bearer')}
    /\ UNCHANGED <<isAdmin, cookie, me, loading, path, from, submitting>>

\* refresh(): the answer of api.me, or its failure.
AnswerMe(c) ==
    /\ c.kind = "me" /\ c.st # "sent"
    /\ me' = c.got
    /\ loading' = (loading /\ c.by # "boot")
    /\ calls' = calls \ {c}
    /\ Go(path, submitting /\ c.by # "login")
    /\ UNCHANGED <<isAdmin, cookie, bearer, mode, faults>>

\* The login page has its form unless the host signs the user in.
Form == path = "login" /\ ~me /\ mode = "standalone"

\* submit() of the form, which calls login().
login ==
    /\ Form /\ ~submitting
    /\ Fault
    /\ submitting' = TRUE
    /\ calls' = calls \union {Call("login", "form", bearer)}
    /\ UNCHANGED <<isAdmin, cookie, bearer, mode, me, loading, path, from>>

AnswerLogin(c) ==
    /\ c.kind = "login" /\ c.st # "sent"
    /\ calls' = (calls \ {c}) \union IF c.got THEN {Call("me", "login", bearer)} ELSE {}
    /\ submitting' = (submitting /\ c.got)
    /\ UNCHANGED <<isAdmin, cookie, bearer, mode, me, loading, path, from, faults>>

\* All pages but the login page have it.
TopBar == Shown \notin {"", "login"}

\* Mutant of showLogout: the button is always there.
LogoutInAnyMode == TopBar

\* The Sign out button.
showLogout == TopBar /\ mode = "standalone"

logout ==
    /\ showLogout
    /\ Fault
    /\ calls' = calls \union {Call("logout", "bar", bearer)}
    /\ UNCHANGED <<isAdmin, cookie, bearer, mode, me, loading, path, from, submitting>>

\* Whatever came of the request, the user is signed out here.
AnswerLogout(c) ==
    /\ c.kind = "logout" /\ c.st # "sent"
    /\ calls' = calls \ {c}
    /\ me' = FALSE /\ bearer' = FALSE /\ UNCHANGED loading
    /\ Go(path, submitting)
    /\ UNCHANGED <<isAdmin, cookie, mode, faults>>

\* A link of the top bar, or the browser's history.
Navigate(p) ==
    /\ TopBar /\ p \in Page \ {path}
    /\ Fault
    /\ UNCHANGED <<me, loading>>
    /\ Go(p, FALSE)
    /\ UNCHANGED <<isAdmin, cookie, bearer, mode, calls>>

-----------------------------------------------------------------------------
(* The server's side.                                                      *)

ServeCall(c) ==
    /\ c.kind # "handshake" /\ c.st = "sent"
    /\ cookie' = CASE c.kind = "login" -> TRUE
                   [] c.kind = "logout" -> FALSE
                   [] c.kind = "me" -> cookie
    /\ calls' = (calls \ {c}) \union
                {[c EXCEPT !.st = "served", !.got = c.bearer \/ cookie']}
    /\ UNCHANGED <<isAdmin, bearer, mode, me, loading, path, from, submitting, faults>>

\* The request or its answer is lost, or the credentials are refused.
CallFails(c) ==
    /\ c.kind # "handshake" /\ c.st # "failed"
    /\ Fault
    /\ calls' = (calls \ {c}) \union {[c EXCEPT !.st = "failed", !.got = FALSE]}
    /\ UNCHANGED <<isAdmin, cookie, bearer, mode, me, loading, path, from, submitting>>

\* The server forgets the session: its time is over.
SessionEnds ==
    /\ cookie /\ cookie' = FALSE
    /\ Fault
    /\ UNCHANGED <<isAdmin, bearer, mode, me, loading, path, from, submitting, calls>>

\* requireRead and the handlers' tests for somebody who is signed in: the
\* server goes by the session it knows, or by the token.
signedIn == cookie \/ bearer
requireRead == (IF signedIn THEN "user" ELSE "anonymous") \in mayRead

SessionNext ==
    /\ \/ \E c \in calls : \/ Handshake(c, TRUE) \/ Handshake(c, FALSE)
                           \/ AnswerMe(c) \/ AnswerLogin(c) \/ AnswerLogout(c)
                           \/ ServeCall(c) \/ CallFails(c)
       \/ login \/ logout \/ SessionEnds
       \/ \E p \in Page : Navigate(p)
    /\ UNCHANGED mayRead

=============================================================================
