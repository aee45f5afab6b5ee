----------------------------- MODULE OtherPages -----------------------------
(***************************************************************************)
(* The Cluster, Tokens and Audit pages of the web UI (ui/web/src/pages).   *)
(* None of them listens to events: Cluster asks for the members every five *)
(* seconds, the others fetch when they open and after what the user does.  *)
(*                                                                         *)
(* Of the members only this is left, whether there are peers; of a client  *)
(* token its id, and of the static tokens whether they have come; of the   *)
(* log, for which filter it was fetched.  An administrator may join peers  *)
(* and manage client tokens; any other user may only read.                 *)
(***************************************************************************)
EXTENDS Pages

CONSTANTS Token,   \* ids of client tokens
          Filter   \* what the log may be filtered by, "" for everything

ASSUME OtherPagesAssumption == "" \in Filter

VARIABLES
    peers,   \* server: has the node peers?
    minted,  \* server: the client tokens
    other    \* the state of the one of these pages that is open, or None

otherServer == <<peers, minted>>

ClusterOpen == [page |-> "cluster", peers |-> FALSE, seed |-> FALSE, joining |-> FALSE]
\* listed: have the client tokens come?  Both while they are "loading" and when
\* that has "failed", the code's tokens are null and the card says Loading.
TokensOpen == [page |-> "tokens", static |-> "loading", tokens |-> {}, listed |-> "loading",
               allowed |-> TRUE, creating |-> FALSE, named |-> FALSE]
AuditOpen == [page |-> "audit", filter |-> "", entries |-> "none"]

\* What a page fetches when it opens.
Log(f) == [kind |-> "log", filter |-> f, st |-> "sent"]
OtherFirst(p) == CASE p = "cluster" -> {Fetch("members")}
                   [] p = "tokens" -> {Fetch("static")}
                   [] p = "audit" -> {Log("")}
                   [] OTHER -> {}

Open(p) == other # None /\ other.page = p

\* A request that changes something; here: is the page that sent it open?
Request(kind, t) == [kind |-> kind, token |-> t, st |-> "sent", here |-> TRUE]

Sends(J, o) == /\ Send(J)
               /\ other' = o
               /\ UNCHANGED <<catalogue, notices, steps, otherServer>>

Changes(o) == Sends({}, o)

\* The answer j is handled: the page becomes o and sends J.
Answers(j, J, o) == /\ jobs' = (jobs \ {j}) \union J
                    /\ other' = o
                    /\ UNCHANGED <<catalogue, notices, steps, otherServer>>

-----------------------------------------------------------------------------
(* Cluster.                                                                *)

ClusterTick == Open("cluster") /\ Sends({Fetch("members")}, other)

AnswerMembers(j) == /\ j.kind = "members" /\ j.st = "read"
                    /\ Answers(j, {}, [other EXCEPT !.peers = j.got])

\* The form to join peers is an administrator's.
TypeSeed == /\ Open("cluster") /\ isAdmin /\ ~other.seed
            /\ Changes([other EXCEPT !.seed = TRUE])

join == /\ Open("cluster") /\ isAdmin /\ other.seed /\ ~other.joining
        /\ Sends({Request("join", None)}, [other EXCEPT !.joining = TRUE])

AnswerJoin(j) ==
    /\ j.kind = "join" /\ j.st = "read"
    /\ IF j.here THEN Answers(j, {Fetch("members")},
                              [other EXCEPT !.seed = FALSE, !.joining = FALSE])
                 ELSE Answers(j, {}, other)

-----------------------------------------------------------------------------
(* Tokens.                                                                 *)

\* The card of the client tokens appears with the static tokens.
AnswerStatic(j) == /\ j.kind = "static" /\ j.st = "read"
                   /\ Answers(j, {Fetch("tokens")}, [other EXCEPT !.static = "shown"])

\* Who may not list the tokens does not see the card any more.
AnswerTokens(j) ==
    /\ j.kind = "tokens" /\ j.st \in {"read", "denied"}
    /\ Answers(j, {}, IF j.st = "denied" THEN [other EXCEPT !.allowed = FALSE]
                      ELSE [other EXCEPT !.tokens = j.got, !.listed = "shown", !.allowed = TRUE])

Card == Open("tokens") /\ other.static = "shown" /\ other.allowed

NewToken == /\ Card /\ ~other.creating
            /\ Step
            /\ other' = [other EXCEPT !.creating = TRUE]
            /\ UNCHANGED <<catalogue, notices, jobs, otherServer>>

TypeToken == Card /\ other.creating /\ Changes([other EXCEPT !.named = TRUE])

CancelToken == Card /\ other.creating /\ Changes([other EXCEPT !.creating = FALSE])

\* Nothing keeps the user from pressing Create again before the answer; two
\* requests that are equal in every respect are one here.
createToken == /\ Card /\ other.creating /\ other.named
               /\ Sends({Request("mint", None)}, other)

AnswerMint(j) ==
    /\ j.kind = "mint" /\ j.st = "read"
    /\ IF j.here THEN Answers(j, {Fetch("tokens")},
                              [other EXCEPT !.named = FALSE, !.creating = FALSE])
                 ELSE Answers(j, {}, other)

revoke(t) == /\ Card /\ ~other.creating /\ t \in other.tokens
             /\ Sends({Request("revoke", t)}, other)

AnswerRevoke(j) == /\ j.kind = "revoke" /\ j.st = "read"
                   /\ Answers(j, IF j.here THEN {Fetch("tokens")} ELSE {}, other)

-----------------------------------------------------------------------------
(* Audit.                                                                  *)

\* The filter changes, or Refresh is pressed.
setFilter(f) == Open("audit") /\ Sends({Log(f)}, [other EXCEPT !.filter = f])

AnswerLog(j) == /\ j.kind = "log" /\ j.st = "read"
                /\ Answers(j, {}, [other EXCEPT !.entries = j.filter])

-----------------------------------------------------------------------------
(* The server, and failures.                                               *)

\* The members are for everyone, the static tokens for every user.
Permitted(j) == CASE j.kind = "members" -> TRUE
                  [] j.kind = "static" -> signedIn /\ requireRead
                  [] OTHER -> signedIn /\ isAdmin

ServeOther(j) ==
    /\ j.kind \in {"members", "static", "tokens", "log", "join", "mint", "revoke"}
    /\ j.st = "sent"
    /\ peers' \in IF j.kind = "join" /\ Permitted(j) THEN {peers, TRUE} ELSE {peers}
    /\ CASE j.kind = "mint" /\ Permitted(j) ->
              \E t \in Token \ minted : minted' = minted \union {t}
         [] j.kind = "revoke" /\ Permitted(j) -> minted' = minted \ {j.token}
         [] OTHER -> UNCHANGED minted
    /\ jobs' = (jobs \ {j}) \union
               {IF ~Permitted(j)
                THEN [j EXCEPT !.st = IF j.kind = "tokens" THEN "denied" ELSE "refused"]
                ELSE CASE j.kind = "members" -> [j EXCEPT !.st = "read", !.got = peers]
                       [] j.kind = "tokens" -> [j EXCEPT !.st = "read", !.got = minted]
                       [] OTHER -> [j EXCEPT !.st = "read"]}
    /\ UNCHANGED <<catalogue, notices, steps, other>>

\* A request or its answer is lost, or it was refused.  Nothing is done about
\* a list of client tokens that does not come.
OtherFails(j) ==
    /\ j.kind \in {"members", "static", "tokens", "log", "join", "mint", "revoke"}
    /\ Failing(j)
    /\ jobs' = jobs \ {j}
    /\ other' = CASE j.kind = "static" -> [other EXCEPT !.static = "error"]
                  [] j.kind = "join" /\ j.here -> [other EXCEPT !.joining = FALSE]
                  [] j.kind = "tokens" /\ other.listed # "shown" ->
                       [other EXCEPT !.listed = "failed"]
                  [] OTHER -> other
    /\ UNCHANGED <<catalogue, notices, otherServer>>

\* A node joins this one, or the last peer leaves.
PeersChange == /\ Step
               /\ peers' = ~peers
               /\ UNCHANGED <<catalogue, notices, jobs, minted, other>>

OtherAnswered(j) == \/ AnswerMembers(j) \/ AnswerJoin(j)
                    \/ AnswerStatic(j) \/ AnswerTokens(j)
                    \/ AnswerMint(j) \/ AnswerRevoke(j) \/ AnswerLog(j)

OtherNext == \/ ClusterTick \/ TypeSeed \/ join
             \/ NewToken \/ TypeToken \/ CancelToken \/ createToken
             \/ \E t \in Token : revoke(t)
             \/ \E f \in Filter : setFilter(f)
             \/ \E j \in jobs : OtherAnswered(j) \/ ServeOther(j) \/ OtherFails(j)
             \/ PeersChange

=============================================================================
