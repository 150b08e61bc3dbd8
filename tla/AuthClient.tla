----------------------------- MODULE AuthClient -----------------------------
(***************************************************************************)
(* The session of the web console: the tokens in localStorage, which all   *)
(* tabs of the browser share, the authentication state of each tab         *)
(* (hooks/useAuth.tsx), the request wrapper that refreshes the tokens on a *)
(* 401 and retries (api/base.ts), the pages and guards that start those    *)
(* requests (App.tsx, pages/Login.tsx, pages/Setup.tsx, layout/sidebar.tsx)*)
(* and the handlers of the server that answer them (internal/auth).        *)
(*                                                                         *)
(* An async function of a tab is a process.  It has at most one request    *)
(* under way, whose progress is its frame: sent, looked up by the server,  *)
(* answered, waiting for the refresh of the tokens, resumed by it.  Code   *)
(* between two awaits is one step; the continuations of a settled promise  *)
(* are microtasks, which run before the tab takes up another answer.       *)
(*                                                                         *)
(* A pair of tokens is its number, in the order of issue.                  *)
(***************************************************************************)
EXTENDS Naturals, FiniteSets

CONSTANTS
    Tabs,       \* the tabs of one browser that have the console open
    Requests,   \* the requests for data that a tab may have under way
    MaxPairs,   \* bound: how many pairs of tokens the server issues
    MaxActions, \* bound: what the user does, in number
    MaxTroubles,\* bound: what goes wrong and the tabs opened later, in number
    None        \* no token

ASSUME AuthAssumption ==
    /\ MaxPairs \in Nat \ {0}
    /\ MaxActions \in Nat
    /\ MaxTroubles \in Nat
    /\ None \notin Nat
    /\ Requests \cap {"init", "refresh", "form", "logout"} = {}

VARIABLES
    routed,     \* requests for /api/v1/api/auth reach the handlers of /api/auth
    users,      \* the server has a user
    live,       \* the refresh tokens the server has stored
    issued,     \* how many pairs it has issued
    age,        \* of each access token: fresh, soon to expire, expired
    stored,     \* the pair in localStorage
    status,     \* of each tab: AuthStatus
    page,       \* of each tab: the route it shows
    ref,        \* of each tab: refreshPromiseRef
    proc,       \* of each tab and process: its frame
    actions,    \* how many times the user acted
    troubles,   \* how many things went wrong or tabs were opened
    gone        \* history: pairs that the server forgot without anyone
                \* holding its successor

server == <<routed, users, live, issued, age>>
vars == <<server, stored, status, page, ref, proc, actions, troubles, gone>>

Pairs == 1..MaxPairs
Token == Pairs \cup {None}
Procs == {"init", "refresh", "form", "logout"} \cup Requests
\* AuthStatus; "closed" is a tab that is not open yet.
Status == {"closed", "loading", "unauthenticated", "authenticated", "setup_required"}
Pages == {"app", "login", "setup"}
Calls == {"none", "status", "refresh", "me", "login", "setup", "logout", "data"}
Phases == {"idle", "sent", "found", "answered", "waiting", "resumed"}
Answers == {"none", "ok", "setup", "401", "fail"}

\* tok is the token the request carries, got the pair it brings back (or the
\* one the refresh did), again that it is the second attempt.
Frame == [call : Calls, ph : Phases, tok : Token, ans : Answers, got : Token,
          again : BOOLEAN]

Idle == [call |-> "none", ph |-> "idle", tok |-> None, ans |-> "none",
         got |-> None, again |-> FALSE]

Sent(c, tok) == [Idle EXCEPT !.call = c, !.ph = "sent", !.tok = tok]

TypeOK ==
    /\ routed \in BOOLEAN
    /\ users \in BOOLEAN
    /\ issued \in 0..MaxPairs
    /\ live \subseteq 1..issued
    /\ age \in [Pairs -> {"fresh", "soon", "expired"}]
    /\ stored \in (1..issued) \cup {None}
    /\ status \in [Tabs -> Status]
    /\ page \in [Tabs -> Pages]
    /\ ref \in [Tabs -> {"free", "busy", "null"}]
    /\ proc \in [Tabs -> [Procs -> Frame]]
    /\ actions \in 0..MaxActions
    /\ troubles \in 0..MaxTroubles
    /\ gone \subseteq 1..issued

-----------------------------------------------------------------------------
(* The guards of the routes                                                *)

\* Mutant: the guard takes the status for a route.
BugRouted(st, pg) ==
    IF st = "setup_required" THEN st
    ELSE IF pg = "app" /\ st = "unauthenticated" THEN "login"
    ELSE IF pg # "app" /\ st = "authenticated" THEN "app" ELSE pg

\* Where the guard of a route sends a tab of that status: RequireAuth for the
\* routes of the console, RedirectIfAuthed for /login and /setup.
Routed(st, pg) ==
    CASE pg = "app" /\ st = "setup_required"            -> "setup"
      [] pg = "app" /\ st = "unauthenticated"           -> "login"
      [] pg \in {"login", "setup"} /\ st = "authenticated" -> "app"
      [] OTHER                                          -> pg

\* setStatus, and the route that follows from it.
SetStatus(t, st, pg) ==
    /\ status' = [status EXCEPT ![t] = st]
    /\ page' = [page EXCEPT ![t] = Routed(st, pg)]

KeepStatus == UNCHANGED <<status, page>>

-----------------------------------------------------------------------------
(* The server                                                              *)

Trouble == troubles < MaxTroubles /\ troubles' = troubles + 1

Answered(f, ans, got) == [f EXCEPT !.ph = "answered", !.ans = ans, !.got = got]

SetFrame(t, p, f) == proc' = [proc EXCEPT ![t][p] = f]

\* issueTokenPair: a new access token and a new stored refresh token; `spent`
\* are the refresh tokens deleted before.
IssuePair(spent) ==
    /\ issued < MaxPairs
    /\ issued' = issued + 1
    /\ live' = (live \ spent) \cup {issued + 1}
    /\ UNCHANGED <<routed, age>>

\* The requests for /api/auth are built on a base that ends in /api/v1.  Only a
\* proxy that rewrites them leads them to their handlers: of itself the server
\* answers them with the page of the console, which is no JSON.
Arrives(f) == f.ph = "sent" /\ (routed \/ f.call = "data")

Unrouted(t, p) ==
    /\ proc[t][p].ph = "sent" /\ ~Arrives(proc[t][p])
    /\ SetFrame(t, p, Answered(proc[t][p], "fail", None))
    /\ UNCHANGED <<server, stored, status, page, ref, actions, troubles, gone>>

\* The bearer of a request passes the middleware: it is a token that has not
\* expired.
Accepted(tok) == tok # None /\ age[tok] # "expired"

\* HandleRefresh and HandleSetup look first and act later: the look.
Look(t, p) ==
    LET f == proc[t][p] IN
    /\ Arrives(f)
    /\ \/ /\ f.call = "refresh"
          /\ SetFrame(t, p, IF f.tok \in live THEN [f EXCEPT !.ph = "found"]
                                              ELSE Answered(f, "401", None))
       \/ /\ f.call = "setup"
          /\ SetFrame(t, p, IF users THEN Answered(f, "fail", None)
                                     ELSE [f EXCEPT !.ph = "found"])
    /\ UNCHANGED <<server, stored, status, page, ref, actions, troubles, gone>>

\* ... and the act: the old refresh token is deleted and a new pair issued, or
\* the first user is created.
Act(t, p) ==
    LET f == proc[t][p] IN
    /\ f.ph = "found"
    /\ IssuePair(IF f.call = "refresh" THEN {f.tok} ELSE {})
    /\ users' = (users \/ f.call = "setup")
    /\ SetFrame(t, p, Answered(f, "ok", issued + 1))
    /\ UNCHANGED <<stored, status, page, ref, actions, troubles, gone>>

\* Two set-ups that both found no user: the second meets the first's name.
NameTaken(t, p) ==
    LET f == proc[t][p] IN
    /\ f.ph = "found" /\ f.call = "setup" /\ users
    /\ SetFrame(t, p, Answered(f, "fail", None))
    /\ UNCHANGED <<server, stored, status, page, ref, actions, troubles, gone>>

\* HandleLogin: the right password brings a pair, a wrong one a 401.
HandleLogin(t, p) ==
    LET f == proc[t][p] IN
    /\ Arrives(f) /\ f.call = "login"
    /\ \/ /\ users
          /\ IssuePair({})
          /\ UNCHANGED users
          /\ SetFrame(t, p, Answered(f, "ok", issued + 1))
       \/ /\ UNCHANGED server
          /\ SetFrame(t, p, Answered(f, "401", None))
    /\ UNCHANGED <<stored, status, page, ref, actions, troubles, gone>>

\* What the other routes answer.  HandleLogout is sent no token, so it revokes
\* nothing; the routes behind the middleware ask for set-up before they look at
\* the token.
Reply(f) ==
    CASE f.call = "status"               -> IF users THEN "ok" ELSE "setup"
      [] f.call = "logout"               -> "ok"
      [] ~users                          -> "setup"
      [] users /\ Accepted(f.tok)        -> "ok"
      [] OTHER                           -> "401"

Handle(t, p) ==
    LET f == proc[t][p] IN
    /\ Arrives(f)
    /\ f.call \in {"status", "logout", "me", "data"}
    /\ SetFrame(t, p, Answered(f, Reply(f), None))
    /\ UNCHANGED <<server, stored, status, page, ref, actions, troubles, gone>>

\* The server cannot be reached, or fails before it has done anything.
Unreachable(t, p) ==
    /\ proc[t][p].ph = "sent"
    /\ SetFrame(t, p, Answered(proc[t][p], "fail", None))
    /\ Trouble
    /\ UNCHANGED <<server, stored, status, page, ref, actions, gone>>

\* The answer that carries a pair is lost.
AnswerLost(t, p) ==
    LET f == proc[t][p] IN
    /\ f.ph = "answered" /\ f.ans = "ok" /\ f.got # None
    /\ SetFrame(t, p, Answered(f, "fail", None))
    /\ gone' = gone \cup ({f.tok} \ {None})
    /\ Trouble
    /\ UNCHANGED <<server, stored, status, page, ref, actions>>

\* Time passes for the stored access token (the age of an older one matters
\* only to requests under way, which may carry it after it has expired), a
\* refresh token expires and the server deletes it, the server comes up with an
\* empty database.
AccessAges(k) ==
    /\ k = stored /\ age[k] # "expired"
    /\ age' = [age EXCEPT ![k] = IF @ = "fresh" THEN "soon" ELSE "expired"]
    /\ UNCHANGED <<routed, users, live, issued, stored, status, page, ref, proc, actions, troubles, gone>>

RefreshExpires(k) ==
    /\ k \in live
    /\ live' = live \ {k}
    /\ gone' = gone \cup {k}
    /\ Trouble
    /\ UNCHANGED <<routed, users, issued, age, stored, status, page, ref, proc, actions>>

DatabaseReset ==
    /\ users
    /\ users' = FALSE /\ live' = {}
    /\ gone' = gone \cup live
    /\ Trouble
    /\ UNCHANGED <<routed, issued, age, stored, status, page, ref, proc, actions>>

-----------------------------------------------------------------------------
(* Loading a tab                                                           *)

\* The page is loaded: every async function of the old document ends, the new
\* one asks for the set-up status.  A refresh still under way rotates its token
\* at the server and nobody takes the answer.
Under(t, c) == {p \in Procs : /\ proc[t][p].call = c
                              /\ proc[t][p].ph \in {"sent", "found", "answered"}}

Rotated(t) == {proc[t][p].tok : p \in {q \in Under(t, "refresh") :
                                          proc[t][q].ph = "answered" /\ proc[t][q].ans = "ok"}}

Unload(t, pg) ==
    /\ proc' = [proc EXCEPT ![t] = [p \in Procs |->
                    IF p = "init" THEN Sent("status", None) ELSE Idle]]
    /\ ref' = [ref EXCEPT ![t] = "free"]
    /\ status' = [status EXCEPT ![t] = "loading"]
    /\ page' = [page EXCEPT ![t] = pg]
    /\ \E late \in SUBSET {proc[t][p].tok : p \in Under(t, "refresh")} :
          /\ live' = live \ late
          /\ gone' = gone \cup Rotated(t) \cup (late \cap live)
    /\ users' \in {users} \cup {TRUE : p \in Under(t, "setup")}
    /\ UNCHANGED <<routed, issued, age, stored>>

Load(t, pg) ==
    /\ status[t] # "closed"
    /\ Unload(t, pg)
    /\ UNCHANGED troubles

\* Another tab is opened.
Open(t) ==
    /\ status[t] = "closed"
    /\ Unload(t, "app")
    /\ Trouble
    /\ UNCHANGED actions


-----------------------------------------------------------------------------
(* The client: what a process does with an answer                          *)

\* A tab takes up an answer only when no promise of it is about to resume.
Quiet(t) == \A p \in Procs : proc[t][p].ph # "resumed"

\* Mutant: those who await a refresh that failed are forgotten.
BugResume(procs, got) ==
    [p \in Procs |-> IF procs[p].ph = "waiting" /\ got # None
                      THEN [procs[p] EXCEPT !.ph = "resumed", !.got = got]
                      ELSE procs[p]]

\* refreshTokens has settled: every request of the tab that awaits it resumes
\* with the new token, or with none.
Resume(procs, got) ==
    [p \in Procs |-> IF procs[p].ph = "waiting"
                      THEN [procs[p] EXCEPT !.ph = "resumed", !.got = got]
                      ELSE procs[p]]

\* simpleRequest, first attempt, 401: await _refreshTokens().  A refresh that
\* runs is joined (a refresh that meets a 401 itself joins itself); a promise
\* that is still held gives its null; with no refresh token stored there is
\* nothing to do, and the promise is held for good.
Await(t, p) ==
    LET f == proc[t][p] IN
    /\ f.ph = "answered" /\ f.ans = "401" /\ ~f.again
    /\ Quiet(t)
    /\ \/ /\ ref[t] = "busy"
          /\ SetFrame(t, p, [f EXCEPT !.ph = "waiting"])
          /\ KeepStatus
          /\ UNCHANGED ref
       \/ /\ ref[t] = "null"
          /\ SetFrame(t, p, [f EXCEPT !.ph = "resumed"])
          /\ KeepStatus
          /\ UNCHANGED ref
       \/ /\ ref[t] = "free" /\ stored = None
          /\ SetFrame(t, p, [f EXCEPT !.ph = "resumed"])
          /\ SetStatus(t, "unauthenticated", page[t])
          /\ ref' = [ref EXCEPT ![t] = "null"]
       \/ /\ ref[t] = "free" /\ stored # None
          /\ proc' = [proc EXCEPT ![t] =
                         [@ EXCEPT ![p] = [f EXCEPT !.ph = "waiting"],
                                   !["refresh"] = Sent("refresh", stored)]]
          /\ ref' = [ref EXCEPT ![t] = "busy"]
          /\ KeepStatus
    /\ UNCHANGED <<server, stored, actions, troubles, gone>>

\* A request resumed with a token is sent again with it (the body of a refresh
\* is the old one).
Retry(t, p) ==
    LET f == proc[t][p] IN
    /\ f.ph = "resumed" /\ f.got # None
    /\ SetFrame(t, p, [Sent(f.call, IF f.call = "refresh" THEN f.tok ELSE f.got)
                          EXCEPT !.again = TRUE])
    /\ UNCHANGED <<server, stored, status, page, ref, actions, troubles, gone>>

\* A 503 that asks for set-up loads /setup; the promise never settles.
Redirect(t, p) ==
    LET f == proc[t][p] IN
    /\ f.ph = "answered" /\ f.ans = "setup" /\ f.call # "status"
    /\ Quiet(t)
    /\ Unload(t, "setup")
    /\ UNCHANGED <<actions, troubles>>

\* The promise of the request is fulfilled, or it is rejected: with an error
\* status, on the second 401, or when the refresh brought no token.
Fulfilled(t, p, c) ==
    LET f == proc[t][p] IN
    /\ f.call = c /\ f.ph = "answered"
    /\ f.ans = "ok" \/ (f.ans = "setup" /\ c = "status")
    /\ Quiet(t)

Rejected(t, p, c) ==
    LET f == proc[t][p] IN
    /\ f.call = c
    /\ \/ f.ph = "answered" /\ Quiet(t) /\ (f.ans = "fail" \/ (f.ans = "401" /\ f.again))
       \/ (f.ph = "resumed" /\ f.got = None)

End(t, p) == SetFrame(t, p, Idle)

Elsewhere == UNCHANGED <<server, actions, troubles, gone>>

\* init: the set-up status is known; a stored token that is about to expire is
\* refreshed first, any other is tried.
InitStatus(t) ==
    LET f == proc[t]["init"]
        use == f.ans = "ok" /\ stored # None
    IN
    /\ Fulfilled(t, "init", "status")
    /\ SetFrame(t, "init", IF ~use THEN Idle
                           ELSE Sent(IF age[stored] = "fresh" THEN "me" ELSE "refresh", stored))
    /\ IF use THEN KeepStatus
       ELSE SetStatus(t, IF f.ans = "setup" THEN "setup_required" ELSE "unauthenticated",
                      page[t])
    /\ UNCHANGED <<stored, ref>> /\ Elsewhere

\* init: the backend cannot be reached, or the refresh was refused; the tokens
\* stay where they are.
InitFails(t) ==
    /\ Rejected(t, "init", "status") \/ Rejected(t, "init", "refresh")
    /\ End(t, "init")
    /\ SetStatus(t, "unauthenticated", page[t])
    /\ UNCHANGED <<stored, ref>> /\ Elsewhere

\* A pair arrives at init, login or setup: it is stored, then fetchMe.
PairArrives(t, p) ==
    LET got == proc[t][p].got IN
    /\ \/ p = "init" /\ Fulfilled(t, p, "refresh")
       \/ p = "form" /\ (Fulfilled(t, p, "login") \/ Fulfilled(t, p, "setup"))
    /\ stored' = got
    /\ SetFrame(t, p, Sent("me", got))
    /\ KeepStatus
    /\ UNCHANGED ref /\ Elsewhere

\* The form shows the error of a login or a set-up that was refused.
FormFails(t) ==
    /\ Rejected(t, "form", "login") \/ Rejected(t, "form", "setup")
    /\ End(t, "form")
    /\ KeepStatus
    /\ UNCHANGED <<stored, ref>> /\ Elsewhere

\* fetchMe: signed in, or the tokens are dropped whatever the error was.  The
\* form then leaves for the console in both cases.
Me(t, p) ==
    /\ p \in {"init", "form"}
    /\ End(t, p)
    /\ LET pg == IF p = "form" THEN "app" ELSE page[t] IN
       \/ /\ Fulfilled(t, p, "me")
          /\ SetStatus(t, "authenticated", pg)
          /\ UNCHANGED stored
       \/ /\ Rejected(t, p, "me")
          /\ SetStatus(t, "unauthenticated", pg)
          /\ stored' = None
    /\ UNCHANGED ref /\ Elsewhere

\* Mutant: no finally clause, so that the promise is held on to.
BugDoRefreshNoFinally(t) ==
    LET got == proc[t]["refresh"].got
        settle(k) == proc' = [proc EXCEPT ![t] = Resume([@ EXCEPT !["refresh"] = Idle], k)]
    IN
    /\ \/ /\ Fulfilled(t, "refresh", "refresh")
          /\ stored' = got
          /\ settle(got)
          /\ KeepStatus
       \/ /\ Rejected(t, "refresh", "refresh")
          /\ stored' = None
          /\ settle(None)
          /\ SetStatus(t, "unauthenticated", page[t])
    /\ UNCHANGED ref /\ Elsewhere

\* Mutant: the new pair is handed out but not stored.
BugDoRefreshNoStore(t) ==
    LET got == proc[t]["refresh"].got
        settle(k) == proc' = [proc EXCEPT ![t] = Resume([@ EXCEPT !["refresh"] = Idle], k)]
    IN
    /\ \/ /\ Fulfilled(t, "refresh", "refresh")
          /\ settle(got)
          /\ KeepStatus /\ UNCHANGED stored
       \/ /\ Rejected(t, "refresh", "refresh")
          /\ stored' = None
          /\ settle(None)
          /\ SetStatus(t, "unauthenticated", page[t])
    /\ ref' = [ref EXCEPT ![t] = "free"]
    /\ Elsewhere

\* doRefresh: the pair is stored, or the tokens are dropped; then the promise is
\* given up and those that await it resume.
DoRefresh(t) ==
    LET got == proc[t]["refresh"].got
        settle(k) == proc' = [proc EXCEPT ![t] = Resume([@ EXCEPT !["refresh"] = Idle], k)]
    IN
    /\ \/ /\ Fulfilled(t, "refresh", "refresh")
          /\ stored' = got
          /\ settle(got)
          /\ KeepStatus
       \/ /\ Rejected(t, "refresh", "refresh")
          /\ stored' = None
          /\ settle(None)
          /\ SetStatus(t, "unauthenticated", page[t])
    /\ ref' = [ref EXCEPT ![t] = "free"]
    /\ Elsewhere

\* logout: whatever the answer, the tokens are dropped; handleLogout then goes
\* to /login.
SignedOut(t) ==
    /\ Fulfilled(t, "logout", "logout") \/ Rejected(t, "logout", "logout")
    /\ End(t, "logout")
    /\ stored' = None
    /\ SetStatus(t, "unauthenticated", "login")
    /\ UNCHANGED ref /\ Elsewhere

\* A request for data ends, with data or with an error.
DataArrives(t, d) ==
    /\ Fulfilled(t, d, "data") \/ Rejected(t, d, "data")
    /\ End(t, d)
    /\ KeepStatus
    /\ UNCHANGED <<stored, ref>> /\ Elsewhere

-----------------------------------------------------------------------------
(* The user and the pages                                                  *)

\* A process starts its first request.
Starts(t, p, c, tok) ==
    /\ proc[t][p] = Idle
    /\ SetFrame(t, p, Sent(c, tok))
    /\ UNCHANGED <<server, stored, status, page, ref, troubles, gone>>

\* Mutant: the pages are shown, and ask, while the tab still loads.
BugRequestData(t, d) ==
    /\ status[t] \in {"authenticated", "loading"} /\ page[t] = "app"
    /\ Starts(t, d, "data", stored)

\* A page of the console asks for its data.
RequestData(t, d) ==
    /\ status[t] = "authenticated" /\ page[t] = "app"
    /\ Starts(t, d, "data", stored)

\* What a tab shows once it has loaded: the form of /login, that of /setup, or
\* a page of the console with the menu of the user in its sidebar.
LoginShown(t) == status[t] \notin {"closed", "loading"} /\ page[t] = "login"
SetupShown(t) == status[t] \notin {"closed", "loading"} /\ page[t] = "setup"
MenuShown(t) == status[t] = "authenticated" /\ page[t] = "app"

\* handleSubmit of the two forms, which are disabled while they submit.
Submit(t) ==
    /\ LoginShown(t) \/ SetupShown(t)
    /\ Starts(t, "form", page[t], None)

\* handleLogout of the sidebar.
SignOut(t) == MenuShown(t) /\ Starts(t, "logout", "logout", None)

-----------------------------------------------------------------------------
(* The browser starts with what earlier sessions left: nothing, or a pair  *)
(* whose tokens may have aged and whose refresh token may be gone; one tab *)
(* opens the console, others may follow.                                   *)
Init ==
    /\ routed \in BOOLEAN
    /\ users \in BOOLEAN
    /\ issued = 1
    /\ live \in SUBSET (IF users THEN {1} ELSE {})
    /\ gone = {1} \ live
    /\ age \in [Pairs -> {"fresh", "soon", "expired"}]
    /\ \A k \in Pairs \ {1} : age[k] = "fresh"
    /\ stored \in {1, None}
    /\ page = [t \in Tabs |-> "app"]
    /\ ref = [t \in Tabs |-> "free"]
    /\ \E first \in Tabs :
          /\ status = [t \in Tabs |-> IF t = first THEN "loading" ELSE "closed"]
          /\ proc = [t \in Tabs |-> [p \in Procs |->
                        IF t = first /\ p = "init" THEN Sent("status", None) ELSE Idle]]
    /\ actions = 0 /\ troubles = 0

Serve(t, p) ==
    \/ Unrouted(t, p)
    \/ Look(t, p) \/ Act(t, p) \/ NameTaken(t, p)
    \/ HandleLogin(t, p) \/ Handle(t, p)

Environment ==
    \/ \E t \in Tabs, p \in Procs : Unreachable(t, p) \/ AnswerLost(t, p)
    \/ \E k \in Pairs : AccessAges(k) \/ RefreshExpires(k)
    \/ DatabaseReset
    \/ \E t \in Tabs : Open(t)

\* What a tab does of itself.
Run(t, p) ==
    \/ Await(t, p) \/ Retry(t, p) \/ Redirect(t, p)
    \/ PairArrives(t, p) \/ Me(t, p)
    \/ p = "init" /\ (InitStatus(t) \/ InitFails(t))
    \/ p = "form" /\ FormFails(t)
    \/ p = "refresh" /\ DoRefresh(t)
    \/ p = "logout" /\ SignedOut(t)
    \/ p \in Requests /\ DataArrives(t, p)

User(t) ==
    /\ actions < MaxActions /\ actions' = actions + 1
    /\ \/ \E d \in Requests : RequestData(t, d)
       \/ Submit(t) \/ SignOut(t)
       \/ \E pg \in Pages : Load(t, pg)

Next ==
    \/ Environment
    \/ \E t \in Tabs, p \in Procs : Serve(t, p) \/ Run(t, p)
    \/ \E t \in Tabs : User(t)

Spec == Init /\ [][Next]_vars

\* While a request can be served or an answer taken up, one of them is; the user
\* owes nothing, and nothing has to fail.
Fairness == WF_vars(\E t \in Tabs, p \in Procs : Serve(t, p) \/ Run(t, p))

FairSpec == Spec /\ Fairness

-----------------------------------------------------------------------------
(* Properties                                                              *)

\* A tab has at most one request for new tokens under way, however many of its
\* requests meet a 401 at once: refresh tokens are spent by their first use
\* (refreshPromiseRef, "prevents concurrent refresh races").
SingleFlight == \A t \in Tabs : Cardinality(Under(t, "refresh")) <= 1

\* A request that awaits the refresh of the tokens awaits one that runs, and the
\* promise is held exactly as long as it runs: nobody waits for a settlement
\* that has been and gone.
AwaitsARefresh ==
    \A t \in Tabs :
       /\ ref[t] = "busy" <=> proc[t]["refresh"] # Idle
       /\ \A p \in Procs : proc[t][p].ph = "waiting" => ref[t] = "busy"

\* The refresh token in localStorage is one the server still knows, unless the
\* server forgot it with nobody holding its successor (it expired, or the answer
\* to its refresh was lost) or a tab is about to store the successor: rotation
\* at the server and storage in the browser never part, for any interleaving of
\* the tabs' refreshes, sign-ins and sign-outs.
StoredTokenHonoured ==
    (stored # None /\ stored \notin live \cup gone) =>
        \E t \in Tabs, p \in Procs :
            /\ proc[t][p].call = "refresh" /\ proc[t][p].ph = "answered"
            /\ proc[t][p].ans = "ok" /\ proc[t][p].tok = stored

\* The refresh of a tab that met a 401 itself: simpleRequest awaits
\* refreshTokens, which returns the promise of this very refresh.
AwaitsItself(t) == proc[t]["refresh"].ph = "waiting"

\* Every request of a tab ends, or the tab's refresh awaits itself: that is the
\* only way for a page to wait for ever (the bound on the pairs apart).
CallsSettle ==
    \A t \in Tabs :
        (\E p \in Procs : proc[t][p] # Idle)
            ~> (\A p \in Procs : proc[t][p] = Idle) \/ AwaitsItself(t) \/ issued = MaxPairs
=============================================================================
