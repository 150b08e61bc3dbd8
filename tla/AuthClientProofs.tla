-------------------------- MODULE AuthClientProofs --------------------------
(***************************************************************************)
(* Proofs about the session of the console, for any number of tabs and of  *)
(* requests: that a tab has one request for new tokens under way at most,  *)
(* that whoever awaits a refresh awaits one that runs, and that the stored *)
(* refresh token is one the server honours, or one whose successor a tab   *)
(* is about to store.                                                      *)
(***************************************************************************)
EXTENDS AuthClient, FiniteSetTheorems, TLAPS

\* What each process may ask for.
CallsOf(p) ==
    CASE p = "init"    -> {"none", "status", "refresh", "me"}
      [] p = "refresh" -> {"none", "refresh"}
      [] p = "form"    -> {"none", "login", "setup", "me"}
      [] p = "logout"  -> {"none", "logout"}
      [] OTHER         -> {"none", "data"}

\* A frame of a process: an idle one is Idle, a refresh spends a token, and only
\* an answer of success and the settled refresh bring a pair.
FrameOK(p, f) ==
    /\ f \in Frame
    /\ f.call \in CallsOf(p)
    /\ f.ph = "idle" => f = Idle
    /\ f.call = "refresh" => f.tok # None
    /\ f.ph \in {"sent", "found", "waiting"} => f.got = None
    /\ f.ph = "answered" /\ f.ans # "ok" => f.got = None

\* Nobody has a pair that was not issued.
Issued(f) == f.tok \in (1..issued) \cup {None} /\ f.got \in (1..issued) \cup {None}

FramesInv == \A t \in Tabs : \A p \in Procs : FrameOK(p, proc[t][p]) /\ Issued(proc[t][p])

LEMMA IdleFrame ==
    ASSUME NEW p
    PROVE  /\ FrameOK(p, Idle) /\ Issued(Idle)
           /\ Idle.call = "none" /\ Idle.ph = "idle" /\ Idle.tok = None
           /\ Idle.got = None /\ Idle.ans = "none" /\ ~Idle.again
BY DEF Idle, Frame, Calls, Phases, Answers, Token, FrameOK, CallsOf, Issued

LEMMA SentFrame ==
    ASSUME NEW p, NEW c \in CallsOf(p) \ {"none"}, NEW tok \in Token,
           c = "refresh" => tok # None
    PROVE  /\ FrameOK(p, Sent(c, tok))
           /\ Sent(c, tok).ph = "sent" /\ Sent(c, tok).call = c /\ Sent(c, tok).tok = tok
           /\ Sent(c, tok).got = None /\ Sent(c, tok).ans = "none"
<1>1. c \in Calls
    BY DEF CallsOf, Calls
<1> QED
    BY <1>1 DEF Sent, Idle, Frame, Calls, Phases, Answers, Token, FrameOK

\* A frame that is answered, or otherwise goes on, for the same call.
LEMMA NextFrame ==
    ASSUME NEW p, NEW f, FrameOK(p, f), f.ph # "idle", NEW ph \in Phases \ {"idle"}
    PROVE  /\ [f EXCEPT !.ph = ph] \in Frame
           /\ [f EXCEPT !.ph = ph].ph = ph
           /\ [f EXCEPT !.ph = ph].call = f.call /\ [f EXCEPT !.ph = ph].tok = f.tok
           /\ [f EXCEPT !.ph = ph].got = f.got /\ [f EXCEPT !.ph = ph].ans = f.ans
           /\ f.got = None => FrameOK(p, [f EXCEPT !.ph = ph])
BY DEF Frame, Phases, FrameOK

LEMMA AnsweredFrame ==
    ASSUME NEW p, NEW f, FrameOK(p, f), NEW ans \in Answers, NEW got \in Token,
           ans # "ok" => got = None
    PROVE  /\ FrameOK(p, Answered(f, ans, got))
           /\ Answered(f, ans, got).ph = "answered" /\ Answered(f, ans, got).ans = ans
           /\ Answered(f, ans, got).call = f.call /\ Answered(f, ans, got).tok = f.tok
           /\ Answered(f, ans, got).got = got
<1>1. f \in Frame
    BY DEF FrameOK
<1>2. /\ Answered(f, ans, got) \in Frame
      /\ Answered(f, ans, got).ph = "answered" /\ Answered(f, ans, got).ans = ans
      /\ Answered(f, ans, got).call = f.call /\ Answered(f, ans, got).tok = f.tok
      /\ Answered(f, ans, got).got = got
    BY <1>1 DEF Answered, Frame, Phases
<1> QED
    BY <1>2 DEF FrameOK

\* A process of a tab changes its frame.
LEMMA OneFrame ==
    ASSUME TypeOK, NEW t \in Tabs, NEW p \in Procs, NEW f \in Frame, SetFrame(t, p, f)
    PROVE  /\ proc' \in [Tabs -> [Procs -> Frame]]
           /\ \A u \in Tabs : \A q \in Procs :
                proc'[u][q] = IF u = t /\ q = p THEN f ELSE proc[u][q]
BY DEF TypeOK, SetFrame

LEMMA StatusTypes ==
    ASSUME TypeOK, NEW t \in Tabs, NEW st \in Status, NEW pg \in Pages, SetStatus(t, st, pg)
    PROVE  status' \in [Tabs -> Status] /\ page' \in [Tabs -> Pages]
<1>1. Routed(st, pg) \in Pages
    BY DEF Routed, Pages
<1> QED
    BY <1>1 DEF TypeOK, SetStatus

-----------------------------------------------------------------------------
(* The steps, by what they do to a frame                                   *)

\* A frame goes on at the server: it brings no pair, or a pair that is issued
\* now, for which the refresh token it carries is spent.
Served(t, p, f) ==
    LET old == proc[t][p] IN
    /\ SetFrame(t, p, f) /\ FrameOK(p, f)
    /\ f.call = old.call /\ f.tok = old.tok
    /\ old.ph \in {"sent", "found", "answered"} /\ f.ph \in {"found", "answered"}
    /\ UNCHANGED <<stored, status, page, ref, routed, age>>
    /\ users' \in BOOLEAN /\ actions' = actions /\ troubles' \in 0..MaxTroubles
    /\ \/ /\ f.got = None /\ UNCHANGED <<issued, live>>
          /\ old.ph # "answered" /\ gone' = gone
       \/ /\ f.got = None /\ UNCHANGED <<issued, live>>
          /\ old.ph = "answered" /\ gone' = gone \cup ({old.tok} \ {None})
       \/ /\ f.got = issued + 1 /\ issued < MaxPairs /\ issued' = issued + 1
          /\ f.ph = "answered" /\ f.ans = "ok" /\ old.ph # "answered" /\ gone' = gone
          /\ \/ live' = live \cup {issued + 1}
             \/ f.call = "refresh" /\ live' = (live \ {f.tok}) \cup {issued + 1}

\* The tab takes a frame further, and issues nothing.
Plain(t, p, f) ==
    LET old == proc[t][p] IN
    /\ SetFrame(t, p, f) /\ FrameOK(p, f)
    /\ f.got = None
    /\ \/ f.tok \in {None, stored, old.tok}
       \/ old.ph = "resumed" /\ f.tok = old.got
    /\ ~(old.call = "refresh" /\ old.ph = "answered" /\ old.ans = "ok")
    /\ old.ph # "waiting" /\ f.ph \in {"idle", "sent", "waiting", "resumed"}
    /\ f.ph = "idle" => p # "refresh"
    /\ f.ph = "waiting" => ref[t] = "busy"
    /\ f.ph = "resumed" => ref[t] # "busy"
    /\ f.ph \in {"sent", "waiting"} =>
          status' = status /\ ~(old.ph = "resumed" /\ old.got = None)
    /\ old.ph = "idle" =>
          f.ph = "sent" /\ p \notin {"init", "refresh"} /\ status[t] # "loading"
    /\ \A u \in Tabs : u # t => status'[u] = status[u]
    /\ ref' = ref \/ (ref[t] = "free" /\ ref' = [ref EXCEPT ![t] = "null"])
    /\ stored' \in {stored, None}
    /\ status' \in [Tabs -> Status] /\ page' \in [Tabs -> Pages]
    /\ UNCHANGED <<server, gone, troubles>>

LEMMA ServeEffect ==
    ASSUME TypeOK, FramesInv, NEW t \in Tabs, NEW p \in Procs,
           Serve(t, p) \/ Unreachable(t, p) \/ AnswerLost(t, p)
    PROVE  \E f : Served(t, p, f)
<1> DEFINE old == proc[t][p]
<1>0. /\ FrameOK(p, old) /\ issued \in 0..MaxPairs /\ issued \in Nat /\ MaxPairs \in Nat
      /\ users \in BOOLEAN /\ troubles \in 0..MaxTroubles /\ MaxTroubles \in Nat
      /\ None \in Token /\ {"ok", "401", "fail", "setup"} \subseteq Answers
    BY AuthAssumption DEF TypeOK, FramesInv, Token, Answers
<1> HIDE DEF old
\* An answer that brings no pair.
<1>1. ASSUME NEW ans \in {"401", "fail", "ok", "setup"},
             SetFrame(t, p, Answered(old, ans, None)), old.ph \in {"sent", "found"},
             UNCHANGED <<server, stored, status, page, ref, actions, gone>>,
             troubles' \in 0..MaxTroubles
      PROVE  \E f : Served(t, p, f)
    <2> DEFINE f == Answered(old, ans, None)
    <2>1. FrameOK(p, f) /\ f.ph = "answered" /\ f.call = old.call /\ f.tok = old.tok
          /\ f.got = None
        BY <1>0, AnsweredFrame
    <2> HIDE DEF f
    <2>2. SetFrame(t, p, f)
        BY <1>1 DEF f
    <2>3. Served(t, p, f)
        BY <1>0, <1>1, <2>1, <2>2 DEF Served, server, old
    <2> QED
        BY <2>3
\* A look that finds what it looks for.
<1>2. ASSUME SetFrame(t, p, [old EXCEPT !.ph = "found"]), old.ph = "sent",
             UNCHANGED <<server, stored, status, page, ref, actions, troubles, gone>>
      PROVE  \E f : Served(t, p, f)
    <2> DEFINE f == [old EXCEPT !.ph = "found"]
    <2>1. FrameOK(p, f) /\ f.ph = "found" /\ f.call = old.call /\ f.tok = old.tok
          /\ f.got = None
        BY <1>0, <1>2, NextFrame DEF Phases, FrameOK
    <2> HIDE DEF f
    <2>2. SetFrame(t, p, f)
        BY <1>2 DEF f
    <2>3. Served(t, p, f)
        BY <1>0, <1>2, <2>1, <2>2 DEF Served, server, old
    <2> QED
        BY <2>3
\* A new pair.
<1>3. ASSUME SetFrame(t, p, Answered(old, "ok", issued + 1)), old.ph \in {"sent", "found"},
             NEW spent, IssuePair(spent),
             spent = {} \/ (old.call = "refresh" /\ spent = {old.tok}),
             users' \in BOOLEAN,
             UNCHANGED <<stored, status, page, ref, actions, troubles, gone>>
      PROVE  \E f : Served(t, p, f)
    <2> DEFINE f == Answered(old, "ok", issued + 1)
    <2>1. issued + 1 \in Token
        BY <1>0, <1>3 DEF IssuePair, Token, Pairs
    <2>2. FrameOK(p, f) /\ f.ph = "answered" /\ f.ans = "ok" /\ f.call = old.call
          /\ f.tok = old.tok /\ f.got = issued + 1
        BY <1>0, <2>1, AnsweredFrame
    <2> HIDE DEF f
    <2>3. SetFrame(t, p, f)
        BY <1>3 DEF f
    <2>4. Served(t, p, f)
        BY <1>0, <1>3, <2>2, <2>3 DEF Served, IssuePair, old
    <2> QED
        BY <2>4
<1>4. CASE Unrouted(t, p)
    BY <1>0, <1>1, <1>4 DEF Unrouted, old
<1>5. CASE Look(t, p)
    BY <1>0, <1>1, <1>2, <1>5 DEF Look, Arrives, old
<1>6. CASE Act(t, p)
    <2>1. /\ SetFrame(t, p, Answered(old, "ok", issued + 1)) /\ old.ph = "found"
          /\ IssuePair(IF old.call = "refresh" THEN {old.tok} ELSE {})
          /\ users' \in BOOLEAN
          /\ UNCHANGED <<stored, status, page, ref, actions, troubles, gone>>
        BY <1>0, <1>6 DEF Act, old
    <2> QED
        BY <1>3, <2>1
<1>7. CASE NameTaken(t, p)
    BY <1>0, <1>1, <1>7 DEF NameTaken, old
<1>8. CASE HandleLogin(t, p)
    BY <1>0, <1>1, <1>3, <1>8 DEF HandleLogin, Arrives, old
<1>9. CASE Handle(t, p)
    <2>1. Reply(old) \in {"401", "fail", "ok", "setup"}
        BY DEF Reply
    <2> QED
        BY <1>0, <1>1, <1>9, <2>1 DEF Handle, Arrives, old
<1>10. CASE Unreachable(t, p)
    BY <1>0, <1>1, <1>10 DEF Unreachable, Trouble, old
<1>11. CASE AnswerLost(t, p)
    <2> DEFINE f == Answered(old, "fail", None)
    <2>1. FrameOK(p, f) /\ f.ph = "answered" /\ f.call = old.call /\ f.tok = old.tok
          /\ f.got = None
        BY <1>0, AnsweredFrame
    <2> HIDE DEF f
    <2>2. SetFrame(t, p, f)
        BY <1>11 DEF AnswerLost, f, old
    <2>3. Served(t, p, f)
        BY <1>0, <1>11, <2>1, <2>2 DEF Served, AnswerLost, Trouble, server, old
    <2> QED
        BY <2>3
<1> QED
    BY <1>4, <1>5, <1>6, <1>7, <1>8, <1>9, <1>10, <1>11 DEF Serve

\* The first of several requests to meet a 401 starts the refresh.
Refreshes(t, p) ==
    LET f == proc[t][p] IN
    /\ f.ph = "answered" /\ f.ans = "401" /\ Quiet(t)
    /\ ref[t] = "free" /\ stored # None
    /\ proc' = [proc EXCEPT ![t] =
                   [@ EXCEPT ![p] = [f EXCEPT !.ph = "waiting"],
                             !["refresh"] = Sent("refresh", stored)]]
    /\ ref' = [ref EXCEPT ![t] = "busy"]
    /\ UNCHANGED <<server, stored, status, page, troubles, gone>>

\* The steps of a tab that are plain.
PlainAction(t, p) ==
    \/ Await(t, p) /\ ~Refreshes(t, p)
    \/ Retry(t, p)
    \/ p = "init" /\ (InitStatus(t) \/ InitFails(t))
    \/ p = "form" /\ (FormFails(t) \/ Submit(t))
    \/ Me(t, p)
    \/ p = "logout" /\ (SignedOut(t) \/ SignOut(t))
    \/ p \in Requests /\ (DataArrives(t, p) \/ RequestData(t, p))

LEMMA PlainEffect ==
    ASSUME TypeOK, FramesInv, NEW t \in Tabs, NEW p \in Procs, PlainAction(t, p)
    PROVE  \E f : Plain(t, p, f)
<1> DEFINE old == proc[t][p]
<1>0. /\ FrameOK(p, old) /\ old \in Frame
      /\ stored \in Token /\ old.tok \in Token /\ old.got \in Token /\ None \in Token
      /\ status \in [Tabs -> Status] /\ page \in [Tabs -> Pages]
      /\ FrameOK(p, Idle) /\ Idle.got = None /\ Idle.tok = None /\ Idle.ph = "idle"
      /\ p \in {"init", "refresh", "form", "logout"} \cup Requests
      /\ Requests \cap {"init", "refresh", "form", "logout"} = {}
    BY IdleFrame, AuthAssumption DEF TypeOK, FramesInv, FrameOK, Frame, Token, Pairs, Procs
<1> HIDE DEF old
\* It waits, or resumes with nothing.
<1>1. ASSUME NEW ph \in {"waiting", "resumed"}, SetFrame(t, p, [old EXCEPT !.ph = ph]),
             old.ph = "answered", old.ans = "401",
             ph = "waiting" => ref[t] = "busy" /\ status' = status,
             ph = "resumed" => ref[t] # "busy",
             \A u \in Tabs : u # t => status'[u] = status[u],
             ref' = ref \/ (ref[t] = "free" /\ ref' = [ref EXCEPT ![t] = "null"]),
             status' \in [Tabs -> Status], page' \in [Tabs -> Pages],
             UNCHANGED <<server, stored, troubles, gone>>
      PROVE  \E f : Plain(t, p, f)
    <2> DEFINE f == [old EXCEPT !.ph = ph]
    <2>1. old.got = None
        BY <1>0, <1>1 DEF FrameOK
    <2>2. FrameOK(p, f) /\ f.tok = old.tok /\ f.got = None /\ f.ph = ph
        BY <1>0, <1>1, <2>1, NextFrame DEF Phases
    <2> HIDE DEF f
    <2>3. SetFrame(t, p, f)
        BY <1>1 DEF f
    <2>4. Plain(t, p, f)
        BY <1>0, <1>1, <2>2, <2>3 DEF Plain, old
    <2> QED
        BY <2>4
\* It ends.
<1>2. ASSUME End(t, p), p # "refresh", ref' = ref, old.ph \notin {"idle", "waiting"},
             \A u \in Tabs : u # t => status'[u] = status[u],
             ~(old.call = "refresh" /\ old.ph = "answered" /\ old.ans = "ok"),
             stored' \in {stored, None},
             status' \in [Tabs -> Status], page' \in [Tabs -> Pages],
             UNCHANGED <<server, troubles, gone>>
      PROVE  \E f : Plain(t, p, f)
    <2>1. Plain(t, p, Idle)
        BY <1>0, <1>2 DEF Plain, End, old
    <2> QED
        BY <2>1
\* It sends a request.
<1>3. ASSUME NEW c \in CallsOf(p) \ {"none"}, NEW tok \in Token,
             SetFrame(t, p, Sent(c, tok)), c = "refresh" => tok # None,
             ~(old.call = "refresh" /\ old.ph = "answered" /\ old.ans = "ok"),
             \/ tok \in {None, stored, old.tok}
             \/ old.ph = "resumed" /\ tok = old.got,
             old.ph = "idle" => p \notin {"init", "refresh"} /\ status[t] # "loading",
             ~(old.ph = "resumed" /\ old.got = None), old.ph # "waiting", ref' = ref,
             UNCHANGED <<server, stored, status, page, troubles, gone>>
      PROVE  \E f : Plain(t, p, f)
    <2> DEFINE f == Sent(c, tok)
    <2>1. FrameOK(p, f) /\ f.tok = tok /\ f.got = None /\ f.ph = "sent"
        BY <1>3, SentFrame
    <2> HIDE DEF f
    <2>2. SetFrame(t, p, f)
        BY <1>3 DEF f
    <2>3. Plain(t, p, f)
        BY <1>0, <1>3, <2>1, <2>2 DEF Plain, old
    <2> QED
        BY <2>3
<1>4. \A st \in Status, pg \in Pages : SetStatus(t, st, pg) =>
          /\ status' \in [Tabs -> Status] /\ page' \in [Tabs -> Pages]
          /\ \A u \in Tabs : u # t => status'[u] = status[u]
    BY <1>0, StatusTypes DEF SetStatus
<1>5. KeepStatus =>
          /\ status' \in [Tabs -> Status] /\ page' \in [Tabs -> Pages]
          /\ status' = status /\ \A u \in Tabs : u # t => status'[u] = status[u]
    BY <1>0 DEF KeepStatus
<1>6. {"unauthenticated", "authenticated", "setup_required"} \subseteq Status
      /\ page[t] \in Pages /\ {"app", "login", "setup"} \subseteq Pages
    BY <1>0 DEF Status, Pages
<1>7. CASE Await(t, p) /\ ~Refreshes(t, p)
    <2>1. /\ old.ph = "answered" /\ old.ans = "401"
          /\ UNCHANGED <<server, stored, troubles, gone>>
        BY <1>7 DEF Await, old
    <2>2. CASE ref[t] = "busy"
        BY <1>1, <1>5, <1>7, <2>1, <2>2 DEF Await, old
    <2>3. CASE ref[t] = "null"
        BY <1>1, <1>5, <1>7, <2>1, <2>3 DEF Await, old
    <2>4. CASE ref[t] = "free" /\ stored = None
        <3>1. SetFrame(t, p, [old EXCEPT !.ph = "resumed"])
              /\ SetStatus(t, "unauthenticated", page[t])
              /\ ref' = [ref EXCEPT ![t] = "null"]
            BY <1>7, <2>4 DEF Await, old
        <3> QED
            BY <1>1, <1>4, <1>6, <2>1, <2>4, <3>1
    <2>5. ~(ref[t] = "free" /\ stored # None)
        BY <1>7, Zenon DEF Await, Refreshes, KeepStatus, old
    <2> QED
        BY <2>2, <2>3, <2>4, <2>5 DEF TypeOK
<1>8. CASE Retry(t, p)
    <2> DEFINE tok == IF old.call = "refresh" THEN old.tok ELSE old.got
               f   == [Sent(old.call, tok) EXCEPT !.again = TRUE]
    <2>1. /\ old.ph = "resumed" /\ old.got # None /\ SetFrame(t, p, f) /\ ref' = ref
          /\ UNCHANGED <<server, stored, status, page, troubles, gone>>
        BY <1>8 DEF Retry, old
    <2>2. FrameOK(p, f) /\ f.tok = tok /\ f.got = None /\ f.ph = "sent"
        BY <1>0, <2>1 DEF FrameOK, Frame, Sent, Idle, Phases, Answers, Token
    <2> HIDE DEF f
    <2>3. Plain(t, p, f)
        BY <1>0, <2>1, <2>2 DEF Plain, old
    <2> QED
        BY <2>3
<1>9. CASE p = "init" /\ InitStatus(t)
    <2>1. old.call = "status" /\ old.ph = "answered" /\ ref' = ref /\ UNCHANGED <<server, stored, troubles, gone>>
        BY <1>9 DEF InitStatus, Fulfilled, Elsewhere, old
    <2>2. CASE old.ans = "ok" /\ stored # None
        <3>1. PICK c \in {"me", "refresh"} : SetFrame(t, p, Sent(c, stored)) /\ KeepStatus
            BY <1>9, <2>2 DEF InitStatus, old
        <3>2. c \in CallsOf(p) \ {"none"}
            BY <1>9 DEF CallsOf
        <3> QED
            BY <1>0, <1>3, <1>9, <2>1, <2>2, <3>1, <3>2 DEF KeepStatus
    <2>3. CASE ~(old.ans = "ok" /\ stored # None)
        <3>1. PICK st \in {"setup_required", "unauthenticated"} : SetStatus(t, st, page[t])
            BY <1>9, <2>3 DEF InitStatus, old
        <3>2. End(t, p)
            BY <1>9, <2>3 DEF InitStatus, End, old
        <3> QED
            BY <1>2, <1>4, <1>6, <1>9, <2>1, <3>1, <3>2
    <2> QED
        BY <2>2, <2>3
<1>10. CASE p = "init" /\ InitFails(t)
    <2>1. /\ End(t, p) /\ SetStatus(t, "unauthenticated", page[t])
          /\ ref' = ref /\ UNCHANGED <<server, stored, troubles, gone>>
        BY <1>10 DEF InitFails, Elsewhere
    <2>2. /\ ~(old.call = "refresh" /\ old.ph = "answered" /\ old.ans = "ok")
          /\ old.ph \notin {"idle", "waiting"}
        BY <1>10 DEF InitFails, Rejected, old
    <2> QED
        BY <1>2, <1>4, <1>6, <1>10, <2>1, <2>2
<1>11. CASE p = "form" /\ FormFails(t)
    <2>1. /\ End(t, p) /\ KeepStatus
          /\ ref' = ref /\ UNCHANGED <<server, stored, troubles, gone>>
        BY <1>11 DEF FormFails, Elsewhere
    <2>2. /\ ~(old.call = "refresh" /\ old.ph = "answered" /\ old.ans = "ok")
          /\ old.ph \notin {"idle", "waiting"}
        BY <1>11 DEF FormFails, Rejected, old
    <2> QED
        BY <1>2, <1>5, <1>11, <2>1, <2>2
<1>12. CASE Me(t, p)
    <2>1. /\ End(t, p) /\ stored' \in {stored, None} /\ p \in {"init", "form"}
          /\ ref' = ref /\ UNCHANGED <<server, troubles, gone>>
        BY <1>12 DEF Me, Elsewhere
    <2>2. old.call = "me" /\ old.ph \notin {"idle", "waiting"}
        BY <1>12 DEF Me, Fulfilled, Rejected, old
    <2>3. PICK st \in {"authenticated", "unauthenticated"}, pg \in {"app", page[t]} :
              SetStatus(t, st, pg)
        BY <1>12 DEF Me
    <2> QED
        BY <1>2, <1>4, <1>6, <2>1, <2>2, <2>3
<1>13. CASE p = "logout" /\ SignedOut(t)
    <2>1. /\ End(t, p) /\ stored' = None /\ SetStatus(t, "unauthenticated", "login")
          /\ ref' = ref /\ UNCHANGED <<server, troubles, gone>>
        BY <1>13 DEF SignedOut, Elsewhere
    <2>2. old.call = "logout" /\ old.ph \notin {"idle", "waiting"}
        BY <1>13 DEF SignedOut, Fulfilled, Rejected, old
    <2> QED
        BY <1>2, <1>4, <1>6, <1>13, <2>1, <2>2
<1>14. CASE p \in Requests /\ DataArrives(t, p)
    <2>1. /\ End(t, p) /\ KeepStatus /\ p # "refresh"
          /\ ref' = ref /\ UNCHANGED <<server, stored, troubles, gone>>
        BY <1>0, <1>14 DEF DataArrives, Elsewhere
    <2>2. old.call = "data" /\ old.ph \notin {"idle", "waiting"}
        BY <1>14 DEF DataArrives, Fulfilled, Rejected, old
    <2> QED
        BY <1>2, <1>5, <2>1, <2>2
<1>15. ASSUME NEW c \in CallsOf(p) \ {"none", "refresh"}, NEW tok \in {None, stored},
              Starts(t, p, c, tok), p \notin {"init", "refresh"}, status[t] # "loading"
       PROVE  \E f : Plain(t, p, f)
    <2>1. old.ph = "idle"
        BY <1>15, IdleFrame DEF Starts, old
    <2> QED
        BY <1>0, <1>3, <1>15, <2>1 DEF Starts
<1>16. CASE p = "form" /\ Submit(t)
    <2>1. page[t] \in CallsOf(p) \ {"none", "refresh"}
        BY <1>16 DEF Submit, LoginShown, SetupShown, CallsOf
    <2> QED
        BY <1>15, <1>16, <2>1 DEF Submit, LoginShown, SetupShown
<1>17. CASE p = "logout" /\ SignOut(t)
    BY <1>15, <1>17 DEF SignOut, MenuShown, CallsOf
<1>18. CASE p \in Requests /\ RequestData(t, p)
    <2>1. "data" \in CallsOf(p) \ {"none", "refresh"}
        BY <1>0, <1>18 DEF CallsOf
    <2> QED
        BY <1>0, <1>15, <1>18, <2>1 DEF RequestData
<1> QED
    BY <1>7, <1>8, <1>9, <1>10, <1>11, <1>12, <1>13, <1>14, <1>16, <1>17, <1>18
    DEF PlainAction

\* What the end of a refresh does to the frames of its tab.
Woken(f, k) == [f EXCEPT !.ph = "resumed", !.got = k]

Settles(t, k) ==
    /\ proc' \in [Tabs -> [Procs -> Frame]]
    /\ \A u \in Tabs : \A q \in Procs :
         proc'[u][q] = IF u = t /\ q = "refresh" THEN Idle
                       ELSE IF u = t /\ proc[u][q].ph = "waiting" THEN Woken(proc[u][q], k)
                       ELSE proc[u][q]

LEMMA WokenFrame ==
    ASSUME NEW p, NEW f, FrameOK(p, f), f.ph = "waiting", NEW k \in Token
    PROVE  /\ FrameOK(p, Woken(f, k))
           /\ Woken(f, k).ph = "resumed" /\ Woken(f, k).got = k
           /\ Woken(f, k).call = f.call /\ Woken(f, k).tok = f.tok
BY DEF Woken, FrameOK, Frame, Phases

\* The refresh of the tab has brought a pair, or none.
Refreshed(t) ==
    LET old == proc[t]["refresh"] IN
    /\ old.call = "refresh" /\ old.ph = "answered" /\ old.ans = "ok"
    /\ stored' = old.got /\ Settles(t, old.got)
    /\ UNCHANGED <<status, page>>

RefreshFailed(t) ==
    LET old == proc[t]["refresh"] IN
    /\ ~(old.ph = "answered" /\ old.ans = "ok")
    /\ old.call = "refresh"
    /\ stored' = None /\ Settles(t, None)
    /\ SetStatus(t, "unauthenticated", page[t])

LEMMA DoRefreshEffect ==
    ASSUME TypeOK, FramesInv, NEW t \in Tabs, DoRefresh(t)
    PROVE  /\ Refreshed(t) \/ RefreshFailed(t)
           /\ ref' = [ref EXCEPT ![t] = "free"]
           /\ UNCHANGED <<server, actions, troubles, gone>>
<1> DEFINE old == proc[t]["refresh"]
<1>1. "refresh" \in Procs /\ FrameOK("refresh", old) /\ old.got \in Token /\ None \in Token
      /\ proc \in [Tabs -> [Procs -> Frame]] /\ Idle \in Frame /\ Idle.ph # "waiting"
      /\ \A q \in Procs : FrameOK(q, proc[t][q])
    BY IdleFrame DEF Procs, FramesInv, FrameOK, Frame, Token, TypeOK
<1>2. ASSUME NEW k \in Token,
             proc' = [proc EXCEPT ![t] = Resume([@ EXCEPT !["refresh"] = Idle], k)]
      PROVE  Settles(t, k)
    <2> DEFINE mid == [proc[t] EXCEPT !["refresh"] = Idle]
               new == Resume(mid, k)
    <2>1. proc' = [proc EXCEPT ![t] = new]
        BY <1>2
    <2>2. \A q \in Procs : mid[q] = IF q = "refresh" THEN Idle ELSE proc[t][q]
        BY <1>1
    <2>3. new = [q \in Procs |-> IF mid[q].ph = "waiting" THEN Woken(mid[q], k) ELSE mid[q]]
        BY DEF Resume, Woken
    <2> HIDE DEF mid, new
    <2>4. \A q \in Procs : new[q] = IF q = "refresh" THEN Idle
                                    ELSE IF proc[t][q].ph = "waiting" THEN Woken(proc[t][q], k)
                                    ELSE proc[t][q]
        BY <1>1, <2>2, <2>3
    <2>5. \A q \in Procs : new[q] \in Frame
        <3>1. \A q \in Procs : proc[t][q].ph = "waiting" =>
                                  FrameOK(q, Woken(proc[t][q], k))
            BY <1>1, WokenFrame
        <3>2. \A q \in Procs : proc[t][q].ph = "waiting" => Woken(proc[t][q], k) \in Frame
            BY <3>1 DEF FrameOK
        <3> QED
            BY <1>1, <2>4, <3>2
    <2>6. new \in [Procs -> Frame]
        BY <2>3, <2>5
    <2>7. proc' \in [Tabs -> [Procs -> Frame]]
        BY <1>1, <2>1, <2>6
    <2>8. \A u \in Tabs : proc'[u] = IF u = t THEN new ELSE proc[u]
        BY <1>1, <2>1
    <2> QED
        BY <2>4, <2>7, <2>8 DEF Settles
<1>3. CASE Fulfilled(t, "refresh", "refresh")
    <2>1. old.call = "refresh" /\ old.ph = "answered" /\ old.ans = "ok"
        BY <1>3 DEF Fulfilled
    <2>2. ~Rejected(t, "refresh", "refresh")
        BY <2>1 DEF Rejected
    <2>3. /\ stored' = old.got /\ KeepStatus
          /\ proc' = [proc EXCEPT ![t] = Resume([@ EXCEPT !["refresh"] = Idle], old.got)]
        BY <2>2 DEF DoRefresh
    <2> QED
        BY <1>1, <1>2, <2>1, <2>3 DEF Refreshed, DoRefresh, KeepStatus, Elsewhere
<1>4. CASE ~Fulfilled(t, "refresh", "refresh")
    <2>1. /\ Rejected(t, "refresh", "refresh")
          /\ stored' = None /\ SetStatus(t, "unauthenticated", page[t])
          /\ proc' = [proc EXCEPT ![t] = Resume([@ EXCEPT !["refresh"] = Idle], None)]
        BY <1>4 DEF DoRefresh
    <2>2. ~(old.ph = "answered" /\ old.ans = "ok") /\ old.call = "refresh"
        BY <2>1 DEF Rejected
    <2> QED
        BY <1>1, <1>2, <2>1, <2>2 DEF RefreshFailed, DoRefresh, Elsewhere
<1> QED
    BY <1>3, <1>4

\* A pair arrives at init or at a form.
Arrived(t, p) ==
    LET old == proc[t][p] IN
    /\ p \in {"init", "form"} /\ old.call \in {"refresh", "login", "setup"}
    /\ old.ph = "answered" /\ old.ans = "ok"
    /\ stored' = old.got
    /\ SetFrame(t, p, Sent("me", old.got))
    /\ UNCHANGED <<server, status, page, ref, actions, troubles, gone>>

LEMMA PairEffect ==
    ASSUME NEW t \in Tabs, NEW p \in Procs, PairArrives(t, p)
    PROVE  Arrived(t, p)
BY DEF PairArrives, Fulfilled, Arrived, KeepStatus, Elsewhere

\* A document of a tab ends and another begins.
Reloads(t) == \E pg \in Pages : Unload(t, pg)

\* What happens to the tokens at the server and in the browser.
World ==
    \/ \E k \in Pairs : AccessAges(k) \/ RefreshExpires(k)
    \/ DatabaseReset

\* Every step is of one of these kinds.
LEMMA StepKinds ==
    ASSUME [Next]_vars
    PROVE  \/ \E t \in Tabs : \E p \in Procs :
                 \/ Serve(t, p) \/ Unreachable(t, p) \/ AnswerLost(t, p)
                 \/ PlainAction(t, p)
                 \/ Refreshes(t, p)
                 \/ PairArrives(t, p)
           \/ \E t \in Tabs : DoRefresh(t) \/ Reloads(t)
           \/ World
           \/ UNCHANGED vars
<1>1. {"init", "form", "logout"} \subseteq Procs /\ Requests \subseteq Procs
      /\ {"app", "setup"} \subseteq Pages
    BY DEF Procs, Pages
<1>2. ASSUME NEW t \in Tabs, NEW p \in Procs, Run(t, p)
      PROVE  \/ PlainAction(t, p) \/ Refreshes(t, p) \/ PairArrives(t, p)
             \/ DoRefresh(t) \/ Reloads(t)
    BY <1>1, <1>2 DEF Run, PlainAction, Redirect, Reloads
<1>3. ASSUME NEW t \in Tabs, User(t)
      PROVE  (\E p \in Procs : PlainAction(t, p)) \/ Reloads(t)
    <2>1. ASSUME NEW d \in Requests, RequestData(t, d)
          PROVE  PlainAction(t, d)
        BY <2>1 DEF PlainAction
    <2>2. Submit(t) => PlainAction(t, "form")
        BY DEF PlainAction
    <2>3. SignOut(t) => PlainAction(t, "logout")
        BY DEF PlainAction
    <2> QED
        BY <1>1, <1>3, <2>1, <2>2, <2>3 DEF User, Load, Reloads
<1>4. ASSUME NEW t \in Tabs, Open(t)
      PROVE  Reloads(t)
    BY <1>1, <1>4 DEF Open, Reloads
<1> QED
    BY <1>2, <1>3, <1>4 DEF Next, Environment, World

-----------------------------------------------------------------------------
(* Types                                                                   *)

LEMMA NextCounters ==
    ASSUME TypeOK, FramesInv, [Next]_vars
    PROVE  actions' \in 0..MaxActions /\ troubles' \in 0..MaxTroubles
<1>0. /\ actions \in 0..MaxActions /\ troubles \in 0..MaxTroubles
      /\ MaxActions \in Nat /\ MaxTroubles \in Nat
    BY AuthAssumption DEF TypeOK
<1>1. actions' = actions \/ (actions < MaxActions /\ actions' = actions + 1)
    <2>1. ASSUME NEW t \in Tabs, NEW p \in Procs, Serve(t, p)
          PROVE  actions' = actions
        BY <2>1 DEF Serve, Unrouted, Look, Act, NameTaken, HandleLogin, Handle
    <2>2. ASSUME NEW t \in Tabs, NEW p \in Procs, Run(t, p)
          PROVE  actions' = actions
        BY <2>2 DEF Run, Await, Retry, Redirect, PairArrives, Me, InitStatus, InitFails,
           FormFails, DoRefresh, SignedOut, DataArrives, Elsewhere
    <2>3. Environment => actions' = actions
        BY DEF Environment, Unreachable, AnswerLost, AccessAges, RefreshExpires,
           DatabaseReset, Open
    <2>4. ASSUME NEW t \in Tabs, User(t)
          PROVE  actions < MaxActions /\ actions' = actions + 1
        BY <2>4 DEF User
    <2> QED
        BY <2>1, <2>2, <2>3, <2>4 DEF Next, vars
<1>2. troubles' = troubles \/ (troubles < MaxTroubles /\ troubles' = troubles + 1)
    <2>1. ASSUME NEW t \in Tabs, NEW p \in Procs, Serve(t, p)
          PROVE  troubles' = troubles
        BY <2>1 DEF Serve, Unrouted, Look, Act, NameTaken, HandleLogin, Handle
    <2>2. ASSUME NEW t \in Tabs, NEW p \in Procs, Run(t, p)
          PROVE  troubles' = troubles
        BY <2>2 DEF Run, Await, Retry, Redirect, PairArrives, Me, InitStatus, InitFails,
           FormFails, DoRefresh, SignedOut, DataArrives, Elsewhere
    <2>3. Environment => troubles' = troubles \/ Trouble
        BY DEF Environment, Unreachable, AnswerLost, AccessAges, RefreshExpires,
           DatabaseReset, Open
    <2>4. ASSUME NEW t \in Tabs, User(t)
          PROVE  troubles' = troubles
        BY <2>4 DEF User, RequestData, Submit, SignOut, Load, Starts
    <2> QED
        BY <2>1, <2>2, <2>3, <2>4 DEF Next, vars, Trouble
<1> QED
    BY <1>0, <1>1, <1>2

\* What the types need besides the counters.
Sound ==
    /\ routed \in BOOLEAN
    /\ users \in BOOLEAN
    /\ issued \in 0..MaxPairs
    /\ live \subseteq 1..issued
    /\ age \in [Pairs -> {"fresh", "soon", "expired"}]
    /\ stored \in (1..issued) \cup {None}
    /\ status \in [Tabs -> Status]
    /\ page \in [Tabs -> Pages]
    /\ ref \in [Tabs -> {"free", "busy", "null"}]
    /\ proc \in [Tabs -> [Procs -> Frame]]
    /\ gone \subseteq 1..issued
    /\ FramesInv

\* One frame changes, and nothing that was issued is forgotten.
LEMMA FrameTypes ==
    ASSUME TypeOK, FramesInv, NEW t \in Tabs, NEW p \in Procs, NEW f, SetFrame(t, p, f),
           FrameOK(p, f), Issued(f)', issued' \in {issued, issued + 1}
    PROVE  proc' \in [Tabs -> [Procs -> Frame]] /\ FramesInv'
<1>1. f \in Frame
    BY DEF FrameOK
<1>2. /\ proc' \in [Tabs -> [Procs -> Frame]]
      /\ \A u \in Tabs : \A q \in Procs :
           proc'[u][q] = IF u = t /\ q = p THEN f ELSE proc[u][q]
    BY <1>1, OneFrame
<1>3. 1..issued \subseteq 1..issued'
    BY DEF TypeOK
<1>4. \A u \in Tabs : \A q \in Procs :
          FrameOK(q, proc'[u][q]) /\ proc'[u][q].tok \in (1..issued') \cup {None}
          /\ proc'[u][q].got \in (1..issued') \cup {None}
    BY <1>2, <1>3 DEF FramesInv, Issued
<1> QED
    BY <1>2, <1>4 DEF FramesInv, Issued

LEMMA ServedTypes ==
    ASSUME TypeOK, FramesInv, NEW t \in Tabs, NEW p \in Procs, NEW f, Served(t, p, f)
    PROVE  Sound'
<1>1. /\ issued \in 0..MaxPairs /\ MaxPairs \in Nat /\ issued \in Nat
      /\ Issued(proc[t][p])
      /\ stored \in (1..issued) \cup {None}
    BY AuthAssumption DEF TypeOK, FramesInv
<1>2. \/ issued' = issued
      \/ issued' = issued + 1 /\ issued < MaxPairs
    BY DEF Served
<1>3. /\ 1..issued \subseteq 1..issued' /\ issued' \in 0..MaxPairs
      /\ issued' = issued + 1 => issued + 1 \in 1..issued'
    BY <1>1, <1>2
<1>4. Issued(f)'
    BY <1>1, <1>2, <1>3 DEF Served, Issued
<1>5. proc' \in [Tabs -> [Procs -> Frame]] /\ FramesInv'
    BY <1>2, <1>4, FrameTypes DEF Served
<1>6. live' \subseteq 1..issued' /\ gone' \subseteq 1..issued'
    BY <1>1, <1>3 DEF Served, TypeOK, Issued
<1> QED
    BY <1>3, <1>5, <1>6 DEF Served, TypeOK, Sound

LEMMA PlainTypes ==
    ASSUME TypeOK, FramesInv, NEW t \in Tabs, NEW p \in Procs, NEW f, Plain(t, p, f)
    PROVE  Sound'
<1>1. Issued(f) /\ issued' = issued
    BY DEF TypeOK, FramesInv, Plain, Issued, server
<1>2. proc' \in [Tabs -> [Procs -> Frame]] /\ FramesInv'
    BY <1>1, FrameTypes DEF Plain, Issued
<1>3. ref' \in [Tabs -> {"free", "busy", "null"}]
    BY DEF Plain, TypeOK
<1> QED
    BY <1>2, <1>3 DEF Plain, TypeOK, Sound, server

\* The frames after the start of a refresh.
Waiting(f) == [f EXCEPT !.ph = "waiting"]

LEMMA RefreshesFrames ==
    ASSUME TypeOK, FramesInv, NEW t \in Tabs, NEW p \in Procs, Refreshes(t, p),
           proc[t]["refresh"] = Idle
    PROVE  /\ p # "refresh"
           /\ proc' \in [Tabs -> [Procs -> Frame]]
           /\ \A u \in Tabs : \A q \in Procs :
                proc'[u][q] = IF u = t /\ q = "refresh" THEN Sent("refresh", stored)
                              ELSE IF u = t /\ q = p THEN Waiting(proc[u][q])
                              ELSE proc[u][q]
<1> DEFINE w == Waiting(proc[t][p])
           s == Sent("refresh", stored)
           new == [proc[t] EXCEPT ![p] = w, !["refresh"] = s]
<1>1. /\ FrameOK(p, proc[t][p]) /\ stored \in Token /\ "refresh" \in Procs
      /\ proc[t][p].ph = "answered" /\ proc[t][p].ans = "401" /\ proc[t][p].got = None
      /\ proc \in [Tabs -> [Procs -> Frame]]
    <2>1. FrameOK(p, proc[t][p])
        BY DEF FramesInv
    <2>2. stored \in Token
        <3>1. stored \in (1..issued) \cup {None} /\ issued \in 0..MaxPairs
            BY DEF TypeOK
        <3>2. MaxPairs \in Nat
            BY AuthAssumption
        <3>3. 1..issued \subseteq Pairs
            BY <3>1, <3>2 DEF Pairs
        <3> QED
            BY <3>1, <3>3 DEF Token
    <2>3. proc[t][p].ph = "answered" /\ proc[t][p].ans = "401"
        BY DEF Refreshes
    <2>4. proc[t][p].got = None
        BY <2>1, <2>3 DEF FrameOK
    <2>5. proc \in [Tabs -> [Procs -> Frame]]
        BY DEF TypeOK
    <2>6. "refresh" \in Procs
        BY DEF Procs
    <2> QED
        BY <2>1, <2>2, <2>3, <2>4, <2>5, <2>6
<1>2. p # "refresh"
    BY <1>1, IdleFrame
<1>3. w \in Frame
    BY <1>1 DEF Waiting, FrameOK, Frame, Phases
<1>4. s \in Frame
    <2>1. "refresh" \in CallsOf("refresh") \ {"none"}
        BY DEF CallsOf
    <2>2. FrameOK("refresh", s)
        BY <1>1, <2>1, SentFrame DEF Refreshes
    <2> QED
        BY <2>2 DEF FrameOK
<1>5. proc' = [proc EXCEPT ![t] = new]
    BY DEF Refreshes, Waiting
<1> HIDE DEF s
<1>6. /\ new \in [Procs -> Frame]
      /\ \A q \in Procs : new[q] = IF q = "refresh" THEN s ELSE IF q = p THEN w ELSE proc[t][q]
    BY <1>1, <1>3, <1>4
<1> HIDE DEF new
<1>7. /\ proc' \in [Tabs -> [Procs -> Frame]]
      /\ \A u \in Tabs : proc'[u] = IF u = t THEN new ELSE proc[u]
    BY <1>1, <1>5, <1>6
<1>8. \A u \in Tabs : \A q \in Procs :
          proc'[u][q] = IF u = t /\ q = "refresh" THEN s
                        ELSE IF u = t /\ q = p THEN Waiting(proc[u][q]) ELSE proc[u][q]
    BY <1>6, <1>7
<1> QED
    BY <1>2, <1>7, <1>8 DEF s

LEMMA WaitingFrame ==
    ASSUME NEW p, NEW f, FrameOK(p, f), f.ph = "answered", f.ans = "401"
    PROVE  /\ FrameOK(p, Waiting(f)) /\ Waiting(f).ph = "waiting"
           /\ Waiting(f).tok = f.tok /\ Waiting(f).call = f.call
           /\ Waiting(f).got = None /\ f.got = None
<1>1. f.got = None
    BY DEF FrameOK
<1> QED
    BY <1>1, NextFrame DEF Waiting, Phases

LEMMA RefreshesTypes ==
    ASSUME TypeOK, FramesInv, NEW t \in Tabs, NEW p \in Procs, Refreshes(t, p),
           proc[t]["refresh"] = Idle
    PROVE  Sound'
<1>1. /\ proc' \in [Tabs -> [Procs -> Frame]]
      /\ \A u \in Tabs : \A q \in Procs :
           proc'[u][q] = IF u = t /\ q = "refresh" THEN Sent("refresh", stored)
                         ELSE IF u = t /\ q = p THEN Waiting(proc[u][q])
                         ELSE proc[u][q]
    BY RefreshesFrames
<1>2. /\ issued' = issued /\ stored' = stored /\ stored \in (1..issued) \cup {None}
      /\ stored # None /\ stored \in Token
    <2>1. issued \in 0..MaxPairs /\ MaxPairs \in Nat /\ stored \in (1..issued) \cup {None}
        BY AuthAssumption DEF TypeOK
    <2>2. 1..issued \subseteq Pairs
        BY <2>1 DEF Pairs
    <2> QED
        BY <2>1, <2>2 DEF Refreshes, server, Token
<1>3. FrameOK("refresh", Sent("refresh", stored)) /\ Issued(Sent("refresh", stored))
    <2>1. "refresh" \in CallsOf("refresh") \ {"none"}
        BY DEF CallsOf
    <2> QED
        BY <1>2, <2>1, SentFrame DEF Issued
<1>4. FrameOK(p, Waiting(proc[t][p])) /\ Issued(Waiting(proc[t][p]))
    <2>1. FrameOK(p, proc[t][p]) /\ Issued(proc[t][p])
        BY DEF FramesInv
    <2>2. proc[t][p].ph = "answered" /\ proc[t][p].ans = "401"
        BY DEF Refreshes
    <2> QED
        BY <2>1, <2>2, WaitingFrame DEF Issued
<1>5. \A u \in Tabs : \A q \in Procs : FrameOK(q, proc'[u][q]) /\ Issued(proc'[u][q])
    BY <1>1, <1>3, <1>4 DEF FramesInv
<1>6. FramesInv'
    BY <1>2, <1>5 DEF FramesInv, Issued
<1>7. ref' \in [Tabs -> {"free", "busy", "null"}]
    BY DEF Refreshes, TypeOK
<1> QED
    BY <1>1, <1>2, <1>6, <1>7 DEF Refreshes, TypeOK, Sound, server

LEMMA ArrivedTypes ==
    ASSUME TypeOK, FramesInv, NEW t \in Tabs, NEW p \in Procs, Arrived(t, p)
    PROVE  Sound'
<1> DEFINE old == proc[t][p]
<1>0. PICK f : f = Sent("me", old.got)
    OBVIOUS
<1>1. /\ "me" \in CallsOf(p) \ {"none"} /\ issued' = issued
      /\ SetFrame(t, p, f)
    BY <1>0 DEF Arrived, CallsOf, server
<1>2. FrameOK(p, old) /\ Issued(old) /\ old.got \in Token
    BY DEF FramesInv, FrameOK, Frame
<1>3. None \in Token
    BY DEF Token
<1>4. FrameOK(p, f) /\ f.tok = old.got /\ f.got = None
    BY <1>0, <1>1, <1>2, SentFrame
<1>5. Issued(f)'
    BY <1>1, <1>2, <1>4 DEF Issued
<1>6. proc' \in [Tabs -> [Procs -> Frame]] /\ FramesInv'
    BY <1>1, <1>4, <1>5, FrameTypes
<1>7. stored' \in (1..issued) \cup {None}
    BY <1>2 DEF Arrived, Issued
<1> QED
    BY <1>6, <1>7 DEF Arrived, TypeOK, Sound, server

LEMMA DoRefreshTypes ==
    ASSUME TypeOK, FramesInv, NEW t \in Tabs, DoRefresh(t)
    PROVE  Sound'
<1>1. /\ Refreshed(t) \/ RefreshFailed(t)
      /\ ref' = [ref EXCEPT ![t] = "free"] /\ UNCHANGED <<server, gone>>
    BY DoRefreshEffect
<1>2. "refresh" \in Procs
    BY DEF Procs
<1>3. FrameOK("refresh", proc[t]["refresh"]) /\ Issued(proc[t]["refresh"])
    BY <1>2 DEF FramesInv
<1>4. PICK k \in (1..issued) \cup {None} :
          k \in Token /\ stored' = k /\ Settles(t, k)
    <2>1. proc[t]["refresh"].got \in Token /\ None \in Token
        BY <1>3 DEF FrameOK, Frame, Token
    <2>2. proc[t]["refresh"].got \in (1..issued) \cup {None}
        BY <1>3 DEF Issued
    <2> QED
        BY <1>1, <2>1, <2>2 DEF Refreshed, RefreshFailed
<1>5. status' \in [Tabs -> Status] /\ page' \in [Tabs -> Pages]
    <2>1. "unauthenticated" \in Status /\ page[t] \in Pages
        BY DEF TypeOK, Status
    <2>2. RefreshFailed(t) => SetStatus(t, "unauthenticated", page[t])
        BY DEF RefreshFailed
    <2>3. Refreshed(t) => UNCHANGED <<status, page>>
        BY DEF Refreshed
    <2> QED
        BY <1>1, <2>1, <2>2, <2>3, StatusTypes DEF TypeOK
<1>6. issued' = issued
    BY <1>1 DEF server
<1>7. \A q \in Procs : proc[t][q].ph = "waiting" =>
          FrameOK(q, Woken(proc[t][q], k)) /\ Issued(Woken(proc[t][q], k))
    BY <1>4, WokenFrame DEF FramesInv, Issued
<1>8. \A u \in Tabs : \A q \in Procs : FrameOK(q, proc'[u][q]) /\ Issued(proc'[u][q])
    BY <1>4, <1>7, IdleFrame DEF Settles, FramesInv
<1>9. FramesInv'
    BY <1>6, <1>8 DEF FramesInv, Issued
<1>10. ref' \in [Tabs -> {"free", "busy", "null"}]
    BY <1>1 DEF TypeOK
<1> QED
    BY <1>1, <1>4, <1>5, <1>9, <1>10 DEF Settles, TypeOK, Sound, server

\* The frames of a document that has just been loaded.
Fresh(p) == IF p = "init" THEN Sent("status", None) ELSE Idle

LEMMA FreshFrame ==
    ASSUME NEW p
    PROVE  FrameOK(p, Fresh(p)) /\ Issued(Fresh(p)) /\ Fresh(p).tok = None
           /\ Fresh(p).got = None /\ Fresh(p).call # "refresh" /\ Fresh(p) \in Frame
           /\ Fresh(p).ph \in {"idle", "sent"} /\ (Fresh(p) = Idle <=> p # "init")
<1>1. CASE p # "init"
    BY <1>1, IdleFrame DEF Fresh, FrameOK
<1>2. CASE p = "init"
    <2>1. "status" \in CallsOf(p) \ {"none"} /\ None \in Token
        BY <1>2 DEF CallsOf, Token
    <2>2. /\ FrameOK(p, Sent("status", None)) /\ Sent("status", None).ph = "sent"
          /\ Sent("status", None).tok = None /\ Sent("status", None).got = None
          /\ Sent("status", None).call = "status"
        BY <2>1, SentFrame
    <2> QED
        BY <1>2, <2>2, IdleFrame DEF Fresh, Issued, FrameOK
<1> QED
    BY <1>1, <1>2

LEMMA UnloadFrames ==
    ASSUME TypeOK, NEW t \in Tabs, Reloads(t)
    PROVE  /\ proc' \in [Tabs -> [Procs -> Frame]]
           /\ \A u \in Tabs : \A q \in Procs :
                proc'[u][q] = IF u = t THEN Fresh(q) ELSE proc[u][q]
<1> DEFINE new == [q \in Procs |-> Fresh(q)]
<1>1. proc' = [proc EXCEPT ![t] = new]
    BY Zenon DEF Reloads, Unload, Fresh
<1>2. new \in [Procs -> Frame]
    BY FreshFrame
<1>3. \A q \in Procs : new[q] = Fresh(q)
    OBVIOUS
<1> HIDE DEF new
<1>4. proc \in [Tabs -> [Procs -> Frame]]
    BY DEF TypeOK
<1> QED
    BY <1>1, <1>2, <1>3, <1>4

\* What a load leaves of the tokens.
LEMMA UnloadTokens ==
    ASSUME TypeOK, FramesInv, NEW t \in Tabs, Reloads(t)
    PROVE  /\ UNCHANGED <<routed, issued, age, stored>>
           /\ ref' = [ref EXCEPT ![t] = "free"]
           /\ users' \in BOOLEAN
           /\ live' \subseteq live /\ live \ live' \subseteq gone'
           /\ gone \subseteq gone' /\ gone' \subseteq 1..issued
           /\ Rotated(t) \subseteq gone'
           /\ status' \in [Tabs -> Status] /\ page' \in [Tabs -> Pages]
<1>1. PICK pg \in Pages : Unload(t, pg)
    BY DEF Reloads
<1>2. PICK late \in SUBSET {proc[t][p].tok : p \in Under(t, "refresh")} :
          live' = live \ late /\ gone' = gone \cup Rotated(t) \cup (late \cap live)
    BY <1>1 DEF Unload
<1>3. Rotated(t) \subseteq 1..issued
    <2>1. \A p \in Procs : Issued(proc[t][p]) /\ FrameOK(p, proc[t][p])
        BY DEF FramesInv
    <2>2. \A p \in Under(t, "refresh") : p \in Procs /\ proc[t][p].call = "refresh"
        BY DEF Under
    <2>3. \A p \in Under(t, "refresh") : proc[t][p].tok \in 1..issued
        BY <2>1, <2>2 DEF Issued, FrameOK
    <2> QED
        BY <2>3 DEF Rotated
<1>4. users' \in BOOLEAN
    BY <1>1 DEF Unload, TypeOK
<1>5. status' \in [Tabs -> Status] /\ page' \in [Tabs -> Pages]
    <2>1. "loading" \in Status
        BY DEF Status
    <2> QED
        BY <1>1, <2>1 DEF Unload, TypeOK
<1>6. UNCHANGED <<routed, issued, age, stored>> /\ ref' = [ref EXCEPT ![t] = "free"]
    BY <1>1 DEF Unload
<1> QED
    BY <1>2, <1>3, <1>4, <1>5, <1>6 DEF TypeOK

LEMMA ReloadTypes ==
    ASSUME TypeOK, FramesInv, NEW t \in Tabs, Reloads(t)
    PROVE  Sound'
<1>1. /\ proc' \in [Tabs -> [Procs -> Frame]]
      /\ \A u \in Tabs : \A q \in Procs :
           proc'[u][q] = IF u = t THEN Fresh(q) ELSE proc[u][q]
    BY UnloadFrames
<1>2. issued' = issued
    BY UnloadTokens
<1>3. \A u \in Tabs : \A q \in Procs : FrameOK(q, proc'[u][q]) /\ Issued(proc'[u][q])
    BY <1>1, FreshFrame DEF FramesInv
<1>4. FramesInv'
    BY <1>2, <1>3 DEF FramesInv, Issued
<1>5. ref' \in [Tabs -> {"free", "busy", "null"}]
    BY UnloadTokens DEF TypeOK
<1> QED
    BY <1>1, <1>4, <1>5, UnloadTokens DEF TypeOK, Sound

LEMMA WorldEffect ==
    ASSUME TypeOK, World
    PROVE  /\ UNCHANGED <<issued, stored, status, page, ref, proc, routed>>
           /\ live' \subseteq live /\ live \ live' \subseteq gone' /\ gone \subseteq gone'
           /\ gone' \subseteq gone \cup live
           /\ users' \in BOOLEAN /\ age' \in [Pairs -> {"fresh", "soon", "expired"}]
<1>1. CASE \E k \in Pairs : AccessAges(k)
    BY <1>1 DEF AccessAges, TypeOK
<1>2. CASE \E k \in Pairs : RefreshExpires(k)
    BY <1>2 DEF RefreshExpires, TypeOK
<1>3. CASE DatabaseReset
    BY <1>3 DEF DatabaseReset, TypeOK
<1> QED
    BY <1>1, <1>2, <1>3 DEF World

LEMMA WorldTypes ==
    ASSUME TypeOK, FramesInv, World
    PROVE  Sound'
<1>1. FramesInv'
    BY WorldEffect DEF FramesInv, Issued
<1> QED
    BY <1>1, WorldEffect DEF TypeOK, Sound

\* Of the kinds of a step, its effects; every proof about steps starts here.
LEMMA StepEffects ==
    ASSUME TypeOK, FramesInv, [Next]_vars
    PROVE  \/ \E t \in Tabs : \E p \in Procs : \E f : Served(t, p, f) \/ Plain(t, p, f)
           \/ \E t \in Tabs : \E p \in Procs : Refreshes(t, p) \/ Arrived(t, p)
           \/ \E t \in Tabs : DoRefresh(t) \/ Reloads(t)
           \/ World
           \/ UNCHANGED vars
BY StepKinds, ServeEffect, PlainEffect, PairEffect

LEMMA NextSound ==
    ASSUME TypeOK, FramesInv, AwaitsARefresh, [Next]_vars
    PROVE  TypeOK' /\ FramesInv'
<1>1. ASSUME NEW t \in Tabs, NEW p \in Procs, NEW f, Served(t, p, f) \/ Plain(t, p, f)
      PROVE  Sound'
    BY <1>1, ServedTypes, PlainTypes
<1>2. ASSUME NEW t \in Tabs, NEW p \in Procs, Refreshes(t, p)
      PROVE  Sound'
    <2>1. proc[t]["refresh"] = Idle
        BY <1>2 DEF Refreshes, AwaitsARefresh
    <2> QED
        BY <1>2, <2>1, RefreshesTypes
<1>3. ASSUME NEW t \in Tabs, NEW p \in Procs, Arrived(t, p)
      PROVE  Sound'
    BY <1>3, ArrivedTypes
<1>4. ASSUME NEW t \in Tabs, DoRefresh(t) \/ Reloads(t)
      PROVE  Sound'
    BY <1>4, DoRefreshTypes, ReloadTypes
<1>5. World => Sound'
    BY WorldTypes
<1>6. UNCHANGED vars => Sound'
    BY DEF vars, server, TypeOK, FramesInv, Issued, Sound
<1>7. Sound'
    BY <1>1, <1>2, <1>3, <1>4, <1>5, <1>6, StepEffects
<1> QED
    BY <1>7, NextCounters DEF Sound, TypeOK

-----------------------------------------------------------------------------
(* Whoever awaits a refresh awaits one that runs                           *)

\* A refresh runs exactly when its frame has a phase.
LEMMA RunningRefresh ==
    ASSUME FramesInv, NEW t \in Tabs
    PROVE  proc[t]["refresh"] # Idle <=> proc[t]["refresh"].ph # "idle"
<1>1. "refresh" \in Procs
    BY DEF Procs
<1>2. FrameOK("refresh", proc[t]["refresh"])
    BY <1>1 DEF FramesInv
<1> QED
    BY <1>2, IdleFrame DEF FrameOK

\* What the property says of one tab.
Awaits(t) ==
    /\ ref[t] = "busy" <=> proc[t]["refresh"].ph # "idle"
    /\ \A p \in Procs : proc[t][p].ph = "waiting" => ref[t] = "busy"

LEMMA AwaitsIt ==
    ASSUME FramesInv
    PROVE  AwaitsARefresh <=> \A t \in Tabs : Awaits(t)
BY RunningRefresh DEF AwaitsARefresh, Awaits

LEMMA NextAwaits ==
    ASSUME TypeOK, FramesInv, AwaitsARefresh, [Next]_vars
    PROVE  AwaitsARefresh'
<1>0. /\ \A t \in Tabs : Awaits(t)
      /\ "refresh" \in Procs /\ ref \in [Tabs -> {"free", "busy", "null"}]
      /\ FramesInv'
    BY AwaitsIt, NextSound DEF Procs, TypeOK
\* One frame changes.
<1>1. ASSUME NEW t \in Tabs, NEW p \in Procs, NEW f, SetFrame(t, p, f), FrameOK(p, f),
             f.ph = "waiting" => ref[t] = "busy",
             p = "refresh" => proc[t][p].ph # "idle" /\ f.ph # "idle",
             ref' = ref \/ (ref[t] = "free" /\ ref' = [ref EXCEPT ![t] = "null"])
      PROVE  \A u \in Tabs : Awaits(u)'
    <2>1. \A u \in Tabs : \A q \in Procs :
              proc'[u][q] = IF u = t /\ q = p THEN f ELSE proc[u][q]
        BY <1>1, OneFrame DEF FrameOK
    <2>2. \A u \in Tabs : ref'[u] = ref[u] \/ (ref[u] = "free" /\ ref'[u] = "null")
        BY <1>0, <1>1
    <2>3. TAKE u \in Tabs
    <2>4. ref'[u] = "busy" <=> ref[u] = "busy"
        BY <2>2
    <2>5. proc'[u]["refresh"].ph # "idle" <=> proc[u]["refresh"].ph # "idle"
        BY <1>0, <1>1, <2>1
    <2>6. \A q \in Procs : proc'[u][q].ph = "waiting" => ref[u] = "busy"
        BY <1>0, <1>1, <2>1 DEF Awaits
    <2> QED
        BY <1>0, <2>4, <2>5, <2>6 DEF Awaits
<1>2. ASSUME NEW t \in Tabs, NEW p \in Procs, NEW f, Served(t, p, f)
      PROVE  \A u \in Tabs : Awaits(u)'
    <2>1. /\ SetFrame(t, p, f) /\ FrameOK(p, f) /\ ref' = ref
          /\ f.ph # "waiting" /\ f.ph # "idle" /\ proc[t][p].ph # "idle"
        BY <1>2 DEF Served
    <2> QED
        BY <1>1, <2>1
<1>3. ASSUME NEW t \in Tabs, NEW p \in Procs, NEW f, Plain(t, p, f)
      PROVE  \A u \in Tabs : Awaits(u)'
    <2>1. /\ SetFrame(t, p, f) /\ FrameOK(p, f)
          /\ f.ph = "waiting" => ref[t] = "busy"
          /\ p = "refresh" => proc[t][p].ph # "idle" /\ f.ph # "idle"
          /\ ref' = ref \/ (ref[t] = "free" /\ ref' = [ref EXCEPT ![t] = "null"])
        BY <1>3 DEF Plain
    <2> QED
        BY <1>1, <2>1
<1>4. ASSUME NEW t \in Tabs, NEW p \in Procs, Arrived(t, p)
      PROVE  \A u \in Tabs : Awaits(u)'
    <2>1. "me" \in CallsOf(p) \ {"none"} /\ p # "refresh" /\ ref' = ref
        BY <1>4 DEF Arrived, CallsOf
    <2>2. proc[t][p].got \in Token
        BY DEF FramesInv, FrameOK, Frame
    <2>3. PICK f : f = Sent("me", proc[t][p].got)
        OBVIOUS
    <2>4. FrameOK(p, f) /\ f.ph = "sent"
        BY <2>1, <2>2, <2>3, SentFrame
    <2>5. SetFrame(t, p, f)
        BY <1>4, <2>3 DEF Arrived
    <2> QED
        BY <1>1, <2>1, <2>4, <2>5
<1>5. ASSUME NEW t \in Tabs, NEW p \in Procs, Refreshes(t, p)
      PROVE  \A u \in Tabs : Awaits(u)'
    <2>1. proc[t]["refresh"] = Idle
        BY <1>5 DEF Refreshes, AwaitsARefresh
    <2>2. \A u \in Tabs : \A q \in Procs :
              proc'[u][q] = IF u = t /\ q = "refresh" THEN Sent("refresh", stored)
                            ELSE IF u = t /\ q = p THEN Waiting(proc[u][q])
                            ELSE proc[u][q]
        BY <1>5, <2>1, RefreshesFrames
    <2>3. Sent("refresh", stored).ph = "sent"
        BY DEF Sent, Idle
    <2>4. ref' = [ref EXCEPT ![t] = "busy"]
        BY <1>5 DEF Refreshes
    <2>5. TAKE u \in Tabs
    <2>6. CASE u = t
        BY <1>0, <2>2, <2>3, <2>4, <2>6 DEF Awaits
    <2>7. CASE u # t
        <3>1. ref'[u] = ref[u] /\ \A q \in Procs : proc'[u][q] = proc[u][q]
            BY <1>0, <2>2, <2>4, <2>7
        <3> QED
            BY <1>0, <3>1 DEF Awaits
    <2> QED
        BY <2>6, <2>7
<1>6. ASSUME NEW t \in Tabs, DoRefresh(t)
      PROVE  \A u \in Tabs : Awaits(u)'
    <2>1. /\ Refreshed(t) \/ RefreshFailed(t)
          /\ ref' = [ref EXCEPT ![t] = "free"]
        BY <1>6, DoRefreshEffect
    <2>2. FrameOK("refresh", proc[t]["refresh"])
        BY <1>0 DEF FramesInv
    <2>3. None \in Token /\ proc[t]["refresh"].got \in Token
        BY <2>2 DEF FrameOK, Frame, Token
    <2>4. PICK k \in Token : Settles(t, k)
        BY <2>1, <2>3 DEF Refreshed, RefreshFailed
    <2>5. \A q \in Procs : proc[t][q].ph = "waiting" => Woken(proc[t][q], k).ph = "resumed"
        BY WokenFrame DEF FramesInv
    <2>6. TAKE u \in Tabs
    <2>7. CASE u = t
        <3>1. ref'[u] = "free" /\ proc'[u]["refresh"].ph = "idle"
            BY <1>0, <2>1, <2>4, <2>7, IdleFrame DEF Settles
        <3>2. \A q \in Procs : proc'[u][q].ph # "waiting"
            BY <2>4, <2>5, <2>7, IdleFrame DEF Settles
        <3> QED
            BY <3>1, <3>2 DEF Awaits
    <2>8. CASE u # t
        <3>1. ref'[u] = ref[u] /\ \A q \in Procs : proc'[u][q] = proc[u][q]
            BY <1>0, <2>1, <2>4, <2>8 DEF Settles
        <3> QED
            BY <1>0, <3>1 DEF Awaits
    <2> QED
        BY <2>7, <2>8
<1>7. ASSUME NEW t \in Tabs, Reloads(t)
      PROVE  \A u \in Tabs : Awaits(u)'
    <2>1. \A u \in Tabs : \A q \in Procs :
              proc'[u][q] = IF u = t THEN Fresh(q) ELSE proc[u][q]
        BY <1>7, UnloadFrames
    <2>2. ref' = [ref EXCEPT ![t] = "free"]
        BY <1>7, UnloadTokens
    <2>3. /\ \A q : Fresh(q).ph # "waiting"
          /\ Fresh("refresh").ph = "idle"
        BY FreshFrame, IdleFrame DEF Fresh
    <2>4. TAKE u \in Tabs
    <2>5. CASE u = t
        BY <1>0, <2>1, <2>2, <2>3, <2>5 DEF Awaits
    <2>6. CASE u # t
        <3>1. ref'[u] = ref[u] /\ \A q \in Procs : proc'[u][q] = proc[u][q]
            BY <1>0, <2>1, <2>2, <2>6
        <3> QED
            BY <1>0, <3>1 DEF Awaits
    <2> QED
        BY <2>5, <2>6
<1>8. World \/ UNCHANGED vars => \A u \in Tabs : Awaits(u)'
    BY <1>0, WorldEffect DEF vars, Awaits
<1>9. \A u \in Tabs : Awaits(u)'
    BY <1>2, <1>3, <1>4, <1>5, <1>6, <1>7, <1>8, StepEffects
<1>10. FramesInv' => (AwaitsARefresh' <=> \A u \in Tabs : Awaits(u)')
    <2>1. ASSUME FramesInv' PROVE \A u \in Tabs :
              proc'[u]["refresh"] # Idle <=> proc'[u]["refresh"].ph # "idle"
        BY <1>0, IdleFrame DEF FramesInv, FrameOK
    <2> QED
        BY <2>1 DEF AwaitsARefresh, Awaits
<1> QED
    BY <1>0, <1>9, <1>10

-----------------------------------------------------------------------------
(* A tab has one request for new tokens under way at most                  *)

\* While init runs the tab loads, and shows nothing that could ask: of the other
\* processes only the refresh that init itself awaits is under way.  The one
\* exception is an init that has just learnt that its refresh failed.
Loading(t) ==
    /\ status[t] = "loading"
    /\ \A p \in Procs : p \notin {"init", "refresh"} => proc[t][p].ph = "idle"
    /\ proc[t]["refresh"].ph # "idle" => proc[t]["init"].ph = "waiting"

Refused(t) == proc[t]["init"].ph = "resumed" /\ proc[t]["init"].got = None

LoadsAlone(t) == proc[t]["init"].ph = "idle" \/ Loading(t) \/ Refused(t)

InitInv == \A t \in Tabs : LoadsAlone(t)

\* A tab that a step leaves as it is.
LEMMA OtherTab ==
    ASSUME InitInv, NEW u \in Tabs, status'[u] = status[u],
           \A q \in Procs : proc'[u][q] = proc[u][q]
    PROVE  LoadsAlone(u)'
<1>1. "init" \in Procs /\ "refresh" \in Procs
    BY DEF Procs
<1>2. LoadsAlone(u)
    BY DEF InitInv
<1> QED
    BY <1>1, <1>2 DEF LoadsAlone, Loading, Refused

LEMMA NextAlone ==
    ASSUME TypeOK, FramesInv, AwaitsARefresh, InitInv, [Next]_vars
    PROVE  InitInv'
<1>0. /\ "init" \in Procs /\ "refresh" \in Procs
      /\ \A t \in Tabs : Awaits(t) /\ LoadsAlone(t)
    BY AwaitsIt DEF Procs, InitInv
<1>1. ASSUME NEW t \in Tabs, NEW p \in Procs, NEW f, Served(t, p, f)
      PROVE  InitInv'
    <2>1. /\ SetFrame(t, p, f) /\ f \in Frame /\ status' = status
          /\ proc[t][p].ph \in {"sent", "found", "answered"}
          /\ f.ph \in {"found", "answered"}
        BY <1>1 DEF Served, FrameOK
    <2>2. \A u \in Tabs : \A q \in Procs :
              proc'[u][q] = IF u = t /\ q = p THEN f ELSE proc[u][q]
        BY <2>1, OneFrame
    <2>3. LoadsAlone(t)'
        BY <1>0, <2>1, <2>2 DEF LoadsAlone, Loading, Refused
    <2>4. \A u \in Tabs : u # t => LoadsAlone(u)'
        BY <2>1, <2>2, OtherTab
    <2> QED
        BY <2>3, <2>4 DEF InitInv
<1>2. ASSUME NEW t \in Tabs, NEW p \in Procs, NEW f, Plain(t, p, f)
      PROVE  InitInv'
    <2> DEFINE old == proc[t][p]
    <2>1. /\ SetFrame(t, p, f) /\ f \in Frame /\ f.got = None
          /\ f.ph \in {"idle", "sent", "waiting", "resumed"}
          /\ f.ph = "idle" => p # "refresh"
          /\ f.ph = "waiting" => ref[t] = "busy"
          /\ f.ph = "resumed" => ref[t] # "busy"
          /\ f.ph \in {"sent", "waiting"} =>
                status' = status /\ ~(old.ph = "resumed" /\ old.got = None)
          /\ old.ph = "idle" =>
                f.ph = "sent" /\ p \notin {"init", "refresh"} /\ status[t] # "loading"
          /\ \A u \in Tabs : u # t => status'[u] = status[u]
        BY <1>2 DEF Plain, FrameOK
    <2>2. \A u \in Tabs : \A q \in Procs :
              proc'[u][q] = IF u = t /\ q = p THEN f ELSE proc[u][q]
        BY <2>1, OneFrame
    <2> HIDE DEF old
    <2>3. LoadsAlone(t)'
        <3>1. CASE p = "init"
            <4>1. CASE f.ph = "idle" \/ f.ph = "resumed"
                BY <1>0, <2>1, <2>2, <3>1, <4>1 DEF LoadsAlone, Refused
            <4>2. CASE f.ph \in {"sent", "waiting"}
                <5>1. Loading(t)
                    BY <1>0, <2>1, <3>1, <4>2 DEF LoadsAlone, Refused, old
                <5>2. proc[t]["refresh"].ph # "idle" => f.ph = "waiting"
                    \* Then init waits, and only the end of that refresh moves it.
                    <6>1. proc[t]["refresh"].ph # "idle" => old.ph = "waiting"
                        BY <3>1, <5>1 DEF Loading, old
                    <6>2. old.ph # "waiting"
                        BY <1>2 DEF Plain, old
                    <6> QED
                        BY <6>1, <6>2
                <5> QED
                    BY <1>0, <2>1, <2>2, <3>1, <4>2, <5>1, <5>2 DEF LoadsAlone, Loading
            <4> QED
                BY <2>1, <4>1, <4>2
        <3>2. CASE p = "refresh"
            <4>1. f.ph # "resumed" /\ f.ph # "idle" /\ old.ph # "idle"
                BY <1>0, <2>1, <3>2 DEF Awaits, old
            <4>2. status' = status
                BY <2>1, <4>1
            <4> QED
                BY <1>0, <2>1, <2>2, <3>2, <4>1, <4>2 DEF LoadsAlone, Loading, Refused, old
        <3>3. CASE p \notin {"init", "refresh"}
            <4>1. ~Loading(t)
                BY <2>1, <3>3 DEF Loading, old
            <4> QED
                BY <1>0, <2>2, <3>3, <4>1 DEF LoadsAlone, Refused
        <3> QED
            BY <3>1, <3>2, <3>3
    <2>4. \A u \in Tabs : u # t => LoadsAlone(u)'
        BY <2>1, <2>2, OtherTab
    <2> QED
        BY <2>3, <2>4 DEF InitInv
<1>3. ASSUME NEW t \in Tabs, NEW p \in Procs, Arrived(t, p)
      PROVE  InitInv'
    <2>1. /\ SetFrame(t, p, Sent("me", proc[t][p].got)) /\ status' = status
          /\ p \in {"init", "form"} /\ proc[t][p].ph = "answered"
        BY <1>3 DEF Arrived
    <2>2. "me" \in CallsOf(p) \ {"none"}
        BY <2>1 DEF CallsOf
    <2>3. proc[t][p].got \in Token
        BY DEF FramesInv, FrameOK, Frame
    <2>4. PICK f \in Frame : f = Sent("me", proc[t][p].got) /\ f.ph = "sent"
        BY <2>2, <2>3, SentFrame DEF FrameOK
    <2>5. \A u \in Tabs : \A q \in Procs :
              proc'[u][q] = IF u = t /\ q = p THEN f ELSE proc[u][q]
        BY <2>1, <2>4, OneFrame
    <2>6. LoadsAlone(t)'
        BY <1>0, <2>1, <2>4, <2>5 DEF LoadsAlone, Loading, Refused
    <2>7. \A u \in Tabs : u # t => LoadsAlone(u)'
        BY <2>1, <2>5, OtherTab
    <2> QED
        BY <2>6, <2>7 DEF InitInv
<1>4. ASSUME NEW t \in Tabs, NEW p \in Procs, Refreshes(t, p)
      PROVE  InitInv'
    <2>1. /\ proc[t]["refresh"] = Idle /\ status' = status
          /\ proc[t][p].ph = "answered" /\ proc[t]["init"].ph # "resumed"
        BY <1>0, <1>4 DEF Refreshes, AwaitsARefresh, Quiet
    <2>2. /\ p # "refresh"
          /\ \A u \in Tabs : \A q \in Procs :
              proc'[u][q] = IF u = t /\ q = "refresh" THEN Sent("refresh", stored)
                            ELSE IF u = t /\ q = p THEN Waiting(proc[u][q])
                            ELSE proc[u][q]
        BY <1>4, <2>1, RefreshesFrames
    <2>3. p = "init" => proc'[t]["init"].ph = "waiting"
        <3>1. FrameOK(p, proc[t][p]) /\ proc[t][p].ans = "401"
            BY <1>4 DEF FramesInv, Refreshes
        <3> QED
            BY <1>0, <2>1, <2>2, <3>1, WaitingFrame
    <2>4. LoadsAlone(t)'
        <3>1. CASE p = "init"
            <4>1. Loading(t)
                BY <1>0, <2>1, <3>1 DEF LoadsAlone, Refused
            <4> QED
                BY <1>0, <2>1, <2>2, <2>3, <3>1, <4>1 DEF LoadsAlone, Loading
        <3>2. CASE p # "init"
            <4>1. proc[t]["init"].ph = "idle"
                BY <1>0, <2>1, <2>2, <3>2 DEF LoadsAlone, Loading, Refused
            <4> QED
                BY <1>0, <2>2, <3>2, <4>1 DEF LoadsAlone
        <3> QED
            BY <3>1, <3>2
    <2>5. \A u \in Tabs : u # t => LoadsAlone(u)'
        BY <2>1, <2>2, OtherTab
    <2> QED
        BY <2>4, <2>5 DEF InitInv
<1>5. ASSUME NEW t \in Tabs, DoRefresh(t)
      PROVE  InitInv'
    <2>1. Refreshed(t) \/ RefreshFailed(t)
        BY <1>5, DoRefreshEffect
    <2>2. proc[t]["refresh"].call = "refresh"
        BY <2>1 DEF Refreshed, RefreshFailed
    <2>3. FrameOK("refresh", proc[t]["refresh"])
        BY <1>0 DEF FramesInv
    <2>4. None \in Token /\ proc[t]["refresh"].got \in Token
        BY <2>3 DEF FrameOK, Frame, Token
    <2>5. PICK k \in Token : /\ Settles(t, k)
                             /\ RefreshFailed(t) => k = None
                             /\ Refreshed(t) => status' = status
        <3>1. Refreshed(t) => ~RefreshFailed(t)
            BY DEF Refreshed, RefreshFailed
        <3> QED
            BY <2>1, <2>4, <3>1 DEF Refreshed, RefreshFailed
    <2>6. \A u \in Tabs : u # t => status'[u] = status[u]
        BY <2>1 DEF Refreshed, RefreshFailed, SetStatus, TypeOK
    <2>7. proc[t]["init"].ph = "waiting" =>
              Woken(proc[t]["init"], k).ph = "resumed" /\ Woken(proc[t]["init"], k).got = k
        BY <1>0, WokenFrame DEF FramesInv
    <2>8. proc'[t]["refresh"].ph = "idle"
        BY <1>0, <2>5, IdleFrame DEF Settles
    <2>9. LoadsAlone(t)'
        <3>1. CASE proc[t]["init"].ph # "waiting"
            <4>1. proc'[t]["init"] = proc[t]["init"]
                BY <1>0, <2>5, <3>1 DEF Settles
            <4>2. ~Loading(t)
                <5>1. proc[t]["refresh"].ph # "idle"
                    BY <2>2, <2>3, IdleFrame DEF FrameOK
                <5> QED
                    BY <3>1, <5>1 DEF Loading
            <4> QED
                BY <1>0, <4>1, <4>2 DEF LoadsAlone, Refused
        <3>2. CASE proc[t]["init"].ph = "waiting"
            <4>1. Loading(t)
                BY <1>0, <3>2 DEF LoadsAlone, Refused
            <4>2. proc'[t]["init"].ph = "resumed" /\ proc'[t]["init"].got = k
                BY <1>0, <2>5, <2>7, <3>2 DEF Settles
            <4>3. CASE RefreshFailed(t)
                BY <2>5, <4>2, <4>3 DEF LoadsAlone, Refused
            <4>4. CASE Refreshed(t)
                <5>1. \A q \in Procs : q \notin {"init", "refresh"} => proc'[t][q].ph = "idle"
                    BY <2>5, <4>1 DEF Settles, Loading
                <5> QED
                    BY <2>5, <2>8, <4>1, <4>4, <5>1 DEF LoadsAlone, Loading
            <4> QED
                BY <2>1, <4>3, <4>4
        <3> QED
            BY <3>1, <3>2
    <2>10. \A u \in Tabs : u # t => LoadsAlone(u)'
        BY <2>5, <2>6, OtherTab DEF Settles
    <2> QED
        BY <2>9, <2>10 DEF InitInv
<1>6. ASSUME NEW t \in Tabs, Reloads(t)
      PROVE  InitInv'
    <2>1. \A u \in Tabs : \A q \in Procs :
              proc'[u][q] = IF u = t THEN Fresh(q) ELSE proc[u][q]
        BY <1>6, UnloadFrames
    <2>2. status' = [status EXCEPT ![t] = "loading"]
        BY <1>6 DEF Reloads, Unload
    <2>3. \A q : q # "init" => Fresh(q).ph = "idle"
        BY IdleFrame DEF Fresh
    <2>4. LoadsAlone(t)'
        BY <1>0, <2>1, <2>2, <2>3 DEF LoadsAlone, Loading, TypeOK
    <2>5. \A u \in Tabs : u # t => status'[u] = status[u]
        BY <2>2 DEF TypeOK
    <2>6. \A u \in Tabs : u # t => LoadsAlone(u)'
        BY <2>1, <2>5, OtherTab
    <2> QED
        BY <2>4, <2>6 DEF InitInv
<1>7. World \/ UNCHANGED vars => InitInv'
    BY WorldEffect DEF vars, InitInv, LoadsAlone, Loading, Refused
<1> QED
    BY <1>1, <1>2, <1>3, <1>4, <1>5, <1>6, <1>7, StepEffects

LEMMA AloneSingle ==
    ASSUME TypeOK, FramesInv, InitInv
    PROVE  SingleFlight
<1>1. SUFFICES ASSUME NEW t \in Tabs PROVE Cardinality(Under(t, "refresh")) <= 1
    BY DEF SingleFlight
<1>2. \A p \in Under(t, "refresh") :
          /\ p \in Procs /\ proc[t][p].call = "refresh"
          /\ proc[t][p].ph \in {"sent", "found", "answered"}
    BY DEF Under
<1>3. \A p \in Under(t, "refresh") : p \in {"init", "refresh"}
    BY <1>2 DEF FramesInv, FrameOK, CallsOf
<1>4. ~("init" \in Under(t, "refresh") /\ "refresh" \in Under(t, "refresh"))
    BY <1>2 DEF InitInv, LoadsAlone, Loading, Refused
<1>5. \E x : Under(t, "refresh") \subseteq {x}
    BY <1>3, <1>4
<1>6. PICK x : Under(t, "refresh") \subseteq {x}
    BY <1>5
<1>7. CASE Under(t, "refresh") = {}
    BY <1>7, FS_EmptySet
<1>8. CASE Under(t, "refresh") = {x}
    BY <1>8, FS_Singleton
<1> QED
    BY <1>6, <1>7, <1>8

-----------------------------------------------------------------------------
(* The stored token is honoured                                            *)

\* A frame brings the pair g, which nobody has taken up yet.
Brings(f, g) == f.ph = "answered" /\ f.ans = "ok" /\ f.got = g /\ g # None

\* Until it is taken up, a pair is known to the server (or was forgotten by it
\* alone), and to no other frame and not to the browser's storage.
Own(g, t, p) ==
    /\ g \in live \cup gone
    /\ stored # g
    /\ \A u \in Tabs : \A q \in Procs :
          /\ proc[u][q].tok # g
          /\ proc[u][q].got = g => u = t /\ q = p

PendInv ==
    \A t \in Tabs : \A p \in Procs : \A g \in Token :
        Brings(proc[t][p], g) => Own(g, t, p)

\* A pair brought by one frame stays its own while another frame changes.
LEMMA OwnStays ==
    ASSUME TypeOK, PendInv, NEW t \in Tabs, NEW p \in Procs, NEW f \in Frame,
           SetFrame(t, p, f), NEW u \in Tabs, NEW q \in Procs, NEW g \in Token,
           Brings(proc[u][q], g), ~(u = t /\ q = p),
           stored' # g, f.tok # g, f.got # g, g \in live' \cup gone'
    PROVE  Own(g, u, q)'
<1>1. \A v \in Tabs : \A r \in Procs :
          proc'[v][r] = IF v = t /\ r = p THEN f ELSE proc[v][r]
    BY OneFrame
<1>2. Own(g, u, q)
    BY DEF PendInv
<1> QED
    BY <1>1, <1>2 DEF Own

LEMMA ServedPend ==
    ASSUME TypeOK, FramesInv, PendInv, NEW t \in Tabs, NEW p \in Procs, NEW f,
           Served(t, p, f)
    PROVE  PendInv'
<1> DEFINE old == proc[t][p]
<1>1. /\ SetFrame(t, p, f) /\ f \in Frame /\ f.tok = old.tok /\ stored' = stored
    BY DEF Served, FrameOK
<1>2. \A u \in Tabs : \A q \in Procs :
          proc'[u][q] = IF u = t /\ q = p THEN f ELSE proc[u][q]
    BY <1>1, OneFrame
<1>3. SUFFICES ASSUME NEW u \in Tabs, NEW q \in Procs, NEW g \in Token,
                      Brings(proc'[u][q], g)
               PROVE  Own(g, u, q)'
    BY DEF PendInv
<1>4. issued \in Nat /\ 1..issued \subseteq Nat /\ None \notin Nat /\ issued + 1 \in Nat
      /\ issued + 1 \notin 1..issued
    BY AuthAssumption DEF TypeOK
<1>5. CASE ~(u = t /\ q = p)
    <2>1. Brings(proc[u][q], g) /\ Own(g, u, q)
        BY <1>2, <1>3, <1>5 DEF PendInv
    <2>2. stored' # g /\ f.tok # g
        BY <1>1, <2>1 DEF Own
    <2>3. g \in 1..issued
        BY <2>1 DEF Brings, FramesInv, Issued
    <2>4. f.got # g
        BY <1>4, <2>1, <2>3 DEF Served, Brings
    <2>5. g \in live' \cup gone'
        BY <2>1, <2>2 DEF Served, Own
    <2> QED
        BY <1>1, <1>5, <2>1, <2>2, <2>4, <2>5, OwnStays
<1>6. CASE u = t /\ q = p
    <2>1. f.got = g /\ g # None
        BY <1>2, <1>3, <1>6 DEF Brings
    <2>2. g = issued + 1 /\ g \in live'
        BY <2>1 DEF Served
    <2>3. stored' # g /\ f.tok # g
        BY <1>1, <1>4, <2>2 DEF TypeOK, FramesInv, Issued
    <2>4. \A v \in Tabs : \A r \in Procs : proc[v][r].tok # g /\ proc[v][r].got # g
        BY <1>4, <2>2 DEF FramesInv, Issued
    <2> QED
        BY <1>2, <1>6, <2>2, <2>3, <2>4 DEF Own
<1> QED
    BY <1>5, <1>6

LEMMA PlainPend ==
    ASSUME TypeOK, FramesInv, PendInv, NEW t \in Tabs, NEW p \in Procs, NEW f,
           Plain(t, p, f)
    PROVE  PendInv'
<1> DEFINE old == proc[t][p]
<1>1. /\ SetFrame(t, p, f) /\ f \in Frame /\ f.got = None
      /\ f.tok \in {None, stored, old.tok, old.got}
      /\ stored' \in {stored, None} /\ live' = live /\ gone' = gone
    BY DEF Plain, FrameOK, server
<1>2. \A u \in Tabs : \A q \in Procs :
          proc'[u][q] = IF u = t /\ q = p THEN f ELSE proc[u][q]
    BY <1>1, OneFrame
<1>3. SUFFICES ASSUME NEW u \in Tabs, NEW q \in Procs, NEW g \in Token,
                      Brings(proc'[u][q], g)
               PROVE  Own(g, u, q)'
    BY DEF PendInv
<1>4. ~(u = t /\ q = p) /\ Brings(proc[u][q], g) /\ g # None
    BY <1>1, <1>2, <1>3 DEF Brings
<1>5. Own(g, u, q)
    BY <1>4 DEF PendInv
<1>6. /\ stored # g /\ old.tok # g /\ old.got # g
      /\ g \in live \cup gone
    BY <1>4, <1>5 DEF Own
<1> QED
    BY <1>1, <1>4, <1>6, OwnStays

LEMMA ArrivedPend ==
    ASSUME TypeOK, FramesInv, PendInv, NEW t \in Tabs, NEW p \in Procs, Arrived(t, p)
    PROVE  PendInv'
<1> DEFINE old == proc[t][p]
<1>1. old.got \in Token /\ "me" \in CallsOf(p) \ {"none"}
    BY DEF Arrived, CallsOf, FramesInv, FrameOK, Frame
<1>2. PICK f \in Frame : /\ SetFrame(t, p, f) /\ f.tok = old.got /\ f.got = None
                         /\ f.ph = "sent"
    BY <1>1, SentFrame DEF Arrived, FrameOK
<1>3. \A u \in Tabs : \A q \in Procs :
          proc'[u][q] = IF u = t /\ q = p THEN f ELSE proc[u][q]
    BY <1>2, OneFrame
<1>4. stored' = old.got /\ live' = live /\ gone' = gone
    BY DEF Arrived, server
<1>5. SUFFICES ASSUME NEW u \in Tabs, NEW q \in Procs, NEW g \in Token,
                      Brings(proc'[u][q], g)
               PROVE  Own(g, u, q)'
    BY DEF PendInv
<1>6. ~(u = t /\ q = p) /\ Brings(proc[u][q], g) /\ g # None
    BY <1>2, <1>3, <1>5 DEF Brings
<1>7. Own(g, u, q)
    BY <1>6 DEF PendInv
<1>8. old.got # g /\ g \in live \cup gone
    BY <1>6, <1>7 DEF Own
<1> QED
    BY <1>2, <1>4, <1>6, <1>8, OwnStays

LEMMA RefreshesPend ==
    ASSUME TypeOK, FramesInv, PendInv, NEW t \in Tabs, NEW p \in Procs, Refreshes(t, p),
           proc[t]["refresh"] = Idle
    PROVE  PendInv'
<1>1. \A u \in Tabs : \A q \in Procs :
          proc'[u][q] = IF u = t /\ q = "refresh" THEN Sent("refresh", stored)
                        ELSE IF u = t /\ q = p THEN Waiting(proc[u][q])
                        ELSE proc[u][q]
    BY RefreshesFrames
<1>2. stored' = stored /\ live' = live /\ gone' = gone
    BY DEF Refreshes, server
<1>3. LET s == Sent("refresh", stored) IN s.ph = "sent" /\ s.tok = stored /\ s.got = None
    BY DEF Sent, Idle
<1>4. LET w == Waiting(proc[t][p]) IN
      w.ph = "waiting" /\ w.tok = proc[t][p].tok /\ w.got = None
    <2>1. FrameOK(p, proc[t][p])
        BY DEF FramesInv
    <2>2. proc[t][p].ph = "answered" /\ proc[t][p].ans = "401"
        BY DEF Refreshes
    <2> QED
        BY <2>1, <2>2, WaitingFrame
<1>5. SUFFICES ASSUME NEW u \in Tabs, NEW q \in Procs, NEW g \in Token,
                      Brings(proc'[u][q], g)
               PROVE  Own(g, u, q)'
    BY DEF PendInv
<1>6. Brings(proc[u][q], g) /\ g # None
    BY <1>1, <1>3, <1>4, <1>5 DEF Brings
<1>7. Own(g, u, q)
    BY <1>6 DEF PendInv
<1>8. \A v \in Tabs : \A r \in Procs :
          proc'[v][r].tok # g /\ (proc'[v][r].got = g => v = u /\ r = q)
    BY <1>1, <1>3, <1>4, <1>6, <1>7 DEF Own
<1> QED
    BY <1>2, <1>7, <1>8 DEF Own

LEMMA DoRefreshPend ==
    ASSUME TypeOK, FramesInv, PendInv, NEW t \in Tabs, DoRefresh(t)
    PROVE  PendInv'
<1>1. /\ Refreshed(t) \/ RefreshFailed(t)
      /\ live' = live /\ gone' = gone
    BY DoRefreshEffect DEF server
<1>2. "refresh" \in Procs
    BY DEF Procs
<1>3. FrameOK("refresh", proc[t]["refresh"])
    BY <1>2 DEF FramesInv
<1>4. None \in Token /\ proc[t]["refresh"].got \in Token
    BY <1>3 DEF FrameOK, Frame, Token
<1>5. PICK k \in {None, proc[t]["refresh"].got} :
          k \in Token /\ stored' = k /\ Settles(t, k)
    BY <1>1, <1>4 DEF Refreshed, RefreshFailed
<1>6. \A q \in Procs : proc[t][q].ph = "waiting" =>
          LET w == Woken(proc[t][q], k) IN
          w.ph = "resumed" /\ w.got = k /\ w.tok = proc[t][q].tok
    BY <1>5, WokenFrame DEF FramesInv
<1>7. SUFFICES ASSUME NEW u \in Tabs, NEW q \in Procs, NEW g \in Token,
                      Brings(proc'[u][q], g)
               PROVE  Own(g, u, q)'
    BY DEF PendInv
<1>8. Brings(proc[u][q], g) /\ g # None /\ ~(u = t /\ q = "refresh")
    BY <1>5, <1>6, <1>7, IdleFrame DEF Brings, Settles
<1>9. Own(g, u, q)
    BY <1>8 DEF PendInv
<1>10. k # g
    BY <1>2, <1>5, <1>8, <1>9 DEF Own
<1>11. \A v \in Tabs : \A r \in Procs :
          proc'[v][r].tok # g /\ (proc'[v][r].got = g => v = u /\ r = q)
    <2>1. TAKE v \in Tabs
    <2>2. TAKE r \in Procs
    <2>3. proc[v][r].tok # g /\ (proc[v][r].got = g => v = u /\ r = q)
        BY <1>9 DEF Own
    <2>4. CASE v = t /\ r = "refresh"
        BY <1>5, <1>8, <2>4, IdleFrame DEF Settles
    <2>5. CASE v = t /\ r # "refresh" /\ proc[v][r].ph = "waiting"
        BY <1>5, <1>6, <1>10, <2>3, <2>5 DEF Settles
    <2>6. CASE v # t \/ (r # "refresh" /\ proc[v][r].ph # "waiting")
        BY <1>5, <2>3, <2>6 DEF Settles
    <2> QED
        BY <2>4, <2>5, <2>6
<1> QED
    BY <1>1, <1>5, <1>9, <1>10, <1>11 DEF Own

LEMMA ReloadPend ==
    ASSUME TypeOK, FramesInv, PendInv, NEW t \in Tabs, Reloads(t)
    PROVE  PendInv'
<1>1. \A u \in Tabs : \A q \in Procs :
          proc'[u][q] = IF u = t THEN Fresh(q) ELSE proc[u][q]
    BY UnloadFrames
<1>2. \A q : Fresh(q).tok = None /\ Fresh(q).got = None
    BY FreshFrame
<1>3. SUFFICES ASSUME NEW u \in Tabs, NEW q \in Procs, NEW g \in Token,
                      Brings(proc'[u][q], g)
               PROVE  Own(g, u, q)'
    BY DEF PendInv
<1>4. Brings(proc[u][q], g) /\ g # None
    BY <1>1, <1>2, <1>3 DEF Brings
<1>5. Own(g, u, q)
    BY <1>4 DEF PendInv
<1>6. stored' = stored /\ live \cup gone \subseteq live' \cup gone'
    BY UnloadTokens
<1>7. \A v \in Tabs : \A r \in Procs :
          proc'[v][r].tok # g /\ (proc'[v][r].got = g => v = u /\ r = q)
    BY <1>1, <1>2, <1>4, <1>5 DEF Own
<1> QED
    BY <1>5, <1>6, <1>7 DEF Own

LEMMA NextPend ==
    ASSUME TypeOK, FramesInv, AwaitsARefresh, PendInv, [Next]_vars
    PROVE  PendInv'
<1>1. ASSUME NEW t \in Tabs, NEW p \in Procs, Refreshes(t, p)
      PROVE  PendInv'
    <2>1. proc[t]["refresh"] = Idle
        BY <1>1 DEF Refreshes, AwaitsARefresh
    <2> QED
        BY <1>1, <2>1, RefreshesPend
<1>2. World \/ UNCHANGED vars => PendInv'
    <2>1. ASSUME World \/ UNCHANGED vars
          PROVE  /\ proc' = proc /\ stored' = stored
                 /\ live \cup gone \subseteq live' \cup gone'
        BY <2>1, WorldEffect DEF vars, server
    <2> QED
        BY <2>1 DEF PendInv, Own
<1> QED
    BY <1>1, <1>2, ServedPend, PlainPend, ArrivedPend, DoRefreshPend, ReloadPend, StepEffects

\* The answered refresh of a tab that holds the successor of the pair k.
Successor(t, p, k) ==
    /\ proc[t][p].call = "refresh" /\ proc[t][p].ph = "answered"
    /\ proc[t][p].ans = "ok" /\ proc[t][p].tok = k

LEMMA NextHonoured ==
    ASSUME TypeOK, FramesInv, AwaitsARefresh, PendInv, StoredTokenHonoured, [Next]_vars
    PROVE  StoredTokenHonoured'
<1>0. SUFFICES ASSUME stored' # None, stored' \notin live' \cup gone'
               PROVE  \E t \in Tabs, p \in Procs : Successor(t, p, stored)'
    BY DEF StoredTokenHonoured, Successor
\* Storing a pair that has just been brought.
<1>1. ASSUME NEW t \in Tabs, NEW p \in Procs, proc[t][p].ph = "answered",
             proc[t][p].ans = "ok", stored' = proc[t][p].got,
             live' = live, gone' = gone
      PROVE  FALSE
    <2>1. proc[t][p].got \in Token
        BY DEF FramesInv, FrameOK, Frame
    <2>2. Own(proc[t][p].got, t, p)
        BY <1>0, <1>1, <2>1 DEF PendInv, Brings
    <2> QED
        BY <1>0, <1>1, <2>2 DEF Own
\* Else the stored pair is the old one, and someone may hold its successor.
<1>2. ASSUME stored' = stored, live \cup gone \subseteq live' \cup gone'
      PROVE  \E t \in Tabs, p \in Procs : Successor(t, p, stored)
    BY <1>0, <1>2 DEF StoredTokenHonoured, Successor
<1>3. ASSUME NEW t \in Tabs, NEW p \in Procs, NEW f, Served(t, p, f)
      PROVE  \E u \in Tabs, q \in Procs : Successor(u, q, stored)'
    <2> DEFINE old == proc[t][p]
    <2>1. /\ SetFrame(t, p, f) /\ f \in Frame /\ stored' = stored
          /\ f.call = old.call /\ f.tok = old.tok
        BY <1>3 DEF Served, FrameOK
    <2>2. \A u \in Tabs : \A q \in Procs :
              proc'[u][q] = IF u = t /\ q = p THEN f ELSE proc[u][q]
        BY <2>1, OneFrame
    <2>3. CASE f.call = "refresh" /\ f.ph = "answered" /\ f.ans = "ok" /\ f.tok = stored
        BY <2>1, <2>2, <2>3 DEF Successor
    <2>4. CASE ~(f.call = "refresh" /\ f.ph = "answered" /\ f.ans = "ok" /\ f.tok = stored)
        <3>1. \/ live \cup gone \subseteq live' \cup gone'
              \/ live \ {stored} = live \ {f.tok} /\ f.tok = stored /\ f.call = "refresh"
                 /\ f.ph = "answered" /\ f.ans = "ok"
              \/ stored \in live' \cup gone' \/ stored \notin live \cup gone
            BY <1>3 DEF Served
        <3>2. PICK u \in Tabs, q \in Procs : Successor(u, q, stored)
            BY <1>0, <1>2, <2>1, <2>4, <3>1 DEF StoredTokenHonoured, Successor
        <3>3. ~(u = t /\ q = p)
            <4>1. ASSUME u = t, q = p PROVE FALSE
                <5>1. old.call = "refresh" /\ old.ph = "answered" /\ old.tok = stored
                    BY <3>2, <4>1 DEF Successor
                <5>2. gone' = gone \cup ({old.tok} \ {None})
                    BY <1>3, <5>1 DEF Served
                <5> QED
                    BY <1>0, <2>1, <5>1, <5>2
            <4> QED
                BY <4>1
        <3> QED
            BY <2>1, <2>2, <3>2, <3>3 DEF Successor
    <2> QED
        BY <2>3, <2>4
<1>4. ASSUME NEW t \in Tabs, NEW p \in Procs, NEW f, Plain(t, p, f)
      PROVE  \E u \in Tabs, q \in Procs : Successor(u, q, stored)'
    <2>1. /\ SetFrame(t, p, f) /\ f \in Frame
          /\ stored' = stored /\ live' = live /\ gone' = gone
          /\ ~Successor(t, p, stored)
        BY <1>0, <1>4 DEF Plain, FrameOK, server, Successor
    <2>2. \A u \in Tabs : \A q \in Procs :
              proc'[u][q] = IF u = t /\ q = p THEN f ELSE proc[u][q]
        BY <2>1, OneFrame
    <2>3. PICK u \in Tabs, q \in Procs : Successor(u, q, stored)
        BY <1>2, <2>1
    <2> QED
        BY <2>1, <2>2, <2>3 DEF Successor
<1>5. ASSUME NEW t \in Tabs, NEW p \in Procs, Refreshes(t, p)
      PROVE  \E u \in Tabs, q \in Procs : Successor(u, q, stored)'
    <2>1. proc[t]["refresh"] = Idle
        BY <1>5 DEF Refreshes, AwaitsARefresh
    <2>2. \A u \in Tabs : \A q \in Procs :
              proc'[u][q] = IF u = t /\ q = "refresh" THEN Sent("refresh", stored)
                            ELSE IF u = t /\ q = p THEN Waiting(proc[u][q])
                            ELSE proc[u][q]
        BY <1>5, <2>1, RefreshesFrames
    <2>3. /\ stored' = stored /\ live' = live /\ gone' = gone
          /\ proc[t][p].ans = "401"
        BY <1>5 DEF Refreshes, server
    <2>4. PICK u \in Tabs, q \in Procs : Successor(u, q, stored)
        BY <1>2, <2>3
    <2>5. ~(u = t /\ q = p) /\ ~(u = t /\ q = "refresh")
        BY <2>1, <2>3, <2>4, IdleFrame DEF Successor
    <2> QED
        BY <2>2, <2>3, <2>4, <2>5 DEF Successor
<1>6. ASSUME NEW t \in Tabs, NEW p \in Procs, Arrived(t, p)
      PROVE  FALSE
    BY <1>1, <1>6 DEF Arrived, server
<1>7. ASSUME NEW t \in Tabs, DoRefresh(t)
      PROVE  FALSE
    <2>1. /\ Refreshed(t) \/ RefreshFailed(t)
          /\ live' = live /\ gone' = gone
        BY <1>7, DoRefreshEffect DEF server
    <2>2. Refreshed(t)
        BY <1>0, <2>1 DEF RefreshFailed
    <2>3. "refresh" \in Procs
        BY DEF Procs
    <2> QED
        BY <1>1, <2>1, <2>2, <2>3 DEF Refreshed
<1>8. ASSUME NEW t \in Tabs, Reloads(t)
      PROVE  \E u \in Tabs, q \in Procs : Successor(u, q, stored)'
    <2>1. \A u \in Tabs : \A q \in Procs :
              proc'[u][q] = IF u = t THEN Fresh(q) ELSE proc[u][q]
        BY <1>8, UnloadFrames
    <2>2. /\ stored' = stored /\ live \cup gone \subseteq live' \cup gone'
          /\ Rotated(t) \subseteq gone'
        BY <1>8, UnloadTokens
    <2>3. PICK u \in Tabs, q \in Procs : Successor(u, q, stored)
        BY <1>2, <2>2
    <2>4. u # t
        <3>1. ASSUME u = t PROVE stored \in Rotated(t)
            BY <2>3, <3>1 DEF Successor, Rotated, Under
        <3> QED
            BY <1>0, <2>2, <3>1
    <2> QED
        BY <2>1, <2>2, <2>3, <2>4 DEF Successor
<1>9. ASSUME World \/ UNCHANGED vars
      PROVE  \E u \in Tabs, q \in Procs : Successor(u, q, stored)'
    <2>1. /\ proc' = proc /\ stored' = stored
          /\ live \cup gone \subseteq live' \cup gone'
        BY <1>9, WorldEffect DEF vars, server
    <2> QED
        BY <1>2, <2>1 DEF Successor
<1> QED
    BY <1>3, <1>4, <1>5, <1>6, <1>7, <1>8, <1>9, StepEffects

-----------------------------------------------------------------------------
(* The theorems                                                            *)

SessionInv ==
    /\ TypeOK
    /\ FramesInv
    /\ AwaitsARefresh
    /\ InitInv
    /\ PendInv
    /\ StoredTokenHonoured

LEMMA InitSession ==
    ASSUME Init
    PROVE  SessionInv
<1>1. PICK first \in Tabs :
          /\ status = [t \in Tabs |-> IF t = first THEN "loading" ELSE "closed"]
          /\ proc = [t \in Tabs |-> [p \in Procs |->
                        IF t = first /\ p = "init" THEN Sent("status", None) ELSE Idle]]
    BY DEF Init
<1>2. \A t \in Tabs : \A p \in Procs :
          proc[t][p] = IF t = first THEN Fresh(p) ELSE Idle
    BY <1>1 DEF Fresh
<1>3. \A t \in Tabs : \A p \in Procs :
          /\ FrameOK(p, proc[t][p]) /\ Issued(proc[t][p])
          /\ proc[t][p].tok = None /\ proc[t][p].got = None
          /\ proc[t][p].ph \in {"idle", "sent"}
          /\ p # "init" => proc[t][p] = Idle /\ proc[t][p].ph = "idle"
    BY <1>2, FreshFrame, IdleFrame
<1>4. FramesInv
    BY <1>3 DEF FramesInv
<1>5. proc \in [Tabs -> [Procs -> Frame]]
    <2>1. \A p : Sent("status", None) \in Frame /\ Idle \in Frame
        BY FreshFrame, IdleFrame DEF Fresh, FrameOK
    <2> QED
        BY <1>1, <2>1
<1>6. TypeOK
    <2>1. /\ MaxPairs \in Nat \ {0} /\ MaxActions \in Nat /\ MaxTroubles \in Nat
        BY AuthAssumption
    <2>2. /\ issued = 1 /\ issued \in 0..MaxPairs /\ live \subseteq 1..issued
          /\ gone \subseteq 1..issued /\ stored \in (1..issued) \cup {None}
        BY <2>1 DEF Init
    <2>3. status \in [Tabs -> Status] /\ page \in [Tabs -> Pages]
          /\ ref \in [Tabs -> {"free", "busy", "null"}]
        BY <1>1 DEF Init, Status, Pages
    <2>4. actions \in 0..MaxActions /\ troubles \in 0..MaxTroubles
        BY <2>1 DEF Init
    <2> QED
        BY <1>5, <2>2, <2>3, <2>4 DEF TypeOK, Init
<1>7. "refresh" \in Procs /\ "init" \in Procs
    BY DEF Procs
<1>8. AwaitsARefresh
    <2>1. \A t \in Tabs : ref[t] = "free"
        BY DEF Init
    <2> QED
        BY <1>3, <1>7, <2>1 DEF AwaitsARefresh
<1>9. InitInv
    <2>1. \A t \in Tabs : t # first => proc[t]["init"].ph = "idle"
        BY <1>2, <1>7, IdleFrame
    <2>2. Loading(first)
        BY <1>1, <1>3, <1>7 DEF Loading
    <2> QED
        BY <2>1, <2>2 DEF InitInv, LoadsAlone
<1>10. PendInv
    BY <1>3 DEF PendInv, Brings
<1>11. StoredTokenHonoured
    BY DEF Init, StoredTokenHonoured
<1> QED
    BY <1>4, <1>6, <1>8, <1>9, <1>10, <1>11 DEF SessionInv

\* The session of the console keeps all of this for ever, in any number of tabs.
THEOREM SessionInvariant == Spec => []SessionInv
<1>1. Init => SessionInv
    BY InitSession
<1>2. SessionInv /\ [Next]_vars => SessionInv'
    BY NextSound, NextAwaits, NextAlone, NextPend, NextHonoured DEF SessionInv
<1> QED
    BY <1>1, <1>2, PTL DEF Spec

\* The state of the browser, of its tabs and of the server keeps its types.
THEOREM SessionTypeCorrect == Spec => []TypeOK
<1>1. SessionInv => TypeOK
    BY DEF SessionInv
<1> QED
    BY <1>1, SessionInvariant, PTL

\* refreshPromiseRef and init together never let a tab ask for new tokens twice
\* at once, however many of its requests meet a 401.
THEOREM OneRefresh == Spec => []SingleFlight
<1>1. SessionInv => SingleFlight
    BY AloneSingle DEF SessionInv
<1> QED
    BY <1>1, SessionInvariant, PTL

\* A request that awaits the promise of the refresh awaits one that still runs.
THEOREM NobodyAwaitsThePast == Spec => []AwaitsARefresh
<1>1. SessionInv => AwaitsARefresh
    BY DEF SessionInv
<1> QED
    BY <1>1, SessionInvariant, PTL

\* The stored refresh token is one the server knows, has forgotten of itself, or
\* is just being replaced: rotation and storage never part.
THEOREM RotationAndStorageAgree == Spec => []StoredTokenHonoured
<1>1. SessionInv => StoredTokenHonoured
    BY DEF SessionInv
<1> QED
    BY <1>1, SessionInvariant, PTL
=============================================================================
