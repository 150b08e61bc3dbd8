------------------------ MODULE GitSourcesPageProofs ------------------------
(***************************************************************************)
(* Proofs about the page of the git sources, for any rows and any number   *)
(* of handlers under way: that the page, at rest, shows what its user has  *)
(* done last, and that no button stays disabled without a handler.         *)
(* The first section, the list, is about ListPage alone: the pages of the  *)
(* configs, of the groups and of the fleet use its lemmas too.             *)
(***************************************************************************)
EXTENDS GitSourcesPage, FiniteSetTheorems, TLAPS

-----------------------------------------------------------------------------
(* The list, of this page or another                                      *)

\* The newest request for the list is under way, and reads, or has read, a table
\* at least as new as what the user has done; when there is none the data are.
Seen(c) ==
    /\ c.newest # "none" => /\ c.req[c.newest].st # "idle"
                            /\ c.req[c.newest].st = "read" => own <= c.req[c.newest].rev
    /\ c.newest = "none" /\ ~c.err => own <= c.data

LEMMA StartsIsGood ==
    ASSUME ListAssumption, cache \in Cache, NEW o \in Owners
    PROVE  LET c == Starts(cache, o) IN
           /\ c \in Cache /\ c.newest = o /\ c.req[o].st = "sent"
<1> DEFINE r == [st |-> "sent", rev |-> 0]
           reqs == [cache.req EXCEPT ![o] = r]
<1>1. cache \in Cache /\ MaxRev \in Nat
    BY DEF ListAssumption
<1>2. r \in Request /\ r.st = "sent"
    BY <1>1 DEF Request
<1>3. Starts(cache, o) = [cache EXCEPT !.req = reqs, !.newest = o]
    BY DEF Starts
<1> HIDE DEF r
<1>4. reqs \in [Owners -> Request] /\ reqs[o] = r
    BY <1>1, <1>2 DEF Cache
<1> HIDE DEF reqs
<1>5. /\ Starts(cache, o) \in Cache /\ Starts(cache, o).newest = o
      /\ Starts(cache, o).req = reqs
    BY <1>1, <1>3, <1>4 DEF Cache
<1> QED
    BY <1>2, <1>4, <1>5

\* Only the answer to the newest request counts, and it has seen enough.
LEMMA SettlesIsGood ==
    ASSUME ListAssumption, cache \in Cache, Seen(cache), NEW o \in Owners, Arrived(o)
    PROVE  Settles(cache, o) \in Cache /\ Seen(Settles(cache, o))
<1> DEFINE c == Settles(cache, o)
           failed == cache.req[o].st = "failed"
           reqs == [cache.req EXCEPT ![o] = Quiet]
<1>1. cache \in Cache /\ MaxRev \in Nat
    BY DEF ListAssumption
<1>2. Quiet \in Request
    BY <1>1 DEF Quiet, Request
<1>3. /\ reqs \in [Owners -> Request]
      /\ \A q \in Owners : q # o => reqs[q] = cache.req[q]
    BY <1>1, <1>2 DEF Cache
<1>4. cache.req[o].rev \in 0..MaxRev /\ failed \in BOOLEAN /\ cache.newest \in Owners \cup {"none"}
    BY <1>1 DEF Cache, Request
<1>5. "none" \notin Owners
    BY DEF ListAssumption, Owners
<1>6. c = [cache EXCEPT !.req = reqs,
                        !.newest = IF cache.newest = o THEN "none" ELSE @,
                        !.data = IF cache.newest = o /\ ~failed THEN cache.req[o].rev ELSE @,
                        !.err = failed \/ (@ /\ ~(cache.newest = o))]
    BY DEF Settles
<1> HIDE DEF reqs, c
<1>7. /\ c \in Cache /\ c.req = reqs
      /\ c.newest = IF cache.newest = o THEN "none" ELSE cache.newest
      /\ c.data = IF cache.newest = o /\ ~failed THEN cache.req[o].rev ELSE cache.data
      /\ c.err = (failed \/ (cache.err /\ cache.newest # o))
    BY <1>1, <1>3, <1>4, <1>6 DEF Cache
<1>8. CASE cache.newest = o
    <2>1. ~failed => own <= cache.req[o].rev
        BY <1>5, <1>8 DEF Seen, Arrived
    <2> QED
        BY <1>7, <1>8, <2>1 DEF Seen, c
<1>9. CASE cache.newest # o
    <2>1. cache.newest # "none" => reqs[cache.newest] = cache.req[cache.newest]
        BY <1>3, <1>4, <1>9
    <2> QED
        BY <1>7, <1>9, <2>1 DEF Seen, c
<1> QED
    BY <1>8, <1>9

\* The server reads the table as it is now.
LEMMA ServeListIsGood ==
    ASSUME ListAssumption, cache \in Cache, Seen(cache), Len(store) \in 1..MaxRev,
           own <= Len(store), NEW o \in Owners, ServeList(o)
    PROVE  cache' \in Cache /\ Seen(cache')
<1> DEFINE r == IF cache'.req[o].st = "read" THEN [st |-> "read", rev |-> Len(store)]
                ELSE [cache.req[o] EXCEPT !.st = "failed"]
<1>1. cache \in Cache /\ MaxRev \in Nat /\ Len(store) \in 0..MaxRev
    BY DEF ListAssumption
<1>2. /\ r \in Request /\ r.st \in {"read", "failed"}
      /\ r.st = "read" => r.rev = Len(store)
    BY <1>1 DEF Cache, Request
<1>3. cache' = [cache EXCEPT !.req[o] = r]
    BY <1>1 DEF ServeList, Cache, Request
<1> HIDE DEF r
<1>4. /\ cache' \in Cache /\ cache'.newest = cache.newest
      /\ cache'.data = cache.data /\ cache'.err = cache.err
      /\ \A q \in Owners : cache'.req[q] = IF q = o THEN r ELSE cache.req[q]
    BY <1>1, <1>2, <1>3 DEF Cache
<1>5. cache.newest \in Owners \cup {"none"}
    BY <1>1 DEF Cache
<1> QED
    BY <1>2, <1>4, <1>5 DEF Seen

\* What a step of any page does to what SWR holds of its list.
ListStep ==
    \/ UNCHANGED <<cache, own>>
    \/ \E o \in Owners : cache' = Starts(cache, o)
    \/ \E o \in Owners : Arrived(o) /\ cache' = Settles(cache, o) /\ UNCHANGED own
    \/ \E o \in Owners : ServeList(o)

LEMMA ListStepIsGood ==
    ASSUME ListAssumption, cache \in Cache, Seen(cache), Len(store) \in 1..MaxRev,
           own <= Len(store), ListStep
    PROVE  cache' \in Cache /\ Seen(cache)'
<1>1. CASE UNCHANGED <<cache, own>>
    BY <1>1 DEF Seen
<1>2. ASSUME NEW o \in Owners, cache' = Starts(cache, o)
      PROVE  cache' \in Cache /\ Seen(cache)'
    <2>1. "none" \notin Owners
        BY DEF ListAssumption, Owners
    <2> QED
        BY <1>2, <2>1, StartsIsGood DEF Seen
<1>3. ASSUME UNCHANGED own, cache' \in Cache, Seen(cache')
      PROVE  cache' \in Cache /\ Seen(cache)'
    BY <1>3 DEF Seen
<1>4. ASSUME NEW o \in Owners, Arrived(o), cache' = Settles(cache, o), UNCHANGED own
      PROVE  cache' \in Cache /\ Seen(cache)'
    <2>1. Settles(cache, o) \in Cache /\ Seen(Settles(cache, o))
        BY <1>4, SettlesIsGood
    <2> QED
        BY <1>3, <1>4, <2>1
<1>5. ASSUME NEW o \in Owners, ServeList(o)
      PROVE  cache' \in Cache /\ Seen(cache)'
    <2>1. UNCHANGED own
        BY <1>5 DEF ServeList
    <2> QED
        BY <1>3, <1>5, <2>1, ServeListIsGood
<1> QED
    BY <1>1, <1>2, <1>4, <1>5 DEF ListStep

\* The numbers that SWR holds are of writes that were made.
Held(c) ==
    /\ c.data <= Len(store)
    /\ \A o \in Owners : c.req[o].rev <= Len(store)

LEMMA ListStepHolds ==
    ASSUME ListAssumption, cache \in Cache, Held(cache), Len(store) \in 1..MaxRev,
           Len(store') \in Nat, Len(store) <= Len(store'), ListStep
    PROVE  Held(cache)'
<1>0. MaxRev \in Nat /\ Quiet \in Request /\ Quiet.rev = 0
    BY DEF ListAssumption, Quiet, Request
<1>1. ASSUME cache' \in Cache, Held(cache')
      PROVE  Held(cache)'
    <2>1. cache'.data \in Nat /\ \A o \in Owners : cache'.req[o].rev \in Nat
        BY <1>0, <1>1 DEF Cache, Request
    <2> QED
        BY <1>1, <2>1 DEF Held
<1>2. ASSUME UNCHANGED cache
      PROVE  Held(cache)'
    BY <1>1, <1>2
<1>3. ASSUME NEW o \in Owners, NEW r \in Request, r.rev <= Len(store), NEW c \in Cache,
             c.data \in {cache.data, cache.req[o].rev}, c.req = [cache.req EXCEPT ![o] = r]
      PROVE  Held(c)
    <2>1. \A q \in Owners : c.req[q] = IF q = o THEN r ELSE cache.req[q]
        BY <1>3 DEF Cache
    <2> QED
        BY <1>3, <2>1 DEF Held
<1>4. ASSUME NEW o \in Owners, cache' = Starts(cache, o)
      PROVE  Held(cache)'
    <2> DEFINE r == [st |-> "sent", rev |-> 0]
               reqs == [cache.req EXCEPT ![o] = r]
    <2>1. r \in Request /\ r.rev <= Len(store)
        BY <1>0 DEF Request
    <2>2. cache' = [cache EXCEPT !.req = reqs, !.newest = o]
        BY <1>4 DEF Starts
    <2>3. cache' \in Cache
        BY <1>4, StartsIsGood
    <2> HIDE DEF r, reqs
    <2>4. cache'.data = cache.data /\ cache'.req = reqs
        BY <2>2 DEF Cache
    <2>5. Held(cache')
        BY <1>3, <2>1, <2>3, <2>4 DEF reqs
    <2> QED
        BY <1>1, <2>3, <2>5
<1>5. ASSUME NEW o \in Owners, cache' = Settles(cache, o)
      PROVE  Held(cache)'
    <2> DEFINE reqs == [cache.req EXCEPT ![o] = Quiet]
    <2>1. /\ cache'.data \in {cache.data, cache.req[o].rev} /\ cache'.req = reqs
          /\ cache' \in Cache
        <3>1. cache.req[o].rev \in 0..MaxRev /\ reqs \in [Owners -> Request]
            BY <1>0 DEF Cache, Request
        <3> QED
            BY <1>0, <1>5, <3>1 DEF Settles, Cache
    <2>2. Quiet.rev <= Len(store)
        BY <1>0
    <2>3. Held(cache')
        BY <1>0, <1>3, <2>1, <2>2
    <2> QED
        BY <1>1, <2>1, <2>3
<1>6. ASSUME NEW o \in Owners, ServeList(o)
      PROVE  Held(cache)'
    <2> DEFINE r == IF cache'.req[o].st = "read" THEN [st |-> "read", rev |-> Len(store)]
                    ELSE [cache.req[o] EXCEPT !.st = "failed"]
    <2>1. r \in Request /\ r.rev <= Len(store)
        BY <1>0 DEF Cache, Request, Held
    <2>2. cache' = [cache EXCEPT !.req[o] = r]
        BY <1>0, <1>6 DEF ServeList, Cache, Request
    <2> HIDE DEF r
    <2>3. /\ cache' \in Cache /\ cache'.data = cache.data
          /\ cache'.req = [cache.req EXCEPT ![o] = r]
        BY <2>1, <2>2 DEF Cache
    <2>4. Held(cache')
        BY <1>3, <2>1, <2>3
    <2> QED
        BY <1>1, <2>3, <2>4
<1> QED
    BY <1>2, <1>4, <1>5, <1>6 DEF ListStep

LEMMA InitIsSeen ==
    ASSUME ListAssumption, cache = Cold, own = 0
    PROVE  /\ cache \in Cache /\ Seen(cache)
           /\ Len(store) \in Nat => Held(cache)
BY DEF Cold, Cache, Request, Quiet, Seen, Held, ListAssumption

\* The list of a page, whatever its handlers do to what rows.
ListInv(ops, rows) ==
    /\ ListTypeOK(ops, rows) /\ store \in Seq(SUBSET rows)
    /\ own <= Len(store) /\ \A h \in Slots : calls[h].rev <= Len(store)
    /\ Seen(cache) /\ Held(cache)

HandlerStep(ops, rows, h) ==
    \/ \E op \in ops, row \in rows \cup {None} : \E u : Send(h, op, row, u)
    \/ \E u : Reload(h, u) \/ Mutate(h, u) \/ Reloaded(h, u) \/ Caught(h, u)
    \/ \E new \in SUBSET rows : Accept(h, new)
    \/ \E must \in BOOLEAN : Refuse(h, must)

\* A step of a page, as far as the list is concerned.
ListAction(ops, rows) ==
    \/ UNCHANGED <<store, cache, calls, own>> /\ (UNCHANGED fuel \/ (fuel > 0 /\ fuel' = fuel - 1))
    \/ Revalidate \/ PollArrives \/ Leave
    \/ \E o \in Owners : ServeList(o)
    \/ \E h \in Slots : HandlerStep(ops, rows, h)
    \/ \E new \in SUBSET rows : OthersWrite(new)

LEMMA ActionIsListStep ==
    ASSUME NEW ops, NEW rows, ListAction(ops, rows)
    PROVE  ListStep
<1>0. "poll" \in Owners /\ \A h \in Slots : h \in Owners
    BY DEF Owners
<1>1. ASSUME NEW h \in Slots, HandlerStep(ops, rows, h)
      PROVE  ListStep
    <2>1. ASSUME NEW u, Reload(h, u) \/ Mutate(h, u)
          PROVE  ListStep
        BY <1>0, <2>1 DEF Reload, Mutate, ListStep
    <2>2. ASSUME NEW u, Reloaded(h, u)
          PROVE  ListStep
        BY <1>0, <2>2 DEF Reloaded, ListStep
    <2>3. ASSUME NEW op, NEW row, NEW u, Send(h, op, row, u)
          PROVE  ListStep
        BY <2>3 DEF Send, ListStep
    <2>4. ASSUME NEW x, Caught(h, x) \/ Accept(h, x) \/ Refuse(h, x)
          PROVE  ListStep
        BY <2>4 DEF Caught, Accept, Refuse, ListStep
    <2> QED
        BY <1>1, <2>1, <2>2, <2>3, <2>4 DEF HandlerStep
<1>2. ASSUME NEW new, OthersWrite(new)
      PROVE  ListStep
    BY <1>2 DEF OthersWrite, ListStep
<1>3. UNCHANGED <<store, cache, calls, own>> \/ Leave => ListStep
    BY DEF Leave, ListStep
<1>4. /\ Revalidate => ListStep
      /\ PollArrives => ListStep
    BY <1>0, Zenon DEF Revalidate, PollArrives, ListStep
<1>5. ASSUME NEW o \in Owners, ServeList(o)
      PROVE  ListStep
    BY <1>5 DEF ListStep
<1> QED
    BY <1>1, <1>2, <1>3, <1>4, <1>5 DEF ListAction

LEMMA ActionKeepsCalls ==
    ASSUME ListAssumption, NEW ops, NEW rows, ListInv(ops, rows), ListAction(ops, rows)
    PROVE  /\ calls' \in [Slots -> Call(ops \cup {"none", "refresh"}, rows \cup {None})]
           /\ \A g \in Slots : \/ calls'[g].rev = 0 \/ calls'[g].rev = calls[g].rev
                               \/ calls'[g].rev = Len(store')
<1> DEFINE Type == Call(ops \cup {"none", "refresh"}, rows \cup {None})
           Good == /\ calls' \in [Slots -> Type]
                   /\ \A g \in Slots : \/ calls'[g].rev = 0 \/ calls'[g].rev = calls[g].rev
                                       \/ calls'[g].rev = Len(store')
<1>0. /\ calls \in [Slots -> Type] /\ MaxRev \in Nat
      /\ Idle \in Type /\ Idle.rev = 0
    BY DEF ListInv, ListTypeOK, ListAssumption, Idle, Call
<1>1. ASSUME NEW h \in Slots, NEW c \in Type, calls' = [calls EXCEPT ![h] = c],
             c.rev = 0 \/ c.rev = calls[h].rev \/ c.rev = Len(store')
      PROVE  Good
    BY <1>0, <1>1
<1>2. ASSUME UNCHANGED calls
      PROVE  Good
    BY <1>0, <1>2
<1> HIDE DEF Good
<1>3. ASSUME NEW h \in Slots, NEW op \in ops, NEW row \in rows \cup {None}, NEW u,
             Send(h, op, row, u)
      PROVE  Good
    <2> DEFINE c == [Idle EXCEPT !.op = op, !.row = row, !.st = "sent"]
    <2>1. c \in Type /\ c.rev = 0
        BY <1>0 DEF Call, Idle
    <2>2. calls' = [calls EXCEPT ![h] = c]
        BY <1>3 DEF Send
    <2> HIDE DEF c
    <2> QED
        BY <1>1, <2>1, <2>2, Zenon
<1>4. ASSUME NEW h \in Slots, NEW u, Reload(h, u)
      PROVE  Good
    <2> DEFINE c == [Idle EXCEPT !.op = "refresh", !.st = "reload"]
    <2>1. c \in Type /\ c.rev = 0
        BY <1>0 DEF Call, Idle
    <2>2. calls' = [calls EXCEPT ![h] = c]
        BY <1>4 DEF Reload
    <2> HIDE DEF c
    <2> QED
        BY <1>1, <2>1, <2>2, Zenon
<1>5. ASSUME NEW h \in Slots, NEW new, Accept(h, new)
      PROVE  Good
    <2> DEFINE c == [calls[h] EXCEPT !.st = "ok", !.rev = Len(store) + 1]
    <2>1. Len(store') = Len(store) + 1 /\ Len(store) + 1 \in 0..MaxRev
        BY <1>0, <1>5 DEF Accept, ListInv, ListTypeOK
    <2>2. c \in Type /\ c.rev = Len(store')
        BY <1>0, <2>1 DEF Call
    <2>3. calls' = [calls EXCEPT ![h] = c]
        BY <1>5 DEF Accept
    <2> HIDE DEF c
    <2> QED
        BY <1>1, <2>2, <2>3, Zenon
<1>6. ASSUME NEW h \in Slots, NEW st \in {"failed", "reload"},
             calls' = [calls EXCEPT ![h].st = st]
      PROVE  Good
    <2> DEFINE c == [calls[h] EXCEPT !.st = st]
    <2>1. c \in Type /\ c.rev = calls[h].rev
        BY <1>0 DEF Call
    <2>2. calls' = [calls EXCEPT ![h] = c]
        BY <1>6
    <2> HIDE DEF c
    <2> QED
        BY <1>1, <2>1, <2>2, Zenon
<1>7. ASSUME NEW h \in Slots, calls' = [calls EXCEPT ![h] = Idle]
      PROVE  Good
    BY <1>0, <1>1, <1>7, Zenon
<1>8. ASSUME NEW h \in Slots, NEW u, Mutate(h, u) \/ Reloaded(h, u) \/ Caught(h, u)
      PROVE  Good
    BY <1>6, <1>7, <1>8 DEF Mutate, Reloaded, Caught
<1>9. ASSUME NEW h \in Slots, NEW must, Refuse(h, must)
      PROVE  Good
    BY <1>6, <1>9 DEF Refuse
<1>10. ASSUME Leave
       PROVE  Good
    <2>1. \A h \in Slots : /\ [calls[h] EXCEPT !.mine = FALSE] \in Type
                           /\ [calls[h] EXCEPT !.mine = FALSE].rev = calls[h].rev
        BY <1>0 DEF Call
    <2>2. calls' = [h \in Slots |-> IF calls[h] = Idle THEN Idle
                                    ELSE [calls[h] EXCEPT !.mine = FALSE]]
        BY <1>10 DEF Leave
    <2> HIDE DEF Type
    <2> QED
        BY <1>0, <2>1, <2>2 DEF Good
<1>11. ASSUME \/ UNCHANGED <<store, cache, calls, own>> \/ Revalidate \/ PollArrives
              \/ \E o \in Owners : ServeList(o)
              \/ \E new \in SUBSET rows : OthersWrite(new)
       PROVE  Good
    BY <1>2, <1>11 DEF Revalidate, PollArrives, ServeList, OthersWrite
<1>12. Good
    BY <1>3, <1>4, <1>5, <1>8, <1>9, <1>10, <1>11 DEF ListAction, HandlerStep
<1> QED
    BY <1>12 DEF Good

LEMMA ActionKeepsTable ==
    ASSUME ListAssumption, IsFiniteSet(Slots), NEW ops, NEW rows, ListInv(ops, rows),
           ListAction(ops, rows)
    PROVE  /\ store' \in Seq(SUBSET rows) /\ Len(store') \in 1..MaxRev
           /\ Len(store) <= Len(store')
           /\ own' = own \/ \E h \in Slots : own' = calls[h].rev
           /\ fuel' \in 0..MaxFuel
<1> DEFINE Grows == /\ store' \in Seq(SUBSET rows) /\ Len(store') \in 1..MaxRev
                    /\ Len(store) <= Len(store')
           Sees  == own' = own \/ \E h \in Slots : own' = calls[h].rev
           Burns == fuel' = fuel \/ (fuel > 0 /\ fuel' = fuel - 1)
           Good  == Grows /\ Sees /\ Burns
<1>0. /\ store \in Seq(SUBSET rows) /\ Len(store) \in 1..MaxRev
      /\ MaxRev \in Nat /\ fuel \in 0..MaxFuel /\ MaxFuel \in Nat
    BY DEF ListInv, ListTypeOK, ListAssumption
<1>1. UNCHANGED store => Grows
    BY <1>0
<1>2. ASSUME NEW new \in SUBSET rows, Len(store) < MaxRev, store' = Append(store, new)
      PROVE  Grows
    BY <1>0, <1>2
<1>3. ASSUME NEW h \in Slots, NEW new \in SUBSET rows, Accept(h, new)
      PROVE  Good
    BY <1>2, <1>3 DEF Accept
<1>4. ASSUME NEW new \in SUBSET rows, OthersWrite(new)
      PROVE  Good
    <2> DEFINE S == {g \in Slots : calls[g].st = "sent"}
    <2>1. Len(store) + Cardinality(S) < MaxRev /\ store' = Append(store, new)
          /\ own' = own /\ Burns
        BY <1>4 DEF OthersWrite
    <2>2. S \in SUBSET Slots
        OBVIOUS
    <2> HIDE DEF S
    <2>3. Cardinality(S) \in Nat
        BY <2>2, FS_Subset, FS_CardinalityType
    <2>4. Len(store) < MaxRev
        BY <1>0, <2>1, <2>3
    <2> QED
        BY <1>2, <2>1, <2>4
<1> HIDE DEF Grows
<1>5. ASSUME NEW h \in Slots, NEW u, Mutate(h, u)
      PROVE  Good
    BY <1>1, <1>5 DEF Mutate
<1>6. ASSUME NEW h \in Slots, NEW u, Reload(h, u) \/ Reloaded(h, u) \/ Caught(h, u)
      PROVE  Good
    BY <1>1, <1>6 DEF Reload, Reloaded, Caught
<1>7. ASSUME NEW h \in Slots, NEW must, Refuse(h, must)
      PROVE  Good
    BY <1>1, <1>7 DEF Refuse
<1>8. ASSUME NEW h, NEW op, NEW row, NEW u, Send(h, op, row, u)
      PROVE  Good
    BY <1>1, <1>8 DEF Send
<1>9. ASSUME \/ UNCHANGED <<store, cache, calls, own>> /\ Burns
             \/ Revalidate \/ PollArrives \/ Leave \/ \E o \in Owners : ServeList(o)
      PROVE  Good
    BY <1>1, <1>9 DEF Revalidate, PollArrives, Leave, ServeList
<1> HIDE DEF Good
<1>10. Good
    BY <1>3, <1>4, <1>5, <1>6, <1>7, <1>8, <1>9 DEF ListAction, HandlerStep
<1> QED
    BY <1>0, <1>10 DEF Good, Grows

\* Every page keeps to the types of its list, and sees what its user has done.
LEMMA ListKeeps ==
    ASSUME ListAssumption, IsFiniteSet(Slots), NEW ops, NEW rows, ListInv(ops, rows),
           ListAction(ops, rows)
    PROVE  ListInv(ops, rows)'
<1>1. /\ cache \in Cache /\ Seen(cache) /\ Held(cache)
      /\ Len(store) \in 1..MaxRev /\ own <= Len(store) /\ MaxRev \in Nat
      /\ own \in 0..MaxRev
      /\ \A h \in Slots : calls[h].rev <= Len(store) /\ calls[h].rev \in 0..MaxRev
    BY DEF ListInv, ListTypeOK, ListAssumption, Call
<1>2. cache' \in Cache /\ Seen(cache)'
    BY <1>1, ActionIsListStep, ListStepIsGood
<1>3. /\ calls' \in [Slots -> Call(ops \cup {"none", "refresh"}, rows \cup {None})]
      /\ \A g \in Slots : \/ calls'[g].rev = 0 \/ calls'[g].rev = calls[g].rev
                          \/ calls'[g].rev = Len(store')
    BY ActionKeepsCalls
<1>4. /\ store' \in Seq(SUBSET rows) /\ Len(store') \in 1..MaxRev
      /\ Len(store) <= Len(store')
      /\ own' = own \/ \E h \in Slots : own' = calls[h].rev
      /\ fuel' \in 0..MaxFuel
    BY ActionKeepsTable
<1>5. own' <= Len(store') /\ own' \in 0..MaxRev
    BY <1>1, <1>4
<1>6. \A h \in Slots : calls'[h].rev <= Len(store')
    BY <1>1, <1>3, <1>4
<1>7. \A k \in 1..Len(store') : store'[k] \subseteq rows
    BY <1>4
<1>8. Held(cache)'
    BY <1>1, <1>4, ActionIsListStep, ListStepHolds
<1> QED
    BY <1>2, <1>3, <1>4, <1>5, <1>6, <1>7, <1>8 DEF ListInv, ListTypeOK

LEMMA InitListIsGood ==
    ASSUME ListAssumption, NEW ops, NEW rows, NEW first \in SUBSET rows, InitList(first)
    PROVE  ListInv(ops, rows)
<1>1. /\ store = <<first>> /\ cache = Cold /\ calls = [h \in Slots |-> Idle] /\ own = 0
      /\ fuel = MaxFuel /\ MaxRev \in Nat /\ MaxRev >= 1 /\ MaxFuel \in Nat
    BY DEF InitList, ListAssumption
<1>2. /\ store \in Seq(SUBSET rows) /\ Len(store) = 1
      /\ \A k \in 1..Len(store) : store[k] \subseteq rows
    BY <1>1
<1>3. Idle \in Call(ops \cup {"none", "refresh"}, rows \cup {None}) /\ Idle.rev = 0
    BY <1>1 DEF Idle, Call
<1>4. cache \in Cache /\ Seen(cache) /\ Held(cache)
    BY <1>1, <1>2, InitIsSeen
<1>5. /\ calls \in [Slots -> Call(ops \cup {"none", "refresh"}, rows \cup {None})]
      /\ \A h \in Slots : calls[h].rev = 0
    BY <1>1, <1>3
<1> QED
    BY <1>1, <1>2, <1>4, <1>5 DEF ListInv, ListTypeOK

\* Once nothing is under way, the list shows what its user has done.
LEMMA SeenIsShown ==
    ASSUME ListAssumption, cache \in Cache, Seen(cache), own \in 0..MaxRev
    PROVE  SeesOwnWrites
<1>1. SUFFICES ASSUME \A o \in Owners : cache.req[o] = Quiet, ~cache.err
               PROVE  cache.data >= own
    BY DEF SeesOwnWrites
<1>2. cache.newest \in Owners \cup {"none"} /\ cache.data \in 0..MaxRev /\ MaxRev \in Nat
    BY DEF Cache, ListAssumption
<1>3. cache.newest = "none"
    BY <1>1, <1>2 DEF Seen, Quiet
<1>4. own <= cache.data
    BY <1>1, <1>3 DEF Seen
<1> QED
    BY <1>2, <1>4

\* What a request does at the server.
LEMMA ServeRowCases ==
    ASSUME store \in Seq(SUBSET Rows), Len(store) \in Nat \ {0}, NEW h, ServeRow(h)
    PROVE  \/ \E rows \in SUBSET Rows : Accept(h, rows)
           \/ \E must \in BOOLEAN : Refuse(h, must)
<1>1. Table \subseteq Rows
    BY DEF Table
<1>2. CASE \E must \in BOOLEAN : Refuse(h, must)
    BY <1>2
<1>3. CASE calls[h].op = "create" /\ \E r \in Rows \ Table : Accept(h, Table \cup {r})
    BY <1>1, <1>3
<1>4. CASE Accept(h, IF calls[h].op = "delete" THEN Table \ {calls[h].row} ELSE Table)
    BY <1>1, <1>4
<1> QED
    BY <1>2, <1>3, <1>4 DEF ServeRow

LEMMA ServeRowSteps ==
    ASSUME store \in Seq(SUBSET Rows), Len(store) \in Nat \ {0}, NEW ops, NEW h, ServeRow(h)
    PROVE  HandlerStep(ops, Rows, h)
BY ServeRowCases, Zenon DEF HandlerStep

-----------------------------------------------------------------------------
(* The invariant of the page                                               *)

CallType == Call(Ops \cup {"none", "refresh"}, Rows \cup {None})

\* The table was written once at least, and every number of a write is one of
\* a write that was made.
TableInv ==
    /\ store \in Seq(SUBSET Rows) /\ Len(store) \in 1..MaxRev
    /\ own <= Len(store)
    /\ \A h \in Slots : calls[h].rev <= Len(store)

\* The handlers the page waits for.
Saving(h) == calls[h].op \in {"create", "update"} /\ calls[h].mine
Syncing(h) == calls[h].op = "sync" /\ calls[h].mine
Refreshing(h) == calls[h].op = "refresh" /\ calls[h].mine

BusyInv ==
    /\ ~ui.mounted => \A h \in Slots : ~Saving(h) /\ ~Syncing(h) /\ ~Refreshing(h)
    /\ ui.mounted =>
          /\ ui.saving <=> \E h \in Slots : Saving(h)
          /\ ui.refreshing => \E h \in Slots : Refreshing(h)
          /\ ui.syncing # None => \E h \in Slots : Syncing(h) /\ calls[h].row = ui.syncing
    /\ \A g, h \in Slots : Saving(g) /\ Saving(h) => g = h

\* A request that was sent is one of those that the page sends.
SentInv == \A h \in Slots : calls[h].st \in {"sent", "ok"} => calls[h].op \in Ops

PageInv == ListInv(Ops, Rows) /\ ui \in Ui /\ SentInv /\ BusyInv

LEMMA TableIsLast ==
    ASSUME TableInv
    PROVE  Table = store[Len(store)] /\ Table \subseteq Rows /\ Len(store) \in Nat
BY DEF TableInv, Table

LEMMA PageTypes ==
    ASSUME PageInv
    PROVE  TypeOK /\ TableInv
BY DEF PageInv, ListInv, ListTypeOK, TypeOK, TableInv

\* The steps of this page.
LEMMA NextIsListAction ==
    ASSUME TypeOK, TableInv, [Next]_vars
    PROVE  ListAction(Ops, Rows)
<1>0. ui \in Ui /\ store \in Seq(SUBSET Rows) /\ Len(store) \in Nat \ {0}
    BY DEF TypeOK, TableInv
<1>1. ASSUME NEW h \in Slots, HandlerStep(Ops, Rows, h)
      PROVE  ListAction(Ops, Rows)
    BY <1>1 DEF ListAction
<1>2. ASSUME NEW h \in Slots, HandleRefresh(h) \/ Succeeded(h) \/ Finished(h) \/ Failed(h)
      PROVE  HandlerStep(Ops, Rows, h)
    BY <1>2, Zenon DEF HandleRefresh, Succeeded, Finished, Failed, HandlerStep
<1>3. ASSUME NEW h \in Slots, HandleSave(h)
      PROVE  HandlerStep(Ops, Rows, h)
    <2>1. /\ "create" \in Ops /\ "update" \in Ops /\ ui.editTarget \in Rows \cup {None}
          /\ \E op \in {"create", "update"} : \E u : Send(h, op, ui.editTarget, u)
        BY <1>0, <1>3 DEF HandleSave, Ops, Ui
    <2> QED
        BY <2>1 DEF HandlerStep
<1>4. ASSUME NEW h \in Slots, HandleDelete(h)
      PROVE  HandlerStep(Ops, Rows, h)
    <2>1. "delete" \in Ops /\ ui.deleteTarget \in Rows \cup {None}
        BY <1>0 DEF Ops, Ui
    <2> QED
        BY <1>4, <2>1, Zenon DEF HandleDelete, HandlerStep
<1>5. ASSUME NEW h \in Slots, NEW r \in Rows, HandleSyncNow(h, r)
      PROVE  HandlerStep(Ops, Rows, h)
    <2>1. "sync" \in Ops /\ r \in Rows \cup {None}
        BY DEF Ops
    <2> QED
        BY <1>5, <2>1, Zenon DEF HandleSyncNow, HandlerStep
<1>6. ASSUME NEW h \in Slots, ServeRow(h)
      PROVE  HandlerStep(Ops, Rows, h)
    BY <1>0, <1>6, ServeRowSteps
<1>7. ASSUME \/ OpenCreate \/ CloseSheet \/ CancelDelete \/ Return(Fresh) \/ UNCHANGED vars
             \/ \E r \in Rows : OpenEdit(r) \/ AskDelete(r)
      PROVE  ListAction(Ops, Rows)
    BY <1>7 DEF OpenCreate, CloseSheet, CancelDelete, Return, OpenEdit, AskDelete, Show, vars,
       ListAction
<1>8. ASSUME NEW r \in Table, OthersWrite(Table \ {r})
      PROVE  ListAction(Ops, Rows)
    <2>1. Table \ {r} \in SUBSET Rows
        BY TableIsLast
    <2> QED
        BY <1>8, <2>1, Zenon DEF ListAction
<1>9. ASSUME Leave \/ Revalidate \/ PollArrives \/ \E o \in Owners : ServeList(o)
      PROVE  ListAction(Ops, Rows)
    BY <1>9, Zenon DEF ListAction
<1> QED
    BY <1>1, <1>2, <1>3, <1>4, <1>5, <1>6, <1>7, <1>8, <1>9 DEF Next, User, Run

LEMMA NextList ==
    ASSUME GitSourcesAssumption, PageInv, [Next]_vars
    PROVE  ListInv(Ops, Rows)'
BY PageTypes, NextIsListAction, ListKeeps DEF GitSourcesAssumption, PageInv

-----------------------------------------------------------------------------
(* The handlers                                                            *)

Flags(u) == <<u.mounted, u.saving, u.syncing, u.refreshing>>

\* A handler begins.
Begins(h) == \E op \in Ops \cup {"refresh"} :
    /\ calls[h] = Idle
    /\ \E c \in CallType : /\ calls' = [calls EXCEPT ![h] = c]
                           /\ c.op = op /\ c.mine /\ c.rev = 0
                           /\ c.st \in {"sent", "ok"} => op \in Ops
                           /\ ui'.syncing = IF op = "sync" THEN c.row ELSE ui.syncing
    /\ ui.mounted /\ ui'.mounted
    /\ IF op \in {"create", "update"} THEN ~ui.saving /\ ui'.saving ELSE ui'.saving = ui.saving
    /\ ui'.refreshing = ui.refreshing \/ op = "refresh"

\* A handler goes on.
GoesOn(h) ==
    /\ \E c \in CallType : /\ calls' = [calls EXCEPT ![h] = c]
                           /\ c.op = calls[h].op /\ c.mine = calls[h].mine
                           /\ c.row = calls[h].row
                           /\ c.rev <= Len(store')
                           /\ c.st \in {"sent", "ok"} => calls[h].st \in {"sent", "ok"}
    /\ Flags(ui') = Flags(ui)

\* A handler ends: the page does not know it, or has its flags reset by it.
Ends(h) ==
    /\ calls' = [calls EXCEPT ![h] = Idle]
    /\ ui'.mounted = ui.mounted
    /\ \/ ~calls[h].mine /\ Flags(ui') = Flags(ui)
       \/ ~ui.mounted
       \/ /\ calls[h].mine
          /\ ui'.saving = (ui.saving /\ calls[h].op \notin {"create", "update"})
          /\ ui'.syncing = IF calls[h].op = "sync" THEN None ELSE ui.syncing
          /\ ui'.refreshing = (ui.refreshing /\ calls[h].op # "refresh")

\* The page itself changes.
Turns ==
    \/ UNCHANGED calls /\ Flags(ui') = Flags(ui)
    \/ /\ \A h \in Slots :
             \/ calls'[h] = Idle
             \/ /\ ~calls'[h].mine /\ calls'[h].rev = calls[h].rev
                /\ calls'[h].st = calls[h].st /\ calls'[h].op = calls[h].op
       /\ calls' \in [Slots -> CallType] /\ ~ui'.mounted
    \/ UNCHANGED calls /\ ~ui.mounted /\ ui' = Fresh

LEMMA IdleCall ==
    ASSUME GitSourcesAssumption
    PROVE  Idle \in CallType /\ Idle.op = "none" /\ Idle.st = "idle" /\ Idle.rev = 0
BY DEF Idle, CallType, Call, GitSourcesAssumption, ListAssumption

LEMMA CallSteps ==
    ASSUME GitSourcesAssumption, TypeOK, TableInv, SentInv, [Next]_vars
    PROVE  /\ ui' \in Ui
           /\ (\E h \in Slots : Begins(h) \/ GoesOn(h) \/ Ends(h)) \/ Turns
<1>0. /\ calls \in [Slots -> CallType] /\ ui \in Ui
      /\ Idle \in CallType /\ Idle.op = "none" /\ Idle.st = "idle" /\ Idle.rev = 0
    BY IdleCall DEF TypeOK, ListTypeOK, CallType
<1> DEFINE Kinds == (\E h \in Slots : Begins(h) \/ GoesOn(h) \/ Ends(h)) \/ Turns
<1>1. ASSUME NEW h \in Slots, NEW op \in Ops, NEW row \in Rows \cup {None}, NEW u,
             Send(h, op, row, u)
      PROVE  \E c \in CallType : /\ calls[h] = Idle /\ calls' = [calls EXCEPT ![h] = c]
                                 /\ c.op = op /\ c.row = row /\ c.mine /\ c.rev = 0
    <2> DEFINE c == [Idle EXCEPT !.op = op, !.row = row, !.st = "sent"]
    <2>1. c \in CallType /\ c.op = op /\ c.row = row /\ c.mine /\ c.rev = 0
        BY <1>0 DEF CallType, Call, Idle
    <2>2. calls[h] = Idle /\ calls' = [calls EXCEPT ![h] = c]
        BY <1>1 DEF Send
    <2> QED
        BY <2>1, <2>2
<1>2. ASSUME NEW h \in Slots, HandleSave(h)
      PROVE  ui' \in Ui /\ Kinds
    <2> DEFINE op == IF ui.editTarget = None THEN "create" ELSE "update"
               u  == [ui EXCEPT !.saving = TRUE, !.formError = FALSE]
    <2>1. /\ Send(h, op, ui.editTarget, u) /\ ui' = u /\ ui.mounted /\ ~ui.saving
          /\ op \in {"create", "update"} /\ op \in Ops /\ ui.editTarget \in Rows \cup {None}
        BY <1>0, <1>2 DEF HandleSave, SheetShown, Send, Ui, Ops
    <2>2. /\ u \in Ui /\ u.mounted = ui.mounted /\ u.saving /\ u.syncing = ui.syncing
          /\ u.refreshing = ui.refreshing
        BY <1>0 DEF Ui
    <2> HIDE DEF op, u
    <2>3. Begins(h)
        BY <1>1, <2>1, <2>2 DEF Begins
    <2> QED
        BY <2>1, <2>2, <2>3
<1>3. ASSUME NEW h \in Slots, HandleDelete(h)
      PROVE  ui' \in Ui /\ Kinds
    <2>1. /\ Send(h, "delete", ui.deleteTarget, ui) /\ ui' = ui /\ ui.mounted
          /\ "delete" \in Ops /\ ui.deleteTarget \in Rows \cup {None}
        BY <1>0, <1>3 DEF HandleDelete, DialogShown, Send, Ui, Ops
    <2>2. Begins(h)
        BY <1>1, <2>1 DEF Begins
    <2> QED
        BY <1>0, <2>1, <2>2
<1>4. ASSUME NEW h \in Slots, NEW r \in Rows, HandleSyncNow(h, r)
      PROVE  ui' \in Ui /\ Kinds
    <2> DEFINE u == [ui EXCEPT !.syncing = r]
    <2>1. Send(h, "sync", r, u) /\ ui' = u /\ ui.mounted /\ "sync" \in Ops
        BY <1>4 DEF HandleSyncNow, TableShown, Send, Ops
    <2>2. /\ u \in Ui /\ u.mounted = ui.mounted /\ u.saving = ui.saving
          /\ u.refreshing = ui.refreshing /\ u.syncing = r
        BY <1>0 DEF Ui
    <2> HIDE DEF u
    <2>3. Begins(h)
        BY <1>1, <2>1, <2>2 DEF Begins
    <2> QED
        BY <2>1, <2>2, <2>3
<1>5. ASSUME NEW h \in Slots, HandleRefresh(h)
      PROVE  ui' \in Ui /\ Kinds
    <2> DEFINE c == [Idle EXCEPT !.op = "refresh", !.st = "reload"]
               u == [ui EXCEPT !.refreshing = TRUE]
    <2>1. /\ calls[h] = Idle /\ calls' = [calls EXCEPT ![h] = c] /\ ui' = u /\ ui.mounted
        BY <1>5 DEF HandleRefresh, Reload, ErrorPage, TableShown
    <2>2. c \in CallType /\ c.op = "refresh" /\ c.mine /\ c.rev = 0 /\ c.st = "reload"
        BY <1>0 DEF CallType, Call, Idle
    <2>3. /\ u \in Ui /\ u.mounted = ui.mounted /\ u.saving = ui.saving
          /\ u.syncing = ui.syncing
        BY <1>0 DEF Ui
    <2> HIDE DEF c, u
    <2>4. Begins(h)
        BY <2>1, <2>2, <2>3 DEF Begins
    <2> QED
        BY <2>1, <2>3, <2>4
<1>6. ASSUME NEW h \in Slots, NEW rows, Accept(h, rows)
      PROVE  ui' \in Ui /\ Kinds
    <2> DEFINE n == Len(store) + 1
               c == [calls[h] EXCEPT !.st = "ok", !.rev = n]
    <2>1. n \in 0..MaxRev /\ Len(store') = n
        BY <1>6, TableIsLast DEF Accept, TableInv, GitSourcesAssumption, ListAssumption
    <2>3. calls' = [calls EXCEPT ![h] = c] /\ ui' = ui /\ calls[h].st = "sent"
        BY <1>6 DEF Accept
    <2> HIDE DEF n
    <2>2. /\ c \in CallType /\ c.op = calls[h].op /\ c.mine = calls[h].mine
          /\ c.row = calls[h].row /\ c.rev = n
        BY <1>0, <2>1 DEF CallType, Call
    <2>5. c.rev <= Len(store')
        BY <2>1, <2>2
    <2> HIDE DEF c
    <2>4. GoesOn(h)
        BY <2>2, <2>3, <2>5 DEF GoesOn
    <2> QED
        BY <1>0, <2>3, <2>4
\* The call goes to another state, and the page with it, flags apart.
<1>7. ASSUME NEW h \in Slots, NEW st \in {"failed", "reload"},
             calls' = [calls EXCEPT ![h].st = st], ui' \in Ui, Flags(ui') = Flags(ui),
             UNCHANGED store
      PROVE  Kinds
    <2> DEFINE c == [calls[h] EXCEPT !.st = st]
    <2>1. /\ c \in CallType /\ c.op = calls[h].op /\ c.mine = calls[h].mine
          /\ c.row = calls[h].row /\ c.rev = calls[h].rev /\ c.st \in {"failed", "reload"}
        BY <1>0 DEF CallType, Call
    <2>2. calls' = [calls EXCEPT ![h] = c]
        BY <1>7
    <2> HIDE DEF c
    <2>3. c.rev <= Len(store')
        BY <1>7, <2>1 DEF TableInv
    <2>4. GoesOn(h)
        BY <1>7, <2>1, <2>2, <2>3 DEF GoesOn
    <2> QED
        BY <2>4
<1>8. ASSUME NEW h \in Slots, ServeRow(h)
      PROVE  ui' \in Ui /\ Kinds
    <2>1. ASSUME NEW must \in BOOLEAN, Refuse(h, must)
          PROVE  ui' \in Ui /\ Kinds
        BY <1>0, <1>7, <2>1 DEF Refuse
    <2> QED
        BY <1>6, <1>8, <2>1, ServeRowCases DEF TableInv
<1>9. ASSUME NEW h \in Slots, Succeeded(h)
      PROVE  ui' \in Ui /\ Kinds
    <2>1. calls[h].op \in Ops /\ UNCHANGED store
        BY <1>9 DEF Succeeded, Mutate, SentInv
    <2>2. ui' \in {ui, [ui EXCEPT !.sheetOpen = FALSE], [ui EXCEPT !.deleteTarget = None]}
        BY <1>9, <2>1 DEF Succeeded, Mutate, Ops
    <2>3. ui' \in Ui /\ Flags(ui') = Flags(ui)
        BY <1>0, <2>2 DEF Ui, Flags
    <2>4. CASE ui.mounted
        <3>1. calls' = [calls EXCEPT ![h].st = "reload"]
            BY <1>9, <2>4 DEF Succeeded, Mutate
        <3> QED
            BY <1>7, <2>1, <2>3, <3>1
    <2>5. CASE ~ui.mounted
        <3>1. calls' = [calls EXCEPT ![h] = Idle] /\ ui'.mounted = ui.mounted
            BY <1>9, <2>3, <2>5 DEF Succeeded, Mutate, Flags
        <3>2. Ends(h)
            BY <2>5, <3>1 DEF Ends
        <3> QED
            BY <2>3, <3>2
    <2> QED
        BY <2>4, <2>5
\* A handler ends with its finally clause.
<1>10. ASSUME NEW h \in Slots, NEW e \in BOOLEAN, calls' = [calls EXCEPT ![h] = Idle],
              ui' = IF calls[h].mine THEN Finally(h, [ui EXCEPT !.formError = e]) ELSE ui
       PROVE  ui' \in Ui /\ Kinds
    <2> DEFINE v == [ui EXCEPT !.formError = e]
    <2>1. v \in Ui /\ Flags(v) = Flags(ui)
        BY <1>0 DEF Ui, Flags
    <2> HIDE DEF v
    <2>2. /\ Finally(h, v) \in Ui /\ Finally(h, v).mounted = v.mounted
          /\ Finally(h, v).saving = (v.saving /\ calls[h].op \notin {"create", "update"})
          /\ Finally(h, v).syncing = IF calls[h].op = "sync" THEN None ELSE v.syncing
          /\ Finally(h, v).refreshing = (v.refreshing /\ calls[h].op # "refresh")
        BY <2>1 DEF Finally, Ui
    <2>3. CASE ~calls[h].mine
        <3>1. ui' = ui
            BY <1>10, <2>3
        <3>2. Ends(h)
            BY <1>10, <2>3, <3>1 DEF Ends
        <3> QED
            BY <1>0, <3>1, <3>2
    <2>4. CASE calls[h].mine
        <3>1. ui' = Finally(h, v)
            BY <1>10, <2>4 DEF v
        <3>2. Ends(h)
            BY <1>10, <2>1, <2>2, <2>4, <3>1 DEF Ends, Flags
        <3> QED
            BY <2>2, <3>1, <3>2
    <2> QED
        BY <2>3, <2>4
<1>11. ASSUME NEW h \in Slots, Finished(h)
       PROVE  ui' \in Ui /\ Kinds
    <2>1. ui.formError \in BOOLEAN /\ [ui EXCEPT !.formError = ui.formError] = ui
        BY <1>0 DEF Ui
    <2>2. /\ calls' = [calls EXCEPT ![h] = Idle]
          /\ ui' = IF calls[h].mine THEN Finally(h, ui) ELSE ui
        BY <1>11 DEF Finished, Reloaded
    <2> QED
        BY <1>10, <2>1, <2>2
<1>12. ASSUME NEW h \in Slots, Failed(h)
       PROVE  ui' \in Ui /\ Kinds
    <2> DEFINE e == ui.formError \/ calls[h].op \in {"create", "update"}
    <2>1. e \in BOOLEAN
        OBVIOUS
    <2>2. /\ calls' = [calls EXCEPT ![h] = Idle]
          /\ ui' = IF calls[h].mine THEN Finally(h, [ui EXCEPT !.formError = e]) ELSE ui
        BY <1>12 DEF Failed, Caught
    <2> HIDE DEF e
    <2> QED
        BY <1>10, <2>1, <2>2
<1>13. ASSUME \/ OpenCreate \/ CloseSheet \/ CancelDelete
              \/ \E r \in Rows : OpenEdit(r) \/ AskDelete(r)
       PROVE  ui' \in Ui /\ Kinds
    <2>1. ui' \in Ui /\ Flags(ui') = Flags(ui) /\ UNCHANGED calls
        BY <1>0, <1>13 DEF OpenCreate, CloseSheet, CancelDelete, OpenEdit, AskDelete, Show,
           Ui, Flags
    <2> QED
        BY <2>1 DEF Turns
<1>14. CASE Leave
    <2>1. ui' \in Ui /\ ~ui'.mounted
        BY <1>0, <1>14 DEF Leave, Ui
    <2>2. \A h \in Slots : LET d == [calls[h] EXCEPT !.mine = FALSE] IN
              /\ d \in CallType /\ ~d.mine /\ d.rev = calls[h].rev
              /\ d.st = calls[h].st /\ d.op = calls[h].op
        BY <1>0 DEF CallType, Call
    <2>3. calls' \in [Slots -> CallType]
        BY <1>0, <1>14, <2>2 DEF Leave
    <2>4. \A h \in Slots : \/ calls'[h] = Idle
                           \/ calls'[h] = [calls[h] EXCEPT !.mine = FALSE]
        BY <1>14 DEF Leave
    <2>5. \A h \in Slots :
             \/ calls'[h] = Idle
             \/ /\ ~calls'[h].mine /\ calls'[h].rev = calls[h].rev
                /\ calls'[h].st = calls[h].st /\ calls'[h].op = calls[h].op
        BY <2>2, <2>4
    <2> QED
        BY <2>1, <2>3, <2>5 DEF Turns
<1>15. CASE Return(Fresh)
    BY <1>15 DEF Return, Fresh, Ui, Turns
<1>16. ASSUME \/ Revalidate \/ PollArrives \/ (\E o \in Owners : ServeList(o))
              \/ (\E r \in Table : OthersWrite(Table \ {r})) \/ UNCHANGED vars
       PROVE  ui' \in Ui /\ Kinds
    BY <1>0, <1>16 DEF Revalidate, PollArrives, ServeList, OthersWrite, vars, Turns
<1> QED
    BY <1>2, <1>3, <1>4, <1>5, <1>8, <1>9, <1>11, <1>12, <1>13, <1>14, <1>15, <1>16
    DEF Next, User, Run

LEMMA NextSent ==
    ASSUME GitSourcesAssumption, TypeOK, TableInv, SentInv, [Next]_vars
    PROVE  calls' \in [Slots -> CallType] /\ SentInv'
<1>0. /\ calls \in [Slots -> CallType]
      /\ Idle \in CallType /\ Idle.st = "idle"
    BY IdleCall DEF TypeOK, ListTypeOK, CallType
<1>1. ASSUME NEW h \in Slots, NEW c \in CallType, calls' = [calls EXCEPT ![h] = c],
             c.st \in {"sent", "ok"} => c.op \in Ops
      PROVE  calls' \in [Slots -> CallType] /\ SentInv'
    BY <1>0, <1>1 DEF SentInv
<1>2. ASSUME NEW h \in Slots, Begins(h)
      PROVE  calls' \in [Slots -> CallType] /\ SentInv'
    BY <1>1, <1>2 DEF Begins
<1>3. ASSUME NEW h \in Slots, GoesOn(h)
      PROVE  calls' \in [Slots -> CallType] /\ SentInv'
    BY <1>1, <1>3 DEF GoesOn, SentInv
<1>4. ASSUME NEW h \in Slots, Ends(h)
      PROVE  calls' \in [Slots -> CallType] /\ SentInv'
    BY <1>0, <1>1, <1>4 DEF Ends
<1>5. Turns => calls' \in [Slots -> CallType] /\ SentInv'
    BY <1>0 DEF Turns, SentInv
<1> QED
    BY <1>2, <1>3, <1>4, <1>5, CallSteps

\* A busy flag is kept by the handler that set it.
LEMMA NextBusy ==
    ASSUME GitSourcesAssumption, TypeOK, TableInv, SentInv, BusyInv, [Next]_vars
    PROVE  BusyInv'
<1>0. /\ calls \in [Slots -> CallType] /\ Idle.op = "none"
      /\ "none" \notin {"create", "update", "sync", "refresh"}
    BY IdleCall DEF TypeOK, ListTypeOK, CallType
\* When nobody the page waits for begins or ends, and the flags stay.
<1>1. ASSUME \A g \in Slots : /\ Saving(g)' <=> Saving(g)
                              /\ Syncing(g)' <=> Syncing(g)
                              /\ Refreshing(g)' <=> Refreshing(g)
                              /\ Syncing(g) => calls'[g].row = calls[g].row,
             Flags(ui') = Flags(ui)
      PROVE  BusyInv'
    <2>1. /\ ui'.mounted = ui.mounted /\ ui'.saving = ui.saving
          /\ ui'.syncing = ui.syncing /\ ui'.refreshing = ui.refreshing
        BY <1>1 DEF Flags
    <2> QED
        BY <1>1, <2>1 DEF BusyInv
<1>2. ASSUME NEW h \in Slots, NEW c, calls' = [calls EXCEPT ![h] = c]
      PROVE  /\ calls'[h] = c
             /\ \A g \in Slots \ {h} : /\ Saving(g)' <=> Saving(g)
                                       /\ Syncing(g)' <=> Syncing(g)
                                       /\ Refreshing(g)' <=> Refreshing(g)
                                       /\ calls'[g].row = calls[g].row
    BY <1>0, <1>2 DEF Saving, Syncing, Refreshing
<1>3. ASSUME NEW h \in Slots, Begins(h)
      PROVE  BusyInv'
    <2>1. PICK op \in Ops \cup {"refresh"}, c \in CallType :
             /\ calls[h] = Idle /\ calls' = [calls EXCEPT ![h] = c]
             /\ c.op = op /\ c.mine /\ ui.mounted /\ ui'.mounted
             /\ IF op \in {"create", "update"} THEN ~ui.saving /\ ui'.saving
                ELSE ui'.saving = ui.saving
             /\ ui'.syncing = IF op = "sync" THEN c.row ELSE ui.syncing
             /\ ui'.refreshing = ui.refreshing \/ op = "refresh"
        BY <1>3 DEF Begins
    <2>2. ~Saving(h) /\ ~Syncing(h) /\ ~Refreshing(h)
        BY <1>0, <2>1 DEF Saving, Syncing, Refreshing
    <2>3. /\ Saving(h)' <=> op \in {"create", "update"}
          /\ Syncing(h)' <=> op = "sync"
          /\ Refreshing(h)' <=> op = "refresh"
          /\ calls'[h].row = c.row
        <3>1. calls'[h].op = op /\ calls'[h].mine /\ calls'[h].row = c.row
            BY <1>2, <2>1
        <3> QED
            BY <3>1, Zenon DEF Saving, Syncing, Refreshing
    <2>4. \A g \in Slots \ {h} : /\ Saving(g)' <=> Saving(g)
                                 /\ Syncing(g)' <=> Syncing(g)
                                 /\ Refreshing(g)' <=> Refreshing(g)
                                 /\ calls'[g].row = calls[g].row
        BY <1>2, <2>1
    <2>5. CASE op \in {"create", "update"}
        <3>1. \A g \in Slots : ~Saving(g)
            BY <2>1, <2>5 DEF BusyInv
        <3> QED
            BY <2>1, <2>2, <2>3, <2>4, <2>5, <3>1 DEF BusyInv
    <2>6. CASE op \notin {"create", "update"}
        <3>1. \A g \in Slots : Saving(g)' <=> Saving(g)
            BY <2>2, <2>3, <2>4, <2>6
        <3>2. \A g \in Slots : Syncing(g) => Syncing(g)' /\ calls'[g].row = calls[g].row
            BY <2>2, <2>4
        <3>3. \A g \in Slots : Refreshing(g) => Refreshing(g)'
            BY <2>2, <2>4
        <3> QED
            <4>1. ui'.syncing # None => \E g \in Slots : Syncing(g)' /\ calls'[g].row = ui'.syncing
                BY <2>1, <2>3, <3>2 DEF BusyInv
            <4>2. ui'.refreshing => \E g \in Slots : Refreshing(g)'
                BY <2>1, <2>3, <3>3 DEF BusyInv
            <4> QED
                BY <2>1, <2>6, <3>1, <4>1, <4>2 DEF BusyInv
    <2> QED
        BY <2>5, <2>6
<1>4. ASSUME NEW h \in Slots, GoesOn(h)
      PROVE  BusyInv'
    <2>1. PICK c : /\ calls' = [calls EXCEPT ![h] = c]
                   /\ c.op = calls[h].op /\ c.mine = calls[h].mine /\ c.row = calls[h].row
        BY <1>4 DEF GoesOn
    <2>2. /\ Saving(h)' <=> Saving(h)
          /\ Syncing(h)' <=> Syncing(h)
          /\ Refreshing(h)' <=> Refreshing(h)
          /\ calls'[h].row = calls[h].row
        BY <1>2, <2>1 DEF Saving, Syncing, Refreshing
    <2>3. Flags(ui') = Flags(ui)
        BY <1>4 DEF GoesOn
    <2> QED
        BY <1>1, <1>2, <2>1, <2>2, <2>3
<1>5. ASSUME NEW h \in Slots, Ends(h)
      PROVE  BusyInv'
    <2>1. calls' = [calls EXCEPT ![h] = Idle] /\ ui'.mounted = ui.mounted
        BY <1>5 DEF Ends
    <2>2. ~Saving(h)' /\ ~Syncing(h)' /\ ~Refreshing(h)'
        BY <1>0, <1>2, <2>1 DEF Saving, Syncing, Refreshing
    <2>3. \A g \in Slots \ {h} : /\ Saving(g)' <=> Saving(g)
                                 /\ Syncing(g)' <=> Syncing(g)
                                 /\ Refreshing(g)' <=> Refreshing(g)
                                 /\ calls'[g].row = calls[g].row
        BY <1>2, <2>1
    <2>4. CASE ~calls[h].mine /\ Flags(ui') = Flags(ui)
        <3>1. ~Saving(h) /\ ~Syncing(h) /\ ~Refreshing(h)
            BY <2>4 DEF Saving, Syncing, Refreshing
        <3> QED
            BY <1>1, <2>2, <2>3, <2>4, <3>1
    <2>5. CASE ~ui.mounted
        BY <2>1, <2>2, <2>3, <2>5 DEF BusyInv
    <2>6. CASE /\ ui.mounted /\ calls[h].mine
               /\ ui'.saving = (ui.saving /\ calls[h].op \notin {"create", "update"})
               /\ ui'.syncing = IF calls[h].op = "sync" THEN None ELSE ui.syncing
               /\ ui'.refreshing = (ui.refreshing /\ calls[h].op # "refresh")
        <3>1. ui'.saving <=> \E g \in Slots : Saving(g)'
            <4>1. CASE Saving(h)
                <5>1. \A g \in Slots : ~Saving(g)'
                    BY <2>2, <2>3, <4>1 DEF BusyInv
                <5> QED
                    BY <2>6, <4>1, <5>1 DEF Saving
            <4>2. CASE ~Saving(h)
                <5>1. \A g \in Slots : Saving(g)' <=> Saving(g)
                    BY <2>2, <2>3, <4>2
                <5> QED
                    BY <2>6, <4>2, <5>1 DEF BusyInv, Saving
            <4> QED
                BY <4>1, <4>2
        <3>2. ui'.refreshing => \E g \in Slots : Refreshing(g)'
            <4>1. ui'.refreshing => ui.refreshing /\ ~Refreshing(h)
                BY <2>6 DEF Refreshing
            <4> QED
                BY <2>3, <2>6, <4>1 DEF BusyInv
        <3>3. ui'.syncing # None => \E g \in Slots : Syncing(g)' /\ calls'[g].row = ui'.syncing
            <4>1. ui'.syncing # None => ui'.syncing = ui.syncing /\ ~Syncing(h)
                BY <2>6 DEF Syncing
            <4> QED
                BY <2>3, <2>6, <4>1 DEF BusyInv
        <3>4. \A f, g \in Slots : Saving(f)' /\ Saving(g)' => f = g
            BY <2>2, <2>3 DEF BusyInv
        <3> QED
            BY <2>1, <2>6, <3>1, <3>2, <3>3, <3>4 DEF BusyInv
    <2> QED
        BY <1>5, <2>4, <2>5, <2>6 DEF Ends
<1>6. CASE Turns
    <2>1. CASE UNCHANGED calls /\ Flags(ui') = Flags(ui)
        BY <1>1, <2>1 DEF Saving, Syncing, Refreshing
    <2>2. CASE /\ \A h \in Slots : calls'[h] = Idle \/ ~calls'[h].mine
               /\ ~ui'.mounted
        <3>1. \A h \in Slots : ~Saving(h)' /\ ~Syncing(h)' /\ ~Refreshing(h)'
            BY <1>0, <2>2 DEF Saving, Syncing, Refreshing
        <3> QED
            BY <2>2, <3>1 DEF BusyInv
    <2>3. CASE UNCHANGED calls /\ ~ui.mounted /\ ui' = Fresh
        <3>1. \A h \in Slots : ~Saving(h)' /\ ~Syncing(h)' /\ ~Refreshing(h)'
            BY <2>3 DEF BusyInv, Saving, Syncing, Refreshing
        <3>2. ~ui'.saving /\ ui'.syncing = None /\ ~ui'.refreshing
            BY <2>3 DEF Fresh
        <3> QED
            BY <3>1, <3>2 DEF BusyInv
    <2> QED
        BY <1>6, <2>1, <2>2, <2>3 DEF Turns
<1> QED
    BY <1>3, <1>4, <1>5, <1>6, CallSteps

-----------------------------------------------------------------------------
(* The theorems                                                            *)

LEMMA InitPage ==
    ASSUME GitSourcesAssumption, Init
    PROVE  PageInv
<1> DEFINE rows == {CHOOSE r \in Rows : TRUE}
<1>0. rows \in SUBSET Rows /\ ListAssumption
    BY DEF GitSourcesAssumption
<1>1. InitList(rows) /\ ui = Fresh
    BY DEF Init
<1>2. /\ Idle \in CallType /\ \A h \in Slots : calls[h] = Idle
      /\ calls \in [Slots -> CallType]
    BY <1>1, IdleCall DEF InitList
<1> HIDE DEF rows
<1>3. ListInv(Ops, Rows)
    BY <1>0, <1>1, InitListIsGood
<1>4. ui \in Ui
    BY <1>1 DEF Fresh, Ui
<1>8. SentInv
    BY <1>2, IdleCall DEF SentInv
<1>9. BusyInv
    <2>1. \A h \in Slots : ~Saving(h) /\ ~Syncing(h) /\ ~Refreshing(h)
        BY <1>2, IdleCall DEF Saving, Syncing, Refreshing
    <2>2. ~ui.saving /\ ui.syncing = None /\ ~ui.refreshing
        BY <1>1 DEF Fresh
    <2> QED
        BY <2>1, <2>2 DEF BusyInv
<1> QED
    BY <1>3, <1>4, <1>8, <1>9 DEF PageInv

LEMMA NextPage ==
    ASSUME GitSourcesAssumption, PageInv, [Next]_vars
    PROVE  PageInv'
<1>1. TypeOK /\ TableInv /\ SentInv /\ BusyInv
    BY PageTypes DEF PageInv
<1>2. ListInv(Ops, Rows)' /\ ui' \in Ui /\ SentInv' /\ BusyInv'
    BY <1>1, NextList, CallSteps, NextSent, NextBusy
<1> QED
    BY <1>2 DEF PageInv

\* What the invariant says of a state.
LEMMA PageIsSeen ==
    ASSUME GitSourcesAssumption, PageInv
    PROVE  SeesOwnWrites
BY SeenIsShown DEF PageInv, ListInv, ListTypeOK, GitSourcesAssumption

LEMMA PageIsBusy ==
    ASSUME PageInv
    PROVE  BusyIsTrue
<1> DEFINE S == UnderWay("create") \cup UnderWay("update")
<1>1. ASSUME ui.mounted
      PROVE  /\ ui.saving <=> S # {}
             /\ Cardinality(S) <= 1
             /\ ui.refreshing => UnderWay("refresh") # {}
             /\ ui.syncing # None => \E h \in UnderWay("sync") : calls[h].row = ui.syncing
    <2>1. BusyInv
        BY DEF PageInv
    <2>2. S = {h \in Slots : Saving(h)}
        BY DEF UnderWay, Saving
    <2>3. /\ UnderWay("refresh") = {h \in Slots : Refreshing(h)}
          /\ UnderWay("sync") = {h \in Slots : Syncing(h)}
        BY DEF UnderWay, Refreshing, Syncing
    <2> HIDE DEF S
    <2>4. ui.saving <=> S # {}
        BY <1>1, <2>1, <2>2 DEF BusyInv
    <2>5. Cardinality(S) <= 1
        <3>1. S = {} \/ \E h : S = {h}
            BY <2>1, <2>2 DEF BusyInv
        <3>2. Cardinality({}) = 0 /\ \A x : Cardinality({x}) = 1
            BY FS_EmptySet, FS_Singleton
        <3>3. Cardinality(S) = 0 \/ Cardinality(S) = 1
            BY <3>1, <3>2, Zenon
        <3>4. \A n : n = 0 \/ n = 1 => n <= 1
            OBVIOUS
        <3> QED
            BY <3>3, <3>4, Zenon
    <2> QED
        BY <1>1, <2>1, <2>3, <2>4, <2>5 DEF BusyInv
<1> QED
    BY <1>1 DEF BusyIsTrue

\* The inductive invariant of the page (GitSources.tsx): of what the list holds
\* and asks for, and of who keeps which button disabled.
THEOREM GitSourcesInvariant ==
    ASSUME GitSourcesAssumption
    PROVE  Spec => []PageInv
<1>1. Init => PageInv
    BY InitPage
<1>2. PageInv /\ [Next]_vars => PageInv'
    BY NextPage
<1> QED
    BY <1>1, <1>2, PTL DEF Spec

\* The state of the page, of what SWR holds for the sources and of the handlers
\* keeps to its types.
THEOREM GitSourcesTypeCorrect ==
    ASSUME GitSourcesAssumption
    PROVE  Spec => []TypeOK
<1>1. PageInv => TypeOK
    BY PageTypes
<1> QED
    BY <1>1, GitSourcesInvariant, PTL

\* At rest the page shows what its user did last: mutate asks for the list after
\* every write, and only the answer to the request asked last is taken
\* (GitSources.tsx, await mutate()).
THEOREM GitSourcesAreSeen ==
    ASSUME GitSourcesAssumption
    PROVE  Spec => []SeesOwnWrites
<1>1. PageInv => SeesOwnWrites
    BY PageIsSeen
<1> QED
    BY <1>1, GitSourcesInvariant, PTL

\* A button is disabled, or a spinner turns, only for a handler of this page
\* that is under way, a sync of that very row if it is a Sync Now; the form's
\* buttons are also disabled all the while, and it is being saved by one handler at
\* most (GitSources.tsx: saving, syncing, refreshing and their finally clauses).
THEOREM GitSourcesBusyIsTrue ==
    ASSUME GitSourcesAssumption
    PROVE  Spec => []BusyIsTrue
<1>1. PageInv => BusyIsTrue
    BY PageIsBusy
<1> QED
    BY <1>1, GitSourcesInvariant, PTL
=============================================================================
