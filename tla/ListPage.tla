------------------------------ MODULE ListPage ------------------------------
(***************************************************************************)
(* What the pages of the console that show a table have in common: the     *)
(* rows the server keeps, the answer that SWR keeps under the key of the   *)
(* table, and the async handlers of the page, which change rows and then   *)
(* ask SWR for the list anew (mutate).                                     *)
(*                                                                         *)
(* SWR is a library; of it the pages rely on the following.  The interval  *)
(* (SWRProvider: 30 s) starts a request unless one is under way, mutate    *)
(* starts one in any case, and only the answer to the newest request       *)
(* counts.  A failed request sets the error and leaves the data; mutate    *)
(* does not throw.  Without a mounted page mutate asks for nothing.  The   *)
(* data outlive the page.                                                  *)
(***************************************************************************)
EXTENDS Naturals, FiniteSets, Sequences

CONSTANTS
    Rows,       \* the names that rows of a table may have
    Slots,      \* the handlers that may be under way at once
    MaxRev,     \* bound: how often the table is written
    MaxFuel,    \* bound: failures, writes of others and leavings, in number
    None

ListAssumption ==
    /\ MaxRev \in Nat \ {0}
    /\ MaxFuel \in Nat
    /\ "poll" \notin Slots /\ "none" \notin Slots

VARIABLES
    store,      \* the table of the server: its contents after each write
    cache,      \* what SWR holds for the key of the table
    calls,      \* the handlers under way
    ui,         \* the state of the mounted page
    own,        \* history: the last write whose answer the page has seen
    fuel        \* what is left of MaxFuel

vars == <<store, cache, calls, ui, own, fuel>>

Owners == Slots \cup {"poll"}
Request == [st : {"idle", "sent", "read", "failed"}, rev : 0..MaxRev]
Quiet == [st |-> "idle", rev |-> 0]
\* A revision is the number of a write; data 0 is no data yet.
Cache == [data : 0..MaxRev, err : BOOLEAN, newest : Owners \cup {"none"},
          req : [Owners -> Request]]
Cold == [data |-> 0, err |-> FALSE, newest |-> "none", req |-> [o \in Owners |-> Quiet]]

\* mine: the page that called the handler is still mounted.  rev is the write
\* that the handler made.  In "after" it awaits what it does after the reload.
Call(ops, rows) == [op : ops, row : rows, st : {"idle", "sent", "ok", "failed", "reload", "after"},
                    mine : BOOLEAN, rev : 0..MaxRev]
Idle == [op |-> "none", row |-> None, st |-> "idle", mine |-> TRUE, rev |-> 0]

Table == store[Len(store)]
Shown == IF cache.data = 0 THEN {} ELSE store[cache.data]

UnderWay(op) == {h \in Slots : calls[h].op = op /\ calls[h].mine}

-----------------------------------------------------------------------------
(* SWR                                                                     *)

Starts(c, o) == [c EXCEPT !.req[o] = [st |-> "sent", rev |-> 0], !.newest = o]

Settles(c, o) ==
    LET newest == c.newest = o
        failed == c.req[o].st = "failed"
    IN [c EXCEPT !.req[o] = Quiet,
                 !.newest = IF newest THEN "none" ELSE @,
                 !.data = IF newest /\ ~failed THEN c.req[o].rev ELSE @,
                 !.err = failed \/ (@ /\ ~newest)]

Arrived(o) == cache.req[o].st \in {"read", "failed"}

\* The interval, a focus, the first look at an empty cache.
Revalidate ==
    /\ ui.mounted /\ cache.newest = "none" /\ cache.req["poll"].st = "idle"
    /\ cache' = Starts(cache, "poll")
    /\ UNCHANGED <<store, calls, ui, own, fuel>>

\* The server reads the table for the list, or fails to.
ServeList(o) ==
    /\ cache.req[o].st = "sent"
    /\ \/ /\ cache' = [cache EXCEPT !.req[o] = [st |-> "read", rev |-> Len(store)]]
          /\ UNCHANGED fuel
       \/ /\ fuel > 0 /\ fuel' = fuel - 1
          /\ cache' = [cache EXCEPT !.req[o].st = "failed"]
    /\ UNCHANGED <<store, calls, ui, own>>

PollArrives ==
    /\ Arrived("poll")
    /\ cache' = Settles(cache, "poll")
    /\ UNCHANGED <<store, calls, ui, own, fuel>>

-----------------------------------------------------------------------------
(* The handlers                                                            *)

\* A handler is called: it sets the page to u and sends its request.
Send(h, op, row, u) ==
    /\ calls[h] = Idle
    /\ Len(store) + Cardinality({g \in Slots : calls[g].st = "sent"}) < MaxRev
    /\ calls' = [calls EXCEPT ![h] = [Idle EXCEPT !.op = op, !.row = row, !.st = "sent"]]
    /\ ui' = u
    /\ UNCHANGED <<store, cache, own, fuel>>

\* The handler that only reloads the list.
Reload(h, u) ==
    /\ calls[h] = Idle
    /\ calls' = [calls EXCEPT ![h] = [Idle EXCEPT !.op = "refresh", !.st = "reload"]]
    /\ cache' = Starts(cache, h)
    /\ ui' = u
    /\ UNCHANGED <<store, own, fuel>>

\* The server carries the request out, so that the table is then `rows`.
Accept(h, rows) ==
    /\ calls[h].st = "sent" /\ Len(store) < MaxRev
    /\ store' = Append(store, rows)
    /\ calls' = [calls EXCEPT ![h].st = "ok", ![h].rev = Len(store) + 1]
    /\ UNCHANGED <<cache, ui, own, fuel>>

\* The server refuses a request it must refuse; or it fails, or is not reached,
\* or its answer is lost.
Refuse(h, must) ==
    /\ \/ calls[h].st = "sent" /\ must /\ UNCHANGED fuel
       \/ calls[h].st \in {"sent", "ok"} /\ fuel > 0 /\ fuel' = fuel - 1
    /\ calls' = [calls EXCEPT ![h].st = "failed"]
    /\ UNCHANGED <<store, cache, ui, own>>

\* The server carries out a request that adds a row, removes one, or does
\* something to one, and refuses it when the row is gone.
ServeRow(h) ==
    LET c == calls[h] IN
    \/ c.op = "create" /\ \E r \in Rows \ Table : Accept(h, Table \cup {r})
    \/ /\ c.op # "create" /\ c.row \in Table
       /\ Accept(h, IF c.op = "delete" THEN Table \ {c.row} ELSE Table)
    \/ Refuse(h, c.op # "create" /\ c.row \notin Table)

\* The request has succeeded: the page becomes u, and mutate is called and
\* awaited.  Of a handler whose page has gone only the mutate is left, and
\* nothing at all if no other such page is mounted.
Mutate(h, u) ==
    /\ calls[h].st = "ok"
    /\ ui' = IF calls[h].mine THEN u ELSE ui
    /\ IF ui.mounted
       THEN /\ cache' = Starts(cache, h)
            /\ calls' = [calls EXCEPT ![h].st = "reload"]
            /\ own' = IF calls[h].rev > own THEN calls[h].rev ELSE own
       ELSE calls' = [calls EXCEPT ![h] = Idle] /\ UNCHANGED <<cache, own>>
    /\ UNCHANGED <<store, fuel>>

\* The awaited mutate is done; the rest of the handler sets the page to u.
Reloaded(h, u) ==
    /\ calls[h].st = "reload" /\ Arrived(h)
    /\ cache' = Settles(cache, h)
    /\ calls' = [calls EXCEPT ![h] = Idle]
    /\ ui' = IF calls[h].mine THEN u ELSE ui
    /\ UNCHANGED <<store, own, fuel>>

\* The request has failed: the catch and finally clauses set the page to u.
Caught(h, u) ==
    /\ calls[h].st = "failed"
    /\ calls' = [calls EXCEPT ![h] = Idle]
    /\ ui' = IF calls[h].mine THEN u ELSE ui
    /\ UNCHANGED <<store, cache, own, fuel>>

-----------------------------------------------------------------------------
(* The surroundings                                                        *)

\* Another user, or the server itself, changes the table.
OthersWrite(rows) ==
    /\ fuel > 0 /\ fuel' = fuel - 1
    /\ Len(store) + Cardinality({g \in Slots : calls[g].st = "sent"}) < MaxRev
    /\ store' = Append(store, rows)
    /\ UNCHANGED <<cache, calls, ui, own>>

\* The user goes to another page: the state of the page is lost, its handlers
\* and requests go on.
Leave ==
    /\ ui.mounted /\ fuel > 0 /\ fuel' = fuel - 1
    /\ ui' = [ui EXCEPT !.mounted = FALSE]
    /\ calls' = [h \in Slots |-> IF calls[h] = Idle THEN Idle ELSE [calls[h] EXCEPT !.mine = FALSE]]
    /\ UNCHANGED <<store, cache, own>>

\* ... and comes back, to the page as it is at first.
Return(fresh) ==
    /\ ~ui.mounted
    /\ ui' = fresh
    /\ UNCHANGED <<store, cache, calls, own, fuel>>

-----------------------------------------------------------------------------

ListTypeOK(ops, rows) ==
    /\ \A k \in 1..Len(store) : store[k] \subseteq rows
    /\ Len(store) \in 1..MaxRev
    /\ cache \in Cache
    /\ calls \in [Slots -> Call(ops \cup {"none", "refresh"}, rows \cup {None})]
    /\ own \in 0..MaxRev
    /\ fuel \in 0..MaxFuel

InitList(rows) ==
    /\ store = <<rows>>
    /\ cache = Cold
    /\ calls = [h \in Slots |-> Idle]
    /\ own = 0
    /\ fuel = MaxFuel

\* A page shows what its user has done: once no handler and no request is
\* under way and the list has not failed, the table on the screen is from
\* after the last write of this console whose success the page has seen, also
\* if the list was being polled when the write was made, or two handlers
\* finished out of order.
SeesOwnWrites ==
    /\ \A h \in Slots : calls[h] = Idle
    /\ \A o \in Owners : cache.req[o] = Quiet
    /\ ~cache.err
    => cache.data >= own
=============================================================================
