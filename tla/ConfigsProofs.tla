---------------------------- MODULE ConfigsProofs ----------------------------
(***************************************************************************)
(* Proofs about the configurations.  About their page, for any groups, any *)
(* number of saves under way and any number of rows: that every new        *)
(* version of a configuration carries a text loaded from that              *)
(* configuration and stays in its group, that the Save button is disabled  *)
(* exactly while a save is under way, and that the list, at rest, shows    *)
(* what its user has done.  About the text of one, of any components and   *)
(* any pipelines, laid out in any of the ways of YamlPosition: that what   *)
(* the search marks for a complaint is what the complaint is about.        *)
(***************************************************************************)
EXTENDS ConfigsPage, FiniteSetTheorems, WellFoundedInduction, TLAPS

CONSTANTS Names, Lower, Word, Parts
INSTANCE YamlPosition

-----------------------------------------------------------------------------
(* The page of the configurations                                          *)

\* What is proved there of the list is so of any page.
Listing == INSTANCE GitSourcesPageProofs

\* There is a row of that id.
Known(T, id) == \E c \in T : c.id = id

\* A row that is a new version has the base and the group of its parent.  This
\* is UpdatesItsOwn for one row, in a form that a growing table keeps.
Own(T, row) ==
    row.parent # 0 => \E p \in T : /\ p.id = row.parent
                                   /\ row.base = row.parent
                                   /\ row.group = p.group

\* Rows are only added, with ids that count them.
TableInv ==
    /\ store \in Seq(SUBSET Row) /\ Len(store) \in 1..MaxRev
    /\ \A k \in 1..Len(store) : store[k] \subseteq Table
    /\ IsFiniteSet(Table) /\ Cardinality(Table) = Len(store) + 1
    /\ \A c \in Table : /\ c.id \in 1..(Len(store) + 1)
                        /\ c.version <= Len(store)
                        /\ Own(Table, c)
    /\ \A c, d \in Table : c.id = d.id => c = d

\* What a save carries was right when it was clicked, and remains so.
CallsInv ==
    \A h \in Slots : calls[h].st = "sent" =>
        /\ calls[h].row \in Row
        /\ calls[h].row.version <= Len(store) + 1
        /\ Own(Table, calls[h].row)

\* What SWR holds of the list is a table that was.
CacheInv == Listing!Held(cache)

\* In the editor of a loaded configuration is a text of that configuration.
EditorInv ==
    ui.mode = "edit" => /\ Known(Table, ui.configId)
                        /\ ui.configId \in loaded => ui.base = ui.configId

\* The page waits for one save at most; for an unmounted one nothing waits.
Saving(h) == calls[h].op = "save" /\ calls[h].mine

SavingInv ==
    /\ \A h \in Slots : calls[h].st \in {"sent", "ok", "failed", "after"} => calls[h].op = "save"
    /\ ~ui.mounted => \A h \in Slots : ~Saving(h)
    /\ ui.mounted => (ui.isSaving <=> \E h \in Slots : Saving(h))
    /\ \A g, h \in Slots : Saving(g) /\ Saving(h) => g = h

\* The newest request for the list sees, and the data at rest show, what the
\* user has done; every number of a write is one of a write that was made.
SeenInv ==
    /\ Listing!Seen(cache)
    /\ own <= Len(store)
    /\ \A h \in Slots : calls[h].rev <= Len(store)

ConfigsInv ==
    TypeOK /\ TableInv /\ CallsInv /\ CacheInv /\ EditorInv /\ SavingInv /\ SeenInv

-----------------------------------------------------------------------------
(* The table                                                               *)

LEMMA TableIsLast ==
    ASSUME TableInv
    PROVE  Table = store[Len(store)] /\ Table \subseteq Row /\ Len(store) \in Nat
BY DEF TableInv, Table

\* The row of an id.
LEMMA TheRow ==
    ASSUME TableInv, NEW id, Known(Table, id)
    PROVE  The(id) \in Table /\ The(id).id = id
BY DEF Known, The

\* A row that is stored.
LEMMA Grow ==
    ASSUME ListAssumption, TableInv, NEW row \in Row, row.version <= Len(store) + 1,
           Own(Table, row), Len(store) < MaxRev, store' = Append(store, Stored(row))
    PROVE  TableInv' /\ Table \subseteq Table' /\ Len(store') = Len(store) + 1
<1> DEFINE n   == Len(store)
           new == [row EXCEPT !.id = n + 2]
<1>1. /\ n \in Nat /\ n >= 1 /\ n < MaxRev /\ MaxRev \in Nat
      /\ Table \subseteq Row
    BY TableIsLast DEF TableInv, ListAssumption
<1>2. Stored(row) = Table \cup {new}
    BY <1>1 DEF Stored, TableInv
<1>3. /\ new \in Row /\ new.id = n + 2 /\ new.version = row.version
      /\ new.parent = row.parent /\ new.base = row.base /\ new.group = row.group
    BY <1>1 DEF Row, Ids
<1>4. new \notin Table
    <2>1. \A c \in Table : c.id # n + 2
        BY <1>1 DEF TableInv
    <2> QED
        BY <1>3, <2>1
<1> HIDE DEF new
<1>5. /\ store' \in Seq(SUBSET Row) /\ Len(store') = n + 1
      /\ store'[n + 1] = Table \cup {new}
      /\ \A k \in 1..n : store'[k] = store[k]
    <2>1. Table \cup {new} \in SUBSET Row
        BY <1>1, <1>3
    <2> QED
        BY <1>1, <1>2, <2>1 DEF TableInv
<1>6. Table' = Table \cup {new}
    BY <1>5 DEF Table
<1>7. IsFiniteSet(Table') /\ Cardinality(Table') = Len(store') + 1
    <2>1. IsFiniteSet(Table) /\ Cardinality(Table) = n + 1
        BY DEF TableInv
    <2>2. IsFiniteSet(Table \cup {new}) /\ Cardinality(Table \cup {new}) = n + 1 + 1
        BY <1>4, <2>1, FS_AddElement
    <2> QED
        BY <1>1, <1>5, <1>6, <2>2
<1>8. \A k \in 1..Len(store') : store'[k] \subseteq Table'
    BY <1>1, <1>5, <1>6 DEF TableInv
<1>9. \A c \in Table' : c.id \in 1..(Len(store') + 1) /\ c.version <= Len(store')
    <2>1. \A c \in Table : c.version \in Nat
        BY <1>1 DEF Row
    <2>2. row.version \in Nat
        BY <1>1 DEF Row
    <2> QED
        BY <1>1, <1>3, <1>5, <1>6, <2>1, <2>2 DEF TableInv
<1>10. \A c \in Table' : Own(Table', c)
    <2>1. \A c \in Table : Own(Table', c)
        BY <1>6 DEF TableInv, Own
    <2>2. Own(Table', new)
        BY <1>3, <1>6 DEF Own
    <2> QED
        BY <1>6, <2>1, <2>2
<1>11. \A c, d \in Table' : c.id = d.id => c = d
    BY <1>1, <1>3, <1>6 DEF TableInv
<1>12. Len(store') \in 1..MaxRev
    BY <1>1, <1>5
<1>13. TableInv'
    BY <1>5, <1>7, <1>8, <1>9, <1>10, <1>11, <1>12, Zenon DEF TableInv
<1> QED
    BY <1>5, <1>6, <1>13

\* Steps that leave the table alone.
LEMMA SameTable ==
    ASSUME TableInv, UNCHANGED store
    PROVE  TableInv' /\ Table \subseteq Table' /\ Len(store) <= Len(store')
<1>1. Table' = Table
    BY DEF Table
<1>2. TableInv'
    BY <1>1 DEF TableInv
<1> QED
    BY <1>1, <1>2, TableIsLast

LEMMA NextTable ==
    ASSUME ListAssumption, TableInv, CallsInv, [Next]_cvars
    PROVE  TableInv' /\ Table \subseteq Table' /\ Len(store) <= Len(store')
<1>1. ASSUME NEW h \in Slots, Accept(h, Stored(calls[h].row))
      PROVE  TableInv' /\ Table \subseteq Table' /\ Len(store) <= Len(store')
    <2>1. /\ calls[h].row \in Row /\ calls[h].row.version <= Len(store) + 1
          /\ Own(Table, calls[h].row)
          /\ Len(store) < MaxRev /\ store' = Append(store, Stored(calls[h].row))
        BY <1>1 DEF Accept, CallsInv
    <2> QED
        BY <2>1, Grow, TableIsLast
<1>2. ASSUME NEW h \in Slots, ~Accept(h, Stored(calls[h].row)),
             \/ Serve(h) \/ Succeeded(h) \/ Refreshed(h) \/ ListReloaded(h) \/ Saved(h)
             \/ Failed(h) \/ HandleRefresh(h) \/ HandleSave(h)
      PROVE  UNCHANGED store
    BY <1>2 DEF Serve, Refuse, Succeeded, Mutate, Refreshed, Reloaded, ListReloaded, Saved,
       Failed, Caught, HandleRefresh, Reload, HandleSave, Send
<1>3. ASSUME NEW x, \/ HandleEditConfig(x) \/ SelectGroup(x) \/ ConfigArrives(x)
                    \/ ServeList(x)
      PROVE  UNCHANGED store
    BY <1>3 DEF HandleEditConfig, SelectGroup, ConfigArrives, ServeList, Show
<1>4. ASSUME \/ HandleCreateNew \/ HandleBackToList \/ Leave \/ Return(Fresh) \/ Revalidate
             \/ PollArrives \/ UNCHANGED cvars
      PROVE  UNCHANGED store
    BY <1>4 DEF HandleCreateNew, HandleBackToList, Leave, Return, Revalidate, PollArrives,
       Show, cvars, vars
<1> QED
    BY <1>1, <1>2, <1>3, <1>4, SameTable DEF Next, User, Run

-----------------------------------------------------------------------------
(* The handlers                                                            *)

\* A row that was right of a table is right of a later one.
LEMMA OwnGrows ==
    ASSUME NEW S, NEW T, S \subseteq T, NEW row, Own(S, row)
    PROVE  Own(T, row)
BY DEF Own

LEMMA KnownGrows ==
    ASSUME NEW S, NEW T, S \subseteq T, NEW id, Known(S, id)
    PROVE  Known(T, id)
BY DEF Known

CallType == Call(Ops \cup {"none", "refresh"}, Row \cup {None})

LEMMA IdleCall ==
    ASSUME ListAssumption
    PROVE  Idle \in CallType /\ Idle.op = "none" /\ Idle.st = "idle"
BY DEF Idle, CallType, Call, ListAssumption

\* What the Save button sends.
LEMMA ToSaveIsOwn ==
    ASSUME ListAssumption, TypeOK, TableInv, EditorInv
    PROVE  ToSave \in Row /\ ToSave.version <= Len(store) + 1 /\ Own(Table, ToSave)
<1>1. ui \in Ui /\ MaxRev \in Nat /\ Table \subseteq Row /\ Len(store) \in 1..MaxRev
    BY TableIsLast DEF TypeOK, TableInv, ListAssumption
<1>2. CASE ui.mode = "edit" /\ ui.configId \in loaded
    <2>1. The(ui.configId) \in Table /\ The(ui.configId).id = ui.configId
        BY <1>2, TheRow DEF EditorInv
    <2>2. /\ The(ui.configId) \in Row
          /\ The(ui.configId).version <= Len(store)
        BY <1>1, <2>1 DEF TableInv
    <2>3. ToSave = [id |-> 0, group |-> The(ui.configId).group,
                    version |-> The(ui.configId).version + 1,
                    parent |-> ui.configId, base |-> ui.base]
        BY <1>2 DEF ToSave
    <2>4. /\ The(ui.configId).version + 1 \in 1..(MaxRev + 1)
          /\ The(ui.configId).version + 1 <= Len(store) + 1
        BY <1>1, <2>2 DEF Row
    <2>5. ToSave \in Row
        BY <1>1, <2>2, <2>3, <2>4 DEF Row, Ui
    <2>6. Own(Table, ToSave)
        BY <1>2, <2>1, <2>3 DEF Own, EditorInv
    <2> QED
        BY <2>3, <2>4, <2>5, <2>6
<1>3. CASE ~(ui.mode = "edit" /\ ui.configId \in loaded)
    <2>1. ToSave = [id |-> 0, group |-> ui.group, version |-> 1, parent |-> 0,
                    base |-> ui.base]
        BY <1>3 DEF ToSave
    <2>2. 1 \in 1..(MaxRev + 1) /\ 1 <= Len(store) + 1
        BY <1>1
    <2> QED
        BY <1>1, <2>1, <2>2 DEF Row, Ui, Own
<1> QED
    BY <1>2, <1>3

\* No request is sent.
NothingSent ==
    \A g \in Slots : calls'[g].st = "sent" =>
        calls[g].st = "sent" /\ calls'[g].row = calls[g].row

LEMMA NextCallTypes ==
    ASSUME ListAssumption, TypeOK, TableInv, EditorInv, [Next]_cvars,
           \A h \in Slots : ~HandleSave(h)
    PROVE  calls' \in [Slots -> CallType] /\ NothingSent
<1>0. /\ calls \in [Slots -> CallType]
      /\ Idle \in CallType /\ Idle.st = "idle"
    BY IdleCall DEF TypeOK, ListTypeOK, CallType
<1>1. ASSUME NEW h \in Slots, NEW c \in CallType, calls' = [calls EXCEPT ![h] = c],
             c.st = "sent" => calls[h].st = "sent" /\ c.row = calls[h].row
      PROVE  calls' \in [Slots -> CallType] /\ NothingSent
    BY <1>0, <1>1 DEF NothingSent
<1>2. ASSUME UNCHANGED calls
      PROVE  calls' \in [Slots -> CallType] /\ NothingSent
    BY <1>0, <1>2 DEF NothingSent
<1>3. ASSUME NEW h \in Slots, NEW u, Reload(h, u)
      PROVE  calls' \in [Slots -> CallType] /\ NothingSent
    <2> DEFINE c == [Idle EXCEPT !.op = "refresh", !.st = "reload"]
    <2>1. c \in CallType /\ c.st # "sent"
        BY <1>0 DEF CallType, Call
    <2>2. calls' = [calls EXCEPT ![h] = c]
        BY <1>3 DEF Reload
    <2> QED
        BY <1>1, <2>1, <2>2
<1>4. ASSUME NEW h \in Slots, NEW rows, Accept(h, rows)
      PROVE  calls' \in [Slots -> CallType] /\ NothingSent
    <2> DEFINE c == [calls[h] EXCEPT !.st = "ok", !.rev = Len(store) + 1]
    <2>1. Len(store) + 1 \in 0..MaxRev
        BY <1>4, TableIsLast DEF Accept, TableInv, ListAssumption
    <2>2. c \in CallType /\ c.st # "sent"
        BY <1>0, <2>1 DEF CallType, Call
    <2>3. calls' = [calls EXCEPT ![h] = c]
        BY <1>4 DEF Accept
    <2> QED
        BY <1>1, <2>2, <2>3
<1>5. ASSUME NEW h \in Slots, NEW st \in {"failed", "reload", "after"},
             calls' = [calls EXCEPT ![h].st = st]
      PROVE  calls' \in [Slots -> CallType] /\ NothingSent
    <2> DEFINE c == [calls[h] EXCEPT !.st = st]
    <2>1. c \in CallType /\ c.st # "sent"
        BY <1>0 DEF CallType, Call
    <2>2. calls' = [calls EXCEPT ![h] = c]
        BY <1>5
    <2> QED
        BY <1>1, <2>1, <2>2
<1>6. ASSUME NEW h \in Slots, calls' = [calls EXCEPT ![h] = Idle]
      PROVE  calls' \in [Slots -> CallType] /\ NothingSent
    BY <1>0, <1>1, <1>6
<1>7. CASE Leave
    BY <1>0, <1>7 DEF Leave, CallType, Call, NothingSent
<1>8. ASSUME NEW h \in Slots, Serve(h)
      PROVE  calls' \in [Slots -> CallType] /\ NothingSent
    BY <1>4, <1>5, <1>8 DEF Serve, Refuse
<1>9. ASSUME NEW h \in Slots, Succeeded(h) \/ ListReloaded(h)
      PROVE  calls' \in [Slots -> CallType] /\ NothingSent
    BY <1>5, <1>6, <1>9 DEF Succeeded, Mutate, ListReloaded
<1>10. ASSUME NEW h \in Slots, Refreshed(h) \/ Saved(h) \/ Failed(h)
       PROVE  calls' \in [Slots -> CallType] /\ NothingSent
    BY <1>6, <1>10 DEF Refreshed, Reloaded, Saved, Failed, Caught
<1>11. ASSUME NEW h \in Slots, HandleRefresh(h)
       PROVE  calls' \in [Slots -> CallType] /\ NothingSent
    BY <1>3, <1>11 DEF HandleRefresh
<1>12. ASSUME NEW x, \/ HandleEditConfig(x) \/ SelectGroup(x) \/ ConfigArrives(x)
                     \/ ServeList(x)
       PROVE  UNCHANGED calls
    BY <1>12 DEF HandleEditConfig, SelectGroup, ConfigArrives, ServeList, Show
<1>13. ASSUME \/ HandleCreateNew \/ HandleBackToList \/ Return(Fresh) \/ Revalidate
              \/ PollArrives \/ UNCHANGED cvars
       PROVE  UNCHANGED calls
    BY <1>13 DEF HandleCreateNew, HandleBackToList, Return, Revalidate, PollArrives,
       Show, cvars, vars
<1> QED
    BY <1>2, <1>7, <1>8, <1>9, <1>10, <1>11, <1>12, <1>13 DEF Next, User, Run

LEMMA NextCalls ==
    ASSUME ListAssumption, TypeOK, TableInv, CallsInv, EditorInv, [Next]_cvars
    PROVE  calls' \in [Slots -> CallType] /\ CallsInv'
<1>0. /\ calls \in [Slots -> CallType]
      /\ Idle \in CallType
    BY IdleCall DEF TypeOK, ListTypeOK, CallType
<1>1. Table \subseteq Table' /\ Len(store) <= Len(store')
    BY NextTable
<1>2. ASSUME NEW h \in Slots, HandleSave(h)
      PROVE  calls' \in [Slots -> CallType] /\ CallsInv'
    <2> DEFINE row == ToSave
               c   == [Idle EXCEPT !.op = "save", !.row = row, !.st = "sent"]
    <2>1. row \in Row /\ row.version <= Len(store) + 1 /\ Own(Table, row)
        BY ToSaveIsOwn
    <2>2. store' = store /\ calls' = [calls EXCEPT ![h] = c]
        BY <1>2 DEF HandleSave, Send
    <2> HIDE DEF row
    <2>3. c \in CallType /\ c.row = row
        BY <1>0, <2>1 DEF CallType, Call, Ops
    <2>4. Table' = Table
        BY <2>2 DEF Table
    <2> HIDE DEF c
    <2>5. \A g \in Slots : calls'[g] = IF g = h THEN c ELSE calls[g]
        BY <1>0, <2>2
    <2>6. CallsInv'
        BY <2>1, <2>2, <2>3, <2>4, <2>5 DEF CallsInv
    <2> QED
        BY <1>0, <2>2, <2>3, <2>6
<1>3. CASE \A h \in Slots : ~HandleSave(h)
    <2>1. calls' \in [Slots -> CallType] /\ NothingSent
        BY <1>3, NextCallTypes
    <2>2. \A row \in Row : row.version \in Nat
        BY TableIsLast DEF Row, TableInv, ListAssumption
    <2>3. \A row : Own(Table, row) => Own(Table', row)
        BY <1>1, OwnGrows
    <2>4. Len(store) \in Nat /\ Len(store') \in Nat
        BY NextTable, TableIsLast DEF TableInv
    <2>5. CallsInv'
        BY <1>1, <2>1, <2>2, <2>3, <2>4 DEF CallsInv, NothingSent
    <2> QED
        BY <2>1, <2>5
<1> QED
    BY <1>2, <1>3

-----------------------------------------------------------------------------
(* What SWR holds                                                          *)

\* The list of this page is a list.
LEMMA SameList ==
    /\ ListAssumption => Listing!ListAssumption
    /\ Listing!Owners = Owners /\ Listing!Cache = Cache /\ Listing!Cold = Cold
    /\ Listing!SeesOwnWrites <=> SeesOwnWrites
    /\ \A c, o : /\ Listing!Starts(c, o) = Starts(c, o)
                 /\ Listing!Settles(c, o) = Settles(c, o)
    /\ \A o : /\ Listing!Arrived(o) <=> Arrived(o)
              /\ Listing!ServeList(o) <=> ServeList(o)
BY Zenon
DEF ListAssumption, Listing!ListAssumption, Owners, Listing!Owners, Cache, Listing!Cache,
    Request, Listing!Request, Cold, Listing!Cold, Quiet, Listing!Quiet,
    SeesOwnWrites, Listing!SeesOwnWrites, Idle, Listing!Idle, Starts, Listing!Starts,
    Settles, Listing!Settles, Arrived, Listing!Arrived, ServeList, Listing!ServeList

LEMMA NextIsListStep ==
    ASSUME [Next]_cvars
    PROVE  Listing!ListStep
<1> DEFINE Step == \/ UNCHANGED <<cache, own>>
                   \/ \E o \in Owners : cache' = Starts(cache, o)
                   \/ \E o \in Owners : Arrived(o) /\ cache' = Settles(cache, o) /\ UNCHANGED own
                   \/ \E o \in Owners : ServeList(o)
<1>0. "poll" \in Owners /\ \A h \in Slots : h \in Owners
    BY DEF Owners
<1>1. ASSUME NEW h \in Slots, HandleRefresh(h) \/ Succeeded(h)
      PROVE  Step
    BY <1>0, <1>1 DEF HandleRefresh, Reload, Succeeded, Mutate
<1>2. ASSUME NEW h \in Slots, Refreshed(h) \/ ListReloaded(h)
      PROVE  Step
    BY <1>0, <1>2 DEF Refreshed, Reloaded, ListReloaded
<1>3. ASSUME NEW h \in Slots, Serve(h) \/ Saved(h) \/ Failed(h) \/ HandleSave(h)
      PROVE  Step
    BY <1>3 DEF Serve, Accept, Refuse, Saved, Failed, Caught, HandleSave, Send
<1>4. ASSUME NEW x, HandleEditConfig(x) \/ SelectGroup(x) \/ ConfigArrives(x)
      PROVE  Step
    BY <1>4 DEF HandleEditConfig, SelectGroup, ConfigArrives, Show
<1>5. ASSUME \/ HandleCreateNew \/ HandleBackToList \/ Leave \/ Return(Fresh)
             \/ UNCHANGED cvars
      PROVE  Step
    BY <1>5 DEF HandleCreateNew, HandleBackToList, Leave, Return, Show, cvars, vars
<1>6. /\ Revalidate => Step
      /\ PollArrives => Step
    BY <1>0, Zenon DEF Revalidate, PollArrives
<1>7. (\E o \in Owners : ServeList(o)) => Step
    OBVIOUS
<1> HIDE DEF Step
<1>8. Step
    BY <1>1, <1>2, <1>3, <1>4, <1>5, <1>6, <1>7 DEF Next, User, Run
<1> QED
    BY <1>8, SameList, Zenon DEF Step, Listing!ListStep

LEMMA NextCache ==
    ASSUME ListAssumption, TypeOK, TableInv, CallsInv, CacheInv, SeenInv, [Next]_cvars
    PROVE  cache' \in Cache /\ CacheInv' /\ Listing!Seen(cache)'
<1>1. /\ cache \in Listing!Cache /\ Len(store) \in 1..MaxRev /\ own <= Len(store)
      /\ Listing!Seen(cache) /\ Listing!Held(cache) /\ Listing!ListAssumption
    BY SameList DEF TypeOK, ListTypeOK, SeenInv, CacheInv
<1>2. Len(store) <= Len(store') /\ Len(store') \in Nat
    BY NextTable, TableIsLast DEF TableInv
<1>3. cache' \in Listing!Cache /\ Listing!Seen(cache)'
    BY <1>1, NextIsListStep, Listing!ListStepIsGood
<1>4. Listing!Held(cache)'
    BY <1>1, <1>2, NextIsListStep, Listing!ListStepHolds
<1> QED
    BY <1>3, <1>4, SameList DEF CacheInv

\* A handler has made no write but the last.
LEMMA NextRev ==
    ASSUME ListAssumption, TypeOK, TableInv, [Next]_cvars
    PROVE  \A g \in Slots : calls'[g].rev \in {0, calls[g].rev, Len(store')}
<1> DEFINE Good == \A g \in Slots : calls'[g].rev \in {0, calls[g].rev, Len(store')}
<1>0. calls \in [Slots -> CallType] /\ Idle.rev = 0
    BY DEF TypeOK, ListTypeOK, CallType, Idle
<1>1. ASSUME NEW h \in Slots, NEW c, calls' = [calls EXCEPT ![h] = c],
             c.rev = 0 \/ c.rev = calls[h].rev \/ c.rev = Len(store')
      PROVE  Good
    BY <1>0, <1>1
<1>2. ASSUME UNCHANGED calls
      PROVE  Good
    BY <1>2
<1> HIDE DEF Good
<1>3. ASSUME NEW h \in Slots, HandleSave(h)
      PROVE  Good
    <2> DEFINE c == [Idle EXCEPT !.op = "save", !.row = ToSave, !.st = "sent"]
    <2>1. c.rev = 0 /\ calls' = [calls EXCEPT ![h] = c]
        BY <1>3 DEF HandleSave, Send, Idle
    <2> HIDE DEF c
    <2> QED
        BY <1>1, <2>1, Zenon
<1>4. ASSUME NEW h \in Slots, HandleRefresh(h)
      PROVE  Good
    <2> DEFINE c == [Idle EXCEPT !.op = "refresh", !.st = "reload"]
    <2>1. c.rev = 0 /\ calls' = [calls EXCEPT ![h] = c]
        BY <1>4 DEF HandleRefresh, Reload, Idle
    <2> HIDE DEF c
    <2> QED
        BY <1>1, <2>1, Zenon
<1>5. ASSUME NEW h \in Slots, NEW rows, Accept(h, rows)
      PROVE  Good
    <2> DEFINE c == [calls[h] EXCEPT !.st = "ok", !.rev = Len(store) + 1]
    <2>1. Len(store') = Len(store) + 1
        BY <1>5 DEF Accept, TableInv
    <2>2. c.rev = Len(store') /\ calls' = [calls EXCEPT ![h] = c]
        BY <1>0, <1>5, <2>1 DEF Accept, CallType, Call
    <2> HIDE DEF c
    <2> QED
        BY <1>1, <2>2, Zenon
<1>6. ASSUME NEW h \in Slots, NEW st, calls' = [calls EXCEPT ![h].st = st]
      PROVE  Good
    <2> DEFINE c == [calls[h] EXCEPT !.st = st]
    <2>1. c.rev = calls[h].rev /\ calls' = [calls EXCEPT ![h] = c]
        BY <1>0, <1>6 DEF CallType, Call
    <2> HIDE DEF c
    <2> QED
        BY <1>1, <2>1, Zenon
<1>7. ASSUME NEW h \in Slots, calls' = [calls EXCEPT ![h] = Idle]
      PROVE  Good
    BY <1>0, <1>1, <1>7, Zenon
<1>8. ASSUME Leave
      PROVE  Good
    BY <1>0, <1>8 DEF Leave, CallType, Call, Good
<1>9. ASSUME NEW h \in Slots, Serve(h) \/ Succeeded(h) \/ ListReloaded(h)
      PROVE  Good
    BY <1>5, <1>6, <1>7, <1>9 DEF Serve, Refuse, Succeeded, Mutate, ListReloaded
<1>10. ASSUME NEW h \in Slots, Refreshed(h) \/ Saved(h) \/ Failed(h)
       PROVE  Good
    BY <1>7, <1>10 DEF Refreshed, Reloaded, Saved, Failed, Caught
<1>11. ASSUME NEW x, \/ HandleEditConfig(x) \/ SelectGroup(x) \/ ConfigArrives(x)
                     \/ ServeList(x)
       PROVE  Good
    BY <1>2, <1>11 DEF HandleEditConfig, SelectGroup, ConfigArrives, ServeList, Show
<1>12. ASSUME \/ HandleCreateNew \/ HandleBackToList \/ Return(Fresh) \/ Revalidate
              \/ PollArrives \/ UNCHANGED cvars
       PROVE  Good
    BY <1>2, <1>12 DEF HandleCreateNew, HandleBackToList, Return, Revalidate, PollArrives,
       Show, cvars, vars
<1>13. Good
    BY <1>3, <1>4, <1>8, <1>9, <1>10, <1>11, <1>12 DEF Next, User, Run
<1> QED
    BY <1>13 DEF Good

\* What the page has seen done are writes that handlers made.
LEMMA NextOwn ==
    ASSUME [Next]_cvars
    PROVE  own' = own \/ \E h \in Slots : own' = calls[h].rev
<1>1. ASSUME NEW h \in Slots, Succeeded(h)
      PROVE  own' \in {own, calls[h].rev}
    BY <1>1 DEF Succeeded, Mutate
<1>2. ASSUME NEW h \in Slots,
             \/ Serve(h) \/ Refreshed(h) \/ ListReloaded(h) \/ Saved(h) \/ Failed(h)
             \/ HandleRefresh(h) \/ HandleSave(h)
      PROVE  UNCHANGED own
    BY <1>2 DEF Serve, Accept, Refuse, Refreshed, Reloaded, ListReloaded, Saved, Failed,
       Caught, HandleRefresh, Reload, HandleSave, Send
<1>3. ASSUME NEW x, \/ HandleEditConfig(x) \/ SelectGroup(x) \/ ConfigArrives(x)
                    \/ ServeList(x)
      PROVE  UNCHANGED own
    BY <1>3 DEF HandleEditConfig, SelectGroup, ConfigArrives, ServeList, Show
<1>4. ASSUME \/ HandleCreateNew \/ HandleBackToList \/ Leave \/ Return(Fresh) \/ Revalidate
             \/ PollArrives \/ UNCHANGED cvars
      PROVE  UNCHANGED own
    BY <1>4 DEF HandleCreateNew, HandleBackToList, Leave, Return, Revalidate, PollArrives,
       Show, cvars, vars
<1> QED
    BY <1>1, <1>2, <1>3, <1>4 DEF Next, User, Run

LEMMA NextSeen ==
    ASSUME ListAssumption, TypeOK, TableInv, CallsInv, CacheInv, SeenInv, [Next]_cvars
    PROVE  SeenInv'
<1>1. /\ MaxRev \in Nat /\ own \in Nat
      /\ \A h \in Slots : calls[h].rev \in Nat
    BY DEF TypeOK, ListTypeOK, Call, ListAssumption
<1>2. Listing!Seen(cache)'
    BY NextCache
<1>3. Len(store) <= Len(store') /\ Len(store') \in Nat /\ Len(store) \in Nat
    BY NextTable, TableIsLast DEF TableInv
<1>4. own' <= Len(store')
    BY <1>1, <1>3, NextOwn DEF SeenInv
<1>5. \A h \in Slots : calls'[h].rev <= Len(store')
    BY <1>1, <1>3, NextRev DEF SeenInv
<1> QED
    BY <1>2, <1>4, <1>5 DEF SeenInv

\* A row of the table of some time ago is a row of the table.
LEMMA ShownRows ==
    ASSUME ListAssumption, TypeOK, TableInv, CacheInv
    PROVE  Shown \subseteq Table
<1>1. cache.data \in 0..Len(store)
    BY TableIsLast DEF TypeOK, ListTypeOK, Cache, CacheInv, Listing!Held, ListAssumption
<1> QED
    BY <1>1 DEF Shown, TableInv

-----------------------------------------------------------------------------
(* The page                                                                *)

\* A state of the page that shows no more of a configuration than it has.
Sound(u, has) ==
    /\ u \in Ui
    /\ u.mode = "edit" => /\ Known(Table, u.configId)
                          /\ u.configId \in has => u.base = u.configId

\* The effect that loads the editor makes it sound.
LEMMA LoadEditorIsSound ==
    ASSUME TableInv, NEW u \in Ui, NEW has, u.mode = "edit" => Known(Table, u.configId)
    PROVE  /\ Sound(LoadEditor(u, has), has)
           /\ LoadEditor(u, has).isSaving = u.isSaving
           /\ LoadEditor(u, has).mounted = u.mounted
<1>1. CASE u.mode = "edit" /\ u.configId \in has
    <2>1. The(u.configId) \in Row
        BY <1>1, TheRow, TableIsLast
    <2>2. LoadEditor(u, has) = [u EXCEPT !.base = u.configId,
                                         !.group = The(u.configId).group]
        BY <1>1 DEF LoadEditor
    <2> QED
        BY <1>1, <2>1, <2>2 DEF Sound, Ui, Row
<1>2. CASE u.mode = "create"
    BY <1>2 DEF LoadEditor, Sound, Ui
<1>3. CASE u.mode # "create" /\ ~(u.mode = "edit" /\ u.configId \in has)
    BY <1>3 DEF LoadEditor, Sound, Ui
<1> QED
    BY <1>1, <1>2, <1>3

LEMMA NavigateIsSound ==
    ASSUME TableInv, ui \in Ui, NEW mode \in {"list", "create", "edit"},
           NEW id \in {0} \cup Ids, mode = "edit" => Known(Table, id)
    PROVE  /\ Sound(Navigate(ui, mode, id), loaded)
           /\ Navigate(ui, mode, id).isSaving = ui.isSaving
           /\ Navigate(ui, mode, id).mounted = ui.mounted
<1> DEFINE u == [ui EXCEPT !.mode = mode, !.configId = id]
<1>1. /\ u \in Ui /\ u.mode = mode /\ u.configId = id
      /\ u.isSaving = ui.isSaving /\ u.mounted = ui.mounted
    BY DEF Ui
<1>2. Navigate(ui, mode, id) = LoadEditor(u, loaded)
    BY DEF Navigate
<1> HIDE DEF u
<1> QED
    BY <1>1, <1>2, LoadEditorIsSound

LEMMA FreshIsSound == Sound(Fresh, loaded) /\ ~Fresh.isSaving /\ Fresh.mounted
BY DEF Sound, Fresh, Ui

LEMMA NextEditor ==
    ASSUME ListAssumption, TypeOK, TableInv, CallsInv, CacheInv, EditorInv, [Next]_cvars
    PROVE  ui' \in Ui /\ loaded' \subseteq Ids /\ EditorInv'
<1>0. /\ ui \in Ui /\ loaded \subseteq Ids
      /\ Sound(ui, loaded)
    BY DEF TypeOK, EditorInv, Sound
<1>1. ASSUME Sound(ui', loaded'), loaded' \subseteq Ids
      PROVE  ui' \in Ui /\ loaded' \subseteq Ids /\ EditorInv'
    <2>1. Table \subseteq Table'
        BY NextTable
    <2> QED
        BY <1>1, <2>1 DEF Sound, EditorInv, Known
<1>2. ASSUME UNCHANGED loaded, ui' \in Ui, ui'.mode = ui.mode,
             ui'.configId = ui.configId, ui'.base = ui.base
      PROVE  Sound(ui', loaded')
    BY <1>0, <1>2 DEF Sound
<1>3. ASSUME NEW c \in Table, HandleEditConfig(c)
      PROVE  Sound(ui', loaded')
    <2>1. c.id \in {0} \cup Ids /\ Known(Table, c.id)
        BY TableIsLast DEF Known, Row
    <2>2. ui' = Navigate(ui, "edit", c.id) /\ loaded' = loaded
        BY <1>3 DEF HandleEditConfig, Show, Kept
    <2> QED
        BY <1>0, <2>1, <2>2, NavigateIsSound
<1>4. ASSUME HandleCreateNew \/ HandleBackToList
      PROVE  Sound(ui', loaded')
    <2>1. \/ ui' = Navigate(ui, "create", 0) /\ loaded' = loaded
          \/ ui' = Navigate(ui, "list", 0) /\ loaded' = loaded
        BY <1>4 DEF HandleCreateNew, HandleBackToList, Show, Kept
    <2> QED
        BY <1>0, <2>1, NavigateIsSound
<1>5. ASSUME NEW id \in Ids, ConfigArrives(id)
      PROVE  Sound(ui', loaded') /\ loaded' \subseteq Ids
    <2>1. loaded' = loaded \cup {id} /\ loaded' \subseteq Ids
        BY <1>0, <1>5 DEF ConfigArrives
    <2>2. CASE ui' = LoadEditor(ui, loaded')
        BY <1>0, <2>1, <2>2, LoadEditorIsSound DEF Sound
    <2>3. CASE ui' = [ui EXCEPT !.mode = "list", !.configId = 0]
        BY <1>0, <2>1, <2>3 DEF Sound, Ui
    <2> QED
        BY <1>5, <2>1, <2>2, <2>3 DEF ConfigArrives
<1>6. ASSUME NEW g \in Groups, SelectGroup(g)
      PROVE  Sound(ui', loaded')
    BY <1>0, <1>2, <1>6 DEF SelectGroup, Show, Kept, Ui
<1>7. ASSUME NEW h \in Slots, HandleRefresh(h) \/ HandleSave(h)
      PROVE  Sound(ui', loaded')
    <2>1. CASE HandleRefresh(h)
        BY <1>0, <1>2, <2>1 DEF HandleRefresh, Reload, Kept, Ui
    <2>2. CASE HandleSave(h)
        BY <1>0, <1>2, <2>2 DEF HandleSave, Send, Kept, Ui
    <2> QED
        BY <1>7, <2>1, <2>2
<1>8. ASSUME NEW h \in Slots, Serve(h) \/ ListReloaded(h) \/ Succeeded(h)
      PROVE  Sound(ui', loaded')
    BY <1>0, <1>2, <1>8 DEF Serve, Accept, Refuse, ListReloaded, Succeeded, Mutate, Kept
<1>9. ASSUME NEW h \in Slots, Refreshed(h) \/ Failed(h)
      PROVE  Sound(ui', loaded')
    BY <1>0, <1>2, <1>9 DEF Refreshed, Reloaded, Failed, Caught, Kept, Ui
<1>10. ASSUME NEW h \in Slots, Saved(h)
       PROVE  Sound(ui', loaded')
    <2> DEFINE there == Navigate(ui, "list", 0)
    <2>1. loaded' = loaded
        BY <1>10 DEF Saved
    <2>2. Sound(there, loaded)
        BY <1>0, NavigateIsSound
    <2>3. CASE ui.mounted
        <3>1. ui' = [there EXCEPT !.isSaving = @ /\ ~calls[h].mine]
            BY <1>10, <2>3 DEF Saved
        <3>2. calls[h].mine \in BOOLEAN
            BY DEF TypeOK, ListTypeOK, Call
        <3> HIDE DEF there
        <3>3. (there.isSaving /\ ~calls[h].mine) \in BOOLEAN
            OBVIOUS
        <3> QED
            BY <2>1, <2>2, <3>1, <3>3 DEF Sound, Ui
    <2>4. CASE ~ui.mounted
        BY <1>10, <2>1, <2>4, FreshIsSound DEF Saved
    <2> QED
        BY <2>3, <2>4
<1>11. ASSUME Kept /\ (Leave \/ Return(Fresh))
       PROVE  Sound(ui', loaded')
    <2>1. CASE Kept /\ Leave
        BY <1>0, <1>2, <2>1 DEF Leave, Kept, Ui
    <2>2. CASE Kept /\ Return(Fresh)
        BY <2>2, FreshIsSound DEF Return, Kept
    <2> QED
        BY <1>11, <2>1, <2>2
<1>12. ASSUME Kept /\ (Revalidate \/ PollArrives \/ \E o \in Owners : ServeList(o))
       PROVE  Sound(ui', loaded')
    BY <1>0, <1>2, <1>12 DEF Revalidate, PollArrives, ServeList, Kept
<1>13. ASSUME UNCHANGED cvars
       PROVE  Sound(ui', loaded')
    BY <1>0, <1>2, <1>13 DEF cvars, vars
<1>14. (\E id \in Ids : ConfigArrives(id)) \/ loaded' = loaded
    BY DEF Next, User, Run, HandleEditConfig, HandleCreateNew, HandleBackToList, SelectGroup,
       HandleRefresh, HandleSave, Serve, Succeeded, Refreshed, ListReloaded, Saved, Failed,
       Show, Kept, cvars
<1>15. loaded' \subseteq Ids
    BY <1>0, <1>5, <1>14
<1> QED
    BY <1>1, <1>3, <1>4, <1>5, <1>6, <1>7, <1>8, <1>9, <1>10, <1>11, <1>12, <1>13, <1>15
    DEF Next, User, Run

-----------------------------------------------------------------------------
(* The Save button                                                         *)

LEMMA NextSaving ==
    ASSUME ListAssumption, TypeOK, TableInv, CallsInv, CacheInv, EditorInv, SavingInv,
           [Next]_cvars
    PROVE  SavingInv'
<1> USE DEF SavingInv, Saving
<1>0. /\ calls \in [Slots -> CallType]
      /\ ui \in Ui
      /\ Idle \in CallType /\ Idle.op = "none" /\ Idle.st = "idle"
    BY IdleCall DEF TypeOK, ListTypeOK, CallType
\* Steps that neither begin nor end a save.
<1>1. ASSUME UNCHANGED <<calls, ui.isSaving, ui.mounted>>
      PROVE  SavingInv'
    BY <1>1
\* A handler goes on.
<1>2. ASSUME NEW h \in Slots, NEW c \in CallType, calls' = [calls EXCEPT ![h] = c],
             c.op = calls[h].op, c.mine = calls[h].mine,
             c.st \in {"sent", "ok", "failed", "after"} => c.op = "save",
             UNCHANGED <<ui.isSaving, ui.mounted>>
      PROVE  SavingInv'
    <2>1. \A g \in Slots : /\ calls'[g].op = calls[g].op
                           /\ calls'[g].mine = calls[g].mine
                           /\ calls'[g] = calls[g] \/ calls'[g] = c
        BY <1>0, <1>2
    <2> QED
        BY <1>2, <2>1
\* A handler ends that the page does not wait for.
<1>3. ASSUME NEW h \in Slots, ~Saving(h), calls' = [calls EXCEPT ![h] = Idle],
             UNCHANGED <<ui.isSaving, ui.mounted>>
      PROVE  SavingInv'
    <2>1. \A g \in Slots : \/ g # h /\ calls'[g] = calls[g]
                           \/ g = h /\ calls'[g] = Idle
        BY <1>0, <1>3
    <2> QED
        BY <1>0, <1>3, <2>1
\* The save ends that the page waits for.
<1>4. ASSUME NEW h \in Slots, Saving(h), calls' = [calls EXCEPT ![h] = Idle],
             ~ui'.isSaving, ui'.mounted = ui.mounted
      PROVE  SavingInv'
    <2>1. \A g \in Slots : \/ g # h /\ calls'[g] = calls[g]
                           \/ g = h /\ calls'[g] = Idle
        BY <1>0, <1>4
    <2> QED
        BY <1>0, <1>4, <2>1
<1>5. ASSUME NEW h \in Slots, HandleSave(h)
      PROVE  SavingInv'
    <2> DEFINE c == [Idle EXCEPT !.op = "save", !.row = ToSave, !.st = "sent"]
    <2>1. /\ calls[h] = Idle /\ calls' = [calls EXCEPT ![h] = c]
          /\ ui.mounted /\ ~ui.isSaving /\ ui' = [ui EXCEPT !.isSaving = TRUE]
        BY <1>5 DEF HandleSave, Send, InEditor
    <2>2. c.op = "save" /\ c.mine
        BY DEF Idle
    <2> HIDE DEF c
    <2>3. ui'.mounted /\ ui'.isSaving
        BY <1>0, <2>1 DEF Ui
    <2>4. \A g \in Slots : \/ g # h /\ calls'[g] = calls[g]
                           \/ g = h /\ calls'[g] = c
        BY <1>0, <2>1
    <2> QED
        BY <2>1, <2>2, <2>3, <2>4
<1>6. ASSUME NEW h \in Slots, HandleRefresh(h)
      PROVE  SavingInv'
    <2> DEFINE c == [Idle EXCEPT !.op = "refresh", !.st = "reload"]
    <2>1. /\ calls[h] = Idle /\ calls' = [calls EXCEPT ![h] = c]
          /\ ui' = [ui EXCEPT !.refreshing = TRUE]
        BY <1>6 DEF HandleRefresh, Reload
    <2>2. c.op = "refresh" /\ c.st = "reload"
        BY DEF Idle
    <2> HIDE DEF c
    <2>3. UNCHANGED <<ui.isSaving, ui.mounted>>
        BY <1>0, <2>1 DEF Ui
    <2>4. \A g \in Slots : \/ g # h /\ calls'[g] = calls[g]
                           \/ g = h /\ calls'[g] = c
        BY <1>0, <2>1
    <2> QED
        BY <1>0, <2>1, <2>2, <2>3, <2>4
<1>7. ASSUME NEW h \in Slots, NEW rows, Accept(h, rows)
      PROVE  SavingInv'
    <2> DEFINE c == [calls[h] EXCEPT !.st = "ok", !.rev = Len(store) + 1]
    <2>1. Len(store) + 1 \in 0..MaxRev
        BY <1>7, TableIsLast DEF Accept, TableInv, ListAssumption
    <2>2. c \in CallType /\ c.op = calls[h].op /\ c.mine = calls[h].mine /\ c.op = "save"
        BY <1>0, <1>7, <2>1 DEF CallType, Call, Accept
    <2>3. calls' = [calls EXCEPT ![h] = c] /\ ui' = ui
        BY <1>7 DEF Accept
    <2> QED
        BY <1>2, <2>2, <2>3
<1>8. ASSUME NEW h \in Slots, NEW st \in {"failed", "reload", "after"},
             st # "reload" => calls[h].op = "save",
             calls' = [calls EXCEPT ![h].st = st], ui' = ui
      PROVE  SavingInv'
    <2> DEFINE c == [calls[h] EXCEPT !.st = st]
    <2>1. /\ c \in CallType /\ c.op = calls[h].op /\ c.mine = calls[h].mine
          /\ c.st \in {"sent", "ok", "failed", "after"} => c.op = "save"
        BY <1>0, <1>8 DEF CallType, Call
    <2>2. calls' = [calls EXCEPT ![h] = c]
        BY <1>8
    <2> HIDE DEF c
    <2> QED
        BY <1>2, <1>8, <2>1, <2>2
<1>9. ASSUME NEW h \in Slots, Serve(h)
      PROVE  SavingInv'
    <2>1. CASE Refuse(h, FALSE)
        BY <1>8, <2>1 DEF Refuse
    <2> QED
        BY <1>7, <1>9, <2>1 DEF Serve
<1>10. ASSUME NEW h \in Slots, Succeeded(h)
       PROVE  SavingInv'
    <2>1. CASE ui.mounted
        BY <1>8, <1>10, <2>1 DEF Succeeded, Mutate
    <2>2. CASE ~ui.mounted
        BY <1>3, <1>10, <2>2 DEF Succeeded, Mutate
    <2> QED
        BY <2>1, <2>2
<1>11. ASSUME NEW h \in Slots, Refreshed(h)
       PROVE  SavingInv'
    <2>1. UNCHANGED <<ui.isSaving, ui.mounted>>
        BY <1>0, <1>11 DEF Refreshed, Reloaded, Ui
    <2> QED
        BY <1>3, <1>11, <2>1 DEF Refreshed, Reloaded
<1>12. ASSUME NEW h \in Slots, ListReloaded(h)
       PROVE  SavingInv'
    BY <1>8, <1>12 DEF ListReloaded
<1>13. ASSUME NEW h \in Slots, Failed(h)
       PROVE  SavingInv'
    <2>1. calls[h].op = "save" /\ calls' = [calls EXCEPT ![h] = Idle]
        BY <1>13 DEF Failed, Caught
    <2>2. CASE calls[h].mine
        <3>1. ~ui'.isSaving /\ ui'.mounted = ui.mounted
            BY <1>0, <1>13, <2>2 DEF Failed, Caught, Ui
        <3> QED
            BY <1>4, <2>1, <2>2, <3>1
    <2>3. CASE ~calls[h].mine
        BY <1>3, <1>13, <2>1, <2>3 DEF Failed, Caught
    <2> QED
        BY <2>2, <2>3
<1>14. ASSUME NEW h \in Slots, Saved(h)
       PROVE  SavingInv'
    <2> DEFINE there == Navigate(ui, "list", 0)
    <2>1. calls[h].op = "save" /\ calls' = [calls EXCEPT ![h] = Idle]
        BY <1>14 DEF Saved
    <2>2. /\ there \in Ui /\ there.isSaving = ui.isSaving /\ there.mounted = ui.mounted
        BY <1>0, NavigateIsSound DEF Sound
    <2>3. CASE ui.mounted
        <3>1. ui' = [there EXCEPT !.isSaving = @ /\ ~calls[h].mine]
            BY <1>14, <2>3 DEF Saved
        <3>2. ui'.mounted = ui.mounted /\ ui'.isSaving = (ui.isSaving /\ ~calls[h].mine)
            BY <2>2, <3>1, Zenon DEF Ui
        <3>3. CASE calls[h].mine
            BY <1>4, <2>1, <3>2, <3>3
        <3>4. CASE ~calls[h].mine
            <4>1. UNCHANGED <<ui.isSaving, ui.mounted>>
                BY <1>0, <3>2, <3>4 DEF Ui
            <4> QED
                BY <1>3, <2>1, <3>4, <4>1
        <3> QED
            BY <3>3, <3>4
    <2>4. CASE ~ui.mounted
        <3>1. ui' = Fresh
            BY <1>14, <2>4 DEF Saved
        <3>2. \A g \in Slots : calls'[g] = calls[g] \/ calls'[g] = Idle
            BY <1>0, <2>1
        <3> QED
            BY <1>0, <2>4, <3>1, <3>2, FreshIsSound
    <2> QED
        BY <2>3, <2>4
<1>15. CASE Leave
    <2>1. ~ui'.mounted
        BY <1>0, <1>15 DEF Leave, Ui
    <2>2. \A g \in Slots : \/ calls'[g] = Idle
                           \/ /\ ~calls'[g].mine /\ calls'[g].op = calls[g].op
                              /\ calls'[g].st = calls[g].st
        BY <1>0, <1>15 DEF Leave, CallType, Call
    <2> QED
        BY <1>0, <2>1, <2>2
<1>16. CASE Return(Fresh)
    BY <1>16, FreshIsSound DEF Return
<1>17. ASSUME NEW g \in Groups, SelectGroup(g)
       PROVE  SavingInv'
    BY <1>0, <1>1, <1>17 DEF SelectGroup, Show, Ui
<1>18. ASSUME NEW mode \in {"list", "create", "edit"}, NEW id \in {0} \cup Ids,
              mode = "edit" => Known(Table, id), Show(Navigate(ui, mode, id))
       PROVE  SavingInv'
    <2>1. UNCHANGED <<ui.isSaving, ui.mounted>>
        BY <1>0, <1>18, NavigateIsSound DEF Show
    <2> QED
        BY <1>1, <1>18, <2>1 DEF Show
<1>19. ASSUME NEW c \in Table, HandleEditConfig(c)
       PROVE  SavingInv'
    <2>1. c.id \in {0} \cup Ids /\ Known(Table, c.id)
        BY TableIsLast DEF Known, Row
    <2> QED
        BY <1>18, <1>19, <2>1 DEF HandleEditConfig
<1>20. CASE HandleCreateNew \/ HandleBackToList
    BY <1>18, <1>20 DEF HandleCreateNew, HandleBackToList
<1>21. ASSUME NEW id \in Ids, ConfigArrives(id)
       PROVE  SavingInv'
    <2>1. CASE ui' = LoadEditor(ui, loaded')
        BY <1>0, <1>1, <1>21, <2>1, LoadEditorIsSound DEF ConfigArrives, EditorInv
    <2>2. CASE ui' = [ui EXCEPT !.mode = "list", !.configId = 0]
        <3>1. UNCHANGED <<ui.isSaving, ui.mounted>>
            BY <1>0, <2>2 DEF Ui
        <3> QED
            BY <1>1, <1>21, <3>1 DEF ConfigArrives
    <2> QED
        BY <1>21, <2>1, <2>2 DEF ConfigArrives
<1>22. ASSUME \/ Revalidate \/ PollArrives \/ \E o \in Owners : ServeList(o)
              \/ UNCHANGED cvars
       PROVE  SavingInv'
    BY <1>1, <1>22 DEF Revalidate, PollArrives, ServeList, cvars, vars
<1> QED
    BY <1>5, <1>6, <1>9, <1>10, <1>11, <1>12, <1>13, <1>14, <1>15, <1>16, <1>17, <1>19,
       <1>20, <1>21, <1>22 DEF Next, User, Run

-----------------------------------------------------------------------------
(* The invariant                                                           *)

LEMMA NextHistory ==
    ASSUME ListAssumption, TypeOK, TableInv, [Next]_cvars
    PROVE  own' \in 0..MaxRev /\ fuel' \in 0..MaxFuel
<1>0. /\ own \in 0..MaxRev /\ fuel \in 0..MaxFuel /\ MaxFuel \in Nat
      /\ \A h \in Slots : calls[h].rev \in 0..MaxRev
    BY DEF TypeOK, ListTypeOK, Call, ListAssumption
<1>1. ASSUME NEW h \in Slots, Serve(h)
      PROVE  own' = own /\ (fuel' = fuel \/ (fuel > 0 /\ fuel' = fuel - 1))
    BY <1>1 DEF Serve, Accept, Refuse
<1>2. ASSUME NEW h \in Slots, Succeeded(h)
      PROVE  own' \in {own, calls[h].rev} /\ fuel' = fuel
    BY <1>2 DEF Succeeded, Mutate
<1>3. ASSUME NEW h \in Slots,
             \/ Refreshed(h) \/ ListReloaded(h) \/ Saved(h) \/ Failed(h) \/ HandleRefresh(h)
             \/ HandleSave(h)
      PROVE  UNCHANGED <<own, fuel>>
    BY <1>3 DEF Refreshed, Reloaded, ListReloaded, Saved, Failed, Caught, HandleRefresh,
       Reload, HandleSave, Send
<1>4. ASSUME NEW o, ServeList(o)
      PROVE  own' = own /\ (fuel' = fuel \/ (fuel > 0 /\ fuel' = fuel - 1))
    BY <1>4 DEF ServeList
<1>5. ASSUME NEW x, \/ HandleEditConfig(x) \/ SelectGroup(x) \/ ConfigArrives(x)
      PROVE  UNCHANGED <<own, fuel>>
    BY <1>5 DEF HandleEditConfig, SelectGroup, ConfigArrives, Show
<1>6. CASE Leave
    BY <1>0, <1>6 DEF Leave
<1>7. ASSUME \/ HandleCreateNew \/ HandleBackToList \/ Return(Fresh) \/ Revalidate
             \/ PollArrives \/ UNCHANGED cvars
      PROVE  UNCHANGED <<own, fuel>>
    BY <1>7 DEF HandleCreateNew, HandleBackToList, Return, Revalidate, PollArrives, Show,
       cvars, vars
<1>8. fuel > 0 /\ fuel' = fuel - 1 => fuel' \in 0..MaxFuel
    BY <1>0
<1> QED
    BY <1>0, <1>1, <1>2, <1>3, <1>4, <1>5, <1>6, <1>7, <1>8 DEF Next, User, Run

\* The types of the page, apart from the one of the table.
LEMMA Typed ==
    ASSUME TableInv, cache \in Cache, calls \in [Slots -> CallType], own \in 0..MaxRev,
           fuel \in 0..MaxFuel, ui \in Ui, loaded \subseteq Ids
    PROVE  TypeOK
<1>1. \A k \in 1..Len(store) : store[k] \subseteq Row
    BY TableIsLast DEF TableInv
<1> QED
    BY <1>1 DEF TypeOK, ListTypeOK, TableInv, CallType

LEMMA InitConfigs ==
    ASSUME ConfigsAssumption, Init
    PROVE  ConfigsInv
<1> DEFINE g == CHOOSE g \in Groups : TRUE
           first  == [id |-> 1, group |-> g, version |-> 1, parent |-> 0, base |-> 1]
           second == [id |-> 2, group |-> None, version |-> 1, parent |-> 0, base |-> 2]
           rows   == {first, second}
<1>0. MaxRev \in Nat /\ MaxRev >= 1 /\ MaxFuel \in Nat /\ g \in Groups
    BY DEF ConfigsAssumption, ListAssumption
<1>1. /\ first \in Row /\ first.id = 1 /\ first.parent = 0 /\ first.version = 1
      /\ second \in Row /\ second.id = 2 /\ second.parent = 0 /\ second.version = 1
    BY <1>0 DEF Row, Ids
<1>2. store = <<rows>> /\ cache = Cold /\ own = 0 /\ fuel = MaxFuel /\ ui = Fresh
      /\ calls = [h \in Slots |-> Idle] /\ loaded = {}
    BY DEF Init, InitList
<1> HIDE DEF first, second
<1>3. IsFiniteSet(rows) /\ Cardinality(rows) = 2
    <2>1. IsFiniteSet({first}) /\ Cardinality({first}) = 1
        BY FS_Singleton
    <2>2. second \notin {first}
        BY <1>1
    <2>3. IsFiniteSet({first} \cup {second}) /\ Cardinality({first} \cup {second}) = 1 + 1
        BY <2>1, <2>2, FS_AddElement
    <2>4. rows = {first} \cup {second}
        OBVIOUS
    <2> QED
        BY <2>3, <2>4
<1>4. rows \subseteq Row /\ \A c \in rows : c.id \in {1, 2} /\ c.parent = 0 /\ c.version = 1
    BY <1>1
<1>5. \A c, d \in rows : c.id = d.id => c = d
    BY <1>1
<1> HIDE DEF rows
<1>6. store \in Seq(SUBSET Row) /\ Len(store) = 1 /\ Table = rows /\ store[1] = rows
    BY <1>2, <1>4 DEF Table
<1>7. TableInv
    <2>1. \A c \in Table : Own(Table, c)
        BY <1>4, <1>6 DEF Own
    <2>2. Cardinality(Table) = Len(store) + 1 /\ IsFiniteSet(Table) /\ Len(store) \in 1..MaxRev
        BY <1>0, <1>3, <1>6
    <2>3. \A k \in 1..Len(store) : store[k] \subseteq Table
        BY <1>6
    <2>4. \A c \in Table : c.id \in 1..(Len(store) + 1) /\ c.version <= Len(store)
        BY <1>4, <1>6
    <2> QED
        BY <1>5, <1>6, <2>1, <2>2, <2>3, <2>4, Zenon DEF TableInv
<1>8. calls \in [Slots -> CallType] /\ \A h \in Slots : calls[h] = Idle
    BY <1>2, IdleCall DEF ConfigsAssumption
<1>9. CallsInv
    BY <1>8, IdleCall DEF CallsInv, ConfigsAssumption
<1>10. cache \in Cache
    BY <1>0, <1>2 DEF Cold, Cache, Request, Quiet
<1>11. CacheInv
    BY <1>2, <1>6, SameList, Listing!InitIsSeen DEF ConfigsAssumption, CacheInv
<1>12. ui \in Ui /\ EditorInv
    BY <1>2 DEF Fresh, Ui, EditorInv
<1>13. SavingInv
    BY <1>2, <1>8, IdleCall DEF SavingInv, Saving, ConfigsAssumption, Fresh
<1>14. own \in 0..MaxRev /\ fuel \in 0..MaxFuel /\ loaded \subseteq Ids
    BY <1>0, <1>2
<1>15. SeenInv
    <2>1. Listing!Seen(cache)
        BY <1>2, SameList, Listing!InitIsSeen DEF ConfigsAssumption
    <2>2. \A h \in Slots : calls[h].rev = 0
        BY <1>8 DEF Idle
    <2> QED
        BY <1>2, <1>6, <2>1, <2>2 DEF SeenInv
<1> QED
    BY <1>7, <1>8, <1>9, <1>10, <1>11, <1>12, <1>13, <1>14, <1>15, Typed DEF ConfigsInv

LEMMA NextConfigs ==
    ASSUME ConfigsAssumption, ConfigsInv, [Next]_cvars
    PROVE  ConfigsInv'
<1> USE DEF ConfigsInv, ConfigsAssumption
<1>1. TableInv' /\ CallsInv' /\ CacheInv' /\ EditorInv' /\ SavingInv' /\ SeenInv'
    BY NextTable, NextCalls, NextCache, NextEditor, NextSaving, NextSeen
<1>2. /\ cache' \in Cache /\ calls' \in [Slots -> CallType]
      /\ own' \in 0..MaxRev /\ fuel' \in 0..MaxFuel
      /\ ui' \in Ui /\ loaded' \subseteq Ids
    BY NextCalls, NextCache, NextEditor, NextHistory
<1>3. \A k \in 1..Len(store') : store'[k] \subseteq Row
    <2>1. Table' \subseteq Row
        BY <1>1 DEF TableInv, Table
    <2> QED
        BY <1>1, <2>1 DEF TableInv
<1>4. TypeOK'
    BY <1>1, <1>2, <1>3 DEF TypeOK, ListTypeOK, TableInv, CallType
<1> QED
    BY <1>1, <1>4

\* What the invariant says of a state.
LEMMA ConfigsAreSeen ==
    ASSUME ConfigsAssumption, ConfigsInv
    PROVE  SeesOwnWrites
BY SameList, Listing!SeenIsShown DEF ConfigsInv, SeenInv, TypeOK, ListTypeOK, ConfigsAssumption

LEMMA ConfigsAreOwn ==
    ASSUME ConfigsInv
    PROVE  UpdatesItsOwn
<1>1. SUFFICES ASSUME TableInv, NEW c \in Table, c.parent # 0
               PROVE  c.base = c.parent /\ c.group = The(c.parent).group
    BY DEF ConfigsInv, UpdatesItsOwn
<1>2. PICK p \in Table : p.id = c.parent /\ c.base = c.parent /\ c.group = p.group
    BY <1>1 DEF TableInv, Own
<1>3. The(c.parent) = p
    BY <1>1, <1>2, TheRow DEF TableInv, Known
<1> QED
    BY <1>2, <1>3

LEMMA ConfigsAreBusy ==
    ASSUME ConfigsInv
    PROVE  BusyIsTrue
<1>1. SUFFICES ASSUME SavingInv, ui.mounted
               PROVE  /\ ui.isSaving <=> UnderWay("save") # {}
                      /\ Cardinality(UnderWay("save")) <= 1
    BY DEF ConfigsInv, BusyIsTrue
<1>2. UnderWay("save") = {h \in Slots : Saving(h)}
    BY DEF UnderWay, Saving
<1>3. ui.isSaving <=> UnderWay("save") # {}
    BY <1>1, <1>2 DEF SavingInv
<1>4. Cardinality(UnderWay("save")) <= 1
    <2>1. UnderWay("save") = {} \/ \E h : UnderWay("save") = {h}
        BY <1>1, <1>2 DEF SavingInv
    <2>2. Cardinality({}) = 0 /\ \A x : Cardinality({x}) = 1
        BY FS_EmptySet, FS_Singleton
    <2>3. Cardinality(UnderWay("save")) = 0 \/ Cardinality(UnderWay("save")) = 1
        BY <2>1, <2>2, Zenon
    <2>4. \A n : n = 0 \/ n = 1 => n <= 1
        OBVIOUS
    <2> QED
        BY <2>3, <2>4, Zenon
<1> QED
    BY <1>3, <1>4

\* The invariant of the page of the configurations.
THEOREM ConfigsInvariant ==
    ASSUME ConfigsAssumption
    PROVE  Spec => []ConfigsInv
<1>1. Init => ConfigsInv
    BY InitConfigs
<1>2. ConfigsInv /\ [Next]_cvars => ConfigsInv'
    BY NextConfigs
<1> QED
    BY <1>1, <1>2, PTL DEF Spec

\* The state of the page, of what SWR holds and of the handlers keeps to its types.
THEOREM ConfigsTypeCorrect ==
    ASSUME ConfigsAssumption
    PROVE  Spec => []TypeOK
<1>1. ConfigsInv => TypeOK
    BY DEF ConfigsInv
<1> QED
    BY <1>1, ConfigsInvariant, PTL

\* A new version carries a text that was loaded from the configuration it is a
\* version of, and stays in its group, whatever the user opens, leaves and opens
\* again while configurations and answers are late (Configs.tsx, handleSave and
\* the effect that loads the editor).
THEOREM VersionsAreOwn ==
    ASSUME ConfigsAssumption
    PROVE  Spec => []UpdatesItsOwn
<1>1. ConfigsInv => UpdatesItsOwn
    BY ConfigsAreOwn
<1> QED
    BY <1>1, ConfigsInvariant, PTL

\* The Save button is disabled exactly while a save of the page on screen is
\* under way, and there is one at most: coming back to the page frees it, and
\* the end of a save of the earlier page does not (Configs.tsx, isSaving).
THEOREM SaveBusyIsTrue ==
    ASSUME ConfigsAssumption
    PROVE  Spec => []BusyIsTrue
<1>1. ConfigsInv => BusyIsTrue
    BY ConfigsAreBusy
<1> QED
    BY <1>1, ConfigsInvariant, PTL

\* At rest the list shows what its user did last: a save asks for the list anew
\* after its row was stored, and only the answer to the request asked last is
\* taken (Configs.tsx, handleSave: await mutate()).
THEOREM ConfigsShowOwnWrites ==
    ASSUME ConfigsAssumption
    PROVE  Spec => []SeesOwnWrites
<1>1. ConfigsInv => SeesOwnWrites
    BY ConfigsAreSeen
<1> QED
    BY <1>1, ConfigsInvariant, PTL

-----------------------------------------------------------------------------
(* The markers in the text: lists of lines                                 *)

\* Induction, in the form of a set of numbers.
LEMMA AllNumbers ==
    ASSUME NEW S, 0 \in S, \A n \in Nat : n \in S => n + 1 \in S
    PROVE  Nat \subseteq S
<1> SUFFICES ASSUME Nat \ S # {} PROVE FALSE
    OBVIOUS
<1>1. PICK n \in Nat \ S : \A m \in Nat \ S : ~(<<m, n>> \in OpToRel(<, Nat))
    BY NatLessThanWellFounded, WFMin
<1>2. \A m \in Nat \ S : ~(m < n)
    BY <1>1 DEF OpToRel
<1> QED
    BY <1>2, n - 1 \in Nat \/ n = 0, n - 1 + 1 = n, n - 1 < n

\* Lines as a text may have them.
KeyNames == Sections \cup Settings \cup {"pipelines"} \cup Names \cup DOMAIN Lower
LineRows == [indent : Nat, key : KeyNames \cup {None}, list : Seq(Names), item : Names \cup {None}]

IsKey(line, indent, key) ==
    line \in LineRows /\ line.indent = indent /\ line.key = key /\ line.item = None
IsItem(line, indent) ==
    line \in LineRows /\ line.indent = indent /\ line.key = None /\ line.item # None

LEMMA KeyIs ==
    ASSUME NEW indent \in Nat, NEW key \in KeyNames, NEW list \in Seq(Names)
    PROVE  IsKey(Key(indent, key, list), indent, key)
BY DEF IsKey, LineRows, Nothing, Key

LEMMA ItemIs ==
    ASSUME PositionAssumption, NEW indent \in Nat, NEW name \in Names
    PROVE  IsItem(Item(indent, name), indent)
<1>1. <<>> \in Seq(Names) /\ name # None
    BY DEF PositionAssumption
<1> QED
    BY <1>1 DEF IsItem, LineRows, Nothing, Item

LEMMA NothingIs == Nothing \in LineRows /\ Nothing.key = None /\ Nothing.item = None
<1>1. <<>> \in Seq(Names)
    OBVIOUS
<1> QED
    BY <1>1 DEF LineRows, Nothing

\* What stands where in two lists one after the other.
LEMMA Joined ==
    ASSUME NEW S, NEW a \in Seq(S), NEW b \in Seq(S)
    PROVE  /\ a \o b \in Seq(S) /\ Len(a \o b) = Len(a) + Len(b)
           /\ Len(a) \in Nat /\ Len(b) \in Nat
           /\ \A i \in 1..Len(a) : (a \o b)[i] = a[i]
           /\ \A i \in 1..Len(b) : (a \o b)[Len(a) + i] = b[i]
OBVIOUS

LEMMA FunctionIsList ==
    ASSUME NEW S, NEW n \in Nat, NEW s \in [1..n -> S]
    PROVE  s \in Seq(S) /\ Len(s) = n
OBVIOUS

\* FlattenSeq puts one list after the other.
Flattens(f, seqs, n) == f = [i \in 1..n |-> IF i = 1 THEN seqs[i] ELSE f[i - 1] \o seqs[i]]

LEMMA FlattensExists ==
    ASSUME NEW seqs, NEW N \in Nat
    PROVE  \E f : Flattens(f, seqs, N)
<1> DEFINE S == {n \in Nat : \E f : Flattens(f, seqs, n)}
<1>1. 0 \in S
    <2> DEFINE f == [i \in 1..0 |-> 0]
    <2>1. f = [i \in 1..0 |-> IF i = 1 THEN seqs[i] ELSE f[i - 1] \o seqs[i]]
        OBVIOUS
    <2>2. Flattens(f, seqs, 0)
        BY <2>1, Zenon DEF Flattens
    <2> QED
        BY <2>2
<1>2. ASSUME NEW n \in Nat, n \in S PROVE n + 1 \in S
    <2>1. PICK f : Flattens(f, seqs, n)
        BY <1>2
    <2> DEFINE next == [i \in 1..(n + 1) |-> IF i = 1 THEN seqs[i] ELSE f[i - 1] \o seqs[i]]
    <2>2. ASSUME NEW i \in 1..(n + 1), i # 1
          PROVE  next[i - 1] = f[i - 1]
        <3>1. i - 1 \in 1..n
            BY <2>2
        <3>2. f[i - 1] = IF i - 1 = 1 THEN seqs[i - 1] ELSE f[i - 1 - 1] \o seqs[i - 1]
            BY <2>1, <3>1 DEF Flattens
        <3> QED
            BY <3>1, <3>2
    <2>3. next = [i \in 1..(n + 1) |-> IF i = 1 THEN seqs[i] ELSE next[i - 1] \o seqs[i]]
        <3>1. \A i \in 1..(n + 1) :
                 next[i] = IF i = 1 THEN seqs[i] ELSE next[i - 1] \o seqs[i]
            BY <2>2
        <3>2. next = [i \in 1..(n + 1) |-> next[i]]
            OBVIOUS
        <3> HIDE DEF next
        <3> QED
            BY <3>1, <3>2
    <2> HIDE DEF next
    <2>4. Flattens(next, seqs, n + 1)
        BY <2>3, Zenon DEF Flattens
    <2> QED
        BY <2>4
<1> HIDE DEF S
<1>3. N \in S
    BY <1>1, <1>2, AllNumbers
<1> QED
    BY <1>3 DEF S

\* The lists put together step by step, from none to all.
Flat(f, seqs, n) ==
    /\ f[0] = <<>> /\ f[n] = FlattenSeq(seqs)
    /\ \A i \in 1..n : f[i] = f[i - 1] \o seqs[i]

LEMMA FlattenIs ==
    ASSUME NEW S, NEW n \in Nat, NEW seqs \in [1..n -> Seq(S)]
    PROVE  \E f : Flat(f, seqs, n)
<1> DEFINE C == CHOOSE f : Flattens(f, seqs, n)
           f == [i \in 0..n |-> IF i = 0 THEN <<>> ELSE C[i]]
<1>1. Len(seqs) = n
    BY FunctionIsList
<1>2. Flattens(C, seqs, n)
    BY FlattensExists
<1>3. C = CHOOSE g : g = [i \in 1..n |-> IF i = 1 THEN seqs[i] ELSE g[i - 1] \o seqs[i]]
    BY Zenon DEF Flattens
<1> HIDE DEF C
<1>4. n # 0 => FlattenSeq(seqs) = C[n]
    BY <1>1, <1>3 DEF FlattenSeq
<1>5. n = 0 => FlattenSeq(seqs) = <<>>
    BY <1>1 DEF FlattenSeq
<1>6. \A i \in 1..n : seqs[i] \in Seq(S)
    OBVIOUS
<1>7. \A i \in 1..n : C[i] = IF i = 1 THEN seqs[i] ELSE C[i - 1] \o seqs[i]
    BY <1>2 DEF Flattens
<1>8. ASSUME NEW i \in 1..n PROVE f[i] = f[i - 1] \o seqs[i]
    <2>1. CASE i = 1
        <3>1. f[i - 1] = <<>> /\ f[i] = seqs[i]
            BY <2>1, <1>7
        <3>2. <<>> \o seqs[i] = seqs[i]
            BY <1>6
        <3> QED
            BY <3>1, <3>2
    <2>2. CASE i # 1
        <3>1. i \in 0..n /\ i # 0 /\ i - 1 \in 0..n /\ i - 1 # 0
            BY <2>2
        <3>2. f[i] = C[i] /\ f[i - 1] = C[i - 1]
            BY <3>1
        <3>3. C[i] = C[i - 1] \o seqs[i]
            BY <2>2, <1>7
        <3> QED
            BY <3>2, <3>3
    <2> QED
        BY <2>1, <2>2
<1>9. f[0] = <<>> /\ f[n] = FlattenSeq(seqs)
    BY <1>4, <1>5
<1> QED
    BY <1>8, <1>9 DEF Flat

\* What holds of lists, of none, and of two lists together, holds of them all.
LEMMA FlattenKeeps ==
    ASSUME NEW S, NEW G \in SUBSET Seq(S), <<>> \in G, \A a, b \in G : a \o b \in G,
           NEW n \in Nat, NEW seqs \in [1..n -> G]
    PROVE  FlattenSeq(seqs) \in G
<1>1. PICK f : Flat(f, seqs, n)
    BY FlattenIs
<1> DEFINE P == {k \in Nat : k <= n => f[k] \in G}
<1>2. 0 \in P
    BY <1>1 DEF Flat
<1>3. ASSUME NEW k \in Nat, k \in P PROVE k + 1 \in P
    <2>1. ASSUME k + 1 <= n PROVE f[k + 1] \in G
        <3>1. f[k] \in G /\ k + 1 \in 1..n
            BY <2>1, <1>3
        <3>2. seqs[k + 1] \in G /\ f[k + 1] = f[k] \o seqs[k + 1]
            BY <1>1, <3>1, (k + 1) - 1 = k DEF Flat
        <3> QED
            BY <3>1, <3>2
    <2> QED
        BY <2>1
<1> HIDE DEF P
<1>4. n \in P
    BY <1>2, <1>3, AllNumbers
<1> QED
    BY <1>1, <1>4 DEF P, Flat

\* The members of a finite set one after the other.
LEMMA SetToSeqIs ==
    ASSUME NEW S, IsFiniteSet(S)
    PROVE  /\ Cardinality(S) \in Nat /\ SetToSeq(S) \in [1..Cardinality(S) -> S]
           /\ SetToSeq(S) \in Seq(S) /\ Len(SetToSeq(S)) = Cardinality(S)
           /\ DOMAIN SetToSeq(S) = 1..Cardinality(S)
<1>1. Cardinality(S) \in Nat /\ ExistsBijection(1..Cardinality(S), S)
    BY FS_CardinalityType
<1>2. PICK f : f \in Bijection(1..Cardinality(S), S)
    BY <1>1 DEF ExistsBijection
<1>3. f \in [1..Cardinality(S) -> S] /\ IsInjective(f)
    BY <1>2 DEF Bijection, Injection, IsInjective
<1>4. SetToSeq(S) \in [1..Cardinality(S) -> S]
    BY <1>3 DEF SetToSeq
<1> QED
    BY <1>1, <1>4, FunctionIsList

\* The lines of sections: headings, names, and below each name a setting.
SectionLine(x, j) ==
    /\ x[j].item = None
    /\ \/ x[j].indent = 0 /\ x[j].key \in Sections
       \/ x[j].indent = 2 /\ x[j].key \in Names
       \/ x[j].indent = 4 /\ x[j].key \in Settings /\ j > 1 /\ x[j - 1].indent = 2

OfSections == {x \in Seq(LineRows) : \A j \in 1..Len(x) : SectionLine(x, j)}

LEMMA SectionsJoin ==
    ASSUME NEW a \in OfSections, NEW b \in OfSections
    PROVE  a \o b \in OfSections
<1> DEFINE c == a \o b
<1>1. /\ a \in Seq(LineRows) /\ \A j \in 1..Len(a) : SectionLine(a, j)
      /\ b \in Seq(LineRows) /\ \A j \in 1..Len(b) : SectionLine(b, j)
    BY DEF OfSections
<1>2. /\ c \in Seq(LineRows) /\ Len(c) = Len(a) + Len(b) /\ Len(a) \in Nat /\ Len(b) \in Nat
      /\ \A i \in 1..Len(a) : c[i] = a[i]
      /\ \A i \in 1..Len(b) : c[Len(a) + i] = b[i]
    BY <1>1, Joined
<1> HIDE DEF c
<1>3. ASSUME NEW j \in 1..Len(c) PROVE SectionLine(c, j)
    <2>1. CASE j \in 1..Len(a)
        <3>1. SectionLine(a, j) /\ c[j] = a[j] /\ (j > 1 => j - 1 \in 1..Len(a))
            BY <1>1, <1>2, <2>1
        <3>2. j > 1 => c[j - 1] = a[j - 1]
            BY <1>2, <3>1
        <3> QED
            BY <3>1, <3>2 DEF SectionLine
    <2>2. CASE j > Len(a)
        <3> DEFINE i == j - Len(a)
        <3>1. i \in 1..Len(b) /\ j = Len(a) + i /\ (i > 1 => i - 1 \in 1..Len(b))
            BY <1>2, <2>2
        <3>2. i > 1 => j - 1 = Len(a) + (i - 1) /\ j > 1
            BY <1>2, <2>2
        <3> HIDE DEF i
        <3>3. SectionLine(b, i) /\ c[j] = b[i] /\ (i > 1 => c[j - 1] = b[i - 1] /\ j > 1)
            BY <1>1, <1>2, <3>1, <3>2
        <3> QED
            BY <3>3 DEF SectionLine
    <2> QED
        BY <1>2, <2>1, <2>2
<1> QED
    BY <1>2, <1>3 DEF OfSections, c

LEMMA NoLines == <<>> \in OfSections
BY DEF OfSections

LEMMA SectionLinesAre ==
    ASSUME PositionAssumption, NEW t \in Mapping, NEW layout \in Layouts, NEW s \in Sections
    PROVE  SectionLines(t, layout, s) \in OfSections
<1> DEFINE names == SetToSeq(t.defines[s])
           setting == IF s = "processors" THEN layout.setting ELSE "endpoint"
           pair == [k \in DOMAIN names |-> <<Key(2, names[k], <<>>), Key(4, setting, <<>>)>>]
           n == Cardinality(t.defines[s])
<1>1. t.defines[s] \in SUBSET Names
    BY DEF Mapping
<1>2. IsFiniteSet(t.defines[s])
    BY <1>1, FS_Subset DEF PositionAssumption
<1>3. /\ n \in Nat /\ names \in [1..n -> t.defines[s]] /\ DOMAIN names = 1..n
    BY <1>2, SetToSeqIs
<1>4. setting \in Settings
    BY DEF Layouts, Settings
<1> HIDE DEF setting
<1>5. ASSUME NEW name \in Names
      PROVE  <<Key(2, name, <<>>), Key(4, setting, <<>>)>> \in OfSections
    <2> DEFINE p == Key(2, name, <<>>)
               q == Key(4, setting, <<>>)
    <2>1. IsKey(p, 2, name) /\ IsKey(q, 4, setting)
        <3>1. name \in KeyNames /\ setting \in KeyNames /\ <<>> \in Seq(Names)
            BY <1>4 DEF KeyNames
        <3> QED
            BY <3>1, KeyIs
    <2> HIDE DEF p, q
    <2> DEFINE x == <<p, q>>
    <2>2. x \in Seq(LineRows) /\ Len(x) = 2 /\ x[1] = p /\ x[2] = q
        BY <2>1 DEF IsKey
    <2> HIDE DEF x
    <2>3. SectionLine(x, 1) /\ SectionLine(x, 2)
        BY <1>4, <2>1, <2>2 DEF SectionLine, IsKey
    <2>4. \A j \in 1..Len(x) : j = 1 \/ j = 2
        BY <2>2
    <2>5. \A j \in 1..Len(x) : SectionLine(x, j)
        BY <2>3, <2>4
    <2>6. x \in OfSections
        BY <2>2, <2>5 DEF OfSections
    <2> QED
        BY <2>6 DEF x, p, q
<1>6. pair \in [1..n -> OfSections]
    BY <1>1, <1>3, <1>5
<1>7. OfSections \in SUBSET Seq(LineRows)
    BY DEF OfSections
<1> HIDE DEF pair
<1>8. FlattenSeq(pair) \in OfSections
    BY <1>3, <1>6, <1>7, NoLines, SectionsJoin, FlattenKeeps
<1>9. <<Key(0, s, <<>>)>> \in OfSections
    <2> DEFINE p == Key(0, s, <<>>)
    <2>1. IsKey(p, 0, s)
        <3>1. s \in KeyNames /\ <<>> \in Seq(Names)
            BY DEF KeyNames
        <3> QED
            BY <3>1, KeyIs
    <2> HIDE DEF p
    <2> DEFINE x == <<p>>
    <2>2. x \in Seq(LineRows) /\ Len(x) = 1 /\ x[1] = p
        BY <2>1 DEF IsKey
    <2> HIDE DEF x
    <2>3. SectionLine(x, 1)
        BY <2>1, <2>2 DEF SectionLine, IsKey
    <2>4. x \in OfSections
        BY <2>2, <2>3 DEF OfSections
    <2> QED
        BY <2>4 DEF x, p
<1>10. <<Key(0, s, <<>>)>> \o FlattenSeq(pair) \in OfSections
    BY <1>8, <1>9, SectionsJoin
<1> QED
    BY <1>10, NoLines DEF SectionLines, pair, setting

\* All the sections of a text.
AllSections(t, layout) ==
    FlattenSeq([k \in 1..5 |->
        SectionLines(t, layout, <<"receivers", "processors", "exporters", "connectors", "extensions">>[k])])

LEMMA AllSectionsAre ==
    ASSUME PositionAssumption, NEW t \in Mapping, NEW layout \in Layouts
    PROVE  AllSections(t, layout) \in OfSections
<1> DEFINE name(k) == <<"receivers", "processors", "exporters", "connectors", "extensions">>[k]
           parts == [k \in 1..5 |-> SectionLines(t, layout, name(k))]
<1>1. \A k \in 1..5 : name(k) \in Sections
    BY DEF Sections
<1>2. parts \in [1..5 -> OfSections]
    BY <1>1, SectionLinesAre
<1>3. OfSections \in SUBSET Seq(LineRows)
    BY DEF OfSections
<1> HIDE DEF parts
<1>4. FlattenSeq(parts) \in OfSections
    BY <1>2, <1>3, NoLines, SectionsJoin, FlattenKeeps
<1> QED
    BY <1>4 DEF AllSections, parts

-----------------------------------------------------------------------------
(* The lines of the service, numbered by the places of its keys            *)

\* The service, line by line.  The keys that it may hold have numbers in the order
\* of the text: 0 the service, 1 its extensions, 2 its pipelines, 4 * u the
\* pipeline u and 4 * u + k its k-th list.
StageAt(k) == <<"receivers", "processors", "exporters">>[k]

KeyAt(ps, u, k) ==
    IF u = 0 THEN IF k = 0 THEN "service" ELSE IF k = 1 THEN "extensions" ELSE "pipelines"
    ELSE IF k = 0 THEN ps[u].name ELSE StageAt(k)

DepthAt(u, k) == IF u = 0 THEN IF k = 0 THEN 0 ELSE 2 ELSE IF k = 0 THEN 4 ELSE 6

Place(ps, u, k) == u \in 0..Len(ps) /\ k \in 0..3 /\ (u = 0 => k # 3)

\* A line at the number r: the key of that number, or an item below it, or nothing.
Numbered(ps, line, r) ==
    \/ line.key = None /\ line.item = None
    \/ \E u \in Nat, k \in Nat :
          /\ Place(ps, u, k) /\ r = 4 * u + k
          /\ \/ line.item = None /\ line.key = KeyAt(ps, u, k) /\ line.indent = DepthAt(u, k)
             \/ /\ line.item # None /\ line.key = None
                /\ line.indent = DepthAt(u, k) \/ line.indent = DepthAt(u, k) + 2

\* An item has its key right above it, or another item of the same list.
Follows(x, r, j) ==
    /\ j > 1 /\ r[j - 1] = r[j]
    /\ \/ x[j - 1].key # None /\ x[j - 1].list = <<>>
       \/ x[j - 1].item # None /\ x[j - 1].indent = x[j].indent

\* The numbers r of the lines x rise, from lo to hi, and each key has one of its own.
Rises(x, r) == \A i, j \in 1..Len(x) : i < j => r[i] <= r[j] /\ (x[j].key # None => r[i] < r[j])
Between(x, r, lo, hi) ==
    \A j \in 1..Len(x) : lo <= r[j] /\ r[j] <= hi /\ (x[j].key # None => lo < r[j])

Block(ps, x, r, lo, hi) ==
    /\ x \in Seq(LineRows) /\ r \in Seq(Nat) /\ Len(r) = Len(x)
    /\ \A j \in 1..Len(x) : Numbered(ps, x[j], r[j])
    /\ \A j \in 1..Len(x) : x[j].item # None => Follows(x, r, j)
    /\ Rises(x, r) /\ Between(x, r, lo, hi)

HasKey(x, r, n) == \E j \in 1..Len(x) : x[j].key # None /\ r[j] = n

Ranges(ps, x, lo, hi, R) ==
    \E r : Block(ps, x, r, lo, hi) /\ \A n \in R : HasKey(x, r, n)

LEMMA BlocksJoin ==
    ASSUME NEW ps, NEW lo \in Int, NEW mid \in Int, NEW hi \in Int, lo <= mid, mid <= hi,
           NEW a, NEW ra, Block(ps, a, ra, lo, mid), NEW b, NEW rb, Block(ps, b, rb, mid, hi)
    PROVE  /\ Block(ps, a \o b, ra \o rb, lo, hi)
           /\ \A n : HasKey(a, ra, n) \/ HasKey(b, rb, n) => HasKey(a \o b, ra \o rb, n)
<1> DEFINE c == a \o b
           r == ra \o rb
           m == Len(a)
<1>1. /\ a \in Seq(LineRows) /\ ra \in Seq(Nat) /\ Len(ra) = m /\ b \in Seq(LineRows) /\ rb \in Seq(Nat)
      /\ Len(rb) = Len(b)
    BY DEF Block
<1>2. /\ c \in Seq(LineRows) /\ Len(c) = m + Len(b) /\ m \in Nat /\ Len(b) \in Nat
      /\ \A i \in 1..m : c[i] = a[i]
      /\ \A i \in 1..Len(b) : c[m + i] = b[i]
    BY <1>1, Joined
<1>3. /\ r \in Seq(Nat) /\ Len(r) = m + Len(b)
      /\ \A i \in 1..m : r[i] = ra[i]
      /\ \A i \in 1..Len(b) : r[m + i] = rb[i]
    <2>1. /\ r \in Seq(Nat) /\ Len(r) = Len(ra) + Len(rb)
          /\ \A i \in 1..Len(ra) : r[i] = ra[i]
          /\ \A i \in 1..Len(rb) : r[Len(ra) + i] = rb[i]
        <3>1. ra \in Seq(Nat) /\ rb \in Seq(Nat)
            BY <1>1
        <3> QED
            BY <3>1, Joined
    <2> QED
        BY <1>1, <2>1
<1> HIDE DEF c, r, m
<1>4. ASSUME NEW j \in 1..Len(c)
      PROVE  \/ j \in 1..m /\ c[j] = a[j] /\ r[j] = ra[j]
             \/ \E i \in 1..Len(b) : j = m + i /\ c[j] = b[i] /\ r[j] = rb[i]
    <2>1. CASE j <= m
        BY <2>1, <1>2, <1>3
    <2>2. CASE j > m
        <3>1. j - m \in 1..Len(b) /\ j = m + (j - m)
            BY <2>2, <1>2
        <3> QED
            BY <3>1, <1>2, <1>3
    <2> QED
        BY <2>1, <2>2, <1>2
<1>5. \A j \in 1..Len(c) : Numbered(ps, c[j], r[j])
    <2>1. \A j \in 1..Len(a) : Numbered(ps, a[j], ra[j])
        BY DEF Block
    <2>2. \A j \in 1..Len(b) : Numbered(ps, b[j], rb[j])
        BY DEF Block
    <2> QED
        BY <1>4, <2>1, <2>2 DEF m
<1>6. ASSUME NEW j \in 1..Len(c), c[j].item # None PROVE Follows(c, r, j)
    <2>1. CASE j \in 1..m
        <3>1. a[j].item # None => Follows(a, ra, j)
            BY <2>1 DEF Block, m
        <3>2. c[j] = a[j] /\ r[j] = ra[j] /\ (j > 1 => j - 1 \in 1..m)
            BY <2>1, <1>2, <1>3
        <3>3. j > 1 => c[j - 1] = a[j - 1] /\ r[j - 1] = ra[j - 1]
            BY <3>2, <1>2, <1>3
        <3> QED
            BY <1>6, <3>1, <3>2, <3>3 DEF Follows
    <2>2. ASSUME NEW i \in 1..Len(b), j = m + i PROVE Follows(c, r, j)
        <3>1. b[i].item # None => Follows(b, rb, i)
            BY DEF Block
        <3>2. c[j] = b[i] /\ r[j] = rb[i] /\ (i > 1 => i - 1 \in 1..Len(b) /\ j - 1 = m + (i - 1) /\ j > 1)
            BY <2>2, <1>2, <1>3
        <3>3. i > 1 => c[j - 1] = b[i - 1] /\ r[j - 1] = rb[i - 1]
            BY <3>2, <1>2, <1>3
        <3> QED
            BY <1>6, <3>1, <3>2, <3>3 DEF Follows
    <2> QED
        BY <1>4, <2>1, <2>2
<1>7. Between(c, r, lo, hi)
    <2>1. \A j \in 1..m : lo <= ra[j] /\ ra[j] <= mid /\ (a[j].key # None => lo < ra[j])
        BY DEF Block, Between, m
    <2>2. \A j \in 1..Len(b) : mid <= rb[j] /\ rb[j] <= hi /\ (b[j].key # None => mid < rb[j])
        BY DEF Block, Between
    <2>3. ASSUME NEW j \in 1..Len(c)
          PROVE  lo <= r[j] /\ r[j] <= hi /\ (c[j].key # None => lo < r[j])
        <3>1. r[j] \in Nat
            BY <1>2, <1>3
        <3>2. CASE j \in 1..m /\ c[j] = a[j] /\ r[j] = ra[j]
            BY <2>1, <3>1, <3>2
        <3>3. ASSUME NEW i \in 1..Len(b), c[j] = b[i], r[j] = rb[i]
              PROVE  lo <= r[j] /\ r[j] <= hi /\ (c[j].key # None => lo < r[j])
            BY <2>2, <3>1, <3>3
        <3> QED
            BY <1>4, <3>2, <3>3
    <2> QED
        BY <2>3 DEF Between
<1>8. Rises(c, r)
    <2>1. \A j \in 1..m : ra[j] <= mid
        BY DEF Block, Between, m
    <2>2. \A j \in 1..Len(b) : mid <= rb[j] /\ (b[j].key # None => mid < rb[j])
        BY DEF Block, Between
    <2>3. \A i, j \in 1..m : i < j => ra[i] <= ra[j] /\ (a[j].key # None => ra[i] < ra[j])
        BY DEF Block, Rises, m
    <2>4. \A i, j \in 1..Len(b) : i < j => rb[i] <= rb[j] /\ (b[j].key # None => rb[i] < rb[j])
        BY DEF Block, Rises
    <2>5. ASSUME NEW i \in 1..Len(c), NEW j \in 1..Len(c), i < j
          PROVE  r[i] <= r[j] /\ (c[j].key # None => r[i] < r[j])
        <3>0. r[i] \in Nat /\ r[j] \in Nat
            BY <1>2, <1>3
        <3>1. CASE j \in 1..m /\ c[j] = a[j] /\ r[j] = ra[j]
            <4>1. i \in 1..m /\ r[i] = ra[i]
                BY <2>5, <3>1, <1>2, <1>3
            <4> QED
                BY <2>3, <2>5, <3>1, <4>1
        <3>2. ASSUME NEW y \in 1..Len(b), j = m + y, c[j] = b[y], r[j] = rb[y]
              PROVE  r[i] <= r[j] /\ (c[j].key # None => r[i] < r[j])
            <4>1. CASE i \in 1..m /\ r[i] = ra[i]
                BY <2>1, <2>2, <3>0, <3>2, <4>1
            <4>2. ASSUME NEW x \in 1..Len(b), i = m + x, r[i] = rb[x]
                  PROVE  r[i] <= r[j] /\ (c[j].key # None => r[i] < r[j])
                <5>1. x < y
                    BY <1>2, <2>5, <3>2, <4>2
                <5> QED
                    BY <2>4, <3>2, <4>2, <5>1
            <4> QED
                BY <1>4, <4>1, <4>2
        <3> QED
            BY <1>4, <3>1, <3>2
    <2> QED
        BY <2>5 DEF Rises
<1>9. ASSUME NEW n, HasKey(a, ra, n) PROVE HasKey(c, r, n)
    <2>1. PICK j \in 1..m : a[j].key # None /\ ra[j] = n
        BY <1>9 DEF HasKey, m
    <2>2. j \in 1..Len(c) /\ c[j] = a[j] /\ r[j] = ra[j]
        BY <1>2, <1>3
    <2> QED
        BY <2>1, <2>2 DEF HasKey
<1>10. ASSUME NEW n, HasKey(b, rb, n) PROVE HasKey(c, r, n)
    <2>1. PICK j \in 1..Len(b) : b[j].key # None /\ rb[j] = n
        BY <1>10 DEF HasKey
    <2>2. m + j \in 1..Len(c) /\ c[m + j] = b[j] /\ r[m + j] = rb[j]
        BY <1>2, <1>3
    <2> QED
        BY <2>1, <2>2 DEF HasKey
<1>11. Block(ps, c, r, lo, hi)
    BY <1>2, <1>3, <1>5, <1>6, <1>7, <1>8 DEF Block
<1> QED
    BY <1>9, <1>10, <1>11 DEF c, r

LEMMA RangesJoin ==
    ASSUME NEW ps, NEW lo \in Int, NEW mid \in Int, NEW hi \in Int, lo <= mid, mid <= hi,
           NEW a, NEW R, Ranges(ps, a, lo, mid, R), NEW b, NEW Q, Ranges(ps, b, mid, hi, Q)
    PROVE  Ranges(ps, a \o b, lo, hi, R \cup Q)
<1>1. PICK ra : Block(ps, a, ra, lo, mid) /\ \A n \in R : HasKey(a, ra, n)
    BY DEF Ranges
<1>2. PICK rb : Block(ps, b, rb, mid, hi) /\ \A n \in Q : HasKey(b, rb, n)
    BY DEF Ranges
<1>3. /\ Block(ps, a \o b, ra \o rb, lo, hi)
      /\ \A n : HasKey(a, ra, n) \/ HasKey(b, rb, n) => HasKey(a \o b, ra \o rb, n)
    BY <1>1, <1>2, BlocksJoin
<1>4. \A n \in R \cup Q : HasKey(a \o b, ra \o rb, n)
    BY <1>1, <1>2, <1>3
<1> QED
    BY <1>3, <1>4 DEF Ranges

LEMMA NoBlock ==
    ASSUME NEW ps, NEW lo, NEW hi
    PROVE  Ranges(ps, <<>>, lo, hi, {})
<1> DEFINE r == <<>>
<1>1. Block(ps, <<>>, r, lo, hi)
    BY DEF Block, Rises, Between
<1> QED
    BY <1>1, Zenon DEF Ranges

LEMMA CommentBlock ==
    ASSUME NEW ps, NEW lo \in Nat, NEW hi \in Int, lo <= hi
    PROVE  Ranges(ps, <<Nothing>>, lo, hi, {})
<1> DEFINE x == <<Nothing>>
           r == <<lo>>
<1>1. Nothing \in LineRows /\ Nothing.key = None /\ Nothing.item = None
    BY NothingIs
<1>2. x \in Seq(LineRows) /\ r \in Seq(Nat) /\ Len(x) = 1 /\ Len(r) = 1 /\ x[1] = Nothing /\ r[1] = lo
    BY <1>1
<1> HIDE DEF x, r
<1>3. \A j \in 1..Len(x) : x[j].key = None /\ x[j].item = None /\ r[j] = lo
    BY <1>1, <1>2
<1>4. Block(ps, x, r, lo, hi)
    BY <1>2, <1>3 DEF Block, Rises, Between, Numbered
<1> QED
    BY <1>4, Zenon DEF Ranges, x

\* A key with its items, if it has any.
LEMMA KeyBlock ==
    ASSUME NEW ps, NEW u \in Nat, NEW k \in Nat, Place(ps, u, k),
           NEW lo \in Int, NEW hi \in Int, lo < 4 * u + k, 4 * u + k <= hi,
           None \notin KeyNames,
           NEW n \in Nat, NEW x \in Seq(LineRows), Len(x) = n + 1,
           IsKey(x[1], DepthAt(u, k), KeyAt(ps, u, k)), KeyAt(ps, u, k) \in KeyNames,
           NEW d \in {0, 2}, \A j \in 1..n : IsItem(x[j + 1], DepthAt(u, k) + d),
           n = 0 \/ x[1].list = <<>>
    PROVE  Ranges(ps, x, lo, hi, {4 * u + k})
<1> DEFINE m == 4 * u + k
           r == [j \in 1..(n + 1) |-> m]
<1>1. m \in Nat
    OBVIOUS
<1> HIDE DEF m
<1>2. r \in Seq(Nat) /\ Len(r) = n + 1
    BY <1>1, FunctionIsList
<1>3. \A j \in 1..(n + 1) : r[j] = m
    OBVIOUS
<1> HIDE DEF r
<1>4. /\ x[1].item = None /\ x[1].key = KeyAt(ps, u, k) /\ x[1].indent = DepthAt(u, k)
      /\ x[1].key # None
    BY DEF IsKey
<1>5. ASSUME NEW j \in 1..(n + 1), j # 1
      PROVE  /\ x[j].item # None /\ x[j].key = None /\ x[j].indent = DepthAt(u, k) + d
             /\ j - 1 \in 1..(n + 1)
    <2>1. j - 1 \in 1..n /\ (j - 1) + 1 = j
        BY <1>5
    <2>2. IsItem(x[(j - 1) + 1], DepthAt(u, k) + d)
        BY <2>1
    <2>3. IsItem(x[j], DepthAt(u, k) + d)
        BY <2>1, <2>2
    <2> QED
        BY <2>1, <2>3 DEF IsItem
<1>6. DepthAt(u, k) \in Nat
    BY DEF DepthAt
<1>7. ASSUME NEW j \in 1..(n + 1) PROVE Numbered(ps, x[j], r[j])
    <2>1. r[j] = 4 * u + k
        BY <1>3 DEF m
    <2>2. CASE j = 1
        BY <1>4, <2>1, <2>2 DEF Numbered
    <2>3. CASE j # 1
        <3>1. /\ x[j].item # None /\ x[j].key = None
              /\ x[j].indent = DepthAt(u, k) \/ x[j].indent = DepthAt(u, k) + 2
            BY <1>5, <1>6, <2>3
        <3> QED
            BY <2>1, <3>1 DEF Numbered
    <2> QED
        BY <2>2, <2>3
<1>8. ASSUME NEW j \in 1..(n + 1), x[j].item # None PROVE Follows(x, r, j)
    <2>1. j # 1
        BY <1>4, <1>8
    <2>2. j > 1 /\ j - 1 \in 1..(n + 1) /\ x[j].indent = DepthAt(u, k) + d
        BY <1>5, <2>1
    <2>3. r[j - 1] = r[j]
        BY <1>3, <2>2
    <2>4. CASE j - 1 = 1
        <3>1. x[j - 1].key # None /\ x[j - 1].list = <<>>
            BY <1>4, <2>2, <2>4
        <3> QED
            BY <2>2, <2>3, <3>1 DEF Follows
    <2>5. CASE j - 1 # 1
        BY <1>5, <2>2, <2>3, <2>5 DEF Follows
    <2> QED
        BY <2>4, <2>5
<1>9. \A i, j \in 1..Len(x) : i < j => r[i] <= r[j] /\ (x[j].key # None => r[i] < r[j])
    <2>1. ASSUME NEW i \in 1..(n + 1), NEW j \in 1..(n + 1), i < j
          PROVE  x[j].key = None /\ r[i] <= r[j]
        <3>1. j # 1
            BY <2>1
        <3> QED
            BY <1>1, <1>3, <1>5, <3>1
    <2> QED
        BY <2>1
<1>10. lo < m /\ m <= hi
    BY DEF m
<1>11. Between(x, r, lo, hi)
    BY <1>1, <1>3, <1>10 DEF Between
<1>12. Block(ps, x, r, lo, hi)
    BY <1>2, <1>7, <1>8, <1>9, <1>11 DEF Block, Rises
<1>13. HasKey(x, r, m)
    <2>1. 1 \in 1..Len(x) /\ x[1].key # None /\ r[1] = m
        BY <1>3, <1>4
    <2> QED
        BY <2>1 DEF HasKey
<1>14. \A i \in {m} : HasKey(x, r, i)
    BY <1>13
<1> QED
    BY <1>12, <1>14, Zenon DEF Ranges, m

LEMMA KeyLineBlock ==
    ASSUME PositionAssumption, NEW ps, NEW u \in Nat, NEW k \in Nat, Place(ps, u, k),
           NEW lo \in Int, NEW hi \in Int, lo < 4 * u + k, 4 * u + k <= hi,
           KeyAt(ps, u, k) \in KeyNames, NEW list \in Seq(Names)
    PROVE  Ranges(ps, <<Key(DepthAt(u, k), KeyAt(ps, u, k), list)>>, lo, hi, {4 * u + k})
<1> DEFINE p == Key(DepthAt(u, k), KeyAt(ps, u, k), list)
           x == <<p>>
<1>1. IsKey(p, DepthAt(u, k), KeyAt(ps, u, k))
    <2>1. DepthAt(u, k) \in Nat
        BY DEF DepthAt
    <2> QED
        BY <2>1, KeyIs
<1> HIDE DEF p
<1>2. x \in Seq(LineRows) /\ Len(x) = 0 + 1 /\ x[1] = p
    BY <1>1 DEF IsKey
<1> HIDE DEF x
<1>3. None \notin KeyNames
    BY DEF PositionAssumption, KeyNames
<1>4. \A j \in 1..0 : IsItem(x[j + 1], DepthAt(u, k) + 0)
    OBVIOUS
<1> DEFINE n == 0
<1>5. Len(x) = n + 1 /\ n \in Nat /\ n = 0 /\ \A j \in 1..n : IsItem(x[j + 1], DepthAt(u, k) + 0)
    BY <1>2, <1>4
<1> HIDE DEF n
<1>6. Ranges(ps, x, lo, hi, {4 * u + k})
    BY <1>1, <1>2, <1>3, <1>5, KeyBlock
<1> QED
    BY <1>6 DEF x, p

LEMMA ListBlock ==
    ASSUME PositionAssumption, NEW ps, NEW u \in Nat, NEW k \in Nat, Place(ps, u, k),
           NEW lo \in Int, NEW hi \in Int, lo < 4 * u + k, 4 * u + k <= hi,
           KeyAt(ps, u, k) \in KeyNames, NEW list \in List, NEW layout
    PROVE  Ranges(ps, ListLines(layout, DepthAt(u, k), KeyAt(ps, u, k), list), lo, hi, {4 * u + k})
<1> DEFINE D == DepthAt(u, k)
           key == KeyAt(ps, u, k)
           d == IF layout.lists = "deeper" THEN 2 ELSE 0
<1>1. <<>> \in Seq(Names)
    OBVIOUS
<1>2. CASE list = Word \/ layout.lists = "brackets"
    <2>1. (IF list = Word THEN <<>> ELSE list) \in Seq(Names)
        BY <1>1 DEF List
    <2>2. ListLines(layout, D, key, list) = <<Key(D, key, IF list = Word THEN <<>> ELSE list)>>
        BY <1>2 DEF ListLines
    <2> QED
        BY <2>1, <2>2, KeyLineBlock
<1>3. CASE ~(list = Word \/ layout.lists = "brackets")
    <2> DEFINE p == Key(D, key, <<>>)
               n == Len(list)
               items == [j \in DOMAIN list |-> Item(D + d, list[j])]
               x == <<p>> \o items
    <2>1. list \in Seq(Names) /\ n \in Nat /\ DOMAIN list = 1..n
        BY <1>3 DEF List
    <2>2. ListLines(layout, D, key, list) = x
        BY <1>3, Zenon DEF ListLines
    <2>3. D \in Nat /\ d \in {0, 2} /\ D + d \in Nat
        BY DEF DepthAt
    <2> HIDE DEF d, n
    <2>4. IsKey(p, D, key) /\ p.list = <<>>
        <3>1. p.list = <<>>
            BY DEF Key, Nothing
        <3> QED
            BY <1>1, <2>3, <3>1, KeyIs
    <2>5. ASSUME NEW j \in 1..n
          PROVE  IsItem(Item(D + d, list[j]), D + d)
        <3>1. list[j] \in Names
            BY <2>1
        <3> QED
            BY <2>3, <3>1, ItemIs
    <2> HIDE DEF D, key
    <2>6. \A j \in 1..n : items[j] = Item(D + d, list[j])
        BY <2>1
    <2>7. items \in [1..n -> LineRows]
        BY <2>1, <2>5 DEF IsItem
    <2>8. items \in Seq(LineRows) /\ Len(items) = n
        BY <2>1, <2>7, FunctionIsList
    <2> HIDE DEF items, p
    <2>9. <<p>> \in Seq(LineRows) /\ Len(<<p>>) = 1 /\ <<p>>[1] = p
        BY <2>4 DEF IsKey
    <2>10. /\ x \in Seq(LineRows) /\ Len(x) = 1 + n /\ x[1] = p
           /\ \A j \in 1..n : x[1 + j] = items[j]
        <3> DEFINE q == <<p>>
        <3>1. q \in Seq(LineRows) /\ Len(q) = 1 /\ q[1] = p
            BY <2>9
        <3> HIDE DEF q
        <3> DEFINE y == q \o items
        <3>2. /\ y \in Seq(LineRows) /\ Len(y) = Len(q) + Len(items)
              /\ \A i \in 1..Len(q) : y[i] = q[i]
              /\ \A j \in 1..Len(items) : y[Len(q) + j] = items[j]
            <4>1. q \in Seq(LineRows) /\ items \in Seq(LineRows)
                BY <2>8, <3>1
            <4> QED
                BY <4>1, Joined
        <3> HIDE DEF y
        <3>3. y \in Seq(LineRows) /\ Len(y) = 1 + n /\ y[1] = p /\ \A j \in 1..n : y[1 + j] = items[j]
            BY <2>8, <3>1, <3>2
        <3>4. x = y
            BY DEF y, q
        <3> HIDE DEF x
        <3> QED
            BY <3>3, <3>4
    <2> HIDE DEF x
    <2>11. \A j \in 1..n : IsItem(x[j + 1], D + d)
        <3>1. ASSUME NEW j \in 1..n PROVE x[j + 1] = Item(D + d, list[j])
            BY <2>1, <2>6, <2>10, j + 1 = 1 + j
        <3> QED
            BY <2>5, <3>1
    <2>12. None \notin KeyNames
        BY DEF PositionAssumption, KeyNames
    <2>13. Len(x) = n + 1
        BY <2>1, <2>10
    <2>14. IsKey(x[1], DepthAt(u, k), KeyAt(ps, u, k)) /\ x[1].list = <<>>
        BY <2>4, <2>10 DEF D, key
    <2>15. \A j \in 1..n : IsItem(x[j + 1], DepthAt(u, k) + d)
        BY <2>11 DEF D
    <2>16. Ranges(ps, x, lo, hi, {4 * u + k})
        BY <2>1, <2>3, <2>10, <2>12, <2>13, <2>14, <2>15, KeyBlock
    <2> QED
        BY <2>2, <2>16 DEF D, key
<1> QED
    BY <1>2, <1>3

LEMMA RangesAreRows ==
    ASSUME NEW ps, NEW x, NEW lo, NEW hi, NEW R, Ranges(ps, x, lo, hi, R)
    PROVE  x \in Seq(LineRows)
BY DEF Ranges, Block

\* The lists that a pipeline has lines for.
ListsOf(p) == IF p.body = None THEN {} ELSE {k \in 1..3 : p.body[StageAt(k)] # <<>>}
KeysOf(ps, i) == {4 * i} \cup {4 * i + k : k \in ListsOf(ps[i])}

LEMMA ListsBlock ==
    ASSUME PositionAssumption, NEW ps \in Seq(Pipeline), NEW i \in 1..Len(ps), NEW layout,
           ps[i].body # None
    PROVE  Ranges(ps, FlattenSeq([k \in 1..3 |->
                          LET s == <<"receivers", "processors", "exporters">>[k]
                          IN IF ps[i].body[s] = <<>> THEN <<>>
                             ELSE ListLines(layout, 6, s, ps[i].body[s])]),
                  4 * i, 4 * i + 3, {4 * i + k : k \in ListsOf(ps[i])})
<1> DEFINE body == ps[i].body
           b(k) == IF body[StageAt(k)] = <<>> THEN <<>>
                   ELSE ListLines(layout, 6, StageAt(k), body[StageAt(k)])
           lists == [k \in 1..3 |-> b(k)]
           R(k) == IF body[StageAt(k)] = <<>> THEN {} ELSE {4 * i + k}
<1>1. ps[i] \in Pipeline
    OBVIOUS
<1>2. body \in [Stages -> List]
    BY <1>1 DEF Pipeline
<1>3. \A k \in 1..3 : StageAt(k) \in Stages /\ StageAt(k) \in KeyNames
    BY DEF StageAt, Stages, KeyNames, Sections
<1>4. i \in Nat /\ i # 0 /\ Len(ps) \in Nat
    OBVIOUS
<1> HIDE DEF body
<1>5. ASSUME NEW k \in 1..3
      PROVE  Ranges(ps, b(k), 4 * i + (k - 1), 4 * i + k, R(k))
    <2>1. CASE body[StageAt(k)] = <<>>
        <3>1. b(k) = <<>> /\ R(k) = {}
            BY <2>1
        <3> HIDE DEF b, R
        <3> QED
            BY <3>1, NoBlock
    <2>2. CASE body[StageAt(k)] # <<>>
        <3>1. Place(ps, i, k)
            BY <1>4 DEF Place
        <3>2. KeyAt(ps, i, k) = StageAt(k) /\ DepthAt(i, k) = 6
            BY <1>4 DEF KeyAt, DepthAt
        <3>3. body[StageAt(k)] \in List
            BY <1>2, <1>3
        <3>4. /\ 4 * i + (k - 1) \in Int /\ 4 * i + k \in Int /\ 4 * i + (k - 1) < 4 * i + k
              /\ 4 * i + k <= 4 * i + k
            BY <1>4
        <3>5. Ranges(ps, ListLines(layout, DepthAt(i, k), KeyAt(ps, i, k), body[StageAt(k)]),
                     4 * i + (k - 1), 4 * i + k, {4 * i + k})
            BY <1>3, <1>4, <3>1, <3>2, <3>3, <3>4, ListBlock
        <3> QED
            BY <2>2, <3>2, <3>5
    <2> QED
        BY <2>1, <2>2
<1> HIDE DEF b, R
<1>6. lists \in [1..3 -> Seq(LineRows)]
    BY <1>5, RangesAreRows
<1>7. PICK f : Flat(f, lists, 3)
    BY <1>6, FlattenIs
<1>8. lists[1] = b(1) /\ lists[2] = b(2) /\ lists[3] = b(3)
    OBVIOUS
<1> HIDE DEF lists
<1>9. /\ f[0] = <<>> /\ f[1] = f[0] \o b(1) /\ f[2] = f[1] \o b(2) /\ f[3] = f[2] \o b(3)
      /\ f[3] = FlattenSeq(lists)
    <2>1. f[0] = <<>> /\ f[3] = FlattenSeq(lists) /\ \A k \in 1..3 : f[k] = f[k - 1] \o lists[k]
        BY <1>7, Zenon DEF Flat
    <2>2. /\ 1 \in 1..3 /\ 2 \in 1..3 /\ 3 \in 1..3
          /\ f[1 - 1] = f[0] /\ f[2 - 1] = f[1] /\ f[3 - 1] = f[2]
        OBVIOUS
    <2>3. f[1] = f[1 - 1] \o lists[1] /\ f[2] = f[2 - 1] \o lists[2] /\ f[3] = f[3 - 1] \o lists[3]
        BY <2>1, <2>2, Zenon
    <2> QED
        BY <1>8, <2>1, <2>2, <2>3, Zenon
<1>10. 4 * i \in Int /\ 4 * i + 1 \in Int /\ 4 * i + 2 \in Int /\ 4 * i + 3 \in Int
    BY <1>4
<1>11. Ranges(ps, f[0], 4 * i, 4 * i, {})
    BY <1>9, NoBlock
<1>12. /\ Ranges(ps, b(1), 4 * i, 4 * i + 1, R(1))
       /\ Ranges(ps, b(2), 4 * i + 1, 4 * i + 2, R(2))
       /\ Ranges(ps, b(3), 4 * i + 2, 4 * i + 3, R(3))
    <2>1. 4 * i + (1 - 1) = 4 * i /\ 4 * i + (2 - 1) = 4 * i + 1 /\ 4 * i + (3 - 1) = 4 * i + 2
        BY <1>4
    <2>2. 1 \in 1..3 /\ 2 \in 1..3 /\ 3 \in 1..3
        OBVIOUS
    <2> QED
        BY <1>5, <2>1, <2>2
<1>13. Ranges(ps, f[1], 4 * i, 4 * i + 1, {} \cup R(1))
    BY <1>9, <1>10, <1>11, <1>12, RangesJoin
<1>14. Ranges(ps, f[2], 4 * i, 4 * i + 2, ({} \cup R(1)) \cup R(2))
    BY <1>9, <1>10, <1>12, <1>13, RangesJoin
<1>15. Ranges(ps, f[3], 4 * i, 4 * i + 3, (({} \cup R(1)) \cup R(2)) \cup R(3))
    BY <1>9, <1>10, <1>12, <1>14, RangesJoin
<1>16. (({} \cup R(1)) \cup R(2)) \cup R(3) = {4 * i + k : k \in ListsOf(ps[i])}
    <2>1. ListsOf(ps[i]) = {k \in 1..3 : body[StageAt(k)] # <<>>}
        BY DEF ListsOf, body
    <2>2. \A n : n \in {4 * i + k : k \in ListsOf(ps[i])} <=>
                    \E k \in 1..3 : body[StageAt(k)] # <<>> /\ n = 4 * i + k
        BY <2>1
    <2>3. \A n, k : n \in R(k) <=> body[StageAt(k)] # <<>> /\ n = 4 * i + k
        BY DEF R
    <2>4. \A k : k \in 1..3 <=> k = 1 \/ k = 2 \/ k = 3
        OBVIOUS
    <2> QED
        BY <2>2, <2>3, <2>4
<1>17. Ranges(ps, FlattenSeq(lists), 4 * i, 4 * i + 3, {4 * i + k : k \in ListsOf(ps[i])})
    BY <1>9, <1>15, <1>16
<1> QED
    BY <1>17 DEF lists, b, body, StageAt

LEMMA PipelineBlock ==
    ASSUME PositionAssumption, NEW ps \in Seq(Pipeline), NEW i \in 1..Len(ps), NEW layout
    PROVE  Ranges(ps, (IF layout.commented THEN <<Nothing>> ELSE <<>>) \o PipelineLines(layout, ps[i]),
                  4 * i - 1, 4 * i + 3, KeysOf(ps, i))
<1> DEFINE C == IF layout.commented THEN <<Nothing>> ELSE <<>>
           K == <<Key(4, ps[i].name, <<>>)>>
           body == FlattenSeq([k \in 1..3 |->
                       LET s == <<"receivers", "processors", "exporters">>[k]
                       IN IF ps[i].body[s] = <<>> THEN <<>>
                          ELSE ListLines(layout, 6, s, ps[i].body[s])])
           B == IF ps[i].body = None THEN <<>> ELSE body
           R == {4 * i + k : k \in ListsOf(ps[i])}
<1>1. PipelineLines(layout, ps[i]) = K \o B
    BY Zenon DEF PipelineLines
<1>2. i \in Nat /\ i # 0 /\ Len(ps) \in Nat /\ 4 * i - 1 \in Nat /\ 4 * i \in Nat
    OBVIOUS
<1>3. Ranges(ps, C, 4 * i - 1, 4 * i - 1, {})
    <2>1. 4 * i - 1 <= 4 * i - 1 /\ 4 * i - 1 \in Int
        BY <1>2
    <2> QED
        BY <1>2, <2>1, CommentBlock, NoBlock
<1>4. Ranges(ps, K, 4 * i - 1, 4 * i, {4 * i})
    <2>1. Place(ps, i, 0)
        BY <1>2 DEF Place
    <2>2. KeyAt(ps, i, 0) = ps[i].name /\ DepthAt(i, 0) = 4
        BY <1>2 DEF KeyAt, DepthAt
    <2>3. ps[i].name \in KeyNames
        <3>1. ps[i] \in Pipeline
            OBVIOUS
        <3> QED
            BY <3>1 DEF Pipeline, KeyNames
    <2>4. 4 * i + 0 = 4 * i /\ 4 * i - 1 \in Int /\ 4 * i \in Int /\ 4 * i - 1 < 4 * i + 0 /\ 4 * i + 0 <= 4 * i
        BY <1>2
    <2>5. <<>> \in Seq(Names) /\ 0 \in Nat
        OBVIOUS
    <2>6. Ranges(ps, <<Key(DepthAt(i, 0), KeyAt(ps, i, 0), <<>>)>>, 4 * i - 1, 4 * i, {4 * i + 0})
        BY <1>2, <2>1, <2>2, <2>3, <2>4, <2>5, KeyLineBlock
    <2> QED
        BY <2>2, <2>4, <2>6
<1>5. Ranges(ps, B, 4 * i, 4 * i + 3, R)
    <2>1. CASE ps[i].body = None
        <3>1. B = <<>> /\ R = {}
            BY <2>1 DEF ListsOf
        <3> HIDE DEF B, R
        <3> QED
            BY <3>1, NoBlock
    <2>2. CASE ps[i].body # None
        <3>1. B = body
            BY <2>2
        <3>2. Ranges(ps, body, 4 * i, 4 * i + 3, R)
            BY <2>2, ListsBlock
        <3> HIDE DEF B, R, body
        <3> QED
            BY <3>1, <3>2
    <2> QED
        BY <2>1, <2>2
<1> HIDE DEF C, K, B, R, body
<1>6. /\ 4 * i - 1 \in Int /\ 4 * i \in Int /\ 4 * i + 3 \in Int /\ 4 * i - 1 <= 4 * i - 1
      /\ 4 * i - 1 <= 4 * i /\ 4 * i <= 4 * i + 3 /\ 4 * i - 1 <= 4 * i + 3
    BY <1>2
<1>7. Ranges(ps, K \o B, 4 * i - 1, 4 * i + 3, {4 * i} \cup R)
    BY <1>4, <1>5, <1>6, RangesJoin
<1>8. Ranges(ps, C \o (K \o B), 4 * i - 1, 4 * i + 3, {} \cup ({4 * i} \cup R))
    BY <1>3, <1>6, <1>7, RangesJoin
<1>9. {} \cup ({4 * i} \cup R) = KeysOf(ps, i)
    BY DEF KeysOf, R
<1> QED
    BY <1>1, <1>8, <1>9 DEF C

\* The lines of the pipelines.
AllPipelines(t, layout) ==
    FlattenSeq([i \in DOMAIN t.pipelines |->
        (IF layout.commented THEN <<Nothing>> ELSE <<>>) \o PipelineLines(layout, t.pipelines[i])])

KeysUpTo(ps, n) == UNION {KeysOf(ps, i) : i \in 1..n}

LEMMA PipelinesBlock ==
    ASSUME PositionAssumption, NEW t, t.pipelines \in Seq(Pipeline), NEW layout
    PROVE  Ranges(t.pipelines, AllPipelines(t, layout), 3, 4 * Len(t.pipelines) + 3,
                  KeysUpTo(t.pipelines, Len(t.pipelines)))
<1> DEFINE ps == t.pipelines
           N == Len(ps)
           b(i) == (IF layout.commented THEN <<Nothing>> ELSE <<>>) \o PipelineLines(layout, ps[i])
           blocks == [i \in DOMAIN ps |-> b(i)]
<1>1. N \in Nat /\ DOMAIN ps = 1..N /\ ps \in Seq(Pipeline)
    OBVIOUS
<1>2. \A i \in 1..N : Ranges(ps, b(i), 4 * i - 1, 4 * i + 3, KeysOf(ps, i))
    BY <1>1, PipelineBlock
<1> HIDE DEF b, ps, N
<1>3. blocks \in [1..N -> Seq(LineRows)]
    <2>1. \A i \in 1..N : b(i) \in Seq(LineRows)
        BY <1>2, RangesAreRows
    <2> QED
        BY <1>1, <2>1
<1>4. PICK f : Flat(f, blocks, N)
    BY <1>1, <1>3, FlattenIs
<1>5. \A i \in 1..N : blocks[i] = b(i)
    BY <1>1
<1> HIDE DEF blocks
<1> DEFINE P == {n \in Nat : n <= N => Ranges(ps, f[n], 3, 4 * n + 3, KeysUpTo(ps, n))}
<1>6. 0 \in P
    <2>1. f[0] = <<>>
        BY <1>4 DEF Flat
    <2>2. KeysUpTo(ps, 0) = {}
        BY DEF KeysUpTo
    <2>3. Ranges(ps, f[0], 3, 4 * 0 + 3, KeysUpTo(ps, 0))
        BY <2>1, <2>2, NoBlock
    <2> QED
        BY <2>3
<1>7. ASSUME NEW n \in Nat, n \in P PROVE n + 1 \in P
    <2> SUFFICES ASSUME n + 1 <= N
                 PROVE  Ranges(ps, f[n + 1], 3, 4 * (n + 1) + 3, KeysUpTo(ps, n + 1))
        OBVIOUS
    <2>1. Ranges(ps, f[n], 3, 4 * n + 3, KeysUpTo(ps, n))
        BY <1>1, <1>7
    <2>2. n + 1 \in 1..N /\ (n + 1) - 1 = n /\ 4 * (n + 1) - 1 = 4 * n + 3
        BY <1>1
    <2>3. f[n + 1] = f[n] \o b(n + 1)
        BY <1>4, <1>5, <2>2 DEF Flat
    <2>4. Ranges(ps, b(n + 1), 4 * n + 3, 4 * (n + 1) + 3, KeysOf(ps, n + 1))
        BY <1>2, <2>2
    <2>5. /\ 3 \in Int /\ 4 * n + 3 \in Int /\ 4 * (n + 1) + 3 \in Int /\ 3 <= 4 * n + 3
          /\ 4 * n + 3 <= 4 * (n + 1) + 3
        OBVIOUS
    <2>6. Ranges(ps, f[n] \o b(n + 1), 3, 4 * (n + 1) + 3, KeysUpTo(ps, n) \cup KeysOf(ps, n + 1))
        BY <2>1, <2>4, <2>5, RangesJoin
    <2>7. KeysUpTo(ps, n) \cup KeysOf(ps, n + 1) = KeysUpTo(ps, n + 1)
        <3>1. \A i : i \in 1..(n + 1) <=> i \in 1..n \/ i = n + 1
            OBVIOUS
        <3> QED
            BY <3>1 DEF KeysUpTo
    <2> QED
        BY <2>3, <2>6, <2>7
<1> HIDE DEF P
<1>8. N \in P
    BY <1>1, <1>6, <1>7, AllNumbers
<1>9. Ranges(ps, f[N], 3, 4 * N + 3, KeysUpTo(ps, N))
    BY <1>1, <1>8 DEF P
<1>10. f[N] = FlattenSeq(blocks)
    BY <1>4 DEF Flat
<1> QED
    BY <1>9, <1>10, Zenon DEF AllPipelines, blocks, b, ps, N

\* The keys that the service of a text has.
ServiceKeys(t) ==
    ({0, 2} \cup (IF t.uses = {} THEN {} ELSE {1})) \cup KeysUpTo(t.pipelines, Len(t.pipelines))

LEMMA ServiceBlock ==
    ASSUME PositionAssumption, NEW t \in Mapping, t.pipelines \in Seq(Pipeline), NEW layout
    PROVE  Ranges(t.pipelines, ServiceLines(t, layout), -1, 4 * Len(t.pipelines) + 3, ServiceKeys(t))
<1> DEFINE ps == t.pipelines
           N == Len(ps)
           K == <<Key(0, "service", <<>>)>>
           E == IF t.uses = {} THEN <<>> ELSE ListLines(layout, 2, "extensions", SetToSeq(t.uses))
           L == <<Key(2, "pipelines", <<>>)>>
           A == AllPipelines(t, layout)
           X == IF t.uses = {} THEN {} ELSE {1}
           U == KeysUpTo(ps, N)
<1>1. ServiceLines(t, layout) = ((K \o E) \o L) \o A
    BY Zenon DEF ServiceLines, AllPipelines
<1>2. N \in Nat
    OBVIOUS
<1>3. Ranges(ps, A, 3, 4 * N + 3, U)
    BY PipelinesBlock
<1>4. t.uses \in SUBSET Names
    BY DEF Mapping
<1> HIDE DEF ps, N, A, U
<1>5. /\ Place(ps, 0, 0) /\ Place(ps, 0, 1) /\ Place(ps, 0, 2)
    <2>1. 0 \in 0..N
        BY <1>2
    <2> QED
        BY <2>1 DEF Place, N
<1>6. /\ KeyAt(ps, 0, 0) = "service" /\ KeyAt(ps, 0, 1) = "extensions" /\ KeyAt(ps, 0, 2) = "pipelines"
      /\ DepthAt(0, 0) = 0 /\ DepthAt(0, 1) = 2 /\ DepthAt(0, 2) = 2
    BY DEF KeyAt, DepthAt
<1>7. {"service", "extensions", "pipelines"} \subseteq KeyNames
    BY DEF KeyNames, Sections, Settings
<1>8. <<>> \in Seq(Names) /\ -1 \in Int /\ 0 \in Nat
    OBVIOUS
<1>9. Ranges(ps, K, -1, 0, {0})
    <2> DEFINE lo == -1
    <2>1. lo < 4 * 0 + 0 /\ 4 * 0 + 0 <= 0 /\ 4 * 0 + 0 = 0 /\ lo \in Int /\ 0 \in Int
        OBVIOUS
    <2> HIDE DEF lo
    <2>2. Ranges(ps, <<Key(DepthAt(0, 0), KeyAt(ps, 0, 0), <<>>)>>, lo, 0, {4 * 0 + 0})
        BY <1>5, <1>6, <1>7, <1>8, <2>1, KeyLineBlock
    <2> QED
        BY <1>6, <2>1, <2>2 DEF lo
<1>10. Ranges(ps, L, 1, 3, {2})
    <2>1. 1 < 4 * 0 + 2 /\ 4 * 0 + 2 <= 3 /\ 4 * 0 + 2 = 2 /\ 1 \in Int /\ 3 \in Int /\ 2 \in Nat
        OBVIOUS
    <2>2. Ranges(ps, <<Key(DepthAt(0, 2), KeyAt(ps, 0, 2), <<>>)>>, 1, 3, {4 * 0 + 2})
        BY <1>5, <1>6, <1>7, <1>8, <2>1, KeyLineBlock
    <2> QED
        BY <1>6, <2>1, <2>2
<1>11. Ranges(ps, E, 0, 1, X)
    <2>1. CASE t.uses = {}
        <3>1. E = <<>> /\ X = {}
            BY <2>1
        <3> HIDE DEF E, X
        <3> QED
            BY <3>1, NoBlock
    <2>2. CASE t.uses # {}
        <3>1. IsFiniteSet(t.uses)
            BY <1>4, FS_Subset DEF PositionAssumption
        <3>2. SetToSeq(t.uses) \in Seq(t.uses)
            BY <3>1, SetToSeqIs
        <3>3. SetToSeq(t.uses) \in List
            BY <1>4, <3>2 DEF List
        <3>4. 0 < 4 * 0 + 1 /\ 4 * 0 + 1 <= 1 /\ 4 * 0 + 1 = 1 /\ 0 \in Int /\ 1 \in Int /\ 1 \in Nat
            OBVIOUS
        <3>5. Ranges(ps, ListLines(layout, DepthAt(0, 1), KeyAt(ps, 0, 1), SetToSeq(t.uses)), 0, 1,
                     {4 * 0 + 1})
            BY <1>5, <1>6, <1>7, <1>8, <3>3, <3>4, ListBlock
        <3> QED
            BY <1>6, <2>2, <3>4, <3>5
    <2> QED
        BY <2>1, <2>2
<1> HIDE DEF K, E, L, X
<1>12. /\ 0 \in Int /\ 1 \in Int /\ 3 \in Int /\ 4 * N + 3 \in Int
       /\ -1 <= 0 /\ 0 <= 1 /\ -1 <= 1 /\ 1 <= 3 /\ -1 <= 3 /\ 3 <= 4 * N + 3
    BY <1>2
<1>13. Ranges(ps, K \o E, -1, 1, {0} \cup X)
    BY <1>8, <1>9, <1>11, <1>12, RangesJoin
<1>14. Ranges(ps, (K \o E) \o L, -1, 3, ({0} \cup X) \cup {2})
    BY <1>8, <1>10, <1>12, <1>13, RangesJoin
<1>15. Ranges(ps, ((K \o E) \o L) \o A, -1, 4 * N + 3, (({0} \cup X) \cup {2}) \cup U)
    BY <1>3, <1>8, <1>12, <1>14, RangesJoin
<1>16. (({0} \cup X) \cup {2}) \cup U = ServiceKeys(t)
    BY DEF ServiceKeys, X, U, ps, N
<1> QED
    BY <1>1, <1>15, <1>16 DEF ps, N

\* The lines from a to b are those of a service with the keys R, with the numbers
\* r; the others are those of sections.
Service(ps, R, L, a, b, r) ==
    /\ L \in Seq(LineRows) /\ a \in Nat /\ b \in Nat /\ 1 <= a /\ b <= Len(L)
    /\ \A j \in a..b : r[j] \in Nat /\ Numbered(ps, L[j], r[j])
    /\ \A i, j \in a..b : i < j => r[i] <= r[j] /\ (L[j].key # None => r[i] < r[j])
    /\ \A j \in a..b : L[j].item # None => j - 1 \in a..b /\ Follows(L, r, j)
    /\ \A j \in 1..Len(L) : j \notin a..b => SectionLine(L, j)
    /\ \A n \in R : \E j \in a..b : L[j].key # None /\ r[j] = n

LEMMA ServiceAt ==
    ASSUME NEW ps, NEW lo, NEW hi, NEW R, NEW V, NEW rv, Block(ps, V, rv, lo, hi),
           \A n \in R : HasKey(V, rv, n),
           NEW L \in Seq(LineRows), NEW o \in Nat, o + Len(V) <= Len(L),
           \A i \in 1..Len(V) : L[o + i] = V[i],
           \A j \in 1..Len(L) : j <= o \/ j > o + Len(V) => SectionLine(L, j)
    PROVE  \E r : Service(ps, R, L, o + 1, o + Len(V), r)
<1> DEFINE m == Len(V)
           a == o + 1
           b == o + m
           r == [j \in a..b |-> rv[j - o]]
<1>1. /\ V \in Seq(LineRows) /\ rv \in Seq(Nat) /\ Len(rv) = m
      /\ \A j \in 1..m : Numbered(ps, V[j], rv[j])
      /\ \A j \in 1..m : V[j].item # None => Follows(V, rv, j)
      /\ \A i, j \in 1..m : i < j => rv[i] <= rv[j] /\ (V[j].key # None => rv[i] < rv[j])
    BY DEF Block, Rises
<1>2. m \in Nat /\ a \in Nat /\ b \in Nat /\ 1 <= a /\ b <= Len(L)
    BY <1>1
<1>3. ASSUME NEW j \in a..b
      PROVE  j - o \in 1..m /\ L[j] = V[j - o] /\ r[j] = rv[j - o] /\ rv[j - o] \in Nat
    <2>1. j - o \in 1..m /\ o + (j - o) = j
        BY <1>2
    <2>2. L[o + (j - o)] = V[j - o]
        BY <2>1
    <2>3. rv[j - o] \in Nat
        BY <1>1, <2>1
    <2> QED
        BY <2>1, <2>2, <2>3
<1>4. \A i \in 1..m : o + i \in a..b /\ (o + i) - o = i
    BY <1>2
<1> HIDE DEF r, m, a, b
<1>5. \A j \in a..b : r[j] \in Nat /\ Numbered(ps, L[j], r[j])
    BY <1>1, <1>3
<1>6. ASSUME NEW i \in a..b, NEW j \in a..b, i < j
      PROVE  r[i] <= r[j] /\ (L[j].key # None => r[i] < r[j])
    <2>1. i - o \in 1..m /\ j - o \in 1..m /\ i - o < j - o
        BY <1>2, <1>3, <1>6
    <2>2. rv[i - o] <= rv[j - o] /\ (V[j - o].key # None => rv[i - o] < rv[j - o])
        BY <1>1, <2>1
    <2>3. r[i] = rv[i - o] /\ r[j] = rv[j - o] /\ L[j] = V[j - o]
        BY <1>3
    <2> QED
        BY <2>2, <2>3
<1>7. ASSUME NEW j \in a..b, L[j].item # None PROVE j - 1 \in a..b /\ Follows(L, r, j)
    <2> DEFINE i == j - o
    <2>1. i \in 1..m /\ L[j] = V[i] /\ r[j] = rv[i]
        BY <1>3
    <2>2. Follows(V, rv, i)
        BY <1>1, <1>7, <2>1
    <2>3. i > 1 /\ i - 1 \in 1..m
        <3> HIDE DEF i
        <3> QED
            BY <1>2, <2>1, <2>2 DEF Follows
    <2>4. j - 1 \in a..b /\ (j - 1) - o = i - 1 /\ j > 1
        BY <1>2, <2>3 DEF a, b
    <2>5. L[j - 1] = V[i - 1] /\ r[j - 1] = rv[i - 1]
        BY <1>3, <2>4
    <2> HIDE DEF i
    <2> QED
        BY <2>1, <2>2, <2>4, <2>5 DEF Follows
<1>8. ASSUME NEW j \in 1..Len(L), j \notin a..b PROVE SectionLine(L, j)
    <2>1. j <= o \/ j > o + Len(V)
        BY <1>2, <1>8 DEF a, b, m
    <2> QED
        BY <2>1
<1>9. ASSUME NEW n \in R PROVE \E j \in a..b : L[j].key # None /\ r[j] = n
    <2>1. PICK i \in 1..m : V[i].key # None /\ rv[i] = n
        BY <1>9 DEF HasKey, m
    <2>2. o + i \in a..b /\ L[o + i] = V[i] /\ r[o + i] = rv[i]
        BY <1>3, <1>4
    <2> QED
        BY <2>1, <2>2
<1>10. Service(ps, R, L, a, b, r)
    BY <1>2, <1>5, <1>6, <1>7, <1>8, <1>9 DEF Service
<1> QED
    BY <1>10 DEF a, b, m

LEMMA LinesAre ==
    ASSUME PositionAssumption, NEW t \in Mapping, t.pipelines \in Seq(Pipeline), NEW layout \in Layouts
    PROVE  \E a, b, r : /\ Service(t.pipelines, ServiceKeys(t), Lines(t, layout), a, b, r)
                        /\ a = 1 \/ b = Len(Lines(t, layout))
<1> DEFINE V == ServiceLines(t, layout)
           S == AllSections(t, layout)
           ps == t.pipelines
           lo == -1
           hi == 4 * Len(ps) + 3
           R == ServiceKeys(t)
<1>1. Lines(t, layout) = IF layout.first THEN V \o S ELSE S \o V
    BY Zenon DEF Lines, AllSections
<1>2. S \in OfSections
    BY AllSectionsAre
<1>3. Ranges(ps, V, lo, hi, R)
    BY ServiceBlock
<1> HIDE DEF V, S, ps, lo, hi, R
<1>4. PICK rv : Block(ps, V, rv, lo, hi) /\ \A n \in R : HasKey(V, rv, n)
    BY <1>3 DEF Ranges
<1>5. V \in Seq(LineRows) /\ S \in Seq(LineRows) /\ \A j \in 1..Len(S) : SectionLine(S, j)
    BY <1>2, <1>4 DEF Block, OfSections
<1>6. CASE layout.first
    <2> DEFINE L == V \o S
    <2>1. /\ L \in Seq(LineRows) /\ Len(L) = Len(V) + Len(S) /\ Len(V) \in Nat /\ Len(S) \in Nat
          /\ \A i \in 1..Len(V) : L[i] = V[i]
          /\ \A i \in 1..Len(S) : L[Len(V) + i] = S[i]
        BY <1>5, Joined
    <2> HIDE DEF L
    <2>2. ASSUME NEW j \in 1..Len(L), j <= 0 \/ j > 0 + Len(V) PROVE SectionLine(L, j)
        <3> DEFINE i == j - Len(V)
        <3>1. i \in 1..Len(S) /\ j = Len(V) + i /\ j > 0
            BY <2>1, <2>2
        <3>2. i > 1 => i - 1 \in 1..Len(S) /\ j - 1 = Len(V) + (i - 1) /\ j > 1
            BY <2>1, <3>1
        <3> HIDE DEF i
        <3>3. SectionLine(S, i) /\ L[j] = S[i] /\ (i > 1 => L[j - 1] = S[i - 1] /\ j > 1)
            BY <1>5, <2>1, <3>1, <3>2
        <3> QED
            BY <3>3 DEF SectionLine
    <2>3. \A i \in 1..Len(V) : L[0 + i] = V[i]
        BY <2>1
    <2>4. 0 + Len(V) <= Len(L) /\ 0 \in Nat
        BY <2>1
    <2> DEFINE o == 0
    <2>5. o + Len(V) <= Len(L) /\ o \in Nat /\ \A i \in 1..Len(V) : L[o + i] = V[i]
        BY <2>3, <2>4
    <2>6. \A j \in 1..Len(L) : j <= o \/ j > o + Len(V) => SectionLine(L, j)
        BY <2>2
    <2>7. L = Lines(t, layout) /\ o + 1 = 1
        BY <1>1, <1>6 DEF L
    <2> HIDE DEF o
    <2>8. \E r : Service(ps, R, L, o + 1, o + Len(V), r)
        BY <1>4, <2>1, <2>5, <2>6, ServiceAt
    <2> QED
        BY <2>7, <2>8 DEF ps, R
<1>7. CASE ~layout.first
    <2> DEFINE L == S \o V
    <2>1. /\ L \in Seq(LineRows) /\ Len(L) = Len(S) + Len(V) /\ Len(V) \in Nat /\ Len(S) \in Nat
          /\ \A i \in 1..Len(S) : L[i] = S[i]
          /\ \A i \in 1..Len(V) : L[Len(S) + i] = V[i]
        BY <1>5, Joined
    <2> HIDE DEF L
    <2> DEFINE o == Len(S)
    <2>2. ASSUME NEW j \in 1..Len(L), j <= o \/ j > o + Len(V) PROVE SectionLine(L, j)
        <3>1. j \in 1..Len(S) /\ (j > 1 => j - 1 \in 1..Len(S))
            BY <2>1, <2>2
        <3>3. SectionLine(S, j) /\ L[j] = S[j] /\ (j > 1 => L[j - 1] = S[j - 1])
            BY <1>5, <2>1, <3>1
        <3> QED
            BY <3>3 DEF SectionLine
    <2>3. o + Len(V) <= Len(L) /\ o \in Nat /\ o + Len(V) = Len(L)
        BY <2>1
    <2>4. \A i \in 1..Len(V) : L[o + i] = V[i]
        BY <2>1
    <2> HIDE DEF o
    <2>5. \E r : Service(ps, R, L, o + 1, o + Len(V), r)
        BY <1>4, <2>1, <2>2, <2>3, <2>4, ServiceAt
    <2>6. L = Lines(t, layout)
        BY <1>1, <1>7 DEF L
    <2> QED
        BY <2>3, <2>5, <2>6 DEF ps, R
<1> QED
    BY <1>6, <1>7

\* The nearest of some lines, which is there if any is.
LEMMA NearestExists ==
    ASSUME NEW n \in Nat
    PROVE  \A S \in SUBSET (1..n) : S # {} => \E m \in S : \A y \in S : m >= y
<1> DEFINE P == {i \in Nat : \A S \in SUBSET (1..i) : S # {} => \E m \in S : \A y \in S : m >= y}
<1>1. 0 \in P
    <2>1. \A i : i \notin 1..0
        OBVIOUS
    <2>2. \A S \in SUBSET (1..0) : S = {}
        BY <2>1
    <2> QED
        BY <2>2
<1>2. ASSUME NEW i \in Nat, i \in P PROVE i + 1 \in P
    <2>1. ASSUME NEW S \in SUBSET (1..(i + 1)), S # {}
          PROVE  \E m \in S : \A y \in S : m >= y
        <3>1. CASE i + 1 \in S
            BY <3>1
        <3>2. CASE i + 1 \notin S
            <4>1. S \in SUBSET (1..i)
                BY <3>2
            <4> QED
                BY <1>2, <2>1, <4>1
        <3> QED
            BY <3>1, <3>2
    <2> QED
        BY <2>1
<1> HIDE DEF P
<1>3. n \in P
    BY <1>1, <1>2, AllNumbers
<1> QED
    BY <1>3 DEF P

LEMMA MaxIs ==
    ASSUME NEW S \in SUBSET Int, NEW m \in S, \A y \in S : y <= m
    PROVE  Max(S) = m
<1>1. \A x \in S : (\A y \in S : x >= y) => x = m
    OBVIOUS
<1>2. \A y \in S : m >= y
    OBVIOUS
<1> QED
    BY <1>1, <1>2 DEF Max

LEMMA MinIs ==
    ASSUME NEW n \in Nat, NEW S \in SUBSET (1..n), S # {}
    PROVE  Min(S) \in S
<1> DEFINE T == {n + 1 - x : x \in S}
<1>1. T \in SUBSET (1..n) /\ T # {}
    <2>1. ASSUME NEW x \in S PROVE n + 1 - x \in 1..n
        <3>1. x \in 1..n
            OBVIOUS
        <3> QED
            BY <3>1
    <2> QED
        BY <2>1
<1>2. PICK z \in T : \A y \in T : z >= y
    BY <1>1, NearestExists
<1>3. PICK m \in S : z = n + 1 - m
    BY <1>2
<1>4. \A y \in S : m <= y
    <2>1. ASSUME NEW y \in S PROVE m <= y
        <3>1. n + 1 - y \in T
            OBVIOUS
        <3>2. n + 1 - m >= n + 1 - y
            BY <1>2, <1>3, <3>1
        <3> HIDE DEF T
        <3> QED
            BY <3>2
    <2> QED
        BY <2>1
<1> HIDE DEF T
<1> QED
    BY <1>4 DEF Min

-----------------------------------------------------------------------------
(* The keys that a line lies under                                         *)

Nearest(lines, j) == IF Above(lines, j) = {} THEN 0 ELSE Max(Above(lines, j))

LEMMA NearestIs ==
    ASSUME NEW lines, NEW j \in Nat, j # 0
    PROVE  Nearest(lines, j) \in 0..(j - 1)
<1>1. j - 1 \in Nat /\ Above(lines, j) \in SUBSET (1..(j - 1))
    BY DEF Above
<1>2. ASSUME Above(lines, j) # {} PROVE Max(Above(lines, j)) \in Above(lines, j)
    <2>1. \E m \in Above(lines, j) : \A y \in Above(lines, j) : m >= y
        BY <1>1, <1>2, NearestExists
    <2> QED
        BY <2>1 DEF Max
<1> QED
    BY <1>1, <1>2 DEF Nearest

\* The keys above each line, from the first line on.
Paths(to, lines, n) ==
    to = [j \in 0..n |->
             IF j = 0 THEN <<>>
             ELSE IF lines[j].key = None THEN to[Nearest(lines, j)]
                                         ELSE Append(to[Nearest(lines, j)], lines[j].key)]

LEMMA PathsExist ==
    ASSUME NEW lines, NEW N \in Nat
    PROVE  \E to : Paths(to, lines, N)
<1> DEFINE S == {n \in Nat : \E to : Paths(to, lines, n)}
           Under(path, j) == IF lines[j].key = None THEN path ELSE Append(path, lines[j].key)
<1>1. 0 \in S
    <2> DEFINE to == [j \in 0..0 |-> <<>>]
    <2>1. to = [j \in 0..0 |->
                   IF j = 0 THEN <<>>
                   ELSE IF lines[j].key = None THEN to[Nearest(lines, j)]
                                               ELSE Append(to[Nearest(lines, j)], lines[j].key)]
        OBVIOUS
    <2>2. Paths(to, lines, 0)
        BY <2>1, Zenon DEF Paths
    <2> QED
        BY <2>2
<1>2. ASSUME NEW n \in Nat, n \in S PROVE n + 1 \in S
    <2>1. PICK to : Paths(to, lines, n)
        BY <1>2
    <2> DEFINE next == [j \in 0..(n + 1) |->
                           IF j = 0 THEN <<>> ELSE Under(to[Nearest(lines, j)], j)]
    <2>0. to = [j \in 0..n |-> IF j = 0 THEN <<>> ELSE Under(to[Nearest(lines, j)], j)]
        BY <2>1, Zenon DEF Paths
    <2> HIDE DEF Under
    <2>2. ASSUME NEW j \in 0..(n + 1), j # 0
          PROVE  next[Nearest(lines, j)] = to[Nearest(lines, j)]
        <3> DEFINE i == Nearest(lines, j)
        <3>1. i \in 0..n
            <4>1. j \in Nat /\ i \in 0..(j - 1)
                BY <2>2, NearestIs
            <4> HIDE DEF i
            <4> QED
                BY <4>1
        <3> HIDE DEF i
        <3>2. next[i] = IF i = 0 THEN <<>> ELSE Under(to[Nearest(lines, i)], i)
            BY <3>1
        <3>3. to[i] = IF i = 0 THEN <<>> ELSE Under(to[Nearest(lines, i)], i)
            BY <2>0, <3>1
        <3> QED
            BY <3>2, <3>3 DEF i
    <2>3. next = [j \in 0..(n + 1) |-> IF j = 0 THEN <<>> ELSE Under(next[Nearest(lines, j)], j)]
        <3>1. \A j \in 0..(n + 1) :
                 next[j] = IF j = 0 THEN <<>> ELSE Under(next[Nearest(lines, j)], j)
            BY <2>2
        <3>2. next = [j \in 0..(n + 1) |-> next[j]]
            OBVIOUS
        <3> HIDE DEF next
        <3> QED
            BY <3>1, <3>2
    <2> HIDE DEF next
    <2>4. Paths(next, lines, n + 1)
        BY <2>3, Zenon DEF Paths, Under
    <2> QED
        BY <2>4
<1> HIDE DEF S
<1>3. N \in S
    BY <1>1, <1>2, AllNumbers
<1> QED
    BY <1>3 DEF S

\* What KeysTo says of a line, by what it says of the line's nearest key.
Leads(to, lines, i) ==
    /\ KeysTo(lines, i) = to[i] /\ to[0] = <<>>
    /\ \A j \in 1..i : to[j] = IF lines[j].key = None THEN to[Nearest(lines, j)]
                               ELSE Append(to[Nearest(lines, j)], lines[j].key)

LEMMA KeysToIs ==
    ASSUME NEW lines, NEW i \in Nat
    PROVE  \E to : Leads(to, lines, i)
<1> DEFINE C == CHOOSE to : Paths(to, lines, i)
<1>1. Paths(C, lines, i)
    BY PathsExist
<1>2. KeysTo(lines, i) = C[i]
    <2>1. C = CHOOSE to : to = [j \in 0..i |->
             IF j = 0 THEN <<>>
             ELSE IF lines[j].key = None THEN to[IF Above(lines, j) = {} THEN 0 ELSE Max(Above(lines, j))]
                  ELSE Append(to[IF Above(lines, j) = {} THEN 0 ELSE Max(Above(lines, j))], lines[j].key)]
        BY Zenon DEF Paths, Nearest
    <2> HIDE DEF C
    <2> QED
        BY <2>1, Zenon DEF KeysTo
<1> HIDE DEF C
<1>3. \A j \in 0..i : C[j] = IF j = 0 THEN <<>>
             ELSE IF lines[j].key = None THEN C[Nearest(lines, j)]
                                         ELSE Append(C[Nearest(lines, j)], lines[j].key)
    BY <1>1 DEF Paths
<1>4. C[0] = <<>> /\ \A j \in 1..i : j \in 0..i /\ j # 0
    BY <1>3
<1>5. Leads(C, lines, i)
    BY <1>2, <1>3, <1>4 DEF Leads
<1> QED
    BY <1>5

AtPlace(ps, n, u, k) == u \in Nat /\ k \in Nat /\ Place(ps, u, k) /\ n = 4 * u + k

\* The number of a key tells what the key is, and how deep.
LEMMA NumberOfKey ==
    ASSUME NEW ps, NEW n, NEW u, NEW k, AtPlace(ps, n, u, k),
           NEW line, Numbered(ps, line, n), line.key # None
    PROVE  line.item = None /\ line.key = KeyAt(ps, u, k) /\ line.indent = DepthAt(u, k)
<1>1. PICK v \in Nat, l \in Nat :
          /\ Place(ps, v, l) /\ 4 * u + k = 4 * v + l
          /\ line.item = None /\ line.key = KeyAt(ps, v, l) /\ line.indent = DepthAt(v, l)
    BY DEF Numbered, AtPlace
<1>2. k \in 0..3 /\ l \in 0..3 /\ u \in Nat
    BY <1>1 DEF Place, AtPlace
<1>3. u = v /\ k = l
    BY <1>1, <1>2
<1> QED
    BY <1>1, <1>3

ItemDepth(line, u, k) == line.indent = DepthAt(u, k) \/ line.indent = DepthAt(u, k) + 2

LEMMA NumberOfItem ==
    ASSUME NEW ps, NEW n, NEW u, NEW k, AtPlace(ps, n, u, k),
           NEW line, Numbered(ps, line, n), line.item # None
    PROVE  line.key = None /\ ItemDepth(line, u, k)
<1>1. PICK v \in Nat, l \in Nat :
          /\ Place(ps, v, l) /\ 4 * u + k = 4 * v + l /\ line.key = None
          /\ line.indent = DepthAt(v, l) \/ line.indent = DepthAt(v, l) + 2
    BY DEF Numbered, AtPlace
<1>2. k \in 0..3 /\ l \in 0..3 /\ u \in Nat
    BY <1>1 DEF Place, AtPlace
<1>3. u = v /\ k = l
    BY <1>1, <1>2
<1> QED
    BY <1>1, <1>3 DEF ItemDepth

\* Every line that is not nothing has its place.
LEMMA HasPlace ==
    ASSUME NEW ps, NEW line, NEW n, Numbered(ps, line, n), line.key # None \/ line.item # None
    PROVE  \E u, k : AtPlace(ps, n, u, k)
BY DEF Numbered, AtPlace

\* The service begins with its own key.
LEMMA ServiceBegins ==
    ASSUME NEW ps \in Seq(Pipeline), NEW R, 0 \in R,
           NEW L, NEW a, NEW b, NEW r, Service(ps, R, L, a, b, r)
    PROVE  a \in a..b /\ r[a] = 0 /\ L[a].key # None
<1>1. a \in Nat /\ b \in Nat
    BY DEF Service
<1>2. PICK j \in a..b : L[j].key # None /\ r[j] = 0
    BY DEF Service
<1>3. j = a
    <2>1. ASSUME a < j PROVE FALSE
        <3>1. a \in a..b
            BY <1>1
        <3>2. r[a] < r[j] /\ r[a] \in Nat
            BY <1>2, <2>1, <3>1 DEF Service
        <3> QED
            BY <1>2, <3>2
    <2> QED
        BY <1>1, <2>1
<1> QED
    BY <1>2, <1>3

\* The key of an item is above it, with nothing but items in between.
Owns(L, r, c, j) ==
    /\ c < j /\ L[c].key # None /\ r[c] = r[j]
    /\ \A i \in (c + 1)..j : L[i].item # None /\ L[i].indent = L[j].indent

LEMMA ItemsHaveOwners ==
    ASSUME NEW ps, NEW R, NEW L, NEW a, NEW b, NEW r, Service(ps, R, L, a, b, r),
           NEW j \in a..b, L[j].item # None
    PROVE  \E c \in a..b : Owns(L, r, c, j)
<1> DEFINE P == {n \in Nat : a + n <= b /\ L[a + n].item # None =>
                    \E c \in a..b : Owns(L, r, c, a + n)}
<1>1. a \in Nat /\ b \in Nat
    BY DEF Service
<1>2. \A i \in a..b : L[i].item # None => i - 1 \in a..b /\ Follows(L, r, i)
    BY DEF Service
<1>3. ASSUME NEW i \in a..b, L[i].item # None,
             L[i - 1].item # None => \E c \in a..b : Owns(L, r, c, i - 1)
      PROVE  \E c \in a..b : Owns(L, r, c, i)
    <2>1. i - 1 \in a..b /\ Follows(L, r, i)
        BY <1>2, <1>3
    <2>2. CASE L[i - 1].key # None
        <3>1. \A x : x \in ((i - 1) + 1)..i <=> x = i
            BY <1>1
        <3>2. i - 1 < i /\ r[i - 1] = r[i]
            BY <1>1, <2>1 DEF Follows
        <3>3. Owns(L, r, i - 1, i)
            BY <1>3, <2>2, <3>1, <3>2 DEF Owns
        <3> QED
            BY <2>1, <3>3
    <2>3. CASE L[i - 1].key = None
        <3>1. L[i - 1].item # None /\ L[i - 1].indent = L[i].indent /\ r[i - 1] = r[i]
            BY <2>1, <2>3 DEF Follows
        <3>2. PICK c \in a..b : Owns(L, r, c, i - 1)
            BY <1>3, <3>1
        <3>3. c \in Nat /\ i \in Nat
            BY <1>1
        <3>4. \A x \in (c + 1)..i : x \in (c + 1)..(i - 1) \/ x = i
            BY <3>3
        <3>5. c < i - 1 /\ c < i
            BY <3>2, <3>3 DEF Owns
        <3>6. Owns(L, r, c, i)
            BY <1>3, <3>1, <3>2, <3>4, <3>5 DEF Owns
        <3> QED
            BY <3>6
    <2> QED
        BY <2>2, <2>3
<1>4. 0 \in P
    <2>1. ASSUME a + 0 <= b, L[a + 0].item # None PROVE FALSE
        <3>1. a + 0 = a /\ a \in a..b /\ a - 1 \notin a..b
            BY <1>1, <2>1
        <3> QED
            BY <1>2, <2>1, <3>1
    <2> QED
        BY <2>1
<1>5. ASSUME NEW n \in Nat, n \in P PROVE n + 1 \in P
    <2>1. ASSUME a + (n + 1) <= b, L[a + (n + 1)].item # None
          PROVE  \E c \in a..b : Owns(L, r, c, a + (n + 1))
        <3> DEFINE i == a + (n + 1)
        <3>1. i \in a..b /\ i - 1 = a + n /\ a + n <= b
            BY <1>1, <2>1
        <3>2. L[i - 1].item # None => \E c \in a..b : Owns(L, r, c, i - 1)
            BY <1>5, <3>1
        <3> HIDE DEF i
        <3>3. L[i].item # None
            BY <2>1 DEF i
        <3>4. \E c \in a..b : Owns(L, r, c, i)
            BY <1>3, <3>1, <3>2, <3>3
        <3> QED
            BY <3>4 DEF i
    <2> QED
        BY <2>1
<1>6. j - a \in Nat /\ a + (j - a) = j /\ a + (j - a) <= b
    BY <1>1
<1> HIDE DEF P
<1>7. j - a \in P
    BY <1>4, <1>5, <1>6, AllNumbers
<1>8. a + (j - a) <= b /\ L[a + (j - a)].item # None => \E c \in a..b : Owns(L, r, c, a + (j - a))
    BY <1>7 DEF P
<1> QED
    BY <1>6, <1>8

\* The places that every service has.
Whole(ps, R) == {0, 2} \subseteq R /\ \A i \in 1..Len(ps) : 4 * i \in R

\* What is asked of the pipelines of a text, and of its names.
Pipelines(ps) ==
    /\ ps \in Seq(Pipeline)
    /\ \A i, j \in 1..Len(ps) : ps[i].name = ps[j].name => i = j

LEMMA RowsAre ==
    ASSUME NEW ps, NEW R, NEW L, NEW a, NEW b, NEW r, Service(ps, R, L, a, b, r)
    PROVE  /\ a \in Nat /\ b \in Nat /\ Len(L) \in Nat
           /\ \A j \in a..b : j \in 1..Len(L) /\ r[j] \in Nat
           /\ \A j \in 1..Len(L) : L[j].indent \in Nat
<1>1. L \in Seq(LineRows) /\ a \in Nat /\ b \in Nat /\ 1 <= a /\ b <= Len(L)
    BY DEF Service
<1>2. \A j \in 1..Len(L) : L[j] \in LineRows
    BY <1>1
<1>3. \A j \in 1..Len(L) : L[j].indent \in Nat
    BY <1>2 DEF LineRows
<1>4. \A j \in a..b : r[j] \in Nat
    BY DEF Service
<1> QED
    BY <1>1, <1>3, <1>4

\* A key of the service lies below the key p if all that is between them in the
\* service lies at least as deep as it.
LEMMA NearestKey ==
    ASSUME NEW ps, NEW R, NEW L, NEW a, NEW b, NEW r, Service(ps, R, L, a, b, r),
           NEW j \in a..b, L[j].item = None, NEW p \in a..b, L[p].key # None,
           r[p] < r[j], L[p].indent < L[j].indent,
           \A y \in a..b : L[y].key # None /\ r[p] < r[y] /\ r[y] < r[j] =>
                              ~(L[y].indent < L[j].indent),
           L[j].key # None
    PROVE  Nearest(L, j) = p
<1>1. /\ a \in Nat /\ b \in Nat
      /\ \A i \in a..b : i \in 1..Len(L) /\ r[i] \in Nat
    BY RowsAre
<1>2. \A x, y \in a..b : x < y => r[x] <= r[y] /\ (L[y].key # None => r[x] < r[y])
    BY DEF Service
<1>3. p < j
    <2>1. ASSUME j < p PROVE FALSE
        BY <1>1, <1>2, <2>1
    <2> QED
        BY <1>1, <2>1
<1>4. p \in Above(L, j)
    <2>1. p \in 1..(j - 1)
        BY <1>1, <1>3
    <2> QED
        BY <2>1 DEF Above
<1>5. ASSUME NEW y \in Above(L, j) PROVE y <= p
    <2>1. y \in 1..(j - 1) /\ L[y].key # None /\ L[y].indent < L[j].indent
        BY DEF Above
    <2>2. ASSUME p < y PROVE FALSE
        <3>1. y \in a..b /\ y < j
            BY <1>1, <2>1, <2>2
        <3>2. r[p] < r[y] /\ r[y] < r[j]
            BY <1>2, <2>1, <2>2, <3>1
        <3> QED
            BY <2>1, <3>1, <3>2
    <2> QED
        BY <1>1, <2>1, <2>2
<1>6. Above(L, j) \in SUBSET Int
    BY <1>1 DEF Above
<1>7. Max(Above(L, j)) = p
    BY <1>4, <1>5, <1>6, MaxIs
<1> QED
    BY <1>4, <1>7 DEF Nearest

LEMMA NearestOwner ==
    ASSUME NEW ps, NEW R, NEW L, NEW a, NEW b, NEW r, Service(ps, R, L, a, b, r),
           NEW j \in a..b, L[j].item # None, NEW c \in a..b, Owns(L, r, c, j)
    PROVE  /\ Nearest(L, j) = c /\ Above(L, j) # {}
           /\ L[j].key = None /\ L[c].item = None /\ L[c].indent <= L[j].indent
<1>1. /\ a \in Nat /\ b \in Nat
      /\ \A i \in a..b : i \in 1..Len(L) /\ r[i] \in Nat
    BY RowsAre
<1>2. Numbered(ps, L[j], r[j]) /\ Numbered(ps, L[c], r[c])
    BY DEF Service
<1>3. c < j /\ L[c].key # None /\ r[c] = r[j]
    BY DEF Owns
<1>4. PICK u, k : AtPlace(ps, r[j], u, k)
    BY <1>2, HasPlace
<1>5. DepthAt(u, k) \in Nat
    BY DEF DepthAt
<1>6. /\ L[c].item = None /\ L[c].indent = DepthAt(u, k) /\ L[j].key = None
      /\ L[j].indent = DepthAt(u, k) \/ L[j].indent = DepthAt(u, k) + 2
    <2>1. L[c].item = None /\ L[c].indent = DepthAt(u, k)
        BY <1>2, <1>3, <1>4, NumberOfKey
    <2>2. L[j].key = None /\ ItemDepth(L[j], u, k)
        BY <1>2, <1>4, NumberOfItem
    <2> QED
        BY <2>1, <2>2 DEF ItemDepth
<1>7. c \in Above(L, j)
    <2>1. c \in 1..(j - 1) /\ (L[c].indent < L[j].indent \/ L[c].indent = L[j].indent)
        BY <1>1, <1>3, <1>5, <1>6
    <2> QED
        BY <1>3, <2>1 DEF Above
<1>8. ASSUME NEW y \in Above(L, j) PROVE y <= c
    <2>1. y \in 1..(j - 1) /\ L[y].key # None
        BY DEF Above
    <2>2. ASSUME c < y PROVE FALSE
        <3>1. y \in (c + 1)..j /\ y \in a..b
            BY <1>1, <2>1, <2>2
        <3>2. L[y].item # None
            BY <3>1 DEF Owns
        <3>3. Numbered(ps, L[y], r[y])
            BY <3>1 DEF Service
        <3> QED
            BY <2>1, <3>2, <3>3 DEF Numbered
    <2> QED
        BY <1>1, <2>1, <2>2
<1>9. Above(L, j) \in SUBSET Int
    BY <1>1 DEF Above
<1>10. Max(Above(L, j)) = c
    BY <1>7, <1>8, <1>9, MaxIs
<1> QED
    <2>1. L[c].indent <= L[j].indent
        BY <1>5, <1>6
    <2>2. Nearest(L, j) = c /\ Above(L, j) # {}
        BY <1>7, <1>10 DEF Nearest
    <2> QED
        BY <1>6, <2>1, <2>2

\* The path to a place.
PathAt(ps, u, k) ==
    IF u = 0 THEN IF k = 0 THEN <<"service">> ELSE <<"service", KeyAt(ps, u, k)>>
    ELSE IF k = 0 THEN <<"service", "pipelines", ps[u].name>>
    ELSE <<"service", "pipelines", ps[u].name, StageAt(k)>>

LEMMA PathsDiffer ==
    ASSUME NEW ps, Pipelines(ps), NEW u \in Nat, NEW k \in Nat, Place(ps, u, k),
           NEW v \in Nat, NEW l \in Nat, Place(ps, v, l), PathAt(ps, u, k) = PathAt(ps, v, l)
    PROVE  u = v /\ k = l
<1>1. Len(ps) \in Nat
    BY DEF Pipelines
<1>2. u \in 0..Len(ps) /\ k \in 0..3 /\ (u = 0 => k # 3) /\ v \in 0..Len(ps) /\ l \in 0..3 /\ (v = 0 => l # 3)
    BY DEF Place
<1>3. /\ u = 0 /\ k = 0 => PathAt(ps, u, k) = <<"service">>
      /\ u = 0 /\ k = 1 => PathAt(ps, u, k) = <<"service", "extensions">>
      /\ u = 0 /\ k = 2 => PathAt(ps, u, k) = <<"service", "pipelines">>
      /\ u # 0 /\ k = 0 => PathAt(ps, u, k) = <<"service", "pipelines", ps[u].name>>
      /\ u # 0 /\ k # 0 => PathAt(ps, u, k) = <<"service", "pipelines", ps[u].name, StageAt(k)>>
    BY DEF PathAt, KeyAt
<1>4. /\ v = 0 /\ l = 0 => PathAt(ps, v, l) = <<"service">>
      /\ v = 0 /\ l = 1 => PathAt(ps, v, l) = <<"service", "extensions">>
      /\ v = 0 /\ l = 2 => PathAt(ps, v, l) = <<"service", "pipelines">>
      /\ v # 0 /\ l = 0 => PathAt(ps, v, l) = <<"service", "pipelines", ps[v].name>>
      /\ v # 0 /\ l # 0 => PathAt(ps, v, l) = <<"service", "pipelines", ps[v].name, StageAt(l)>>
    BY DEF PathAt, KeyAt
<1>5. /\ u = 0 => k = 0 \/ k = 1 \/ k = 2
      /\ v = 0 => l = 0 \/ l = 1 \/ l = 2
    BY <1>2
<1>6. CASE u = 0
    <2>1. v = 0
        BY <1>3, <1>4, <1>5, <1>6
    <2> QED
        BY <1>3, <1>4, <1>5, <1>6, <2>1
<1>7. CASE u # 0
    <2>1. v # 0 /\ (k = 0 <=> l = 0)
        BY <1>3, <1>4, <1>5, <1>7
    <2>2. ps[u].name = ps[v].name
        BY <1>3, <1>4, <1>7, <2>1
    <2>3. u \in 1..Len(ps) /\ v \in 1..Len(ps)
        BY <1>1, <1>2, <1>7, <2>1
    <2>4. u = v
        BY <2>2, <2>3 DEF Pipelines
    <2>5. k # 0 => StageAt(k) = StageAt(l)
        BY <1>3, <1>4, <1>7, <2>1
    <2>6. StageAt(1) = "receivers" /\ StageAt(2) = "processors" /\ StageAt(3) = "exporters"
        BY DEF StageAt
    <2>7. k = l
        BY <1>2, <2>1, <2>5, <2>6
    <2> QED
        BY <2>4, <2>7
<1> QED
    BY <1>6, <1>7

\* A text with its service from line a to line b.
Laid(ps, R, L, a, b, r) == Pipelines(ps) /\ Whole(ps, R) /\ Service(ps, R, L, a, b, r)

\* The line j has the key at a place.
KeyIn(ps, L, a, b, r, j, u, k) == j \in a..b /\ L[j].key # None /\ AtPlace(ps, r[j], u, k)

LEMMA KeyTells ==
    ASSUME NEW ps, NEW R, NEW L, NEW a, NEW b, NEW r, Laid(ps, R, L, a, b, r),
           NEW j, NEW u, NEW k, KeyIn(ps, L, a, b, r, j, u, k)
    PROVE  /\ j \in a..b /\ r[j] = 4 * u + k /\ u \in 0..Len(ps) /\ k \in 0..3 /\ Len(ps) \in Nat
           /\ L[j].key # None /\ L[j].item = None
           /\ L[j].key = KeyAt(ps, u, k) /\ L[j].indent = DepthAt(u, k)
<1>1. j \in a..b /\ L[j].key # None /\ AtPlace(ps, r[j], u, k)
    BY DEF KeyIn
<1>2. Numbered(ps, L[j], r[j])
    BY <1>1 DEF Laid, Service
<1>3. L[j].item = None /\ L[j].key = KeyAt(ps, u, k) /\ L[j].indent = DepthAt(u, k)
    BY <1>1, <1>2, NumberOfKey
<1>4. r[j] = 4 * u + k /\ u \in 0..Len(ps) /\ k \in 0..3
    BY <1>1 DEF AtPlace, Place
<1>5. Len(ps) \in Nat
    BY DEF Laid, Pipelines
<1> QED
    BY <1>1, <1>3, <1>4, <1>5

LEMMA KeyOfService ==
    ASSUME NEW ps, NEW R, NEW L, NEW a, NEW b, NEW r, Laid(ps, R, L, a, b, r),
           NEW j, NEW k, k = 0 \/ k = 1 \/ k = 2, KeyIn(ps, L, a, b, r, j, 0, k)
    PROVE  /\ j \in a..b /\ r[j] = k /\ L[j].key # None /\ L[j].item = None
           /\ k = 0 => L[j].indent = 0
           /\ k # 0 => L[j].indent = 2
<1> DEFINE u == 0
<1>1. KeyIn(ps, L, a, b, r, j, u, k)
    OBVIOUS
<1> HIDE DEF u
<1>2. /\ j \in a..b /\ r[j] = 4 * u + k /\ L[j].key # None /\ L[j].item = None
      /\ L[j].indent = DepthAt(u, k)
    <2>1. /\ j \in a..b /\ r[j] = 4 * u + k /\ u \in 0..Len(ps) /\ k \in 0..3 /\ Len(ps) \in Nat
          /\ L[j].key # None /\ L[j].item = None
          /\ L[j].key = KeyAt(ps, u, k) /\ L[j].indent = DepthAt(u, k)
        BY <1>1, KeyTells
    <2> QED
        BY <2>1
<1>3. DepthAt(0, k) = (IF k = 0 THEN 0 ELSE 2) /\ 4 * 0 + k = k
    BY DEF DepthAt
<1> QED
    BY <1>2, <1>3 DEF u

LEMMA KeyOfTheService ==
    ASSUME NEW ps, NEW R, NEW L, NEW a, NEW b, NEW r, Laid(ps, R, L, a, b, r),
           NEW j, KeyIn(ps, L, a, b, r, j, 0, 0)
    PROVE  j \in a..b /\ r[j] = 0 /\ L[j].key # None /\ L[j].item = None /\ L[j].indent = 0
<1> DEFINE k == 0
<1>1. (k = 0 \/ k = 1 \/ k = 2) /\ KeyIn(ps, L, a, b, r, j, 0, k)
    OBVIOUS
<1> HIDE DEF k
<1>2. /\ j \in a..b /\ r[j] = k /\ L[j].key # None /\ L[j].item = None
      /\ k = 0 => L[j].indent = 0
      /\ k # 0 => L[j].indent = 2
    BY <1>1, KeyOfService
<1> QED
    BY <1>2 DEF k

LEMMA KeyInService ==
    ASSUME NEW ps, NEW R, NEW L, NEW a, NEW b, NEW r, Laid(ps, R, L, a, b, r),
           NEW j, NEW k, k = 1 \/ k = 2, KeyIn(ps, L, a, b, r, j, 0, k)
    PROVE  j \in a..b /\ r[j] = k /\ L[j].key # None /\ L[j].item = None /\ L[j].indent = 2
<1>1. (k = 0 \/ k = 1 \/ k = 2) /\ k # 0
    OBVIOUS
<1>2. /\ j \in a..b /\ r[j] = k /\ L[j].key # None /\ L[j].item = None
      /\ k = 0 => L[j].indent = 0
      /\ k # 0 => L[j].indent = 2
    BY <1>1, KeyOfService
<1> QED
    BY <1>1, <1>2

LEMMA KeyHasPlace ==
    ASSUME NEW ps, NEW R, NEW L, NEW a, NEW b, NEW r, Laid(ps, R, L, a, b, r),
           NEW j \in a..b, L[j].key # None
    PROVE  \E u, k : KeyIn(ps, L, a, b, r, j, u, k)
<1>1. Numbered(ps, L[j], r[j])
    BY DEF Laid, Service
<1>2. \E u, k : AtPlace(ps, r[j], u, k)
    BY <1>1, HasPlace
<1> QED
    BY <1>2 DEF KeyIn

\* The keys that every service has are there.
LEMMA KeyIsThere ==
    ASSUME NEW ps, NEW R, NEW L, NEW a, NEW b, NEW r, Laid(ps, R, L, a, b, r),
           NEW u, NEW k, Place(ps, u, k), u \in Nat, k \in Nat, 4 * u + k \in R
    PROVE  \E j : KeyIn(ps, L, a, b, r, j, u, k)
<1>1. PICK j \in a..b : L[j].key # None /\ r[j] = 4 * u + k
    BY DEF Laid, Service
<1> QED
    BY <1>1 DEF KeyIn, AtPlace

LEMMA CommonKeys ==
    ASSUME NEW ps, NEW R, NEW L, NEW a, NEW b, NEW r, Laid(ps, R, L, a, b, r)
    PROVE  /\ KeyIn(ps, L, a, b, r, a, 0, 0)
           /\ \E j : KeyIn(ps, L, a, b, r, j, 0, 2)
           /\ \A i \in 1..Len(ps) : \E j : KeyIn(ps, L, a, b, r, j, i, 0)
<1>1. Pipelines(ps) /\ Whole(ps, R) /\ Service(ps, R, L, a, b, r)
    BY DEF Laid
<1>2. Len(ps) \in Nat /\ ps \in Seq(Pipeline) /\ {0, 2} \subseteq R
    BY <1>1 DEF Pipelines, Whole
<1>3. Place(ps, 0, 0) /\ Place(ps, 0, 2) /\ \A i \in 1..Len(ps) : Place(ps, i, 0)
    BY <1>2 DEF Place
<1>4. KeyIn(ps, L, a, b, r, a, 0, 0)
    <2>1. a \in a..b /\ r[a] = 0 /\ L[a].key # None
        BY <1>1, <1>2, ServiceBegins
    <2>2. AtPlace(ps, r[a], 0, 0)
        BY <1>3, <2>1 DEF AtPlace
    <2> QED
        BY <2>1, <2>2 DEF KeyIn
<1>5. \E j : KeyIn(ps, L, a, b, r, j, 0, 2)
    <2>1. PICK j \in a..b : L[j].key # None /\ r[j] = 2
        BY <1>1, <1>2 DEF Service
    <2>2. AtPlace(ps, r[j], 0, 2)
        BY <1>3, <2>1 DEF AtPlace
    <2> QED
        BY <2>1, <2>2 DEF KeyIn
<1>6. ASSUME NEW i \in 1..Len(ps) PROVE \E j : KeyIn(ps, L, a, b, r, j, i, 0)
    <2>1. 4 * i \in R /\ i \in Nat
        BY <1>1, <1>2 DEF Whole
    <2>2. PICK j \in a..b : L[j].key # None /\ r[j] = 4 * i
        BY <1>1, <2>1 DEF Service
    <2>3. AtPlace(ps, r[j], i, 0)
        BY <1>3, <2>1, <2>2 DEF AtPlace
    <2> QED
        BY <2>2, <2>3 DEF KeyIn
<1> QED
    BY <1>4, <1>5, <1>6

\* Which key a key lies below.
LEMMA NearestOfService ==
    ASSUME NEW ps, NEW R, NEW L, NEW a, NEW b, NEW r, Laid(ps, R, L, a, b, r),
           NEW j, KeyIn(ps, L, a, b, r, j, 0, 0)
    PROVE  j = a /\ Nearest(L, j) = 0
<1>1. /\ Service(ps, R, L, a, b, r) /\ a \in Nat /\ b \in Nat /\ Len(L) \in Nat
      /\ \A i \in 1..Len(L) : L[i].indent \in Nat
      /\ \A i \in a..b : i \in 1..Len(L) /\ r[i] \in Nat
    BY RowsAre DEF Laid
<1>2. j \in a..b /\ r[j] = 0 /\ L[j].item = None /\ L[j].indent = 0 /\ L[j].key # None
    BY KeyOfTheService
<1>3. KeyIn(ps, L, a, b, r, a, 0, 0)
    BY CommonKeys
<1>4. a \in a..b /\ r[a] = 0
    BY <1>3, KeyOfTheService
<1>5. j = a
    <2>1. ASSUME a < j PROVE FALSE
        <3>1. r[a] < r[j]
            BY <1>1, <1>2, <1>4, <2>1 DEF Service
        <3> QED
            BY <1>2, <1>4, <3>1
    <2> QED
        BY <1>1, <1>2, <2>1
<1>6. Above(L, j) = {}
    <2>1. ASSUME NEW y \in Above(L, j) PROVE FALSE
        <3>1. y \in 1..(j - 1) /\ L[y].indent < L[j].indent
            BY <1>2 DEF Above
        <3>2. y \in 1..Len(L)
            BY <1>1, <1>2, <3>1
        <3> QED
            BY <1>1, <1>2, <3>1, <3>2
    <2> QED
        BY <2>1
<1> QED
    BY <1>5, <1>6 DEF Nearest

LEMMA NearestInService ==
    ASSUME NEW ps, NEW R, NEW L, NEW a, NEW b, NEW r, Laid(ps, R, L, a, b, r),
           NEW j, NEW k, k = 1 \/ k = 2, KeyIn(ps, L, a, b, r, j, 0, k)
    PROVE  Nearest(L, j) = a
<1>1. Service(ps, R, L, a, b, r)
    BY DEF Laid
<1>2. j \in a..b /\ r[j] = k /\ L[j].item = None /\ L[j].indent = 2 /\ L[j].key # None
    BY KeyInService
<1>3. a \in a..b /\ r[a] = 0 /\ L[a].indent = 0 /\ L[a].key # None
    BY CommonKeys, KeyOfTheService
<1>4. ASSUME NEW y \in a..b, L[y].key # None, r[a] < r[y], r[y] < r[j]
      PROVE  ~(L[y].indent < L[j].indent)
    <2>1. PICK u, l : KeyIn(ps, L, a, b, r, y, u, l)
        BY <1>4, KeyHasPlace
    <2>2. /\ y \in a..b /\ r[y] = 4 * u + l /\ u \in 0..Len(ps) /\ l \in 0..3 /\ Len(ps) \in Nat
          /\ L[y].key # None /\ L[y].item = None
          /\ L[y].key = KeyAt(ps, u, l) /\ L[y].indent = DepthAt(u, l)
        BY <2>1, KeyTells
    <2>3. u = 0 /\ l = 1
        BY <1>2, <1>3, <1>4, <2>2
    <2>4. DepthAt(u, l) = 2
        BY <2>3 DEF DepthAt
    <2> QED
        BY <1>2, <2>2, <2>4
<1>5. r[a] < r[j] /\ L[a].indent < L[j].indent
    BY <1>2, <1>3
<1> QED
    BY <1>1, <1>2, <1>3, <1>4, <1>5, NearestKey

LEMMA NearestOfPipeline ==
    ASSUME NEW ps, NEW R, NEW L, NEW a, NEW b, NEW r, Laid(ps, R, L, a, b, r),
           NEW j, NEW u, u # 0, KeyIn(ps, L, a, b, r, j, u, 0)
    PROVE  KeyIn(ps, L, a, b, r, Nearest(L, j), 0, 2)
<1>1. Service(ps, R, L, a, b, r)
    BY DEF Laid
<1>2. /\ j \in a..b /\ r[j] = 4 * u /\ L[j].item = None /\ L[j].indent = 4 /\ L[j].key # None
      /\ u \in Nat
    <2>1. /\ j \in a..b /\ r[j] = 4 * u + 0 /\ u \in 0..Len(ps) /\ Len(ps) \in Nat
          /\ L[j].key # None /\ L[j].item = None /\ L[j].indent = DepthAt(u, 0)
        BY KeyTells
    <2>2. DepthAt(u, 0) = 4 /\ 4 * u + 0 = 4 * u
        BY <2>1 DEF DepthAt
    <2> QED
        BY <2>1, <2>2
<1>3. PICK p : KeyIn(ps, L, a, b, r, p, 0, 2)
    BY CommonKeys
<1>4. p \in a..b /\ r[p] = 2 /\ L[p].indent = 2 /\ L[p].key # None
    <2> DEFINE k == 2
    <2>1. (k = 1 \/ k = 2) /\ KeyIn(ps, L, a, b, r, p, 0, k)
        BY <1>3
    <2> HIDE DEF k
    <2>2. /\ p \in a..b /\ r[p] = k /\ L[p].key # None /\ L[p].item = None
          /\ L[p].indent = 2
        BY <2>1, KeyInService
    <2> QED
        BY <2>2 DEF k
<1>5. ASSUME NEW y \in a..b, L[y].key # None, r[p] < r[y], r[y] < r[j]
      PROVE  ~(L[y].indent < L[j].indent)
    <2>1. PICK v, l : KeyIn(ps, L, a, b, r, y, v, l)
        BY <1>5, KeyHasPlace
    <2>2. /\ r[y] = 4 * v + l /\ v \in 0..Len(ps) /\ l \in 0..3 /\ L[y].indent = DepthAt(v, l)
        BY <2>1, KeyTells
    <2>3. v = 0 => l # 3
        BY <2>1 DEF KeyIn, AtPlace, Place
    <2>4. v # 0
        BY <1>4, <1>5, <2>2, <2>3
    <2> QED
        BY <1>2, <2>2, <2>4 DEF DepthAt
<1>6. r[p] < r[j] /\ L[p].indent < L[j].indent
    BY <1>2, <1>4
<1>7. Nearest(L, j) = p
    BY <1>1, <1>2, <1>4, <1>5, <1>6, NearestKey
<1> QED
    BY <1>3, <1>7

LEMMA NearestOfList ==
    ASSUME NEW ps, NEW R, NEW L, NEW a, NEW b, NEW r, Laid(ps, R, L, a, b, r),
           NEW j, NEW u, u # 0, NEW k, k # 0, KeyIn(ps, L, a, b, r, j, u, k)
    PROVE  KeyIn(ps, L, a, b, r, Nearest(L, j), u, 0)
<1>1. Service(ps, R, L, a, b, r)
    BY DEF Laid
<1>2. /\ j \in a..b /\ r[j] = 4 * u + k /\ L[j].item = None /\ L[j].indent = 6 /\ L[j].key # None
      /\ u \in Nat /\ k \in 1..3 /\ u \in 1..Len(ps)
    <2>1. /\ j \in a..b /\ r[j] = 4 * u + k /\ u \in 0..Len(ps) /\ k \in 0..3 /\ Len(ps) \in Nat
          /\ L[j].key # None /\ L[j].item = None /\ L[j].indent = DepthAt(u, k)
        BY KeyTells
    <2>2. DepthAt(u, k) = 6
        BY DEF DepthAt
    <2> QED
        BY <2>1, <2>2
<1>3. PICK p : KeyIn(ps, L, a, b, r, p, u, 0)
    BY <1>2, CommonKeys
<1>4. p \in a..b /\ r[p] = 4 * u /\ L[p].indent = 4 /\ L[p].key # None
    <2>1. DepthAt(u, 0) = 4 /\ 4 * u + 0 = 4 * u
        BY <1>2 DEF DepthAt
    <2>2. p \in a..b /\ r[p] = 4 * u + 0 /\ L[p].key # None /\ L[p].indent = DepthAt(u, 0)
        BY <1>3, KeyTells
    <2> QED
        BY <2>1, <2>2
<1>5. ASSUME NEW y \in a..b, L[y].key # None, r[p] < r[y], r[y] < r[j]
      PROVE  ~(L[y].indent < L[j].indent)
    <2>1. PICK v, l : KeyIn(ps, L, a, b, r, y, v, l)
        BY <1>5, KeyHasPlace
    <2>2. /\ r[y] = 4 * v + l /\ v \in 0..Len(ps) /\ l \in 0..3 /\ L[y].indent = DepthAt(v, l)
        BY <2>1, KeyTells
    <2>3. v = u /\ l # 0
        BY <1>2, <1>4, <1>5, <2>2
    <2> QED
        BY <1>2, <2>2, <2>3 DEF DepthAt
<1>6. r[p] < r[j] /\ L[p].indent < L[j].indent
    BY <1>2, <1>4
<1>7. Nearest(L, j) = p
    BY <1>1, <1>2, <1>4, <1>5, <1>6, NearestKey
<1> QED
    BY <1>3, <1>7

LEMMA AppendIs ==
    ASSUME NEW S, NEW p \in Seq(S), NEW z \in S
    PROVE  /\ Append(p, z) \in Seq(S) /\ Len(Append(p, z)) = Len(p) + 1
           /\ \A i \in 1..Len(p) : Append(p, z)[i] = p[i]
           /\ Append(p, z)[Len(p) + 1] = z
OBVIOUS

LEMMA Appended ==
    /\ \A x, y, z : Append(<<x, y>>, z) = <<x, y, z>>
    /\ \A w, x, y, z : Append(<<w, x, y>>, z) = <<w, x, y, z>>
<1>1. ASSUME NEW S, NEW p \in Seq(S), NEW q \in Seq(S), Len(p) = Len(q), \A i \in 1..Len(p) : p[i] = q[i]
      PROVE  p = q
    BY <1>1
<1>2. ASSUME NEW x, NEW y, NEW z PROVE Append(<<x, y>>, z) = <<x, y, z>>
    <2> DEFINE S == {x, y, z}
               p == <<x, y>>
               q == <<x, y, z>>
    <2>1. p \in Seq(S) /\ q \in Seq(S) /\ z \in S /\ Len(p) = 2 /\ Len(q) = 3
        OBVIOUS
    <2>2. p[1] = x /\ p[2] = y /\ q[1] = x /\ q[2] = y /\ q[3] = z
        OBVIOUS
    <2> HIDE DEF p, q, S
    <2> DEFINE o == Append(p, z)
    <2>0. /\ o \in Seq(S) /\ Len(o) = Len(p) + 1
          /\ \A i \in 1..Len(p) : o[i] = p[i]
          /\ o[Len(p) + 1] = z
        BY <2>1, AppendIs
    <2> HIDE DEF o
    <2>3. o \in Seq(S) /\ Len(o) = 3
        BY <2>0, <2>1
    <2>4. o[1] = x /\ o[2] = y /\ o[3] = z
        BY <2>0, <2>1, <2>2
    <2>5. \A i \in 1..3 : i = 1 \/ i = 2 \/ i = 3
        OBVIOUS
    <2>6. o = q
        BY <1>1, <2>1, <2>2, <2>3, <2>4, <2>5
    <2> QED
        BY <2>6 DEF p, q, o
<1>3. ASSUME NEW w, NEW x, NEW y, NEW z PROVE Append(<<w, x, y>>, z) = <<w, x, y, z>>
    <2> DEFINE S == {w, x, y, z}
               p == <<w, x, y>>
               q == <<w, x, y, z>>
    <2>1. p \in Seq(S) /\ q \in Seq(S) /\ z \in S /\ Len(p) = 3 /\ Len(q) = 4
        OBVIOUS
    <2>2. p[1] = w /\ p[2] = x /\ p[3] = y /\ q[1] = w /\ q[2] = x /\ q[3] = y /\ q[4] = z
        OBVIOUS
    <2> HIDE DEF p, q, S
    <2> DEFINE o == Append(p, z)
    <2>0. /\ o \in Seq(S) /\ Len(o) = Len(p) + 1
          /\ \A i \in 1..Len(p) : o[i] = p[i]
          /\ o[Len(p) + 1] = z
        BY <2>1, AppendIs
    <2> HIDE DEF o
    <2>3. o \in Seq(S) /\ Len(o) = 4
        BY <2>0, <2>1
    <2>4. o[1] = w /\ o[2] = x /\ o[3] = y /\ o[4] = z
        BY <2>0, <2>1, <2>2
    <2>5. \A i \in 1..4 : i = 1 \/ i = 2 \/ i = 3 \/ i = 4
        OBVIOUS
    <2>6. o = q
        BY <1>1, <2>1, <2>2, <2>3, <2>4, <2>5
    <2> QED
        BY <2>6 DEF p, q, o
<1> QED
    BY <1>2, <1>3

LEMMA LeadsOn ==
    ASSUME NEW L, NEW i, NEW to, Leads(to, L, i), NEW j \in 1..i, L[j].key # None
    PROVE  to[j] = Append(to[Nearest(L, j)], L[j].key)
<1>1. to[j] = IF L[j].key = None THEN to[Nearest(L, j)] ELSE Append(to[Nearest(L, j)], L[j].key)
    BY DEF Leads
<1> QED
    BY <1>1

\* The keys above a key of the service are those of its place.
LEMMA PathToService ==
    ASSUME NEW ps, NEW R, NEW L, NEW a, NEW b, NEW r, Laid(ps, R, L, a, b, r),
           NEW i \in Nat, NEW to, Leads(to, L, i),
           NEW j \in 1..i, KeyIn(ps, L, a, b, r, j, 0, 0)
    PROVE  to[j] = <<"service">>
<1>1. Nearest(L, j) = 0
    BY NearestOfService
<1>2. L[j].key = "service" /\ L[j].key # None
    <2> DEFINE u == 0
               k == 0
    <2>1. KeyIn(ps, L, a, b, r, j, u, k)
        OBVIOUS
    <2> HIDE DEF u, k
    <2>2. /\ j \in a..b /\ r[j] = 4 * u + k /\ u \in 0..Len(ps) /\ k \in 0..3 /\ Len(ps) \in Nat
          /\ L[j].key # None /\ L[j].item = None
          /\ L[j].key = KeyAt(ps, u, k) /\ L[j].indent = DepthAt(u, k)
        BY <2>1, KeyTells
    <2> QED
        BY <2>2 DEF u, k, KeyAt
<1>3. to[j] = Append(<<>>, L[j].key)
    BY <1>1, <1>2 DEF Leads
<1> QED
    BY <1>2, <1>3

LEMMA PathInService ==
    ASSUME NEW ps, NEW R, NEW L, NEW a, NEW b, NEW r, Laid(ps, R, L, a, b, r),
           NEW i \in Nat, NEW to, Leads(to, L, i),
           NEW j \in 1..i, NEW k, k = 1 \/ k = 2, KeyIn(ps, L, a, b, r, j, 0, k)
    PROVE  to[j] = PathAt(ps, 0, k)
<1>1. Nearest(L, j) = a /\ KeyIn(ps, L, a, b, r, a, 0, 0)
    BY NearestInService, CommonKeys
<1>2. a \in 1..i
    <2>1. Nearest(L, j) \in 0..(j - 1)
        BY NearestIs
    <2>2. a \in Nat /\ 1 <= a
        BY DEF Laid, Service
    <2> QED
        BY <1>1, <2>1, <2>2
<1>3. to[a] = <<"service">>
    BY <1>1, <1>2, PathToService
<1>4. L[j].key = KeyAt(ps, 0, k) /\ L[j].key # None
    <2> DEFINE u == 0
    <2>1. KeyIn(ps, L, a, b, r, j, u, k)
        OBVIOUS
    <2> HIDE DEF u
    <2>2. L[j].key = KeyAt(ps, u, k) /\ L[j].key # None
        BY <2>1, KeyTells
    <2> QED
        BY <2>2 DEF u
<1>5. to[j] = Append(<<"service">>, L[j].key)
    BY <1>1, <1>3, <1>4 DEF Leads
<1> QED
    BY <1>4, <1>5 DEF PathAt

LEMMA PathToPipeline ==
    ASSUME NEW ps, NEW R, NEW L, NEW a, NEW b, NEW r, Laid(ps, R, L, a, b, r),
           NEW i \in Nat, NEW to, Leads(to, L, i),
           NEW j \in 1..i, NEW u, u # 0, KeyIn(ps, L, a, b, r, j, u, 0)
    PROVE  to[j] = <<"service", "pipelines", ps[u].name>>
<1> DEFINE p == Nearest(L, j)
<1>1. KeyIn(ps, L, a, b, r, p, 0, 2)
    BY NearestOfPipeline
<1>2. p \in 1..i
    <2>1. p \in 0..(j - 1)
        BY NearestIs
    <2>2. a \in Nat /\ 1 <= a
        BY DEF Laid, Service
    <2>3. p \in a..b
        BY <1>1 DEF KeyIn
    <2> HIDE DEF p
    <2> QED
        BY <2>1, <2>2, <2>3
<1>3. to[p] = <<"service", "pipelines">>
    <2> DEFINE k == 2
    <2> HIDE DEF p
    <2>1. KeyIn(ps, L, a, b, r, p, 0, k) /\ (k = 1 \/ k = 2)
        BY <1>1
    <2> HIDE DEF k
    <2>2. to[p] = PathAt(ps, 0, k)
        BY <1>2, <2>1, PathInService
    <2> QED
        BY <2>2 DEF k, PathAt, KeyAt
<1>4. L[j].key = ps[u].name /\ L[j].key # None
    <2> DEFINE k == 0
    <2>1. KeyIn(ps, L, a, b, r, j, u, k)
        OBVIOUS
    <2> HIDE DEF k
    <2>2. L[j].key = KeyAt(ps, u, k) /\ L[j].key # None
        BY <2>1, KeyTells
    <2> QED
        BY <2>2 DEF k, KeyAt
<1>5. to[j] = Append(to[p], L[j].key)
    BY <1>4, LeadsOn
<1> HIDE DEF p
<1>6. to[j] = Append(<<"service", "pipelines">>, ps[u].name)
    BY <1>3, <1>4, <1>5
<1>7. \A x : Append(<<"service", "pipelines">>, x) = <<"service", "pipelines", x>>
    BY Appended
<1> QED
    BY <1>6, <1>7

LEMMA KeyPath ==
    ASSUME NEW ps, NEW R, NEW L, NEW a, NEW b, NEW r, Laid(ps, R, L, a, b, r),
           NEW i \in Nat, NEW to, Leads(to, L, i),
           NEW j \in 1..i, NEW u, NEW k, KeyIn(ps, L, a, b, r, j, u, k)
    PROVE  to[j] = PathAt(ps, u, k)
<1>1. k \in {0, 1, 2, 3} /\ (u = 0 => k # 3)
    BY DEF KeyIn, AtPlace, Place
<1>2. CASE u = 0 /\ k = 0
    <2>1. KeyIn(ps, L, a, b, r, j, 0, 0)
        BY <1>2
    <2>2. to[j] = <<"service">>
        BY <2>1, PathToService
    <2> QED
        BY <1>2, <2>2 DEF PathAt
<1>3. CASE u = 0 /\ k # 0
    <2>1. KeyIn(ps, L, a, b, r, j, 0, k) /\ (k = 1 \/ k = 2)
        BY <1>1, <1>3
    <2>2. to[j] = PathAt(ps, 0, k)
        BY <2>1, PathInService
    <2> QED
        BY <1>3, <2>2
<1>4. CASE u # 0 /\ k = 0
    <2>1. KeyIn(ps, L, a, b, r, j, u, 0)
        BY <1>4
    <2>2. to[j] = <<"service", "pipelines", ps[u].name>>
        BY <1>4, <2>1, PathToPipeline
    <2> QED
        BY <1>4, <2>2 DEF PathAt
<1>5. CASE u # 0 /\ k # 0
    <2> DEFINE p == Nearest(L, j)
    <2>1. KeyIn(ps, L, a, b, r, p, u, 0)
        BY <1>5, NearestOfList
    <2>2. p \in 1..i
        <3>1. p \in 0..(j - 1)
            BY NearestIs
        <3>2. a \in Nat /\ 1 <= a
            BY DEF Laid, Service
        <3>3. p \in a..b
            BY <2>1 DEF KeyIn
        <3> HIDE DEF p
        <3> QED
            BY <3>1, <3>2, <3>3
    <2>3. to[p] = <<"service", "pipelines", ps[u].name>>
        <3> HIDE DEF p
        <3> QED
            BY <1>5, <2>1, <2>2, PathToPipeline
    <2>4. L[j].key = StageAt(k) /\ L[j].key # None
        <3>1. /\ j \in a..b /\ r[j] = 4 * u + k /\ u \in 0..Len(ps) /\ k \in 0..3 /\ Len(ps) \in Nat
              /\ L[j].key # None /\ L[j].item = None
              /\ L[j].key = KeyAt(ps, u, k) /\ L[j].indent = DepthAt(u, k)
            BY KeyTells
        <3> QED
            BY <1>5, <3>1 DEF KeyAt
    <2>5. to[j] = Append(to[p], L[j].key)
        BY <2>4, LeadsOn
    <2> HIDE DEF p
    <2>6. to[j] = Append(<<"service", "pipelines", ps[u].name>>, StageAt(k))
        BY <2>3, <2>4, <2>5
    <2>7. \A x, y : Append(<<"service", "pipelines", x>>, y) = <<"service", "pipelines", x, y>>
        BY Appended
    <2> QED
        BY <1>5, <2>6, <2>7 DEF PathAt
<1> QED
    BY <1>2, <1>3, <1>4, <1>5

\* A line that has a key of the service lies under the path of its place.
LEMMA KeysToKey ==
    ASSUME NEW ps, NEW R, NEW L, NEW a, NEW b, NEW r, Laid(ps, R, L, a, b, r),
           NEW j, NEW u, NEW k, KeyIn(ps, L, a, b, r, j, u, k)
    PROVE  KeysTo(L, j) = PathAt(ps, u, k)
<1>1. j \in Nat /\ j \in 1..j
    BY DEF KeyIn, Laid, Service
<1>2. PICK to : Leads(to, L, j)
    BY <1>1, KeysToIs
<1>3. to[j] = PathAt(ps, u, k)
    BY <1>1, <1>2, KeyPath
<1> QED
    BY <1>2, <1>3 DEF Leads

\* An item lies under the path of its owner, which is the nearest key above it.
LEMMA KeysToItem ==
    ASSUME NEW ps, NEW R, NEW L, NEW a, NEW b, NEW r, Laid(ps, R, L, a, b, r),
           NEW j \in a..b, L[j].item # None, NEW c, NEW u, NEW k, KeyIn(ps, L, a, b, r, c, u, k),
           Owns(L, r, c, j)
    PROVE  KeysTo(L, j) = PathAt(ps, u, k) /\ Max(Above(L, j)) = c
<1>1. Service(ps, R, L, a, b, r) /\ c \in a..b
    BY DEF Laid, KeyIn
<1>2. Nearest(L, j) = c /\ Above(L, j) # {} /\ L[j].key = None
    BY <1>1, NearestOwner
<1>3. j \in Nat /\ c \in 1..j /\ j \in 1..j
    <2>1. a \in Nat /\ b \in Nat /\ 1 <= a /\ c < j
        BY <1>1 DEF Service, Owns
    <2> QED
        BY <1>1, <2>1
<1>4. PICK to : Leads(to, L, j)
    BY <1>3, KeysToIs
<1>5. to[c] = PathAt(ps, u, k)
    BY <1>3, <1>4, KeyPath
<1>6. to[j] = to[c]
    BY <1>2, <1>3, <1>4 DEF Leads
<1>7. Max(Above(L, j)) = c
    BY <1>2 DEF Nearest
<1> QED
    BY <1>4, <1>5, <1>6, <1>7 DEF Leads

-----------------------------------------------------------------------------
(* The search                                                              *)

\* The search, line by line.
Start == [at |-> 0, indent |-> 0, found |-> 0]

ScanStep(lines, path, before, i) ==
    IF before.found # 0 \/ Skipped(lines[i]) THEN before
    ELSE IF lines[i].key = path[before.at + 1]
    THEN [at |-> before.at + 1, indent |-> lines[i].indent,
          found |-> IF before.at + 1 = Len(path) THEN i ELSE 0]
    ELSE IF lines[i].indent < before.indent THEN [at |-> 0, indent |-> 0, found |-> 0] ELSE before

Scans(scan, lines, path, n) ==
    scan = [i \in 0..n |-> IF i = 0 THEN [at |-> 0, indent |-> 0, found |-> 0]
                           ELSE ScanStep(lines, path, scan[i - 1], i)]

LEMMA ScansExist ==
    ASSUME NEW lines, NEW path, NEW N \in Nat
    PROVE  \E scan : Scans(scan, lines, path, N)
<1> DEFINE S == {n \in Nat : \E scan : Scans(scan, lines, path, n)}
           First == [at |-> 0, indent |-> 0, found |-> 0]
<1>1. 0 \in S
    <2> DEFINE scan == [i \in 0..0 |-> First]
    <2> HIDE DEF First
    <2>1. scan = [i \in 0..0 |-> IF i = 0 THEN First ELSE ScanStep(lines, path, scan[i - 1], i)]
        OBVIOUS
    <2>2. Scans(scan, lines, path, 0)
        BY <2>1, Zenon DEF Scans, First
    <2> QED
        BY <2>2
<1>2. ASSUME NEW n \in Nat, n \in S PROVE n + 1 \in S
    <2>1. PICK scan : Scans(scan, lines, path, n)
        BY <1>2
    <2>0. scan = [i \in 0..n |-> IF i = 0 THEN First ELSE ScanStep(lines, path, scan[i - 1], i)]
        BY <2>1, Zenon DEF Scans
    <2> HIDE DEF First
    <2> DEFINE next == [i \in 0..(n + 1) |->
                           IF i = 0 THEN First ELSE ScanStep(lines, path, scan[i - 1], i)]
    <2>2. ASSUME NEW i \in 0..(n + 1), i # 0 PROVE next[i - 1] = scan[i - 1]
        <3> DEFINE j == i - 1
        <3>1. j \in 0..n /\ j \in 0..(n + 1)
            BY <2>2
        <3> HIDE DEF j
        <3>2. next[j] = IF j = 0 THEN First ELSE ScanStep(lines, path, scan[j - 1], j)
            BY <3>1
        <3>3. scan[j] = IF j = 0 THEN First ELSE ScanStep(lines, path, scan[j - 1], j)
            BY <2>0, <3>1
        <3> QED
            BY <3>2, <3>3 DEF j
    <2>3. next = [i \in 0..(n + 1) |-> IF i = 0 THEN First ELSE ScanStep(lines, path, next[i - 1], i)]
        <3>1. \A i \in 0..(n + 1) :
                 next[i] = IF i = 0 THEN First ELSE ScanStep(lines, path, next[i - 1], i)
            BY <2>2
        <3>2. next = [i \in 0..(n + 1) |-> next[i]]
            OBVIOUS
        <3> HIDE DEF next
        <3> QED
            BY <3>1, <3>2
    <2> HIDE DEF next
    <2>4. Scans(next, lines, path, n + 1)
        BY <2>3, Zenon DEF Scans, First
    <2> QED
        BY <2>4
<1> HIDE DEF S
<1>3. N \in S
    BY <1>1, <1>2, AllNumbers
<1> QED
    BY <1>3 DEF S

Searches(s, lines, path) ==
    /\ KeyLine(lines, path) = s[Len(lines)].found /\ s[0] = Start
    /\ \A i \in 1..Len(lines) : s[i] = ScanStep(lines, path, s[i - 1], i)

LEMMA KeyLineIs ==
    ASSUME NEW lines, NEW path, Len(lines) \in Nat
    PROVE  \E s : Searches(s, lines, path)
<1> DEFINE C == CHOOSE scan : Scans(scan, lines, path, Len(lines))
<1>1. Scans(C, lines, path, Len(lines))
    BY ScansExist
<1>2. KeyLine(lines, path) = C[Len(lines)].found
    <2>1. C = CHOOSE scan : scan = [i \in 0..Len(lines) |->
            IF i = 0 THEN [at |-> 0, indent |-> 0, found |-> 0]
            ELSE IF scan[i - 1].found # 0 \/ Skipped(lines[i]) THEN scan[i - 1]
                 ELSE IF lines[i].key = path[scan[i - 1].at + 1]
                 THEN [at |-> scan[i - 1].at + 1, indent |-> lines[i].indent,
                       found |-> IF scan[i - 1].at + 1 = Len(path) THEN i ELSE 0]
                 ELSE IF lines[i].indent < scan[i - 1].indent
                 THEN [at |-> 0, indent |-> 0, found |-> 0] ELSE scan[i - 1]]
        BY Zenon DEF Scans, ScanStep
    <2> HIDE DEF C
    <2> QED
        BY <2>1, Zenon DEF KeyLine
<1> HIDE DEF C
<1>3. \A i \in 0..Len(lines) : C[i] = IF i = 0 THEN [at |-> 0, indent |-> 0, found |-> 0]
                                      ELSE ScanStep(lines, path, C[i - 1], i)
    BY <1>1 DEF Scans
<1>4. C[0] = Start /\ \A i \in 1..Len(lines) : i \in 0..Len(lines) /\ i # 0
    BY <1>3 DEF Start
<1>5. Searches(C, lines, path)
    BY <1>2, <1>3, <1>4 DEF Searches
<1> QED
    BY <1>5

\* Lines that change nothing.
LEMMA SearchKeeps ==
    ASSUME NEW lines, NEW path, NEW s, Searches(s, lines, path), Len(lines) \in Nat,
           NEW x \in 0..Len(lines), NEW y \in 0..Len(lines), x <= y,
           \A j \in (x + 1)..y : ScanStep(lines, path, s[x], j) = s[x]
    PROVE  s[y] = s[x]
<1> DEFINE P == {n \in Nat : x + n <= y => s[x + n] = s[x]}
<1>1. 0 \in P
    BY x + 0 = x
<1>2. ASSUME NEW n \in Nat, n \in P PROVE n + 1 \in P
    <2>1. ASSUME x + (n + 1) <= y PROVE s[x + (n + 1)] = s[x]
        <3> DEFINE j == x + (n + 1)
        <3>1. j \in 1..Len(lines) /\ j \in (x + 1)..y /\ j - 1 = x + n /\ x + n <= y
            BY <2>1
        <3>2. s[j - 1] = s[x]
            BY <1>2, <3>1
        <3> HIDE DEF j
        <3>3. s[j] = ScanStep(lines, path, s[j - 1], j)
            BY <3>1 DEF Searches
        <3>4. ScanStep(lines, path, s[x], j) = s[x]
            BY <3>1
        <3>5. s[j] = s[x]
            BY <3>2, <3>3, <3>4
        <3> QED
            BY <3>5 DEF j
    <2> QED
        BY <2>1
<1>3. y - x \in Nat /\ x + (y - x) = y /\ x + (y - x) <= y
    OBVIOUS
<1> HIDE DEF P
<1>4. y - x \in P
    BY <1>1, <1>2, <1>3, AllNumbers
<1>5. x + (y - x) <= y => s[x + (y - x)] = s[x]
    BY <1>4 DEF P
<1> QED
    BY <1>3, <1>5

\* After a line the search has taken m keys, the last of them d deep.
On(m, d, f) == [at |-> m, indent |-> d, found |-> f]

Passed(lines, path, m, d, j) ==
    Skipped(lines[j]) \/ (lines[j].key # path[m + 1] /\ ~(lines[j].indent < d))

LEMMA FoundStays ==
    ASSUME NEW lines, NEW path, NEW s, Searches(s, lines, path), Len(lines) \in Nat,
           NEW x \in 0..Len(lines), s[x].found # 0
    PROVE  KeyLine(lines, path) = s[x].found
<1>1. \A j \in (x + 1)..Len(lines) : ScanStep(lines, path, s[x], j) = s[x]
    BY DEF ScanStep
<1>2. s[Len(lines)] = s[x]
    BY <1>1, SearchKeeps
<1> QED
    BY <1>2 DEF Searches

LEMMA PassesBy ==
    ASSUME NEW lines, NEW path, NEW m, NEW d, NEW j, Passed(lines, path, m, d, j)
    PROVE  ScanStep(lines, path, On(m, d, 0), j) = On(m, d, 0)
<1> DEFINE S == On(m, d, 0)
<1>1. S.at = m /\ S.indent = d /\ S.found = 0
    BY DEF On
<1> HIDE DEF S
<1>2. ScanStep(lines, path, S, j) = S
    BY <1>1 DEF ScanStep, Passed
<1> QED
    BY <1>2 DEF S

LEMMA TakesKey ==
    ASSUME NEW lines, NEW path, NEW m, NEW d, NEW j,
           lines[j].key # None, lines[j].key = path[m + 1]
    PROVE  ScanStep(lines, path, On(m, d, 0), j) =
               On(m + 1, lines[j].indent, IF m + 1 = Len(path) THEN j ELSE 0)
<1> DEFINE S == On(m, d, 0)
<1>1. S.at = m /\ S.indent = d /\ S.found = 0
    BY DEF On
<1> HIDE DEF S
<1>2. ~Skipped(lines[j])
    BY DEF Skipped
<1>3. ScanStep(lines, path, S, j) = On(m + 1, lines[j].indent, IF m + 1 = Len(path) THEN j ELSE 0)
    BY <1>1, <1>2 DEF ScanStep, On
<1> QED
    BY <1>3 DEF S

LEMMA SearchTakes ==
    ASSUME NEW lines, NEW path, NEW s, Searches(s, lines, path), Len(lines) \in Nat,
           NEW m, NEW d, NEW x \in 0..Len(lines), NEW y \in 1..Len(lines), x < y,
           s[x] = On(m, d, 0),
           \A j \in (x + 1)..(y - 1) : Passed(lines, path, m, d, j),
           lines[y].key # None, lines[y].key = path[m + 1]
    PROVE  s[y] = On(m + 1, lines[y].indent, IF m + 1 = Len(path) THEN y ELSE 0)
<1>1. s[y - 1] = s[x]
    <2> DEFINE z == y - 1
    <2>1. z \in 0..Len(lines) /\ x <= z
        OBVIOUS
    <2>2. \A j \in (x + 1)..z : Passed(lines, path, m, d, j)
        OBVIOUS
    <2> HIDE DEF z
    <2>3. \A j \in (x + 1)..z : ScanStep(lines, path, s[x], j) = s[x]
        BY <2>2, PassesBy
    <2>4. s[z] = s[x]
        BY <2>1, <2>3, SearchKeeps
    <2> QED
        BY <2>4 DEF z
<1>2. s[y] = ScanStep(lines, path, s[y - 1], y)
    BY DEF Searches
<1>3. s[y] = ScanStep(lines, path, On(m, d, 0), y)
    BY <1>1, <1>2
<1> QED
    BY <1>3, TakesKey

\* What lies between two keys of the service.
LEMMA BetweenKeys ==
    ASSUME NEW ps, NEW R, NEW L, NEW a, NEW b, NEW r, Laid(ps, R, L, a, b, r),
           NEW x \in a..b, NEW y \in a..b, L[y].key # None,
           NEW j \in (x + 1)..(y - 1)
    PROVE  /\ r[x] \in Nat /\ r[y] \in Nat /\ r[j] \in Nat
           /\ r[x] <= r[j] /\ r[j] < r[y] /\ (L[j].key # None => r[x] < r[j])
           /\ \/ Skipped(L[j])
              \/ \E v, l : /\ AtPlace(ps, r[j], v, l) /\ ~(L[j].indent < DepthAt(v, l))
                           /\ L[j].key = None \/ L[j].key = KeyAt(ps, v, l)
<1>1. /\ Service(ps, R, L, a, b, r) /\ a \in Nat /\ b \in Nat
      /\ \A i \in a..b : i \in 1..Len(L) /\ r[i] \in Nat
    BY RowsAre DEF Laid
<1>2. j \in a..b /\ x < j /\ j < y
    BY <1>1
<1>3. r[x] <= r[j] /\ r[j] < r[y] /\ (L[j].key # None => r[x] < r[j])
    BY <1>1, <1>2 DEF Service
<1>4. ASSUME ~Skipped(L[j])
      PROVE  \E v, l : /\ AtPlace(ps, r[j], v, l) /\ ~(L[j].indent < DepthAt(v, l))
                       /\ L[j].key = None \/ L[j].key = KeyAt(ps, v, l)
    <2>1. Numbered(ps, L[j], r[j])
        BY <1>1, <1>2 DEF Service
    <2>2. L[j].key # None \/ L[j].item # None
        BY <1>4 DEF Skipped
    <2>3. PICK v, l : AtPlace(ps, r[j], v, l)
        BY <2>1, <2>2, HasPlace
    <2>4. DepthAt(v, l) \in Nat
        BY DEF DepthAt
    <2>5. CASE L[j].key # None
        <3>1. L[j].key = KeyAt(ps, v, l) /\ L[j].indent = DepthAt(v, l)
            BY <2>1, <2>3, <2>5, NumberOfKey
        <3> QED
            BY <2>3, <2>4, <3>1
    <2>6. CASE L[j].key = None
        <3>1. ItemDepth(L[j], v, l)
            BY <2>1, <2>2, <2>3, <2>6, NumberOfItem
        <3>2. ~(L[j].indent < DepthAt(v, l))
            BY <2>4, <3>1 DEF ItemDepth
        <3> QED
            BY <2>3, <2>6, <3>2
    <2> QED
        BY <2>5, <2>6
<1> QED
    BY <1>1, <1>2, <1>3, <1>4

\* The names of keys are told apart.
LEMMA KeysDiffer ==
    ASSUME PositionAssumption
    PROVE  /\ \A k \in 1..3 : StageAt(k) \in Stages /\ StageAt(k) # None /\ StageAt(k) # "service"
           /\ \A x \in DOMAIN Lower : x # None /\ x # "service" /\ \A k \in 1..3 : x # StageAt(k)
           /\ \A k, l \in 1..3 : StageAt(k) = StageAt(l) => k = l
           /\ None # "service" /\ None # "pipelines" /\ None # "extensions"
<1>1. StageAt(1) = "receivers" /\ StageAt(2) = "processors" /\ StageAt(3) = "exporters"
    BY DEF StageAt
<1>2. \A k \in 1..3 : k = 1 \/ k = 2 \/ k = 3
    OBVIOUS
<1>3. /\ None \notin DOMAIN Lower /\ None \notin Sections /\ None \notin Settings
      /\ None # "pipelines" /\ (Stages \cup {"service"}) \cap DOMAIN Lower = {}
    BY DEF PositionAssumption
<1>4. \A k \in 1..3 : StageAt(k) \in Stages /\ StageAt(k) # "service"
    BY <1>1, <1>2 DEF Stages
<1>5. None # "service" /\ None # "extensions" /\ \A k \in 1..3 : StageAt(k) # None
    BY <1>1, <1>2, <1>3 DEF Sections, Settings
<1>6. \A k, l \in 1..3 : StageAt(k) = StageAt(l) => k = l
    BY <1>1, <1>2
<1> QED
    BY <1>3, <1>4, <1>5, <1>6

\* From the service to its extensions, from there to its pipelines, to one of
\* these, and to one of its lists: the search passes by all that is in between.
LEMMA OnToExtensions ==
    ASSUME PositionAssumption,
           NEW ps, NEW R, NEW L, NEW a, NEW b, NEW r, Laid(ps, R, L, a, b, r),
           NEW y, KeyIn(ps, L, a, b, r, y, 0, 1), NEW path, path[1 + 1] = "extensions",
           NEW j \in (a + 1)..(y - 1)
    PROVE  Passed(L, path, 1, 0, j)
<1>1. KeyIn(ps, L, a, b, r, a, 0, 0) /\ a \in a..b /\ r[a] = 0
    BY CommonKeys, KeyOfTheService
<1>2. y \in a..b /\ r[y] = 1 /\ L[y].key # None
    <2> DEFINE k == 1
    <2>1. (k = 1 \/ k = 2) /\ KeyIn(ps, L, a, b, r, y, 0, k)
        OBVIOUS
    <2> HIDE DEF k
    <2>2. /\ y \in a..b /\ r[y] = k /\ L[y].key # None /\ L[y].item = None
          /\ L[y].indent = 2
        BY <2>1, KeyInService
    <2> QED
        BY <2>2 DEF k
<1>3. /\ r[j] \in Nat /\ r[a] <= r[j] /\ r[j] < r[y] /\ (L[j].key # None => r[a] < r[j])
    BY <1>1, <1>2, BetweenKeys
<1>4. L[j].key = None
    BY <1>1, <1>2, <1>3
<1>5. ~(L[j].indent < 0)
    <2>1. a \in Nat /\ b \in Nat /\ \A i \in a..b : i \in 1..Len(L)
        BY RowsAre DEF Laid
    <2>2. \A i \in 1..Len(L) : L[i].indent \in Nat
        BY RowsAre DEF Laid
    <2>3. j \in a..b
        BY <1>2, <2>1
    <2>4. L[j].indent \in Nat
        BY <2>1, <2>2, <2>3
    <2> QED
        BY <2>4
<1>6. L[j].key # path[1 + 1]
    BY <1>4, KeysDiffer
<1> QED
    BY <1>5, <1>6 DEF Passed

LEMMA OnToPipelines ==
    ASSUME PositionAssumption,
           NEW ps, NEW R, NEW L, NEW a, NEW b, NEW r, Laid(ps, R, L, a, b, r),
           NEW y, KeyIn(ps, L, a, b, r, y, 0, 2), NEW path, path[1 + 1] = "pipelines",
           NEW j \in (a + 1)..(y - 1)
    PROVE  Passed(L, path, 1, 0, j)
<1>1. KeyIn(ps, L, a, b, r, a, 0, 0) /\ a \in a..b /\ r[a] = 0
    BY CommonKeys, KeyOfTheService
<1>2. y \in a..b /\ r[y] = 2 /\ L[y].key # None
    <2> DEFINE k == 2
    <2>1. (k = 1 \/ k = 2) /\ KeyIn(ps, L, a, b, r, y, 0, k)
        OBVIOUS
    <2> HIDE DEF k
    <2>2. /\ y \in a..b /\ r[y] = k /\ L[y].key # None /\ L[y].item = None
          /\ L[y].indent = 2
        BY <2>1, KeyInService
    <2> QED
        BY <2>2 DEF k
<1>3. /\ r[j] \in Nat /\ r[a] <= r[j] /\ r[j] < r[y] /\ (L[j].key # None => r[a] < r[j])
      /\ \/ Skipped(L[j])
         \/ \E v, l : /\ AtPlace(ps, r[j], v, l) /\ ~(L[j].indent < DepthAt(v, l))
                      /\ L[j].key = None \/ L[j].key = KeyAt(ps, v, l)
    BY <1>1, <1>2, BetweenKeys
<1>5. ~(L[j].indent < 0)
    <2>1. a \in Nat /\ b \in Nat /\ \A i \in a..b : i \in 1..Len(L)
        BY RowsAre DEF Laid
    <2>2. \A i \in 1..Len(L) : L[i].indent \in Nat
        BY RowsAre DEF Laid
    <2>3. j \in a..b
        BY <1>2, <2>1
    <2>4. L[j].indent \in Nat
        BY <2>1, <2>2, <2>3
    <2> QED
        BY <2>4
<1>6. ASSUME ~Skipped(L[j]) PROVE L[j].key # "pipelines"
    <2>1. PICK v, l : AtPlace(ps, r[j], v, l) /\ (L[j].key = None \/ L[j].key = KeyAt(ps, v, l))
        BY <1>3, <1>6
    <2>2. CASE L[j].key = None
        BY <2>2, KeysDiffer
    <2>3. CASE L[j].key # None
        <3>1. v \in Nat /\ l \in 0..3 /\ r[j] = 4 * v + l
            BY <2>1 DEF AtPlace, Place
        <3>2. r[j] = 1
            BY <1>1, <1>2, <1>3, <2>3
        <3>3. v = 0 /\ l = 1
            BY <3>1, <3>2
        <3>4. L[j].key = "extensions"
            BY <2>1, <2>3, <3>3 DEF KeyAt
        <3> QED
            BY <3>4
    <2> QED
        BY <2>2, <2>3
<1> QED
    BY <1>5, <1>6 DEF Passed

LEMMA OnToPipeline ==
    ASSUME PositionAssumption,
           NEW ps, NEW R, NEW L, NEW a, NEW b, NEW r, Laid(ps, R, L, a, b, r),
           NEW x, KeyIn(ps, L, a, b, r, x, 0, 2),
           NEW y, NEW u, u # 0, KeyIn(ps, L, a, b, r, y, u, 0), NEW path, path[2 + 1] = ps[u].name,
           NEW j \in (x + 1)..(y - 1)
    PROVE  Passed(L, path, 2, 2, j)
<1>1. x \in a..b /\ r[x] = 2
    <2> DEFINE k == 2
    <2>1. (k = 1 \/ k = 2) /\ KeyIn(ps, L, a, b, r, x, 0, k)
        OBVIOUS
    <2> HIDE DEF k
    <2>2. /\ x \in a..b /\ r[x] = k /\ L[x].key # None /\ L[x].item = None
          /\ L[x].indent = 2
        BY <2>1, KeyInService
    <2> QED
        BY <2>2 DEF k
<1>2. y \in a..b /\ r[y] = 4 * u /\ u \in 1..Len(ps) /\ Len(ps) \in Nat /\ L[y].key # None
    <2>1. y \in a..b /\ L[y].key # None /\ u \in Nat /\ u \in 0..Len(ps) /\ r[y] = 4 * u + 0
        BY DEF KeyIn, AtPlace, Place
    <2>2. Len(ps) \in Nat
        BY DEF Laid, Pipelines
    <2> QED
        BY <2>1, <2>2
<1>3. /\ r[j] \in Nat /\ r[x] <= r[j] /\ r[j] < r[y] /\ (L[j].key # None => r[x] < r[j])
      /\ \/ Skipped(L[j])
         \/ \E v, l : /\ AtPlace(ps, r[j], v, l) /\ ~(L[j].indent < DepthAt(v, l))
                      /\ L[j].key = None \/ L[j].key = KeyAt(ps, v, l)
    BY <1>1, <1>2, BetweenKeys
<1>4. \A i \in 1..Len(ps) : ps[i].name \in DOMAIN Lower /\ (ps[i].name = ps[u].name => i = u)
    <2>1. ps \in Seq(Pipeline)
        BY DEF Laid, Pipelines
    <2>2. \A i \in 1..Len(ps) : ps[i] \in Pipeline
        BY <2>1
    <2>3. \A i \in 1..Len(ps) : ps[i].name \in DOMAIN Lower
        BY <2>2 DEF Pipeline
    <2>4. \A i \in 1..Len(ps) : ps[i].name = ps[u].name => i = u
        BY <1>2 DEF Laid, Pipelines
    <2> QED
        BY <2>3, <2>4
<1>5. ASSUME ~Skipped(L[j]) PROVE L[j].key # ps[u].name /\ ~(L[j].indent < 2)
    <2>1. PICK v, l : /\ AtPlace(ps, r[j], v, l) /\ ~(L[j].indent < DepthAt(v, l))
                      /\ L[j].key = None \/ L[j].key = KeyAt(ps, v, l)
        BY <1>3, <1>5
    <2>2. v \in Nat /\ v \in 0..Len(ps) /\ l \in 0..3 /\ r[j] = 4 * v + l
        BY <2>1 DEF AtPlace, Place
    <2>3. v < u /\ (v = 0 => l # 0)
        BY <1>1, <1>2, <1>3, <2>2
    <2>4. DepthAt(v, l) \in {2, 4, 6}
        BY <2>3 DEF DepthAt
    <2>5. L[j].indent \in Nat
        <3>1. a \in Nat /\ b \in Nat /\ \A i \in a..b : i \in 1..Len(L)
            BY RowsAre DEF Laid
        <3>2. \A i \in 1..Len(L) : L[i].indent \in Nat
            BY RowsAre DEF Laid
        <3>3. j \in a..b
            BY <1>1, <1>2, <3>1
        <3> QED
            BY <3>1, <3>2, <3>3
    <2>6. ~(L[j].indent < 2)
        BY <2>1, <2>4, <2>5
    <2>7. L[j].key # ps[u].name
        <3>1. CASE L[j].key = None
            BY <1>2, <1>4, <3>1, KeysDiffer
        <3>2. CASE L[j].key # None /\ l = 0
            <4>1. v # 0 /\ L[j].key = ps[v].name
                BY <2>1, <2>3, <3>2 DEF KeyAt
            <4>2. v \in 1..Len(ps)
                BY <1>2, <2>2, <4>1
            <4> QED
                BY <1>2, <1>4, <2>3, <4>1, <4>2
        <3>3. CASE L[j].key # None /\ l # 0
            <4>1. v # 0
                <5>1. l # 3 \/ v # 0
                    BY <2>1 DEF AtPlace, Place
                <5>2. r[j] > 2
                    BY <1>1, <1>3, <3>3
                <5> QED
                    BY <2>2, <5>1, <5>2
            <4>2. L[j].key = StageAt(l) /\ l \in 1..3
                BY <2>1, <2>2, <3>3, <4>1 DEF KeyAt
            <4> QED
                BY <1>2, <1>4, <4>2, KeysDiffer
        <3> QED
            BY <3>1, <3>2, <3>3
    <2> QED
        BY <2>6, <2>7
<1> QED
    BY <1>5 DEF Passed

LEMMA OnToList ==
    ASSUME PositionAssumption,
           NEW ps, NEW R, NEW L, NEW a, NEW b, NEW r, Laid(ps, R, L, a, b, r),
           NEW u, u # 0, NEW x, KeyIn(ps, L, a, b, r, x, u, 0),
           NEW y, NEW k, k # 0, KeyIn(ps, L, a, b, r, y, u, k), NEW path, path[3 + 1] = StageAt(k),
           NEW j \in (x + 1)..(y - 1)
    PROVE  Passed(L, path, 3, 4, j)
<1>1. x \in a..b /\ r[x] = 4 * u /\ u \in Nat /\ u # 0
    BY DEF KeyIn, AtPlace
<1>2. y \in a..b /\ r[y] = 4 * u + k /\ k \in 1..3 /\ L[y].key # None
    BY DEF KeyIn, AtPlace, Place
<1>3. /\ r[j] \in Nat /\ r[x] <= r[j] /\ r[j] < r[y] /\ (L[j].key # None => r[x] < r[j])
      /\ \/ Skipped(L[j])
         \/ \E v, l : /\ AtPlace(ps, r[j], v, l) /\ ~(L[j].indent < DepthAt(v, l))
                      /\ L[j].key = None \/ L[j].key = KeyAt(ps, v, l)
    BY <1>1, <1>2, BetweenKeys
<1>5. ASSUME ~Skipped(L[j]) PROVE L[j].key # StageAt(k) /\ ~(L[j].indent < 4)
    <2>1. PICK v, l : /\ AtPlace(ps, r[j], v, l) /\ ~(L[j].indent < DepthAt(v, l))
                      /\ L[j].key = None \/ L[j].key = KeyAt(ps, v, l)
        BY <1>3, <1>5
    <2>2. v \in Nat /\ l \in 0..3 /\ r[j] = 4 * v + l
        BY <2>1 DEF AtPlace, Place
    <2>3. v = u /\ l < k /\ (L[j].key # None => l # 0)
        BY <1>1, <1>2, <1>3, <2>2
    <2>4. DepthAt(v, l) \in {4, 6}
        BY <1>1, <2>3 DEF DepthAt
    <2>5. L[j].indent \in Nat
        <3>1. a \in Nat /\ b \in Nat /\ \A i \in a..b : i \in 1..Len(L)
            BY RowsAre DEF Laid
        <3>2. \A i \in 1..Len(L) : L[i].indent \in Nat
            BY RowsAre DEF Laid
        <3>3. j \in a..b
            BY <1>1, <1>2, <3>1
        <3> QED
            BY <3>1, <3>2, <3>3
    <2>6. ~(L[j].indent < 4)
        BY <2>1, <2>4, <2>5
    <2>7. L[j].key # StageAt(k)
        <3>1. CASE L[j].key = None
            BY <1>2, <3>1, KeysDiffer
        <3>2. CASE L[j].key # None
            <4>1. L[j].key = StageAt(l) /\ l \in 1..3 /\ l # k
                BY <1>1, <1>2, <2>1, <2>2, <2>3, <3>2 DEF KeyAt
            <4> QED
                BY <1>2, <4>1, KeysDiffer
        <3> QED
            BY <3>1, <3>2
    <2> QED
        BY <2>6, <2>7
<1> QED
    BY <1>5 DEF Passed

-----------------------------------------------------------------------------
(* Where the search goes astray                                            *)

\* The paths that are sought.
Sought(path) ==
    /\ path[1] = "service"
    /\ \/ path[2] = "extensions" /\ Len(path) = 2
       \/ path[2] = "pipelines" /\ Len(path) \in Nat /\ Len(path) > 2

\* A section that is taken for the list of extensions.
Astray(L, f, i) ==
    f \in 2..i /\ L[f].key = "extensions" /\ L[f].indent = 0 /\ L[f - 1].key = "service"

\* How far the search may be while it is in the sections before the service: it
\* has not begun, or has taken a setting for the service, or has gone astray.
Before(L, s, path, i) ==
    \/ s[i] = On(0, 0, 0) /\ (i # 0 => L[i].key # "service")
    \/ s[i] = On(1, 4, 0) /\ i # 0 /\ L[i].key = "service" /\ L[i].indent = 4
    \/ path[2] = "extensions" /\ s[i].found # 0 /\ Astray(L, s[i].found, i)

LEMMA BeginsAnew ==
    ASSUME NEW lines, NEW path, NEW m, NEW d, NEW j, ~Skipped(lines[j]),
           lines[j].key # path[m + 1], lines[j].indent < d
    PROVE  ScanStep(lines, path, On(m, d, 0), j) = On(0, 0, 0)
<1> DEFINE S == On(m, d, 0)
<1>1. S.at = m /\ S.indent = d /\ S.found = 0
    BY DEF On
<1> HIDE DEF S
<1>2. ScanStep(lines, path, S, j) = On(0, 0, 0)
    BY <1>1 DEF ScanStep, On
<1> QED
    BY <1>2 DEF S

\* The kinds of lines of sections.
LEMMA SectionLineIs ==
    ASSUME PositionAssumption, NEW L, NEW j, SectionLine(L, j)
    PROVE  /\ ~Skipped(L[j]) /\ L[j].item = None /\ L[j].key # None /\ L[j].key # "pipelines"
           /\ L[j].indent \in {0, 2, 4}
           /\ L[j].key = "service" => L[j].indent = 4
           /\ L[j].key = "extensions" => L[j].indent = 0
           /\ L[j].indent = 4 => L[j - 1].indent = 2
<1>1. /\ None \notin Names /\ None \notin Sections /\ None \notin Settings
      /\ "service" \notin Names /\ "pipelines" \notin Names /\ "extensions" \notin Names
    BY DEF PositionAssumption
<1>2. /\ "service" \notin Sections /\ "pipelines" \notin Sections /\ "pipelines" \notin Settings
      /\ "extensions" \notin Settings
    BY DEF Sections, Settings
<1> QED
    BY <1>1, <1>2 DEF SectionLine, Skipped

LEMMA SectionsSearched ==
    ASSUME PositionAssumption, NEW L, NEW path, NEW s, Searches(s, L, path), Sought(path),
           Len(L) \in Nat, NEW n \in 0..Len(L), \A j \in 1..n : SectionLine(L, j)
    PROVE  \A i \in 0..n : Before(L, s, path, i)
<1> DEFINE P == {i \in Nat : i <= n => Before(L, s, path, i)}
<1>1. 0 \in P
    BY DEF Searches, Start, Before, On
<1>2. ASSUME NEW i \in Nat, i \in P PROVE i + 1 \in P
    <2> DEFINE j == i + 1
    <2>1. SUFFICES ASSUME j <= n PROVE Before(L, s, path, j)
        OBVIOUS
    <2>2. j \in 1..Len(L) /\ j \in 1..n /\ j - 1 = i /\ j # 0 /\ j \in Nat /\ i <= n /\ i \in 0..(j - 1)
        BY <2>1
    <2>3. Before(L, s, path, i)
        BY <1>2, <2>2
    <2> HIDE DEF j
    <2>4. s[j] = ScanStep(L, path, s[i], j)
        BY <2>2 DEF Searches
    <2>5. SectionLine(L, j)
        BY <2>2
    <2>6. /\ ~Skipped(L[j]) /\ L[j].item = None /\ L[j].key # None /\ L[j].key # "pipelines"
          /\ L[j].indent \in {0, 2, 4}
          /\ L[j].key = "service" => L[j].indent = 4
          /\ L[j].key = "extensions" => L[j].indent = 0
          /\ L[j].indent = 4 => L[i].indent = 2
        BY <2>2, <2>5, SectionLineIs
    <2>7. path[0 + 1] = "service" /\ path[1 + 1] \in {"extensions", "pipelines"} /\ 0 + 1 # Len(path)
        BY DEF Sought
    <2>8. CASE s[i] = On(0, 0, 0)
        <3>1. CASE L[j].key = "service"
            <4> DEFINE m == 0
            <4>3. s[j] = ScanStep(L, path, On(m, 0, 0), j) /\ L[j].key = path[m + 1]
                BY <2>4, <2>7, <2>8, <3>1
            <4> HIDE DEF m
            <4>1. s[j] = On(m + 1, L[j].indent, IF m + 1 = Len(path) THEN j ELSE 0)
                BY <2>6, <4>3, TakesKey
            <4>2. s[j] = On(1, 4, 0)
                BY <2>6, <2>7, <3>1, <4>1 DEF m
            <4> QED
                BY <2>2, <2>6, <3>1, <4>2 DEF Before
        <3>2. CASE L[j].key # "service"
            <4>1. Passed(L, path, 0, 0, j)
                BY <2>6, <2>7, <3>2 DEF Passed
            <4>2. s[j] = On(0, 0, 0)
                BY <2>4, <2>8, <4>1, PassesBy
            <4> QED
                BY <3>2, <4>2 DEF Before
        <3> QED
            BY <3>1, <3>2
    <2>9. CASE s[i] = On(1, 4, 0) /\ i # 0 /\ L[i].key = "service" /\ L[i].indent = 4
        <3>1. L[j].indent < 4 /\ L[j].key # "service"
            BY <2>6, <2>9
        <3>2. CASE L[j].key = path[1 + 1]
            <4>1. path[2] = "extensions" /\ L[j].key = "extensions"
                BY <2>6, <2>7, <3>2
            <4> DEFINE m == 1
            <4>7. s[j] = ScanStep(L, path, On(m, 4, 0), j) /\ L[j].key = path[m + 1]
                BY <2>4, <2>9, <3>2
            <4> HIDE DEF m
            <4>2. s[j] = On(m + 1, L[j].indent, IF m + 1 = Len(path) THEN j ELSE 0)
                BY <2>6, <4>7, TakesKey
            <4>3. m + 1 = Len(path)
                BY <4>1 DEF Sought, m
            <4>4. s[j].found = j
                BY <4>2, <4>3 DEF On
            <4>5. j \in 2..j
                BY <2>2, <2>9
            <4>6. Astray(L, j, j)
                BY <2>2, <2>6, <2>9, <4>1, <4>5 DEF Astray
            <4> QED
                BY <2>2, <4>1, <4>4, <4>6 DEF Before
        <3>3. CASE L[j].key # path[1 + 1]
            <4>1. s[j] = On(0, 0, 0)
                BY <2>4, <2>6, <2>9, <3>1, <3>3, BeginsAnew
            <4> QED
                BY <3>1, <4>1 DEF Before
        <3> QED
            BY <3>2, <3>3
    <2>10. CASE path[2] = "extensions" /\ s[i].found # 0 /\ Astray(L, s[i].found, i)
        <3>1. s[j] = s[i]
            BY <2>4, <2>10 DEF ScanStep
        <3> DEFINE f == s[i].found
        <3>2. Astray(L, f, i)
            BY <2>10
        <3> HIDE DEF f
        <3>3. f \in 2..j
            BY <2>2, <3>2 DEF Astray
        <3>4. Astray(L, f, j)
            BY <3>2, <3>3 DEF Astray
        <3> QED
            BY <2>10, <3>1, <3>4 DEF Before, f
    <2> QED
        BY <2>3, <2>8, <2>9, <2>10 DEF Before
<1> HIDE DEF P
<1>3. Nat \subseteq P
    BY <1>1, <1>2, AllNumbers
<1>4. \A i \in 0..n : i \in P
    BY <1>3
<1> QED
    BY <1>4 DEF P

\* The lines before the service are those of sections, and the search comes
\* from them to the service.
LEMMA SearchBegins ==
    ASSUME PositionAssumption,
           NEW ps, NEW R, NEW L, NEW a, NEW b, NEW r, Laid(ps, R, L, a, b, r),
           NEW path, NEW s, Searches(s, L, path), Sought(path)
    PROVE  /\ a \in 1..Len(L) /\ Len(L) \in Nat
           /\ L[a].key = "service" /\ L[a].indent = 0
           /\ \A j \in 1..(a - 1) : SectionLine(L, j)
           /\ \A i \in 0..(a - 1) : Before(L, s, path, i)
<1>1. /\ Service(ps, R, L, a, b, r) /\ a \in Nat /\ b \in Nat /\ Len(L) \in Nat /\ 1 <= a
      /\ \A i \in a..b : i \in 1..Len(L)
    BY RowsAre DEF Laid, Service
<1>2. KeyIn(ps, L, a, b, r, a, 0, 0)
    BY CommonKeys
<1>3. a \in 1..Len(L)
    BY <1>1, <1>2 DEF KeyIn
<1>4. L[a].key = "service" /\ L[a].indent = 0
    <2> DEFINE u == 0
               k == 0
    <2>1. KeyIn(ps, L, a, b, r, a, u, k)
        BY <1>2
    <2> HIDE DEF u, k
    <2>2. /\ a \in a..b /\ r[a] = 4 * u + k /\ u \in 0..Len(ps) /\ k \in 0..3 /\ Len(ps) \in Nat
          /\ L[a].key # None /\ L[a].item = None
          /\ L[a].key = KeyAt(ps, u, k) /\ L[a].indent = DepthAt(u, k)
        BY <2>1, KeyTells
    <2> QED
        BY <2>2 DEF u, k, KeyAt, DepthAt
<1>5. ASSUME NEW j \in 1..(a - 1) PROVE SectionLine(L, j)
    <2>1. j \in 1..Len(L) /\ j \notin a..b
        BY <1>1, <1>3
    <2> QED
        BY <1>1, <2>1 DEF Service
<1>6. a - 1 \in 0..Len(L)
    BY <1>1, <1>3
<1>7. \A i \in 0..(a - 1) : Before(L, s, path, i)
    BY <1>1, <1>5, <1>6, SectionsSearched
<1> QED
    BY <1>1, <1>3, <1>4, <1>5, <1>7

\* A search that has gone astray was sidetracked.
LEMMA AstrayIsSidetracked ==
    ASSUME PositionAssumption,
           NEW ps, NEW R, NEW L, NEW a, NEW b, NEW r, Laid(ps, R, L, a, b, r),
           NEW path, NEW s, Searches(s, L, path), Sought(path),
           NEW f, NEW i \in 0..(a - 1), Astray(L, f, i)
    PROVE  Sidetracked(L, "extensions")
<1>1. /\ a \in 1..Len(L) /\ Len(L) \in Nat
      /\ \A j \in 1..(a - 1) : SectionLine(L, j)
    BY SearchBegins
<1>2. f \in 2..Len(L) /\ f < a
    BY <1>1 DEF Astray
<1>3. ASSUME NEW j \in 1..(f - 1) PROVE ~(L[j].key = "service" /\ L[j].indent = 0)
    <2>1. j \in 1..(a - 1)
        BY <1>1, <1>2
    <2>2. SectionLine(L, j)
        BY <1>1, <2>1
    <2>3. L[j].key = "service" => L[j].indent = 4
        BY <2>2, SectionLineIs
    <2> QED
        BY <2>3
<1>4. L[f].key = "extensions" /\ L[f].indent = 0 /\ L[f - 1].key = "service"
    BY DEF Astray
<1> QED
    BY <1>2, <1>3, <1>4 DEF Sidetracked

\* A search that is sidetracked by the section of the extensions marks it.
LEMMA SidetrackedGoesAstray ==
    ASSUME PositionAssumption,
           NEW ps, NEW R, NEW L, NEW a, NEW b, NEW r, Laid(ps, R, L, a, b, r),
           NEW path, Sought(path), path[2] = "extensions", Sidetracked(L, "extensions")
    PROVE  KeyLine(L, path) < a /\ Astray(L, KeyLine(L, path), a - 1)
<1>0. Len(L) \in Nat
    BY RowsAre DEF Laid
<1>1. PICK s : Searches(s, L, path)
    BY <1>0, KeyLineIs
<1>2. /\ a \in 1..Len(L) /\ L[a].key = "service" /\ L[a].indent = 0
      /\ \A j \in 1..(a - 1) : SectionLine(L, j)
      /\ \A i \in 0..(a - 1) : Before(L, s, path, i)
    BY <1>1, SearchBegins
<1>3. PICK i \in 2..Len(L) :
          /\ L[i].key = "extensions" /\ L[i].indent = 0 /\ L[i - 1].key = "service"
          /\ \A j \in 1..(i - 1) : ~(L[j].key = "service" /\ L[j].indent = 0)
    BY DEF Sidetracked
<1>4. i < a
    <2>1. a # i
        BY <1>2, <1>3
    <2>2. a \notin 1..(i - 1)
        BY <1>2, <1>3
    <2> QED
        BY <1>0, <1>2, <2>1, <2>2
<1>5. i \in 1..(a - 1) /\ i \in 0..(a - 1) /\ i - 1 \in 0..(a - 1) /\ i - 1 # 0 /\ i \in 1..Len(L)
    BY <1>0, <1>2, <1>4
<1>6. Before(L, s, path, i - 1) /\ Before(L, s, path, i)
    BY <1>2, <1>5
<1>7. s[i] = ScanStep(L, path, s[i - 1], i)
    BY <1>1, <1>5 DEF Searches
<1>8. L[i].key # None
    BY <1>3, KeysDiffer
<1>9. s[i].found # 0
    <2>1. CASE s[i - 1].found # 0
        BY <1>7, <2>1 DEF ScanStep
    <2>2. CASE s[i - 1].found = 0
        <3>1. s[i - 1] = On(1, 4, 0)
            BY <1>3, <1>5, <1>6, <2>2 DEF Before
        <3> DEFINE m == 1
        <3>2. s[i] = ScanStep(L, path, On(m, 4, 0), i) /\ L[i].key = path[m + 1]
            BY <1>3, <1>7, <3>1
        <3>3. m + 1 = Len(path)
            BY DEF Sought
        <3> HIDE DEF m
        <3>4. s[i] = On(m + 1, L[i].indent, IF m + 1 = Len(path) THEN i ELSE 0)
            BY <1>8, <3>2, TakesKey
        <3>5. s[i].found = i
            BY <3>3, <3>4 DEF On
        <3> QED
            BY <1>5, <3>5
    <2> QED
        BY <2>1, <2>2
<1>10. Astray(L, s[i].found, i)
    BY <1>6, <1>9 DEF Before, On
<1>11. KeyLine(L, path) = s[i].found
    <2>1. i \in 0..Len(L)
        BY <1>5
    <2> QED
        BY <1>0, <1>1, <1>9, <2>1, FoundStays
<1> DEFINE f == KeyLine(L, path)
<1>12. Astray(L, f, i)
    BY <1>10, <1>11
<1> HIDE DEF f
<1>13. f \in 2..(a - 1) /\ f < a
    BY <1>0, <1>2, <1>5, <1>12 DEF Astray
<1>14. Astray(L, f, a - 1)
    BY <1>12, <1>13 DEF Astray
<1> QED
    BY <1>13, <1>14 DEF f

\* Where the search stands when the service begins, if it has not gone astray.
LEMMA BeforeService ==
    ASSUME PositionAssumption,
           NEW ps, NEW R, NEW L, NEW a, NEW b, NEW r, Laid(ps, R, L, a, b, r),
           NEW path, NEW s, Searches(s, L, path), Sought(path),
           path[2] = "extensions" => ~Sidetracked(L, "extensions")
    PROVE  IF Sidetracked(L, "service") THEN s[a - 1] = On(1, 4, 0) ELSE s[a - 1] = On(0, 0, 0)
<1>1. /\ a \in 1..Len(L) /\ Len(L) \in Nat /\ L[a].key = "service" /\ L[a].indent = 0
      /\ \A j \in 1..(a - 1) : SectionLine(L, j)
      /\ \A i \in 0..(a - 1) : Before(L, s, path, i)
    BY SearchBegins
<1> DEFINE i == a - 1
<1>2. i \in 0..(a - 1) /\ i \in Nat
    BY <1>1
<1>3. Before(L, s, path, i)
    BY <1>1, <1>2
<1>4. ~(path[2] = "extensions" /\ s[i].found # 0 /\ Astray(L, s[i].found, i))
    <2> HIDE DEF i
    <2> QED
        BY <1>2, AstrayIsSidetracked
<1>5. CASE Sidetracked(L, "service")
    <2>1. PICK j \in 2..Len(L) :
          /\ L[j].key = "service" /\ L[j].indent = 0 /\ L[j - 1].key = "service"
          /\ \A n \in 1..(j - 1) : ~(L[n].key = "service" /\ L[n].indent = 0)
        BY <1>5 DEF Sidetracked
    <2>2. a \notin 1..(j - 1)
        BY <1>1, <2>1
    <2>3. j \notin 1..(a - 1)
        <3>1. ASSUME j \in 1..(a - 1) PROVE FALSE
            <4>1. SectionLine(L, j)
                BY <1>1, <3>1
            <4>2. L[j].key = "service" => L[j].indent = 4
                BY <4>1, SectionLineIs
            <4> QED
                BY <2>1, <4>2
        <3> QED
            BY <3>1
    <2>4. j = a
        BY <1>1, <2>2, <2>3
    <2>5. i # 0 /\ L[i].key = "service"
        BY <2>1, <2>4
    <2> HIDE DEF i
    <2>6. s[i] = On(1, 4, 0)
        BY <1>3, <1>4, <2>5 DEF Before
    <2> QED
        BY <1>5, <2>6 DEF i
<1>6. CASE ~Sidetracked(L, "service")
    <2>1. ~(i # 0 /\ L[i].key = "service")
        <3>1. ASSUME i # 0, L[i].key = "service" PROVE FALSE
            <4>1. a \in 2..Len(L)
                BY <1>1, <3>1
            <4>2. ASSUME NEW j \in 1..(a - 1) PROVE ~(L[j].key = "service" /\ L[j].indent = 0)
                <5>1. SectionLine(L, j)
                    BY <1>1
                <5>2. L[j].key = "service" => L[j].indent = 4
                    BY <5>1, SectionLineIs
                <5> QED
                    BY <5>2
            <4>3. L[a - 1].key = "service"
                BY <3>1
            <4>4. Sidetracked(L, "service")
                BY <1>1, <4>1, <4>2, <4>3 DEF Sidetracked
            <4> QED
                BY <1>6, <4>4
        <3> QED
            BY <3>1
    <2> HIDE DEF i
    <2>2. s[i] = On(0, 0, 0)
        BY <1>3, <1>4, <2>1 DEF Before
    <2> QED
        BY <1>6, <2>2 DEF i
<1> QED
    BY <1>5, <1>6

\* The service itself is passed over if a setting was taken for it, and then
\* nothing is found, since the service comes last.
LEMMA OverlookedIsNotFound ==
    ASSUME PositionAssumption,
           NEW ps, NEW R, NEW L, NEW a, NEW b, NEW r, Laid(ps, R, L, a, b, r),
           a = 1 \/ b = Len(L),
           NEW path, Sought(path), path[2] = "extensions" => ~Sidetracked(L, "extensions"),
           Sidetracked(L, "service")
    PROVE  KeyLine(L, path) = 0
<1>0. /\ Len(L) \in Nat /\ a \in Nat /\ b \in Nat
      /\ \A j \in a..b : j \in 1..Len(L) /\ r[j] \in Nat
      /\ \A j \in 1..Len(L) : L[j].indent \in Nat
    BY RowsAre DEF Laid
<1>1. PICK s : Searches(s, L, path)
    BY <1>0, KeyLineIs
<1>2. a \in 1..Len(L) /\ L[a].key = "service" /\ L[a].indent = 0
    BY <1>1, SearchBegins
<1>3. s[a - 1] = On(1, 4, 0)
    BY <1>1, BeforeService
<1>4. s[a] = On(0, 0, 0)
    <2>1. s[a] = ScanStep(L, path, s[a - 1], a)
        BY <1>1, <1>2 DEF Searches
    <2>2. ~Skipped(L[a])
        BY <1>2, KeysDiffer DEF Skipped
    <2> DEFINE m == 1
    <2>3. L[a].key # path[m + 1]
        BY <1>2 DEF Sought
    <2>4. s[a] = ScanStep(L, path, On(m, 4, 0), a)
        BY <1>3, <2>1
    <2>5. L[a].indent < 4
        BY <1>2
    <2> HIDE DEF m
    <2> QED
        BY <2>2, <2>3, <2>4, <2>5, BeginsAnew
<1>5. b = Len(L)
    <2>1. a # 1
        <3>1. ASSUME a = 1 PROVE FALSE
            <4>1. s[0] = On(0, 0, 0)
                BY <1>1 DEF Searches, Start, On
            <4>2. a - 1 = 0
                BY <3>1
            <4>3. s[0] = On(1, 4, 0)
                BY <1>3, <4>2
            <4>4. On(0, 0, 0).at = 0 /\ On(1, 4, 0).at = 1
                BY DEF On
            <4> QED
                BY <4>1, <4>3, <4>4
        <3> QED
            BY <3>1
    <2> QED
        BY <2>1
<1>6. ASSUME NEW j \in (a + 1)..b PROVE L[j].key # "service"
    <2>1. j \in a..b /\ a < j /\ a \in a..b
        BY <1>0
    <2>2. CASE L[j].key = None
        BY <2>2, KeysDiffer
    <2>3. CASE L[j].key # None
        <3>1. PICK u, k : KeyIn(ps, L, a, b, r, j, u, k)
            BY <2>1, <2>3, KeyHasPlace
        <3>2. L[j].key = KeyAt(ps, u, k)
            BY <3>1, KeyTells
        <3>3. u \in Nat /\ k \in 0..3 /\ (u # 0 => u \in 1..Len(ps)) /\ (u = 0 => k # 3)
            <4>1. Len(ps) \in Nat
                BY DEF Laid, Pipelines
            <4>2. u \in Nat /\ u \in 0..Len(ps) /\ k \in 0..3 /\ (u = 0 => k # 3)
                BY <3>1 DEF KeyIn, AtPlace, Place
            <4> QED
                BY <4>1, <4>2
        <3>4. u = 0 => k # 0
            <4>1. ASSUME u = 0, k = 0 PROVE FALSE
                <5>1. KeyIn(ps, L, a, b, r, j, 0, 0)
                    BY <3>1, <4>1
                <5>2. j = a
                    BY <5>1, NearestOfService
                <5> QED
                    BY <1>0, <2>1, <5>2
            <4> QED
                BY <4>1
        <3>5. CASE u = 0
            <4>1. L[j].key \in {"extensions", "pipelines"}
                BY <3>2, <3>4, <3>5 DEF KeyAt
            <4> QED
                BY <4>1
        <3>6. CASE u # 0 /\ k = 0
            <4>1. L[j].key = ps[u].name
                BY <3>2, <3>6 DEF KeyAt
            <4>2. ps \in Seq(Pipeline)
                BY DEF Laid, Pipelines
            <4>3. ps[u] \in Pipeline
                BY <3>3, <3>6, <4>2
            <4>4. ps[u].name \in DOMAIN Lower
                BY <4>3 DEF Pipeline
            <4> QED
                BY <4>1, <4>4, KeysDiffer
        <3>7. CASE u # 0 /\ k # 0
            <4>1. L[j].key = StageAt(k) /\ k \in 1..3
                BY <3>2, <3>3, <3>7 DEF KeyAt
            <4> QED
                BY <4>1, KeysDiffer
        <3> QED
            BY <3>5, <3>6, <3>7
    <2> QED
        BY <2>2, <2>3
<1>7. \A j \in (a + 1)..Len(L) : ScanStep(L, path, s[a], j) = s[a]
    <2>1. ASSUME NEW j \in (a + 1)..Len(L) PROVE Passed(L, path, 0, 0, j)
        <3>1. L[j].key # "service" /\ L[j].indent \in Nat
            BY <1>0, <1>5, <1>6
        <3>2. path[0 + 1] = "service"
            BY DEF Sought
        <3> QED
            BY <3>1, <3>2 DEF Passed
    <2> QED
        BY <1>4, <2>1, PassesBy
<1>8. s[Len(L)] = s[a]
    <2>1. a \in 0..Len(L) /\ Len(L) \in 0..Len(L) /\ a <= Len(L)
        BY <1>0, <1>2
    <2> QED
        BY <1>0, <1>1, <1>7, <2>1, SearchKeeps
<1>9. On(0, 0, 0).found = 0
    BY DEF On
<1> QED
    BY <1>1, <1>4, <1>8, <1>9 DEF Searches

\* The search has taken the m-th key by the line x and passes by what lies between,
\* as far as the line y, which has the n-th, the next.
Hop(lines, path, s, m, d, x, y, n) ==
    /\ Len(lines) \in Nat /\ x \in 0..Len(lines) /\ y \in 1..Len(lines) /\ x < y
    /\ s[x] = On(m, d, 0)
    /\ \A j \in (x + 1)..(y - 1) : Passed(lines, path, m, d, j)
    /\ lines[y].key # None /\ lines[y].key = path[m + 1] /\ n = m + 1

LEMMA SearchReaches ==
    ASSUME NEW lines, NEW path, NEW s, Searches(s, lines, path),
           NEW m, NEW d, NEW x, NEW y, NEW n, Hop(lines, path, s, m, d, x, y, n)
    PROVE  /\ n # Len(path) => s[y] = On(n, lines[y].indent, 0)
           /\ n = Len(path) => KeyLine(lines, path) = y
<1>0. /\ Len(lines) \in Nat /\ x \in 0..Len(lines) /\ y \in 1..Len(lines) /\ x < y
      /\ s[x] = On(m, d, 0)
      /\ \A j \in (x + 1)..(y - 1) : Passed(lines, path, m, d, j)
      /\ lines[y].key # None /\ lines[y].key = path[m + 1] /\ n = m + 1
    BY DEF Hop
<1>1. s[y] = On(m + 1, lines[y].indent, IF m + 1 = Len(path) THEN y ELSE 0)
    BY <1>0, SearchTakes
<1>2. s[y] = On(n, lines[y].indent, IF n = Len(path) THEN y ELSE 0)
    BY <1>0, <1>1
<1>3. ASSUME n = Len(path) PROVE KeyLine(lines, path) = y
    <2>1. s[y] = On(n, lines[y].indent, y)
        BY <1>2, <1>3
    <2>2. s[y].found = y /\ y # 0 /\ y \in 0..Len(lines)
        BY <1>0, <2>1 DEF On
    <2> QED
        BY <1>0, <2>2, FoundStays
<1> QED
    BY <1>2, <1>3

-----------------------------------------------------------------------------
(* The search for a path of the service                                    *)

\* The place of a complaint.
Asked(ps, u, k) == (u = 0 /\ k = 1) \/ u # 0

LEMMA AskedIsSought ==
    ASSUME NEW ps, NEW u, NEW k, Asked(ps, u, k)
    PROVE  Sought(PathAt(ps, u, k)) /\ (PathAt(ps, u, k)[2] = "extensions" <=> u = 0)
<1>1. CASE u = 0 /\ k = 1
    <2>1. PathAt(ps, u, k) = <<"service", "extensions">>
        BY <1>1 DEF PathAt, KeyAt
    <2> QED
        BY <1>1, <2>1 DEF Sought
<1>2. CASE u # 0 /\ k = 0
    <2>1. PathAt(ps, u, k) = <<"service", "pipelines", ps[u].name>>
        BY <1>2 DEF PathAt
    <2> QED
        BY <1>2, <2>1 DEF Sought
<1>3. CASE u # 0 /\ k # 0
    <2>1. PathAt(ps, u, k) = <<"service", "pipelines", ps[u].name, StageAt(k)>>
        BY <1>3 DEF PathAt
    <2> QED
        BY <1>3, <2>1 DEF Sought
<1> QED
    BY <1>1, <1>2, <1>3 DEF Asked

\* A search that is not sidetracked finds the key.
LEMMA SearchFinds ==
    ASSUME PositionAssumption,
           NEW ps, NEW R, NEW L, NEW a, NEW b, NEW r, Laid(ps, R, L, a, b, r),
           NEW u, NEW k, Asked(ps, u, k), NEW f, KeyIn(ps, L, a, b, r, f, u, k),
           u = 0 => ~Sidetracked(L, "extensions"), ~Sidetracked(L, "service")
    PROVE  KeyLine(L, PathAt(ps, u, k)) = f
<1> DEFINE path == PathAt(ps, u, k)
<1>0. /\ Service(ps, R, L, a, b, r) /\ Len(L) \in Nat /\ a \in Nat /\ b \in Nat
      /\ \A j \in a..b : j \in 1..Len(L) /\ r[j] \in Nat
    BY RowsAre DEF Laid
<1>1. Sought(path) /\ (path[2] = "extensions" <=> u = 0)
    BY AskedIsSought
<1>2. PICK s : Searches(s, L, path)
    BY <1>0, KeyLineIs
<1>3. /\ u = 0 /\ k = 1 => path = <<"service", "extensions">>
      /\ u # 0 /\ k = 0 => path = <<"service", "pipelines", ps[u].name>>
      /\ u # 0 /\ k # 0 => path = <<"service", "pipelines", ps[u].name, StageAt(k)>>
    BY DEF PathAt, KeyAt
<1> HIDE DEF path
<1>4. a \in 1..Len(L) /\ L[a].key = "service" /\ L[a].indent = 0
    BY <1>1, <1>2, SearchBegins
<1>5. s[a - 1] = On(0, 0, 0)
    BY <1>1, <1>2, BeforeService
<1>6. s[a] = On(1, 0, 0)
    <2> DEFINE m == 0
               n == 1
    <2>1. s[a - 1] = On(m, 0, 0) /\ L[a].key = path[m + 1] /\ n = m + 1 /\ n # Len(path)
        BY <1>1, <1>4, <1>5 DEF Sought
    <2>2. L[a].key # None
        BY <1>4, KeysDiffer
    <2> DEFINE x == a - 1
    <2>3. x \in 0..Len(L) /\ x < a
        BY <1>0, <1>4
    <2> DEFINE d == 0
    <2>4. \A j \in (x + 1)..(a - 1) : Passed(L, path, m, d, j)
        <3>1. ~\E j \in (x + 1)..(a - 1) : TRUE
            BY <1>0
        <3> QED
            BY <3>1
    <2>5. s[x] = On(m, d, 0)
        BY <2>1
    <2> HIDE DEF m, n, d, x
    <2>6. Hop(L, path, s, m, d, x, a, n)
        BY <1>0, <1>4, <2>1, <2>2, <2>3, <2>4, <2>5 DEF Hop
    <2>7. /\ n # Len(path) => s[a] = On(n, L[a].indent, 0)
          /\ n = Len(path) => KeyLine(L, path) = a
        BY <1>2, <2>6, SearchReaches
    <2>8. s[a] = On(n, L[a].indent, 0)
        BY <2>1, <2>7
    <2> QED
        BY <1>4, <2>8 DEF n
<1>7. \A y \in a..b : y # a => a < y /\ a \in 0..Len(L) /\ y \in 1..Len(L)
    BY <1>0, <1>4
<1>8. ASSUME NEW y, NEW l, l = 1 \/ l = 2, KeyIn(ps, L, a, b, r, y, 0, l),
             path[2] = KeyAt(ps, 0, l)
      PROVE  /\ 2 # Len(path) => s[y] = On(2, 2, 0)
             /\ 2 = Len(path) => KeyLine(L, path) = y
             /\ y \in 1..Len(L)
    <2>1. /\ y \in a..b /\ r[y] = l /\ L[y].key # None /\ L[y].item = None
          /\ L[y].indent = 2
        BY <1>8, KeyInService
    <2>2. L[y].key = KeyAt(ps, 0, l)
        <3> DEFINE v == 0
        <3>1. KeyIn(ps, L, a, b, r, y, v, l)
            BY <1>8
        <3> HIDE DEF v
        <3>2. L[y].key = KeyAt(ps, v, l)
            BY <3>1, KeyTells
        <3> QED
            BY <3>2 DEF v
    <2>3. y # a
        BY <1>4, <2>1
    <2> DEFINE m == 1
               n == 2
               d == 0
    <2>4. s[a] = On(m, d, 0) /\ n = m + 1 /\ L[y].key = path[m + 1]
        BY <1>6, <1>8, <2>2
    <2>5. \A j \in (a + 1)..(y - 1) : Passed(L, path, m, d, j)
        <3>1. CASE l = 1
            <4>1. KeyIn(ps, L, a, b, r, y, 0, 1) /\ path[1 + 1] = "extensions"
                BY <1>8, <3>1 DEF KeyAt
            <4> QED
                BY <4>1, OnToExtensions
        <3>2. CASE l = 2
            <4>1. KeyIn(ps, L, a, b, r, y, 0, 2) /\ path[1 + 1] = "pipelines"
                BY <1>8, <3>2 DEF KeyAt
            <4> QED
                BY <4>1, OnToPipelines
        <3> QED
            BY <1>8, <3>1, <3>2
    <2>6. a < y /\ a \in 0..Len(L) /\ y \in 1..Len(L)
        BY <1>7, <2>1, <2>3
    <2> HIDE DEF m, n, d
    <2>7. Hop(L, path, s, m, d, a, y, n)
        BY <1>0, <2>1, <2>4, <2>5, <2>6 DEF Hop
    <2>8. /\ n # Len(path) => s[y] = On(n, L[y].indent, 0)
          /\ n = Len(path) => KeyLine(L, path) = y
        BY <1>2, <2>7, SearchReaches
    <2> QED
        BY <2>1, <2>6, <2>8 DEF n
<1>9. CASE u = 0
    <2>1. k = 1
        BY <1>9 DEF Asked
    <2> DEFINE l == 1
    <2>2. (l = 1 \/ l = 2) /\ KeyIn(ps, L, a, b, r, f, 0, l) /\ path[2] = KeyAt(ps, 0, l)
        BY <1>3, <1>9, <2>1 DEF KeyAt
    <2>3. 2 = Len(path)
        BY <1>3, <1>9, <2>1
    <2> HIDE DEF l
    <2>4. 2 = Len(path) => KeyLine(L, path) = f
        BY <1>8, <2>2
    <2> QED
        BY <2>3, <2>4 DEF path
<1>10. CASE u # 0
    <2>1. PICK p : KeyIn(ps, L, a, b, r, p, 0, 2)
        BY CommonKeys
    <2>2. path[2] = "pipelines" /\ path[3] = ps[u].name /\ 2 # Len(path)
        BY <1>3, <1>10
    <2>3. s[p] = On(2, 2, 0) /\ p \in 1..Len(L)
        <3> DEFINE l == 2
        <3>1. (l = 1 \/ l = 2) /\ KeyIn(ps, L, a, b, r, p, 0, l) /\ path[2] = KeyAt(ps, 0, l)
            BY <2>1, <2>2 DEF KeyAt
        <3> HIDE DEF l
        <3>2. (2 # Len(path) => s[p] = On(2, 2, 0)) /\ p \in 1..Len(L)
            BY <1>8, <3>1
        <3> QED
            BY <2>2, <3>2
    <2>4. p \in a..b /\ r[p] = 2
        <3> DEFINE l == 2
        <3>1. (l = 1 \/ l = 2) /\ KeyIn(ps, L, a, b, r, p, 0, l)
            BY <2>1
        <3> HIDE DEF l
        <3>2. /\ p \in a..b /\ r[p] = l /\ L[p].key # None /\ L[p].item = None
              /\ L[p].indent = 2
            BY <3>1, KeyInService
        <3> QED
            BY <3>2 DEF l
    <2>5. u \in Nat /\ u # 0 /\ k \in 0..3
        BY <1>10 DEF KeyIn, AtPlace, Place
    <2>6. ASSUME NEW y, KeyIn(ps, L, a, b, r, y, u, 0)
          PROVE  /\ 3 # Len(path) => s[y] = On(3, 4, 0)
                 /\ 3 = Len(path) => KeyLine(L, path) = y
                 /\ y \in 1..Len(L)
        <3>1. y \in a..b /\ r[y] = 4 * u /\ L[y].key # None
            BY <2>5, <2>6 DEF KeyIn, AtPlace
        <3>2. L[y].key = ps[u].name /\ L[y].indent = 4
            <4> DEFINE v == 0
            <4>1. KeyIn(ps, L, a, b, r, y, u, v)
                BY <2>6
            <4> HIDE DEF v
            <4>2. L[y].key = KeyAt(ps, u, v) /\ L[y].indent = DepthAt(u, v)
                BY <4>1, KeyTells
            <4> QED
                BY <1>10, <4>2 DEF v, KeyAt, DepthAt
        <3>3. p < y
            <4>1. r[p] < r[y]
                BY <2>4, <2>5, <3>1
            <4>2. ASSUME y < p PROVE FALSE
                <5>1. r[y] <= r[p]
                    BY <1>0, <2>4, <3>1, <4>2 DEF Service
                <5> QED
                    BY <1>0, <2>4, <3>1, <4>1, <5>1
            <4>3. y # p
                BY <1>0, <2>4, <3>1, <4>1
            <4> QED
                BY <1>0, <2>4, <3>1, <4>2, <4>3
        <3> DEFINE m == 2
                   n == 3
                   d == 2
        <3>4. s[p] = On(m, d, 0) /\ n = m + 1 /\ L[y].key = path[m + 1]
            BY <2>2, <2>3, <3>2
        <3>5. \A j \in (p + 1)..(y - 1) : Passed(L, path, m, d, j)
            <4>1. path[2 + 1] = ps[u].name
                BY <2>2
            <4> QED
                BY <1>10, <2>1, <2>6, <4>1, OnToPipeline
        <3>6. p \in 0..Len(L) /\ y \in 1..Len(L) /\ Len(L) \in Nat /\ L[y].key # None
            BY <1>0, <2>3, <3>1
        <3> HIDE DEF m, n, d
        <3>7. Hop(L, path, s, m, d, p, y, n)
            BY <3>3, <3>4, <3>5, <3>6 DEF Hop
        <3>8. /\ n # Len(path) => s[y] = On(n, L[y].indent, 0)
              /\ n = Len(path) => KeyLine(L, path) = y
            BY <1>2, <3>7, SearchReaches
        <3> QED
            BY <3>2, <3>6, <3>8 DEF n
    <2>7. CASE k = 0
        <3>1. 3 = Len(path)
            BY <1>3, <1>10, <2>7
        <3>2. KeyIn(ps, L, a, b, r, f, u, 0)
            BY <2>7
        <3>3. KeyLine(L, path) = f
            BY <2>6, <3>1, <3>2
        <3> QED
            BY <3>3 DEF path
    <2>8. CASE k # 0
        <3>1. 3 # Len(path) /\ 4 = Len(path) /\ path[4] = StageAt(k)
            BY <1>3, <1>10, <2>8
        <3>2. u \in 1..Len(ps)
            <4>1. Len(ps) \in Nat /\ u \in 0..Len(ps)
                BY DEF Laid, Pipelines, KeyIn, AtPlace, Place
            <4> QED
                BY <1>10, <4>1
        <3>3. PICK q : KeyIn(ps, L, a, b, r, q, u, 0)
            BY <3>2, CommonKeys
        <3>4. s[q] = On(3, 4, 0) /\ q \in 1..Len(L)
            BY <2>6, <3>1, <3>3
        <3>5. q \in a..b /\ r[q] = 4 * u
            BY <2>5, <3>3 DEF KeyIn, AtPlace
        <3>6. f \in a..b /\ r[f] = 4 * u + k /\ L[f].key # None
            BY DEF KeyIn, AtPlace
        <3>7. L[f].key = StageAt(k) /\ L[f].indent = 6
            <4>1. L[f].key = KeyAt(ps, u, k) /\ L[f].indent = DepthAt(u, k)
                BY KeyTells
            <4> QED
                BY <1>10, <2>8, <4>1 DEF KeyAt, DepthAt
        <3>8. q < f
            <4>1. r[q] < r[f]
                BY <2>5, <2>8, <3>5, <3>6
            <4>2. ASSUME f < q PROVE FALSE
                <5>1. r[f] <= r[q]
                    BY <1>0, <3>5, <3>6, <4>2 DEF Service
                <5> QED
                    BY <1>0, <3>5, <3>6, <4>1, <5>1
            <4>3. q # f
                BY <1>0, <3>5, <3>6, <4>1
            <4> QED
                BY <1>0, <3>5, <3>6, <4>2, <4>3
        <3> DEFINE m == 3
                   n == 4
                   d == 4
        <3>9. s[q] = On(m, d, 0) /\ n = m + 1 /\ L[f].key = path[m + 1] /\ n = Len(path)
            BY <3>1, <3>4, <3>7
        <3>10. \A j \in (q + 1)..(f - 1) : Passed(L, path, m, d, j)
            <4>1. path[3 + 1] = StageAt(k)
                BY <3>1
            <4> QED
                BY <1>10, <2>8, <3>3, <4>1, OnToList
        <3>11. q \in 0..Len(L) /\ f \in 1..Len(L) /\ Len(L) \in Nat /\ L[f].key # None
            BY <1>0, <3>4, <3>6
        <3> HIDE DEF m, n, d
        <3>12. Hop(L, path, s, m, d, q, f, n)
            BY <3>8, <3>9, <3>10, <3>11 DEF Hop
        <3>13. /\ n # Len(path) => s[f] = On(n, L[f].indent, 0)
               /\ n = Len(path) => KeyLine(L, path) = f
            BY <1>2, <3>12, SearchReaches
        <3> QED
            BY <3>9, <3>13 DEF path
    <2> QED
        BY <2>7, <2>8
<1> QED
    BY <1>9, <1>10

\* The names that a complaint may be about.
LEMMA MatchingNames ==
    ASSUME PositionAssumption, NEW name \in Names \cup {Word}
    PROVE  None \notin Matching(name) /\ (name \in Names /\ name # Word => Matching(name) = Parts[name])
<1>1. \A n \in Names : Parts[n] \in SUBSET Names
    BY DEF PositionAssumption
<1>2. None \notin Names
    BY DEF PositionAssumption
<1>3. CASE name = Word
    BY <1>3 DEF Matching
<1>4. CASE name # Word
    <2>1. name \in Names /\ Matching(name) = Parts[name]
        BY <1>4 DEF Matching
    <2>2. Parts[name] \in SUBSET Names
        BY <1>1, <2>1
    <2> QED
        BY <1>2, <2>1, <2>2
<1> QED
    BY <1>3, <1>4

\* The items that are looked through are those of the list, if the key has a list.
LEMMA ItemsOfKey ==
    ASSUME PositionAssumption,
           NEW ps, NEW R, NEW L, NEW a, NEW b, NEW r, Laid(ps, R, L, a, b, r),
           NEW u, NEW k, Asked(ps, u, k), u = 0 \/ k # 0, NEW f, KeyIn(ps, L, a, b, r, f, u, k),
           NEW name \in Names \cup {Word}, NEW j \in ItemLines(L, f, name)
    PROVE  /\ L[j].item \in Matching(name) /\ j \in 1..Len(L)
           /\ KeysTo(L, j) = PathAt(ps, u, k)
<1>0. /\ Service(ps, R, L, a, b, r) /\ Len(L) \in Nat /\ a \in Nat /\ b \in Nat /\ 1 <= a
      /\ \A i \in a..b : i \in 1..Len(L) /\ r[i] \in Nat
      /\ \A i \in 1..Len(L) : L[i].indent \in Nat
    <2>1. Service(ps, R, L, a, b, r)
        BY DEF Laid
    <2>2. 1 <= a
        BY <2>1 DEF Service
    <2> QED
        BY <2>1, <2>2, RowsAre
<1>1. /\ j \in (f + 1)..Len(L) /\ L[j].item \in Matching(name)
      /\ \A i \in (f + 1)..j : Skipped(L[i]) \/ L[i].indent > L[f].indent
    BY DEF ItemLines
<1>2. f \in a..b /\ L[f].key # None /\ u \in Nat /\ k \in 0..3 /\ (u = 0 => k # 3) /\ r[f] = 4 * u + k
    BY DEF KeyIn, AtPlace, Place
<1>3. L[f].item = None /\ L[f].indent = DepthAt(u, k)
    <2>1. /\ f \in a..b /\ r[f] = 4 * u + k /\ u \in 0..Len(ps) /\ k \in 0..3 /\ Len(ps) \in Nat
          /\ L[f].key # None /\ L[f].item = None
          /\ L[f].key = KeyAt(ps, u, k) /\ L[f].indent = DepthAt(u, k)
        BY KeyTells
    <2> QED
        BY <2>1
<1>4. L[j].item # None
    BY <1>1, MatchingNames
<1>5. j \in 1..Len(L) /\ f < j
    BY <1>0, <1>1, <1>2
<1>6. j \in a..b
    <2>1. ASSUME j \notin a..b PROVE FALSE
        <3>1. SectionLine(L, j)
            BY <1>0, <1>5, <2>1 DEF Service
        <3> QED
            BY <1>4, <3>1 DEF SectionLine
    <2> QED
        BY <2>1
<1>7. PICK c \in a..b : Owns(L, r, c, j)
    BY <1>0, <1>4, <1>6, ItemsHaveOwners
<1>8. c < j /\ L[c].key # None /\ \A i \in (c + 1)..j : L[i].item # None
    BY <1>7 DEF Owns
<1>9. ~(c < f)
    <2>1. ASSUME c < f PROVE FALSE
        <3>1. f \in (c + 1)..j
            BY <1>0, <1>2, <1>5, <1>7, <2>1
        <3> QED
            BY <1>3, <1>8, <3>1
    <2> QED
        BY <2>1
<1>10. ~(f < c)
    <2>1. ASSUME f < c PROVE FALSE
        <3>1. c \in (f + 1)..j /\ c \in 1..Len(L)
            <4>3. c \in 1..Len(L) /\ f \in 1..Len(L)
                <5>1. c \in a..b /\ f \in a..b
                    BY <1>2
                <5> QED
                    BY <1>0, <5>1
            <4>4. j \in 1..Len(L) /\ Len(L) \in Nat
                BY <1>0, <1>5
            <4>1. c \in Nat /\ f \in Nat /\ j \in Nat /\ c \in 1..Len(L)
                BY <4>3, <4>4
            <4>2. c < j
                BY <1>8
            <4> QED
                BY <2>1, <4>1, <4>2
        <3>2. L[c].indent > L[f].indent
            BY <1>1, <1>8, <3>1 DEF Skipped
        <3>3. PICK v, l : KeyIn(ps, L, a, b, r, c, v, l)
            BY <1>7, <1>8, KeyHasPlace
        <3>4. /\ c \in a..b /\ r[c] = 4 * v + l /\ v \in 0..Len(ps) /\ l \in 0..3 /\ Len(ps) \in Nat
              /\ L[c].key # None /\ L[c].item = None
              /\ L[c].key = KeyAt(ps, v, l) /\ L[c].indent = DepthAt(v, l)
            BY <3>3, KeyTells
        <3>5. r[f] < r[c]
            BY <1>0, <1>2, <1>7, <1>8, <2>1 DEF Service
        <3>6. CASE u # 0
            <4>1. DepthAt(u, k) = 6
                BY <3>6 DEF DepthAt
            <4>2. DepthAt(v, l) \in {0, 2, 4, 6}
                BY DEF DepthAt
            <4> QED
                BY <1>3, <3>2, <3>4, <4>1, <4>2
        <3>7. CASE u = 0
            <4>1. k = 1
                BY <3>7 DEF Asked
            <4>2. L[f].indent = 2 /\ r[f] = 1
                BY <1>2, <1>3, <3>7, <4>1 DEF DepthAt
            <4>3. PICK p : KeyIn(ps, L, a, b, r, p, 0, 2)
                BY CommonKeys
            <4>4. p \in a..b /\ r[p] = 2 /\ L[p].key # None /\ L[p].indent = 2
                <5> DEFINE z == 2
                <5>1. (z = 1 \/ z = 2) /\ KeyIn(ps, L, a, b, r, p, 0, z)
                    BY <4>3
                <5> HIDE DEF z
                <5>2. /\ p \in a..b /\ r[p] = z /\ L[p].key # None /\ L[p].item = None
                      /\ L[p].indent = 2
                    BY <5>1, KeyInService
                <5> QED
                    BY <5>2 DEF z
            <4>5. f < p
                <5>1. ASSUME p < f PROVE FALSE
                    <6>1. r[p] <= r[f]
                        BY <1>0, <1>2, <4>4, <5>1 DEF Service
                    <6> QED
                        BY <4>2, <4>4, <6>1
                <5>2. p # f
                    BY <4>2, <4>4
                <5> QED
                    BY <1>0, <1>2, <4>4, <5>1, <5>2
            <4>6. ~(c < p)
                <5>1. ASSUME c < p PROVE FALSE
                    <6>1. r[c] < r[p]
                        BY <1>0, <1>7, <4>4, <5>1 DEF Service
                    <6>2. r[c] \in Nat
                        BY <1>0, <1>7
                    <6> QED
                        BY <3>5, <4>2, <4>4, <6>1, <6>2
                <5> QED
                    BY <5>1
            <4>7. p \in (f + 1)..j
                BY <1>0, <1>2, <1>5, <1>7, <1>8, <4>4, <4>5, <4>6
            <4>8. ~Skipped(L[p])
                BY <4>4 DEF Skipped
            <4>9. L[p].indent > L[f].indent
                BY <1>1, <4>7, <4>8
            <4> QED
                BY <4>2, <4>4, <4>9
        <3> QED
            BY <3>6, <3>7
    <2> QED
        BY <2>1
<1>11. c = f
    BY <1>0, <1>2, <1>7, <1>9, <1>10
<1>12. KeysTo(L, j) = PathAt(ps, u, k)
    BY <1>4, <1>6, <1>7, <1>11, KeysToItem
<1> QED
    BY <1>1, <1>5, <1>12

\* The lines that a name has of its own under a key are items of that key.
LEMMA OwnLines ==
    ASSUME PositionAssumption,
           NEW ps, NEW R, NEW L, NEW a, NEW b, NEW r, Laid(ps, R, L, a, b, r),
           NEW u, NEW k, NEW f, KeyIn(ps, L, a, b, r, f, u, k),
           NEW w \in 1..Len(L), L[w].item # None, KeysTo(L, w) = PathAt(ps, u, k)
    PROVE  /\ L[f].list = <<>> /\ Max(Above(L, w)) = f /\ f < w
           /\ \A i \in (f + 1)..w : L[i].indent = L[w].indent
<1>0. /\ Service(ps, R, L, a, b, r) /\ Len(L) \in Nat /\ a \in Nat /\ b \in Nat /\ 1 <= a
      /\ \A i \in a..b : i \in 1..Len(L) /\ r[i] \in Nat
    <2>1. Service(ps, R, L, a, b, r)
        BY DEF Laid
    <2>2. 1 <= a
        BY <2>1 DEF Service
    <2> QED
        BY <2>1, <2>2, RowsAre
<1>1. w \in a..b
    <2>1. ASSUME w \notin a..b PROVE FALSE
        <3>1. SectionLine(L, w)
            BY <1>0, <2>1 DEF Service
        <3> QED
            BY <3>1 DEF SectionLine
    <2> QED
        BY <2>1
<1>2. PICK c \in a..b : Owns(L, r, c, w)
    BY <1>0, <1>1, ItemsHaveOwners
<1>3. /\ c < w /\ L[c].key # None
      /\ \A i \in (c + 1)..w : L[i].item # None /\ L[i].indent = L[w].indent
    BY <1>2 DEF Owns
<1>4. PICK v, l : KeyIn(ps, L, a, b, r, c, v, l)
    BY <1>2, <1>3, KeyHasPlace
<1>5. KeysTo(L, w) = PathAt(ps, v, l) /\ Max(Above(L, w)) = c
    BY <1>1, <1>2, <1>4, KeysToItem
<1>6. v = u /\ l = k
    <2>1. u \in Nat /\ k \in Nat /\ Place(ps, u, k) /\ v \in Nat /\ l \in Nat /\ Place(ps, v, l)
        BY <1>4 DEF KeyIn, AtPlace
    <2>2. Pipelines(ps)
        BY DEF Laid
    <2>3. PathAt(ps, u, k) = PathAt(ps, v, l)
        BY <1>5
    <2> QED
        BY <2>1, <2>2, <2>3, PathsDiffer
<1>7. c = f
    <2>1. r[c] = 4 * u + k /\ r[f] = 4 * u + k /\ f \in a..b /\ L[f].key # None /\ r[c] = r[f]
        BY <1>4, <1>6 DEF KeyIn, AtPlace
    <2>2. ASSUME c < f PROVE FALSE
        <3>1. r[c] < r[f]
            BY <1>0, <1>2, <2>1, <2>2 DEF Service
        <3> QED
            BY <1>0, <2>1, <3>1
    <2>3. ASSUME f < c PROVE FALSE
        <3>1. r[f] < r[c]
            BY <1>0, <1>2, <1>3, <2>1, <2>3 DEF Service
        <3> QED
            BY <1>0, <2>1, <3>1
    <2> QED
        BY <1>0, <1>2, <2>1, <2>2, <2>3
<1>8. L[f].list = <<>>
    <2> DEFINE n == f + 1
    <2>1. n \in (c + 1)..w /\ n - 1 = f /\ n \in a..b
        BY <1>0, <1>1, <1>2, <1>3, <1>7
    <2> HIDE DEF n
    <2>2. L[n].item # None
        BY <1>3, <2>1
    <2>3. Follows(L, r, n)
        BY <1>0, <2>1, <2>2 DEF Service
    <2>4. L[f].item = None
        <3>1. /\ f \in a..b /\ r[f] = 4 * u + k /\ u \in 0..Len(ps) /\ k \in 0..3 /\ Len(ps) \in Nat
              /\ L[f].key # None /\ L[f].item = None
              /\ L[f].key = KeyAt(ps, u, k) /\ L[f].indent = DepthAt(u, k)
            BY KeyTells
        <3> QED
            BY <3>1
    <2> QED
        BY <2>1, <2>3, <2>4 DEF Follows
<1> QED
    BY <1>3, <1>5, <1>7, <1>8

\* A search that has gone astray marks the section that it has come to.
LEMMA AstrayMarks ==
    ASSUME PositionAssumption,
           NEW ps, NEW R, NEW L, NEW a, NEW b, NEW r, Laid(ps, R, L, a, b, r),
           NEW f, f < a, Astray(L, f, a - 1), NEW name \in Names \cup {Word, None}
    PROVE  /\ f \in Nat /\ f # 0 /\ KeysTo(L, f) = <<"extensions">>
           /\ name # None => ItemLines(L, f, name) = {}
<1>0. /\ Service(ps, R, L, a, b, r) /\ Len(L) \in Nat /\ a \in Nat /\ b \in Nat
      /\ \A i \in a..b : i \in 1..Len(L) /\ r[i] \in Nat
      /\ \A i \in 1..Len(L) : L[i].indent \in Nat
    BY RowsAre DEF Laid
<1>1. f \in 2..(a - 1) /\ L[f].key = "extensions" /\ L[f].indent = 0
    BY DEF Astray
<1>2. KeyIn(ps, L, a, b, r, a, 0, 0)
    BY CommonKeys
<1>3. a \in a..b /\ L[a].key # None /\ L[a].indent = 0
    BY <1>2, KeyOfTheService
<1>4. a \in 1..Len(L)
    BY <1>0, <1>3
<1>5. f \in Nat /\ f # 0 /\ f \in 1..Len(L) /\ f \notin a..b /\ f \in 1..f
    BY <1>0, <1>1, <1>4
<1>6. SectionLine(L, f)
    BY <1>0, <1>5 DEF Service
<1>7. L[f].item = None /\ L[f].key # None
    BY <1>6, SectionLineIs
<1>8. Above(L, f) = {}
    <2>1. ASSUME NEW y \in Above(L, f) PROVE FALSE
        <3>1. y \in 1..(f - 1) /\ L[y].indent < L[f].indent
            BY <1>7 DEF Above
        <3>2. y \in 1..Len(L)
            BY <1>0, <1>5, <3>1
        <3>3. L[y].indent \in Nat
            BY <1>0, <3>2
        <3> QED
            BY <1>1, <3>1, <3>3
    <2> QED
        BY <2>1
<1>9. KeysTo(L, f) = <<"extensions">>
    <2>1. PICK to : Leads(to, L, f)
        BY <1>5, KeysToIs
    <2>2. to[f] = Append(to[Nearest(L, f)], L[f].key)
        BY <1>5, <1>7, <2>1, LeadsOn
    <2>3. Nearest(L, f) = 0
        BY <1>8 DEF Nearest
    <2>4. to[0] = <<>> /\ KeysTo(L, f) = to[f]
        BY <2>1 DEF Leads
    <2>5. KeysTo(L, f) = Append(<<>>, "extensions")
        BY <1>1, <2>2, <2>3, <2>4
    <2> QED
        BY <2>5
<1>10. ASSUME name # None PROVE ItemLines(L, f, name) = {}
    <2>1. ASSUME NEW j \in ItemLines(L, f, name) PROVE FALSE
        <3>1. /\ j \in (f + 1)..Len(L) /\ L[j].item \in Matching(name)
              /\ \A i \in (f + 1)..j : Skipped(L[i]) \/ L[i].indent > L[f].indent
            BY DEF ItemLines
        <3>2. L[j].item # None
            <4>1. name \in Names \cup {Word}
                BY <1>10
            <4> QED
                BY <3>1, <4>1, MatchingNames
        <3>3. j \in 1..Len(L)
            BY <1>0, <1>5, <3>1
        <3>4. CASE j < a
            <4>1. j \notin a..b
                BY <1>0, <3>3, <3>4
            <4>2. SectionLine(L, j)
                BY <1>0, <3>3, <4>1 DEF Service
            <4> QED
                BY <3>2, <4>2 DEF SectionLine
        <3>5. CASE ~(j < a)
            <4>1. a \in (f + 1)..j
                BY <1>0, <1>1, <3>3, <3>5
            <4>2. ~Skipped(L[a])
                BY <1>3 DEF Skipped
            <4>3. L[a].indent > L[f].indent
                BY <3>1, <4>1, <4>2
            <4> QED
                BY <1>1, <1>3, <4>3
        <3> QED
            BY <3>4, <3>5
    <2> QED
        BY <2>1
<1> QED
    BY <1>5, <1>9, <1>10

-----------------------------------------------------------------------------
(* What is marked                                                          *)

\* A complaint about a place of the service.
Concerns(e, ps, u, k) ==
    /\ Asked(ps, u, k) /\ PathOf(e) = PathAt(ps, u, k)
    /\ e.name \in Names \cup {Word, None}
    /\ e.name # None => u = 0 \/ k # 0

\* The lines that the name of a complaint has of its own.
Named(L, e) == {j \in DOMAIN L : L[j].item = e.name /\ KeysTo(L, j) = PathOf(e)}
HasOwn(L, e) ==
    /\ e.name \notin {None, Word} /\ Named(L, e) # {}
    /\ \A j \in Named(L, e) : L[j].indent > L[Max(Above(L, j))].indent

\* What is found under a key that has been found.
LEMMA KeyMarks ==
    ASSUME PositionAssumption,
           NEW ps, NEW R, NEW L, NEW a, NEW b, NEW r, Laid(ps, R, L, a, b, r),
           NEW u, NEW k, NEW e, Concerns(e, ps, u, k), NEW f, KeyIn(ps, L, a, b, r, f, u, k),
           KeyLine(L, PathOf(e)) = f, NEW line, line = CreateValidationError(L, e)
    PROVE  /\ KeysTo(L, line) = PathOf(e)
           /\ HasOwn(L, e) => L[line].item \in Parts[e.name]
           /\ HasOwn(L, e) /\ Parts[e.name] = {e.name} => line \in Named(L, e)
<1> DEFINE named == {j \in DOMAIN L : L[j].item = e.name /\ KeysTo(L, j) = PathOf(e)}
           sought == /\ e.name \notin {None, Word} /\ named # {}
                     /\ \A j \in named : L[j].indent > L[Max(Above(L, j))].indent
<1> SUFFICES /\ KeysTo(L, line) = PathOf(e)
             /\ sought => L[line].item \in Parts[e.name]
             /\ sought /\ Parts[e.name] = {e.name} => line \in named
    BY Zenon DEF Named, HasOwn
<1> DEFINE path == PathOf(e)
           items == ItemLines(L, f, e.name)
<1>0. /\ Len(L) \in Nat /\ a \in Nat /\ DOMAIN L = 1..Len(L)
      /\ Asked(ps, u, k) /\ path = PathAt(ps, u, k)
    <2>1. Len(L) \in Nat /\ a \in Nat
        BY RowsAre DEF Laid
    <2>2. L \in Seq(LineRows)
        BY DEF Laid, Service
    <2>3. DOMAIN L = 1..Len(L)
        BY <2>2
    <2> QED
        BY <2>1, <2>3 DEF Concerns
<1>1. f \in a..b /\ f # 0
    <2>1. f \in a..b /\ 1 <= a
        BY DEF KeyIn, Laid, Service
    <2> QED
        BY <1>0, <2>1
<1>2. KeysTo(L, f) = path
    BY <1>0, KeysToKey
<1>3. CASE e.name = None
    <2>1. FindYamlPosition(L, path, e.name) = f
        BY <1>3 DEF FindYamlPosition
    <2>2. line = f
        BY <1>1, <2>1 DEF CreateValidationError
    <2>3. ~sought
        BY <1>3
    <2> QED
        BY <1>2, <2>2, <2>3
<1>4. CASE e.name # None
    <2>1. e.name \in Names \cup {Word} /\ (u = 0 \/ k # 0)
        BY <1>4 DEF Concerns
    <2>2. FindYamlPosition(L, path, e.name) =
              IF Range(L[f].list) \cap Matching(e.name) # {} \/ items = {} THEN f ELSE Min(items)
        BY <1>1, <1>4 DEF FindYamlPosition
    <2>3. ASSUME NEW j \in items
          PROVE  L[j].item \in Matching(e.name) /\ j \in 1..Len(L) /\ KeysTo(L, j) = path
        BY <1>0, <2>1, ItemsOfKey
    <2> HIDE DEF items
    <2>4. items # {} => Min(items) \in items
        <3>1. items \in SUBSET (1..Len(L))
            BY <2>3
        <3> QED
            BY <1>0, <3>1, MinIs
    <2> DEFINE z == FindYamlPosition(L, path, e.name)
    <2>5. z = f \/ z \in items
        BY <2>2, <2>4
    <2>6. z # 0
        BY <1>0, <1>1, <2>3, <2>5
    <2>7. line = z
        BY <2>6 DEF CreateValidationError
    <2>8. KeysTo(L, line) = path
        BY <1>2, <2>3, <2>5, <2>7
    <2> HIDE DEF z
    <2>9. ASSUME sought PROVE line \in items /\ Matching(e.name) = Parts[e.name]
        <3>1. PICK w : w \in named
            BY <2>9
        <3>2. w \in 1..Len(L) /\ L[w].item = e.name /\ KeysTo(L, w) = path
            BY <1>0, <3>1
        <3>3. L[w].indent > L[Max(Above(L, w))].indent
            BY <2>9, <3>1
        <3>4. e.name \in Names /\ e.name # Word
            BY <2>1, <2>9
        <3>5. Matching(e.name) = Parts[e.name] /\ e.name \in Parts[e.name]
            BY <3>4 DEF Matching, PositionAssumption
        <3>6. /\ L[f].list = <<>> /\ Max(Above(L, w)) = f /\ f < w
              /\ \A i \in (f + 1)..w : L[i].indent = L[w].indent
            <4>1. L[w].item # None /\ KeysTo(L, w) = PathAt(ps, u, k)
                BY <1>0, <1>4, <3>2
            <4> QED
                BY <3>2, <4>1, OwnLines
        <3>7. w \in items
            <4>1. w \in (f + 1)..Len(L)
                BY <1>0, <1>1, <3>2, <3>6
            <4>2. \A i \in (f + 1)..w : L[i].indent > L[f].indent
                BY <3>3, <3>6
            <4>3. L[w].item \in Matching(e.name)
                BY <3>2, <3>5
            <4> QED
                BY <4>1, <4>2, <4>3 DEF items, ItemLines
        <3>8. Range(L[f].list) = {}
            BY <3>6 DEF Range
        <3>9. z = Min(items)
            BY <2>2, <3>7, <3>8 DEF z
        <3> QED
            BY <2>4, <2>7, <3>5, <3>7, <3>9
    <2>10. ASSUME sought PROVE L[line].item \in Parts[e.name]
        BY <2>3, <2>9, <2>10
    <2>11. ASSUME sought, Parts[e.name] = {e.name} PROVE line \in named
        <3>1. L[line].item = e.name /\ line \in DOMAIN L
            BY <1>0, <2>3, <2>9, <2>10, <2>11
        <3> QED
            BY <2>8, <3>1
    <2> QED
        BY <2>8, <2>10, <2>11
<1> QED
    BY <1>3, <1>4

LEMMA MarkFits ==
    ASSUME PositionAssumption,
           NEW ps, NEW R, NEW L, NEW a, NEW b, NEW r, Laid(ps, R, L, a, b, r), a = 1 \/ b = Len(L),
           NEW u, NEW k, NEW e, Concerns(e, ps, u, k), NEW f, KeyIn(ps, L, a, b, r, f, u, k)
    PROVE  MarksItsLine(L, e)
<1> DEFINE path == PathOf(e)
           line == CreateValidationError(L, e)
<1>1. /\ Asked(ps, u, k) /\ path = PathAt(ps, u, k) /\ Sought(path)
      /\ path[2] = "extensions" <=> u = 0
    BY AskedIsSought DEF Concerns
<1> HIDE DEF path
<1>2. CASE Mistaken(L, e)
    <2>1. path[2] = "extensions" /\ Sidetracked(L, "extensions")
        BY <1>2 DEF Mistaken, path
    <2> DEFINE g == KeyLine(L, path)
    <2>2. g < a /\ Astray(L, g, a - 1)
        BY <1>1, <2>1, SidetrackedGoesAstray
    <2> HIDE DEF g
    <2>3. /\ g \in Nat /\ g # 0 /\ KeysTo(L, g) = <<"extensions">>
          /\ e.name # None => ItemLines(L, g, e.name) = {}
        <3>1. e.name \in Names \cup {Word, None}
            BY DEF Concerns
        <3> QED
            BY <2>2, <3>1, AstrayMarks
    <2>4. FindYamlPosition(L, path, e.name) = g
        BY <2>3 DEF FindYamlPosition, g
    <2>5. line = g
        BY <2>3, <2>4 DEF CreateValidationError, path
    <2>6. KeysTo(L, line) = <<"extensions">>
        BY <2>3, <2>5
    <2> QED
        BY <1>2, <2>6 DEF MarksItsLine
<1>3. CASE ~Mistaken(L, e) /\ Overlooked(L)
    <2>1. path[2] = "extensions" => ~Sidetracked(L, "extensions")
        BY <1>3 DEF Mistaken, path
    <2>2. KeyLine(L, path) = 0
        BY <1>1, <1>3, <2>1, OverlookedIsNotFound DEF Overlooked
    <2>3. FindYamlPosition(L, path, e.name) = 0
        BY <2>2 DEF FindYamlPosition
    <2>4. line = 1
        BY <2>3 DEF CreateValidationError, path
    <2> QED
        BY <1>3, <2>4 DEF MarksItsLine
<1>4. CASE ~Mistaken(L, e) /\ ~Overlooked(L)
    <2>1. u = 0 => ~Sidetracked(L, "extensions")
        BY <1>1, <1>4 DEF Mistaken, path
    <2>2. KeyLine(L, path) = f
        BY <1>1, <1>4, <2>1, SearchFinds DEF Overlooked
    <2>3. /\ KeysTo(L, line) = PathOf(e)
          /\ HasOwn(L, e) => L[line].item \in Parts[e.name]
          /\ HasOwn(L, e) /\ Parts[e.name] = {e.name} => line \in Named(L, e)
        <3>1. KeyLine(L, PathOf(e)) = f
            BY <2>2 DEF path
        <3>2. line = CreateValidationError(L, e)
            OBVIOUS
        <3> HIDE DEF line
        <3> QED
            BY <3>1, <3>2, KeyMarks
    <2> QED
        BY <1>4, <2>3, Zenon DEF MarksItsLine, Named, HasOwn
<1> QED
    BY <1>2, <1>3, <1>4

-----------------------------------------------------------------------------
(* The complaints of the validators                                        *)

\* Each is about a key that the text has, and about a name or none.
AboutKey(t, e) ==
    \E u \in Nat, k \in Nat :
        Place(t.pipelines, u, k) /\ 4 * u + k \in ServiceKeys(t) /\ Concerns(e, t.pipelines, u, k)

LEMMA AboutKeyIs ==
    ASSUME NEW t, NEW e, NEW u \in Nat, NEW k \in Nat, Place(t.pipelines, u, k),
           4 * u + k \in ServiceKeys(t), Concerns(e, t.pipelines, u, k)
    PROVE  AboutKey(t, e)
BY DEF AboutKey

LEMMA PipelinesOfText ==
    ASSUME NEW t \in Mapping, HasPipelines(t)
    PROVE  /\ Pipelines(t.pipelines) /\ t.pipelines \in Seq(Pipeline)
           /\ Len(t.pipelines) \in Nat /\ DOMAIN t.pipelines = 1..Len(t.pipelines)
<1>1. t.pipelines \in Keyed
    BY DEF Mapping, HasPipelines
<1> QED
    BY <1>1 DEF Keyed, Pipelines

LEMMA ListIsKey ==
    ASSUME NEW t \in Mapping, HasPipelines(t), NEW i \in 1..Len(t.pipelines),
           NEW n, n = 0 \/ (n \in 1..3 /\ n \in ListsOf(t.pipelines[i]))
    PROVE  Place(t.pipelines, i, n) /\ i \in Nat /\ n \in Nat /\ 4 * i + n \in ServiceKeys(t)
<1>1. Len(t.pipelines) \in Nat
    BY PipelinesOfText
<1>2. i \in Nat /\ n \in 0..3 /\ i # 0 /\ n \in Nat /\ i \in 0..Len(t.pipelines)
    BY <1>1
<1>3. Place(t.pipelines, i, n)
    BY <1>2 DEF Place
<1>4. 4 * i + n \in KeysOf(t.pipelines, i)
    <2>1. CASE n = 0
        BY <1>2, <2>1 DEF KeysOf
    <2>2. CASE n \in 1..3 /\ n \in ListsOf(t.pipelines[i])
        BY <2>2 DEF KeysOf
    <2> QED
        BY <2>1, <2>2
<1>5. 4 * i + n \in KeysUpTo(t.pipelines, Len(t.pipelines))
    BY <1>4 DEF KeysUpTo
<1> QED
    BY <1>2, <1>3, <1>5 DEF ServiceKeys

LEMMA ExtensionConcerns ==
    ASSUME NEW t \in Mapping, HasPipelines(t), NEW e \in ExtensionErrors(t)
    PROVE  AboutKey(t, e)
<1>1. PICK n \in t.uses : e = Complaint("error", None, "extensions", n)
    BY DEF ExtensionErrors
<1>2. t.uses \subseteq Names /\ t.uses # {}
    BY <1>1 DEF Mapping
<1>3. e.what = "extensions" /\ e.name = n /\ n \in Names
    BY <1>1, <1>2 DEF Complaint
<1> DEFINE u == 0
           k == 1
<1>4. u \in Nat /\ k \in Nat /\ Place(t.pipelines, u, k)
    <2>1. Len(t.pipelines) \in Nat
        BY PipelinesOfText
    <2> QED
        BY <2>1 DEF Place
<1>5. 4 * u + k \in ServiceKeys(t)
    BY <1>2 DEF ServiceKeys
<1>6. Concerns(e, t.pipelines, u, k)
    <2>1. PathOf(e) = <<"service", "extensions">>
        BY <1>3 DEF PathOf
    <2>2. PathAt(t.pipelines, u, k) = <<"service", "extensions">>
        BY DEF PathAt, KeyAt
    <2> QED
        BY <1>3, <2>1, <2>2 DEF Concerns, Asked
<1> HIDE DEF u, k
<1> QED
    BY <1>4, <1>5, <1>6, AboutKeyIs

LEMMA WarningConcerns ==
    ASSUME NEW t \in Mapping, HasPipelines(t), NEW e \in EmptyPipelineWarnings(t)
    PROVE  AboutKey(t, e)
<1>1. PICK p \in Range(t.pipelines), s \in {"receivers", "exporters"} :
          e = Complaint("warning", p.name, s, None)
    BY DEF EmptyPipelineWarnings
<1>2. PICK i \in 1..Len(t.pipelines) : p = t.pipelines[i]
    BY <1>1, PipelinesOfText DEF Range
<1>3. e.severity = "warning" /\ e.pipeline = p.name /\ e.what # "extensions" /\ e.name = None
    BY <1>1 DEF Complaint
<1> DEFINE k == 0
<1>4. k = 0
    OBVIOUS
<1>5. Concerns(e, t.pipelines, i, k)
    <2>1. PathOf(e) = <<"service", "pipelines", p.name>>
        BY <1>3 DEF PathOf
    <2>2. i # 0
        BY PipelinesOfText
    <2>3. PathAt(t.pipelines, i, k) = <<"service", "pipelines", p.name>>
        BY <1>2, <2>2 DEF PathAt
    <2> QED
        BY <1>3, <2>1, <2>2, <2>3 DEF Concerns, Asked
<1> HIDE DEF k
<1>6. Place(t.pipelines, i, k) /\ i \in Nat /\ k \in Nat /\ 4 * i + k \in ServiceKeys(t)
    BY <1>4, ListIsKey
<1> QED
    BY <1>5, <1>6, AboutKeyIs

LEMMA StageIsNumbered ==
    ASSUME NEW s \in Stages
    PROVE  \E k \in 1..3 : StageAt(k) = s
<1>1. StageAt(1) = "receivers" /\ StageAt(2) = "processors" /\ StageAt(3) = "exporters"
    BY DEF StageAt
<1> QED
    BY <1>1 DEF Stages

LEMMA ErrorConcerns ==
    ASSUME PositionAssumption, NEW t \in Mapping, HasPipelines(t), NEW e \in PipelineErrors(t)
    PROVE  AboutKey(t, e)
<1>1. PICK p \in Range(t.pipelines), s \in Stages :
          \E n \in Members(p.body[s]) : ~Throws(t) /\ e = Complaint("error", p.name, s, n)
    BY DEF PipelineErrors
<1>0. PICK n \in Members(p.body[s]) : ~Throws(t) /\ e = Complaint("error", p.name, s, n)
    BY <1>1
<1>2. PICK i \in 1..Len(t.pipelines) : p = t.pipelines[i]
    BY <1>1, PipelinesOfText DEF Range
<1>3. /\ e.severity # "warning" /\ e.pipeline = p.name /\ e.what = s /\ e.name = n
      /\ s # "extensions"
    BY <1>0 DEF Complaint, Stages
<1>4. PICK k \in 1..3 : StageAt(k) = s
    BY <1>1, StageIsNumbered
<1>5. p \in Pipeline /\ p.body # None
    BY <1>0, <1>2, PipelinesOfText DEF Throws
<1>6. p.body[s] \in List
    BY <1>1, <1>5 DEF Pipeline
<1>7. n \in Names \cup {Word} /\ p.body[s] # <<>>
    <2>1. CASE p.body[s] = Word
        BY <1>0, <2>1 DEF Members, PositionAssumption
    <2>2. CASE p.body[s] # Word
        <3>1. p.body[s] \in Seq(Names) /\ n \in Range(p.body[s])
            BY <1>0, <1>6, <2>2 DEF Members, List
        <3> QED
            BY <3>1 DEF Range
    <2> QED
        BY <2>1, <2>2
<1>8. Concerns(e, t.pipelines, i, k)
    <2>1. PathOf(e) = <<"service", "pipelines", p.name, s>>
        BY <1>3 DEF PathOf
    <2>2. i # 0 /\ k # 0
        BY PipelinesOfText
    <2>3. PathAt(t.pipelines, i, k) = <<"service", "pipelines", p.name, s>>
        BY <1>2, <1>4, <2>2 DEF PathAt
    <2> QED
        BY <1>3, <1>7, <2>1, <2>2, <2>3 DEF Concerns, Asked
<1>9. k \in ListsOf(t.pipelines[i])
    BY <1>2, <1>4, <1>5, <1>7 DEF ListsOf, StageAt
<1>10. Place(t.pipelines, i, k) /\ i \in Nat /\ k \in Nat /\ 4 * i + k \in ServiceKeys(t)
    BY <1>9, ListIsKey
<1> QED
    BY <1>8, <1>10, AboutKeyIs

\* Whatever the validators find in a text, of any components and any pipelines and
\* laid out in any of the ways of Layouts, the line that the editor marks lies under
\* the keys that the complaint is about, and is that of the name where the name has
\* a line of its own, further right than the key of its list; where the items of the
\* list are level with the key it is the key's (yaml-position.ts:79; findYamlPosition
\* and createValidationError).
THEOREM MarksOfText ==
    ASSUME PositionAssumption, NEW t \in Mapping, HasPipelines(t), NEW layout \in Layouts,
           NEW e \in ValidateYamlConfig(t).errors
    PROVE  MarksItsLine(Lines(t, layout), e)
<1> DEFINE ps == t.pipelines
           R == ServiceKeys(t)
           L == Lines(t, layout)
<1>1. AboutKey(t, e)
    <2>1. e \in PipelineErrors(t) \/ e \in ExtensionErrors(t) \/ e \in EmptyPipelineWarnings(t)
        BY DEF ValidateYamlConfig
    <2> QED
        BY <2>1, ErrorConcerns, ExtensionConcerns, WarningConcerns
<1>2. PICK u \in Nat, k \in Nat : Place(ps, u, k) /\ 4 * u + k \in R /\ Concerns(e, ps, u, k)
    BY <1>1 DEF AboutKey
<1>3. Pipelines(ps) /\ ps \in Seq(Pipeline) /\ Len(ps) \in Nat
    BY PipelinesOfText
<1>4. Whole(ps, R)
    <2>1. ASSUME NEW i \in 1..Len(ps) PROVE 4 * i \in R
        <3> DEFINE n == 0
        <3>1. n = 0
            OBVIOUS
        <3> HIDE DEF n
        <3>2. 4 * i + n \in R /\ i \in Nat
            BY <3>1, ListIsKey
        <3> QED
            BY <3>1, <3>2
    <2> QED
        BY <2>1 DEF Whole, ServiceKeys
<1>5. PICK a, b, r : Service(ps, R, L, a, b, r) /\ (a = 1 \/ b = Len(L))
    BY <1>3, LinesAre
<1>6. Laid(ps, R, L, a, b, r)
    BY <1>3, <1>4, <1>5 DEF Laid
<1> HIDE DEF ps, R, L
<1>7. PICK f : KeyIn(ps, L, a, b, r, f, u, k)
    BY <1>2, <1>6, KeyIsThere
<1>8. MarksItsLine(L, e)
    BY <1>2, <1>5, <1>6, <1>7, MarkFits
<1> QED
    BY <1>8 DEF L
=============================================================================
