----------------------------- MODULE ApiKeysPage -----------------------------
(***************************************************************************)
(* The page of the API keys (pages/ApiKeys.tsx), of which the server tells *)
(* the text of a key once only, in the answer to its creation.  The page   *)
(* reads a list out of {api_keys: ...} where the server sends the bare     *)
(* list, so that its table is always empty and nothing can be revoked.     *)
(***************************************************************************)
EXTENDS Naturals

CONSTANTS
    Slots,      \* the calls of handleCreate that may be under way
    MaxKeys,    \* bound: keys that are created
    MaxFuel,    \* bound: failures and leavings
    None

KeysAssumption == MaxKeys \in Nat /\ MaxFuel \in Nat

VARIABLES
    store,      \* how many keys the server has created
    calls,      \* the calls of handleCreate under way
    ui,         \* the useState of the page; newPlaintextKey is a key or None
    fuel

kvars == <<store, calls, ui, fuel>>

Call == [st : {"idle", "sent", "ok", "failed"}, key : {None} \cup 1..MaxKeys, mine : BOOLEAN]
Idle == [st |-> "idle", key |-> None, mine |-> TRUE]

Fresh == [mounted |-> TRUE, createOpen |-> FALSE, newKeyName |-> FALSE, creating |-> FALSE,
          createError |-> FALSE, newPlaintextKey |-> None]

TypeOK ==
    /\ store \in 0..MaxKeys
    /\ calls \in [Slots -> Call]
    /\ ui \in [mounted : BOOLEAN, createOpen : BOOLEAN, newKeyName : BOOLEAN, creating : BOOLEAN,
               createError : BOOLEAN, newPlaintextKey : {None} \cup 1..MaxKeys]
    /\ fuel \in 0..MaxFuel

DialogShown == ui.mounted /\ ui.createOpen
FormShown == DialogShown /\ ui.newPlaintextKey = None

Show(u) == ui' = u /\ UNCHANGED <<store, calls, fuel>>

\* Mutant: the dialog is reset when it is opened.
BugOpenCreate == ui.mounted /\ ~ui.createOpen /\ Show([Fresh EXCEPT !.createOpen = TRUE, !.creating = ui.creating])

OpenCreate == ui.mounted /\ ~ui.createOpen /\ Show([ui EXCEPT !.createOpen = TRUE])

TypeName == FormShown /\ ~ui.creating /\ ~ui.newKeyName /\ Show([ui EXCEPT !.newKeyName = TRUE])

\* Cancel, Done, Escape: also while the key is being created.
HandleCloseCreate ==
    /\ DialogShown
    /\ Show([Fresh EXCEPT !.creating = ui.creating])

HandleCreate(h) ==
    /\ FormShown /\ ~ui.creating /\ ui.newKeyName /\ calls[h] = Idle
    /\ calls' = [calls EXCEPT ![h].st = "sent"]
    /\ ui' = [ui EXCEPT !.creating = TRUE, !.createError = FALSE]
    /\ UNCHANGED <<store, fuel>>

\* The server creates the key, or something fails, perhaps on the way back.
Serve(h) ==
    /\ calls[h].st = "sent" /\ store < MaxKeys
    /\ store' = store + 1
    /\ calls' = [calls EXCEPT ![h].st = "ok", ![h].key = store + 1]
    /\ UNCHANGED <<ui, fuel>>

Fails(h) ==
    /\ calls[h].st \in {"sent", "ok"}
    /\ IF store < MaxKeys THEN fuel > 0 /\ fuel' = fuel - 1 ELSE UNCHANGED fuel
    /\ calls' = [calls EXCEPT ![h].st = "failed"]
    /\ UNCHANGED <<store, ui>>

\* The rest of handleCreate; of mutate, which it does not await, nothing is seen.
Created(h) ==
    /\ calls[h].st \in {"ok", "failed"}
    /\ calls' = [calls EXCEPT ![h] = Idle]
    /\ ui' = IF ~calls[h].mine THEN ui
             ELSE IF calls[h].st = "ok"
             THEN [ui EXCEPT !.newPlaintextKey = calls[h].key, !.newKeyName = FALSE, !.creating = FALSE]
             ELSE [ui EXCEPT !.createError = TRUE, !.creating = FALSE]
    /\ UNCHANGED <<store, fuel>>

Leave ==
    /\ ui.mounted /\ ~ui.createOpen /\ fuel > 0 /\ fuel' = fuel - 1
    /\ ui' = [ui EXCEPT !.mounted = FALSE]
    /\ calls' = [h \in Slots |-> IF calls[h] = Idle THEN Idle ELSE [calls[h] EXCEPT !.mine = FALSE]]
    /\ UNCHANGED store

Return == ~ui.mounted /\ Show(Fresh)

Init ==
    /\ store = 0
    /\ calls = [h \in Slots |-> Idle]
    /\ ui = Fresh
    /\ fuel = MaxFuel

Next ==
    \/ OpenCreate \/ TypeName \/ HandleCloseCreate \/ Leave \/ Return
    \/ \E h \in Slots : HandleCreate(h) \/ Serve(h) \/ Fails(h) \/ Created(h)

Spec == Init /\ [][Next]_kvars

-----------------------------------------------------------------------------

\* "Save this key now. It will not be shown again.": a key whose answer the
\* page has seen stays until the dialog that shows it is closed, also if the
\* dialog was closed, or opened anew for another key, before the answer came.
\* (Only leaving the page before the dialog is opened again loses it.)
KeyStays ==
    ui.newPlaintextKey # None /\ ui'.newPlaintextKey # ui.newPlaintextKey /\ ui.mounted
        => ui.createOpen /\ ~ui'.createOpen

KeysAreShown == [][KeyStays]_kvars
=============================================================================
