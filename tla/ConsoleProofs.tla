---------------------------- MODULE ConsoleProofs ----------------------------
(***************************************************************************)
(* Proofs about the console, whichever of its pages is open: for each page *)
(* an invariant that its steps keep, and from these the properties of the  *)
(* console.  The git sources and the configurations have their invariants  *)
(* in modules of their own, taken over here by INSTANCE; those of the      *)
(* other pages are below.  The bounds and the sets of the pages are those  *)
(* of MCConsole, of any size that fits (Fitting).                          *)
(***************************************************************************)
EXTENDS MCConsole, FiniteSetTheorems, WellFoundedInduction, TLAPS

-----------------------------------------------------------------------------
(* The drawers                                                             *)

LEMMA DrawerCounts ==
    /\ \A S : Drawer!IsFiniteSet(S) <=> IsFiniteSet(S)
    /\ \A S : Drawer!Cardinality(S) = Cardinality(S)
BY DEF Drawer!IsFiniteSet, Drawer!Cardinality, IsFiniteSet, Cardinality

\* A text in the editor is that of the agent on screen, and there is none while
\* the drawer is closed, so that the next agent finds an empty editor.
EditorIsOwn ==
    /\ ui.edited \in {None, ui.selected}
    /\ ~ui.open => ui.tab = "none" /\ ui.edited = None

\* The handler of an operation that the drawer waits for, if there is one.
Waits(busy, op) ==
    /\ busy <=> \E h \in Slots : calls[h].op = op /\ calls[h].mine
    /\ \A g, h \in Slots :
          calls[g].op = op /\ calls[g].mine /\ calls[h].op = op /\ calls[h].mine => g = h

ButtonsWait == Waits(ui.restarting, "restart") /\ Waits(ui.sending, "send")

DrawerInv == Drawer!TypeOK /\ EditorIsOwn /\ Drawer!SendsOwnText /\ ButtonsWait

LEMMA DrawerIdle == Drawer!Idle \in Drawer!Call /\ Drawer!Idle.op = "none" /\ Drawer!Idle.mine
BY DEF Drawer!Idle, Drawer!Call

LEMMA NoneWaits ==
    ASSUME NEW op, \A h \in Slots : calls[h].op # op
    PROVE  Waits(FALSE, op)
BY DEF Waits

\* The count of the timers.
LEMMA TimersCount ==
    ASSUME NEW n \in Nat, NEW k \in 0..n
    PROVE  /\ 0 \in 0..n
           /\ k < n => k + 1 \in 0..n
           /\ k > 0 => k - 1 \in 0..n
OBVIOUS

LEMMA AtMostOne == \A n : n = 0 \/ n = 1 => n <= 1
OBVIOUS

LEMMA InitDrawer ==
    ASSUME Drawer!DrawersAssumption, Drawer!Init
    PROVE  DrawerInv
<1>1. Cardinality(Slots) \in Nat
    BY DrawerCounts, FS_CardinalityType DEF Drawer!DrawersAssumption
<1>2. ui \in Drawer!Ui /\ fuel \in 0..DrawerFuel
    <2>1. 0 \in 0..Cardinality(Slots) /\ DrawerFuel \in 0..DrawerFuel
        BY <1>1, TimersCount DEF Drawer!DrawersAssumption
    <2> QED
        BY <2>1, DrawerCounts DEF Drawer!Init, Drawer!Ui
<1>3. /\ kind \in {"agent", "group"} /\ store \in [Items -> BOOLEAN]
      /\ cache \in [Items -> {"none", "up", "down"}]
      /\ sent \subseteq Items \X (Items \cup {None})
    BY DEF Drawer!Init
<1>4. calls \in [Slots -> Drawer!Call] /\ \A h \in Slots : calls[h].op = "none"
    BY DrawerIdle DEF Drawer!Init
<1>5. ~ui.restarting /\ ~ui.sending /\ EditorIsOwn
    BY DEF Drawer!Init, EditorIsOwn
<1>6. Drawer!SendsOwnText
    BY DEF Drawer!Init, Drawer!SendsOwnText
<1>7. ButtonsWait
    <2>1. \A op \in {"restart", "send"} : Waits(FALSE, op)
        <3>1. \A op \in {"restart", "send"} : \A h \in Slots : calls[h].op # op
            BY <1>4
        <3> QED
            BY <3>1, NoneWaits
    <2>2. ui.restarting = FALSE /\ ui.sending = FALSE
        BY DEF Drawer!Init
    <2> QED
        BY <2>1, <2>2 DEF ButtonsWait
<1> QED
    BY <1>2, <1>3, <1>4, <1>5, <1>6, <1>7 DEF DrawerInv, Drawer!TypeOK

\* What Orphan does to the handlers.
LEMMA Orphaned ==
    ASSUME Drawer!TypeOK, NEW ops
    PROVE  /\ Drawer!Orphan(ops) \in [Slots -> Drawer!Call]
           /\ \A h \in Slots : /\ Drawer!Orphan(ops)[h].op = calls[h].op
                               /\ Drawer!Orphan(ops)[h].mine <=>
                                     calls[h].mine /\ calls[h].op \notin ops
BY DEF Drawer!TypeOK, Drawer!Call, Drawer!Orphan

-----------------------------------------------------------------------------

LEMMA NextDrawerType ==
    ASSUME Drawer!DrawersAssumption, Drawer!TypeOK, EditorIsOwn, [Drawer!Next]_Drawer!dvars
    PROVE  Drawer!TypeOK'
<1> USE DEF Drawer!DrawersAssumption, Drawer!TypeOK, Drawer!Ui
<1>0. Cardinality(Slots) \in Nat
    BY DrawerCounts, FS_CardinalityType
<1>1. ASSUME NEW i \in Items, Drawer!HandleClick(i)
      PROVE  Drawer!TypeOK'
    BY <1>1 DEF Drawer!HandleClick
<1>2. CASE Drawer!Close
    <2>1. calls' \in [Slots -> Drawer!Call]
        BY <1>2, Orphaned DEF Drawer!Close
    <2> QED
        BY <1>2, <2>1 DEF Drawer!Close, Drawer!NoEditor
<1>3. ASSUME NEW i \in Items, Drawer!TopologyArrives(i)
      PROVE  Drawer!TypeOK'
    BY <1>3 DEF Drawer!TopologyArrives
<1>4. ASSUME NEW t \in {"overview", "config"}, Drawer!ChooseTab(t)
      PROVE  Drawer!TypeOK'
    <2>1. calls' \in [Slots -> Drawer!Call]
        BY <1>4, Orphaned DEF Drawer!ChooseTab
    <2> QED
        BY <1>4, <2>1 DEF Drawer!ChooseTab, Drawer!NoEditor
<1>5. ASSUME NEW h \in Slots, Drawer!HandleRestart(h)
      PROVE  Drawer!TypeOK'
    BY <1>5 DEF Drawer!HandleRestart, Drawer!Call
<1>6. ASSUME NEW h \in Slots, NEW m \in {"success", "error"}, Drawer!Restarted(h, m)
      PROVE  Drawer!TypeOK'
    <2>1. calls' \in [Slots -> Drawer!Call]
        BY <1>6, DrawerIdle DEF Drawer!Restarted
    <2>2. CASE m = "success" /\ ui.timers < Cardinality(Slots)
        <3>1. ui.timers + 1 \in 0..Cardinality(Slots)
            BY <1>0, <2>2, TimersCount
        <3> QED
            BY <1>6, <2>1, <2>2, <3>1, DrawerCounts DEF Drawer!Restarted
    <2>3. CASE ~(m = "success" /\ ui.timers < Cardinality(Slots))
        BY <1>6, <2>1, <2>3, DrawerCounts DEF Drawer!Restarted
    <2> QED
        BY <2>2, <2>3
<1>7. CASE Drawer!ClearMessage
    <2>1. ui.timers - 1 \in 0..Cardinality(Slots)
        BY <1>0, <1>7, TimersCount, DrawerCounts DEF Drawer!ClearMessage
    <2> QED
        BY <1>7, <2>1, DrawerCounts DEF Drawer!ClearMessage
<1>8. ASSUME NEW e, Drawer!SetEditedConfig(e)
      PROVE  Drawer!TypeOK'
    BY <1>8 DEF Drawer!SetEditedConfig
<1>9. ASSUME NEW h \in Slots, Drawer!HandleSendConfig(h)
      PROVE  Drawer!TypeOK'
    <2>1. ui.selected \in Items /\ sent' \subseteq Items \X (Items \cup {None})
        BY <1>9 DEF Drawer!HandleSendConfig, Drawer!CanSend
    <2>2. calls' \in [Slots -> Drawer!Call] /\ ui' \in Drawer!Ui
        BY <1>9 DEF Drawer!HandleSendConfig, Drawer!Call
    <2> QED
        BY <1>9, <2>1, <2>2 DEF Drawer!HandleSendConfig
<1>10. ASSUME NEW h \in Slots, Drawer!SendEnds(h)
       PROVE  Drawer!TypeOK'
    BY <1>10, DrawerIdle DEF Drawer!SendEnds
<1>11. CASE Drawer!ListFails
    <2>1. calls' \in [Slots -> Drawer!Call]
        BY <1>11, Orphaned DEF Drawer!ListFails
    <2>2. 0 \in 0..Cardinality(Slots)
        BY <1>0, TimersCount
    <2>4. ui' \in Drawer!Ui
        BY <1>11, <2>2, DrawerCounts DEF Drawer!ListFails, Drawer!NoEditor
    <2>3. fuel' \in 0..DrawerFuel
        BY <1>11 DEF Drawer!ListFails, Drawer!Outside
    <2> QED
        BY <1>11, <2>1, <2>3, <2>4 DEF Drawer!ListFails
<1>12. CASE Drawer!ListRecovers
    BY <1>12 DEF Drawer!ListRecovers
<1>13. ASSUME NEW i \in Items, Drawer!ItemChanges(i)
       PROVE  Drawer!TypeOK'
    BY <1>13 DEF Drawer!ItemChanges, Drawer!Outside
<1>14. CASE UNCHANGED Drawer!dvars
    BY <1>14 DEF Drawer!dvars
<1> QED
    BY <1>1, <1>2, <1>3, <1>4, <1>5, <1>6, <1>7, <1>8, <1>9, <1>10, <1>11, <1>12, <1>13,
       <1>14 DEF Drawer!Next, Drawer!User, Drawer!Run

LEMMA NextOwnText ==
    ASSUME Drawer!DrawersAssumption, Drawer!TypeOK, EditorIsOwn, Drawer!SendsOwnText,
           [Drawer!Next]_Drawer!dvars
    PROVE  EditorIsOwn' /\ Drawer!SendsOwnText'
<1> USE DEF EditorIsOwn, Drawer!SendsOwnText, Drawer!TypeOK, Drawer!Ui
<1>1. ASSUME NEW i \in Items, Drawer!HandleClick(i)
      PROVE  EditorIsOwn' /\ Drawer!SendsOwnText'
    BY <1>1 DEF Drawer!HandleClick
<1>2. CASE Drawer!Close
    BY <1>2 DEF Drawer!Close, Drawer!NoEditor
<1>3. ASSUME NEW i \in Items, Drawer!TopologyArrives(i)
      PROVE  EditorIsOwn' /\ Drawer!SendsOwnText'
    BY <1>3 DEF Drawer!TopologyArrives
<1>4. ASSUME NEW t \in {"overview", "config"}, Drawer!ChooseTab(t)
      PROVE  EditorIsOwn' /\ Drawer!SendsOwnText'
    BY <1>4 DEF Drawer!ChooseTab, Drawer!NoEditor, Drawer!Data
<1>5. ASSUME NEW h \in Slots, Drawer!HandleRestart(h)
      PROVE  EditorIsOwn' /\ Drawer!SendsOwnText'
    BY <1>5 DEF Drawer!HandleRestart
<1>6. ASSUME NEW h \in Slots, NEW m \in {"success", "error"}, Drawer!Restarted(h, m)
      PROVE  EditorIsOwn' /\ Drawer!SendsOwnText'
    BY <1>6 DEF Drawer!Restarted
<1>7. CASE Drawer!ClearMessage
    BY <1>7 DEF Drawer!ClearMessage
<1>8. ASSUME NEW e, Drawer!SetEditedConfig(e)
      PROVE  EditorIsOwn' /\ Drawer!SendsOwnText'
    BY <1>8 DEF Drawer!SetEditedConfig, Drawer!CanSend
<1>9. ASSUME NEW h \in Slots, Drawer!HandleSendConfig(h)
      PROVE  EditorIsOwn' /\ Drawer!SendsOwnText'
    BY <1>9 DEF Drawer!HandleSendConfig
<1>10. ASSUME NEW h \in Slots, Drawer!SendEnds(h)
       PROVE  EditorIsOwn' /\ Drawer!SendsOwnText'
    BY <1>10 DEF Drawer!SendEnds
<1>11. CASE Drawer!ListFails
    BY <1>11 DEF Drawer!ListFails, Drawer!NoEditor
<1>12. CASE Drawer!ListRecovers
    BY <1>12 DEF Drawer!ListRecovers
<1>13. ASSUME NEW i \in Items, Drawer!ItemChanges(i)
       PROVE  EditorIsOwn' /\ Drawer!SendsOwnText'
    BY <1>13 DEF Drawer!ItemChanges
<1>14. CASE UNCHANGED Drawer!dvars
    BY <1>14 DEF Drawer!dvars
<1> QED
    BY <1>1, <1>2, <1>3, <1>4, <1>5, <1>6, <1>7, <1>8, <1>9, <1>10, <1>11, <1>12, <1>13,
       <1>14 DEF Drawer!Next, Drawer!User, Drawer!Run

LEMMA NextButtonsWait ==
    ASSUME Drawer!DrawersAssumption, Drawer!TypeOK, ButtonsWait, [Drawer!Next]_Drawer!dvars
    PROVE  ButtonsWait'
<1> USE DEF ButtonsWait, Waits
<1>0. /\ calls \in [Slots -> Drawer!Call]
      /\ ui \in Drawer!Ui
    BY DEF Drawer!TypeOK
\* Steps that neither begin nor end a handler.
<1>1. ASSUME UNCHANGED <<calls, ui.restarting, ui.sending>>
      PROVE  ButtonsWait'
    BY <1>1
<1>2. ASSUME NEW i \in Items,
             Drawer!HandleClick(i) \/ Drawer!TopologyArrives(i) \/ Drawer!ItemChanges(i)
      PROVE  ButtonsWait'
    <2>1. UNCHANGED <<calls, ui.restarting, ui.sending>>
        BY <1>0, <1>2 DEF Drawer!Ui, Drawer!HandleClick, Drawer!TopologyArrives, Drawer!ItemChanges
    <2> QED
        BY <1>1, <2>1
<1>3. ASSUME NEW e, \/ Drawer!SetEditedConfig(e) \/ Drawer!ClearMessage
                    \/ Drawer!ListRecovers \/ UNCHANGED Drawer!dvars
      PROVE  ButtonsWait'
    <2>1. UNCHANGED <<calls, ui.restarting, ui.sending>>
        BY <1>0, <1>3 DEF Drawer!Ui, Drawer!SetEditedConfig, Drawer!ClearMessage,
           Drawer!ListRecovers, Drawer!dvars
    <2> QED
        BY <1>1, <2>1
\* The editor goes with its tab.
<1>4. ASSUME NEW t, Drawer!Close \/ Drawer!ChooseTab(t)
      PROVE  ButtonsWait'
    <2>1. ui'.restarting = ui.restarting /\ ~ui'.sending
        BY <1>0, <1>4 DEF Drawer!Ui, Drawer!Close, Drawer!ChooseTab, Drawer!NoEditor
    <2>2. calls' = Drawer!Orphan({"send"})
        BY <1>4 DEF Drawer!Close, Drawer!ChooseTab
    <2> QED
        BY <2>1, <2>2, Orphaned
<1>5. CASE Drawer!ListFails
    <2>1. ~ui'.restarting /\ ~ui'.sending
        BY <1>0, <1>5 DEF Drawer!Ui, Drawer!ListFails, Drawer!NoEditor
    <2>2. calls' = Drawer!Orphan({"restart", "send"})
        BY <1>5 DEF Drawer!ListFails
    <2> QED
        BY <2>1, <2>2, Orphaned
\* A handler begins only if its button is not disabled, so that none is under way.
<1>6. ASSUME NEW h \in Slots, Drawer!HandleRestart(h)
      PROVE  ButtonsWait'
    <2>1. ~ui.restarting /\ ui'.restarting /\ ui'.sending = ui.sending
        BY <1>0, <1>6 DEF Drawer!Ui, Drawer!HandleRestart, Drawer!CanRestart,
           Drawer!AgentRestart, Drawer!GroupRestart
    <2>2. /\ calls'[h].op = "restart" /\ calls'[h].mine /\ calls[h].op = "none"
          /\ \A g \in Slots \ {h} : calls'[g] = calls[g]
        BY <1>0, <1>6, DrawerIdle DEF Drawer!HandleRestart, Drawer!Call
    <2> QED
        BY <2>1, <2>2
<1>7. ASSUME NEW h \in Slots, Drawer!HandleSendConfig(h)
      PROVE  ButtonsWait'
    <2>1. ~ui.sending /\ ui'.sending /\ ui'.restarting = ui.restarting
        BY <1>0, <1>7 DEF Drawer!Ui, Drawer!HandleSendConfig
    <2>2. /\ calls'[h].op = "send" /\ calls'[h].mine /\ calls[h].op = "none"
          /\ \A g \in Slots \ {h} : calls'[g] = calls[g]
        BY <1>0, <1>7, DrawerIdle DEF Drawer!HandleSendConfig, Drawer!Call
    <2> QED
        BY <2>1, <2>2
\* It ends for the drawer that called it only.
<1>8. ASSUME NEW h \in Slots, NEW m, Drawer!Restarted(h, m)
      PROVE  ButtonsWait'
    <2>1. /\ calls[h].op = "restart" /\ calls'[h].op = "none"
          /\ \A g \in Slots \ {h} : calls'[g] = calls[g]
        BY <1>0, <1>8, DrawerIdle DEF Drawer!Restarted
    <2>2. /\ ui'.sending = ui.sending
          /\ ui'.restarting = IF calls[h].mine THEN FALSE ELSE ui.restarting
        BY <1>0, <1>8 DEF Drawer!Ui, Drawer!Restarted
    <2> QED
        BY <2>1, <2>2
<1>9. ASSUME NEW h \in Slots, Drawer!SendEnds(h)
      PROVE  ButtonsWait'
    <2>1. /\ calls[h].op = "send" /\ calls'[h].op = "none"
          /\ \A g \in Slots \ {h} : calls'[g] = calls[g]
        BY <1>0, <1>9, DrawerIdle DEF Drawer!SendEnds
    <2>2. /\ ui'.restarting = ui.restarting
          /\ ui'.sending = IF calls[h].mine THEN FALSE ELSE ui.sending
        BY <1>0, <1>9 DEF Drawer!Ui, Drawer!SendEnds
    <2> QED
        BY <2>1, <2>2
<1> QED
    BY <1>2, <1>3, <1>4, <1>5, <1>6, <1>7, <1>8, <1>9 DEF Drawer!Next, Drawer!User, Drawer!Run

LEMMA NextDrawer ==
    ASSUME Drawer!DrawersAssumption, DrawerInv, [Drawer!Next]_Drawer!dvars
    PROVE  DrawerInv'
BY NextDrawerType, NextOwnText, NextButtonsWait DEF DrawerInv

LEMMA OneAtMost ==
    ASSUME IsFiniteSet(Slots), NEW busy, NEW op, Waits(busy, op)
    PROVE  /\ busy <=> Drawer!UnderWay(op) # {}
           /\ Cardinality(Drawer!UnderWay(op)) <= 1
<1>1. busy <=> Drawer!UnderWay(op) # {}
    BY DEF Waits, Drawer!UnderWay
<1>2. CASE Drawer!UnderWay(op) = {}
    <2>1. Cardinality({}) = 0
        BY FS_EmptySet
    <2>2. Cardinality(Drawer!UnderWay(op)) = 0
        BY <1>2, <2>1, Zenon
    <2> QED
        BY <1>1, <2>2, AtMostOne, Zenon
<1>3. CASE Drawer!UnderWay(op) # {}
    <2>1. PICK h \in Slots : h \in Drawer!UnderWay(op)
        BY <1>3 DEF Drawer!UnderWay
    <2>2. Drawer!UnderWay(op) = {h}
        BY <2>1 DEF Waits, Drawer!UnderWay
    <2>3. Cardinality({h}) = 1
        BY FS_Singleton
    <2>4. Cardinality(Drawer!UnderWay(op)) = 1
        BY <2>2, <2>3, Zenon
    <2> QED
        BY <1>1, <2>4, AtMostOne, Zenon
<1> QED
    BY <1>1, <1>2, <1>3

\* The buttons of a drawer and of its editor are disabled exactly while a
\* handler that they started is under way, one at most (GroupDetailsDrawer.tsx
\* and AgentDetailsDrawer.tsx, isRestarting; AgentConfigPipeline.tsx, isSending).
LEMMA DrawerBusy ==
    ASSUME Drawer!DrawersAssumption, DrawerInv
    PROVE  Drawer!BusyIsTrue
BY OneAtMost, DrawerCounts
DEF DrawerInv, ButtonsWait, Drawer!BusyIsTrue, Drawer!DrawersAssumption

-----------------------------------------------------------------------------
(* The API keys                                                            *)

\* The handler that the page waits for: it has no key to show, and there is one
\* such handler at most.
Creating(h) == calls[h] # Keys!Idle /\ calls[h].mine

CreatingInv ==
    /\ ~ui.mounted => \A h \in Slots : ~Creating(h)
    /\ ui.mounted => (ui.creating <=> \E h \in Slots : Creating(h))
    /\ \A h \in Slots : Creating(h) => ui.newPlaintextKey = None
    /\ \A g, h \in Slots : Creating(g) /\ Creating(h) => g = h

KeysInv == Keys!TypeOK /\ CreatingInv

KeysUi == [mounted : BOOLEAN, createOpen : BOOLEAN, newKeyName : BOOLEAN, creating : BOOLEAN,
           createError : BOOLEAN, newPlaintextKey : {None} \cup 1..MaxKeys]

LEMMA KeysTypes ==
    ASSUME KeysInv
    PROVE  calls \in [Slots -> Keys!Call] /\ ui \in KeysUi /\ Keys!Idle \in Keys!Call
BY DEF KeysInv, Keys!TypeOK, KeysUi, Keys!Idle, Keys!Call

LEMMA InitKeys ==
    ASSUME Keys!KeysAssumption, Keys!Init
    PROVE  KeysInv
<1>1. /\ store = 0 /\ calls = [h \in Slots |-> Keys!Idle] /\ ui = Keys!Fresh
      /\ fuel = KeysFuel /\ MaxKeys \in Nat /\ KeysFuel \in Nat
    BY DEF Keys!Init, Keys!KeysAssumption
<1>2. Keys!Idle \in Keys!Call
    BY DEF Keys!Idle, Keys!Call
<1>3. Keys!TypeOK
    BY <1>1, <1>2 DEF Keys!TypeOK, Keys!Fresh
<1>4. CreatingInv
    BY <1>1 DEF CreatingInv, Creating, Keys!Fresh
<1> QED
    BY <1>3, <1>4 DEF KeysInv

LEMMA NextKeysType ==
    ASSUME Keys!KeysAssumption, KeysInv, [Keys!Next]_Keys!kvars
    PROVE  Keys!TypeOK'
<1>0. /\ store \in 0..MaxKeys /\ fuel \in 0..KeysFuel /\ MaxKeys \in Nat /\ KeysFuel \in Nat
      /\ calls \in [Slots -> Keys!Call] /\ ui \in KeysUi /\ Keys!Idle \in Keys!Call
    BY KeysTypes DEF KeysInv, Keys!TypeOK, Keys!KeysAssumption
<1> DEFINE Typed == /\ store' \in 0..MaxKeys /\ fuel' \in 0..KeysFuel
                    /\ calls' \in [Slots -> Keys!Call] /\ ui' \in KeysUi
<1>1. ASSUME \/ Keys!OpenCreate \/ Keys!TypeName \/ Keys!HandleCloseCreate \/ Keys!Return
      PROVE  Typed
    <2>1. UNCHANGED <<store, calls, fuel>>
        BY <1>1 DEF Keys!OpenCreate, Keys!TypeName, Keys!HandleCloseCreate, Keys!Return,
           Keys!Show
    <2>2. CASE Keys!OpenCreate \/ Keys!TypeName
        <3>1. ui' \in KeysUi
            BY <1>0, <2>2 DEF Keys!OpenCreate, Keys!TypeName, Keys!Show, KeysUi
        <3> QED
            BY <1>0, <2>1, <3>1
    <2>3. CASE Keys!HandleCloseCreate \/ Keys!Return
        <3>1. Keys!Fresh \in KeysUi
            BY DEF Keys!Fresh, KeysUi
        <3>2. ui' \in {Keys!Fresh, [Keys!Fresh EXCEPT !.creating = ui.creating]}
            BY <2>3 DEF Keys!HandleCloseCreate, Keys!Return, Keys!Show
        <3>3. ui' \in KeysUi
            BY <1>0, <3>1, <3>2 DEF KeysUi
        <3> QED
            BY <1>0, <2>1, <3>3
    <2> QED
        BY <1>1, <2>2, <2>3
<1>2. ASSUME Keys!Leave
      PROVE  Typed
    <2>1. \A h \in Slots : [calls[h] EXCEPT !.mine = FALSE] \in Keys!Call
        BY <1>0 DEF Keys!Call
    <2>2. calls' \in [Slots -> Keys!Call]
        BY <1>0, <1>2, <2>1 DEF Keys!Leave
    <2>3. ui' \in KeysUi
        BY <1>0, <1>2 DEF Keys!Leave, KeysUi
    <2>4. store' = store /\ fuel' \in 0..KeysFuel
        BY <1>0, <1>2 DEF Keys!Leave
    <2> QED
        BY <1>0, <2>2, <2>3, <2>4
<1>3. ASSUME NEW h \in Slots, Keys!HandleCreate(h)
      PROVE  Typed
    <2>1. [calls[h] EXCEPT !.st = "sent"] \in Keys!Call
        BY <1>0 DEF Keys!Call
    <2> QED
        BY <1>0, <1>3, <2>1 DEF Keys!HandleCreate, KeysUi
<1>4. ASSUME NEW h \in Slots, Keys!Serve(h)
      PROVE  Typed
    <2> DEFINE c == [calls[h] EXCEPT !.st = "ok", !.key = store + 1]
    <2>1. store + 1 \in 1..MaxKeys /\ store' = store + 1 /\ ui' = ui /\ fuel' = fuel
        BY <1>0, <1>4 DEF Keys!Serve
    <2>2. c \in Keys!Call
        BY <1>0, <2>1 DEF Keys!Call
    <2>3. calls' = [calls EXCEPT ![h] = c]
        BY <1>4 DEF Keys!Serve
    <2> HIDE DEF c
    <2> QED
        BY <1>0, <2>1, <2>2, <2>3
<1>5. ASSUME NEW h \in Slots, Keys!Fails(h)
      PROVE  Typed
    <2>1. [calls[h] EXCEPT !.st = "failed"] \in Keys!Call
        BY <1>0 DEF Keys!Call
    <2>2. calls' \in [Slots -> Keys!Call]
        BY <1>0, <1>5, <2>1 DEF Keys!Fails
    <2>3. store' = store /\ ui' = ui /\ fuel' \in 0..KeysFuel
        BY <1>0, <1>5 DEF Keys!Fails
    <2> QED
        BY <1>0, <2>2, <2>3
<1>6. ASSUME NEW h \in Slots, Keys!Created(h)
      PROVE  Typed
    <2>1. calls[h].key \in {None} \cup 1..MaxKeys
        BY <1>0 DEF Keys!Call
    <2> QED
        BY <1>0, <1>6, <2>1 DEF Keys!Created, KeysUi
<1>7. ASSUME UNCHANGED Keys!kvars
      PROVE  Typed
    BY <1>0, <1>7 DEF Keys!kvars
<1>8. Typed
    BY <1>1, <1>2, <1>3, <1>4, <1>5, <1>6, <1>7 DEF Keys!Next
<1> QED
    BY <1>8 DEF Keys!TypeOK, KeysUi

\* What a step does to the handler the page waits for and to the key on screen.
LEMMA NextCreating ==
    ASSUME KeysInv, [Keys!Next]_Keys!kvars
    PROVE  CreatingInv' /\ Keys!KeyStays
<1>0. /\ calls \in [Slots -> Keys!Call] /\ ui \in KeysUi /\ CreatingInv
    BY KeysTypes DEF KeysInv
<1> DEFINE Kept == CreatingInv' /\ Keys!KeyStays
\* The handlers stay as they are, and the page waits as it did.
<1>1. ASSUME \A h \in Slots : Creating(h)' <=> Creating(h),
             ui'.mounted = ui.mounted, ui'.creating = ui.creating,
             \/ ui'.newPlaintextKey = ui.newPlaintextKey
             \/ ui'.newPlaintextKey = None /\ ui.createOpen /\ ~ui'.createOpen
      PROVE  Kept
    BY <1>0, <1>1 DEF CreatingInv, Keys!KeyStays
<1>2. ASSUME Keys!OpenCreate \/ Keys!TypeName \/ Keys!HandleCloseCreate
      PROVE  Kept
    <2>1. \A h \in Slots : Creating(h)' <=> Creating(h)
        BY <1>2 DEF Keys!OpenCreate, Keys!TypeName, Keys!HandleCloseCreate, Keys!Show,
           Creating
    <2>2. /\ ui'.mounted = ui.mounted /\ ui'.creating = ui.creating
          /\ \/ ui'.newPlaintextKey = ui.newPlaintextKey
             \/ ui'.newPlaintextKey = None /\ ui.createOpen /\ ~ui'.createOpen
        BY <1>0, <1>2 DEF Keys!OpenCreate, Keys!TypeName, Keys!HandleCloseCreate, Keys!Show,
           Keys!DialogShown, Keys!Fresh, KeysUi
    <2> QED
        BY <1>1, <2>1, <2>2
<1>3. ASSUME Keys!Return
      PROVE  Kept
    BY <1>0, <1>3 DEF Keys!Return, Keys!Show, Keys!Fresh, CreatingInv, Creating,
       Keys!KeyStays
<1>4. ASSUME Keys!Leave
      PROVE  Kept
    <2>1. \A h \in Slots : ~Creating(h)'
        BY <1>0, <1>4 DEF Keys!Leave, Creating, Keys!Call, Keys!Idle
    <2>2. ~ui'.mounted /\ ui'.newPlaintextKey = ui.newPlaintextKey
        BY <1>0, <1>4 DEF Keys!Leave, KeysUi
    <2> QED
        BY <2>1, <2>2 DEF CreatingInv, Keys!KeyStays
<1>5. ASSUME NEW h \in Slots, Keys!HandleCreate(h)
      PROVE  Kept
    <2>1. calls'[h].mine /\ calls'[h] # Keys!Idle
        BY <1>0, <1>5 DEF Keys!HandleCreate, Keys!Idle, Keys!Call
    <2>2. \A g \in Slots : g # h => calls'[g] = calls[g]
        BY <1>0, <1>5 DEF Keys!HandleCreate
    <2>3. /\ ui.mounted /\ ~ui.creating /\ ui.newPlaintextKey = None
          /\ ui'.mounted /\ ui'.creating /\ ui'.newPlaintextKey = None
        BY <1>0, <1>5 DEF Keys!HandleCreate, Keys!FormShown, Keys!DialogShown, KeysUi
    <2> QED
        BY <1>0, <2>1, <2>2, <2>3 DEF CreatingInv, Creating, Keys!KeyStays
<1>6. ASSUME NEW h \in Slots, Keys!Serve(h) \/ Keys!Fails(h)
      PROVE  Kept
    <2>1. /\ calls[h] # Keys!Idle /\ calls'[h] # Keys!Idle /\ calls'[h].mine = calls[h].mine
          /\ \A g \in Slots : g # h => calls'[g] = calls[g]
        BY <1>0, <1>6 DEF Keys!Serve, Keys!Fails, Keys!Idle, Keys!Call
    <2>2. \A g \in Slots : Creating(g)' <=> Creating(g)
        BY <2>1 DEF Creating
    <2>3. ui' = ui
        BY <1>6 DEF Keys!Serve, Keys!Fails
    <2> QED
        BY <1>1, <2>2, <2>3
<1>7. ASSUME NEW h \in Slots, Keys!Created(h)
      PROVE  Kept
    <2>1. /\ calls[h] # Keys!Idle /\ calls'[h] = Keys!Idle
          /\ \A g \in Slots : g # h => calls'[g] = calls[g]
        BY <1>0, <1>7 DEF Keys!Created, Keys!Idle
    <2>2. CASE calls[h].mine
        <3>1. Creating(h) /\ ui.mounted /\ ui.newPlaintextKey = None
            BY <1>0, <2>1, <2>2 DEF CreatingInv, Creating
        <3>2. ui'.mounted /\ ~ui'.creating
            BY <1>0, <1>7, <2>2, <3>1 DEF Keys!Created, KeysUi
        <3>3. \A g \in Slots : ~Creating(g)'
            BY <1>0, <2>1, <3>1 DEF CreatingInv, Creating
        <3> QED
            BY <3>1, <3>2, <3>3 DEF CreatingInv, Keys!KeyStays
    <2>3. CASE ~calls[h].mine
        <3>1. \A g \in Slots : Creating(g)' <=> Creating(g)
            BY <2>1, <2>3 DEF Creating
        <3>2. ui' = ui
            BY <1>7, <2>3 DEF Keys!Created
        <3> QED
            BY <1>1, <3>1, <3>2
    <2> QED
        BY <2>2, <2>3
<1>8. ASSUME UNCHANGED Keys!kvars
      PROVE  Kept
    BY <1>1, <1>8 DEF Keys!kvars, Creating
<1> QED
    BY <1>2, <1>3, <1>4, <1>5, <1>6, <1>7, <1>8 DEF Keys!Next

LEMMA NextKeys ==
    ASSUME Keys!KeysAssumption, KeysInv, [Keys!Next]_Keys!kvars
    PROVE  KeysInv' /\ Keys!KeyStays
BY NextKeysType, NextCreating DEF KeysInv

-----------------------------------------------------------------------------
(* The audit log                                                           *)

\* A set of subsets of a finite set has a minimal one: the induction on finite
\* sets below, as a descent from the least counterexample.
LEMMA LeastSubset ==
    ASSUME NEW S, IsFiniteSet(S), NEW B \in SUBSET SUBSET S, B # {}
    PROVE  \E X \in B : \A Y \in B : ~(Y \subseteq X /\ Y # X)
<1>1. B \subseteq FiniteSubsetsOf(S)
    BY FS_Subset DEF FiniteSubsetsOf
<1>2. IsWellFoundedOn(StrictSubsetOrdering(S), FiniteSubsetsOf(S))
    BY FS_StrictSubsetOrderingWellFounded
<1>3. \E x \in B : \A y \in B : ~(<<y, x>> \in StrictSubsetOrdering(S))
    BY <1>1, <1>2, WFMin
<1> QED
    BY <1>3 DEF StrictSubsetOrdering

\* The sum over a set is what a fold arrives at that takes an element at a time.
First(s) == CHOOSE x \in s : TRUE
Adds(it, f, D) ==
    it = [s \in D |-> IF s = {} THEN 0 ELSE f[First(s)] + it[s \ {First(s)}]]
Adder(f, S) == CHOOSE it : Adds(it, f, SUBSET S)

LEMMA FirstIsIn == ASSUME NEW s, s # {} PROVE First(s) \in s
    BY DEF First

LEMMA SumIsAdded ==
    ASSUME NEW S, NEW f
    PROVE  Audit!MapThenSumSet(LAMBDA t : f[t], S) = Adder(f, S)[S]
    BY Zenon DEF Audit!MapThenSumSet, Audit!MapThenFoldSet, Adder, Adds, First

\* The fold exists: it is built from the smaller subsets to the larger ones.
UpTo(S, T) == {s \in SUBSET S : Cardinality(s) <= Cardinality(T)}

LEMMA AddsOneMore ==
    ASSUME NEW S, IsFiniteSet(S), NEW T \in SUBSET S, NEW x \in T, NEW f, NEW it,
           Adds(it, f, UpTo(S, T \ {x}))
    PROVE  \E next : Adds(next, f, UpTo(S, T))
<1> DEFINE D == UpTo(S, T)
           next == [s \in D |-> IF s = {} THEN 0 ELSE f[First(s)] + it[s \ {First(s)}]]
<1>1. ASSUME NEW s \in SUBSET S, s # {}
      PROVE  /\ s \ {First(s)} \in SUBSET S /\ Cardinality(s) \in Nat
             /\ Cardinality(s \ {First(s)}) = Cardinality(s) - 1
    BY <1>1, FirstIsIn, FS_Subset, FS_RemoveElement, FS_CardinalityType
<1>2. /\ Cardinality(T) \in Nat
      /\ Cardinality(T \ {x}) = Cardinality(T) - 1
    BY FS_Subset, FS_RemoveElement, FS_CardinalityType
<1>3. ASSUME NEW s \in D, s # {}
      PROVE  s \ {First(s)} \in UpTo(S, T \ {x}) /\ s \ {First(s)} \in D
    BY <1>1, <1>2, <1>3 DEF UpTo
<1>4. ASSUME NEW s \in UpTo(S, T \ {x})
      PROVE  next[s] = it[s]
    <2>1. s \in D
        BY <1>2, FS_Subset, FS_CardinalityType DEF UpTo
    <2> QED
        BY <2>1, Zenon DEF Adds
<1>5. ASSUME NEW s \in D
      PROVE  next[s] = IF s = {} THEN 0 ELSE f[First(s)] + next[s \ {First(s)}]
    <2>1. CASE s = {}
        BY <2>1
    <2>2. CASE s # {}
        <3>1. next[s \ {First(s)}] = it[s \ {First(s)}]
            BY <1>3, <1>4, <2>2
        <3> QED
            BY <2>2, <3>1
    <2> QED
        BY <2>1, <2>2
<1> HIDE DEF D
<1>6. next = [s \in D |-> IF s = {} THEN 0 ELSE f[First(s)] + next[s \ {First(s)}]]
    BY <1>5
<1> QED
    BY <1>6 DEF Adds, D

LEMMA AdderAdds ==
    ASSUME NEW S, IsFiniteSet(S), NEW f
    PROVE  Adds(Adder(f, S), f, SUBSET S)
<1> DEFINE Has(T) == \E it : Adds(it, f, UpTo(S, T))
           B == {T \in SUBSET S : ~Has(T)}
<1>1. ASSUME B # {} PROVE FALSE
    <2>1. PICK T \in B : \A Y \in B : ~(Y \subseteq T /\ Y # T)
        <3>1. B \in SUBSET SUBSET S
            OBVIOUS
        <3> HIDE DEF B
        <3> QED
            BY <1>1, <3>1, LeastSubset
    <2>2. T # {}
        <3>1. ASSUME T = {} PROVE FALSE
            <4>1. \A s \in UpTo(S, T) : s = {}
                BY <3>1, FS_EmptySet, FS_Subset, FS_CardinalityType DEF UpTo
            <4> DEFINE it == [s \in UpTo(S, T) |-> 0]
            <4>2. it = [s \in UpTo(S, T) |-> IF s = {} THEN 0 ELSE f[First(s)] + it[s \ {First(s)}]]
                BY <4>1
            <4>3. Has(T)
                BY <4>2, Zenon DEF Adds
            <4> QED
                BY <4>3
        <3> QED
            BY <3>1
    <2>3. PICK x : x \in T
        BY <2>2
    <2>4. T \in SUBSET S /\ T \ {x} \in SUBSET S /\ T \ {x} \subseteq T /\ T \ {x} # T
        BY <2>3
    <2>5. T \ {x} \notin B
        BY <2>1, <2>4
    <2>6. Has(T \ {x})
        BY <2>4, <2>5
    <2>7. Has(T)
        BY <2>3, <2>4, <2>6, AddsOneMore
    <2> QED
        BY <2>7
<1>2. Has(S)
    BY <1>1
<1>3. UpTo(S, S) = SUBSET S
    BY FS_Subset, FS_CardinalityType DEF UpTo
<1>4. \E it : Adds(it, f, SUBSET S)
    BY <1>2, <1>3
<1> QED
    BY <1>4 DEF Adder

LEMMA AddsFirst ==
    ASSUME NEW S, IsFiniteSet(S), NEW f, NEW s \in SUBSET S
    PROVE  /\ s = {} => Adder(f, S)[s] = 0
           /\ s # {} => Adder(f, S)[s] = f[First(s)] + Adder(f, S)[s \ {First(s)}]
<1> DEFINE it == Adder(f, S)
<1>1. it = [z \in SUBSET S |-> IF z = {} THEN 0 ELSE f[First(z)] + it[z \ {First(z)}]]
    BY AdderAdds, Zenon DEF Adds
<1> HIDE DEF it
<1>2. it[s] = IF s = {} THEN 0 ELSE f[First(s)] + it[s \ {First(s)}]
    BY <1>1
<1> QED
    BY <1>2 DEF it

LEMMA SmallerByFirst ==
    ASSUME NEW S, IsFiniteSet(S), NEW s \in SUBSET S, s # {}
    PROVE  /\ First(s) \in s /\ s \ {First(s)} \in SUBSET S
           /\ s \ {First(s)} \subseteq s /\ s \ {First(s)} # s
           /\ Cardinality(s) \in Nat /\ Cardinality(s \ {First(s)}) = Cardinality(s) - 1
    BY FirstIsIn, FS_Subset, FS_RemoveElement, FS_CardinalityType

LEMMA SumIsBounded ==
    ASSUME NEW S, IsFiniteSet(S), NEW M \in Nat, NEW f \in [S -> 0..M]
    PROVE  Adder(f, S)[S] \in 0..(Cardinality(S) * M)
<1> DEFINE Small(s) == Adder(f, S)[s] \in 0..(Cardinality(s) * M)
           B == {s \in SUBSET S : ~Small(s)}
<1>1. ASSUME B # {} PROVE FALSE
    <2>1. PICK s \in B : \A y \in B : ~(y \subseteq s /\ y # s)
        <3>1. B \in SUBSET SUBSET S
            OBVIOUS
        <3> HIDE DEF B
        <3> QED
            BY <1>1, <3>1, LeastSubset
    <2>0. s \in SUBSET S
        BY <2>1
    <2>2. ASSUME s = {} PROVE Small(s)
        <3>1. Adder(f, S)[s] = 0
            BY <2>0, <2>2, AddsFirst, Zenon
        <3>2. Cardinality(s) * M = 0
            BY <2>2, FS_EmptySet
        <3> QED
            BY <3>1, <3>2
    <2>3. ASSUME s # {} PROVE Small(s)
        <3> DEFINE r == s \ {First(s)}
        <3>1. /\ First(s) \in S /\ r \in SUBSET S /\ r \notin B
              /\ Cardinality(s) \in Nat /\ Cardinality(r) = Cardinality(s) - 1
              /\ Cardinality(r) \in Nat
            BY <2>1, <2>3, SmallerByFirst, FS_Subset, FS_CardinalityType
        <3>2. Small(r)
            BY <3>1
        <3>3. Adder(f, S)[s] = f[First(s)] + Adder(f, S)[r]
            <4> HIDE DEF Small, B
            <4> QED
                BY <2>0, <2>3, AddsFirst, ZenonT(40)
        <3>4. f[First(s)] \in 0..M
            BY <3>1
        <3> HIDE DEF r
        <3>5. Cardinality(r) * M + M = Cardinality(s) * M /\ Cardinality(r) * M \in Nat
            BY <3>1
        <3> QED
            BY <3>2, <3>3, <3>4, <3>5
    <2> QED
        BY <2>1, <2>2, <2>3
<1> QED
    BY <1>1

LEMMA SumGrows ==
    ASSUME NEW S, IsFiniteSet(S), NEW f \in [S -> Nat], NEW g \in [S -> Nat],
           \A t \in S : f[t] <= g[t]
    PROVE  Adder(f, S)[S] <= Adder(g, S)[S]
<1> DEFINE Less(s) == /\ Adder(f, S)[s] \in Nat /\ Adder(g, S)[s] \in Nat
                      /\ Adder(f, S)[s] <= Adder(g, S)[s]
           B == {s \in SUBSET S : ~Less(s)}
<1>1. ASSUME B # {} PROVE FALSE
    <2>1. PICK s \in B : \A y \in B : ~(y \subseteq s /\ y # s)
        <3>1. B \in SUBSET SUBSET S
            OBVIOUS
        <3> HIDE DEF B
        <3> QED
            BY <1>1, <3>1, LeastSubset
    <2>0. s \in SUBSET S
        BY <2>1
    <2>2. ASSUME s = {} PROVE Less(s)
        <3>1. Adder(f, S)[s] = 0 /\ Adder(g, S)[s] = 0
            BY <2>0, <2>2, AddsFirst, Zenon
        <3> QED
            BY <3>1
    <2>3. ASSUME s # {} PROVE Less(s)
        <3> DEFINE r == s \ {First(s)}
        <3>1. First(s) \in S /\ r \in SUBSET S /\ r \notin B
            BY <2>1, <2>3, SmallerByFirst
        <3>2. Less(r)
            BY <3>1
        <3>3. Adder(f, S)[s] = f[First(s)] + Adder(f, S)[r]
            <4> HIDE DEF Less, B
            <4> QED
                BY <2>0, <2>3, AddsFirst, ZenonT(40)
        <3>4. Adder(g, S)[s] = g[First(s)] + Adder(g, S)[r]
            <4> HIDE DEF Less, B
            <4> QED
                BY <2>0, <2>3, AddsFirst, ZenonT(40)
        <3>5. f[First(s)] \in Nat /\ g[First(s)] \in Nat /\ f[First(s)] <= g[First(s)]
            BY <3>1
        <3> HIDE DEF r
        <3> QED
            BY <3>2, <3>3, <3>4, <3>5
    <2> QED
        BY <2>1, <2>2, <2>3
<1> QED
    BY <1>1

\* How many events can be recorded, and the pages they fill.
Most == Cardinality(Types) * MaxEvents

LEMMA PagesToMost ==
    ASSUME Audit!AuditAssumption
    PROVE  /\ Most \in Nat \ {0} /\ Limit \in Nat \ {0} /\ MaxEvents \in 0..Most
           /\ Audit!Unknown = Most + 1
           /\ 1 \in Audit!Pages
           /\ \A p \in Nat : p * Limit < Most => p + 1 \in Audit!Pages
<1>1. /\ Cardinality(Types) \in Nat \ {0} /\ MaxEvents \in Nat \ {0} /\ Limit \in Nat \ {0}
      /\ Audit!Unknown = Most + 1
      /\ Audit!Pages = 1..((Most + Limit - 1) \div Limit)
    <2>1. IsFiniteSet(Types) /\ Types # {} /\ MaxEvents \in Nat \ {0} /\ Limit \in Nat \ {0}
        BY DEF Audit!AuditAssumption, Audit!IsFiniteSet, IsFiniteSet
    <2>2. Audit!Cardinality(Types) = Cardinality(Types)
        BY Zenon DEF Audit!Cardinality, Cardinality, Audit!IsFiniteSet, IsFiniteSet
    <2> QED
        BY <2>1, <2>2, FS_EmptySet, FS_CardinalityType DEF Audit!Unknown, Audit!Pages, Most
<1>2. Most \in Nat \ {0} /\ MaxEvents <= Most
    <2>1. \A a, b \in Int : (a - 1) * b = a * b - b
        OBVIOUS
    <2>2. \A a, b \in Nat : a * b \in Nat
        OBVIOUS
    <2> DEFINE n == Cardinality(Types)
    <2>3. n - 1 \in Nat /\ n \in Nat
        BY <1>1
    <2>4. (n - 1) * MaxEvents = Most - MaxEvents /\ (n - 1) * MaxEvents \in Nat /\ Most \in Nat
        BY <1>1, <2>1, <2>2, <2>3 DEF Most
    <2> QED
        BY <1>1, <2>4
<1>3. ASSUME NEW p \in Nat, p * Limit < Most
      PROVE  p + 1 \in 1..((Most + Limit - 1) \div Limit)
    <2>1. (p + 1) * Limit <= Most + Limit - 1
        BY <1>1, <1>2, <1>3
    <2> QED
        BY <1>1, <1>2, <2>1
<1>4. 0 * Limit < Most
    BY <1>1, <1>2
<1> QED
    BY <1>1, <1>2, <1>3, <1>4

\* What is recorded as of a store, and what comes of it.
RecordedIn(st, f) == IF f = None THEN Adder(st, Types)[Types] ELSE st[f]

LEMMA RecordedNow == ASSUME NEW f PROVE Audit!Recorded(f) = RecordedIn(store, f)
    BY SumIsAdded DEF Audit!Recorded, RecordedIn

LEMMA RecordedIsBounded ==
    ASSUME Audit!AuditAssumption, NEW st \in [Types -> 0..MaxEvents], NEW f \in Audit!Filters
    PROVE  RecordedIn(st, f) \in 0..Most
<1>1. IsFiniteSet(Types) /\ MaxEvents \in Nat
    BY DEF Audit!AuditAssumption, Audit!IsFiniteSet, IsFiniteSet
<1>2. CASE f = None
    BY <1>1, <1>2, SumIsBounded DEF Most, RecordedIn
<1>3. CASE f # None
    BY <1>3, PagesToMost DEF RecordedIn, Audit!Filters
<1> QED
    BY <1>2, <1>3

LEMMA RecordedGrows ==
    ASSUME Audit!AuditAssumption, NEW st \in [Types -> 0..MaxEvents],
           NEW more \in [Types -> 0..MaxEvents], \A t \in Types : st[t] <= more[t],
           NEW f \in Audit!Filters
    PROVE  RecordedIn(st, f) <= RecordedIn(more, f)
<1>1. IsFiniteSet(Types) /\ MaxEvents \in Nat
    BY DEF Audit!AuditAssumption, Audit!IsFiniteSet, IsFiniteSet
<1>2. CASE f = None
    <2>1. st \in [Types -> Nat] /\ more \in [Types -> Nat]
        BY <1>1
    <2> QED
        BY <1>1, <1>2, <2>1, SumGrows DEF RecordedIn
<1>3. CASE f # None
    BY <1>3 DEF RecordedIn, Audit!Filters
<1> QED
    BY <1>2, <1>3

\* Beyond the first page there are entries on the page on screen, and on every
\* page that has been answered; no answer tells of more than is recorded.
Answer(k) ==
    cache[k] # Audit!Unknown => /\ cache[k] <= RecordedIn(store, k[2])
                                /\ k[1] = 1 \/ (k[1] - 1) * Limit < cache[k]

AuditInv ==
    /\ Audit!TypeOK
    /\ ui.page = 1 \/ (ui.page - 1) * Limit < RecordedIn(store, ui.eventFilter)
    /\ \A k \in Audit!Pages \X Audit!Filters : Answer(k)

LEMMA TotalPagesOf ==
    ASSUME Audit!AuditAssumption, Audit!TypeOK, NEW p \in Nat \ {0}
    PROVE  /\ p < Audit!TotalPages <=> Audit!Data # Audit!Unknown /\ p * Limit < Audit!Data
           /\ Audit!Data \in 0..Audit!Unknown
<1>1. /\ Audit!Data \in 0..Audit!Unknown /\ Audit!Unknown \in Nat \ {0}
    BY PagesToMost DEF Audit!Data, Audit!TypeOK
<1> DEFINE n == (Audit!Total + Limit - 1) \div Limit
<1>2. Audit!Total \in Nat /\ Limit \in Nat \ {0}
    BY <1>1, PagesToMost DEF Audit!Total
<1>3. Audit!TotalPages = IF n > 1 THEN n ELSE 1
    BY DEF Audit!TotalPages
<1>4. n \in Nat /\ (p + 1 <= n <=> (p + 1) * Limit <= Audit!Total + Limit - 1)
    BY <1>2
<1>5. (p + 1) * Limit = p * Limit + Limit /\ p * Limit \in Nat \ {0}
    BY <1>2
<1> HIDE DEF n
<1>6. p < Audit!TotalPages <=> p * Limit < Audit!Total
    BY <1>2, <1>3, <1>4, <1>5
<1> QED
    BY <1>1, <1>2, <1>5, <1>6 DEF Audit!Total

LEMMA AuditIsRight ==
    ASSUME Audit!AuditAssumption, AuditInv
    PROVE  Audit!TypeOK /\ Audit!PageExists
<1>1. /\ ui.page \in Nat \ {0} /\ Limit \in Nat \ {0}
      /\ <<ui.page, ui.eventFilter>> \in Audit!Pages \X Audit!Filters
    BY PagesToMost DEF AuditInv, Audit!TypeOK, Audit!Pages
<1>2. ASSUME ui.page > 1, Audit!Data # Audit!Unknown
      PROVE  Audit!TotalPages > 1
    <2>1. (ui.page - 1) * Limit < Audit!Data /\ (ui.page - 1) * Limit >= Limit
        BY <1>1, <1>2 DEF AuditInv, Answer, Audit!Data
    <2>2. 1 * Limit < Audit!Data
        BY <1>1, <2>1, TotalPagesOf DEF AuditInv
    <2>3. 1 < Audit!TotalPages
        BY <1>2, <2>2, TotalPagesOf DEF AuditInv
    <2> QED
        BY <2>3
<1> QED
    BY <1>2, RecordedNow DEF AuditInv, Audit!PageExists

LEMMA InitAudit ==
    ASSUME Audit!AuditAssumption, Audit!Init
    PROVE  AuditInv
<1>1. Audit!Unknown \in Nat /\ 1 \in Audit!Pages /\ None \in Audit!Filters
    BY PagesToMost DEF Audit!Filters
<1>2. Audit!TypeOK /\ ui.page = 1
    BY <1>1 DEF Audit!Init, Audit!TypeOK, Audit!AuditAssumption
<1>3. \A k \in Audit!Pages \X Audit!Filters : cache[k] = Audit!Unknown
    BY DEF Audit!Init
<1> QED
    BY <1>2, <1>3 DEF AuditInv, Answer

AuditUi == [page : Audit!Pages, eventFilter : Audit!Filters, select : Audit!Filters,
            refreshing : BOOLEAN, error : BOOLEAN]

\* What is on screen beyond the first page has entries, however it was reached.
LEMMA ShowAudit ==
    ASSUME Audit!AuditAssumption, AuditInv, UNCHANGED <<store, cache>>, fuel' \in 0..MaxFuel,
           ui' \in AuditUi,
           ui'.page = 1 \/ (ui'.page - 1) * Limit < RecordedIn(store, ui'.eventFilter)
    PROVE  AuditInv'
<1>1. Audit!TypeOK'
    BY DEF AuditInv, Audit!TypeOK, AuditUi
<1> QED
    BY <1>1 DEF AuditInv, Answer

LEMMA AnsweredAudit ==
    ASSUME Audit!AuditAssumption, AuditInv, Audit!Answered
    PROVE  AuditInv'
<1> DEFINE at == <<ui.page, ui.eventFilter>>
           now == RecordedIn(store, ui.eventFilter)
<1>1. /\ at \in Audit!Pages \X Audit!Filters
      /\ now \in 0..Most /\ Audit!Unknown = Most + 1 /\ Most \in Nat
    BY PagesToMost, RecordedIsBounded DEF AuditInv, Audit!TypeOK
<1>2. /\ cache' = [cache EXCEPT ![at] = now]
      /\ store' = store /\ fuel' = fuel
      /\ ui' = [ui EXCEPT !.error = FALSE, !.refreshing = FALSE]
    BY RecordedNow DEF Audit!Answered
<1>3. ui' \in AuditUi /\ ui'.page = ui.page /\ ui'.eventFilter = ui.eventFilter
    BY <1>2 DEF AuditInv, Audit!TypeOK, AuditUi
<1>4. Audit!TypeOK'
    BY <1>1, <1>2, <1>3 DEF AuditInv, Audit!TypeOK, AuditUi
<1>5. ASSUME NEW k \in Audit!Pages \X Audit!Filters
      PROVE  Answer(k)'
    <2>1. CASE k = at
        <3>1. cache'[k] = now
            BY <1>1, <1>2, <2>1 DEF AuditInv, Audit!TypeOK
        <3>2. k[1] = ui.page /\ k[2] = ui.eventFilter
            BY <2>1
        <3> QED
            BY <1>1, <1>2, <3>1, <3>2 DEF AuditInv, Answer
    <2>2. CASE k # at
        <3>1. cache'[k] = cache[k]
            BY <1>1, <1>2, <2>2 DEF AuditInv, Audit!TypeOK
        <3> QED
            BY <1>2, <3>1 DEF AuditInv, Answer
    <2> QED
        BY <2>1, <2>2
<1> QED
    BY <1>2, <1>3, <1>4, <1>5 DEF AuditInv

LEMMA RecordAudit ==
    ASSUME Audit!AuditAssumption, AuditInv, NEW t \in Types, Audit!Record(t)
    PROVE  AuditInv'
<1>1. /\ store' = [store EXCEPT ![t] = store[t] + 1] /\ store[t] < MaxEvents
      /\ UNCHANGED <<cache, ui, fuel>>
    BY DEF Audit!Record
<1>2. store \in [Types -> 0..MaxEvents] /\ MaxEvents \in Nat
    BY DEF AuditInv, Audit!TypeOK, Audit!AuditAssumption
<1>3. store' \in [Types -> 0..MaxEvents] /\ \A s \in Types : store[s] <= store'[s]
    BY <1>1, <1>2
<1>4. Audit!TypeOK'
    BY <1>1, <1>3 DEF AuditInv, Audit!TypeOK
<1>5. \A f \in Audit!Filters : /\ RecordedIn(store, f) <= RecordedIn(store', f)
                               /\ RecordedIn(store, f) \in Nat /\ RecordedIn(store', f) \in Nat
    BY <1>2, <1>3, RecordedGrows, RecordedIsBounded, PagesToMost
<1>6. ui' = ui /\ ui.eventFilter \in Audit!Filters /\ ui.page \in Nat /\ Limit \in Nat
    BY <1>1, PagesToMost DEF AuditInv, Audit!TypeOK, Audit!Pages
<1>7. ui'.page = 1 \/ (ui'.page - 1) * Limit < RecordedIn(store', ui'.eventFilter)
    <2>1. (ui.page - 1) * Limit \in Int
        BY <1>6
    <2> QED
        BY <1>5, <1>6, <2>1 DEF AuditInv
<1>8. ASSUME NEW k \in Audit!Pages \X Audit!Filters
      PROVE  Answer(k)'
    <2>1. cache'[k] = cache[k] /\ cache[k] \in Nat /\ k[2] \in Audit!Filters
        BY <1>1, PagesToMost DEF AuditInv, Audit!TypeOK
    <2> QED
        BY <1>5, <2>1 DEF AuditInv, Answer
<1> QED
    BY <1>4, <1>7, <1>8 DEF AuditInv

LEMMA NextAudit ==
    ASSUME Audit!AuditAssumption, AuditInv, [Audit!Next]_Audit!avars
    PROVE  AuditInv'
<1>0. /\ ui \in AuditUi /\ fuel \in 0..MaxFuel /\ MaxFuel \in Nat /\ Audit!TypeOK
      /\ ui.page \in Nat \ {0} /\ ui.page \in Audit!Pages
      /\ Limit \in Nat \ {0} /\ Most \in Nat \ {0}
      /\ RecordedIn(store, ui.eventFilter) \in 0..Most
      /\ ui.page = 1 \/ (ui.page - 1) * Limit < RecordedIn(store, ui.eventFilter)
    BY PagesToMost, RecordedIsBounded
       DEF AuditInv, AuditUi, Audit!TypeOK, Audit!AuditAssumption, Audit!Pages
<1>1. ASSUME NEW f \in Audit!Filters, Audit!HandleFilterChange(f)
      PROVE  AuditInv'
    <2>1. /\ ui' = [ui EXCEPT !.eventFilter = f, !.select = f, !.page = 1]
          /\ UNCHANGED <<store, cache, fuel>>
        BY <1>1 DEF Audit!HandleFilterChange, Audit!Show
    <2>2. ui' \in AuditUi /\ ui'.page = 1
        BY <1>0, <2>1, PagesToMost DEF AuditUi
    <2> QED
        BY <1>0, <2>1, <2>2, ShowAudit
<1>2. ASSUME Audit!Next_ PROVE AuditInv'
    <2>1. /\ ui' = [ui EXCEPT !.page = ui.page + 1] /\ ui.page < Audit!TotalPages
          /\ UNCHANGED <<store, cache, fuel>>
        BY <1>2 DEF Audit!Next_, Audit!Show
    <2>2. Audit!Data # Audit!Unknown /\ ui.page * Limit < Audit!Data /\ Audit!Data \in Nat
        <3>1. Audit!Data # Audit!Unknown /\ ui.page * Limit < Audit!Data
            BY <1>0, <2>1, TotalPagesOf, Zenon
        <3>2. Audit!Data \in 0..Audit!Unknown
            BY <1>0, TotalPagesOf, Zenon
        <3> QED
            BY <3>1, <3>2, PagesToMost
    <2>3. Audit!Data <= RecordedIn(store, ui.eventFilter)
        BY <1>0, <2>2 DEF AuditInv, Answer, Audit!Data, AuditUi
    <2>4. ui.page * Limit < RecordedIn(store, ui.eventFilter) /\ ui.page * Limit < Most
        BY <1>0, <2>2, <2>3
    <2>5. ui.page + 1 \in Audit!Pages
        BY <1>0, <2>4, PagesToMost
    <2>6. ui' \in AuditUi /\ ui'.page = ui.page + 1 /\ ui'.eventFilter = ui.eventFilter
        BY <1>0, <2>1, <2>5 DEF AuditUi
    <2>7. (ui'.page - 1) * Limit < RecordedIn(store, ui'.eventFilter)
        BY <1>0, <2>4, <2>6
    <2> QED
        BY <1>0, <2>1, <2>6, <2>7, ShowAudit
<1>3. ASSUME Audit!Previous PROVE AuditInv'
    <2>1. /\ ui' = [ui EXCEPT !.page = ui.page - 1] /\ ui.page > 1
          /\ UNCHANGED <<store, cache, fuel>>
        BY <1>3 DEF Audit!Previous, Audit!Show
    <2>2. /\ (ui.page - 2) * Limit <= (ui.page - 1) * Limit /\ ui.page - 2 \in Nat
          /\ (ui.page - 2) * Limit \in Nat /\ (ui.page - 1) * Limit \in Nat
        BY <1>0, <2>1
    <2>3. ui.page - 2 + 1 \in Audit!Pages
        BY <1>0, <2>1, <2>2, PagesToMost
    <2>4. ui' \in AuditUi /\ ui'.page = ui.page - 1 /\ ui'.eventFilter = ui.eventFilter
        BY <1>0, <2>1, <2>3 DEF AuditUi
    <2>5. (ui'.page - 1) * Limit < RecordedIn(store, ui'.eventFilter)
        BY <1>0, <2>1, <2>2, <2>4
    <2> QED
        BY <1>0, <2>1, <2>4, <2>5, ShowAudit
<1>4. ASSUME Audit!HandleRefresh PROVE AuditInv'
    <2>1. /\ ui' = [ui EXCEPT !.refreshing = TRUE] /\ UNCHANGED <<store, cache, fuel>>
        BY <1>4 DEF Audit!HandleRefresh, Audit!Show
    <2>2. ui' \in AuditUi /\ ui'.page = ui.page /\ ui'.eventFilter = ui.eventFilter
        BY <1>0, <2>1 DEF AuditUi
    <2> QED
        BY <1>0, <2>1, <2>2, ShowAudit
<1>5. ASSUME Audit!Failed PROVE AuditInv'
    <2>1. /\ ui' = [ui EXCEPT !.error = TRUE, !.refreshing = FALSE, !.select = None]
          /\ UNCHANGED <<store, cache>> /\ fuel' \in 0..MaxFuel
        BY <1>0, <1>5 DEF Audit!Failed
    <2>2. ui' \in AuditUi /\ ui'.page = ui.page /\ ui'.eventFilter = ui.eventFilter
        BY <1>0, <2>1 DEF AuditUi, Audit!Filters
    <2> QED
        BY <1>0, <2>1, <2>2, ShowAudit
<1>6. CASE UNCHANGED Audit!avars
    BY <1>0, <1>6, ShowAudit DEF Audit!avars
<1> QED
    BY <1>1, <1>2, <1>3, <1>4, <1>5, <1>6, AnsweredAudit, RecordAudit DEF Audit!Next

-----------------------------------------------------------------------------
(* The editor of a configuration                                           *)

LEMMA PerformedIsRecord ==
    ASSUME NEW t
    PROVE  /\ Editor!Performed(t) = [valid  |-> Editor!Performed(t).valid,
                                     errors |-> Editor!Performed(t).errors]
           /\ Editor!Performed(t).valid \in BOOLEAN
    BY DEF Editor!Performed, Editor!ValidateYamlConfig

\* The validators find an error just when the text uses a name that it does not
\* define, and are content otherwise.
LEMMA SevereIsUndefined ==
    ASSUME NEW t, Editor!HasPipelines(t), ~Editor!Throws(t)
    PROVE  Editor!Severe(Editor!ValidateYamlConfig(t).errors) <=> ~Editor!AllDefined(t)
<1> DEFINE P == Editor!PipelineErrors(t)
           X == Editor!ExtensionErrors(t)
           W == Editor!EmptyPipelineWarnings(t)
<1>1. Editor!ValidateYamlConfig(t).errors = P \cup X \cup W
    BY DEF Editor!ValidateYamlConfig
<1>2. \A e \in W : e.severity # "error"
    BY DEF Editor!EmptyPipelineWarnings, Editor!Complaint
<1>3. \A e \in P \cup X : e.severity = "error"
    BY DEF Editor!PipelineErrors, Editor!ExtensionErrors, Editor!Complaint
<1>4. \A i \in DOMAIN t.pipelines : \A s \in Editor!Stages :
          Editor!ListOf(t.pipelines[i], s) = t.pipelines[i].body[s]
    BY DEF Editor!Throws, Editor!ListOf
<1>5. P = {} <=> \A i \in DOMAIN t.pipelines : \A s \in Editor!Stages :
          Editor!Members(t.pipelines[i].body[s]) \subseteq Editor!Defined(t, s)
    <2> DEFINE Undefined(p, s) == Editor!Members(p.body[s]) \ Editor!Defined(t, s)
    <2> DEFINE Of(p, s) == {Editor!Complaint("error", p.name, s, n) : n \in Undefined(p, s)}
    <2>1. P = UNION {Of(p, s) : p \in Editor!Range(t.pipelines), s \in Editor!Stages}
        BY DEF Editor!PipelineErrors
    <2>2. \A p, s : Of(p, s) = {} <=> Undefined(p, s) = {}
        OBVIOUS
    <2> HIDE DEF P, Undefined, Of
    <2>3. P = {} <=> \A p \in Editor!Range(t.pipelines) : \A s \in Editor!Stages : Of(p, s) = {}
        BY <2>1
    <2>4. P = {} <=> \A p \in Editor!Range(t.pipelines) : \A s \in Editor!Stages :
              Undefined(p, s) = {}
        BY <2>2, <2>3
    <2> QED
        BY <2>4 DEF Editor!Range, Undefined
<1>6. X = {} <=> t.uses \subseteq t.defines["extensions"]
    BY DEF Editor!ExtensionErrors, Editor!HasPipelines
<1>7. P \cup X = {} <=> Editor!AllDefined(t)
    BY <1>4, <1>5, <1>6 DEF Editor!AllDefined
<1> HIDE DEF P, X, W
<1> QED
    BY <1>1, <1>2, <1>3, <1>7 DEF Editor!Severe

LEMMA WarningIsEmptyList ==
    ASSUME NEW t, Editor!HasPipelines(t), NEW e \in Editor!ValidateYamlConfig(t).errors,
           e.severity # "error"
    PROVE  \E i \in DOMAIN t.pipelines :
               <<>> \in {t.pipelines[i].body[s] : s \in Editor!Stages}
<1>1. e \in Editor!EmptyPipelineWarnings(t)
    BY DEF Editor!ValidateYamlConfig, Editor!PipelineErrors, Editor!ExtensionErrors,
       Editor!Complaint
<1>2. PICK p \in Editor!Range(t.pipelines), s \in {"receivers", "exporters"} : p.body[s] = <<>>
    BY <1>1 DEF Editor!EmptyPipelineWarnings
<1> QED
    BY <1>2 DEF Editor!Range, Editor!Stages

\* What the hooks have made of the text is true of it once their timers have run
\* out, and until then the badge says that they are at work.  There are no markers
\* before Monaco has mounted, and while the text is one that came before only its own.
EditorInv ==
    /\ Editor!TypeOK
    /\ cache = [parsed |-> cache.parsed, result |-> cache.result, marked |-> cache.marked]
    /\ "parse" \in calls => ui.isParsing
    /\ "validate" \in calls => ui.isValidating
    /\ "parse" \notin calls => (cache.parsed <=> store.form # "broken")
    /\ "validate" \notin calls => cache.result = Editor!Performed(store)
    /\ ~ui.mounted => ui.early /\ cache.marked = None
    /\ ui.early => cache.marked \in {None, store}
    /\ "validate" \notin calls /\ store.form \notin {"empty", "blank", "broken"} =>
          cache.marked = store \/ (cache.marked = None /\ ui.early)
    /\ ui.crashed => Editor!GenerateThrows(store)

LEMMA EditorIsRight ==
    ASSUME EditorInv
    PROVE  Editor!TypeOK /\ Editor!VerdictIsCurrent /\ Editor!SurvivesLists
<1>1. ASSUME Editor!Settled
      PROVE  /\ ~ui.isParsing /\ ~ui.isValidating
             /\ cache.parsed <=> store.form # "broken"
             /\ cache.result = Editor!Performed(store)
    BY <1>1 DEF EditorInv, Editor!Settled, Editor!LeftBadge
<1>2. ASSUME Editor!Settled
      PROVE  /\ Editor!LeftBadge = "parse error" <=> store.form = "broken"
             /\ Editor!RightBadge = IF Editor!LeftBadge \in {"parse error", "errors"}
                                    THEN "Invalid" ELSE "Valid"
    <2>1. cache.parsed => (cache.result.valid <=> ~Editor!Severe(cache.result.errors))
        BY <1>1, <1>2 DEF Editor!Performed, Editor!ValidateYamlConfig, Editor!Severe
    <2>2. cache.result.errors = {} => ~Editor!Severe(cache.result.errors)
        BY DEF Editor!Severe
    <2> QED
        BY <1>1, <1>2, <2>1, <2>2 DEF Editor!LeftBadge, Editor!RightBadge
<1>3. ASSUME Editor!Settled, Editor!HasPipelines(store), ~Editor!Throws(store)
      PROVE  /\ Editor!LeftBadge = "errors" <=> ~Editor!AllDefined(store)
             /\ Editor!LeftBadge = "warnings" =>
                    \E i \in DOMAIN store.pipelines :
                        <<>> \in {store.pipelines[i].body[s] : s \in Editor!Stages}
    <2>1. cache.parsed /\ cache.result = Editor!ValidateYamlConfig(store)
        BY <1>1, <1>3 DEF Editor!HasPipelines, Editor!Performed
    <2>2. Editor!Severe(cache.result.errors) <=> ~Editor!AllDefined(store)
        BY <1>3, <2>1, SevereIsUndefined
    <2>3. cache.result.errors = {} => ~Editor!Severe(cache.result.errors)
        BY DEF Editor!Severe
    <2>4. Editor!LeftBadge = "errors" <=> Editor!Severe(cache.result.errors)
        BY <1>1, <1>3, <2>1, <2>3 DEF Editor!LeftBadge
    <2>5. ASSUME Editor!LeftBadge = "warnings"
          PROVE  \E i \in DOMAIN store.pipelines :
                     <<>> \in {store.pipelines[i].body[s] : s \in Editor!Stages}
        <3>1. cache.result.errors # {} /\ ~Editor!Severe(cache.result.errors)
            BY <2>5 DEF Editor!LeftBadge
        <3>2. PICK e \in Editor!ValidateYamlConfig(store).errors : e.severity # "error"
            BY <2>1, <3>1 DEF Editor!Severe
        <3> QED
            BY <1>3, <3>2, WarningIsEmptyList
    <2> QED
        BY <2>2, <2>4, <2>5
<1>4. Editor!SurvivesLists
    BY DEF EditorInv, Editor!SurvivesLists, Editor!GenerateThrows
<1> QED
    BY <1>2, <1>3, <1>4 DEF EditorInv, Editor!VerdictIsCurrent

LEMMA InitEditor ==
    ASSUME Editor!EditorAssumption, Editor!Init
    PROVE  EditorInv
<1>1. /\ store \in Editor!Text /\ fuel \in 0..MaxFuel
      /\ cache = [parsed |-> TRUE, result |-> [valid |-> TRUE, errors |-> {}], marked |-> None]
      /\ calls = {"parse", "validate"}
      /\ ui \in [isParsing : BOOLEAN, isValidating : BOOLEAN, crashed : BOOLEAN,
                 mounted : BOOLEAN, early : BOOLEAN]
      /\ ~ui.mounted /\ ui.early
      /\ ui.isParsing /\ ui.isValidating /\ (ui.crashed <=> Editor!GenerateThrows(store))
    BY DEF Editor!Init, Editor!EditorAssumption, Editor!GenerateThrows
<1> QED
    BY <1>1 DEF EditorInv, Editor!TypeOK

LEMMA NextEditor ==
    ASSUME Editor!EditorAssumption, EditorInv, [Editor!Next]_Editor!evars
    PROVE  EditorInv'
<1> DEFINE Ui == [isParsing : BOOLEAN, isValidating : BOOLEAN, crashed : BOOLEAN,
                  mounted : BOOLEAN, early : BOOLEAN]
<1>0. /\ store \in Editor!Text /\ ui \in Ui /\ calls \subseteq {"parse", "validate"}
      /\ cache = [parsed |-> cache.parsed, result |-> cache.result, marked |-> cache.marked]
      /\ cache.parsed \in BOOLEAN /\ cache.result.valid \in BOOLEAN
      /\ cache.marked = None \/ cache.marked \in Editor!Text
      /\ fuel \in 0..MaxFuel /\ MaxFuel \in Nat
    BY DEF EditorInv, Editor!TypeOK, Editor!EditorAssumption
<1>1. ASSUME NEW t \in TypedTexts, Editor!OnChange(t)
      PROVE  EditorInv'
    <2>1. /\ t \in Editor!Text /\ store' = t /\ calls' = {"parse", "validate"} /\ cache' = cache
          /\ fuel > 0 /\ fuel' = fuel - 1
          /\ ui' = [ui EXCEPT !.isParsing = TRUE, !.isValidating = TRUE,
                              !.crashed = Editor!DrawingShown /\ Editor!GenerateThrows(t),
                              !.early = ~ui.mounted]
        BY <1>1 DEF Editor!OnChange, Editor!EditorAssumption
    <2>2. /\ ui' \in Ui /\ ui'.isParsing /\ ui'.isValidating
          /\ ui'.crashed => Editor!GenerateThrows(t)
          /\ ui'.mounted = ui.mounted /\ ui'.early = ~ui.mounted
        BY <1>0, <2>1
    <2>3. Editor!TypeOK'
        BY <1>0, <2>1, <2>2 DEF Editor!TypeOK
    <2> QED
        BY <1>0, <2>1, <2>2, <2>3 DEF EditorInv
<1>2. ASSUME Editor!ParseYaml PROVE EditorInv'
    <2> DEFINE good == store.form # "broken"
    <2>1. /\ store' = store /\ fuel' = fuel /\ calls' = calls \ {"parse"}
          /\ cache' = [cache EXCEPT !.parsed = good]
          /\ ui'.isValidating = ui.isValidating /\ ui' \in Ui
          /\ ui'.crashed => Editor!GenerateThrows(store)
          /\ ui'.mounted = ui.mounted /\ ui'.early = ui.early
        BY <1>0, <1>2 DEF Editor!ParseYaml
    <2>2. /\ cache' = [parsed |-> cache'.parsed, result |-> cache'.result, marked |-> cache'.marked]
          /\ cache'.parsed = good /\ cache'.result = cache.result /\ cache'.marked = cache.marked
        BY <1>0, <2>1
    <2>3. Editor!TypeOK'
        BY <1>0, <2>1, <2>2 DEF Editor!TypeOK
    <2> QED
        BY <1>0, <2>1, <2>2, <2>3 DEF EditorInv
<1>3. ASSUME Editor!PerformValidation PROVE EditorInv'
    <2> DEFINE marks == IF store.form \in {"empty", "blank", "broken"} \/ ~ui.mounted
                        THEN cache.marked ELSE store
    <2>1. /\ store' = store /\ fuel' = fuel /\ calls = {"validate"} /\ calls' = {}
          /\ cache' = [cache EXCEPT !.result = Editor!Performed(store), !.marked = marks]
          /\ ui' = [ui EXCEPT !.isValidating = FALSE]
        BY <1>3 DEF Editor!PerformValidation
    <2>2. /\ cache' = [parsed |-> cache'.parsed, result |-> cache'.result, marked |-> cache'.marked]
          /\ cache'.parsed = cache.parsed /\ cache'.result = Editor!Performed(store)
          /\ cache'.marked = marks
        BY <1>0, <2>1
    <2>3. /\ ui' \in Ui /\ ui'.crashed = ui.crashed /\ (marks = None \/ marks \in Editor!Text)
          /\ ui'.mounted = ui.mounted /\ ui'.early = ui.early
        BY <1>0, <2>1
    <2>4. Editor!TypeOK'
        BY <1>0, <2>1, <2>2, <2>3, PerformedIsRecord DEF Editor!TypeOK
    <2>5. /\ cache.parsed <=> store.form # "broken"
          /\ cache'.result = Editor!Performed(store')
          /\ ~ui.mounted => ui.early /\ cache'.marked = None
          /\ ui.early => cache'.marked \in {None, store}
          /\ store.form \notin {"empty", "blank", "broken"} =>
                cache'.marked = store \/ (cache'.marked = None /\ ui.early)
        BY <2>1, <2>2 DEF EditorInv
    <2> QED
        BY <2>1, <2>2, <2>3, <2>4, <2>5 DEF EditorInv
<1>4. ASSUME Editor!HandleEditorDidMount PROVE EditorInv'
    <2>1. /\ UNCHANGED <<store, cache, calls, fuel>>
          /\ ui' = [ui EXCEPT !.mounted = TRUE]
        BY <1>4 DEF Editor!HandleEditorDidMount
    <2>2. /\ ui' \in Ui /\ ui'.mounted /\ ui'.early = ui.early /\ ui'.crashed = ui.crashed
          /\ ui'.isParsing = ui.isParsing /\ ui'.isValidating = ui.isValidating
        BY <1>0, <2>1
    <2>3. Editor!TypeOK'
        BY <1>0, <2>1, <2>2 DEF Editor!TypeOK
    <2> QED
        BY <1>0, <2>1, <2>2, <2>3 DEF EditorInv
<1>5. CASE UNCHANGED Editor!evars
    BY <1>5, Zenon DEF Editor!evars, EditorInv, Editor!TypeOK
<1> QED
    BY <1>1, <1>2, <1>3, <1>4, <1>5 DEF Editor!Next

-----------------------------------------------------------------------------
(* The drawing of a configuration                                          *)

\* Induction on natural numbers, for a set in place of a predicate.
LEMMA AllNumbers ==
    ASSUME NEW S, 0 \in S, \A n \in Nat : n \in S => n + 1 \in S
    PROVE  Nat \subseteq S
<1> SUFFICES ASSUME Nat \ S # {} PROVE FALSE
    OBVIOUS
<1>1. PICK n \in Nat \ S : \A m \in Nat \ S : ~(<<m, n>> \in OpToRel(<, Nat))
    BY NatLessThanWellFounded, WFMin
<1>2. \A m \in Nat \ S : ~(m < n)
    BY <1>1 DEF OpToRel
<1> QED
    BY <1>2, n - 1 \in Nat \/ n = 0, n - 1 + 1 = n, n - 1 < n

LEMMA LargestIs ==
    ASSUME NEW a \in Int, NEW b \in Int, NEW c \in Int, NEW d \in Int, NEW S, S = {a, b, c, d}
    PROVE  /\ Editor!Largest(S) \in Int
           /\ Editor!Largest(S) >= a /\ Editor!Largest(S) >= b
           /\ Editor!Largest(S) >= c /\ Editor!Largest(S) >= d
<1>1. \E x \in S : \A y \in S : x >= y
    <2>1. PICK x \in {a, b} : x >= a /\ x >= b
        OBVIOUS
    <2>2. PICK y \in {c, d} : y >= c /\ y >= d
        OBVIOUS
    <2> QED
        BY <2>1, <2>2
<1>2. Editor!Largest(S) \in S /\ \A y \in S : Editor!Largest(S) >= y
    BY <1>1 DEF Editor!Largest
<1> QED
    BY <1>2

\* A section is high enough for the boxes of any of its columns.
LEMMA SectionIsHigh ==
    ASSUME NEW r \in Nat, NEW e \in Nat
    PROVE  /\ Editor!SectionHeight(r, e) \in Nat /\ Editor!SectionHeight(r, e) >= 320
           /\ Editor!SectionHeight(r, e) >= Editor!Stack(r) + 160
           /\ Editor!SectionHeight(r, e) >= Editor!Stack(e) + 160
<1>1. Editor!Stack(r) \in Int /\ Editor!Stack(e) \in Int /\ Editor!BoxHeight \in Int
    BY DEF Editor!Stack, Editor!BoxHeight
<1> DEFINE S == {Editor!Stack(r), Editor!Stack(e), Editor!BoxHeight}
           T == {320, Editor!Largest(S) + 160}
<1>2. /\ Editor!Largest(S) \in Int
      /\ Editor!Largest(S) >= Editor!Stack(r) /\ Editor!Largest(S) >= Editor!Stack(e)
    <2>1. S = {Editor!Stack(r), Editor!Stack(e), Editor!BoxHeight, Editor!BoxHeight}
        OBVIOUS
    <2> HIDE DEF S
    <2> QED
        BY <1>1, <2>1, LargestIs
<1>3. /\ Editor!Largest(T) \in Int
      /\ Editor!Largest(T) >= 320 /\ Editor!Largest(T) >= Editor!Largest(S) + 160
    <2> HIDE DEF S
    <2>1. T = {320, 320, Editor!Largest(S) + 160, Editor!Largest(S) + 160}
        OBVIOUS
    <2>2. 320 \in Int /\ Editor!Largest(S) + 160 \in Int
        BY <1>2
    <2> DEFINE m == Editor!Largest(S) + 160
    <2> HIDE DEF T, m
    <2>3. m \in Int /\ T = {320, 320, m, m}
        BY <2>1, <2>2 DEF m
    <2>4. Editor!Largest(T) \in Int /\ Editor!Largest(T) >= 320 /\ Editor!Largest(T) >= m
        BY <2>3, LargestIs
    <2> QED
        BY <2>4 DEF m
<1>4. Editor!SectionHeight(r, e) = Editor!Largest(T)
    BY Zenon DEF Editor!SectionHeight
<1> HIDE DEF S, T
<1> QED
    BY <1>1, <1>2, <1>3, <1>4

\* How many boxes a stage has, of r receivers, p processors and e exporters.
Boxed(stage, r, p, e) ==
    IF stage = "receivers" THEN r ELSE IF stage = "processors" THEN p ELSE e

LEMMA BoxInSection ==
    ASSUME NEW r \in Nat, NEW p \in Nat, NEW e \in Nat, NEW top \in Nat,
           NEW stage \in Editor!Stages, NEW k \in Nat, k < Boxed(stage, r, p, e)
    PROVE  LET at == Editor!Position(stage, k, r, p, e, top)
           IN /\ at.x \in Int /\ at.y \in Int
              /\ top < at.y /\ at.y + 100 <= top + Editor!SectionHeight(r, e)
              /\ 50 < at.x /\ at.x + 192 <= 50 + Editor!SectionWidth(p)
<1> DEFINE h == Editor!SectionHeight(r, e)
           c == top + h \div 2
<1>1. /\ h \in Nat /\ h >= 320
      /\ r > 0 => h >= 260 + (r - 1) * 120
      /\ e > 0 => h >= 260 + (e - 1) * 120
    <2>1. \A n \in Nat : n > 0 => Editor!Stack(n) + 160 = 260 + (n - 1) * 120
        BY DEF Editor!Stack, Editor!BoxHeight
    <2>2. h \in Nat /\ h >= 320 /\ h >= Editor!Stack(r) + 160 /\ h >= Editor!Stack(e) + 160
        BY SectionIsHigh
    <2> HIDE DEF h
    <2> QED
        BY <2>1, <2>2
<1> HIDE DEF h
<1>2. c \in Nat /\ 2 * (c - top) <= h /\ h <= 2 * (c - top) + 1
    BY <1>1
<1>3. CASE stage = "receivers"
    <2>1. LET at == Editor!Position(stage, k, r, p, e, top)
          IN at.x = 100 /\ at.y = c - (r - 1) * 60 - 30 + k * 120
        BY <1>3 DEF Editor!Position, h
    <2> HIDE DEF c
    <2> QED
        BY <1>1, <1>2, <1>3, <2>1 DEF Boxed, Editor!SectionWidth, h
<1>4. CASE stage = "processors"
    <2>1. LET at == Editor!Position(stage, k, r, p, e, top)
          IN at.x = 350 + k * 220 /\ at.y = c - 30
        BY <1>4 DEF Editor!Position, h
    <2> HIDE DEF c
    <2> QED
        BY <1>1, <1>2, <1>4, <2>1 DEF Boxed, Editor!SectionWidth, h
<1>5. CASE stage = "exporters"
    <2>1. LET at == Editor!Position(stage, k, r, p, e, top)
          IN /\ at.x = IF p > 0 THEN 350 + (p - 1) * 220 + 250 ELSE 600
             /\ at.y = c - (e - 1) * 60 - 30 + k * 120
        BY <1>5 DEF Editor!Position, h
    <2> HIDE DEF c
    <2> QED
        BY <1>1, <1>2, <1>5, <2>1 DEF Boxed, Editor!SectionWidth, h
<1> QED
    BY <1>3, <1>4, <1>5 DEF Editor!Stages

LEMMA BoxesOfSectionApart ==
    ASSUME NEW r \in Nat, NEW p \in Nat, NEW e \in Nat, NEW top \in Nat,
           NEW s \in Editor!Stages, NEW k \in Nat, k < Boxed(s, r, p, e),
           NEW t \in Editor!Stages, NEW l \in Nat, l < Boxed(t, r, p, e),
           <<s, k>> # <<t, l>>
    PROVE  LET a == Editor!Position(s, k, r, p, e, top)
               b == Editor!Position(t, l, r, p, e, top)
           IN \/ a.x + 192 <= b.x \/ b.x + 192 <= a.x
              \/ a.y + 100 <= b.y \/ b.y + 100 <= a.y
<1> DEFINE c == top + Editor!SectionHeight(r, e) \div 2
           X(u, j) == IF u = "receivers" THEN 100 ELSE IF u = "processors" THEN 350 + j * 220
                      ELSE IF p > 0 THEN 350 + (p - 1) * 220 + 250 ELSE 600
           Y(u, j) == IF u = "receivers" THEN c - (r - 1) * 60 - 30 + j * 120
                      ELSE IF u = "processors" THEN c - 30 ELSE c - (e - 1) * 60 - 30 + j * 120
<1>1. \A u \in Editor!Stages, j \in Nat :
          LET at == Editor!Position(u, j, r, p, e, top) IN at.x = X(u, j) /\ at.y = Y(u, j)
    BY DEF Editor!Position, Editor!Stages
<1>2. c \in Int
    BY SectionIsHigh
<1> HIDE DEF c
<1> DEFINE XS == X(s, k)
           XT == X(t, l)
           YS == Y(s, k)
           YT == Y(t, l)
<1>3. XS + 192 <= XT \/ XT + 192 <= XS \/ YS + 100 <= YT \/ YT + 100 <= YS
    <2>1. CASE s = t
        BY <1>2, <2>1 DEF Boxed, Editor!Stages
    <2>2. CASE s # t
        BY <1>2, <2>2 DEF Boxed, Editor!Stages
    <2> QED
        BY <2>1, <2>2
<1>4. LET a == Editor!Position(s, k, r, p, e, top)
          b == Editor!Position(t, l, r, p, e, top)
      IN a.x = XS /\ a.y = YS /\ b.x = XT /\ b.y = YT
    BY <1>1
<1> HIDE DEF XS, XT, YS, YT, X, Y
<1> QED
    BY <1>3, <1>4

-----------------------------------------------------------------------------

\* The lists of a pipeline are lists, or it has none.
Drawable(p) ==
    /\ p.name \in DOMAIN PipelineNames
    /\ \A s \in Editor!Stages : Editor!ListOf(p, s) \in Seq({otlp, otlp2, batch})

\* A box is that of an entry of a list, and each entry has one.
BoxOf(p, top, s, k) ==
    LET at == Editor!Position(s, k - 1, Editor!Count(p, "receivers"),
                              Editor!Count(p, "processors"), Editor!Count(p, "exporters"), top)
    IN [id |-> Editor!Id(s, p, Editor!ListOf(p, s)[k]), x |-> at.x, y |-> at.y]

LEMMA CountsAre ==
    ASSUME NEW p, Drawable(p)
    PROVE  /\ \A s \in Editor!Stages : Editor!Count(p, s) \in Nat
           /\ \A s \in Editor!Stages : 
                 Editor!Count(p, s) = Boxed(s, Editor!Count(p, "receivers"),
                                    Editor!Count(p, "processors"), Editor!Count(p, "exporters"))
           /\ Editor!HeightOf(p) \in Nat
<1>1. \A s \in Editor!Stages : Editor!Count(p, s) \in Nat
    BY DEF Drawable, Editor!Count
<1>2. "receivers" \in Editor!Stages /\ "exporters" \in Editor!Stages
    BY DEF Editor!Stages
<1>3. Editor!HeightOf(p) \in Nat
    BY <1>1, <1>2, SectionIsHigh DEF Editor!HeightOf
<1> QED
    BY <1>1, <1>3 DEF Editor!Stages, Boxed

LEMMA BoxesAre ==
    ASSUME NEW p, Drawable(p), NEW top
    PROVE  /\ \A b \in Editor!Boxes(p, top) :
                 \E s \in Editor!Stages : \E k \in 1..Editor!Count(p, s) : b = BoxOf(p, top, s, k)
           /\ \A s \in Editor!Stages : \A k \in 1..Editor!Count(p, s) :
                 BoxOf(p, top, s, k) \in Editor!Boxes(p, top)
<1> DEFINE Counts == {Editor!Count(p, z) : z \in Editor!Stages} \cup {1}
           Longest == Editor!Largest(Counts)
           Entries == {q \in Editor!Stages \X (1..Longest) : q[2] <= Editor!Count(p, q[1])}
<1>1. /\ Longest \in Int
      /\ \A s \in Editor!Stages : Editor!Count(p, s) \in Nat /\ Editor!Count(p, s) <= Longest
    <2>1. Counts = {Editor!Count(p, "receivers"), Editor!Count(p, "processors"),
                    Editor!Count(p, "exporters"), 1}
        BY DEF Editor!Stages
    <2>2. \A s \in Editor!Stages : Editor!Count(p, s) \in Nat
        BY CountsAre
    <2>3. /\ Editor!Count(p, "receivers") \in Int /\ Editor!Count(p, "processors") \in Int
          /\ Editor!Count(p, "exporters") \in Int /\ 1 \in Int
        BY <2>2 DEF Editor!Stages
    <2> HIDE DEF Counts
    <2>4. /\ Editor!Count(p, "receivers") <= Longest /\ Editor!Count(p, "processors") <= Longest
          /\ Editor!Count(p, "exporters") <= Longest /\ Longest \in Int
        BY <2>1, <2>3, LargestIs
    <2> QED
        BY <2>2, <2>4 DEF Editor!Stages
<1>2. Editor!Boxes(p, top) = {BoxOf(p, top, q[1], q[2]) : q \in Entries}
    BY Zenon DEF Editor!Boxes, BoxOf
<1> HIDE DEF Longest
<1>3. ASSUME NEW q \in Entries
      PROVE  q[1] \in Editor!Stages /\ q[2] \in 1..Editor!Count(p, q[1])
    BY <1>1, <1>3
<1>4. ASSUME NEW s \in Editor!Stages, NEW k \in 1..Editor!Count(p, s)
      PROVE  <<s, k>> \in Entries
    <2>1. k \in 1..Longest
        <3>1. Editor!Count(p, s) \in Nat /\ Editor!Count(p, s) <= Longest /\ Longest \in Int
            BY <1>1, <1>4
        <3> QED
            BY <3>1, <1>4
    <2> QED
        BY <1>1, <1>4, <2>1
<1> HIDE DEF Entries
<1>5. ASSUME NEW b \in Editor!Boxes(p, top)
      PROVE  \E s \in Editor!Stages : \E k \in 1..Editor!Count(p, s) : b = BoxOf(p, top, s, k)
    BY <1>2, <1>3, <1>5
<1>6. ASSUME NEW s \in Editor!Stages, NEW k \in 1..Editor!Count(p, s)
      PROVE  BoxOf(p, top, s, k) \in Editor!Boxes(p, top)
    <2>1. BoxOf(p, top, s, k) = BoxOf(p, top, <<s, k>>[1], <<s, k>>[2])
        OBVIOUS
    <2> HIDE DEF BoxOf
    <2> QED
        BY <1>2, <1>4, <1>6, <2>1
<1> QED
    BY <1>5, <1>6

-----------------------------------------------------------------------------

\* The upper edges satisfy their equation, which has a solution: an edge is drawn
\* from the ones above it.
Edge(heights, top, n) ==
    top = [i \in 1..n |-> IF i = 1 THEN 0 ELSE top[i - 1] + heights[i - 1] + 40]

LEMMA EdgesExist ==
    ASSUME NEW heights, NEW N \in Nat
    PROVE  \E top : Edge(heights, top, N)
<1> DEFINE S == {n \in Nat : \E top : Edge(heights, top, n)}
<1>1. 0 \in S
    <2> DEFINE top == [i \in 1..0 |-> 0]
    <2>1. top = [i \in 1..0 |-> IF i = 1 THEN 0 ELSE top[i - 1] + heights[i - 1] + 40]
        OBVIOUS
    <2>2. Edge(heights, top, 0)
        BY <2>1, Zenon DEF Edge
    <2> QED
        BY <2>2
<1>2. ASSUME NEW n \in Nat, n \in S PROVE n + 1 \in S
    <2>1. PICK top : Edge(heights, top, n)
        BY <1>2
    <2> DEFINE next == [i \in 1..(n + 1) |-> IF i = 1 THEN 0 ELSE top[i - 1] + heights[i - 1] + 40]
    <2>2. ASSUME NEW i \in 1..(n + 1), i # 1
          PROVE  next[i - 1] = top[i - 1]
        <3>1. i - 1 \in 1..n
            BY <2>2
        <3>2. top[i - 1] = IF i - 1 = 1 THEN 0 ELSE top[i - 1 - 1] + heights[i - 1 - 1] + 40
            BY <2>1, <3>1 DEF Edge
        <3> QED
            BY <3>1, <3>2
    <2>3. next = [i \in 1..(n + 1) |-> IF i = 1 THEN 0 ELSE next[i - 1] + heights[i - 1] + 40]
        <3>1. \A i \in 1..(n + 1) :
                 next[i] = IF i = 1 THEN 0 ELSE next[i - 1] + heights[i - 1] + 40
            BY <2>2
        <3>2. next = [i \in 1..(n + 1) |-> next[i]]
            OBVIOUS
        <3> HIDE DEF next
        <3> QED
            BY <3>1, <3>2
    <2> HIDE DEF next
    <2>4. Edge(heights, next, n + 1)
        BY <2>3, Zenon DEF Edge
    <2> QED
        BY <2>4
<1> HIDE DEF S
<1>3. N \in S
    BY <1>1, <1>2, AllNumbers
<1> QED
    BY <1>3 DEF S

Heights(pipelines) == [i \in 1..Len(pipelines) |-> Editor!HeightOf(pipelines[i])]

LEMMA TopsAre ==
    ASSUME NEW pipelines, Len(pipelines) \in Nat,
           \A i \in 1..Len(pipelines) : Editor!HeightOf(pipelines[i]) \in Nat
    PROVE  /\ Editor!Tops(pipelines)[1] = 0
           /\ \A i \in 1..Len(pipelines) :
                 Editor!Tops(pipelines)[i + 1] =
                     Editor!Tops(pipelines)[i] + Editor!HeightOf(pipelines[i]) + 40
<1> DEFINE N == Len(pipelines) + 1
           h == Heights(pipelines)
           Eq(f) == f = [i \in 1..N |->
                          IF i = 1 THEN 0 ELSE f[i - 1] + Editor!HeightOf(pipelines[i - 1]) + 40]
<1>1. \A f : Eq(f) <=> Edge(h, f, N)
    <2> SUFFICES ASSUME NEW f PROVE Eq(f) <=> Edge(h, f, N)
        OBVIOUS
    <2>1. \A i \in 1..N : i # 1 => h[i - 1] = Editor!HeightOf(pipelines[i - 1])
        BY DEF Heights
    <2>2. [i \in 1..N |-> IF i = 1 THEN 0 ELSE f[i - 1] + h[i - 1] + 40] =
          [i \in 1..N |-> IF i = 1 THEN 0 ELSE f[i - 1] + Editor!HeightOf(pipelines[i - 1]) + 40]
        BY <2>1
    <2> QED
        BY <2>2, Zenon DEF Edge
<1>2. Editor!Tops(pipelines) = CHOOSE f : Eq(f)
    BY Zenon DEF Editor!Tops
<1>3. \E f : Eq(f)
    <2>1. \E f : Edge(h, f, N)
        <3>1. N \in Nat
            OBVIOUS
        <3> HIDE DEF N
        <3> QED
            BY <3>1, EdgesExist
    <2> QED
        BY <1>1, <2>1, Zenon
<1>4. Eq(Editor!Tops(pipelines))
    <2> HIDE DEF Eq
    <2> QED
        BY <1>2, <1>3
<1> DEFINE top == Editor!Tops(pipelines)
<1> HIDE DEF top
<1>5. \A i \in 1..N : top[i] = IF i = 1 THEN 0 ELSE top[i - 1] + Editor!HeightOf(pipelines[i - 1]) + 40
    BY <1>4 DEF top
<1>6. top[1] = 0
    <2>1. 1 \in 1..N
        OBVIOUS
    <2> HIDE DEF N
    <2> QED
        BY <1>5, <2>1
<1>7. ASSUME NEW i \in 1..Len(pipelines)
      PROVE  top[i + 1] = top[i] + Editor!HeightOf(pipelines[i]) + 40
    <2>1. i + 1 \in 1..N /\ i + 1 # 1 /\ i + 1 - 1 = i
        OBVIOUS
    <2> DEFINE j == i + 1
    <2>2. top[j] = top[j - 1] + Editor!HeightOf(pipelines[j - 1]) + 40
        <3> HIDE DEF N, j
        <3> QED
            BY <1>5, <2>1 DEF j
    <2>3. j - 1 = i
        BY <2>1
    <2> QED
        BY <2>2, <2>3, Zenon
<1> QED
    BY <1>6, <1>7 DEF top

\* Each section begins below all that are above it.
LEMMA SectionsApart ==
    ASSUME NEW pipelines, Len(pipelines) \in Nat,
           \A i \in 1..Len(pipelines) : Editor!HeightOf(pipelines[i]) \in Nat
    PROVE  /\ \A i \in 1..(Len(pipelines) + 1) : Editor!Tops(pipelines)[i] \in Nat
           /\ \A i \in 1..Len(pipelines) :
                 Editor!Tops(pipelines)[i + 1] =
                     Editor!Tops(pipelines)[i] + Editor!HeightOf(pipelines[i]) + 40
           /\ \A i, j \in 1..Len(pipelines) :
                 i < j => Editor!Tops(pipelines)[i] + Editor!HeightOf(pipelines[i])
                              < Editor!Tops(pipelines)[j]
<1> DEFINE top == Editor!Tops(pipelines)
           N == Len(pipelines)
           H(i) == Editor!HeightOf(pipelines[i])
<1>1. top[1] = 0 /\ \A i \in 1..N : H(i) \in Nat /\ top[i + 1] = top[i] + H(i) + 40
    BY TopsAre
<1> HIDE DEF top, H
<1> DEFINE S == {n \in Nat : n + 1 <= N + 1 =>
                    /\ top[n + 1] \in Nat
                    /\ \A i \in 1..N : i < n + 1 => top[i] \in Nat /\ top[i] + H(i) < top[n + 1]}
<1>2. 0 \in S
    BY <1>1
<1>3. ASSUME NEW n \in Nat, n \in S PROVE n + 1 \in S
    <2> SUFFICES ASSUME n + 2 <= N + 1
                 PROVE /\ top[n + 2] \in Nat
                       /\ \A i \in 1..N : i < n + 2 => top[i] \in Nat /\ top[i] + H(i) < top[n + 2]
        OBVIOUS
    <2>1. /\ n + 1 \in 1..N /\ top[n + 1] \in Nat
          /\ \A i \in 1..N : i < n + 1 => top[i] \in Nat /\ top[i] + H(i) < top[n + 1]
        BY <1>3
    <2>2. H(n + 1) \in Nat /\ top[n + 2] = top[n + 1] + H(n + 1) + 40
        BY <1>1, <2>1
    <2>3. ASSUME NEW i \in 1..N, i < n + 2
          PROVE  top[i] \in Nat /\ top[i] + H(i) < top[n + 2]
        <3>1. CASE i = n + 1
            BY <2>1, <2>2, <3>1
        <3>2. CASE i < n + 1
            <4>1. top[i] \in Nat /\ top[i] + H(i) < top[n + 1]
                BY <2>1, <3>2
            <4>2. H(i) \in Nat
                BY <1>1
            <4>3. top[n + 1] \in Nat /\ H(n + 1) \in Nat
                BY <2>1, <2>2
            <4>4. top[i] + H(i) < top[n + 1] + H(n + 1) + 40
                BY <4>1, <4>2, <4>3
            <4> QED
                BY <2>2, <4>1, <4>4
        <3> QED
            BY <2>3, <3>1, <3>2
    <2> QED
        BY <2>1, <2>2, <2>3
<1> HIDE DEF S
<1>4. \A n \in Nat : n \in S
    BY <1>2, <1>3, AllNumbers
<1>5. ASSUME NEW j \in 1..(N + 1)
      PROVE  top[j] \in Nat /\ \A i \in 1..N : i < j => top[i] + H(i) < top[j]
    <2>1. j - 1 \in Nat /\ j - 1 + 1 = j
        BY <1>5
    <2>2. j - 1 \in S
        BY <1>4, <2>1
    <2> QED
        BY <2>1, <2>2 DEF S
<1>6. ASSUME NEW i \in 1..N, NEW j \in 1..N, i < j
      PROVE  top[i] + H(i) < top[j]
    <2>1. j \in 1..(N + 1)
        OBVIOUS
    <2> HIDE DEF N
    <2> QED
        BY <1>5, <1>6, <2>1
<1>7. \A i \in 1..(N + 1) : top[i] \in Nat
    BY <1>5
<1>8. \A i \in 1..N : top[i + 1] = top[i] + H(i) + 40
    BY <1>1
<1> QED
    BY <1>6, <1>7, <1>8 DEF top, H

-----------------------------------------------------------------------------

\* What a text that does not throw is drawn from.
Drawables(pipelines) ==
    /\ Len(pipelines) \in Nat /\ DOMAIN pipelines = 1..Len(pipelines)
    /\ \A i \in 1..Len(pipelines) : Drawable(pipelines[i])

LEMMA TextIsDrawable ==
    ASSUME NEW t \in Editor!Text, Editor!HasPipelines(t), ~Editor!GenerateThrows(t)
    PROVE  Drawables(t.pipelines)
<1>1. t \in Editor!Mapping /\ t.pipelines # None
    BY DEF Editor!Text, Editor!HasPipelines
<1>2. t.pipelines \in Seq(Editor!Pipeline)
    BY <1>1 DEF Editor!Mapping, Editor!Keyed
<1>3. /\ Len(t.pipelines) \in Nat /\ DOMAIN t.pipelines = 1..Len(t.pipelines)
      /\ \A i \in 1..Len(t.pipelines) : t.pipelines[i] \in Editor!Pipeline
    BY <1>2
<1>4. ASSUME NEW i \in 1..Len(t.pipelines), NEW s \in Editor!Stages
      PROVE  Editor!ListOf(t.pipelines[i], s) \in Seq({otlp, otlp2, batch})
    <2>1. Editor!ListOf(t.pipelines[i], s) # Word
        BY <1>3, <1>4 DEF Editor!GenerateThrows, Editor!Scalar
    <2>2. CASE t.pipelines[i].body = None
        BY <2>2 DEF Editor!ListOf
    <2>3. CASE t.pipelines[i].body # None
        BY <1>3, <2>1, <2>3 DEF Editor!ListOf, Editor!Pipeline, Editor!List
    <2> QED
        BY <2>2, <2>3
<1>5. \A i \in 1..Len(t.pipelines) : t.pipelines[i].name \in DOMAIN PipelineNames
    BY <1>3 DEF Editor!Pipeline
<1> QED
    BY <1>3, <1>4, <1>5 DEF Drawables, Drawable

LEMMA BoxIn ==
    ASSUME NEW p, Drawable(p), NEW top \in Nat, NEW b \in Editor!Boxes(p, top)
    PROVE  /\ b.x \in Int /\ b.y \in Int
           /\ top < b.y /\ b.y + 100 <= top + Editor!HeightOf(p)
           /\ 50 < b.x /\ b.x + 192 <= 50 + Editor!SectionWidth(Editor!Count(p, "processors"))
<1> DEFINE r == Editor!Count(p, "receivers")
           m == Editor!Count(p, "processors")
           e == Editor!Count(p, "exporters")
<1>1. /\ r \in Nat /\ m \in Nat /\ e \in Nat
      /\ \A s \in Editor!Stages : Editor!Count(p, s) \in Nat /\ Editor!Count(p, s) = Boxed(s, r, m, e)
    BY CountsAre DEF Editor!Stages
<1>2. PICK s \in Editor!Stages : \E k \in 1..Editor!Count(p, s) : b = BoxOf(p, top, s, k)
    BY BoxesAre
<1>2a. PICK k \in 1..Editor!Count(p, s) : b = BoxOf(p, top, s, k)
    BY <1>2
<1> DEFINE j  == k - 1
           at == Editor!Position(s, j, r, m, e, top)
<1>3. b.x = at.x /\ b.y = at.y
    BY <1>2a DEF BoxOf
<1>4. r \in Nat /\ m \in Nat /\ e \in Nat /\ j \in Nat /\ j < Boxed(s, r, m, e)
    BY <1>1, <1>2a
<1>5. Editor!HeightOf(p) = Editor!SectionHeight(r, e)
    BY DEF Editor!HeightOf
<1> HIDE DEF r, m, e, j
<1>6. /\ at.x \in Int /\ at.y \in Int
      /\ top < at.y /\ at.y + 100 <= top + Editor!SectionHeight(r, e)
      /\ 50 < at.x /\ at.x + 192 <= 50 + Editor!SectionWidth(m)
    BY <1>4, BoxInSection
<1> HIDE DEF at
<1> QED
    BY <1>3, <1>5, <1>6 DEF m

Asunder(a, b) ==
    \/ a.x + 192 <= b.x \/ b.x + 192 <= a.x
    \/ a.y + 100 <= b.y \/ b.y + 100 <= a.y

LEMMA BoxesApart ==
    ASSUME NEW p, Drawable(p), NEW top \in Nat,
           NEW a \in Editor!Boxes(p, top), NEW b \in Editor!Boxes(p, top), a # b
    PROVE  Asunder(a, b)
<1> DEFINE r == Editor!Count(p, "receivers")
           m == Editor!Count(p, "processors")
           e == Editor!Count(p, "exporters")
<1>1. /\ r \in Nat /\ m \in Nat /\ e \in Nat
      /\ \A s \in Editor!Stages : Editor!Count(p, s) \in Nat /\ Editor!Count(p, s) = Boxed(s, r, m, e)
    BY CountsAre DEF Editor!Stages
<1>2. PICK s \in Editor!Stages : \E k \in 1..Editor!Count(p, s) : a = BoxOf(p, top, s, k)
    BY BoxesAre
<1>2a. PICK k \in 1..Editor!Count(p, s) : a = BoxOf(p, top, s, k)
    BY <1>2
<1>3. PICK t \in Editor!Stages : \E l \in 1..Editor!Count(p, t) : b = BoxOf(p, top, t, l)
    BY BoxesAre
<1>3a. PICK l \in 1..Editor!Count(p, t) : b = BoxOf(p, top, t, l)
    BY <1>3
<1>4. <<s, k - 1>> # <<t, l - 1>>
    BY <1>1, <1>2a, <1>3a
<1> DEFINE A == Editor!Position(s, k - 1, r, m, e, top)
           B == Editor!Position(t, l - 1, r, m, e, top)
<1>5. a.x = A.x /\ a.y = A.y /\ b.x = B.x /\ b.y = B.y
    BY <1>2a, <1>3a DEF BoxOf
<1>6. /\ k - 1 \in Nat /\ k - 1 < Boxed(s, r, m, e)
      /\ l - 1 \in Nat /\ l - 1 < Boxed(t, r, m, e)
    BY <1>1, <1>2a, <1>3a
<1> HIDE DEF r, m, e
<1>7. Asunder(A, B)
    <2> DEFINE i == k - 1
               j == l - 1
    <2> HIDE DEF i, j
    <2>1. /\ i \in Nat /\ i < Boxed(s, r, m, e) /\ j \in Nat /\ j < Boxed(t, r, m, e)
          /\ <<s, i>> # <<t, j>>
        BY <1>4, <1>6 DEF i, j
    <2>2. Asunder(Editor!Position(s, i, r, m, e, top), Editor!Position(t, j, r, m, e, top))
        BY <1>1, <2>1, BoxesOfSectionApart DEF Asunder
    <2> QED
        BY <2>2 DEF i, j
<1> HIDE DEF A, B
<1> QED
    BY <1>5, <1>7 DEF Asunder

LEMMA ArrowsJoinBoxes ==
    ASSUME NEW p, Drawable(p), NEW top, NEW e \in Editor!Arrows(p)
    PROVE  {e[1], e[2]} \subseteq {b.id : b \in Editor!Boxes(p, top)}
<1>1. ASSUME NEW s \in Editor!Stages, NEW k \in 1..Editor!Count(p, s)
      PROVE  Editor!Id(s, p, Editor!ListOf(p, s)[k]) \in {b.id : b \in Editor!Boxes(p, top)}
    <2>1. BoxOf(p, top, s, k) \in Editor!Boxes(p, top)
        BY BoxesAre
    <2>2. BoxOf(p, top, s, k).id = Editor!Id(s, p, Editor!ListOf(p, s)[k])
        BY DEF BoxOf
    <2> QED
        BY <2>1, <2>2
<1>2. ASSUME NEW s \in Editor!Stages, NEW n \in Editor!Range(Editor!ListOf(p, s))
      PROVE  Editor!Id(s, p, n) \in {b.id : b \in Editor!Boxes(p, top)}
    <2>1. DOMAIN Editor!ListOf(p, s) = 1..Editor!Count(p, s)
        BY DEF Drawable, Editor!Count
    <2>2. PICK k \in 1..Editor!Count(p, s) : n = Editor!ListOf(p, s)[k]
        BY <1>2, <2>1 DEF Editor!Range
    <2> QED
        BY <1>1, <2>2
<1> DEFINE ids == {b.id : b \in Editor!Boxes(p, top)}
           last == Editor!Count(p, "processors")
           At(k) == Editor!Id("processors", p, Editor!ListOf(p, "processors")[k])
<1>3. "receivers" \in Editor!Stages /\ "processors" \in Editor!Stages /\ "exporters" \in Editor!Stages
    BY DEF Editor!Stages
<1>4. last \in Nat
    BY <1>3, CountsAre
<1>5. \A k \in 1..last : At(k) \in ids
    BY <1>1, <1>3
<1>6. /\ \A n \in Editor!Range(Editor!ListOf(p, "receivers")) : Editor!Id("receivers", p, n) \in ids
      /\ \A n \in Editor!Range(Editor!ListOf(p, "exporters")) : Editor!Id("exporters", p, n) \in ids
    BY <1>2, <1>3
<1> HIDE DEF ids
<1>7. \/ last > 0 /\ \/ \E n \in Editor!Range(Editor!ListOf(p, "receivers")) :
                            e = <<Editor!Id("receivers", p, n), At(1)>>
                     \/ \E i \in 1..(last - 1) : e = <<At(i), At(i + 1)>>
                     \/ \E n \in Editor!Range(Editor!ListOf(p, "exporters")) :
                            e = <<At(last), Editor!Id("exporters", p, n)>>
      \/ \E r \in Editor!Range(Editor!ListOf(p, "receivers")),
            n \in Editor!Range(Editor!ListOf(p, "exporters")) :
                e = <<Editor!Id("receivers", p, r), Editor!Id("exporters", p, n)>>
    BY DEF Editor!Arrows, Editor!Count
<1> HIDE DEF At, last
<1>8. e[1] \in ids /\ e[2] \in ids
    <2>1. CASE \E i \in 1..(last - 1) : e = <<At(i), At(i + 1)>>
        BY <1>4, <1>5, <2>1
    <2>2. CASE last > 0
        BY <1>4, <1>5, <1>6, <1>7, <2>1, <2>2
    <2>3. CASE ~(last > 0)
        BY <1>6, <1>7, <2>3
    <2> QED
        BY <2>2, <2>3
<1> QED
    BY <1>8 DEF ids

\* No two boxes of a drawing overlap, each is in its section, and every arrow
\* joins two boxes.
LEMMA DrawingFits ==
    ASSUME Editor!TypeOK
    PROVE  Editor!BoxesFit
<1> SUFFICES ASSUME Editor!Drawn PROVE Editor!BoxesFit
    BY DEF Editor!BoxesFit
<1> DEFINE ps == store.pipelines
           N == Len(ps)
           top == Editor!Tops(ps)
           d == Editor!Drawing
<1>1. Drawables(ps) /\ DOMAIN ps = 1..N /\ N \in Nat
    BY TextIsDrawable DEF Editor!TypeOK, Editor!Drawn, Drawables
<1>2. \A i \in 1..N : Drawable(ps[i]) /\ Editor!HeightOf(ps[i]) \in Nat
    BY <1>1, CountsAre DEF Drawables
<1>3. /\ \A i \in 1..(N + 1) : top[i] \in Nat
      /\ \A i \in 1..N : top[i + 1] = top[i] + Editor!HeightOf(ps[i]) + 40
      /\ \A i, j \in 1..N : i < j => top[i] + Editor!HeightOf(ps[i]) < top[j]
    BY <1>1, <1>2, SectionsApart
<1>4. /\ \A a \in d.nodes : \E i \in 1..N : a \in Editor!Boxes(ps[i], top[i])
      /\ \A e \in d.edges : \E i \in 1..N : e \in Editor!Arrows(ps[i])
      /\ \A i \in 1..N : Editor!Boxes(ps[i], top[i]) \subseteq d.nodes
    <2>1. CASE ps = <<>>
        <3>1. N = 0
            BY <2>1
        <3>2. d.nodes = {} /\ d.edges = {}
            BY <2>1 DEF Editor!Drawing, Editor!GeneratePipelineNodes, Editor!Drawn,
                        Editor!HasPipelines, Editor!Note
        <3> QED
            BY <3>1, <3>2
    <2>2. CASE ps # <<>>
        <3>1. /\ d.nodes = UNION {Editor!Boxes(ps[i], top[i]) : i \in DOMAIN ps}
              /\ d.edges = UNION {Editor!Arrows(ps[i]) : i \in DOMAIN ps}
            BY <2>2 DEF Editor!Drawing, Editor!GeneratePipelineNodes, Editor!Drawn,
                        Editor!HasPipelines
        <3> HIDE DEF d, ps, top, N
        <3> QED
            BY <1>1, <3>1
    <2> QED
        BY <2>1, <2>2
<1> HIDE DEF ps, N, top, d
<1>5. ASSUME NEW i \in 1..N, NEW b \in Editor!Boxes(ps[i], top[i])
      PROVE  /\ b.x \in Int /\ b.y \in Int
             /\ top[i] < b.y /\ b.y + 100 <= top[i] + Editor!HeightOf(ps[i])
             /\ 50 < b.x /\ b.x + 192 <= 50 + Editor!SectionWidth(Editor!Count(ps[i], "processors"))
    <2>1. top[i] \in Nat
        BY <1>1, <1>3
    <2> QED
        BY <1>2, <2>1, BoxIn
<1>6. ASSUME NEW a \in d.nodes, NEW b \in d.nodes, a # b
      PROVE  Asunder(a, b)
    <2>1. PICK i \in 1..N : a \in Editor!Boxes(ps[i], top[i])
        BY <1>4
    <2>2. PICK j \in 1..N : b \in Editor!Boxes(ps[j], top[j])
        BY <1>4
    <2>3. CASE i = j
        <3>1. top[i] \in Nat
            BY <1>1, <1>3
        <3> QED
            BY <1>2, <1>6, <2>1, <2>2, <2>3, <3>1, BoxesApart
    <2>4. ASSUME NEW k \in 1..N, NEW l \in 1..N, k < l,
                 NEW x \in Editor!Boxes(ps[k], top[k]), NEW y \in Editor!Boxes(ps[l], top[l])
          PROVE  x.y + 100 <= y.y
        <3>1. /\ top[k] \in Nat /\ top[l] \in Nat
              /\ top[k] + Editor!HeightOf(ps[k]) < top[l] /\ Editor!HeightOf(ps[k]) \in Nat
            BY <1>1, <1>2, <1>3, <2>4
        <3>2. x.y \in Int /\ y.y \in Int /\ x.y + 100 <= top[k] + Editor!HeightOf(ps[k]) /\ top[l] < y.y
            BY <1>5, <2>4
        <3> QED
            BY <3>1, <3>2
    <2>5. CASE i < j
        BY <2>1, <2>2, <2>4, <2>5 DEF Asunder
    <2>6. CASE j < i
        BY <2>1, <2>2, <2>4, <2>6 DEF Asunder
    <2> QED
        BY <1>1, <2>3, <2>5, <2>6
<1>7. ASSUME NEW e \in d.edges
      PROVE  {e[1], e[2]} \subseteq {n.id : n \in d.nodes}
    <2>1. PICK i \in 1..N : e \in Editor!Arrows(ps[i])
        BY <1>4
    <2>2. {e[1], e[2]} \subseteq {b.id : b \in Editor!Boxes(ps[i], top[i])}
        BY <1>2, <2>1, ArrowsJoinBoxes
    <2> QED
        BY <1>4, <2>2
<1>8. ASSUME NEW i \in 1..N
      PROVE  top[i] + Editor!HeightOf(ps[i]) < top[i + 1]
    <2>1. top[i] \in Nat /\ Editor!HeightOf(ps[i]) \in Nat
        BY <1>1, <1>2, <1>3
    <2> QED
        BY <1>3, <2>1
<1>9. Editor!BoxWidth = 192 /\ Editor!BoxHeight = 100
    BY DEF Editor!BoxWidth, Editor!BoxHeight
<1>10. \A a, b \in d.nodes :
         a = b \/ a.x + Editor!BoxWidth <= b.x \/ b.x + Editor!BoxWidth <= a.x
               \/ a.y + Editor!BoxHeight <= b.y \/ b.y + Editor!BoxHeight <= a.y
    BY <1>6, <1>9 DEF Asunder
<1>11. \A i \in DOMAIN ps : \A b \in Editor!Boxes(ps[i], top[i]) :
         /\ top[i] < b.y /\ b.y + Editor!BoxHeight <= top[i] + Editor!HeightOf(ps[i])
         /\ top[i] + Editor!HeightOf(ps[i]) < top[i + 1]
         /\ 50 < b.x
         /\ b.x + Editor!BoxWidth <= 50 + Editor!SectionWidth(Editor!Count(ps[i], "processors"))
    BY <1>1, <1>5, <1>8, <1>9
<1> QED
    BY <1>7, <1>10, <1>11, Zenon DEF Editor!BoxesFit, d, top, ps

-----------------------------------------------------------------------------

\* A further step along the arrows.
Near(edges, without, S) ==
    S \cup {e[2] : e \in {f \in edges : f[1] \in S /\ f[2] # without}}

Reaching(reach, edges, from, without, N) ==
    reach = [n \in 0..N |-> IF n = 0 THEN {from} \ {without} ELSE Near(edges, without, reach[n - 1])]

LEMMA ReachExists ==
    ASSUME NEW edges, NEW from, NEW without, NEW N \in Nat
    PROVE  \E reach : Reaching(reach, edges, from, without, N)
<1> DEFINE S == {n \in Nat : \E reach : Reaching(reach, edges, from, without, n)}
<1>1. 0 \in S
    <2> DEFINE reach == [n \in 0..0 |-> {from} \ {without}]
    <2>1. reach = [n \in 0..0 |-> IF n = 0 THEN {from} \ {without} ELSE Near(edges, without, reach[n - 1])]
        OBVIOUS
    <2>2. Reaching(reach, edges, from, without, 0)
        BY <2>1, Zenon DEF Reaching
    <2> QED
        BY <2>2
<1>2. ASSUME NEW n \in Nat, n \in S PROVE n + 1 \in S
    <2>1. PICK reach : Reaching(reach, edges, from, without, n)
        BY <1>2
    <2> DEFINE next == [i \in 0..(n + 1) |->
                           IF i = 0 THEN {from} \ {without} ELSE Near(edges, without, reach[i - 1])]
    <2>2. ASSUME NEW i \in 0..(n + 1), i # 0
          PROVE  next[i - 1] = reach[i - 1]
        <3>1. i - 1 \in 0..n
            BY <2>2
        <3>2. reach[i - 1] = IF i - 1 = 0 THEN {from} \ {without}
                             ELSE Near(edges, without, reach[i - 1 - 1])
            BY <2>1, <3>1 DEF Reaching
        <3> QED
            BY <3>1, <3>2
    <2>3. next = [i \in 0..(n + 1) |->
                     IF i = 0 THEN {from} \ {without} ELSE Near(edges, without, next[i - 1])]
        <3>1. \A i \in 0..(n + 1) :
                 next[i] = IF i = 0 THEN {from} \ {without} ELSE Near(edges, without, next[i - 1])
            BY <2>2
        <3>2. next = [i \in 0..(n + 1) |-> next[i]]
            OBVIOUS
        <3> HIDE DEF next
        <3> QED
            BY <3>1, <3>2
    <2> HIDE DEF next
    <2>4. Reaching(next, edges, from, without, n + 1)
        BY <2>3, Zenon DEF Reaching
    <2> QED
        BY <2>4
<1> HIDE DEF S
<1>3. N \in S
    BY <1>1, <1>2, AllNumbers
<1> QED
    BY <1>3 DEF S

LEMMA DrawingCounts ==
    \A S : Editor!Cardinality(S) = Cardinality(S) /\ (Editor!IsFiniteSet(S) <=> IsFiniteSet(S))
BY DEF Editor!IsFiniteSet, Editor!Cardinality, IsFiniteSet, Cardinality

\* A search for what is reached, a step for each arrow.
Search(reach, edges, from, without) ==
    /\ Editor!Reached(edges, from, without) = reach[Cardinality(edges)]
    /\ reach[0] = {from} \ {without}
    /\ \A n \in 0..(Cardinality(edges) - 1) : reach[n + 1] = Near(edges, without, reach[n])

LEMMA ReachedIs ==
    ASSUME NEW edges, IsFiniteSet(edges), NEW from, NEW without
    PROVE  \E reach : Search(reach, edges, from, without)
<1> DEFINE N == Cardinality(edges)
           C == CHOOSE f : Reaching(f, edges, from, without, N)
<1>1. N \in Nat
    BY FS_CardinalityType
<1>2. Editor!Reached(edges, from, without) = C[N]
    BY DrawingCounts, Zenon DEF Editor!Reached, Reaching, Near
<1>3. Reaching(C, edges, from, without, N)
    <2>1. \E f : Reaching(f, edges, from, without, N)
        BY <1>1, ReachExists
    <2> QED
        BY <2>1
<1> HIDE DEF C, N
<1>4. \A n \in 0..N : C[n] = IF n = 0 THEN {from} \ {without} ELSE Near(edges, without, C[n - 1])
    BY <1>3 DEF Reaching
<1>5. C[0] = {from} \ {without}
    BY <1>1, <1>4
<1>6. ASSUME NEW n \in 0..(N - 1)
      PROVE  C[n + 1] = Near(edges, without, C[n])
    <2> DEFINE j == n + 1
    <2>1. j \in 0..N /\ j # 0 /\ j - 1 = n
        BY <1>1
    <2> HIDE DEF j
    <2>2. C[j] = Near(edges, without, C[n])
        BY <1>4, <2>1
    <2> QED
        BY <2>2 DEF j
<1>7. /\ Editor!Reached(edges, from, without) = C[N]
      /\ C[0] = {from} \ {without}
      /\ \A n \in 0..(N - 1) : C[n + 1] = Near(edges, without, C[n])
    BY <1>2, <1>5, <1>6, Zenon
<1>8. Search(C, edges, from, without)
    BY <1>7 DEF Search, N
<1> QED
    BY <1>8

\* Nothing is reached outside a set that no arrow leads out of...
LEMMA ReachedWithin ==
    ASSUME NEW edges, IsFiniteSet(edges), NEW from, NEW without, NEW S, from \in S,
           \A e \in edges : e[1] \in S /\ e[2] # without => e[2] \in S
    PROVE  Editor!Reached(edges, from, without) \subseteq S
<1> DEFINE N == Cardinality(edges)
<1>1. N \in Nat
    BY FS_CardinalityType
<1>0. PICK reach : Search(reach, edges, from, without)
    BY ReachedIs
<1>2. /\ Editor!Reached(edges, from, without) = reach[N]
      /\ reach[0] = {from} \ {without}
      /\ \A n \in 0..(N - 1) : reach[n + 1] = Near(edges, without, reach[n])
    BY <1>0 DEF Search
<1> HIDE DEF N
<1> DEFINE P == {n \in Nat : n <= N => reach[n] \subseteq S}
<1>3. 0 \in P
    BY <1>2
<1>4. ASSUME NEW n \in Nat, n \in P PROVE n + 1 \in P
    <2> SUFFICES ASSUME n + 1 <= N PROVE reach[n + 1] \subseteq S
        OBVIOUS
    <2>1. n \in 0..(N - 1) /\ reach[n] \subseteq S
        BY <1>1, <1>4
    <2>2. reach[n + 1] = Near(edges, without, reach[n])
        BY <1>2, <2>1
    <2> QED
        BY <2>1, <2>2 DEF Near
<1> HIDE DEF P
<1>5. N \in P
    BY <1>1, <1>3, <1>4, AllNumbers
<1> QED
    BY <1>1, <1>2, <1>5 DEF P

\* ... and no arrow leads out of what is reached: each step of the search but the
\* last uses an arrow that none before it has used, and there are no more.
LEMMA ReachedIsClosed ==
    ASSUME NEW edges, IsFiniteSet(edges), NEW from, NEW without, from # without
    PROVE  /\ from \in Editor!Reached(edges, from, without)
           /\ \A e \in edges :
                 e[1] \in Editor!Reached(edges, from, without) /\ e[2] # without =>
                     e[2] \in Editor!Reached(edges, from, without)
<1> DEFINE N == Cardinality(edges)
<1>1. N \in Nat
    BY FS_CardinalityType
<1>0. PICK reach : Search(reach, edges, from, without)
    BY ReachedIs
<1>2. /\ Editor!Reached(edges, from, without) = reach[N]
      /\ reach[0] = {from} \ {without}
      /\ \A n \in 0..(N - 1) : reach[n + 1] = Near(edges, without, reach[n])
    BY <1>0 DEF Search
<1> HIDE DEF N
<1> DEFINE Used(n) == {f \in edges : f[1] \in reach[n] /\ f[2] # without}
           Closed(n) == \A e \in Used(n) : e[2] \in reach[n]
           P == {n \in Nat : n <= N => /\ from \in reach[n]
                                       /\ Closed(n) \/ Cardinality(Used(n)) >= n + 1}
<1>3. \A n : IsFiniteSet(Used(n)) /\ Cardinality(Used(n)) \in Nat /\ Cardinality(Used(n)) <= N
    BY FS_Subset, FS_CardinalityType DEF N
<1>4. 0 \in P
    <2>1. from \in reach[0]
        BY <1>2
    <2>2. ASSUME ~Closed(0) PROVE Cardinality(Used(0)) >= 1
        <3>1. PICK e \in Used(0) : TRUE
            BY <2>2
        <3> HIDE DEF Used
        <3>2. Cardinality(Used(0)) # 0
            BY <1>3, <3>1, FS_EmptySet
        <3> QED
            BY <1>3, <3>2
    <2> QED
        BY <2>1, <2>2
<1>5. ASSUME NEW n \in Nat, n \in P PROVE n + 1 \in P
    <2> SUFFICES ASSUME n + 1 <= N
                 PROVE  /\ from \in reach[n + 1]
                        /\ Closed(n + 1) \/ Cardinality(Used(n + 1)) >= n + 2
        BY DEF P
    <2>1. /\ n \in 0..(N - 1) /\ from \in reach[n]
          /\ Closed(n) \/ Cardinality(Used(n)) >= n + 1
        BY <1>1, <1>5
    <2>2. reach[n + 1] = reach[n] \cup {e[2] : e \in Used(n)}
        BY <1>2, <2>1 DEF Near
    <2>3. CASE Closed(n)
        <3>1. reach[n + 1] = reach[n]
            BY <2>2, <2>3
        <3>2. Closed(n + 1)
            BY <2>3, <3>1
        <3> QED
            BY <2>1, <3>1, <3>2
    <2>4. CASE ~Closed(n) /\ ~Closed(n + 1)
        <3>1. PICK e \in Used(n + 1) : e[2] \notin reach[n + 1]
            BY <2>4
        <3>2. e \notin Used(n)
            BY <2>2, <3>1
        <3>3. Used(n) \cup {e} \subseteq Used(n + 1)
            BY <2>2, <3>1
        <3> HIDE DEF Used, Closed
        <3>4. Cardinality(Used(n) \cup {e}) = Cardinality(Used(n)) + 1
            BY <1>3, <3>2, FS_AddElement
        <3>5. Cardinality(Used(n) \cup {e}) <= Cardinality(Used(n + 1))
            BY <1>3, <3>3, FS_Subset
        <3>6. Cardinality(Used(n)) >= n + 1 /\ Cardinality(Used(n)) \in Nat /\ Cardinality(Used(n + 1)) \in Nat
            BY <1>3, <2>1, <2>4
        <3>7. Cardinality(Used(n + 1)) >= n + 2
            BY <3>4, <3>5, <3>6
        <3> QED
            BY <2>1, <2>2, <3>7
    <2> QED
        BY <2>1, <2>2, <2>3, <2>4
<1> HIDE DEF P
<1>6. N \in P
    BY <1>1, <1>4, <1>5, AllNumbers
<1>7. from \in reach[N] /\ Closed(N)
    <2>1. from \in reach[N] /\ (Closed(N) \/ Cardinality(Used(N)) >= N + 1)
        BY <1>1, <1>6 DEF P
    <2> HIDE DEF Used, Closed
    <2> QED
        BY <1>1, <1>3, <2>1
<1> QED
    BY <1>2, <1>7

-----------------------------------------------------------------------------

\* The flow of a pipeline, if its arrows are those of its receivers rs, its chain
\* of m processors, at, and its exporters xs: (1) to (3) say where arrows lead,
\* (4) and (5) that they are there, (6) that the boxes of the stages are distinct.
Chained(E, rs, at, m, xs) ==
    /\ \A e \in E : e[1] \in rs => IF m > 0 THEN e[2] = at[1] ELSE e[2] \in xs
    /\ \A e \in E : \A k \in 1..m :
          e[1] = at[k] => (k < m /\ e[2] = at[k + 1]) \/ (k = m /\ e[2] \in xs)
    /\ \A e \in E : e[1] \notin xs
    /\ m > 0 => /\ \A r \in rs : <<r, at[1]>> \in E
                /\ \A k \in 1..(m - 1) : <<at[k], at[k + 1]>> \in E
                /\ \A x \in xs : <<at[m], x>> \in E
    /\ m = 0 => \A r \in rs, x \in xs : <<r, x>> \in E
    /\ \A r \in rs : r # None /\ r[1] = "receivers"
    /\ \A k \in 1..m : at[k] # None /\ at[k][1] = "processors"
    /\ \A x \in xs : x # None /\ x[1] = "exporters"
    /\ \A j, k \in 1..m : at[j] = at[k] => j = k

\* What is reached leads down the chain.
LEMMA ChainIsReached ==
    ASSUME NEW at, NEW m \in Nat, NEW R,
           \A k \in 1..(m - 1) : at[k] \in R => at[k + 1] \in R,
           NEW j \in 1..m, at[j] \in R
    PROVE  \A k \in j..m : at[k] \in R
<1> DEFINE P == {n \in Nat : j + n <= m => at[j + n] \in R}
<1>1. 0 \in P
    OBVIOUS
<1>2. ASSUME NEW n \in Nat, n \in P PROVE n + 1 \in P
    <2> SUFFICES ASSUME j + (n + 1) <= m PROVE at[j + (n + 1)] \in R
        OBVIOUS
    <2> DEFINE k == j + n
    <2>1. k \in 1..(m - 1) /\ k + 1 \in 1..m /\ at[k] \in R /\ m > 0
        BY <1>2
    <2>2. j + (n + 1) = k + 1
        OBVIOUS
    <2> HIDE DEF k
    <2>3. at[k + 1] \in R
        BY <2>1
    <2> QED
        BY <2>2, <2>3
<1> HIDE DEF P
<1>3. \A n \in Nat : n \in P
    BY <1>1, <1>2, AllNumbers
<1>4. ASSUME NEW k \in j..m PROVE at[k] \in R
    <2>1. k - j \in Nat /\ j + (k - j) = k /\ k <= m
        OBVIOUS
    <2>2. k - j \in P
        BY <1>3, <2>1
    <2> QED
        BY <2>1, <2>2 DEF P
<1> QED
    BY <1>4

LEMMA ExportersAreReached ==
    ASSUME NEW E, IsFiniteSet(E), NEW rs, NEW at, NEW m \in Nat, NEW xs,
           Chained(E, rs, at, m, xs), NEW r \in rs
    PROVE  {b \in Editor!Reached(E, r, None) : b[1] = "exporters"} = xs
<1> DEFINE R == Editor!Reached(E, r, None)
           S == rs \cup {at[k] : k \in 1..m} \cup xs
<1>1. /\ r # None /\ r[1] = "receivers" /\ \A k \in 1..m : at[k] # None /\ at[k][1] = "processors"
      /\ \A x \in xs : x # None /\ x[1] = "exporters"
      /\ \A q \in rs : q[1] = "receivers"
    BY DEF Chained
<1>2. R \subseteq S
    <2>1. ASSUME NEW e \in E, e[1] \in S PROVE e[2] \in S
        <3>1. CASE e[1] \in rs
            BY <3>1 DEF Chained
        <3>2. CASE \E k \in 1..m : e[1] = at[k]
            <4>1. PICK k \in 1..m : e[1] = at[k]
                BY <3>2
            <4>2. (k < m /\ e[2] = at[k + 1]) \/ e[2] \in xs
                BY <4>1 DEF Chained
            <4>3. k < m => k + 1 \in 1..m
                OBVIOUS
            <4> QED
                BY <4>2, <4>3
        <3> QED
            BY <2>1, <3>1, <3>2 DEF Chained
    <2>2. r \in S
        OBVIOUS
    <2> HIDE DEF S
    <2> QED
        BY <2>1, <2>2, ReachedWithin
<1>3. r \in R /\ \A e \in E : e[1] \in R /\ e[2] # None => e[2] \in R
    BY <1>1, ReachedIsClosed
<1> HIDE DEF R
<1>4. xs \subseteq R
    <2>1. CASE m = 0
        <3>1. ASSUME NEW x \in xs PROVE x \in R
            <4>1. <<r, x>> \in E
                BY <2>1 DEF Chained
            <4> QED
                BY <1>1, <1>3, <4>1
        <3> QED
            BY <3>1
    <2>2. CASE m > 0
        <3>1. <<r, at[1]>> \in E /\ 1 \in 1..m /\ m \in 1..m
            BY <2>2 DEF Chained
        <3>2. at[1] \in R
            BY <1>1, <1>3, <3>1
        <3>3. \A k \in 1..m : at[k] \in R
            <4>1. ASSUME NEW k \in 1..(m - 1), at[k] \in R PROVE at[k + 1] \in R
                <5>1. <<at[k], at[k + 1]>> \in E /\ k + 1 \in 1..m
                    BY <2>2 DEF Chained
                <5> QED
                    BY <1>1, <1>3, <4>1, <5>1
            <4>2. \A k \in 1..m : at[k] \in R
                BY <3>1, <3>2, <4>1, ChainIsReached
            <4> QED
                BY <4>2
        <3>4. ASSUME NEW x \in xs PROVE x \in R
            <4>1. <<at[m], x>> \in E
                BY <2>2 DEF Chained
            <4> QED
                BY <1>1, <1>3, <3>1, <3>3, <4>1
        <3> QED
            BY <3>4
    <2> QED
        BY <2>1, <2>2
<1>5. \A b \in R : b[1] = "exporters" => b \in xs
    BY <1>1, <1>2
<1> QED
    BY <1>1, <1>4, <1>5 DEF R

\* Without a processor no exporter is reached.
LEMMA NoWayAround ==
    ASSUME NEW E, IsFiniteSet(E), NEW rs, NEW at, NEW m \in Nat, NEW xs,
           Chained(E, rs, at, m, xs), NEW r \in rs, NEW k \in 1..m
    PROVE  Editor!Reached(E, r, at[k]) \cap xs = {}
<1> DEFINE S == rs \cup {at[j] : j \in 1..(k - 1)}
<1>1. ASSUME NEW e \in E, e[1] \in S, e[2] # at[k] PROVE e[2] \in S
    <2>1. CASE e[1] \in rs
        <3>1. e[2] = at[1]
            BY <2>1 DEF Chained
        <3>2. 1 \in 1..(k - 1)
            BY <1>1, <3>1
        <3> QED
            BY <3>1, <3>2
    <2>2. CASE e[1] \notin rs
        <3>1. PICK j \in 1..(k - 1) : e[1] = at[j]
            BY <1>1, <2>2
        <3>2. j \in 1..m /\ j < m
            OBVIOUS
        <3>3. e[2] = at[j + 1]
            BY <3>1, <3>2 DEF Chained
        <3>4. j + 1 # k
            BY <1>1, <3>3
        <3>5. j + 1 \in 1..(k - 1)
            BY <3>4
        <3> QED
            BY <3>3, <3>5
    <2> QED
        BY <2>1, <2>2
<1>2. r \in S
    OBVIOUS
<1>3. S \cap xs = {}
    <2>1. \A j \in 1..(k - 1) : j \in 1..m
        OBVIOUS
    <2> QED
        BY <2>1 DEF Chained
<1> HIDE DEF S
<1>4. Editor!Reached(E, r, at[k]) \subseteq S
    BY <1>1, <1>2, ReachedWithin
<1> QED
    BY <1>3, <1>4

\* The chain is in the order of the list, also without the receiver.
LEMMA InOrder ==
    ASSUME NEW E, IsFiniteSet(E), NEW rs, NEW at, NEW m \in Nat, NEW xs,
           Chained(E, rs, at, m, xs), NEW r \in rs, NEW j \in 1..m, NEW k \in 1..m, j < k
    PROVE  at[k] \in Editor!Reached(E, at[j], r)
<1> DEFINE R == Editor!Reached(E, at[j], r)
<1>1. \A i \in 1..m : at[i] # r
    BY DEF Chained
<1>2. at[j] \in R /\ \A e \in E : e[1] \in R /\ e[2] # r => e[2] \in R
    BY <1>1, ReachedIsClosed
<1> HIDE DEF R
<1>3. ASSUME NEW i \in 1..(m - 1), at[i] \in R PROVE at[i + 1] \in R
    <2>1. <<at[i], at[i + 1]>> \in E /\ i + 1 \in 1..m
        BY DEF Chained
    <2> QED
        BY <1>1, <1>2, <1>3, <2>1
<1>4. \A i \in j..m : at[i] \in R
    BY <1>2, <1>3, ChainIsReached
<1>5. k \in j..m
    OBVIOUS
<1> QED
    BY <1>4, <1>5 DEF R

-----------------------------------------------------------------------------

\* The boxes of the stages of a pipeline, and its arrows in terms of them.
Of(p, s) == {Editor!Id(s, p, n) : n \in Editor!Range(Editor!ListOf(p, s))}
Links(p) == Editor!Count(p, "processors")
Chain(p) == [k \in 1..Links(p) |-> Editor!Id("processors", p, Editor!ListOf(p, "processors")[k])]

ArrowsOf(rs, at, m, xs) ==
    IF m > 0
    THEN {<<r, at[1]>> : r \in rs} \cup {<<at[k], at[k + 1]>> : k \in 1..(m - 1)}
         \cup {<<at[m], x>> : x \in xs}
    ELSE {<<r, x>> : r \in rs, x \in xs}

LEMMA ArrowsAre ==
    ASSUME NEW p, Drawable(p)
    PROVE  /\ Links(p) \in Nat
           /\ Editor!Arrows(p) = ArrowsOf(Of(p, "receivers"), Chain(p), Links(p), Of(p, "exporters"))
<1> DEFINE R == Editor!Range(Editor!ListOf(p, "receivers"))
           X == Editor!Range(Editor!ListOf(p, "exporters"))
           m == Links(p)
           at(k) == Editor!Id("processors", p, Editor!ListOf(p, "processors")[k])
<1>1. m \in Nat
    BY CountsAre DEF Editor!Stages, Links
<1>2. /\ Of(p, "receivers") = {Editor!Id("receivers", p, n) : n \in R}
      /\ Of(p, "exporters") = {Editor!Id("exporters", p, n) : n \in X}
      /\ \A k \in 1..m : Chain(p)[k] = at(k)
    BY DEF Of, Chain
<1>3. CASE m > 0
    <2>1. Editor!Arrows(p) = {<<Editor!Id("receivers", p, n), at(1)>> : n \in R}
                             \cup {<<at(k), at(k + 1)>> : k \in 1..(m - 1)}
                             \cup {<<at(m), Editor!Id("exporters", p, n)>> : n \in X}
        BY <1>3 DEF Editor!Arrows, Links, Editor!Count
    <2>2. 1 \in 1..m /\ m \in 1..m /\ \A k \in 1..(m - 1) : k \in 1..m /\ k + 1 \in 1..m
        BY <1>1, <1>3
    <2> HIDE DEF R, X, at, m
    <2>3. {<<at(k), at(k + 1)>> : k \in 1..(m - 1)} = {<<Chain(p)[k], Chain(p)[k + 1]>> : k \in 1..(m - 1)}
        BY <1>2, <2>2
    <2>4. {<<Editor!Id("receivers", p, n), at(1)>> : n \in R} = {<<r, Chain(p)[1]>> : r \in Of(p, "receivers")}
        BY <1>2, <2>2
    <2>5. {<<at(m), Editor!Id("exporters", p, n)>> : n \in X} = {<<Chain(p)[m], x>> : x \in Of(p, "exporters")}
        BY <1>2, <2>2
    <2>6. ArrowsOf(Of(p, "receivers"), Chain(p), m, Of(p, "exporters")) =
              {<<r, Chain(p)[1]>> : r \in Of(p, "receivers")}
              \cup {<<Chain(p)[k], Chain(p)[k + 1]>> : k \in 1..(m - 1)}
              \cup {<<Chain(p)[m], x>> : x \in Of(p, "exporters")}
        BY <1>3 DEF ArrowsOf
    <2>7. Editor!Arrows(p) = ArrowsOf(Of(p, "receivers"), Chain(p), m, Of(p, "exporters"))
        BY <2>1, <2>3, <2>4, <2>5, <2>6, Zenon
    <2> QED
        BY <1>1, <2>7 DEF m
<1>4. CASE ~(m > 0)
    <2>1. Editor!Arrows(p) = {<<Editor!Id("receivers", p, n), Editor!Id("exporters", p, x)>> : n \in R, x \in X}
        BY <1>4 DEF Editor!Arrows, Links, Editor!Count
    <2> HIDE DEF R, X
    <2>2. Editor!Arrows(p) = {<<r, x>> : r \in Of(p, "receivers"), x \in Of(p, "exporters")}
        BY <1>2, <2>1
    <2> QED
        BY <1>1, <1>4, <2>2 DEF ArrowsOf
<1> QED
    BY <1>3, <1>4

\* The arrows among others, none of which begins at a box of theirs.
LEMMA ArrowsAreChained ==
    ASSUME NEW E, NEW rs, NEW at, NEW m \in Nat, NEW xs,
           \A r \in rs : r # None /\ r[1] = "receivers",
           \A k \in 1..m : at[k] # None /\ at[k][1] = "processors",
           \A x \in xs : x # None /\ x[1] = "exporters",
           \A j, k \in 1..m : at[j] = at[k] => j = k,
           ArrowsOf(rs, at, m, xs) \subseteq E,
           \A e \in E : \/ e \in ArrowsOf(rs, at, m, xs)
                        \/ e[1] \notin rs \cup {at[k] : k \in 1..m} \cup xs
    PROVE  Chained(E, rs, at, m, xs)
<1>1. ASSUME m > 0
      PROVE  /\ \A r \in rs : <<r, at[1]>> \in E
             /\ \A k \in 1..(m - 1) : <<at[k], at[k + 1]>> \in E
             /\ \A x \in xs : <<at[m], x>> \in E
    BY <1>1 DEF ArrowsOf
<1>2. ASSUME m = 0 PROVE \A r \in rs, x \in xs : <<r, x>> \in E
    BY <1>2 DEF ArrowsOf
<1>3. ASSUME NEW e \in E, e[1] \in rs \cup {at[k] : k \in 1..m} \cup xs
      PROVE  \/ m > 0 /\ e[1] \in rs /\ e[2] = at[1]
             \/ \E k \in 1..(m - 1) : e[1] = at[k] /\ e[2] = at[k + 1]
             \/ m > 0 /\ e[1] = at[m] /\ e[2] \in xs
             \/ m = 0 /\ e[1] \in rs /\ e[2] \in xs
    BY <1>3 DEF ArrowsOf
<1>4. \A e \in E : e[1] \in rs => IF m > 0 THEN e[2] = at[1] ELSE e[2] \in xs
    <2> SUFFICES ASSUME NEW e \in E, e[1] \in rs
                 PROVE  IF m > 0 THEN e[2] = at[1] ELSE e[2] \in xs
        OBVIOUS
    <2>1. \A k \in 1..m : e[1] # at[k]
        OBVIOUS
    <2>2. \A k \in 1..(m - 1) : k \in 1..m
        OBVIOUS
    <2>3. m > 0 => m \in 1..m
        OBVIOUS
    <2> QED
        BY <1>3, <2>1, <2>2, <2>3
<1>5. ASSUME NEW e \in E, NEW k \in 1..m, e[1] = at[k]
      PROVE  (k < m /\ e[2] = at[k + 1]) \/ (k = m /\ e[2] \in xs)
    <2>1. e[1] \notin rs
        BY <1>5
    <2>2. \A j \in 1..m : e[1] = at[j] => j = k
        BY <1>5
    <2>3. \A j \in 1..(m - 1) : j \in 1..m
        OBVIOUS
    <2>4. m > 0 /\ m \in 1..m
        OBVIOUS
    <2>5. \/ \E j \in 1..(m - 1) : e[1] = at[j] /\ e[2] = at[j + 1]
          \/ e[1] = at[m] /\ e[2] \in xs
        BY <1>3, <1>5, <2>1, <2>4
    <2> QED
        BY <2>2, <2>3, <2>4, <2>5
<1>6. \A e \in E : e[1] \notin xs
    <2> SUFFICES ASSUME NEW e \in E, e[1] \in xs PROVE FALSE
        OBVIOUS
    <2>1. e[1][1] = "exporters" /\ e[1] \notin rs
        OBVIOUS
    <2>2. \A k \in 1..m : e[1] # at[k]
        BY <2>1
    <2>3. \A k \in 1..(m - 1) : k \in 1..m
        OBVIOUS
    <2>4. m > 0 => m \in 1..m
        OBVIOUS
    <2> QED
        BY <1>3, <2>1, <2>2, <2>3, <2>4
<1> QED
    BY <1>1, <1>2, <1>4, <1>5, <1>6 DEF Chained

-----------------------------------------------------------------------------

\* The names of boxes, of which there are finitely many.
Ids == Editor!Stages \X Editor!Range(PipelineNames) \X {otlp, otlp2, batch}

LEMMA ThreeAreFinite ==
    ASSUME NEW a, NEW b, NEW c
    PROVE  IsFiniteSet({a, b, c})
<1>1. IsFiniteSet({a})
    BY FS_Singleton
<1>2. IsFiniteSet({a} \cup {b})
    BY <1>1, FS_AddElement
<1>3. IsFiniteSet(({a} \cup {b}) \cup {c})
    BY <1>2, FS_AddElement
<1>4. ({a} \cup {b}) \cup {c} = {a, b, c}
    OBVIOUS
<1> QED
    BY <1>3, <1>4

LEMMA IdsAreFinite == IsFiniteSet(Ids)
<1> DEFINE A == Editor!Stages
           B == Editor!Range(PipelineNames)
           C == {otlp, otlp2, batch}
           S == (A \X B) \X C
           f == [q \in S |-> <<q[1][1], q[1][2], q[2]>>]
<1>1. IsFiniteSet(A)
    BY ThreeAreFinite DEF Editor!Stages
<1>2. IsFiniteSet(B)
    <2>1. B = {"traces", "logs", "logs"}
        BY DEF Editor!Range, PipelineNames
    <2> HIDE DEF B
    <2> QED
        BY <2>1, ThreeAreFinite
<1>3. IsFiniteSet(C)
    BY ThreeAreFinite
<1> HIDE DEF A, B, C
<1>4. IsFiniteSet(S)
    <2>1. IsFiniteSet(A \X B)
        BY <1>1, <1>2, FS_Product
    <2> QED
        BY <1>3, <2>1, FS_Product
<1>5. f \in Surjection(S, A \X B \X C)
    <2>1. f \in [S -> A \X B \X C]
        OBVIOUS
    <2>2. ASSUME NEW t \in A \X B \X C PROVE \E q \in S : f[q] = t
        <3>1. PICK a \in A, b \in B, c \in C : t = <<a, b, c>>
            OBVIOUS
        <3>2. <<<<a, b>>, c>> \in S /\ f[<<<<a, b>>, c>>] = <<a, b, c>>
            OBVIOUS
        <3> QED
            BY <3>1, <3>2
    <2> HIDE DEF f, S
    <2> QED
        BY <2>1, <2>2 DEF Surjection
<1> HIDE DEF f, S
<1>6. IsFiniteSet(A \X B \X C)
    BY <1>4, <1>5, FS_Surjection
<1> QED
    BY <1>6 DEF Ids, A, B, C

\* Names that are equal in lower case are those of one pipeline, and a processor
\* stands in a list once.
Distinct(pipelines) ==
    /\ \A i, j \in DOMAIN pipelines :
          PipelineNames[pipelines[i].name] = PipelineNames[pipelines[j].name] => i = j
    /\ \A i \in DOMAIN pipelines :
          \A j, k \in 1..Links(pipelines[i]) :
              Editor!ListOf(pipelines[i], "processors")[j] = Editor!ListOf(pipelines[i], "processors")[k]
                  => j = k

LEMMA UnambiguousIsDistinct ==
    ASSUME NEW ps, Drawables(ps), Editor!Unambiguous(ps)
    PROVE  Distinct(ps)
<1>1. \A i, j \in DOMAIN ps : PipelineNames[ps[i].name] = PipelineNames[ps[j].name] => i = j
    BY DEF Editor!Unambiguous
<1>2. ASSUME NEW i \in DOMAIN ps, NEW j \in 1..Links(ps[i]), NEW k \in 1..Links(ps[i]),
             Editor!ListOf(ps[i], "processors")[j] = Editor!ListOf(ps[i], "processors")[k]
      PROVE  j = k
    <2> DEFINE f == Editor!ListOf(ps[i], "processors")
               n == Links(ps[i])
               T == Editor!Range(f)
    <2>1. /\ n \in Nat /\ DOMAIN f = 1..n /\ f = [l \in 1..n |-> f[l]]
        <3>1. f \in Seq({otlp, otlp2, batch}) /\ n = Len(f)
            BY <1>2 DEF Drawables, Drawable, Links, Editor!Count, Editor!Stages
        <3> HIDE DEF f, n
        <3> QED
            BY <3>1
    <2>2. Cardinality(T) = n
        BY <1>2, DrawingCounts DEF Editor!Unambiguous, Links
    <2>3. T = {f[l] : l \in 1..n}
        BY <2>1 DEF Editor!Range
    <2>0. j \in 1..n /\ k \in 1..n /\ f[j] = f[k]
        BY <1>2
    <2> HIDE DEF f, n, T
    <2>4. f \in Surjection(1..n, T)
        BY <2>1, <2>3 DEF Surjection
    <2>5. IsFiniteSet(1..n) /\ Cardinality(1..n) = n
        BY <2>1, FS_Interval
    <2>6. f \in Injection(1..n, T)
        BY <2>2, <2>4, <2>5, FS_Surjection
    <2> QED
        BY <2>0, <2>6 DEF Injection, IsInjective
<1> QED
    BY <1>1, <1>2 DEF Distinct

\* Whose box an id is of, and of which stage.
LEMMA IdsAre ==
    ASSUME Editor!EditorAssumption, NEW p, Drawable(p), NEW s \in Editor!Stages
    PROVE  \A k \in 1..Editor!Count(p, s) :
              LET id == Editor!Id(s, p, Editor!ListOf(p, s)[k])
              IN /\ id \in Of(p, s)
                 /\ id \in Ids /\ id # None
                 /\ id[1] = s /\ id[2] = PipelineNames[p.name]
                 /\ id[3] = Editor!ListOf(p, s)[k]
<1> SUFFICES ASSUME NEW k \in 1..Editor!Count(p, s)
             PROVE LET id == Editor!Id(s, p, Editor!ListOf(p, s)[k])
                   IN /\ id \in Of(p, s)
                      /\ id \in Ids /\ id # None
                      /\ id[1] = s /\ id[2] = PipelineNames[p.name]
                      /\ id[3] = Editor!ListOf(p, s)[k]
    OBVIOUS
<1> DEFINE list == Editor!ListOf(p, s)
           id == Editor!Id(s, p, list[k])
<1>1. list[k] \in {otlp, otlp2, batch} /\ k \in DOMAIN list
    <2>1. list \in Seq({otlp, otlp2, batch}) /\ k \in 1..Len(list)
        BY DEF Drawable, Editor!Count
    <2> HIDE DEF list
    <2> QED
        BY <2>1
<1>2. PipelineNames[p.name] \in Editor!Range(PipelineNames)
    BY DEF Editor!Range, Drawable
<1>3. id = <<s, PipelineNames[p.name], list[k]>>
    BY DEF Editor!Id
<1>4. list[k] \in Editor!Range(list)
    BY <1>1 DEF Editor!Range
<1>5. id \in Of(p, s)
    BY <1>4 DEF Of
<1> HIDE DEF list, id
<1>6. id \in Ids
    BY <1>1, <1>2, <1>3 DEF Ids
<1>7. id # None
    BY <1>6 DEF Ids, Editor!EditorAssumption
<1> QED
    BY <1>3, <1>5, <1>6, <1>7 DEF id, list

LEMMA OfAre ==
    ASSUME Editor!EditorAssumption, NEW p, Drawable(p), NEW s \in Editor!Stages, NEW b \in Of(p, s)
    PROVE  b \in Ids /\ b # None /\ b[1] = s /\ b[2] = PipelineNames[p.name]
<1>1. PICK n \in Editor!Range(Editor!ListOf(p, s)) : b = Editor!Id(s, p, n)
    BY DEF Of
<1>2. DOMAIN Editor!ListOf(p, s) = 1..Editor!Count(p, s)
    BY DEF Drawable, Editor!Count
<1>3. PICK k \in 1..Editor!Count(p, s) : n = Editor!ListOf(p, s)[k]
    BY <1>2 DEF Editor!Range
<1> QED
    BY <1>1, <1>3, IdsAre

-----------------------------------------------------------------------------

\* In a drawing the arrows of a pipeline are chained, whatever others there are.
LEMMA PipelineIsChained ==
    ASSUME Editor!EditorAssumption, NEW ps, Drawables(ps), Distinct(ps), NEW i \in DOMAIN ps,
           NEW E, E = UNION {Editor!Arrows(ps[j]) : j \in DOMAIN ps}
    PROVE  /\ IsFiniteSet(E) /\ Links(ps[i]) \in Nat
           /\ Chained(E, Of(ps[i], "receivers"), Chain(ps[i]), Links(ps[i]), Of(ps[i], "exporters"))
<1> DEFINE p == ps[i]
<1>1. /\ "receivers" \in Editor!Stages /\ "processors" \in Editor!Stages /\ "exporters" \in Editor!Stages
      /\ \A j \in DOMAIN ps : Drawable(ps[j])
    BY DEF Editor!Stages, Drawables
<1>2. ASSUME NEW j \in DOMAIN ps
      PROVE  /\ \A b \in Of(ps[j], "receivers") :
                   b \in Ids /\ b # None /\ b[1] = "receivers" /\ b[2] = PipelineNames[ps[j].name]
             /\ \A b \in Of(ps[j], "exporters") :
                   b \in Ids /\ b # None /\ b[1] = "exporters" /\ b[2] = PipelineNames[ps[j].name]
             /\ \A k \in 1..Links(ps[j]) :
                   /\ Chain(ps[j])[k] \in Ids /\ Chain(ps[j])[k] # None
                   /\ Chain(ps[j])[k][1] = "processors"
                   /\ Chain(ps[j])[k][2] = PipelineNames[ps[j].name]
                   /\ Chain(ps[j])[k][3] = Editor!ListOf(ps[j], "processors")[k]
             /\ Links(ps[j]) \in Nat
             /\ Editor!Arrows(ps[j]) = ArrowsOf(Of(ps[j], "receivers"), Chain(ps[j]),
                                                Links(ps[j]), Of(ps[j], "exporters"))
    <2>1. \A k \in 1..Links(ps[j]) :
              Chain(ps[j])[k] = Editor!Id("processors", ps[j], Editor!ListOf(ps[j], "processors")[k])
        BY DEF Chain
    <2>2. Drawable(ps[j])
        BY <1>1
    <2>3. \A k \in 1..Links(ps[j]) :
             LET id == Editor!Id("processors", ps[j], Editor!ListOf(ps[j], "processors")[k])
             IN /\ id \in Ids /\ id # None
                /\ id[1] = "processors" /\ id[2] = PipelineNames[ps[j].name]
                /\ id[3] = Editor!ListOf(ps[j], "processors")[k]
        BY <1>1, <2>2, IdsAre DEF Links
    <2>4. \A k \in 1..Links(ps[j]) :
             /\ Chain(ps[j])[k] \in Ids /\ Chain(ps[j])[k] # None
             /\ Chain(ps[j])[k][1] = "processors"
             /\ Chain(ps[j])[k][2] = PipelineNames[ps[j].name]
             /\ Chain(ps[j])[k][3] = Editor!ListOf(ps[j], "processors")[k]
        BY <2>1, <2>3
    <2>5. /\ \A b \in Of(ps[j], "receivers") :
                b \in Ids /\ b # None /\ b[1] = "receivers" /\ b[2] = PipelineNames[ps[j].name]
          /\ \A b \in Of(ps[j], "exporters") :
                b \in Ids /\ b # None /\ b[1] = "exporters" /\ b[2] = PipelineNames[ps[j].name]
        BY <1>1, <2>2, OfAre
    <2> QED
        BY <2>2, <2>4, <2>5, ArrowsAre
<1>3. ASSUME NEW j \in DOMAIN ps, NEW e \in Editor!Arrows(ps[j])
      PROVE  /\ e = <<e[1], e[2]>> /\ e[1] \in Ids /\ e[2] \in Ids
             /\ e[1][2] = PipelineNames[ps[j].name]
    <2> DEFINE m == Links(ps[j])
               at == Chain(ps[j])
               rs == Of(ps[j], "receivers")
               xs == Of(ps[j], "exporters")
    <2>1. /\ m \in Nat /\ e \in ArrowsOf(rs, at, m, xs)
          /\ \A b \in rs \cup xs : b \in Ids /\ b[2] = PipelineNames[ps[j].name]
          /\ \A k \in 1..m : at[k] \in Ids /\ at[k][2] = PipelineNames[ps[j].name]
        BY <1>2, <1>3
    <2> HIDE DEF m, at, rs, xs
    <2>2. /\ \A k \in 1..(m - 1) : k \in 1..m /\ k + 1 \in 1..m
          /\ m > 0 => 1 \in 1..m /\ m \in 1..m
        BY <2>1
    <2>3. \E x, y : /\ e = <<x, y>> /\ y \in Ids
                    /\ x \in Ids /\ x[2] = PipelineNames[ps[j].name]
        BY <2>1, <2>2 DEF ArrowsOf
    <2> QED
        BY <2>3
<1>4. IsFiniteSet(E)
    <2>1. ASSUME NEW e \in E PROVE e \in Ids \X Ids
        <3>1. PICK j \in DOMAIN ps : e \in Editor!Arrows(ps[j])
            OBVIOUS
        <3>2. e = <<e[1], e[2]>> /\ e[1] \in Ids /\ e[2] \in Ids
            BY <1>3, <3>1
        <3> QED
            BY <3>2
    <2>2. IsFiniteSet(Ids \X Ids)
        BY IdsAreFinite, FS_Product
    <2> QED
        BY <2>1, <2>2, FS_Subset
<1> DEFINE m == Links(p)
           at == Chain(p)
           rs == Of(p, "receivers")
           xs == Of(p, "exporters")
<1>5. /\ m \in Nat
      /\ \A r \in rs : r # None /\ r[1] = "receivers" /\ r[2] = PipelineNames[p.name]
      /\ \A k \in 1..m : at[k] # None /\ at[k][1] = "processors" /\ at[k][2] = PipelineNames[p.name]
      /\ \A x \in xs : x # None /\ x[1] = "exporters" /\ x[2] = PipelineNames[p.name]
      /\ Editor!Arrows(p) = ArrowsOf(rs, at, m, xs)
      /\ \A k \in 1..m : at[k][3] = Editor!ListOf(p, "processors")[k]
    BY <1>2
<1>6. \A j, k \in 1..m : at[j] = at[k] => j = k
    <2> SUFFICES ASSUME NEW j \in 1..m, NEW k \in 1..m, at[j] = at[k] PROVE j = k
        OBVIOUS
    <2>1. Editor!ListOf(p, "processors")[j] = Editor!ListOf(p, "processors")[k]
        <3> HIDE DEF m, at
        <3> QED
            BY <1>5
    <2> QED
        BY <2>1 DEF Distinct
<1>7. ArrowsOf(rs, at, m, xs) \subseteq E
    <2>1. Editor!Arrows(p) \subseteq E
        OBVIOUS
    <2> QED
        BY <1>5, <2>1
<1>8. ASSUME NEW e \in E, e[1] \in rs \cup {at[k] : k \in 1..m} \cup xs
      PROVE  e \in ArrowsOf(rs, at, m, xs)
    <2>1. PICK j \in DOMAIN ps : e \in Editor!Arrows(ps[j])
        OBVIOUS
    <2>2. e[1][2] = PipelineNames[ps[j].name]
        BY <1>3, <2>1
    <2>3. e[1][2] = PipelineNames[p.name]
        <3> HIDE DEF p, m, at, rs, xs
        <3> QED
            BY <1>5, <1>8
    <2>4. j = i
        BY <2>2, <2>3 DEF Distinct
    <2> QED
        BY <1>5, <2>1, <2>4
<1> HIDE DEF m, at, rs, xs
<1>9. Chained(E, rs, at, m, xs)
    BY <1>5, <1>6, <1>7, <1>8, ArrowsAreChained
<1> QED
    BY <1>4, <1>5, <1>9 DEF m, at, rs, xs

\* What is drawn shows how data flow.
LEMMA DrawingFlows ==
    ASSUME Editor!EditorAssumption, Editor!TypeOK
    PROVE  Editor!DrawsTheFlow
<1> SUFFICES ASSUME Editor!Drawn, Editor!Unambiguous(store.pipelines) PROVE Editor!DrawsTheFlow
    BY DEF Editor!DrawsTheFlow
<1> DEFINE ps == store.pipelines
           E == Editor!Drawing.edges
<1>1. Drawables(ps) /\ Distinct(ps)
    BY TextIsDrawable, UnambiguousIsDistinct DEF Editor!TypeOK, Editor!Drawn
<1>2. E = UNION {Editor!Arrows(ps[i]) : i \in DOMAIN ps}
    <2>1. CASE ps = <<>>
        <3>1. E = {} /\ DOMAIN ps = {}
            BY <2>1 DEF Editor!Drawing, Editor!GeneratePipelineNodes, Editor!Drawn,
                        Editor!HasPipelines, Editor!Note
        <3> QED
            BY <3>1
    <2>2. CASE ps # <<>>
        BY <2>2 DEF Editor!Drawing, Editor!GeneratePipelineNodes, Editor!Drawn,
                    Editor!HasPipelines
    <2> QED
        BY <2>1, <2>2
<1> HIDE DEF ps, E
<1>3. ASSUME NEW i \in DOMAIN ps, NEW r \in Of(ps[i], "receivers")
      PROVE  /\ {b \in Editor!Reached(E, r, None) : b[1] = "exporters"} = Of(ps[i], "exporters")
             /\ \A x \in Of(ps[i], "processors") :
                   Editor!Reached(E, r, x) \cap Of(ps[i], "exporters") = {}
             /\ \A j, k \in 1..Editor!Count(ps[i], "processors") :
                   j < k => Editor!Id("processors", ps[i], ps[i].body["processors"][k]) \in
                                Editor!Reached(E, Editor!Id("processors", ps[i], ps[i].body["processors"][j]), r)
    <2> DEFINE p == ps[i]
               m == Links(p)
               at == Chain(p)
    <2>1. /\ IsFiniteSet(E) /\ m \in Nat
          /\ Chained(E, Of(p, "receivers"), at, m, Of(p, "exporters"))
        BY <1>1, <1>2, PipelineIsChained
    <2>2. /\ m = Editor!Count(p, "processors")
          /\ \A k \in 1..m : at[k] = Editor!Id("processors", p, Editor!ListOf(p, "processors")[k])
        BY DEF Links, Chain
    <2>3. \A x \in Of(p, "processors") : \E k \in 1..m : x = at[k]
        <3>1. DOMAIN Editor!ListOf(p, "processors") = 1..m
            BY <1>1 DEF Drawables, Drawable, Links, Editor!Count, Editor!Stages
        <3>2. \A n \in Editor!Range(Editor!ListOf(p, "processors")) :
                  \E k \in 1..m : n = Editor!ListOf(p, "processors")[k]
            BY <3>1 DEF Editor!Range
        <3> HIDE DEF m, at
        <3> QED
            BY <2>2, <3>2 DEF Of
    <2>4. r \in Of(p, "receivers")
        BY <1>3
    <2>11. \A k \in 1..Editor!Count(p, "processors") :
              Editor!ListOf(p, "processors")[k] = p.body["processors"][k]
        BY DEF Editor!Count, Editor!ListOf
    <2> HIDE DEF p, m, at
    <2>5. {b \in Editor!Reached(E, r, None) : b[1] = "exporters"} = Of(p, "exporters")
        BY <2>1, <2>4, ExportersAreReached
    <2>6. \A k \in 1..m : Editor!Reached(E, r, at[k]) \cap Of(p, "exporters") = {}
        BY <2>1, <2>4, NoWayAround
    <2>7. \A j, k \in 1..m : j < k => at[k] \in Editor!Reached(E, at[j], r)
        BY <2>1, <2>4, InOrder
    <2>8. \A x \in Of(p, "processors") : Editor!Reached(E, r, x) \cap Of(p, "exporters") = {}
        BY <2>3, <2>6
    <2>9. \A j, k \in 1..m :
             j < k => Editor!Id("processors", p, Editor!ListOf(p, "processors")[k]) \in
                          Editor!Reached(E, Editor!Id("processors", p, Editor!ListOf(p, "processors")[j]), r)
        BY <2>2, <2>7
    <2>10. \A j, k \in 1..Editor!Count(p, "processors") :
              /\ Editor!ListOf(p, "processors")[j] = p.body["processors"][j]
              /\ Editor!ListOf(p, "processors")[k] = p.body["processors"][k]
        BY <2>11
    <2>12. \A j, k \in 1..Editor!Count(p, "processors") :
              j < k => Editor!Id("processors", p, p.body["processors"][k]) \in
                           Editor!Reached(E, Editor!Id("processors", p, p.body["processors"][j]), r)
        BY <2>2, <2>9, <2>10
    <2> QED
        BY <2>5, <2>8, <2>12 DEF p
<1> QED
    BY <1>3, Zenon DEF Editor!DrawsTheFlow, Of, ps, E

-----------------------------------------------------------------------------
(* What the pages of the fleet show                                        *)

LEMMA FleetCounts ==
    /\ \A S : Fleet!IsFiniteSet(S) <=> IsFiniteSet(S)
    /\ \A S : Fleet!Cardinality(S) = Cardinality(S)
BY DEF Fleet!IsFiniteSet, Fleet!Cardinality, IsFiniteSet, Cardinality

\* A strict order, as a set of pairs, in which no two members of S are level.
Orders(R, S) ==
    /\ \A a \in S : <<a, a>> \notin R
    /\ \A a, b \in S : a # b => <<a, b>> \in R \/ <<b, a>> \in R
    /\ \A a, b, c \in S : <<a, b>> \in R /\ <<b, c>> \in R => <<a, c>> \in R

Before(a, R, S) == {b \in S : <<b, a>> \in R}
Rank(a, R, S) == Cardinality(Before(a, R, S))

LEMMA RanksRise ==
    ASSUME NEW S, IsFiniteSet(S), NEW R, Orders(R, S)
    PROVE  /\ \A a \in S : Rank(a, R, S) \in Nat /\ Rank(a, R, S) < Cardinality(S)
           /\ \A a, b \in S : <<a, b>> \in R => Rank(a, R, S) < Rank(b, R, S)
<1>1. ASSUME NEW a \in S
      PROVE  /\ IsFiniteSet(Before(a, R, S)) /\ Rank(a, R, S) \in Nat
             /\ Rank(a, R, S) < Cardinality(S)
    <2>1. Before(a, R, S) \subseteq S /\ a \notin Before(a, R, S)
        BY <1>1 DEF Before, Orders
    <2>2. Before(a, R, S) # S
        BY <1>1, <2>1
    <2>3. /\ IsFiniteSet(Before(a, R, S)) /\ Rank(a, R, S) <= Cardinality(S)
          /\ Rank(a, R, S) # Cardinality(S)
        BY <2>1, <2>2, FS_Subset DEF Rank
    <2>4. Rank(a, R, S) \in Nat /\ Cardinality(S) \in Nat
        BY <2>3, FS_CardinalityType DEF Rank
    <2> QED
        BY <2>3, <2>4
<1>2. ASSUME NEW a \in S, NEW b \in S, <<a, b>> \in R
      PROVE  Rank(a, R, S) < Rank(b, R, S)
    <2>1. /\ Before(a, R, S) \subseteq Before(b, R, S)
          /\ a \in Before(b, R, S) /\ a \notin Before(a, R, S)
        BY <1>2 DEF Before, Orders
    <2>2. Rank(a, R, S) <= Rank(b, R, S) /\ Rank(a, R, S) # Rank(b, R, S)
        BY <1>1, <2>1, FS_Subset DEF Rank
    <2> QED
        BY <1>1, <2>2
<1> QED
    BY <1>1, <1>2

\* The ranks are those of a list of all members: each number below their number
\* is the rank of one of them.
LEMMA RanksAreTaken ==
    ASSUME NEW S, IsFiniteSet(S), NEW R, Orders(R, S)
    PROVE  \A k \in 1..Cardinality(S) : \E a \in S : Rank(a, R, S) = k - 1
<1> DEFINE n == Cardinality(S)
           f == [a \in S |-> Rank(a, R, S) + 1]
<1>1. n \in Nat
    BY FS_CardinalityType
<1>2. \A a \in S : Rank(a, R, S) \in Nat /\ Rank(a, R, S) < n
    BY RanksRise
<1>3. \A a, b \in S : f[a] = f[b] => a = b
    <2>1. ASSUME NEW a \in S, NEW b \in S, f[a] = f[b], a # b PROVE FALSE
        <3>1. Rank(a, R, S) = Rank(b, R, S)
            BY <1>2, <2>1
        <3>2. <<a, b>> \in R \/ <<b, a>> \in R
            BY <2>1 DEF Orders
        <3>3. Rank(a, R, S) < Rank(b, R, S) \/ Rank(b, R, S) < Rank(a, R, S)
            BY <3>2, RanksRise
        <3> QED
            BY <1>2, <3>1, <3>3
    <2> QED
        BY <2>1
<1>4. f \in [S -> 1..n]
    BY <1>1, <1>2
<1>5. IsFiniteSet(1..n) /\ Cardinality(1..n) = n
    BY <1>1, FS_Interval
<1>6. f \in Injection(S, 1..n)
    BY <1>3, <1>4 DEF Injection, IsInjective
<1>7. f \in Surjection(S, 1..n)
    BY <1>5, <1>6, FS_Injection
<1>8. \A k \in 1..n : \E a \in S : f[a] = k
    BY <1>7 DEF Surjection
<1>9. \A a \in S : f[a] = Rank(a, R, S) + 1
    OBVIOUS
<1> HIDE DEF f, n
<1>10. ASSUME NEW k \in 1..n PROVE \E a \in S : Rank(a, R, S) = k - 1
    <2>1. PICK a \in S : f[a] = k
        BY <1>8
    <2>2. Rank(a, R, S) \in Nat /\ k = Rank(a, R, S) + 1
        BY <1>2, <1>9, <2>1
    <2> QED
        BY <2>2
<1> QED
    BY <1>10 DEF n

LEMMA ListsAre ==
    ASSUME NEW S, NEW n \in Nat, NEW s \in [1..n -> S]
    PROVE  s \in Seq(S) /\ Len(s) = n
OBVIOUS

\* Sorting by rank.
InRank(R, S) == [k \in 1..Cardinality(S) |-> CHOOSE a \in S : Rank(a, R, S) = k - 1]

LEMMA SortedByRank ==
    ASSUME NEW S, IsFiniteSet(S), NEW R, Orders(R, S), NEW s, s = InRank(R, S)
    PROVE  /\ Cardinality(S) \in Nat /\ DOMAIN s = 1..Cardinality(S) /\ s \in Seq(S)
           /\ Len(s) = Cardinality(S)
           /\ \A a \in S : \E k \in DOMAIN s : s[k] = a
           /\ \A j, k \in DOMAIN s : j < k => <<s[j], s[k]>> \in R
<1> DEFINE n == Cardinality(S)
<1>1. n \in Nat /\ DOMAIN s = 1..n
    BY FS_CardinalityType DEF InRank
<1>2. ASSUME NEW k \in 1..n PROVE s[k] \in S /\ Rank(s[k], R, S) = k - 1
    <2>1. \E a \in S : Rank(a, R, S) = k - 1
        BY <1>2, RanksAreTaken
    <2>2. s[k] = CHOOSE a \in S : Rank(a, R, S) = k - 1
        BY <1>2 DEF InRank
    <2> QED
        BY <2>1, <2>2
<1> HIDE DEF n
<1>3. s \in [1..n -> S]
    <2>1. s = [k \in DOMAIN s |-> s[k]]
        BY DEF InRank
    <2> QED
        BY <1>1, <1>2, <2>1
<1>4. s \in Seq(S) /\ Len(s) = n
    BY <1>1, <1>3, ListsAre
<1>5. ASSUME NEW a \in S PROVE \E k \in 1..n : s[k] = a
    <2>1. Rank(a, R, S) \in Nat /\ Rank(a, R, S) < n
        BY RanksRise DEF n
    <2> DEFINE k == Rank(a, R, S) + 1
    <2>2. k \in 1..n /\ k - 1 = Rank(a, R, S)
        BY <1>1, <2>1
    <2> HIDE DEF k
    <2>3. s[k] \in S /\ Rank(s[k], R, S) = Rank(a, R, S)
        BY <1>2, <2>2
    <2>4. ASSUME s[k] # a PROVE FALSE
        <3>1. <<s[k], a>> \in R \/ <<a, s[k]>> \in R
            BY <2>3, <2>4 DEF Orders
        <3>2. Rank(s[k], R, S) < Rank(a, R, S) \/ Rank(a, R, S) < Rank(s[k], R, S)
            BY <2>3, <3>1, RanksRise
        <3> QED
            BY <2>1, <2>3, <3>2
    <2> QED
        BY <2>2, <2>4
<1>6. ASSUME NEW j \in 1..n, NEW k \in 1..n, j < k PROVE <<s[j], s[k]>> \in R
    <2>1. s[j] \in S /\ s[k] \in S /\ Rank(s[j], R, S) = j - 1 /\ Rank(s[k], R, S) = k - 1
        BY <1>2
    <2>2. s[j] # s[k]
        BY <1>1, <1>6, <2>1
    <2>3. ASSUME <<s[k], s[j]>> \in R PROVE FALSE
        <3>1. Rank(s[k], R, S) < Rank(s[j], R, S)
            BY <2>1, <2>3, RanksRise
        <3> QED
            BY <1>1, <1>6, <2>1, <3>1
    <2> QED
        BY <2>1, <2>2, <2>3 DEF Orders
<1> QED
    BY <1>1, <1>4, <1>5, <1>6 DEF n

\* An agent has one row.
OneEach(rows) == \A a, b \in rows : a.id = b.id => a = b

LEMMA AgentsAreTyped ==
    ASSUME Fleet!FleetAssumption, NEW a \in Fleet!Agent
    PROVE  /\ a.id \in Agents /\ a.id \in Int /\ a.last_seen \in 0..1 /\ a.last_seen \in Int
           /\ a.status \in {"online", "offline"} /\ a.group_id \in {Main, None}
<1>1. Agents \subseteq Int
    BY DEF Fleet!FleetAssumption
<1>2. /\ a.id \in Agents /\ a.last_seen \in 0..1
      /\ a.status \in {"online", "offline"} /\ a.group_id \in {Main} \cup {None}
    BY DEF Fleet!Agent
<1>3. a.id \in Int
    BY <1>1, <1>2
<1>4. a.last_seen \in Int
    BY <1>2
<1>5. a.group_id \in {Main, None}
    BY <1>2
<1> QED
    BY <1>2, <1>3, <1>4, <1>5

LEMMA RowsAreFinite ==
    ASSUME Fleet!FleetAssumption, NEW rows \in SUBSET Fleet!Agent, OneEach(rows)
    PROVE  IsFiniteSet(rows) /\ IsFiniteSet({a.id : a \in rows})
<1> DEFINE f == [a \in rows |-> a.id]
<1>1. IsFiniteSet(Agents)
    BY FleetCounts DEF Fleet!FleetAssumption
<1>2. \A a \in rows : a.id \in Agents
    BY AgentsAreTyped
<1>3. f \in [rows -> Agents] /\ \A a, b \in rows : f[a] = f[b] => a = b
    BY <1>2 DEF OneEach
<1>4. f \in Injection(rows, Agents)
    BY <1>3 DEF Injection, IsInjective
<1>5. IsFiniteSet(rows)
    BY <1>1, <1>4, FS_Injection
<1>6. {a.id : a \in rows} \subseteq Agents
    BY <1>2
<1> QED
    BY <1>1, <1>5, <1>6, FS_Subset

LEMMA ListIsWhole ==
    ASSUME Fleet!FleetAssumption, ui \in Fleet!Ui, Fleet!Shown \subseteq Fleet!Agent,
           OneEach(Fleet!Shown)
    PROVE  Fleet!ListIsComplete
<1> DEFINE F == Fleet!Filtered
           R == {p \in F \X F : Fleet!Sooner(p[1], p[2])}
           L == Fleet!Listed
<1>1. F \subseteq Fleet!Shown /\ OneEach(F) /\ IsFiniteSet(F) /\ F \subseteq Fleet!Agent
    <2>1. F \subseteq Fleet!Shown
        BY DEF Fleet!Filtered
    <2> HIDE DEF F
    <2>2. OneEach(F) /\ F \in SUBSET Fleet!Agent
        BY <2>1 DEF OneEach
    <2> QED
        BY <2>1, <2>2, RowsAreFinite
<1>2. \A a, b \in F : <<a, b>> \in R <=> Fleet!Sooner(a, b)
    OBVIOUS
<1>3. \A a \in F : Fleet!Cardinality({b \in F : Fleet!Sooner(b, a)}) = Rank(a, R, F)
    <2>1. ASSUME NEW a \in F PROVE {b \in F : Fleet!Sooner(b, a)} = Before(a, R, F)
        BY <1>2, <2>1 DEF Before
    <2> HIDE DEF F, R
    <2> QED
        BY <2>1, FleetCounts DEF Rank
<1>4. L = InRank(R, F)
    <2> DEFINE n == Cardinality(F)
               A(k) == CHOOSE a \in F : Fleet!Cardinality({b \in F : Fleet!Sooner(b, a)}) = k - 1
               B(k) == CHOOSE a \in F : Rank(a, R, F) = k - 1
    <2>1. L = [k \in 1..n |-> A(k)]
        <3>1. L = [k \in 1..Fleet!Cardinality(F) |-> A(k)]
            BY DEF Fleet!Listed
        <3>2. Fleet!Cardinality(F) = n
            BY FleetCounts
        <3> HIDE DEF L, A, F, n
        <3> QED
            BY <3>1, <3>2
    <2>2. ASSUME NEW k PROVE A(k) = B(k)
        <3> HIDE DEF F, R
        <3>1. \A a : a \in F /\ Fleet!Cardinality({b \in F : Fleet!Sooner(b, a)}) = k - 1
                        <=> a \in F /\ Rank(a, R, F) = k - 1
            BY <1>3
        <3> QED
            BY <3>1, Zenon
    <2>3. InRank(R, F) = [k \in 1..n |-> B(k)]
        BY DEF InRank
    <2> HIDE DEF A, B, F, R, L, n
    <2> QED
        BY <2>1, <2>2, <2>3
<1>5. Orders(R, F)
    <2> HIDE DEF R
    <2>0. \A a \in F : a.id \in Int /\ a.last_seen \in Int
        BY <1>1, AgentsAreTyped
    <2>00. \A a, b \in F : a.id = b.id => a = b
        BY <1>1 DEF OneEach
    <2> HIDE DEF F
    <2>1. \A a \in F : ~Fleet!Sooner(a, a)
        BY <2>0 DEF Fleet!Sooner
    <2>2. \A a, b \in F : a # b => Fleet!Sooner(a, b) \/ Fleet!Sooner(b, a)
        BY <2>0, <2>00 DEF Fleet!Sooner
    <2>3. \A a, b, c \in F : Fleet!Sooner(a, b) /\ Fleet!Sooner(b, c) => Fleet!Sooner(a, c)
        BY <2>0 DEF Fleet!Sooner
    <2> QED
        BY <1>2, <2>1, <2>2, <2>3 DEF Orders
<1> HIDE DEF R, L
<1>6. /\ Cardinality(F) \in Nat /\ DOMAIN L = 1..Cardinality(F) /\ L \in Seq(F)
      /\ Len(L) = Cardinality(F) /\ \A a \in F : \E k \in DOMAIN L : L[k] = a
      /\ \A j, k \in DOMAIN L : j < k => <<L[j], L[k]>> \in R
    <2> HIDE DEF F
    <2> QED
        BY <1>1, <1>4, <1>5, SortedByRank
<1>7. Fleet!Range(L) = F
    <2> HIDE DEF F
    <2>1. \A k \in DOMAIN L : L[k] \in F
        BY <1>6
    <2> QED
        BY <1>6, <2>1 DEF Fleet!Range
<1>8. {a \in Fleet!Shown : a.status = "online"} \subseteq Fleet!Range(L)
    BY <1>7 DEF Fleet!Filtered
<1>9. Len(L) = Fleet!Cardinality(Fleet!Range(L))
    BY <1>6, <1>7, FleetCounts
<1>10. ASSUME NEW j \in DOMAIN L, NEW k \in DOMAIN L, j < k
       PROVE  IF ui.sortOrder = "asc" THEN L[j].last_seen <= L[k].last_seen
                                      ELSE L[k].last_seen <= L[j].last_seen
    <2>1. Fleet!Sooner(L[j], L[k])
        BY <1>6, <1>10 DEF R
    <2>2. L[j].last_seen \in Int /\ L[k].last_seen \in Int
        <3>1. L[j] \in F /\ L[k] \in F
            BY <1>6
        <3> QED
            BY <1>1, <3>1, AgentsAreTyped
    <2> QED
        BY <2>1, <2>2 DEF Fleet!Sooner
<1>11. ASSUME L = <<>>, Fleet!EmptyState = "No Matching Agents"
       PROVE  ui.showActiveOnly /\ \A a \in Fleet!Shown : a.status = "offline"
    <2>1. F = {}
        <3>1. Cardinality(F) = 0
            BY <1>6, <1>11
        <3> QED
            BY <1>1, <3>1, FS_EmptySet
    <2>2. Fleet!Shown # {}
        BY <1>11 DEF Fleet!EmptyState
    <2>3. \A a \in Fleet!Shown : a.status \in {"online", "offline"}
        BY AgentsAreTyped
    <2> QED
        BY <2>1, <2>2, <2>3 DEF Fleet!Filtered
<1> QED
    BY <1>8, <1>9, <1>10, <1>11, Zenon DEF Fleet!ListIsComplete, L

\* The canvas has a place of its own for every agent and every group.
LEMMA PlacesAreClear ==
    ASSUME NEW p \in Nat, NEW q \in Nat, p # q
    PROVE  /\ Fleet!Clear(Fleet!AgentAt(p), Fleet!AgentAt(q))
           /\ Fleet!Clear(Fleet!GroupAt(p), Fleet!GroupAt(q))
<1>1. /\ p % 4 \in 0..3 /\ q % 4 \in 0..3 /\ p \div 4 \in Nat /\ q \div 4 \in Nat
      /\ p = 4 * (p \div 4) + (p % 4) /\ q = 4 * (q \div 4) + (q % 4)
    OBVIOUS
<1>2. p % 4 # q % 4 \/ p \div 4 # q \div 4
    BY <1>1
<1>3. ASSUME NEW a \in Nat, NEW b \in Nat, NEW c \in Nat, NEW d \in Nat, a # b \/ c # d
      PROVE  \/ a * 250 + 50 + 200 <= b * 250 + 50 \/ b * 250 + 50 + 200 <= a * 250 + 50
             \/ c * 200 + 150 + 140 <= d * 200 + 150 \/ d * 200 + 150 + 140 <= c * 200 + 150
    BY <1>3
<1>4. Fleet!Clear(Fleet!AgentAt(p), Fleet!AgentAt(q))
    <2> DEFINE a == p % 4
               b == q % 4
               c == p \div 4
               d == q \div 4
    <2>1. a \in Nat /\ b \in Nat /\ c \in Nat /\ d \in Nat /\ (a # b \/ c # d)
        BY <1>1, <1>2
    <2>2. /\ Fleet!AgentAt(p) = [x |-> a * 250 + 50, y |-> c * 200 + 150]
          /\ Fleet!AgentAt(q) = [x |-> b * 250 + 50, y |-> d * 200 + 150]
        BY DEF Fleet!AgentAt
    <2> HIDE DEF a, b, c, d
    <2> QED
        BY <1>3, <2>1, <2>2 DEF Fleet!Clear, Fleet!CanvasWidth, Fleet!CanvasHeight
<1>5. Fleet!Clear(Fleet!GroupAt(p), Fleet!GroupAt(q))
    BY DEF Fleet!Clear, Fleet!CanvasWidth, Fleet!CanvasHeight, Fleet!GroupAt
<1> QED
    BY <1>4, <1>5

\* The nodes of the answer, of agents and of groups.
AgentIds == {a.id : a \in Fleet!Shown}
GroupIds == {a.group_id : a \in Fleet!Shown} \ {None}

AgentNode(i) ==
    [id |-> <<"agent", i>>, at |-> Fleet!AgentAt(Fleet!Cardinality({j \in AgentIds : j < i})),
     agent_count |-> 0]

GroupNode(g) ==
    [id |-> <<"group", g>>, at |-> Fleet!GroupAt(0),
     agent_count |-> Cardinality({a \in Fleet!Shown : a.group_id = g})]

LEMMA AgentNodes ==
    ASSUME ui.topologyLevel # "group"
    PROVE  Fleet!Nodes = {AgentNode(i) : i \in AgentIds}
BY DEF Fleet!Nodes, AgentNode, AgentIds

LEMMA GroupNodes ==
    ASSUME Fleet!FleetAssumption, ui.topologyLevel = "group", Fleet!Shown \subseteq Fleet!Agent
    PROVE  Fleet!Nodes = {GroupNode(g) : g \in GroupIds}
<1> DEFINE groups == Fleet!SetToSeq(GroupIds)
           n == Cardinality(GroupIds)
<1>1. GroupIds = {} \/ GroupIds = {Main}
    <2>1. \A a \in Fleet!Shown : a.group_id \in {Main, None}
        BY AgentsAreTyped
    <2> QED
        BY <2>1 DEF GroupIds
<1>2. n = IF GroupIds = {} THEN 0 ELSE 1
    BY <1>1, FS_EmptySet, FS_Singleton, Zenon
<1>3. groups \in [1..n -> GroupIds] /\ \A g \in GroupIds : groups = [k \in 1..1 |-> g]
    <2>1. groups = CHOOSE f \in [1..n -> GroupIds] : Fleet!IsInjective(f)
        BY FleetCounts DEF Fleet!SetToSeq
    <2>2. \E f \in [1..n -> GroupIds] : Fleet!IsInjective(f)
        <3>1. CASE GroupIds = {}
            <4>1. [k \in 1..0 |-> None] \in [1..n -> GroupIds]
                BY <1>2, <3>1
            <4>2. Fleet!IsInjective([k \in 1..0 |-> None])
                BY DEF Fleet!IsInjective
            <4> QED
                BY <4>1, <4>2
        <3>2. CASE GroupIds = {Main}
            <4>1. [k \in 1..1 |-> Main] \in [1..n -> GroupIds]
                BY <1>2, <3>2
            <4>2. Fleet!IsInjective([k \in 1..1 |-> Main])
                BY DEF Fleet!IsInjective
            <4> QED
                BY <4>1, <4>2
        <3> QED
            BY <1>1, <3>1, <3>2
    <2> HIDE DEF groups, n
    <2>3. groups \in [1..n -> GroupIds]
        BY <2>1, <2>2
    <2>4. ASSUME NEW g \in GroupIds PROVE groups = [k \in 1..1 |-> g]
        <3>1. n = 1 /\ GroupIds = {g}
            BY <1>1, <1>2, <2>4
        <3> QED
            BY <2>3, <3>1
    <2> QED
        BY <2>3, <2>4
<1>4. Fleet!Nodes = {[id |-> <<"group", groups[k]>>, at |-> Fleet!GroupAt(k - 1),
                      agent_count |-> Fleet!Cardinality({a \in Fleet!Shown : a.group_id = groups[k]})] :
                        k \in DOMAIN groups}
    BY DEF Fleet!Nodes, GroupIds
<1> HIDE DEF groups, n
<1>5. CASE GroupIds = {}
    <2>1. DOMAIN groups = {}
        BY <1>2, <1>3, <1>5
    <2> QED
        BY <1>4, <1>5, <2>1
<1>6. CASE GroupIds = {Main}
    <2>0. groups = [k \in 1..1 |-> Main]
        BY <1>3, <1>6
    <2>1. DOMAIN groups = {1} /\ groups[1] = Main
        BY <2>0
    <2>2. Fleet!Nodes = {[id |-> <<"group", Main>>, at |-> Fleet!GroupAt(0),
                          agent_count |-> Fleet!Cardinality({a \in Fleet!Shown : a.group_id = Main})]}
        BY <1>4, <2>1
    <2>3. Fleet!Nodes = {GroupNode(Main)}
        BY <2>2, FleetCounts DEF GroupNode
    <2> QED
        BY <1>6, <2>3
<1> QED
    BY <1>1, <1>5, <1>6

\* Of nodes that have an id of their own there are as many as ids.
LEMMA NodesAreCounted ==
    ASSUME NEW N, NEW ids, ids = {n.id : n \in N}, IsFiniteSet(N),
           \A m, n \in N : m.id = n.id => m = n
    PROVE  Cardinality(N) = Cardinality(ids)
<1> DEFINE f == [n \in N |-> n.id]
<1>1. f \in Surjection(N, ids) /\ f \in Injection(N, ids)
    BY DEF Surjection, Injection, IsInjective
<1>2. f \in Bijection(N, ids)
    BY <1>1 DEF Bijection
<1> HIDE DEF f
<1> QED
    BY <1>2, FS_Bijection DEF ExistsBijection

\* The numbers of no node, and of one, add up.
Tallies(it, D) ==
    it = [s \in D |-> IF s = {} THEN 0 ELSE First(s).agent_count + it[s \ {First(s)}]]
Tally(N) == CHOOSE it : Tallies(it, SUBSET N)

LEMMA SumIsTallied ==
    ASSUME NEW N
    PROVE  Fleet!MapThenSumSet(LAMBDA n : n.agent_count, N) = Tally(N)[N]
    BY Zenon DEF Fleet!MapThenSumSet, Fleet!MapThenFoldSet, Tally, Tallies, First

LEMMA TallyAdds ==
    ASSUME NEW N, IsFiniteSet(N)
    PROVE  Tally(N) = Adder([n \in N |-> n.agent_count], N)
<1> DEFINE f == [n \in N |-> n.agent_count]
<1>1. ASSUME NEW it PROVE Tallies(it, SUBSET N) <=> Adds(it, f, SUBSET N)
    <2> DEFINE A(s) == IF s = {} THEN 0 ELSE First(s).agent_count + it[s \ {First(s)}]
               B(s) == IF s = {} THEN 0 ELSE f[First(s)] + it[s \ {First(s)}]
    <2>1. ASSUME NEW s \in SUBSET N PROVE A(s) = B(s)
        <3>1. s # {} => First(s) \in N
            BY <2>1, FirstIsIn
        <3> HIDE DEF f
        <3>2. s # {} => f[First(s)] = First(s).agent_count
            BY <3>1 DEF f
        <3> QED
            BY <3>2, Zenon
    <2>2. Tallies(it, SUBSET N) <=> it = [s \in SUBSET N |-> A(s)]
        BY Zenon DEF Tallies
    <2>3. Adds(it, f, SUBSET N) <=> it = [s \in SUBSET N |-> B(s)]
        BY Zenon DEF Adds
    <2> HIDE DEF A, B, f
    <2>4. [s \in SUBSET N |-> A(s)] = [s \in SUBSET N |-> B(s)]
        BY <2>1
    <2> QED
        BY <2>2, <2>3, <2>4
<1> HIDE DEF f
<1> QED
    BY <1>1, Zenon DEF Tally, Adder, f

LEMMA SumsOfNodes ==
    /\ Fleet!MapThenSumSet(LAMBDA n : n.agent_count, {}) = 0
    /\ \A m : m.agent_count \in Nat =>
          Fleet!MapThenSumSet(LAMBDA n : n.agent_count, {m}) = m.agent_count
<1>1. Tally({})[{}] = 0
    <2> DEFINE f == [n \in {} |-> n.agent_count]
    <2>1. IsFiniteSet({}) /\ {} \in SUBSET {}
        BY FS_EmptySet
    <2>2. Tally({}) = Adder(f, {})
        BY <2>1, TallyAdds
    <2> HIDE DEF f
    <2>3. Adder(f, {})[{}] = 0
        BY <2>1, AddsFirst
    <2> QED
        BY <2>2, <2>3
<1>2. ASSUME NEW m, m.agent_count \in Nat PROVE Tally({m})[{m}] = m.agent_count
    <2> DEFINE f == [n \in {m} |-> n.agent_count]
               it == Adder(f, {m})
    <2>1. First({m}) = m /\ {m} \ {m} = {} /\ {m} # {}
        BY FirstIsIn
    <2>2. IsFiniteSet({m})
        BY FS_Singleton
    <2>3. f[m] = m.agent_count
        OBVIOUS
    <2> HIDE DEF f
    <2>4. it[{}] = 0 /\ it[{m}] = f[First({m})] + it[{m} \ {First({m})}]
        BY <2>1, <2>2, AddsFirst
    <2>5. Tally({m}) = it
        BY <2>2, TallyAdds DEF f
    <2> HIDE DEF it
    <2> QED
        BY <1>2, <2>1, <2>3, <2>4, <2>5
<1> QED
    BY <1>1, <1>2, SumIsTallied, Zenon

LEMMA InstanceCanvas ==
    ASSUME Fleet!FleetAssumption, ui.topologyLevel # "group",
           Fleet!Shown \subseteq Fleet!Agent, OneEach(Fleet!Shown)
    PROVE  /\ \A m, n \in Fleet!Nodes : m = n \/ Fleet!Clear(m.at, n.at)
           /\ Cardinality(Fleet!Nodes) = Cardinality({n.id : n \in Fleet!Nodes})
           /\ {n.id : n \in Fleet!Nodes} = {"agent"} \X AgentIds
<1> DEFINE R == {p \in AgentIds \X AgentIds : p[1] < p[2]}
<1>1. IsFiniteSet(AgentIds) /\ AgentIds \subseteq Int
    <2>1. \A a \in Fleet!Shown : a.id \in Int
        BY AgentsAreTyped
    <2> QED
        BY <2>1, RowsAreFinite DEF AgentIds
<1>2. Orders(R, AgentIds)
    BY <1>1 DEF Orders
<1>3. ASSUME NEW i \in AgentIds PROVE Fleet!Cardinality({j \in AgentIds : j < i}) = Rank(i, R, AgentIds)
    <2>1. Before(i, R, AgentIds) = {j \in AgentIds : j < i}
        BY <1>3 DEF Before
    <2> HIDE DEF R
    <2> QED
        BY <2>1, FleetCounts DEF Rank
<1>4. ASSUME NEW i \in AgentIds, NEW j \in AgentIds, i # j
      PROVE  Fleet!Clear(AgentNode(i).at, AgentNode(j).at)
    <2>1. <<i, j>> \in R \/ <<j, i>> \in R
        BY <1>2, <1>4 DEF Orders
    <2> HIDE DEF R
    <2>2. /\ Rank(i, R, AgentIds) \in Nat /\ Rank(j, R, AgentIds) \in Nat
          /\ Rank(i, R, AgentIds) # Rank(j, R, AgentIds)
        BY <1>1, <1>2, <2>1, RanksRise
    <2>3. Fleet!Clear(Fleet!AgentAt(Rank(i, R, AgentIds)), Fleet!AgentAt(Rank(j, R, AgentIds)))
        BY <2>2, PlacesAreClear
    <2>4. /\ AgentNode(i).at = Fleet!AgentAt(Rank(i, R, AgentIds))
          /\ AgentNode(j).at = Fleet!AgentAt(Rank(j, R, AgentIds))
        BY <1>3 DEF AgentNode
    <2> QED
        BY <2>3, <2>4
<1>5. \A m, n \in Fleet!Nodes : m = n \/ Fleet!Clear(m.at, n.at)
    BY <1>4, AgentNodes
<1>6. \A i \in AgentIds : AgentNode(i).id = <<"agent", i>>
    BY DEF AgentNode
<1>7. \A m, n \in Fleet!Nodes : m.id = n.id => m = n
    <2>1. ASSUME NEW i \in AgentIds, NEW j \in AgentIds, AgentNode(i).id = AgentNode(j).id
          PROVE  AgentNode(i) = AgentNode(j)
        BY <1>6, <2>1
    <2> QED
        BY <2>1, AgentNodes
<1>8. {n.id : n \in Fleet!Nodes} = {"agent"} \X AgentIds
    <2>1. {n.id : n \in Fleet!Nodes} = {AgentNode(i).id : i \in AgentIds}
        BY AgentNodes
    <2>2. {AgentNode(i).id : i \in AgentIds} = {<<"agent", i>> : i \in AgentIds}
        BY <1>6
    <2>3. {<<"agent", i>> : i \in AgentIds} = {"agent"} \X AgentIds
        OBVIOUS
    <2> QED
        BY <2>1, <2>2, <2>3
<1>9. IsFiniteSet(Fleet!Nodes)
    <2> DEFINE N == {AgentNode(i) : i \in AgentIds}
               f == [i \in AgentIds |-> AgentNode(i)]
    <2>1. IsFiniteSet(N)
        <3>1. \A i, j \in AgentIds : AgentNode(i) = AgentNode(j) => i = j
            <4>1. \A i, j : <<"agent", i>> = <<"agent", j>> => i = j
                OBVIOUS
            <4> QED
                BY <1>6, <4>1
        <3>2. f \in Bijection(AgentIds, N)
            BY <3>1 DEF Bijection, Surjection, Injection, IsInjective
        <3> HIDE DEF f, N
        <3> QED
            BY <1>1, <3>2, FS_Bijection DEF ExistsBijection
    <2> QED
        BY <2>1, AgentNodes
<1> QED
    BY <1>5, <1>7, <1>8, <1>9, NodesAreCounted

LEMMA GroupCanvas ==
    ASSUME Fleet!FleetAssumption, ui.topologyLevel = "group",
           Fleet!Shown \subseteq Fleet!Agent, OneEach(Fleet!Shown)
    PROVE  /\ \A m, n \in Fleet!Nodes : m = n \/ Fleet!Clear(m.at, n.at)
           /\ Cardinality(Fleet!Nodes) = Cardinality({n.id : n \in Fleet!Nodes})
           /\ {n.id : n \in Fleet!Nodes} = {"group"} \X GroupIds
           /\ Fleet!MapThenSumSet(LAMBDA n : n.agent_count, Fleet!Nodes)
                = Cardinality({a \in Fleet!Shown : a.group_id # None})
<1>1. \A a \in Fleet!Shown : a.group_id \in {Main, None}
    BY AgentsAreTyped
<1>2. IsFiniteSet(Fleet!Shown)
    BY RowsAreFinite
<1>3. CASE GroupIds = {}
    <2>1. Fleet!Nodes = {}
        BY <1>3, GroupNodes
    <2>2. {a \in Fleet!Shown : a.group_id # None} = {}
        BY <1>3 DEF GroupIds
    <2>3. {n.id : n \in Fleet!Nodes} = {}
        BY <2>1
    <2> QED
        BY <1>3, <2>1, <2>2, <2>3, SumsOfNodes, FS_EmptySet
<1>4. CASE GroupIds = {Main}
    <2> DEFINE m == GroupNode(Main)
    <2>1. Fleet!Nodes = {m}
        BY <1>4, GroupNodes
    <2>2. {a \in Fleet!Shown : a.group_id # None} = {a \in Fleet!Shown : a.group_id = Main}
        BY <1>1, <1>4 DEF GroupIds
    <2>3. /\ m.id = <<"group", Main>>
          /\ m.agent_count = Cardinality({a \in Fleet!Shown : a.group_id = Main})
        BY DEF GroupNode
    <2>4. m.agent_count \in Nat
        <3>1. IsFiniteSet({a \in Fleet!Shown : a.group_id = Main})
            BY <1>2, FS_Subset
        <3> QED
            BY <2>3, <3>1, FS_CardinalityType
    <2> HIDE DEF m
    <2>5. {n.id : n \in Fleet!Nodes} = {<<"group", Main>>}
        BY <2>1, <2>3
    <2>6. Cardinality(Fleet!Nodes) = Cardinality({n.id : n \in Fleet!Nodes})
        BY <2>1, <2>5, FS_Singleton
    <2>7. Fleet!MapThenSumSet(LAMBDA n : n.agent_count, Fleet!Nodes)
                = Cardinality({a \in Fleet!Shown : a.group_id # None})
        BY <2>1, <2>2, <2>3, <2>4, SumsOfNodes
    <2> QED
        BY <1>4, <2>1, <2>5, <2>6, <2>7
<1> QED
    BY <1>1, <1>3, <1>4 DEF GroupIds

LEMMA CanvasIsWhole ==
    ASSUME Fleet!FleetAssumption, Fleet!Shown \subseteq Fleet!Agent, OneEach(Fleet!Shown)
    PROVE  Fleet!CanvasIsFaithful
<1> DEFINE ids == {n.id : n \in Fleet!Nodes}
           all == ({"agent"} \X AgentIds) \cup ({"group"} \X GroupIds)
<1>1. /\ \A m, n \in Fleet!Nodes : m = n \/ Fleet!Clear(m.at, n.at)
      /\ Cardinality(Fleet!Nodes) = Cardinality(ids)
      /\ ids = IF ui.topologyLevel = "group" THEN {"group"} \X GroupIds ELSE {"agent"} \X AgentIds
      /\ ui.topologyLevel = "group" =>
            Fleet!MapThenSumSet(LAMBDA n : n.agent_count, Fleet!Nodes)
                = Cardinality({a \in Fleet!Shown : a.group_id # None})
    BY InstanceCanvas, GroupCanvas
<1>2. ASSUME NEW e \in Fleet!Edges(all \X all) PROVE {e[1], e[2]} \subseteq ids
    <2>1. /\ e[1] \in all /\ e[2] \in all
          /\ e[1][1] = IF ui.topologyLevel = "group" THEN "group" ELSE "agent"
          /\ e[2][1] = IF ui.topologyLevel = "group" THEN "group" ELSE "agent"
        BY DEF Fleet!Edges
    <2> HIDE DEF ids
    <2>2. \A b \in all : b[1] = (IF ui.topologyLevel = "group" THEN "group" ELSE "agent") => b \in ids
        BY <1>1
    <2> QED
        BY <2>1, <2>2
<1>3. ids \subseteq all
    BY <1>1
<1> QED
    BY <1>1, <1>2, <1>3, FleetCounts, Zenon DEF Fleet!CanvasIsFaithful, AgentIds, GroupIds

-----------------------------------------------------------------------------
(* The lists of the groups and of the fleet                                *)

\* What was proved of any list (ListPage).
ListPr == INSTANCE GitSourcesPageProofs

-----------------------------------------------------------------------------
(* The groups                                                              *)

\* The list of the groups is a list.
LEMMA SameGroupsList ==
    /\ GroupsP!ListAssumption => ListPr!ListAssumption
    /\ GroupsP!IsFiniteSet(Slots) => ListPr!IsFiniteSet(Slots)
    /\ GroupsP!SeesOwnWrites <=> ListPr!SeesOwnWrites
    /\ \A ops, rows : GroupsP!ListTypeOK(ops, rows) <=> ListPr!ListTypeOK(ops, rows)
    /\ \A rows : GroupsP!InitList(rows) <=> ListPr!InitList(rows)
    /\ \A h, op, row, u : GroupsP!Send(h, op, row, u) <=> ListPr!Send(h, op, row, u)
    /\ \A h, x : /\ GroupsP!Reload(h, x) <=> ListPr!Reload(h, x)
                 /\ GroupsP!Mutate(h, x) <=> ListPr!Mutate(h, x)
                 /\ GroupsP!Reloaded(h, x) <=> ListPr!Reloaded(h, x)
                 /\ GroupsP!Caught(h, x) <=> ListPr!Caught(h, x)
    /\ \A x : /\ GroupsP!ServeRow(x) <=> ListPr!ServeRow(x)
              /\ GroupsP!ServeList(x) <=> ListPr!ServeList(x)
              /\ GroupsP!OthersWrite(x) <=> ListPr!OthersWrite(x)
    /\ GroupsP!Revalidate <=> ListPr!Revalidate
    /\ GroupsP!PollArrives <=> ListPr!PollArrives
    /\ GroupsP!Leave <=> ListPr!Leave
    /\ GroupsP!Owners = ListPr!Owners /\ GroupsP!Table = ListPr!Table
BY ZenonT(60)
DEF GroupsP!ListAssumption, ListPr!ListAssumption, GroupsP!vars, ListPr!vars,
    GroupsP!Owners, ListPr!Owners, GroupsP!Request, ListPr!Request, GroupsP!Quiet,
    ListPr!Quiet, GroupsP!Cache, ListPr!Cache, GroupsP!Cold, ListPr!Cold, GroupsP!Call,
    ListPr!Call, GroupsP!Idle, ListPr!Idle, GroupsP!Table, ListPr!Table, GroupsP!Starts,
    ListPr!Starts, GroupsP!Settles, ListPr!Settles, GroupsP!Arrived, ListPr!Arrived,
    GroupsP!Revalidate, ListPr!Revalidate, GroupsP!ServeList, ListPr!ServeList,
    GroupsP!PollArrives, ListPr!PollArrives, GroupsP!Send, ListPr!Send, GroupsP!Reload,
    ListPr!Reload, GroupsP!Accept, ListPr!Accept, GroupsP!Refuse, ListPr!Refuse,
    GroupsP!ServeRow, ListPr!ServeRow, GroupsP!Mutate, ListPr!Mutate, GroupsP!Reloaded,
    ListPr!Reloaded, GroupsP!Caught, ListPr!Caught, GroupsP!OthersWrite, ListPr!OthersWrite,
    GroupsP!Leave, ListPr!Leave, GroupsP!Return, ListPr!Return, GroupsP!ListTypeOK,
    ListPr!ListTypeOK, GroupsP!InitList, ListPr!InitList, GroupsP!SeesOwnWrites,
    ListPr!SeesOwnWrites, GroupsP!Cardinality,
    ListPr!Cardinality, GroupsP!IsFiniteSet, ListPr!IsFiniteSet

GroupsInv == ListPr!ListInv(GroupsP!Ops, Rows) /\ ui \in GroupsP!Ui

LEMMA GroupsAreRight ==
    ASSUME GroupsP!GroupsAssumption, GroupsInv
    PROVE  GroupsP!TypeOK /\ GroupsP!SeesOwnWrites
<1>1. /\ ListPr!ListAssumption /\ ListPr!ListTypeOK(GroupsP!Ops, Rows)
      /\ ListPr!Seen(cache) /\ ui \in GroupsP!Ui
    BY SameGroupsList DEF GroupsP!GroupsAssumption, GroupsInv, ListPr!ListInv
<1>2. GroupsP!TypeOK
    BY <1>1, SameGroupsList DEF GroupsP!TypeOK
<1>3. ListPr!SeesOwnWrites
    BY <1>1, ListPr!SeenIsShown DEF ListPr!ListTypeOK
<1> QED
    BY <1>2, <1>3, SameGroupsList

LEMMA InitGroups ==
    ASSUME GroupsP!GroupsAssumption, GroupsP!Init
    PROVE  GroupsInv
<1> DEFINE first == {CHOOSE r \in Rows : TRUE}
<1>1. first \in SUBSET Rows
    BY DEF GroupsP!GroupsAssumption
<1>2. ListPr!InitList(first) /\ ui = GroupsP!Fresh
    BY SameGroupsList DEF GroupsP!Init
<1> HIDE DEF first
<1>3. ListPr!ListInv(GroupsP!Ops, Rows)
    BY <1>1, <1>2, SameGroupsList, ListPr!InitListIsGood DEF GroupsP!GroupsAssumption
<1> QED
    BY <1>2, <1>3 DEF GroupsInv, GroupsP!Fresh, GroupsP!Ui

LEMMA NextGroups ==
    ASSUME GroupsP!GroupsAssumption, GroupsInv, [GroupsP!Next]_GroupsP!vars
    PROVE  GroupsInv'
<1> DEFINE Step == ListPr!ListAction(GroupsP!Ops, Rows)
           Handles(h) == ListPr!HandlerStep(GroupsP!Ops, Rows, h)
           Good == Step /\ ui' \in GroupsP!Ui
<1>0. /\ ui \in GroupsP!Ui /\ store \in Seq(SUBSET Rows) /\ Len(store) \in Nat \ {0}
      /\ "create" \in GroupsP!Ops /\ "delete" \in GroupsP!Ops
    BY DEF GroupsInv, ListPr!ListInv, ListPr!ListTypeOK, GroupsP!Ops
<1>1. ASSUME NEW h \in Slots, Handles(h)
      PROVE  Step
    BY <1>1 DEF ListPr!ListAction
<1>2. ASSUME NEW h \in Slots, GroupsP!HandleRefresh(h)
      PROVE  Good
    <2>1. ui' = [ui EXCEPT !.refreshing = TRUE]
        BY <1>2 DEF GroupsP!HandleRefresh, GroupsP!Reload
    <2>2. Handles(h)
        BY <1>2, SameGroupsList, Zenon DEF GroupsP!HandleRefresh, ListPr!HandlerStep
    <2> QED
        BY <1>0, <1>1, <2>1, <2>2 DEF GroupsP!Ui
<1>3. ASSUME NEW h \in Slots, GroupsP!HandleCreateGroup(h)
      PROVE  Good
    <2>1. ui' = ui /\ ListPr!Send(h, "create", None, ui)
        BY <1>3, SameGroupsList DEF GroupsP!HandleCreateGroup, GroupsP!Send
    <2>2. None \in Rows \cup {None}
        OBVIOUS
    <2>3. Handles(h)
        BY <1>0, <2>1, <2>2, Zenon DEF ListPr!HandlerStep
    <2> QED
        BY <1>0, <1>1, <2>1, <2>3
<1>4. ASSUME NEW h \in Slots, GroupsP!HandleDeleteGroup(h)
      PROVE  Good
    <2>1. ui' = ui /\ ListPr!Send(h, "delete", ui.selectedGroup, ui)
        BY <1>4, SameGroupsList DEF GroupsP!HandleDeleteGroup, GroupsP!Send
    <2>2. ui.selectedGroup \in Rows \cup {None}
        BY <1>0 DEF GroupsP!Ui
    <2>3. Handles(h)
        BY <1>0, <2>1, <2>2, Zenon DEF ListPr!HandlerStep
    <2> QED
        BY <1>0, <1>1, <2>1, <2>3
<1>5. ASSUME NEW h \in Slots,
             GroupsP!Succeeded(h) \/ GroupsP!Finished(h) \/ GroupsP!Failed(h)
      PROVE  Good
    <2>1. \/ ui' = ui
          \/ ui' = [ui EXCEPT !.createDrawerOpen = FALSE, !.named = FALSE]
          \/ ui' = [ui EXCEPT !.deleteDialogOpen = FALSE, !.selectedGroup = None]
          \/ ui' = [ui EXCEPT !.refreshing = FALSE]
        BY <1>5 DEF GroupsP!Succeeded, GroupsP!Mutate, GroupsP!Finished, GroupsP!Reloaded,
           GroupsP!Failed, GroupsP!Caught
    <2>2. Handles(h)
        BY <1>5, SameGroupsList, Zenon DEF GroupsP!Succeeded, GroupsP!Finished,
           GroupsP!Failed, ListPr!HandlerStep
    <2>3. ui' \in GroupsP!Ui
        BY <1>0, <2>1 DEF GroupsP!Ui
    <2> QED
        BY <1>1, <2>2, <2>3
<1>6. ASSUME NEW h \in Slots, GroupsP!ServeRow(h)
      PROVE  Good
    <2>1. ui' = ui
        BY <1>6 DEF GroupsP!ServeRow, GroupsP!Accept, GroupsP!Refuse
    <2>2. ListPr!ServeRow(h)
        BY <1>6, SameGroupsList
    <2>3. Handles(h)
        BY <1>0, <2>2, ListPr!ServeRowSteps
    <2> QED
        BY <1>0, <1>1, <2>1, <2>3
<1>7. ASSUME \/ GroupsP!OpenCreate \/ GroupsP!TypeName \/ GroupsP!CloseCreate
             \/ GroupsP!CloseDelete \/ GroupsP!Return(GroupsP!Fresh)
             \/ UNCHANGED GroupsP!vars
             \/ \E r \in Rows : GroupsP!HandleDeleteClick(r)
      PROVE  Good
    <2>1. UNCHANGED <<store, cache, calls, own, fuel>>
        BY <1>7 DEF GroupsP!OpenCreate, GroupsP!TypeName, GroupsP!CloseCreate,
           GroupsP!CloseDelete, GroupsP!HandleDeleteClick, GroupsP!Show, GroupsP!Return,
           GroupsP!vars
    <2>2. Step
        BY <2>1 DEF ListPr!ListAction
    <2>3. ASSUME NEW r \in Rows, GroupsP!HandleDeleteClick(r)
          PROVE  ui' \in GroupsP!Ui
        BY <1>0, <2>3 DEF GroupsP!HandleDeleteClick, GroupsP!Show, GroupsP!Ui
    <2>4. ASSUME GroupsP!Return(GroupsP!Fresh) \/ UNCHANGED GroupsP!vars
          PROVE  ui' \in GroupsP!Ui
        <3>1. GroupsP!Fresh \in GroupsP!Ui
            BY DEF GroupsP!Fresh, GroupsP!Ui
        <3>2. ui' = GroupsP!Fresh \/ ui' = ui
            BY <2>4 DEF GroupsP!Return, GroupsP!vars
        <3> QED
            BY <1>0, <3>1, <3>2
    <2>5. ASSUME \/ GroupsP!OpenCreate \/ GroupsP!TypeName \/ GroupsP!CloseCreate
                 \/ GroupsP!CloseDelete
          PROVE  ui' \in GroupsP!Ui
        BY <1>0, <2>5 DEF GroupsP!OpenCreate, GroupsP!TypeName, GroupsP!CloseCreate,
           GroupsP!CloseDelete, GroupsP!Show, GroupsP!Ui
    <2> QED
        BY <1>7, <2>2, <2>3, <2>4, <2>5
<1>8. ASSUME GroupsP!Leave
      PROVE  Good
    <2>1. ui' \in GroupsP!Ui
        BY <1>0, <1>8 DEF GroupsP!Leave, GroupsP!Ui
    <2> QED
        BY <1>8, <2>1, SameGroupsList DEF ListPr!ListAction
<1>9. ASSUME GroupsP!Revalidate \/ GroupsP!PollArrives \/ \E o \in GroupsP!Owners : GroupsP!ServeList(o)
      PROVE  Good
    <2>1. ui' = ui
        BY <1>9 DEF GroupsP!Revalidate, GroupsP!PollArrives, GroupsP!ServeList
    <2>2. Step
        BY <1>9, SameGroupsList, Zenon DEF ListPr!ListAction
    <2> QED
        BY <1>0, <2>1, <2>2
<1>10. ASSUME NEW r \in Rows \ GroupsP!Table, GroupsP!OthersWrite(GroupsP!Table \cup {r})
       PROVE  Good
    <2>1. GroupsP!Table \cup {r} \in SUBSET Rows
        BY <1>0 DEF GroupsP!Table
    <2>2. ui' = ui
        BY <1>10 DEF GroupsP!OthersWrite
    <2>3. Step
        BY <1>10, <2>1, SameGroupsList, Zenon DEF ListPr!ListAction
    <2> QED
        BY <1>0, <2>2, <2>3
<1> HIDE DEF Good
<1>11. Good
    BY <1>2, <1>3, <1>4, <1>5, <1>6, <1>7, <1>8, <1>9, <1>10
    DEF GroupsP!Next, GroupsP!User, GroupsP!Run
<1>12. ListPr!ListInv(GroupsP!Ops, Rows)'
    BY <1>11, SameGroupsList, ListPr!ListKeeps DEF Good, GroupsInv, GroupsP!GroupsAssumption
<1> QED
    BY <1>11, <1>12 DEF GroupsInv, Good

-----------------------------------------------------------------------------
(* The fleet                                                               *)

\* The list of the agents is a list.
LEMMA SameFleetList ==
    /\ Fleet!ListAssumption => ListPr!ListAssumption
    /\ Fleet!IsFiniteSet(Slots) => ListPr!IsFiniteSet(Slots)
    /\ Fleet!SeesOwnWrites <=> ListPr!SeesOwnWrites
    /\ \A ops, rows : Fleet!ListTypeOK(ops, rows) <=> ListPr!ListTypeOK(ops, rows)
    /\ \A rows : Fleet!InitList(rows) <=> ListPr!InitList(rows)
    /\ \A h, op, row, u : Fleet!Send(h, op, row, u) <=> ListPr!Send(h, op, row, u)
    /\ \A h, x : /\ Fleet!Reload(h, x) <=> ListPr!Reload(h, x)
                 /\ Fleet!Mutate(h, x) <=> ListPr!Mutate(h, x)
                 /\ Fleet!Reloaded(h, x) <=> ListPr!Reloaded(h, x)
                 /\ Fleet!Caught(h, x) <=> ListPr!Caught(h, x)
    /\ \A x : /\ Fleet!ServeRow(x) <=> ListPr!ServeRow(x)
              /\ Fleet!ServeList(x) <=> ListPr!ServeList(x)
              /\ Fleet!OthersWrite(x) <=> ListPr!OthersWrite(x)
    /\ Fleet!Revalidate <=> ListPr!Revalidate
    /\ Fleet!PollArrives <=> ListPr!PollArrives
    /\ Fleet!Leave <=> ListPr!Leave
    /\ Fleet!Owners = ListPr!Owners /\ Fleet!Table = ListPr!Table
BY ZenonT(60)
DEF Fleet!ListAssumption, ListPr!ListAssumption, Fleet!vars, ListPr!vars, Fleet!Owners,
    ListPr!Owners, Fleet!Request, ListPr!Request, Fleet!Quiet, ListPr!Quiet, Fleet!Cache,
    ListPr!Cache, Fleet!Cold, ListPr!Cold, Fleet!Call, ListPr!Call, Fleet!Idle, ListPr!Idle,
    Fleet!Table, ListPr!Table, Fleet!Starts, ListPr!Starts, Fleet!Settles, ListPr!Settles,
    Fleet!Arrived, ListPr!Arrived, Fleet!Revalidate, ListPr!Revalidate, Fleet!ServeList,
    ListPr!ServeList, Fleet!PollArrives, ListPr!PollArrives, Fleet!Send, ListPr!Send,
    Fleet!Reload, ListPr!Reload, Fleet!Accept, ListPr!Accept, Fleet!Refuse, ListPr!Refuse,
    Fleet!ServeRow, ListPr!ServeRow, Fleet!Mutate, ListPr!Mutate, Fleet!Reloaded,
    ListPr!Reloaded, Fleet!Caught, ListPr!Caught, Fleet!OthersWrite, ListPr!OthersWrite,
    Fleet!Leave, ListPr!Leave, Fleet!Return, ListPr!Return, Fleet!ListTypeOK,
    ListPr!ListTypeOK, Fleet!InitList, ListPr!InitList, Fleet!SeesOwnWrites,
    ListPr!SeesOwnWrites, Fleet!Cardinality, ListPr!Cardinality,
    Fleet!IsFiniteSet, ListPr!IsFiniteSet

\* A page that says that it refreshes has a handler that does, of its own; and a
\* page that has gone has none.
Refreshing(h) == calls[h].op = "refresh" /\ calls[h].mine

FleetInv ==
    /\ ListPr!ListInv({}, Fleet!Agent) /\ ui \in Fleet!Ui
    /\ kind \in {"agents", "topology"}
    /\ loaded \in [groups : SUBSET {Main}, agents : SUBSET Fleet!Agent]
    /\ \A d, e \in ui.drawers : d = e
    /\ ~ui.mounted => \A h \in Slots : ~Refreshing(h)
    /\ ui.mounted /\ ui.refreshing => \E h \in Slots : Refreshing(h)
    /\ \A k \in 1..Len(store) : OneEach(store[k])

LEMMA FleetShown ==
    ASSUME Fleet!FleetAssumption, FleetInv
    PROVE  /\ Fleet!Shown \subseteq Fleet!Agent /\ OneEach(Fleet!Shown)
           /\ Fleet!Table \subseteq Fleet!Agent /\ OneEach(Fleet!Table)
<1>1. /\ store \in Seq(SUBSET Fleet!Agent) /\ Len(store) \in Nat \ {0}
      /\ cache.data \in Nat /\ cache.data <= Len(store)
    BY DEF FleetInv, ListPr!ListInv, ListPr!ListTypeOK, ListPr!Cache, ListPr!Held
<1>2. \A k \in 1..Len(store) : OneEach(store[k])
    BY DEF FleetInv
<1>3. Fleet!Shown \subseteq Fleet!Agent
    BY <1>1 DEF Fleet!Shown
<1>4. Fleet!Table \subseteq Fleet!Agent
    BY <1>1 DEF Fleet!Table
<1>5. OneEach(Fleet!Shown)
    <2>1. CASE cache.data = 0
        BY <2>1 DEF Fleet!Shown, OneEach
    <2>2. CASE cache.data # 0
        BY <1>1, <1>2, <2>2 DEF Fleet!Shown
    <2> QED
        BY <2>1, <2>2
<1>6. OneEach(Fleet!Table)
    <2>1. Fleet!Table = store[Len(store)] /\ Len(store) \in 1..Len(store)
        BY <1>1 DEF Fleet!Table
    <2> QED
        BY <1>2, <2>1
<1> QED
    BY <1>3, <1>4, <1>5, <1>6

LEMMA FleetIsRight ==
    ASSUME Fleet!FleetAssumption, FleetInv
    PROVE  Fleet!TypeOK /\ Fleet!BusyIsTrue /\ Fleet!ShowsTheFleet
<1>1. ListPr!ListTypeOK({}, Fleet!Agent)
    BY DEF FleetInv, ListPr!ListInv
<1>2. Fleet!TypeOK
    BY <1>1, SameFleetList DEF FleetInv, Fleet!TypeOK
<1>3. Fleet!BusyIsTrue
    BY DEF FleetInv, Refreshing, Fleet!BusyIsTrue, Fleet!UnderWay
<1>4. Fleet!OneDrawer
    <2>0. \A d, e \in ui.drawers : d = e
        BY DEF FleetInv
    <2>1. ui.drawers = {} \/ \E d : ui.drawers = {d}
        BY <2>0
    <2>2. Cardinality({}) = 0 /\ \A x : Cardinality({x}) = 1
        BY FS_EmptySet, FS_Singleton
    <2>3. Cardinality(ui.drawers) = 0 \/ Cardinality(ui.drawers) = 1
        BY <2>1, <2>2, Zenon
    <2>4. Cardinality(ui.drawers) <= 1
        BY <2>3, AtMostOne, Zenon
    <2>5. Fleet!Cardinality(ui.drawers) = Cardinality(ui.drawers)
        BY DEF Fleet!Cardinality, Cardinality, Fleet!IsFiniteSet, IsFiniteSet
    <2> QED
        BY <2>4, <2>5 DEF Fleet!OneDrawer
<1>5. Fleet!ListIsComplete /\ Fleet!CanvasIsFaithful
    BY FleetShown, ListIsWhole, CanvasIsWhole DEF FleetInv
<1> QED
    BY <1>2, <1>3, <1>4, <1>5 DEF Fleet!ShowsTheFleet

LEMMA InitFleet ==
    ASSUME Fleet!FleetAssumption, Fleet!Init
    PROVE  FleetInv
<1>1. PICK fleet \in Fleet!Fleets : ListPr!InitList(fleet)
    BY SameFleetList DEF Fleet!Init
<1>2. fleet \in SUBSET Fleet!Agent
    BY DEF Fleet!Fleets
<1>3. ListPr!ListInv({}, Fleet!Agent)
    BY <1>1, <1>2, SameFleetList, ListPr!InitListIsGood DEF Fleet!FleetAssumption
<1>4. /\ ui = Fleet!Fresh /\ kind \in {"agents", "topology"}
      /\ loaded = [groups |-> {}, agents |-> {}]
    BY DEF Fleet!Init
<1>5. ui \in Fleet!Ui /\ ui.mounted /\ ~ui.refreshing /\ ui.drawers = {}
    BY <1>4 DEF Fleet!Fresh, Fleet!Ui
<1>6. \A k \in 1..Len(store) : OneEach(store[k])
    <2>1. store = <<fleet>>
        BY <1>1 DEF ListPr!InitList
    <2>2. OneEach(fleet)
        BY DEF Fleet!Fleets, OneEach
    <2> QED
        BY <2>1, <2>2
<1> QED
    BY <1>3, <1>4, <1>5, <1>6 DEF FleetInv

\* Nothing on the page starts or ends a refresh.
FleetRests ==
    /\ UNCHANGED <<kind, loaded, calls>> /\ ui' \in Fleet!Ui
    /\ ui'.mounted = ui.mounted /\ ui'.refreshing = ui.refreshing
    /\ \A d, e \in ui'.drawers : d = e

LEMMA FleetUiRests ==
    ASSUME Fleet!FleetAssumption, FleetInv,
           \/ \E a \in Fleet!Shown, g \in BOOLEAN : Fleet!HandleClick(a, g)
           \/ \E d \in Fleet!Drawer : Fleet!OnNodeClick(d) \/ Fleet!HandleNodeSelect(d)
           \/ Fleet!HandleSortToggle \/ Fleet!SetShowActiveOnly \/ Fleet!SetTopologyLevel
           \/ Fleet!CloseDrawer \/ UNCHANGED Fleet!fvars
    PROVE  FleetRests /\ UNCHANGED <<store, cache, calls, own, fuel>>
<1>0. ui \in Fleet!Ui /\ \A d, e \in ui.drawers : d = e
    BY DEF FleetInv
<1>1. ASSUME NEW drawers \in SUBSET Fleet!Drawer, \A d, e \in drawers : d = e,
             Fleet!Show([ui EXCEPT !.drawers = drawers])
      PROVE  FleetRests /\ UNCHANGED <<store, cache, calls, own, fuel>>
    BY <1>0, <1>1 DEF Fleet!Show, Fleet!Kept, FleetRests, Fleet!Ui
<1>2. ASSUME NEW a \in Fleet!Shown, NEW g \in BOOLEAN, Fleet!HandleClick(a, g)
      PROVE  FleetRests /\ UNCHANGED <<store, cache, calls, own, fuel>>
    <2>1. a \in Fleet!Agent
        BY FleetShown
    <2>2. \E d \in Fleet!Drawer : Fleet!Clicked(a, g) = {d}
        <3>1. CASE g /\ a.group_id # None
            <4>1. <<"group", a.group_id>> \in Fleet!Drawer
                BY <2>1, <3>1 DEF Fleet!Drawer, Fleet!Agent
            <4> QED
                BY <3>1, <4>1 DEF Fleet!Clicked
        <3>2. CASE ~(g /\ a.group_id # None)
            <4>1. <<"agent", a.id>> \in Fleet!Drawer
                BY <2>1 DEF Fleet!Drawer, Fleet!Agent
            <4> QED
                BY <3>2, <4>1 DEF Fleet!Clicked
        <3> QED
            BY <3>1, <3>2
    <2>3. /\ Fleet!Clicked(a, g) \in SUBSET Fleet!Drawer
          /\ \A d, e \in Fleet!Clicked(a, g) : d = e
        BY <2>2
    <2>4. Fleet!Show([ui EXCEPT !.drawers = Fleet!Clicked(a, g)])
        BY <1>2 DEF Fleet!HandleClick
    <2> QED
        BY <1>1, <2>3, <2>4
<1>3. ASSUME NEW d \in Fleet!Drawer, Fleet!OnNodeClick(d) \/ Fleet!HandleNodeSelect(d)
      PROVE  FleetRests /\ UNCHANGED <<store, cache, calls, own, fuel>>
    <2>1. Fleet!Show([ui EXCEPT !.drawers = {d}])
        BY <1>3, Zenon DEF Fleet!OnNodeClick, Fleet!HandleNodeSelect
    <2>2. {d} \in SUBSET Fleet!Drawer /\ \A e, f \in {d} : e = f
        OBVIOUS
    <2> QED
        BY <1>1, <2>1, <2>2
<1>4. ASSUME Fleet!CloseDrawer
      PROVE  FleetRests /\ UNCHANGED <<store, cache, calls, own, fuel>>
    <2>1. Fleet!Show([ui EXCEPT !.drawers = {}])
        BY <1>4, Zenon DEF Fleet!CloseDrawer
    <2>2. {} \in SUBSET Fleet!Drawer /\ \A d, e \in {} : d = e
        OBVIOUS
    <2> QED
        BY <1>1, <2>1, <2>2
<1>5. ASSUME Fleet!HandleSortToggle \/ Fleet!SetShowActiveOnly \/ Fleet!SetTopologyLevel
      PROVE  FleetRests /\ UNCHANGED <<store, cache, calls, own, fuel>>
    <2>1. UNCHANGED <<kind, loaded, store, cache, calls, own, fuel>>
        BY <1>5 DEF Fleet!HandleSortToggle, Fleet!SetShowActiveOnly, Fleet!SetTopologyLevel,
           Fleet!Show, Fleet!Kept
    <2>2. /\ ui' \in Fleet!Ui /\ ui'.drawers = ui.drawers
          /\ ui'.mounted = ui.mounted /\ ui'.refreshing = ui.refreshing
        BY <1>0, <1>5 DEF Fleet!HandleSortToggle, Fleet!SetShowActiveOnly,
           Fleet!SetTopologyLevel, Fleet!Show, Fleet!Ui
    <2> QED
        BY <1>0, <2>1, <2>2 DEF FleetRests
<1>6. ASSUME UNCHANGED Fleet!fvars
      PROVE  FleetRests /\ UNCHANGED <<store, cache, calls, own, fuel>>
    BY <1>0, <1>6 DEF Fleet!fvars, Fleet!vars, FleetRests
<1> QED
    BY <1>2, <1>3, <1>4, <1>5, <1>6

\* The server keeps one row for an agent.
LEMMA FleetRowsStay ==
    ASSUME Fleet!FleetAssumption, FleetInv, [Fleet!Next]_Fleet!fvars
    PROVE  \A k \in 1..Len(store') : OneEach(store'[k])
<1>1. /\ store \in Seq(SUBSET Fleet!Agent) /\ \A k \in 1..Len(store) : OneEach(store[k])
    BY DEF FleetInv, ListPr!ListInv, ListPr!ListTypeOK
<1>2. CASE store' = store
    BY <1>1, <1>2
<1>3. ASSUME NEW a \in Fleet!Agent, Fleet!AgentChanges(a)
      PROVE  \A k \in 1..Len(store') : OneEach(store'[k])
    <2> DEFINE rows == {b \in Fleet!Table : b.id # a.id} \cup {a}
    <2>1. store' = Append(store, rows)
        BY <1>3 DEF Fleet!AgentChanges, Fleet!OthersWrite
    <2>2. OneEach(rows)
        BY FleetShown DEF OneEach
    <2> HIDE DEF rows
    <2> QED
        BY <1>1, <2>1, <2>2
<1>4. ASSUME \/ \E a \in Fleet!Shown, g \in BOOLEAN : Fleet!HandleClick(a, g)
             \/ \E d \in Fleet!Drawer : Fleet!OnNodeClick(d) \/ Fleet!HandleNodeSelect(d)
             \/ Fleet!HandleSortToggle \/ Fleet!SetShowActiveOnly \/ Fleet!SetTopologyLevel
             \/ Fleet!CloseDrawer \/ UNCHANGED Fleet!fvars
      PROVE  store' = store
    BY <1>4, FleetUiRests
<1>5. ASSUME \/ \E h \in Slots : Fleet!HandleRefresh(h) \/ Fleet!Refreshed(h)
             \/ Fleet!Leave \/ Fleet!Return(Fleet!Fresh)
             \/ Fleet!Revalidate \/ Fleet!PollArrives
             \/ \E o \in Fleet!Owners : Fleet!ServeList(o)
             \/ \E g \in SUBSET {Main} : Fleet!OthersArrive(g)
      PROVE  store' = store
    BY <1>5 DEF Fleet!HandleRefresh, Fleet!Reload, Fleet!Refreshed, Fleet!Reloaded, Fleet!Leave,
       Fleet!Return, Fleet!Revalidate, Fleet!PollArrives, Fleet!ServeList, Fleet!OthersArrive
<1> QED
    BY <1>2, <1>3, <1>4, <1>5 DEF Fleet!Next, Fleet!User

LEMMA NextFleet ==
    ASSUME Fleet!FleetAssumption, FleetInv, [Fleet!Next]_Fleet!fvars
    PROVE  FleetInv'
<1> DEFINE Step == ListPr!ListAction({}, Fleet!Agent)
           Page == /\ ui' \in Fleet!Ui /\ kind' \in {"agents", "topology"}
                   /\ loaded' \in [groups : SUBSET {Main}, agents : SUBSET Fleet!Agent]
                   /\ \A d, e \in ui'.drawers : d = e
                   /\ ~ui'.mounted => \A h \in Slots : ~Refreshing(h)'
                   /\ ui'.mounted /\ ui'.refreshing => \E h \in Slots : Refreshing(h)'
<1>0. /\ ui \in Fleet!Ui /\ kind \in {"agents", "topology"}
      /\ loaded \in [groups : SUBSET {Main}, agents : SUBSET Fleet!Agent]
      /\ \A d, e \in ui.drawers : d = e
      /\ ~ui.mounted => \A h \in Slots : ~Refreshing(h)
      /\ ui.mounted /\ ui.refreshing => \E h \in Slots : Refreshing(h)
      /\ calls \in [Slots -> ListPr!Call({} \cup {"none", "refresh"}, Fleet!Agent \cup {None})]
    BY DEF FleetInv, ListPr!ListInv, ListPr!ListTypeOK
<1>1. FleetRests => Page
    BY <1>0 DEF FleetRests, Refreshing
<1>2. ASSUME NEW h \in Slots, ListPr!HandlerStep({}, Fleet!Agent, h)
      PROVE  Step
    BY <1>2 DEF ListPr!ListAction
<1>3. ASSUME UNCHANGED <<store, cache, calls, own, fuel>>
      PROVE  Step
    BY <1>3 DEF ListPr!ListAction
<1>4. ASSUME Fleet!Kept /\ Fleet!Return(Fleet!Fresh)
      PROVE  Step /\ Page
    <2>1. /\ Fleet!Fresh \in Fleet!Ui /\ Fleet!Fresh.mounted /\ ~Fleet!Fresh.refreshing
          /\ Fleet!Fresh.drawers = {}
        BY DEF Fleet!Fresh, Fleet!Ui
    <2>2. UNCHANGED <<store, cache, calls, own, fuel, kind, loaded>> /\ ui' = Fleet!Fresh
        BY <1>4 DEF Fleet!Return, Fleet!Kept
    <2> QED
        BY <1>0, <1>3, <2>1, <2>2
<1>5. ASSUME Fleet!Kept /\ Fleet!Leave
      PROVE  Step /\ Page
    <2>1. ui' = [ui EXCEPT !.mounted = FALSE] /\ UNCHANGED <<kind, loaded>>
        BY <1>5 DEF Fleet!Leave, Fleet!Kept
    <2>2. ui' \in Fleet!Ui /\ ~ui'.mounted /\ ui'.drawers = ui.drawers
        BY <1>0, <2>1 DEF Fleet!Ui
    <2>3. \A h \in Slots : ~Refreshing(h)'
        BY <1>0, <1>5 DEF Fleet!Leave, Refreshing, Fleet!Idle, ListPr!Call
    <2>4. Step
        BY <1>5, SameFleetList DEF ListPr!ListAction
    <2> QED
        BY <1>0, <2>1, <2>2, <2>3, <2>4
<1>6. ASSUME NEW h \in Slots, Fleet!HandleRefresh(h)
      PROVE  Step /\ Page
    <2> DEFINE c == [Fleet!Idle EXCEPT !.op = "refresh", !.st = "reload"]
    <2>1. /\ ui.mounted /\ ui' = [ui EXCEPT !.refreshing = TRUE]
          /\ calls' = [calls EXCEPT ![h] = c] /\ UNCHANGED <<kind, loaded>>
        BY <1>6 DEF Fleet!HandleRefresh, Fleet!Reload, Fleet!Kept, Fleet!ErrorPage,
           Fleet!ListError, Fleet!TopologyError
    <2>2. c.op = "refresh" /\ c.mine
        BY DEF Fleet!Idle
    <2> HIDE DEF c
    <2>3. Refreshing(h)'
        BY <1>0, <2>1, <2>2 DEF Refreshing
    <2>4. ui' \in Fleet!Ui /\ ui'.mounted /\ ui'.drawers = ui.drawers
        BY <1>0, <2>1 DEF Fleet!Ui
    <2>5. Step
        BY <1>2, <1>6, SameFleetList, Zenon DEF Fleet!HandleRefresh, ListPr!HandlerStep
    <2> QED
        BY <1>0, <2>1, <2>3, <2>4, <2>5
<1>7. ASSUME NEW h \in Slots, Fleet!Refreshed(h)
      PROVE  Step /\ Page
    <2>1. /\ calls' = [calls EXCEPT ![h] = Fleet!Idle] /\ UNCHANGED <<kind, loaded>>
          /\ ui' = IF calls[h].mine THEN [ui EXCEPT !.refreshing = FALSE] ELSE ui
        BY <1>7 DEF Fleet!Refreshed, Fleet!Reloaded, Fleet!Kept
    <2>2. Fleet!Idle.op # "refresh"
        BY DEF Fleet!Idle
    <2>3. \A g \in Slots : Refreshing(g)' <=> g # h /\ Refreshing(g)
        BY <1>0, <2>1, <2>2 DEF Refreshing
    <2>4. Step
        BY <1>2, <1>7, SameFleetList, Zenon DEF Fleet!Refreshed, ListPr!HandlerStep
    <2>5. CASE calls[h].mine
        <3>1. /\ ui' \in Fleet!Ui /\ ui'.mounted = ui.mounted /\ ~ui'.refreshing
              /\ ui'.drawers = ui.drawers
            BY <1>0, <2>1, <2>5 DEF Fleet!Ui
        <3> QED
            BY <1>0, <2>1, <2>3, <2>4, <3>1
    <2>6. CASE ~calls[h].mine
        <3>1. ui' = ui
            BY <2>1, <2>6
        <3>2. \A g \in Slots : Refreshing(g)' <=> Refreshing(g)
            BY <2>3, <2>6 DEF Refreshing
        <3> QED
            BY <1>0, <2>1, <2>4, <3>1, <3>2
    <2> QED
        BY <2>5, <2>6
<1>8. ASSUME Fleet!Kept, Fleet!Revalidate \/ Fleet!PollArrives \/ \E o \in Fleet!Owners : Fleet!ServeList(o)
      PROVE  Step /\ Page
    <2>1. UNCHANGED <<ui, calls, kind, loaded>>
        BY <1>8 DEF Fleet!Kept, Fleet!Revalidate, Fleet!PollArrives, Fleet!ServeList
    <2>2. Step
        BY <1>8, SameFleetList, Zenon DEF ListPr!ListAction
    <2> QED
        BY <1>0, <1>1, <2>1, <2>2 DEF FleetRests
<1>9. ASSUME NEW g \in SUBSET {Main}, Fleet!OthersArrive(g)
      PROVE  Step /\ Page
    <2>1. /\ loaded' = [groups |-> g, agents |-> IF kind = "topology" THEN Fleet!Table ELSE {}]
          /\ UNCHANGED <<store, cache, calls, ui, own, kind>>
          /\ fuel > 0 /\ fuel' = fuel - 1
        BY <1>9 DEF Fleet!OthersArrive
    <2>2. Step
        BY <2>1 DEF ListPr!ListAction
    <2>3. loaded' \in [groups : SUBSET {Main}, agents : SUBSET Fleet!Agent]
        BY <2>1, FleetShown
    <2> QED
        BY <1>0, <2>1, <2>2, <2>3 DEF Refreshing
<1>10. ASSUME NEW a \in Fleet!Agent, Fleet!AgentChanges(a)
       PROVE  Step /\ Page
    <2> DEFINE rows == {b \in Fleet!Table : b.id # a.id} \cup {a}
    <2>1. rows \in SUBSET Fleet!Agent
        BY FleetShown
    <2>2. Fleet!OthersWrite(rows) /\ UNCHANGED <<kind, loaded>>
        BY <1>10 DEF Fleet!AgentChanges, Fleet!Kept
    <2> HIDE DEF rows
    <2>3. Step
        BY <2>1, <2>2, SameFleetList, Zenon DEF ListPr!ListAction
    <2>4. UNCHANGED <<ui, calls>>
        BY <2>2 DEF Fleet!OthersWrite
    <2> QED
        BY <1>0, <1>1, <2>2, <2>3, <2>4 DEF FleetRests
<1>11. ASSUME \/ \E a \in Fleet!Shown, g \in BOOLEAN : Fleet!HandleClick(a, g)
              \/ \E d \in Fleet!Drawer : Fleet!OnNodeClick(d) \/ Fleet!HandleNodeSelect(d)
              \/ Fleet!HandleSortToggle \/ Fleet!SetShowActiveOnly
              \/ Fleet!SetTopologyLevel \/ Fleet!CloseDrawer \/ UNCHANGED Fleet!fvars
       PROVE  Step /\ Page
    BY <1>1, <1>3, <1>11, FleetUiRests
<1> HIDE DEF Step, Page
<1>12. Step /\ Page
    BY <1>4, <1>5, <1>6, <1>7, <1>8, <1>9, <1>10, <1>11 DEF Fleet!Next, Fleet!User
<1>13. ListPr!ListInv({}, Fleet!Agent)'
    BY <1>12, SameFleetList, ListPr!ListKeeps DEF Step, FleetInv, Fleet!FleetAssumption
<1> QED
    BY <1>12, <1>13, FleetRowsStay DEF FleetInv, Page

-----------------------------------------------------------------------------
(* The git sources and the configurations                                  *)

\* The same pages, with what was proved of them.
GitPr     == INSTANCE GitSourcesPageProofs WITH MaxRev <- MaxRev + 1
ConfigsPr == INSTANCE ConfigsProofs WITH
                 Slots <- ConfigSlots,
                 Names <- {otlp, otlp2, batch}, Lower <- PipelineNames,
                 Parts <- [n \in {otlp, otlp2, batch} |-> IF n = otlp THEN {otlp, otlp2} ELSE {n}]

\* A page means the same in both its instances.
LEMMA SameGitSources ==
    /\ Git!GitSourcesAssumption <=> GitPr!GitSourcesAssumption
    /\ Git!Init <=> GitPr!Init
    /\ [Git!Next]_Git!vars <=> [GitPr!Next]_GitPr!vars
    /\ Git!TypeOK <=> GitPr!TypeOK
    /\ Git!SeesOwnWrites <=> GitPr!SeesOwnWrites
    /\ Git!BusyIsTrue <=> GitPr!BusyIsTrue
BY ZenonT(60)
DEF Git!ListAssumption, GitPr!ListAssumption, Git!vars, GitPr!vars, Git!Owners,
    GitPr!Owners, Git!Request, GitPr!Request, Git!Quiet, GitPr!Quiet, Git!Cache,
    GitPr!Cache, Git!Cold, GitPr!Cold, Git!Call, GitPr!Call, Git!Idle, GitPr!Idle,
    Git!Table, GitPr!Table, Git!Shown, GitPr!Shown, Git!UnderWay, GitPr!UnderWay,
    Git!Starts, GitPr!Starts, Git!Settles, GitPr!Settles, Git!Arrived, GitPr!Arrived,
    Git!Revalidate, GitPr!Revalidate, Git!ServeList, GitPr!ServeList, Git!PollArrives,
    GitPr!PollArrives, Git!Send, GitPr!Send, Git!Reload, GitPr!Reload, Git!Accept,
    GitPr!Accept, Git!Refuse, GitPr!Refuse, Git!ServeRow, GitPr!ServeRow, Git!Mutate,
    GitPr!Mutate, Git!Reloaded, GitPr!Reloaded, Git!Caught, GitPr!Caught, Git!OthersWrite,
    GitPr!OthersWrite, Git!Leave, GitPr!Leave, Git!Return, GitPr!Return, Git!ListTypeOK,
    GitPr!ListTypeOK, Git!InitList, GitPr!InitList, Git!SeesOwnWrites, GitPr!SeesOwnWrites,
    Git!Ops, GitPr!Ops, Git!Ui, GitPr!Ui, Git!Fresh, GitPr!Fresh, Git!TypeOK, GitPr!TypeOK,
    Git!GitSourcesAssumption, GitPr!GitSourcesAssumption, Git!ErrorPage, GitPr!ErrorPage,
    Git!SheetShown, GitPr!SheetShown, Git!DialogShown, GitPr!DialogShown, Git!TableShown,
    GitPr!TableShown, Git!HandleRefresh, GitPr!HandleRefresh, Git!Show, GitPr!Show,
    Git!OpenCreate, GitPr!OpenCreate, Git!OpenEdit, GitPr!OpenEdit, Git!CloseSheet,
    GitPr!CloseSheet, Git!AskDelete, GitPr!AskDelete, Git!CancelDelete, GitPr!CancelDelete,
    Git!HandleSave, GitPr!HandleSave, Git!HandleDelete, GitPr!HandleDelete,
    Git!HandleSyncNow, GitPr!HandleSyncNow, Git!Succeeded, GitPr!Succeeded, Git!Finally,
    GitPr!Finally, Git!Finished, GitPr!Finished, Git!Failed, GitPr!Failed, Git!Init,
    GitPr!Init, Git!User, GitPr!User, Git!Run, GitPr!Run, Git!Next, GitPr!Next,
    Git!BusyIsTrue, GitPr!BusyIsTrue, Git!Cardinality,
    GitPr!Cardinality, Git!IsFiniteSet, GitPr!IsFiniteSet

LEMMA SameConfigs ==
    /\ Configs!ConfigsAssumption <=> ConfigsPr!ConfigsAssumption
    /\ Configs!Init <=> ConfigsPr!Init
    /\ [Configs!Next]_Configs!cvars <=> [ConfigsPr!Next]_ConfigsPr!cvars
    /\ Configs!TypeOK <=> ConfigsPr!TypeOK
    /\ Configs!SeesOwnWrites <=> ConfigsPr!SeesOwnWrites
    /\ Configs!BusyIsTrue <=> ConfigsPr!BusyIsTrue
    /\ Configs!UpdatesItsOwn <=> ConfigsPr!UpdatesItsOwn
BY ZenonT(60)
DEF Configs!ListAssumption, ConfigsPr!ListAssumption, Configs!vars, ConfigsPr!vars,
    Configs!Owners, ConfigsPr!Owners, Configs!Request, ConfigsPr!Request, Configs!Quiet,
    ConfigsPr!Quiet, Configs!Cache, ConfigsPr!Cache, Configs!Cold, ConfigsPr!Cold,
    Configs!Call, ConfigsPr!Call, Configs!Idle, ConfigsPr!Idle, Configs!Table,
    ConfigsPr!Table, Configs!Shown, ConfigsPr!Shown, Configs!UnderWay, ConfigsPr!UnderWay,
    Configs!Starts, ConfigsPr!Starts, Configs!Settles, ConfigsPr!Settles, Configs!Arrived,
    ConfigsPr!Arrived, Configs!Revalidate, ConfigsPr!Revalidate, Configs!ServeList,
    ConfigsPr!ServeList, Configs!PollArrives, ConfigsPr!PollArrives, Configs!Send,
    ConfigsPr!Send, Configs!Reload, ConfigsPr!Reload, Configs!Accept, ConfigsPr!Accept,
    Configs!Refuse, ConfigsPr!Refuse, Configs!ServeRow, ConfigsPr!ServeRow, Configs!Mutate,
    ConfigsPr!Mutate, Configs!Reloaded, ConfigsPr!Reloaded, Configs!Caught,
    ConfigsPr!Caught, Configs!OthersWrite, ConfigsPr!OthersWrite, Configs!Leave,
    ConfigsPr!Leave, Configs!Return, ConfigsPr!Return, Configs!ListTypeOK,
    ConfigsPr!ListTypeOK, Configs!InitList, ConfigsPr!InitList, Configs!SeesOwnWrites,
    ConfigsPr!SeesOwnWrites, Configs!ConfigsAssumption, ConfigsPr!ConfigsAssumption,
    Configs!Ops, ConfigsPr!Ops, Configs!Ids, ConfigsPr!Ids, Configs!Row, ConfigsPr!Row,
    Configs!cvars, ConfigsPr!cvars, Configs!Kept, ConfigsPr!Kept, Configs!Ui, ConfigsPr!Ui,
    Configs!Fresh, ConfigsPr!Fresh, Configs!TypeOK, ConfigsPr!TypeOK, Configs!The,
    ConfigsPr!The, Configs!LoadEditor, ConfigsPr!LoadEditor, Configs!Navigate,
    ConfigsPr!Navigate, Configs!InList, ConfigsPr!InList, Configs!InEditor,
    ConfigsPr!InEditor, Configs!Show, ConfigsPr!Show, Configs!HandleEditConfig,
    ConfigsPr!HandleEditConfig, Configs!HandleCreateNew, ConfigsPr!HandleCreateNew,
    Configs!HandleBackToList, ConfigsPr!HandleBackToList, Configs!ConfigArrives,
    ConfigsPr!ConfigArrives, Configs!SelectGroup, ConfigsPr!SelectGroup,
    Configs!HandleRefresh, ConfigsPr!HandleRefresh, Configs!ToSave, ConfigsPr!ToSave,
    Configs!HandleSave, ConfigsPr!HandleSave, Configs!Stored, ConfigsPr!Stored,
    Configs!Serve, ConfigsPr!Serve, Configs!Succeeded, ConfigsPr!Succeeded,
    Configs!Refreshed, ConfigsPr!Refreshed, Configs!ListReloaded, ConfigsPr!ListReloaded,
    Configs!Saved, ConfigsPr!Saved, Configs!Failed, ConfigsPr!Failed, Configs!Init,
    ConfigsPr!Init, Configs!User, ConfigsPr!User, Configs!Run, ConfigsPr!Run, Configs!Next,
    ConfigsPr!Next, Configs!UpdatesItsOwn, ConfigsPr!UpdatesItsOwn, Configs!BusyIsTrue,
    ConfigsPr!BusyIsTrue, Configs!Cardinality,
    ConfigsPr!Cardinality, Configs!IsFiniteSet, ConfigsPr!IsFiniteSet

-----------------------------------------------------------------------------
(* The markers of the editor                                               *)

\* A text and its lines are the same to the editor and to what was proved of them.
LEMMA SameTexts ==
    ASSUME NEW t, NEW layout
    PROVE  /\ Editor!PositionAssumption <=> ConfigsPr!PositionAssumption
           /\ t \in Editor!Mapping <=> t \in ConfigsPr!Mapping
           /\ Editor!HasPipelines(t) <=> ConfigsPr!HasPipelines(t)
           /\ layout \in Editor!Layouts <=> layout \in ConfigsPr!Layouts
BY ZenonT(60) DEF Editor!PositionAssumption, ConfigsPr!PositionAssumption, Editor!IsFiniteSet,
   ConfigsPr!IsFiniteSet, Editor!Stages, ConfigsPr!Stages, Editor!Sections, ConfigsPr!Sections,
   Editor!Settings, ConfigsPr!Settings, Editor!Mapping, ConfigsPr!Mapping, Editor!Keyed,
   ConfigsPr!Keyed, Editor!Pipeline, ConfigsPr!Pipeline, Editor!List, ConfigsPr!List,
   Editor!HasPipelines, ConfigsPr!HasPipelines, Editor!Layouts, ConfigsPr!Layouts

LEMMA SameErrors ==
    ASSUME NEW t, NEW e \in Editor!PipelineErrors(t)
    PROVE  e \in ConfigsPr!PipelineErrors(t)
<1>1. PICK p \in Editor!Range(t.pipelines), s \in Editor!Stages :
          /\ Editor!HasPipelines(t) /\ ~Editor!Throws(t)
          /\ \E n \in Editor!Members(p.body[s]) \ Editor!Defined(t, s) :
                 e = Editor!Complaint("error", p.name, s, n)
    BY DEF Editor!PipelineErrors
<1>2. /\ p \in ConfigsPr!Range(t.pipelines) /\ s \in ConfigsPr!Stages
      /\ ConfigsPr!HasPipelines(t) /\ ~ConfigsPr!Throws(t)
      /\ \E n \in ConfigsPr!Members(p.body[s]) \ ConfigsPr!Defined(t, s) :
             e = ConfigsPr!Complaint("error", p.name, s, n)
    BY <1>1, Zenon DEF Editor!HasPipelines, ConfigsPr!HasPipelines, Editor!Throws,
       ConfigsPr!Throws, Editor!Range, ConfigsPr!Range, Editor!Stages, ConfigsPr!Stages,
       Editor!Complaint, ConfigsPr!Complaint, Editor!Members, ConfigsPr!Members,
       Editor!Defined, ConfigsPr!Defined
<1> DEFINE Errors(q, z) == {ConfigsPr!Complaint("error", q.name, z, n) :
                           n \in ConfigsPr!Members(q.body[z]) \ ConfigsPr!Defined(t, z)}
<1>3. e \in Errors(p, s)
    BY <1>2
<1>4. ConfigsPr!PipelineErrors(t) =
          UNION {Errors(q, z) : q \in ConfigsPr!Range(t.pipelines), z \in ConfigsPr!Stages}
    BY <1>2 DEF ConfigsPr!PipelineErrors
<1> HIDE DEF Errors
<1> QED
    BY <1>2, <1>3, <1>4

LEMMA SameComplaints ==
    ASSUME NEW t, NEW e \in Editor!ValidateYamlConfig(t).errors
    PROVE  e \in ConfigsPr!ValidateYamlConfig(t).errors
<1>1. \/ e \in Editor!PipelineErrors(t) \/ e \in Editor!ExtensionErrors(t)
      \/ e \in Editor!EmptyPipelineWarnings(t)
    BY DEF Editor!ValidateYamlConfig
<1>2. Editor!ExtensionErrors(t) = ConfigsPr!ExtensionErrors(t)
    BY Zenon DEF Editor!ExtensionErrors, ConfigsPr!ExtensionErrors, Editor!Complaint,
       ConfigsPr!Complaint
<1>3. Editor!EmptyPipelineWarnings(t) = ConfigsPr!EmptyPipelineWarnings(t)
    BY Zenon DEF Editor!EmptyPipelineWarnings, ConfigsPr!EmptyPipelineWarnings,
       Editor!HasPipelines, ConfigsPr!HasPipelines, Editor!Throws, ConfigsPr!Throws,
       Editor!Complaint, ConfigsPr!Complaint, Editor!Range, ConfigsPr!Range
<1> QED
    BY <1>1, <1>2, <1>3, SameErrors DEF ConfigsPr!ValidateYamlConfig

LEMMA SameLines ==
    ASSUME NEW t, NEW layout
    PROVE  Editor!Lines(t, layout) = ConfigsPr!Lines(t, layout)
BY ZenonT(60) DEF Editor!Lines, ConfigsPr!Lines, Editor!ServiceLines, ConfigsPr!ServiceLines,
   Editor!PipelineLines, ConfigsPr!PipelineLines, Editor!SectionLines, ConfigsPr!SectionLines,
   Editor!ListLines, ConfigsPr!ListLines, Editor!Key, ConfigsPr!Key, Editor!Item,
   ConfigsPr!Item, Editor!Nothing, ConfigsPr!Nothing, Editor!SetToSeq, ConfigsPr!SetToSeq,
   Editor!FlattenSeq, ConfigsPr!FlattenSeq, Editor!Cardinality, ConfigsPr!Cardinality,
   Editor!IsInjective, ConfigsPr!IsInjective

LEMMA SameMarks ==
    ASSUME NEW L, NEW e
    PROVE  Editor!MarksItsLine(L, e) <=> ConfigsPr!MarksItsLine(L, e)
BY ZenonT(60) DEF Editor!MarksItsLine, ConfigsPr!MarksItsLine, Editor!CreateValidationError,
   ConfigsPr!CreateValidationError, Editor!FindYamlPosition, ConfigsPr!FindYamlPosition,
   Editor!KeyLine, ConfigsPr!KeyLine, Editor!ItemLines, ConfigsPr!ItemLines,
   Editor!Matching, ConfigsPr!Matching, Editor!PathOf, ConfigsPr!PathOf, Editor!KeysTo,
   ConfigsPr!KeysTo, Editor!Above, ConfigsPr!Above, Editor!Sidetracked, ConfigsPr!Sidetracked,
   Editor!Overlooked, ConfigsPr!Overlooked, Editor!Mistaken, ConfigsPr!Mistaken,
   Editor!Skipped, ConfigsPr!Skipped, Editor!Max, ConfigsPr!Max, Editor!Min, ConfigsPr!Min,
   Editor!Range, ConfigsPr!Range

\* The markers of any text are where its complaints are (ConfigsProofs).
LEMMA TextIsMarked ==
    ASSUME Editor!PositionAssumption, NEW t \in Editor!Mapping, Editor!HasPipelines(t),
           NEW layout \in Editor!Layouts, NEW e \in Editor!ValidateYamlConfig(t).errors
    PROVE  Editor!MarksItsLine(Editor!Lines(t, layout), e)
<1>1. /\ ConfigsPr!PositionAssumption /\ t \in ConfigsPr!Mapping /\ ConfigsPr!HasPipelines(t)
      /\ layout \in ConfigsPr!Layouts
    BY SameTexts
<1>2. e \in ConfigsPr!ValidateYamlConfig(t).errors
    BY SameComplaints
<1>3. ConfigsPr!MarksItsLine(ConfigsPr!Lines(t, layout), e)
    BY <1>1, <1>2, ConfigsPr!MarksOfText
<1> QED
    BY <1>3, SameLines, SameMarks

LEMMA MarkersFit ==
    ASSUME Editor!EditorAssumption, EditorInv
    PROVE  Editor!MarkersAreRight
<1> SUFFICES ASSUME Editor!Settled, store.form \notin {"empty", "blank", "broken"}
             PROVE  /\ cache.marked = store \/ (cache.marked = None /\ ui.early)
                    /\ Editor!HasPipelines(store) =>
                          \A layout \in Editor!Layouts : \A e \in cache.result.errors :
                              Editor!MarksItsLine(Editor!Lines(store, layout), e)
    BY Zenon DEF Editor!MarkersAreRight
<1>1. "validate" \notin calls
    BY DEF EditorInv, Editor!Settled, Editor!LeftBadge
<1>2. /\ cache.marked = store \/ (cache.marked = None /\ ui.early)
      /\ cache.result = Editor!ValidateYamlConfig(store)
    BY <1>1 DEF EditorInv, Editor!Performed
<1>3. ASSUME Editor!HasPipelines(store), NEW layout \in Editor!Layouts,
             NEW e \in cache.result.errors
      PROVE  Editor!MarksItsLine(Editor!Lines(store, layout), e)
    <2>1. store \in Editor!Mapping
        BY <1>3 DEF EditorInv, Editor!TypeOK, Editor!Text, Editor!HasPipelines
    <2>2. Editor!PositionAssumption
        BY DEF Editor!EditorAssumption
    <2> QED
        BY <1>2, <1>3, <2>1, <2>2, TextIsMarked
<1> QED
    BY <1>2, <1>3

-----------------------------------------------------------------------------
(* The console                                                             *)

\* What holds of the page that is open.
ConsoleInv ==
    /\ page = "git" => GitPr!PageInv
    /\ page = "groups" => GroupsInv
    /\ page = "configs" => ConfigsPr!ConfigsInv
    /\ page = "fleet" => FleetInv
    /\ page = "drawers" => DrawerInv
    /\ page = "audit" => AuditInv
    /\ page = "keys" => KeysInv
    /\ page = "editor" => EditorInv

LEMMA InitConsole == Init => ConsoleInv
<1> SUFFICES ASSUME Init PROVE ConsoleInv
    OBVIOUS
<1>1. ASSUME page = "git" PROVE GitPr!PageInv
    <2>1. Git!Init
        BY <1>1 DEF Init
    <2> QED
        BY <2>1, Fitting, SameGitSources, GitPr!InitPage
<1>2. ASSUME page = "groups" PROVE GroupsInv
    <2>1. GroupsP!Init
        BY <1>2 DEF Init
    <2> QED
        BY <2>1, Fitting, InitGroups
<1>3. ASSUME page = "configs" PROVE ConfigsPr!ConfigsInv
    <2>1. Configs!Init
        BY <1>3 DEF Init
    <2> QED
        BY <2>1, Fitting, SameConfigs, ConfigsPr!InitConfigs
<1>4. ASSUME page = "fleet" PROVE FleetInv
    <2>1. Fleet!Init
        BY <1>4 DEF Init
    <2> QED
        BY <2>1, Fitting, InitFleet
<1>5. ASSUME page = "drawers" PROVE DrawerInv
    <2>1. Drawer!Init
        BY <1>5 DEF Init
    <2> QED
        BY <2>1, Fitting, InitDrawer
<1>6. ASSUME page = "audit" PROVE AuditInv
    <2>1. Audit!Init
        BY <1>6 DEF Init
    <2> QED
        BY <2>1, Fitting, InitAudit
<1>7. ASSUME page = "keys" PROVE KeysInv
    <2>1. Keys!Init
        BY <1>7 DEF Init
    <2> QED
        BY <2>1, Fitting, InitKeys
<1>8. ASSUME page = "editor" PROVE EditorInv
    <2>1. Editor!Init
        BY <1>8 DEF Init
    <2> QED
        BY <2>1, Fitting, InitEditor
<1> QED
    BY <1>1, <1>2, <1>3, <1>4, <1>5, <1>6, <1>7, <1>8 DEF ConsoleInv

\* The page stays open, and its variables change by its own steps only.
LEMMA OwnSteps ==
    ASSUME [Next]_vars
    PROVE  /\ page' = page
           /\ page = "git" => [Git!Next]_Git!vars
           /\ page = "groups" => [GroupsP!Next]_GroupsP!vars
           /\ page = "configs" => [Configs!Next]_Configs!cvars
           /\ page = "fleet" => [Fleet!Next]_Fleet!fvars
           /\ page = "drawers" => [Drawer!Next]_Drawer!dvars
           /\ page = "audit" => [Audit!Next]_Audit!avars
           /\ page = "keys" => [Keys!Next]_Keys!kvars
           /\ page = "editor" => [Editor!Next]_Editor!evars
<1>1. CASE Next
    BY <1>1 DEF Next
<1>2. CASE UNCHANGED vars
    BY <1>2 DEF vars, Git!vars, GroupsP!vars, Configs!cvars, Configs!vars, Fleet!fvars,
       Fleet!vars, Drawer!dvars, Audit!avars, Keys!kvars, Editor!evars
<1> QED
    BY <1>1, <1>2

LEMMA NextConsole == ConsoleInv /\ [Next]_vars => ConsoleInv' /\ (page = "keys" => Keys!KeyStays)
<1> SUFFICES ASSUME ConsoleInv, [Next]_vars
             PROVE  ConsoleInv' /\ (page = "keys" => Keys!KeyStays)
    OBVIOUS
<1>1. ASSUME page = "git" PROVE (GitPr!PageInv)'
    <2>1. [Git!Next]_Git!vars /\ GitPr!PageInv
        BY <1>1, OwnSteps DEF ConsoleInv
    <2> QED
        BY <2>1, Fitting, SameGitSources, GitPr!NextPage
<1>2. ASSUME page = "groups" PROVE GroupsInv'
    <2>1. [GroupsP!Next]_GroupsP!vars /\ GroupsInv
        BY <1>2, OwnSteps DEF ConsoleInv
    <2> QED
        BY <2>1, Fitting, NextGroups
<1>3. ASSUME page = "configs" PROVE (ConfigsPr!ConfigsInv)'
    <2>1. [Configs!Next]_Configs!cvars /\ ConfigsPr!ConfigsInv
        BY <1>3, OwnSteps DEF ConsoleInv
    <2> QED
        BY <2>1, Fitting, SameConfigs, ConfigsPr!NextConfigs
<1>4. ASSUME page = "fleet" PROVE FleetInv'
    <2>1. [Fleet!Next]_Fleet!fvars /\ FleetInv
        BY <1>4, OwnSteps DEF ConsoleInv
    <2> QED
        BY <2>1, Fitting, NextFleet
<1>5. ASSUME page = "drawers" PROVE DrawerInv'
    <2>1. [Drawer!Next]_Drawer!dvars /\ DrawerInv
        BY <1>5, OwnSteps DEF ConsoleInv
    <2> QED
        BY <2>1, Fitting, NextDrawer
<1>6. ASSUME page = "audit" PROVE AuditInv'
    <2>1. [Audit!Next]_Audit!avars /\ AuditInv
        BY <1>6, OwnSteps DEF ConsoleInv
    <2> QED
        BY <2>1, Fitting, NextAudit
<1>7. ASSUME page = "keys" PROVE KeysInv' /\ Keys!KeyStays
    <2>1. [Keys!Next]_Keys!kvars /\ KeysInv
        BY <1>7, OwnSteps DEF ConsoleInv
    <2> QED
        BY <2>1, Fitting, NextKeys
<1>8. ASSUME page = "editor" PROVE EditorInv'
    <2>1. [Editor!Next]_Editor!evars /\ EditorInv
        BY <1>8, OwnSteps DEF ConsoleInv
    <2> QED
        BY <2>1, Fitting, NextEditor
<1> QED
    BY OwnSteps, <1>1, <1>2, <1>3, <1>4, <1>5, <1>6, <1>7, <1>8 DEF ConsoleInv

-----------------------------------------------------------------------------
(* The theorems                                                            *)

\* What the invariants say of a state.
LEMMA ConsoleIsRight ==
    ASSUME ConsoleInv
    PROVE  /\ TypeOK /\ PagesSeeOwnWrites /\ BusyIsTrue /\ UpdatesItsOwn
           /\ SendsOwnText /\ PageExists /\ VerdictIsCurrent /\ MarkersAreRight
<1>1. ASSUME page = "git" PROVE Git!TypeOK /\ Git!SeesOwnWrites /\ Git!BusyIsTrue
    BY <1>1, Fitting, SameGitSources, GitPr!PageTypes, GitPr!PageIsSeen, GitPr!PageIsBusy DEF ConsoleInv
<1>2. ASSUME page = "groups" PROVE GroupsP!TypeOK /\ GroupsP!SeesOwnWrites
    BY <1>2, Fitting, GroupsAreRight DEF ConsoleInv
<1>3. ASSUME page = "configs" PROVE Configs!TypeOK /\ Configs!SeesOwnWrites /\ Configs!BusyIsTrue /\ Configs!UpdatesItsOwn
    BY <1>3, Fitting, SameConfigs, ConfigsPr!ConfigsAreSeen, ConfigsPr!ConfigsAreBusy, ConfigsPr!ConfigsAreOwn DEF ConsoleInv, ConfigsPr!ConfigsInv
<1>4. ASSUME page = "fleet" PROVE Fleet!TypeOK /\ Fleet!BusyIsTrue
    BY <1>4, Fitting, FleetIsRight DEF ConsoleInv
<1>5. ASSUME page = "drawers" PROVE Drawer!TypeOK /\ Drawer!BusyIsTrue /\ Drawer!SendsOwnText
    BY <1>5, Fitting, DrawerBusy DEF ConsoleInv, DrawerInv
<1>6. ASSUME page = "audit" PROVE Audit!TypeOK /\ Audit!PageExists
    BY <1>6, Fitting, AuditIsRight DEF ConsoleInv
<1>7. ASSUME page = "keys" PROVE Keys!TypeOK
    BY <1>7 DEF ConsoleInv, KeysInv
<1>8. ASSUME page = "editor"
      PROVE  Editor!TypeOK /\ Editor!VerdictIsCurrent /\ Editor!MarkersAreRight
    BY <1>8, Fitting, EditorIsRight, MarkersFit DEF ConsoleInv
<1> QED
    BY <1>1, <1>2, <1>3, <1>4, <1>5, <1>6, <1>7, <1>8
    DEF TypeOK, PagesSeeOwnWrites, BusyIsTrue, UpdatesItsOwn, SendsOwnText, PageExists,
        VerdictIsCurrent, MarkersAreRight

\* The invariant of the console: each page's own, which together are inductive
\* since no step of a page touches another (App.tsx shows one page at a time).
THEOREM ConsoleInvariant == Spec => []ConsoleInv
<1>1. Init => ConsoleInv
    BY InitConsole
<1>2. ConsoleInv /\ [Next]_vars => ConsoleInv'
    BY NextConsole
<1> QED
    BY <1>1, <1>2, PTL DEF Spec

\* The state of every page, of what SWR holds for it and of its handlers keeps to
\* its types.
THEOREM ConsoleTypeCorrect == Spec => []TypeOK
<1>1. ConsoleInv => TypeOK
    BY ConsoleIsRight
<1> QED
    BY <1>1, ConsoleInvariant, PTL

\* At rest the tables of sources, groups and configurations show what their user
\* did last: mutate asks for the list after every write, and only the answer to
\* the request asked last is taken (ListPage: await mutate()).
THEOREM OwnWritesAreSeen == Spec => []PagesSeeOwnWrites
<1>1. ConsoleInv => PagesSeeOwnWrites
    BY ConsoleIsRight
<1> QED
    BY <1>1, ConsoleInvariant, PTL

\* On every page that disables a button or turns a spinner it does so only for a
\* handler of that page that is under way, those of an earlier visit left out; the
\* buttons that save, restart or send are disabled as long as theirs is, so that it
\* does not run twice.  Refresh and Sync Now may (GitSources.tsx, Configs.tsx,
\* Agents.tsx, the drawers: setSaving, setIsSaving, setSyncing, setRefreshing and
\* their finally clauses).
THEOREM ConsoleBusyIsTrue == Spec => []BusyIsTrue
<1>1. ConsoleInv => BusyIsTrue
    BY ConsoleIsRight
<1> QED
    BY <1>1, ConsoleInvariant, PTL

\* A new version of a configuration carries a text that was loaded from the
\* configuration it is a version of (Configs.tsx, handleSave).
THEOREM OwnTextsAreSaved == Spec => []UpdatesItsOwn
<1>1. ConsoleInv => UpdatesItsOwn
    BY ConsoleIsRight
<1> QED
    BY <1>1, ConsoleInvariant, PTL

\* A text that was typed for one agent is never sent to another, whichever agents
\* the one drawer is opened for and whenever their data arrive
\* (AgentConfigPipeline.tsx, handleSendConfig).
THEOREM OwnTextsAreSent == Spec => []SendsOwnText
<1>1. ConsoleInv => SendsOwnText
    BY ConsoleIsRight
<1> QED
    BY <1>1, ConsoleInvariant, PTL

\* The page of the audit log on screen has entries, and buttons to turn back from
\* it, however many events are recorded and whichever filter was chosen on the
\* way (AuditLog.tsx, handleFilterChange, totalPages).
THEOREM AuditPageExists == Spec => []PageExists
<1>1. ConsoleInv => PageExists
    BY ConsoleIsRight
<1> QED
    BY <1>1, ConsoleInvariant, PTL

\* When the debounced hooks of the editor are at rest its badges speak of the text
\* on screen, for every text, and say what is wrong with it
\* (ConfigEditorSideBySide.tsx, useYamlParser.ts, useYamlValidation.ts).
THEOREM BadgesAreCurrent == Spec => []VerdictIsCurrent
<1>1. ConsoleInv => VerdictIsCurrent
    BY ConsoleIsRight
<1> QED
    BY <1>1, ConsoleInvariant, PTL

\* When the debounced hooks of the editor are at rest its markers are those of the
\* text on screen, or it has none because that text came before Monaco had mounted:
\* markers are set by performValidation alone, which finds no editor until then
\* (useYamlValidation.ts, the guards of setModelMarkers).  And for every text and
\* every layout each complaint is marked under the keys that it is about, on the line
\* of the name where that has one of its own further right than the key of the
\* list, although the search follows the keys line by line and not as they are
\* nested.  Where a setting called service leads the search astray the mark is on line
\* 1 or on the section that the search has come to (yaml-position.ts).
THEOREM ComplaintsAreMarked == Spec => []MarkersAreRight
<1>1. ConsoleInv => MarkersAreRight
    BY ConsoleIsRight
<1> QED
    BY <1>1, ConsoleInvariant, PTL

\* A new key, which the server tells once, stays on screen until its dialog is
\* closed, also when an answer to an earlier request comes late (ApiKeys.tsx,
\* handleCreate).
THEOREM NewKeysStay == Spec => KeysAreShown
<1>1. ConsoleInv /\ [Next]_vars => [(page = "keys") => Keys!KeyStays]_vars
    BY NextConsole
<1> QED
    BY <1>1, ConsoleInvariant, PTL DEF Spec, KeysAreShown

\* An exception takes the console down only over a text of comments alone, or one
\* whose lists are not lists (PipelineGenerator.tsx, generatePipelineNodes).
THEOREM EditorSurvives == Spec => [](page = "editor" => Editor!SurvivesLists)
<1>1. ConsoleInv => (page = "editor" => Editor!SurvivesLists)
    BY EditorIsRight DEF ConsoleInv
<1> QED
    BY <1>1, ConsoleInvariant, PTL

\* However many pipelines a configuration has, and however many parts each, the
\* arrows of its drawing join boxes that are there, no two boxes overlap, and each
\* lies in the section of its pipeline (PipelineGenerator.tsx, currentY,
\* sectionHeight and getY).
THEOREM BoxesAreApart == Spec => [](page = "editor" => Editor!BoxesFit)
<1>1. ConsoleInv => (page = "editor" => Editor!BoxesFit)
    BY DrawingFits DEF ConsoleInv, EditorInv
<1> QED
    BY <1>1, ConsoleInvariant, PTL

\* From a receiver the arrows lead to the exporters of its pipeline and to no
\* others, to each of them through every processor, and to these in the order of
\* the text, wherever the names of pipelines and the processors of each are told
\* apart (PipelineGenerator.tsx, the edges of generatePipelineNodes).
THEOREM DrawingShowsTheFlow == Spec => [](page = "editor" => Editor!DrawsTheFlow)
<1>1. ConsoleInv => (page = "editor" => Editor!DrawsTheFlow)
    BY Fitting, DrawingFlows DEF ConsoleInv, EditorInv
<1> QED
    BY <1>1, ConsoleInvariant, PTL

\* The list of the agents is in its order and whole, on the canvas no box hides
\* another and every agent or group has its own, the counts of the groups add up,
\* and one drawer at most is open, for any agents and any number of them
\* (Agents.tsx, filteredAndSortedAgents; useTopologyLayout.ts; Topology.tsx).
THEOREM FleetIsShown == Spec => [](page = "fleet" => Fleet!ShowsTheFleet)
<1>1. ConsoleInv => (page = "fleet" => Fleet!ShowsTheFleet)
    BY Fitting, FleetIsRight DEF ConsoleInv
<1> QED
    BY <1>1, ConsoleInvariant, PTL

\* What is drawn or listed is what there is: the pipelines of the text on screen
\* (PipelineGenerator.tsx), the agents and groups of the last answer (Agents.tsx,
\* Topology.tsx).
THEOREM DrawingsAreFaithful == Spec => []DrawingIsFaithful
<1>1. (page = "editor" => Editor!SurvivesLists) /\ (page = "editor" => Editor!DrawsTheFlow)
        /\ (page = "editor" => Editor!BoxesFit) /\ (page = "fleet" => Fleet!ShowsTheFleet)
        => DrawingIsFaithful
    BY DEF DrawingIsFaithful, Editor!DrawingIsFaithful
<1> QED
    BY <1>1, EditorSurvives, DrawingShowsTheFlow, BoxesAreApart, FleetIsShown, PTL
=============================================================================
