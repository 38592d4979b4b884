------------------------ MODULE TerminalPanel_proofs ------------------------
(***************************************************************************)
(* Proofs about the terminal panel: PanelInv is inductive, and implies     *)
(* what the run checks of attachments and routes, for every number of      *)
(* terminals, attachments, PIDs and directories.                           *)
(*                                                                         *)
(* The hard case is OpenTerminal, which registers its PID even when the    *)
(* child has exited in the meantime and a later terminal was given the     *)
(* same PID.  That it cannot take the route of a living terminal rests on  *)
(* the order in which spawns resume (ReadyInOrder): the later terminal is  *)
(* still behind it in the queue, and registers after it.                   *)
(*                                                                         *)
(* The walk up the process tree is a recursive function.  That it exists,  *)
(* that it does not come back once it has left the tree, and that it has a *)
(* first hit all follow from one fact, that every nonempty set of natural  *)
(* numbers has a least element.                                            *)
(***************************************************************************)
EXTENDS TerminalPanel, WellFoundedInduction, TLAPS

\* What OpenTerminal and ReleaseView do to the routers keeps their type.
LEMMA RouterType ==
    ASSUME TypeOK, NEW t \in Terminal, NEW p, NEW a \in Att \cup {NoAtt},
           \/ UNCHANGED router
           \/ Copilot(a) /\ (Register(a, p, t) \/ Unregister(a, p, t))
    PROVE  router' \in [Att -> [Pid -> Terminal \cup {NoTerminal}]]
<1>1. CASE UNCHANGED router
  BY <1>1 DEF TypeOK
<1>2. ASSUME Copilot(a), NEW x \in Terminal \cup {NoTerminal},
             router' = [router EXCEPT ![a][p] = x]
      PROVE  router' \in [Att -> [Pid -> Terminal \cup {NoTerminal}]]
  <2>1. a \in Att /\ router[a] \in [Pid -> Terminal \cup {NoTerminal}]
    BY <1>2 DEF TypeOK, Copilot
  <2>2. [router[a] EXCEPT ![p] = x] \in [Pid -> Terminal \cup {NoTerminal}]
    BY <2>1
  <2> QED BY <1>2, <2>1, <2>2 DEF TypeOK
<1> QED BY <1>1, <1>2 DEF Register, Unregister

\* A terminal without an attachment.
LEMMA SpawnUnattachedInv ==
    ASSUME PanelInv, NEW t \in Terminal, SpawnUnattached(t)
    PROVE  PanelInv'
<1>1. TypeOK'
  BY DEF PanelInv, SpawnUnattached, Spawn, TypeOK, Key, Pending, OnScreen
<1>2. ChildrenHavePids'
  BY DEF PanelInv, SpawnUnattached, Spawn, ChildrenHavePids, OnScreen
<1>3. ReadySound'
  BY DEF PanelInv, SpawnUnattached, Spawn, ReadySound
<1>4. ReadyInOrder'
  BY DEF PanelInv, SpawnUnattached, Spawn, ReadyInOrder, OnScreen
<1>5. HeldByView'
  BY DEF PanelInv, SpawnUnattached, Spawn, HeldByView, OnScreen
<1>6. MadeFirst'
  BY DEF PanelInv, SpawnUnattached, Spawn, MadeFirst
<1>7. LiveTerminalKeepsRoute'
  BY DEF PanelInv, SpawnUnattached, Spawn, LiveTerminalKeepsRoute, Copilot,
     OnScreen
<1>8. SharedByKey'
  BY DEF PanelInv, SpawnUnattached, Spawn, TypeOK, SharedByKey, Copilot,
     Alive, Pending
<1> QED BY <1>1, <1>2, <1>3, <1>4, <1>5, <1>6, <1>7, <1>8 DEF PanelInv

\* A new attachment without a key: no index, no router.
LEMMA SpawnClaudeInv ==
    ASSUME PanelInv, NEW t \in Terminal, NEW a \in Att, SpawnClaude(t, a)
    PROVE  PanelInv'
<1>1. TypeOK'
  BY DEF PanelInv, SpawnClaude, Spawn, TypeOK, Key, Pending, OnScreen
<1>2. ChildrenHavePids'
  BY DEF PanelInv, SpawnClaude, Spawn, ChildrenHavePids, OnScreen
<1>3. ReadySound'
  BY DEF PanelInv, SpawnClaude, Spawn, ReadySound
<1>4. ReadyInOrder'
  BY DEF PanelInv, SpawnClaude, Spawn, ReadyInOrder, OnScreen
<1>5. HeldByView'
  BY DEF PanelInv, SpawnClaude, Spawn, HeldByView, OnScreen
<1>6. MadeFirst'
  BY DEF PanelInv, SpawnClaude, Spawn, TypeOK, MadeFirst
<1>7. LiveTerminalKeepsRoute'
  BY DEF PanelInv, SpawnClaude, Spawn, LiveTerminalKeepsRoute, Copilot,
     OnScreen
<1>8. SharedByKey'
  BY NoneAssumption DEF PanelInv, SpawnClaude, Spawn, TypeOK, SharedByKey,
     Copilot, Alive, Pending, HeldByView, MadeFirst, Key, ReadySound, OnScreen
<1> QED BY <1>1, <1>2, <1>3, <1>4, <1>5, <1>6, <1>7, <1>8 DEF PanelInv

\* The attachment that the index leads to is held once more.
LEMMA SpawnCopilotSharedInv ==
    ASSUME PanelInv, NEW t \in Terminal, NEW r \in Root, SpawnCopilotShared(t,
       r)
    PROVE  PanelInv'
<1>1. TypeOK'
  BY DEF PanelInv, SpawnCopilotShared, Spawn, WorkspaceKey, TypeOK, Key,
     Pending, OnScreen
<1>2. ChildrenHavePids'
  BY DEF PanelInv, SpawnCopilotShared, Spawn, ChildrenHavePids, OnScreen
<1>3. ReadySound'
  BY DEF PanelInv, SpawnCopilotShared, Spawn, ReadySound
<1>4. ReadyInOrder'
  BY DEF PanelInv, SpawnCopilotShared, Spawn, ReadyInOrder, OnScreen
<1>5. HeldByView'
  BY DEF PanelInv, SpawnCopilotShared, Spawn, HeldByView, OnScreen
<1>6. MadeFirst'
  BY NoneAssumption, KeyAssumption, ParentAssumption DEF PanelInv,
     SpawnCopilotShared, Spawn, WorkspaceKey, TypeOK, MadeFirst, Pending,
     OnScreen, Alive, Key, Copilot
<1>7. LiveTerminalKeepsRoute'
  BY DEF PanelInv, SpawnCopilotShared, Spawn, LiveTerminalKeepsRoute, Copilot,
     OnScreen
<1>8. SharedByKey'
  BY DEF PanelInv, SpawnCopilotShared, Spawn, WorkspaceKey, TypeOK,
     SharedByKey, Copilot, Alive, Pending
<1> QED BY <1>1, <1>2, <1>3, <1>4, <1>5, <1>6, <1>7, <1>8 DEF PanelInv

\* By SharedByKey no live attachment has the key, so none is pushed out.
LEMMA SpawnCopilotFreshInv ==
    ASSUME PanelInv, NEW t \in Terminal, NEW r \in Root, NEW a \in Att,
       SpawnCopilotFresh(t, r, a)
    PROVE  PanelInv'
<1>1. TypeOK'
  BY DEF PanelInv, SpawnCopilotFresh, Spawn, WorkspaceKey, TypeOK, Key,
     Pending, OnScreen
<1>2. ChildrenHavePids'
  BY DEF PanelInv, SpawnCopilotFresh, Spawn, ChildrenHavePids, OnScreen
<1>3. ReadySound'
  BY DEF PanelInv, SpawnCopilotFresh, Spawn, ReadySound
<1>4. ReadyInOrder'
  BY DEF PanelInv, SpawnCopilotFresh, Spawn, ReadyInOrder, OnScreen
<1>5. HeldByView'
  BY DEF PanelInv, SpawnCopilotFresh, Spawn, HeldByView, OnScreen
<1>6. MadeFirst'
  BY DEF PanelInv, SpawnCopilotFresh, Spawn, WorkspaceKey, TypeOK, MadeFirst
<1>7. LiveTerminalKeepsRoute'
  BY NoneAssumption DEF PanelInv, SpawnCopilotFresh, Spawn, WorkspaceKey,
     TypeOK, LiveTerminalKeepsRoute, Copilot, OnScreen, ReadySound,
     ReadyInOrder, ChildrenHavePids, MadeFirst, HeldByView, Pending
<1>8. SharedByKey'
  BY NoneAssumption DEF PanelInv, SpawnCopilotFresh, Spawn, WorkspaceKey,
     TypeOK, SharedByKey, Copilot, Alive, Pending, HeldByView, MadeFirst, Key,
     ReadySound, OnScreen
<1> QED BY <1>1, <1>2, <1>3, <1>4, <1>5, <1>6, <1>7, <1>8 DEF PanelInv

\* The entry that goes is dead.
LEMMA SpawnCopilotFailsInv ==
    ASSUME PanelInv, NEW t \in Terminal, NEW r \in Root, SpawnCopilotFails(t,
       r)
    PROVE  PanelInv'
<1>1. TypeOK'
  BY DEF PanelInv, SpawnCopilotFails, Spawn, TypeOK, Key, Pending, OnScreen
<1>2. ChildrenHavePids'
  BY DEF PanelInv, SpawnCopilotFails, Spawn, ChildrenHavePids, OnScreen
<1>3. ReadySound'
  BY DEF PanelInv, SpawnCopilotFails, Spawn, ReadySound
<1>4. ReadyInOrder'
  BY DEF PanelInv, SpawnCopilotFails, Spawn, ReadyInOrder, OnScreen
<1>5. HeldByView'
  BY DEF PanelInv, SpawnCopilotFails, Spawn, HeldByView, OnScreen
<1>6. MadeFirst'
  BY DEF PanelInv, SpawnCopilotFails, Spawn, MadeFirst
<1>7. LiveTerminalKeepsRoute'
  BY DEF PanelInv, SpawnCopilotFails, Spawn, LiveTerminalKeepsRoute, Copilot,
     OnScreen
<1>8. SharedByKey'
  BY DEF PanelInv, SpawnCopilotFails, Spawn, WorkspaceKey, TypeOK,
     SharedByKey, Copilot, Alive, Pending
<1> QED BY <1>1, <1>2, <1>3, <1>4, <1>5, <1>6, <1>7, <1>8 DEF PanelInv

\* The PID was free, so no living child has it.
LEMMA CreateTerminalInv ==
    ASSUME PanelInv, NEW t \in Terminal, NEW p \in Pid, CreateTerminal(t, p)
    PROVE  PanelInv'
<1>1. TypeOK'
  BY DEF PanelInv, CreateTerminal, panelVars, TypeOK, Key, Pending, OnScreen
<1>2. ChildrenHavePids'
  BY NoneAssumption, KeyAssumption, ParentAssumption DEF PanelInv,
     CreateTerminal, panelVars, TypeOK, ChildrenHavePids, OnScreen,
     ReadySound, Pending, Alive, Key, Copilot
<1>3. ReadySound'
  <2>1. /\ ready \in Seq(Terminal) /\ ready' = Append(ready, t)
        /\ view[t] = "spawning" /\ view' = [view EXCEPT ![t] = "created"]
        /\ view \in [Terminal -> {"unused", "closed"} \cup Pending \cup OnScreen]
    BY DEF PanelInv, TypeOK, CreateTerminal
  <2>2. \A i \in 1..Len(ready) : ready[i] \in Terminal \ {t} /\ ready'[i] = ready[i]
    BY <2>1 DEF PanelInv, ReadySound
  <2>3. Len(ready') = Len(ready) + 1 /\ ready'[Len(ready) + 1] = t /\ Len(ready) \in Nat
    BY <2>1
  <2>4. \A i \in 1..Len(ready') : i \in 1..Len(ready) \/ i = Len(ready) + 1
    BY <2>3
  <2>5. \A i \in 1..Len(ready') : view'[ready'[i]] = "created"
    BY <2>1, <2>2, <2>3, <2>4 DEF PanelInv, ReadySound
  <2>6. \A i, j \in 1..Len(ready') : ready'[i] = ready'[j] => i = j
    BY <2>2, <2>3, <2>4 DEF PanelInv, ReadySound
  <2> QED BY <2>5, <2>6 DEF ReadySound
<1>4. ReadyInOrder'
  BY NoneAssumption DEF PanelInv, CreateTerminal, panelVars, TypeOK,
     ReadyInOrder, OnScreen, ReadySound, ChildrenHavePids, Pending
<1>5. HeldByView'
  BY DEF PanelInv, CreateTerminal, panelVars, HeldByView, OnScreen
<1>6. MadeFirst'
  BY DEF PanelInv, CreateTerminal, panelVars, MadeFirst
<1>7. LiveTerminalKeepsRoute'
  BY DEF PanelInv, CreateTerminal, panelVars, LiveTerminalKeepsRoute, Copilot,
     OnScreen
<1>8. SharedByKey'
  BY DEF PanelInv, CreateTerminal, panelVars, SharedByKey, Copilot, Alive,
     Pending
<1> QED BY <1>1, <1>2, <1>3, <1>4, <1>5, <1>6, <1>7, <1>8 DEF PanelInv

\* The closure lets go of its attachment.
LEMMA SpawnFailsInv ==
    ASSUME PanelInv, NEW t \in Terminal, SpawnFails(t)
    PROVE  PanelInv'
<1>1. TypeOK'
  BY DEF PanelInv, SpawnFails, panelVars, TypeOK, Key, Pending, OnScreen
<1>2. ChildrenHavePids'
  BY DEF PanelInv, SpawnFails, panelVars, ChildrenHavePids, OnScreen
<1>3. ReadySound'
  BY DEF PanelInv, SpawnFails, panelVars, ReadySound
<1>4. ReadyInOrder'
  BY DEF PanelInv, SpawnFails, panelVars, ReadyInOrder, OnScreen
<1>5. HeldByView'
  BY DEF PanelInv, SpawnFails, panelVars, HeldByView, OnScreen
<1>6. MadeFirst'
  BY DEF PanelInv, SpawnFails, panelVars, MadeFirst
<1>7. LiveTerminalKeepsRoute'
  BY DEF PanelInv, SpawnFails, panelVars, LiveTerminalKeepsRoute, Copilot,
     OnScreen
<1>8. SharedByKey'
  BY DEF PanelInv, SpawnFails, panelVars, SharedByKey, Copilot, Alive, Pending
<1> QED BY <1>1, <1>2, <1>3, <1>4, <1>5, <1>6, <1>7, <1>8 DEF PanelInv

\* Without a panel there is nothing to index.
LEMMA SpawnAbortedInv ==
    ASSUME PanelInv, NEW t \in Terminal, SpawnAborted(t)
    PROVE  PanelInv'
<1>1. TypeOK'
  BY DEF PanelInv, SpawnAborted, panelVars, Resume, TypeOK, Key, Pending,
     OnScreen
<1>2. ChildrenHavePids'
  BY DEF PanelInv, SpawnAborted, panelVars, Resume, ChildrenHavePids, OnScreen
<1>3. ReadySound'
  BY DEF PanelInv, SpawnAborted, panelVars, Resume, ReadySound
<1>4. ReadyInOrder'
  BY DEF PanelInv, SpawnAborted, panelVars, Resume, ReadyInOrder, OnScreen
<1>5. HeldByView'
  BY NoneAssumption, SMTT(30) DEF PanelInv, SpawnAborted, panelVars, Resume, TypeOK,
     HeldByView, OnScreen, ReadySound, Pending
<1>6. MadeFirst'
  BY DEF PanelInv, SpawnAborted, panelVars, Resume, MadeFirst
<1>7. LiveTerminalKeepsRoute'
  BY DEF PanelInv, SpawnAborted, panelVars, Resume, LiveTerminalKeepsRoute,
     Copilot, OnScreen
<1>8. SharedByKey'
  BY DEF PanelInv, SpawnAborted, panelVars, Resume, SharedByKey, Copilot,
     Alive, Pending
<1> QED BY <1>1, <1>2, <1>3, <1>4, <1>5, <1>6, <1>7, <1>8 DEF PanelInv

\* The head of ready takes its PID from no living child (ReadyInOrder).
LEMMA OpenTerminalInv ==
    ASSUME PanelInv, NEW t \in Terminal, OpenTerminal(t)
    PROVE  PanelInv'
<1>1. TypeOK'
  <2>1. router' \in [Att -> [Pid -> Terminal \cup {NoTerminal}]]
    <3> DEFINE a == attachment[t]
    <3>1. a \in Att \cup {NoAtt}
      BY DEF PanelInv, TypeOK
    <3>2. UNCHANGED router \/ (Copilot(a) /\ Register(a, pid[t], t))
      BY DEF OpenTerminal
    <3> HIDE DEF a
    <3> QED BY <3>1, <3>2, RouterType DEF PanelInv
  <2>2. ready' \in Seq(Terminal)
    BY DEF PanelInv, TypeOK, OpenTerminal, Resume
  <2>3. /\ view' \in [Terminal -> {"unused", "closed"} \cup Pending \cup OnScreen]
        /\ attachments' \in [Terminal -> Att \cup {NoAtt}]
    BY DEF PanelInv, TypeOK, OpenTerminal, OnScreen
  <2> QED BY <2>1, <2>2, <2>3 DEF PanelInv, TypeOK, OpenTerminal
<1>2. ChildrenHavePids'
  BY NoneAssumption DEF PanelInv, OpenTerminal, Resume, Register, Copilot,
     TypeOK, ChildrenHavePids, OnScreen, ReadySound, Pending
<1>3. ReadySound'
  BY DEF PanelInv, OpenTerminal, Resume, ReadySound
<1>4. ReadyInOrder'
  BY DEF PanelInv, OpenTerminal, Resume, ReadyInOrder, OnScreen
<1>5. HeldByView'
  BY DEF PanelInv, OpenTerminal, Resume, Register, Copilot, TypeOK,
     HeldByView, OnScreen
<1>6. MadeFirst'
  BY DEF PanelInv, OpenTerminal, Resume, MadeFirst
<1>7. LiveTerminalKeepsRoute'
  BY NoneAssumption DEF PanelInv, OpenTerminal, Resume, Register, Copilot,
     TypeOK, LiveTerminalKeepsRoute, OnScreen, ReadySound, ReadyInOrder,
     ChildrenHavePids, MadeFirst, HeldByView, Pending
<1>8. SharedByKey'
  BY NoneAssumption DEF PanelInv, OpenTerminal, Resume, Register, Copilot,
     TypeOK, SharedByKey, Alive, Pending, HeldByView, MadeFirst, Key,
     ReadySound, OnScreen
<1> QED BY <1>1, <1>2, <1>3, <1>4, <1>5, <1>6, <1>7, <1>8 DEF PanelInv

\* The tab stays on screen until its view is released.
LEMMA HandleExitInv ==
    ASSUME PanelInv, NEW t \in Terminal, HandleExit(t)
    PROVE  PanelInv'
<1>1. TypeOK'
  BY DEF PanelInv, HandleExit, panelVars, TypeOK, Key, Pending, OnScreen
<1>2. ChildrenHavePids'
  BY DEF PanelInv, HandleExit, panelVars, ChildrenHavePids, OnScreen
<1>3. ReadySound'
  BY DEF PanelInv, HandleExit, panelVars, ReadySound
<1>4. ReadyInOrder'
  BY DEF PanelInv, HandleExit, panelVars, ReadyInOrder, OnScreen
<1>5. HeldByView'
  BY DEF PanelInv, HandleExit, panelVars, HeldByView, OnScreen
<1>6. MadeFirst'
  BY DEF PanelInv, HandleExit, panelVars, MadeFirst
<1>7. LiveTerminalKeepsRoute'
  BY DEF PanelInv, HandleExit, panelVars, LiveTerminalKeepsRoute, Copilot,
     OnScreen
<1>8. SharedByKey'
  BY DEF PanelInv, HandleExit, panelVars, SharedByKey, Copilot, Alive, Pending
<1> QED BY <1>1, <1>2, <1>3, <1>4, <1>5, <1>6, <1>7, <1>8 DEF PanelInv

\* As before.
LEMMA CloseTabInv ==
    ASSUME PanelInv, NEW t \in Terminal, CloseTab(t)
    PROVE  PanelInv'
<1>1. TypeOK'
  BY DEF PanelInv, CloseTab, panelVars, TypeOK, Key, Pending, OnScreen
<1>2. ChildrenHavePids'
  BY DEF PanelInv, CloseTab, panelVars, ChildrenHavePids, OnScreen
<1>3. ReadySound'
  BY DEF PanelInv, CloseTab, panelVars, ReadySound
<1>4. ReadyInOrder'
  BY DEF PanelInv, CloseTab, panelVars, ReadyInOrder, OnScreen
<1>5. HeldByView'
  BY DEF PanelInv, CloseTab, panelVars, HeldByView, OnScreen
<1>6. MadeFirst'
  BY DEF PanelInv, CloseTab, panelVars, MadeFirst
<1>7. LiveTerminalKeepsRoute'
  BY DEF PanelInv, CloseTab, panelVars, LiveTerminalKeepsRoute, Copilot,
     OnScreen
<1>8. SharedByKey'
  BY DEF PanelInv, CloseTab, panelVars, SharedByKey, Copilot, Alive, Pending
<1> QED BY <1>1, <1>2, <1>3, <1>4, <1>5, <1>6, <1>7, <1>8 DEF PanelInv

\* Unregister removes the terminal's own entry only, prune the dead only.
LEMMA ReleaseViewInv ==
    ASSUME PanelInv, NEW t \in Terminal, ReleaseView(t)
    PROVE  PanelInv'
<1>1. TypeOK'
  <2>1. router' \in [Att -> [Pid -> Terminal \cup {NoTerminal}]]
    <3> DEFINE a == attachment[t]
    <3>1. a \in Att \cup {NoAtt}
      BY DEF PanelInv, TypeOK
    <3>2. UNCHANGED router \/ (Copilot(a) /\ Unregister(a, pid[t], t))
      BY DEF ReleaseView
    <3> HIDE DEF a
    <3> QED BY <3>1, <3>2, RouterType DEF PanelInv
  <2>2. byWorkspace' \in [Key -> Att \cup {NoAtt}]
    BY DEF PanelInv, TypeOK, ReleaseView, PruneDead
  <2>3. /\ view' \in [Terminal -> {"unused", "closed"} \cup Pending \cup OnScreen]
        /\ attachments' \in [Terminal -> Att \cup {NoAtt}]
    BY DEF PanelInv, TypeOK, ReleaseView
  <2> QED BY <2>1, <2>2, <2>3 DEF PanelInv, TypeOK, ReleaseView
<1>2. ChildrenHavePids'
  BY DEF PanelInv, ReleaseView, ChildrenHavePids, OnScreen
<1>3. ReadySound'
  BY DEF PanelInv, ReleaseView, ReadySound
<1>4. ReadyInOrder'
  BY DEF PanelInv, ReleaseView, ReadyInOrder, OnScreen
<1>5. HeldByView'
  BY DEF PanelInv, ReleaseView, Unregister, PruneDead, Copilot, TypeOK,
     HeldByView, OnScreen
<1>6. MadeFirst'
  BY DEF PanelInv, ReleaseView, Unregister, PruneDead, Copilot, MadeFirst
<1>7. LiveTerminalKeepsRoute'
  <2> SUFFICES ASSUME NEW u \in Terminal, view'[u] \in OnScreen,
                      child[u] = "running", Copilot(attachment[u])
               PROVE  router'[attachment[u]][pid[u]] = u
    BY DEF LiveTerminalKeepsRoute, ReleaseView, Copilot
  <2>1. u # t /\ view[u] \in OnScreen
    BY DEF PanelInv, TypeOK, ReleaseView, OnScreen
  <2>2. router[attachment[u]][pid[u]] = u
    BY <2>1 DEF PanelInv, LiveTerminalKeepsRoute
  <2>3. CASE router' = router
    BY <2>2, <2>3
  <2>4. CASE /\ router[attachment[t]][pid[t]] = t
             /\ router' = [router EXCEPT ![attachment[t]][pid[t]] = NoTerminal]
    <3>1. attachment[u] # attachment[t] \/ pid[u] # pid[t]
      BY <2>1, <2>2, <2>4
    <3>2. attachment[u] \in Att
      BY DEF Copilot
    <3> QED BY <2>2, <2>4, <3>1, <3>2 DEF PanelInv, TypeOK
  <2> QED BY <2>3, <2>4 DEF ReleaseView, Unregister
<1>8. SharedByKey'
  BY DEF PanelInv, ReleaseView, Unregister, PruneDead, Copilot, TypeOK,
     SharedByKey, Alive, Pending
<1> QED BY <1>1, <1>2, <1>3, <1>4, <1>5, <1>6, <1>7, <1>8 DEF PanelInv

\* Nothing is on screen, and nothing held, any more.
LEMMA PanelDroppedInv ==
    ASSUME PanelInv, PanelDropped
    PROVE  PanelInv'
<1>1. TypeOK'
  BY DEF PanelInv, PanelDropped, TypeOK, Key, Pending, OnScreen
<1>2. ChildrenHavePids'
  BY DEF PanelInv, PanelDropped, ChildrenHavePids, OnScreen
<1>3. ReadySound'
  BY NoneAssumption DEF PanelInv, PanelDropped, TypeOK, ReadySound, Pending,
     OnScreen
<1>4. ReadyInOrder'
  BY DEF PanelInv, PanelDropped, ReadyInOrder, OnScreen
<1>5. HeldByView'
  BY DEF PanelInv, PanelDropped, HeldByView, OnScreen
<1>6. MadeFirst'
  BY DEF PanelInv, PanelDropped, MadeFirst
<1>7. LiveTerminalKeepsRoute'
  BY DEF PanelInv, PanelDropped, LiveTerminalKeepsRoute, Copilot, OnScreen
<1>8. SharedByKey'
  BY DEF PanelInv, PanelDropped, SharedByKey, Copilot, Alive, Pending
<1> QED BY <1>1, <1>2, <1>3, <1>4, <1>5, <1>6, <1>7, <1>8 DEF PanelInv

\* Tabs change panes, and nothing else changes.
LEMMA LayoutInv ==
    ASSUME PanelInv, EnterTileMode \/ LeaveTileMode \/ \E t \in Terminal : DragTab(t)
    PROVE  PanelInv'
<1>1. UNCHANGED <<spawnVars, attachments, byWorkspace, router, made, keyOf, saved, panelUp, parent>>
  BY DEF EnterTileMode, LeaveTileMode, DragTab
<1>2. tiled' \in BOOLEAN /\ displaced' \subseteq Terminal
  BY DEF PanelInv, TypeOK, EnterTileMode, LeaveTileMode, DragTab, Tabs
<1>3. TypeOK'
  BY <1>1, <1>2 DEF PanelInv, TypeOK, spawnVars, Key
<1>4. ChildrenHavePids' /\ ReadySound' /\ ReadyInOrder' /\ HeldByView' /\ MadeFirst'
  BY <1>1 DEF PanelInv, spawnVars, ChildrenHavePids, ReadySound, ReadyInOrder,
     HeldByView, MadeFirst
<1>5. LiveTerminalKeepsRoute' /\ SharedByKey'
  BY <1>1 DEF PanelInv, spawnVars, LiveTerminalKeepsRoute, Copilot, SharedByKey, Alive
<1> QED BY <1>3, <1>4, <1>5 DEF PanelInv

\* A PID that was free belongs to no living child.
LEMMA ForkInv ==
    ASSUME PanelInv, NEW p \in Pid, NEW q \in Pid, Fork(p, q)
    PROVE  PanelInv'
<1>1. ReadySound' /\ ReadyInOrder' /\ HeldByView' /\ MadeFirst' /\
   LiveTerminalKeepsRoute' /\ SharedByKey'
  BY DEF PanelInv, Fork, panelVars, spawnVars, ReadySound, ReadyInOrder,
     OnScreen, HeldByView, MadeFirst, LiveTerminalKeepsRoute, Copilot,
     SharedByKey, Alive, Pending
<1>2. TypeOK'
  BY DEF PanelInv, Fork, panelVars, spawnVars, TypeOK, Key, Pending, OnScreen
<1>3. ChildrenHavePids'
  BY DEF PanelInv, Fork, panelVars, spawnVars, ChildrenHavePids, OnScreen
<1> QED BY <1>1, <1>2, <1>3 DEF PanelInv

\* The child whose PID is freed is not running any more.
LEMMA ProcessExitsInv ==
    ASSUME PanelInv, NEW p \in Pid, ProcessExits(p)
    PROVE  PanelInv'
<1>1. ReadySound' /\ HeldByView' /\ MadeFirst' /\ SharedByKey'
  BY DEF PanelInv, ProcessExits, panelVars, ReadySound, HeldByView, OnScreen,
     MadeFirst, SharedByKey, Copilot, Alive, Pending
<1>2. TypeOK'
  BY DEF PanelInv, ProcessExits, panelVars, TypeOK, Key, Pending, OnScreen
<1>3. ChildrenHavePids'
  BY NoneAssumption, KeyAssumption, ParentAssumption DEF PanelInv,
     ProcessExits, panelVars, TypeOK, ChildrenHavePids, OnScreen, ReadySound,
     Pending, Alive, Key, Copilot
<1>4. ReadyInOrder'
  BY DEF PanelInv, ProcessExits, panelVars, TypeOK, ReadyInOrder, OnScreen
<1>5. LiveTerminalKeepsRoute'
  BY DEF PanelInv, ProcessExits, panelVars, LiveTerminalKeepsRoute, Copilot,
     OnScreen
<1> QED BY <1>1, <1>2, <1>3, <1>4, <1>5 DEF PanelInv

-----------------------------------------------------------------------------
\* The empty panel satisfies the invariant.
LEMMA InitPanel == Init => PanelInv
<1> SUFFICES ASSUME Init PROVE PanelInv
  OBVIOUS
<1>1. TypeOK
  BY DEF Init, TypeOK, Key, Pending
<1>2. ChildrenHavePids /\ ReadySound /\ ReadyInOrder
  BY DEF Init, ChildrenHavePids, ReadySound, ReadyInOrder, OnScreen
<1>3. HeldByView /\ MadeFirst /\ LiveTerminalKeepsRoute /\ SharedByKey
  BY DEF Init, HeldByView, MadeFirst, LiveTerminalKeepsRoute, SharedByKey,
     OnScreen, Copilot
<1> QED BY <1>1, <1>2, <1>3 DEF PanelInv

\* A step that leaves every variable alone preserves the invariant.
LEMMA StutterPanel == PanelInv /\ UNCHANGED vars => PanelInv'
<1> SUFFICES ASSUME PanelInv, UNCHANGED vars PROVE PanelInv'
  OBVIOUS
<1> USE DEF vars, spawnVars, panelVars, PanelInv
<1>1. TypeOK'
  BY DEF TypeOK, Key
<1>2. ChildrenHavePids' /\ ReadySound' /\ ReadyInOrder' /\ HeldByView' /\ MadeFirst'
  BY DEF ChildrenHavePids, ReadySound, ReadyInOrder, HeldByView, MadeFirst
<1>3. LiveTerminalKeepsRoute' /\ SharedByKey'
  BY DEF LiveTerminalKeepsRoute, SharedByKey, Copilot, Alive
<1> QED BY <1>1, <1>2, <1>3

\* Every step of the panel, its user and the operating system preserves it.
LEMMA NextPanel == PanelInv /\ [Next]_vars => PanelInv'
<1> SUFFICES ASSUME PanelInv, [Next]_vars PROVE PanelInv'
  OBVIOUS
<1>1. CASE Next
  <2>1. ASSUME NEW t \in Terminal, SpawnUnattached(t)
        PROVE  PanelInv'
    BY <2>1, SpawnUnattachedInv
  <2>2. ASSUME NEW t \in Terminal, NEW a \in Att, SpawnClaude(t, a)
        PROVE  PanelInv'
    BY <2>2, SpawnClaudeInv
  <2>3. ASSUME NEW t \in Terminal, NEW r \in Root, SpawnCopilotShared(t, r)
        PROVE  PanelInv'
    BY <2>3, SpawnCopilotSharedInv
  <2>4. ASSUME NEW t \in Terminal, NEW r \in Root, NEW a \in Att,
     SpawnCopilotFresh(t, r, a)
        PROVE  PanelInv'
    BY <2>4, SpawnCopilotFreshInv
  <2>5. ASSUME NEW t \in Terminal, NEW r \in Root, SpawnCopilotFails(t, r)
        PROVE  PanelInv'
    BY <2>5, SpawnCopilotFailsInv
  <2>6. ASSUME NEW t \in Terminal, NEW p \in Pid, CreateTerminal(t, p)
        PROVE  PanelInv'
    BY <2>6, CreateTerminalInv
  <2>7. ASSUME NEW t \in Terminal, SpawnFails(t)
        PROVE  PanelInv'
    BY <2>7, SpawnFailsInv
  <2>8. ASSUME NEW t \in Terminal, SpawnAborted(t)
        PROVE  PanelInv'
    BY <2>8, SpawnAbortedInv
  <2>9. ASSUME NEW t \in Terminal, OpenTerminal(t)
        PROVE  PanelInv'
    BY <2>9, OpenTerminalInv
  <2>10. ASSUME NEW t \in Terminal, HandleExit(t)
        PROVE  PanelInv'
    BY <2>10, HandleExitInv
  <2>11. ASSUME NEW t \in Terminal, CloseTab(t)
        PROVE  PanelInv'
    BY <2>11, CloseTabInv
  <2>12. ASSUME NEW t \in Terminal, ReleaseView(t)
        PROVE  PanelInv'
    BY <2>12, ReleaseViewInv
  <2>13. CASE PanelDropped
    BY <2>13, PanelDroppedInv
  <2>14. ASSUME NEW p \in Pid, NEW q \in Pid, Fork(p, q)
        PROVE  PanelInv'
    BY <2>14, ForkInv
  <2>15. ASSUME NEW p \in Pid, ProcessExits(p)
        PROVE  PanelInv'
    BY <2>15, ProcessExitsInv
  <2>16. CASE EnterTileMode \/ LeaveTileMode \/ \E t \in Terminal : DragTab(t)
    BY <2>16, LayoutInv
  <2> QED BY <1>1, <2>1, <2>2, <2>3, <2>4, <2>5, <2>6, <2>7, <2>8, <2>9,
     <2>10, <2>11, <2>12, <2>13, <2>14, <2>15, <2>16 DEF Next, PanelStep
<1>2. CASE UNCHANGED vars
  BY <1>2, StutterPanel
<1> QED BY <1>1, <1>2

\* The panel, its routers and the process table keep their inductive invariant,
\* for any number of terminals, attachments, PIDs and directories.
THEOREM PanelInvariance == Spec => []PanelInv
BY InitPanel, NextPanel, PTL DEF Spec

\* The maps of the panel and of the routers keep their types.
THEOREM PanelTypeCorrect == Spec => []TypeOK
<1>1. PanelInv => TypeOK
  BY DEF PanelInv
<1> QED BY <1>1, PanelInvariance, PTL

\* register and unregister, under any reuse of PIDs, leave the route of a living
\* terminal alone.
THEOREM LiveTerminalsKeepRoutes == Spec => []LiveTerminalKeepsRoute
<1>1. PanelInv => LiveTerminalKeepsRoute
  BY DEF PanelInv
<1> QED BY <1>1, PanelInvariance, PTL

\* The panel never holds an attachment that none of its spawns or tabs is for.
THEOREM AttachmentsHaveTerminals == Spec => []AttachmentHasTerminal
<1>1. PanelInv => AttachmentHasTerminal
  BY DEF PanelInv, HeldByView, AttachmentHasTerminal, Alive
<1> QED BY <1>1, PanelInvariance, PTL

\* prepare_copilot_attachment and the pruning on release: one live attachment
\* per workspace key.
THEOREM AttachmentsAreShared == Spec => []SharedByKey
<1>1. PanelInv => SharedByKey
  BY DEF PanelInv
<1> QED BY <1>1, PanelInvariance, PTL

-----------------------------------------------------------------------------
(* The walk up the process table. *)

\* A nonempty set of numbers has a least one, which is all the walk needs of
\* induction.
LEMMA LeastNumber ==
    ASSUME NEW T, T \subseteq Nat, T # {}
    PROVE  \E m \in T : \A k \in T : m <= k
<1> DEFINE LessRel == {ss \in Nat \X Nat : ss[1] < ss[2]}
<1>0. IsWellFoundedOn(LessRel, Nat)
  BY NatLessThanWellFounded DEF OpToRel
<1>1. PICK m \in T : \A y \in T : ~(<<y,m>> \in LessRel)
  BY <1>0, WFMin
<1>2. \A y \in T : ~(y < m)
  BY <1>1
<1> QED BY <1>2

\* A set with 0 that is closed under successors has every number.
LEMMA EveryNumber ==
    ASSUME NEW S, 0 \in S, \A n \in Nat : n \in S => n + 1 \in S
    PROVE  \A n \in Nat : n \in S
<1> SUFFICES ASSUME NEW x \in Nat, x \notin S PROVE FALSE
  OBVIOUS
<1>1. PICK m \in Nat \ S : \A k \in Nat \ S : m <= k
  BY LeastNumber
<1>2. m # 0
  OBVIOUS
<1>3. m - 1 \in Nat /\ m - 1 \in S /\ m = (m - 1) + 1
  BY <1>1, <1>2
<1> QED BY <1>1, <1>3

\* The walk exists, and each of its steps is one of parent_of.
LEMMA AncestorSteps ==
    ASSUME NEW q
    PROVE  \A n \in 0..MaxHops :
              Ancestor(q)[n] =
                 IF n = 0 THEN q
                 ELSE IF Ancestor(q)[n-1] \in Pid /\ parent[Ancestor(q)[n-1]] \in Pid
                      THEN parent[Ancestor(q)[n-1]] ELSE Outside
<1> DEFINE Up(x) == IF x \in Pid /\ parent[x] \in Pid THEN parent[x] ELSE Outside
           Is(f, k) == f = [n \in 0..k |-> IF n = 0 THEN q ELSE Up(f[n-1])]
           S == {k \in Nat : \E f : Is(f, k)}
<1>1. 0 \in S
  <2>1. Is([n \in 0..0 |-> q], 0)
    <3> HIDE DEF Up
    <3> QED OBVIOUS
  <2> QED BY <2>1
<1>2. ASSUME NEW k \in Nat, k \in S PROVE k + 1 \in S
  <2>1. PICK f : Is(f, k)
    BY <1>2
  <2> DEFINE g == [n \in 0..(k + 1) |-> IF n = k + 1 THEN Up(f[k]) ELSE f[n]]
  <2>2. \A n \in 0..(k + 1) : g[n] = IF n = 0 THEN q ELSE Up(g[n-1])
    <3> SUFFICES ASSUME NEW n \in 0..(k + 1) PROVE g[n] = IF n = 0 THEN q ELSE Up(g[n-1])
      OBVIOUS
    <3> HIDE DEF Up
    <3>1. \A i \in 0..k : f[i] = IF i = 0 THEN q ELSE Up(f[i-1])
      BY <2>1
    <3>2. \A i \in 0..k : g[i] = f[i]
      OBVIOUS
    <3>3. g[k + 1] = Up(f[k])
      OBVIOUS
    <3> HIDE DEF g
    <3>4. CASE n = k + 1
      BY <3>2, <3>3, <3>4
    <3>5. CASE n \in 0..k
      <4>1. n # 0 => n - 1 \in 0..k
        BY <3>5
      <4> QED BY <3>1, <3>2, <3>5, <4>1
    <3> QED BY <3>4, <3>5
  <2>3. g = [n \in 0..(k + 1) |-> g[n]]
    OBVIOUS
  <2>4. Is(g, k + 1)
    <3> HIDE DEF Up
    <3>1. [n \in 0..(k + 1) |-> g[n]] = [n \in 0..(k + 1) |-> IF n = 0 THEN q ELSE Up(g[n-1])]
      <4> HIDE DEF g
      <4> QED BY <2>2
    <3> HIDE DEF g
    <3> QED BY <2>3, <3>1
  <2>5. \E h : Is(h, k + 1)
    <3> HIDE DEF g, Is
    <3> QED BY <2>4
  <2> HIDE DEF Is
  <2> QED BY <2>5
<1>3. \E f : Is(f, MaxHops)
  <2>1. MaxHops \in S
    <3> HIDE DEF S
    <3> QED BY <1>1, <1>2, EveryNumber, MaxHopsAssumption
  <2> QED BY <2>1
<1>4. Ancestor(q) = CHOOSE f : Is(f, MaxHops)
  BY DEF Ancestor
<1>5. Is(Ancestor(q), MaxHops)
  <2> HIDE DEF Is
  <2> QED BY <1>3, <1>4
<1>6. \A n \in 0..MaxHops : Ancestor(q)[n] = IF n = 0 THEN q ELSE Up(Ancestor(q)[n-1])
  <2> HIDE DEF Up
  <2> QED BY <1>5
<1> QED BY <1>6

\* Once the walk has left the process tree it does not come back.
LEMMA OutsideStays ==
    ASSUME NEW q, NEW m \in 0..MaxHops, Ancestor(q)[m] = Outside
    PROVE  \A n \in m..MaxHops : Ancestor(q)[n] = Outside
<1> DEFINE at == Ancestor(q)
           S == {k \in Nat : m + k <= MaxHops => at[m + k] = Outside}
<1>0. MaxHops \in Nat /\ m \in Nat /\ Outside \notin Pid
  BY MaxHopsAssumption, ParentAssumption
<1>1. \A n \in 0..MaxHops : n # 0 /\ at[n-1] = Outside => at[n] = Outside
  BY <1>0, AncestorSteps
<1> HIDE DEF at
<1>2. 0 \in S
  BY <1>0 DEF at
<1>3. ASSUME NEW k \in Nat, k \in S PROVE k + 1 \in S
  <2> SUFFICES ASSUME m + (k + 1) <= MaxHops PROVE at[m + (k + 1)] = Outside
    OBVIOUS
  <2>1. at[m + k] = Outside
    BY <1>0, <1>3
  <2>2. m + (k + 1) \in 0..MaxHops /\ m + (k + 1) # 0 /\ (m + (k + 1)) - 1 = m + k
    BY <1>0
  <2> QED BY <1>1, <2>1, <2>2
<1>4. \A k \in Nat : k \in S
  <2> HIDE DEF S
  <2> QED BY <1>2, <1>3, EveryNumber
<1> SUFFICES ASSUME NEW n \in m..MaxHops PROVE at[n] = Outside
  BY DEF at
<1>5. n - m \in Nat /\ m + (n - m) = n /\ n <= MaxHops
  BY <1>0
<1> QED BY <1>4, <1>5

\* What the walk finds first is the terminal of the child it comes to, or one
\* that has exited: above a living child there is no other.
LEMMA RoutedHomeHolds == PanelInv /\ RouteInv => RoutedHome
<1> SUFFICES ASSUME PanelInv, RouteInv, NEW t \in Terminal, NEW q \in Pid,
                    view[t] \in OnScreen, child[t] = "running", Copilot(attachment[t]),
                    NEW N \in 0..(MaxHops - 1), Ancestor(q)[N] = pid[t]
             PROVE  LET u == TerminalFor(attachment[t], q) IN
                    u # NoTerminal /\ (u = t \/ child[u] # "running")
  BY DEF RoutedHome
<1> DEFINE a == attachment[t]
           at == Ancestor(q)
           hit == {n \in 0..(MaxHops - 1) : at[n] \in Pid /\ router[a][at[n]] # NoTerminal}
<1>1. TypeOK /\ LiveTerminalKeepsRoute /\ ChildrenHavePids /\ MaxHops \in Nat \ {0} /\ a \in Att
  BY MaxHopsAssumption DEF PanelInv, Copilot
<1>2. pid[t] \in Pid /\ router[a][pid[t]] = t /\ t # NoTerminal
  BY <1>1, NoneAssumption DEF TypeOK, LiveTerminalKeepsRoute, ChildrenHavePids
<1>3. N \in hit
  BY <1>2
<1>4. PICK h \in hit : \A m \in hit : h <= m
  <2>1. hit \subseteq Nat /\ hit # {}
    BY <1>1, <1>3
  <2> HIDE DEF hit
  <2> QED BY <2>1, LeastNumber
<1>5. TerminalFor(a, q) = router[a][at[h]]
  <2>1. \A n \in 0..(MaxHops - 1) : Walk(q)[n] = at[n]
    BY DEF Walk
  <2>2. hit = {n \in 0..(MaxHops - 1) : Walk(q)[n] \in Pid /\ router[a][Walk(q)[n]] # NoTerminal}
    BY <2>1
  <2>3. TerminalFor(a, q) = router[a][Walk(q)[CHOOSE n \in hit : \A m \in hit : n <= m]]
    <3> HIDE DEF at
    <3> QED BY <1>3, <2>2 DEF TerminalFor
  <2>4. (CHOOSE n \in hit : \A m \in hit : n <= m) = h
    <3> DEFINE c == CHOOSE n \in hit : \A m \in hit : n <= m
    <3>1. c \in hit /\ \A m \in hit : c <= m
      <4> HIDE DEF hit
      <4> QED BY <1>4
    <3>2. c \in Nat /\ h \in Nat
      <4> HIDE DEF c
      <4> QED BY <1>1, <3>1
    <3>3. c <= h /\ h <= c
      <4> HIDE DEF c, hit
      <4> QED BY <1>4, <3>1
    <3> HIDE DEF c
    <3>4. c = h
      BY <3>2, <3>3
    <3> QED BY <3>4 DEF c
  <2> HIDE DEF hit
  <2>5. TerminalFor(a, q) = router[a][Walk(q)[h]]
    BY <2>3, <2>4
  <2> QED BY <2>1, <2>5 DEF hit
<1> SUFFICES ASSUME NEW u, u = router[a][at[h]] PROVE u # NoTerminal /\ (u = t \/ child[u] # "running")
  BY <1>5
<1>6. at[h] \in Pid /\ u # NoTerminal /\ u \in Terminal /\ h \in 0..(MaxHops - 1) /\ pid[u] = at[h]
  BY <1>1, <1>4 DEF TypeOK, RouteInv, RoutesHavePids
<1>7. CASE h = N
  BY <1>2, <1>6, <1>7
<1>8. CASE h # N
  <2> SUFFICES ASSUME child[u] = "running" PROVE FALSE
    BY <1>6
  <2>1. h \in Nat /\ h + 1 \in 0..MaxHops /\ N \in (h + 1)..MaxHops
    <3> HIDE DEF at
    <3>1. h <= N /\ h \in Nat /\ N \in Nat
      BY <1>1, <1>3, <1>4, <1>6
    <3> QED BY <1>1, <1>8, <3>1, <1>6
  <2>2. parent[at[h]] = Outside
    BY <1>1, <1>6 DEF RouteInv, ChildrenAreTop
  <2>3. at[h + 1] = Outside
    <3>1. h + 1 \in 0..MaxHops /\ h + 1 # 0 /\ (h + 1) - 1 = h
      BY <2>1
    <3>2. at[h + 1] = IF at[h] \in Pid /\ parent[at[h]] \in Pid THEN parent[at[h]] ELSE Outside
      BY <3>1, AncestorSteps
    <3> HIDE DEF at
    <3> QED BY <2>2, <3>2
  <2>4. at[N] = Outside
    BY <2>1, <2>3, OutsideStays
  <2> QED BY <1>2, <2>4, ParentAssumption
<1> QED BY <1>7, <1>8

\* An empty panel has no routes and no children.
LEMMA InitRoute == Init => RouteInv
BY DEF Init, RouteInv, ChildrenAreTop, RoutesHavePids

\* A PID is handed out again only when its process has been reaped, and entries
\* are made for the PID of the terminal that is registered.
LEMMA NextRoute == PanelInv /\ RouteInv /\ [Next]_vars => RouteInv'
<1> SUFFICES ASSUME PanelInv, RouteInv, [Next]_vars PROVE RouteInv'
  OBVIOUS
<1>1. TypeOK /\ ChildrenHavePids /\ ChildrenAreTop /\ RoutesHavePids
  BY DEF PanelInv, RouteInv
<1>2. ASSUME UNCHANGED <<pid, parent, router>>,
             \A t \in Terminal : child'[t] = "running" => child[t] = "running"
      PROVE  RouteInv'
  BY <1>1, <1>2 DEF RouteInv, ChildrenAreTop, RoutesHavePids
<1>3. ASSUME NEW t \in Terminal, NEW a, Spawn(t, a) PROVE RouteInv'
  BY <1>2, <1>3 DEF Spawn
<1>4. ASSUME NEW t \in Terminal, SpawnFails(t) \/ SpawnAborted(t) \/ CloseTab(t) PROVE RouteInv'
  BY <1>2, <1>4 DEF SpawnFails, SpawnAborted, CloseTab, panelVars
<1>5. ASSUME NEW t \in Terminal, HandleExit(t) PROVE RouteInv'
  <2>1. \A u \in Terminal : child'[u] = "running" => child[u] = "running"
    BY <1>1, <1>5 DEF HandleExit, TypeOK
  <2> QED BY <1>2, <1>5, <2>1 DEF HandleExit, panelVars
<1>6. CASE PanelDropped
  BY <1>2, <1>6 DEF PanelDropped
<1>7. ASSUME NEW t \in Terminal, NEW p \in Pid, CreateTerminal(t, p) PROVE RouteInv'
  <2>1. child[t] = "none" /\ pid[t] = NoPid
    BY <1>1, <1>7 DEF CreateTerminal, ChildrenHavePids
  <2>2. ChildrenAreTop'
    BY <1>1, <1>7, NoneAssumption, ParentAssumption
       DEF CreateTerminal, TypeOK, ChildrenHavePids, ChildrenAreTop
  <2>3. RoutesHavePids'
    <3> SUFFICES ASSUME NEW a \in Att, NEW x \in Pid, router[a][x] # NoTerminal
                 PROVE  pid'[router[a][x]] = x
      BY <1>7 DEF CreateTerminal, panelVars, RoutesHavePids
    <3>1. router[a][x] \in Terminal /\ pid[router[a][x]] = x
      BY <1>1 DEF TypeOK, RoutesHavePids
    <3>2. router[a][x] # t
      BY <2>1, <3>1, NoneAssumption
    <3> QED BY <1>1, <1>7, <3>1, <3>2 DEF CreateTerminal, TypeOK
  <2> QED BY <2>2, <2>3 DEF RouteInv
<1>8. ASSUME UNCHANGED <<pid, child, parent>>, NEW t \in Terminal, NEW a \in Att,
             Register(a, pid[t], t) \/ Unregister(a, pid[t], t)
      PROVE  RouteInv'
  <2>1. \A b \in Att, x \in Pid :
           \/ router'[b][x] = router[b][x]
           \/ router'[b][x] = NoTerminal
           \/ x = pid[t] /\ router'[b][x] = t
    <3>1. /\ router[a] \in [Pid -> Terminal \cup {NoTerminal}]
          /\ router \in [Att -> [Pid -> Terminal \cup {NoTerminal}]]
      BY <1>1 DEF TypeOK
    <3>2. ASSUME NEW y, router' = [router EXCEPT ![a][pid[t]] = y], NEW b \in Att, NEW x \in Pid
          PROVE  router'[b][x] = router[b][x] \/ (b = a /\ x = pid[t] /\ router'[b][x] = y)
      <4>1. CASE b = a
        BY <3>1, <3>2, <4>1
      <4>2. CASE b # a
        BY <3>1, <3>2, <4>2
      <4> QED BY <4>1, <4>2
    <3>3. CASE Register(a, pid[t], t)
      BY <3>2, <3>3 DEF Register
    <3>4. CASE Unregister(a, pid[t], t)
      BY <3>2, <3>4 DEF Unregister
    <3> QED BY <1>8, <3>3, <3>4
  <2>2. RoutesHavePids'
    BY <1>1, <1>8, <2>1 DEF RoutesHavePids
  <2>3. ChildrenAreTop'
    BY <1>1, <1>8 DEF ChildrenAreTop
  <2> QED BY <2>2, <2>3 DEF RouteInv
<1>9. ASSUME NEW t \in Terminal, OpenTerminal(t) \/ ReleaseView(t) PROVE RouteInv'
  <2>1. CASE Copilot(attachment[t])
    BY <1>8, <1>9, <2>1 DEF OpenTerminal, ReleaseView, Copilot
  <2>2. CASE ~Copilot(attachment[t])
    BY <1>2, <1>9, <2>2 DEF OpenTerminal, ReleaseView
  <2> QED BY <2>1, <2>2
<1>10. ASSUME NEW p \in Pid, NEW q \in Pid, Fork(p, q) PROVE RouteInv'
  <2>1. RoutesHavePids'
    BY <1>1, <1>10 DEF Fork, spawnVars, panelVars, RoutesHavePids
  <2>2. ChildrenAreTop'
    BY <1>1, <1>10, ParentAssumption DEF Fork, spawnVars, TypeOK, ChildrenHavePids, ChildrenAreTop
  <2> QED BY <2>1, <2>2 DEF RouteInv
<1>11. ASSUME NEW p \in Pid, ProcessExits(p) PROVE RouteInv'
  <2>1. RoutesHavePids'
    BY <1>1, <1>11 DEF ProcessExits, panelVars, RoutesHavePids
  <2>2. ChildrenAreTop'
    BY <1>1, <1>11, NoneAssumption, ParentAssumption
       DEF ProcessExits, TypeOK, ChildrenHavePids, ChildrenAreTop
  <2> QED BY <2>1, <2>2 DEF RouteInv
<1>12. CASE UNCHANGED vars
  BY <1>2, <1>12 DEF vars, spawnVars, panelVars
<1>13. CASE EnterTileMode \/ LeaveTileMode \/ \E t \in Terminal : DragTab(t)
  BY <1>2, <1>13 DEF EnterTileMode, LeaveTileMode, DragTab, spawnVars
<1> QED BY <1>3, <1>4, <1>5, <1>6, <1>7, <1>9, <1>10, <1>11, <1>12, <1>13
        DEF Next, PanelStep, SpawnUnattached, SpawnClaude, SpawnCopilotShared,
            SpawnCopilotFresh, SpawnCopilotFails

\* terminal_for_session, for any number of hops: a call from below a living
\* terminal is never routed to another terminal in use.
THEOREM CallsAreRoutedHome == Spec => []RoutedHome
<1>1. Spec => [](PanelInv /\ RouteInv)
  BY InitPanel, NextPanel, InitRoute, NextRoute, PTL DEF Spec
<1> QED BY <1>1, RoutedHomeHolds, PTL
=============================================================================
