---------------------------- MODULE TerminalPanel ----------------------------
(***************************************************************************)
(* The AI terminal panel of one window (crates/ai_terminal_panel): it      *)
(* spawns agents in terminals, gives each its IDE attachment, and lets go  *)
(* of it when the terminal's view is released.  Copilot terminals of one   *)
(* workspace share an attachment, found through a weak index; its router   *)
(* (crates/copilot_cli_ide: router.rs) maps the PID of a terminal's PTY    *)
(* child to its view, and finds the view a client belongs to by walking up *)
(* the process tree.                                                       *)
(*                                                                         *)
(* The panel's code runs on the foreground thread; what interleaves is the *)
(* asynchronous creation of a terminal, the terminal's event loop, the     *)
(* closing of tabs, and the operating system, which ends processes and     *)
(* uses their PIDs again.                                                  *)
(***************************************************************************)
EXTENDS Naturals, Sequences

CONSTANTS
    Terminal,       \* the terminals (views) the panel ever spawns
    Att,            \* the attachments ever prepared
    Pid,            \* the PIDs the operating system hands out
    Root,           \* canonical directories agents are spawned in
    Persistent,     \* WorkspaceKey::Persistent: the workspace has a database id
    NoTerminal, NoAtt, NoPid, NoKey,
    Outside,        \* the parent that ends a walk: init, or the editor itself
    Free,           \* no process has this PID
    MaxHops         \* MAX_PARENT_HOPS (16 in the code)

ASSUME NoneAssumption ==
    NoTerminal \notin Terminal /\ NoAtt \notin Att /\ NoPid \notin Pid
ASSUME KeyAssumption == Persistent \notin Root /\ NoKey \notin Root \cup {Persistent}
ASSUME ParentAssumption == Outside \notin Pid /\ Free \notin Pid /\ Outside # Free
ASSUME MaxHopsAssumption == MaxHops \in Nat \ {0}

VARIABLES
    view,           \* where a spawn_agent call and its terminal view are
    pid,            \* the PID of the terminal's PTY child
    child,          \* that process, and its exit as the event loop sees it
    ready,          \* created terminals whose spawn_agent has yet to resume
    attachment,     \* what prepare_*_attachment returned to the spawn
    attachments,    \* claude_attachments and copilot_attachments, by view
    byWorkspace,    \* copilot_attachments_by_workspace (weak)
    router,         \* by_pty_child_pid of each attachment
    made,           \* the attachments prepared so far
    keyOf,          \* ghost: the key an attachment was prepared under
    saved,          \* does the workspace have a database id; never changes
    panelUp,        \* the panel entity exists
    tiled,          \* tile_mode
    displaced,      \* terminals whose tab is not in the pane it was opened in
    parent          \* the process table: parent of each PID

spawnVars == <<view, pid, child, ready, attachment>>
panelVars == <<attachments, byWorkspace, router, made, keyOf, saved, panelUp,
               tiled, displaced>>
vars == <<spawnVars, panelVars, parent>>

Key == Root \cup {Persistent}

\* The spawn is still asynchronous; its closure holds the attachment.
Pending == {"spawning", "created"}

\* The view is an item of a pane of the panel.
OnScreen == {"open", "closing"}

Init ==
    /\ view = [t \in Terminal |-> "unused"]
    /\ pid = [t \in Terminal |-> NoPid]
    /\ child = [t \in Terminal |-> "none"]
    /\ ready = <<>>
    /\ attachment = [t \in Terminal |-> NoAtt]
    /\ attachments = [t \in Terminal |-> NoAtt]
    /\ byWorkspace = [k \in Key |-> NoAtt]
    /\ router = [a \in Att |-> [p \in Pid |-> NoTerminal]]
    /\ made = {}
    /\ keyOf = [a \in Att |-> NoKey]
    /\ saved \in BOOLEAN
    /\ panelUp = TRUE
    /\ tiled \in BOOLEAN        \* restored from the last session
    /\ displaced = {}
    /\ parent = [p \in Pid |-> Free]

-----------------------------------------------------------------------------
(* Attachments are reference counted. *)

\* The attachment has a strong handle: `upgrade` succeeds.
Alive(a) ==
    a # NoAtt /\ \E t \in Terminal :
        \/ view[t] \in Pending /\ attachment[t] = a
        \/ attachments[t] = a

\* Only Copilot's attachments are indexed and have a router.
Copilot(a) == a \in Att /\ keyOf[a] # NoKey

\* workspace_key.
WorkspaceKey(r) == IF saved THEN Persistent ELSE r

-----------------------------------------------------------------------------
(* spawn_agent, up to its first await. *)

\* prepare_*_attachment gives the spawn attachment a, or none.
Spawn(t, a) ==
    /\ panelUp
    /\ view[t] = "unused"
    /\ view' = [view EXCEPT ![t] = "spawning"]
    /\ attachment' = [attachment EXCEPT ![t] = a]
    /\ UNCHANGED <<pid, child, ready, attachments, router, saved, panelUp,
                   tiled, displaced, parent>>

\* An agent without /ide support, or no directory to prepare for.
SpawnUnattached(t) ==
    /\ Spawn(t, NoAtt)
    /\ UNCHANGED <<byWorkspace, made, keyOf>>

\* prepare_claude_attachment: every Claude terminal has its own.
SpawnClaude(t, a) ==
    /\ a \notin made
    /\ Spawn(t, a)
    /\ made' = made \cup {a}
    /\ UNCHANGED <<byWorkspace, keyOf>>

\* prepare_copilot_attachment: the live attachment of the key.
SpawnCopilotShared(t, r) ==
    LET a == byWorkspace[WorkspaceKey(r)] IN
    /\ Alive(a)
    /\ Spawn(t, a)
    /\ UNCHANGED <<byWorkspace, made, keyOf>>

\* prepare_copilot_attachment: none, or a dead one, so a fresh one is prepared
\* and indexed.
SpawnCopilotFresh(t, r, a) ==
    LET k == WorkspaceKey(r) IN
    /\ ~Alive(byWorkspace[k])
    /\ a \notin made
    /\ Spawn(t, a)
    /\ made' = made \cup {a}
    /\ byWorkspace' = [byWorkspace EXCEPT ![k] = a]
    /\ keyOf' = [keyOf EXCEPT ![a] = k]

\* The same, and the preparation fails: the dead entry is already removed.
SpawnCopilotFails(t, r) ==
    LET k == WorkspaceKey(r) IN
    /\ ~Alive(byWorkspace[k])
    /\ Spawn(t, NoAtt)
    /\ byWorkspace' = [byWorkspace EXCEPT ![k] = NoAtt]
    /\ UNCHANGED <<made, keyOf>>

-----------------------------------------------------------------------------
(* The rest of spawn_agent. *)

\* Mutant: the PID of the child's parent is recorded.
CreateRecordsParent(t, p) ==
    /\ view[t] = "spawning"
    /\ parent[p] = Free
    /\ parent' = [parent EXCEPT ![p] = Outside]
    /\ view' = [view EXCEPT ![t] = "created"]
    /\ ready' = Append(ready, t)
    /\ pid' = [pid EXCEPT ![t] = Outside]
    /\ child' = [child EXCEPT ![t] = "running"]
    /\ UNCHANGED <<attachment, panelVars>>

\* create_terminal_task forks the PTY child and starts the event loop.
CreateTerminal(t, p) ==
    /\ view[t] = "spawning"
    /\ parent[p] = Free
    /\ parent' = [parent EXCEPT ![p] = Outside]
    /\ view' = [view EXCEPT ![t] = "created"]
    /\ ready' = Append(ready, t)
    /\ pid' = [pid EXCEPT ![t] = p]
    /\ child' = [child EXCEPT ![t] = "running"]
    /\ UNCHANGED <<attachment, panelVars>>

\* create_terminal_task fails, and the closure is dropped.
SpawnFails(t) ==
    /\ view[t] = "spawning"
    /\ view' = [view EXCEPT ![t] = "closed"]
    /\ UNCHANGED <<pid, child, ready, attachment, panelVars, parent>>

\* The executor resumes the spawns in the order their terminals were created.
Resume(t) ==
    /\ ready # <<>>
    /\ t = Head(ready)
    /\ ready' = Tail(ready)

\* The panel is gone: the closure and the terminal are dropped.
SpawnAborted(t) ==
    /\ Resume(t)
    /\ ~panelUp
    /\ view' = [view EXCEPT ![t] = "closed"]
    /\ UNCHANGED <<pid, child, attachment, panelVars, parent>>

\* CopilotTerminalRouter::register: the newest terminal of a PID wins.
Register(a, p, t) == router' = [router EXCEPT ![a][p] = t]

\* The terminal exists: its view is made, registered, observed and added to a
\* pane, and the panel takes the closure's attachment over.
OpenTerminal(t) ==
    LET a == attachment[t] IN
    /\ Resume(t)
    /\ panelUp
    /\ view' = [view EXCEPT ![t] = "open"]
    /\ attachments' = [attachments EXCEPT ![t] = a]
    /\ IF Copilot(a) THEN Register(a, pid[t], t) ELSE UNCHANGED router
    /\ UNCHANGED <<pid, child, attachment, byWorkspace, made, keyOf, saved, panelUp,
                   tiled, displaced, parent>>

-----------------------------------------------------------------------------
(* The end of a terminal. *)

\* Mutant: the exit of the child is not followed by CloseTerminal.
HandleExitSilently(t) ==
    /\ child[t] = "exited"
    /\ view[t] \notin {"unused", "closed"}
    /\ child' = [child EXCEPT ![t] = "handled"]
    /\ UNCHANGED <<view, pid, ready, attachment, panelVars, parent>>

\* The event loop of the terminal gets ChildExit and emits CloseTerminal.  The
\* panel, if it has subscribed by then, closes the tab in the pane that it had
\* captured when it did, and nowhere else.
HandleExit(t) ==
    /\ child[t] = "exited"
    /\ view[t] \notin {"unused", "closed"}
    /\ child' = [child EXCEPT ![t] = "handled"]
    /\ view' = IF view[t] = "open" /\ t \notin displaced
               THEN [view EXCEPT ![t] = "closing"] ELSE view
    /\ UNCHANGED <<pid, ready, attachment, panelVars, parent>>

\* The user closes the tab.
CloseTab(t) ==
    /\ view[t] = "open"
    /\ view' = [view EXCEPT ![t] = "closing"]
    /\ UNCHANGED <<pid, child, ready, attachment, panelVars, parent>>

\* Mutant: the entry of the PID goes, whoever owns it.
UnregisterByPid(a, p, t) == router' = [router EXCEPT ![a][p] = NoTerminal]

\* CopilotTerminalRouter::unregister: only the terminal's own entry.
Unregister(a, p, t) ==
    router' = IF router[a][p] = t THEN [router EXCEPT ![a][p] = NoTerminal] ELSE router

\* Mutant: only attachments of terminals on screen are kept.
PruneUnlessOnScreen(holders) ==
    byWorkspace' = [k \in Key |->
        IF \E t \in holders : attachments[t] = byWorkspace[k] THEN byWorkspace[k] ELSE NoAtt]

\* `retain(|_, weak| weak.upgrade().is_some())`, with the handles left.
PruneDead(holders) ==
    byWorkspace' = [k \in Key |->
        IF \/ \E t \in holders : attachments[t] = byWorkspace[k]
           \/ \E t \in Terminal : view[t] \in Pending /\ attachment[t] = byWorkspace[k]
        THEN byWorkspace[k] ELSE NoAtt]

\* Mutant: the panel lets go only of terminals whose process has exited.
ReleaseOnExitOnly(t) ==
    LET a == attachment[t] IN
    /\ panelUp
    /\ view[t] = "closing"
    /\ view' = [view EXCEPT ![t] = "closed"]
    /\ displaced' = displaced \ {t}
    /\ IF child[t] = "handled"
       THEN /\ attachments' = [attachments EXCEPT ![t] = NoAtt]
            /\ IF Copilot(a) THEN Unregister(a, pid[t], t) ELSE UNCHANGED router
            /\ PruneDead(Terminal \ {t})
       ELSE UNCHANGED <<attachments, router, byWorkspace>>
    /\ UNCHANGED <<pid, child, ready, attachment, made, keyOf, saved, panelUp, tiled, parent>>

\* The pane has removed the item and the view is released: unregister it, drop
\* its attachment, prune the index.  (The child is killed with the terminal;
\* see ProcessExits.)
ReleaseView(t) ==
    LET a == attachment[t] IN
    /\ panelUp
    /\ view[t] = "closing"
    /\ view' = [view EXCEPT ![t] = "closed"]
    /\ displaced' = displaced \ {t}
    /\ attachments' = [attachments EXCEPT ![t] = NoAtt]
    /\ IF Copilot(a) THEN Unregister(a, pid[t], t) ELSE UNCHANGED router
    /\ PruneDead(Terminal \ {t})
    /\ UNCHANGED <<pid, child, ready, attachment, made, keyOf, saved, panelUp, tiled, parent>>

\* The window is closed: the panel goes with its maps and its views.  Spawns
\* that are under way notice it when their terminal is there.
PanelDropped ==
    /\ panelUp
    /\ panelUp' = FALSE
    /\ tiled' = FALSE /\ displaced' = {}
    /\ view' = [t \in Terminal |-> IF view[t] \in OnScreen THEN "closed" ELSE view[t]]
    /\ attachments' = [t \in Terminal |-> NoAtt]
    /\ byWorkspace' = [k \in Key |-> NoAtt]
    /\ UNCHANGED <<pid, child, ready, attachment, router, made, keyOf, saved, parent>>

-----------------------------------------------------------------------------
(* The layout of the panes.  Of the pane a tab is in, the model keeps whether *)
(* it is the one the panel looks in when the terminal's process exits.        *)

Tabs == {t \in Terminal : view[t] \in OnScreen}

\* enter_tile_mode: the first tab stays, the others go to new panes.
EnterTileMode ==
    /\ panelUp /\ ~tiled
    /\ tiled' = TRUE
    /\ IF Tabs = {} THEN UNCHANGED displaced
       ELSE \E first \in Tabs : displaced' = displaced \cup (Tabs \ {first})
    /\ UNCHANGED <<spawnVars, attachments, byWorkspace, router, made, keyOf, saved, panelUp, parent>>

\* leave_tile_mode: all tabs go to the first pane, in which any of them may
\* have been opened.
LeaveTileMode ==
    /\ panelUp /\ tiled
    /\ tiled' = FALSE
    /\ displaced' \in SUBSET Tabs
    /\ UNCHANGED <<spawnVars, attachments, byWorkspace, router, made, keyOf, saved, panelUp, parent>>

\* Pane::handle_tab_drop: the user drags a tab to another tile.
DragTab(t) ==
    /\ panelUp /\ tiled
    /\ t \in Tabs
    /\ displaced' \in {displaced \cup {t}, displaced \ {t}}
    /\ UNCHANGED <<spawnVars, attachments, byWorkspace, router, made, keyOf, saved, panelUp, tiled, parent>>

-----------------------------------------------------------------------------
(* The operating system. *)

\* A process under a terminal starts another: shell, wrapper, CLI, worker.
Fork(p, q) ==
    /\ parent[p] # Free
    /\ parent[q] = Free
    /\ parent' = [parent EXCEPT ![q] = p]
    /\ UNCHANGED <<spawnVars, panelVars>>

\* A process ends, by itself or killed with its terminal, and is reaped: its
\* PID is free and its children are orphans.
ProcessExits(p) ==
    /\ parent[p] # Free
    /\ parent' = [q \in Pid |-> IF q = p THEN Free
                                ELSE IF parent[q] = p THEN Outside ELSE parent[q]]
    /\ child' = [t \in Terminal |-> IF child[t] = "running" /\ pid[t] = p THEN "exited" ELSE child[t]]
    /\ UNCHANGED <<view, pid, ready, attachment, panelVars>>

-----------------------------------------------------------------------------

PanelStep(t) ==
    \/ SpawnFails(t)
    \/ SpawnAborted(t)
    \/ \E p \in Pid : CreateTerminal(t, p)
    \/ OpenTerminal(t)
    \/ HandleExit(t)
    \/ ReleaseView(t)

Next ==
    \/ \E t \in Terminal : SpawnUnattached(t)
    \/ \E t \in Terminal, r \in Root : SpawnCopilotShared(t, r) \/ SpawnCopilotFails(t, r)
    \/ \E t \in Terminal, a \in Att : SpawnClaude(t, a)
    \/ \E t \in Terminal, r \in Root, a \in Att : SpawnCopilotFresh(t, r, a)
    \/ \E t \in Terminal : PanelStep(t) \/ CloseTab(t) \/ DragTab(t)
    \/ EnterTileMode \/ LeaveTileMode
    \/ PanelDropped
    \/ \E p, q \in Pid : Fork(p, q)
    \/ \E p \in Pid : ProcessExits(p)

\* The foreground executor keeps polling the event loops and the tasks that
\* close tabs.  Nothing makes a user close a tab, or a process end.
Fairness == \A t \in Terminal : WF_vars(HandleExit(t)) /\ WF_vars(ReleaseView(t))

Spec == Init /\ [][Next]_vars /\ Fairness

-----------------------------------------------------------------------------
(* walk_to_registered. *)

\* parent_of, repeated: the process n hops above q.
Ancestor(q) ==
    LET at[n \in 0..MaxHops] ==
            IF n = 0 THEN q
            ELSE IF at[n-1] \in Pid /\ parent[at[n-1]] \in Pid THEN parent[at[n-1]] ELSE Outside
    IN  at

\* Mutant: the walk looks at the client's ancestors, not at the client.
WalkFromParent(q) == [n \in 0..(MaxHops - 1) |-> Ancestor(q)[n + 1]]

\* The PIDs looked up in the router, from the client's own.
Walk(q) == [n \in 0..(MaxHops - 1) |-> Ancestor(q)[n]]

\* terminal_for_session, for a client whose PID is q.
TerminalFor(a, q) ==
    LET hit == {n \in 0..(MaxHops - 1) : Walk(q)[n] \in Pid /\ router[a][Walk(q)[n]] # NoTerminal}
    IN  IF hit = {} THEN NoTerminal
        ELSE router[a][Walk(q)[CHOOSE n \in hit : \A m \in hit : n <= m]]

-----------------------------------------------------------------------------
(* Properties. *)

\* Type invariant of the panel, the routers and the process table.
TypeOK ==
    /\ view \in [Terminal -> {"unused", "closed"} \cup Pending \cup OnScreen]
    /\ pid \in [Terminal -> Pid \cup {NoPid}]
    /\ child \in [Terminal -> {"none", "running", "exited", "handled"}]
    /\ ready \in Seq(Terminal)
    /\ attachment \in [Terminal -> Att \cup {NoAtt}]
    /\ attachments \in [Terminal -> Att \cup {NoAtt}]
    /\ byWorkspace \in [Key -> Att \cup {NoAtt}]
    /\ router \in [Att -> [Pid -> Terminal \cup {NoTerminal}]]
    /\ made \subseteq Att
    /\ keyOf \in [Att -> Key \cup {NoKey}]
    /\ saved \in BOOLEAN
    /\ panelUp \in BOOLEAN /\ tiled \in BOOLEAN
    /\ displaced \subseteq Terminal
    /\ parent \in [Pid -> Pid \cup {Outside, Free}]

\* As long as a terminal is on screen and its process lives, the router of its
\* attachment has its PID registered to it: the late release of another
\* terminal whose PID it was given neither evicts it nor answers for it.
LiveTerminalKeepsRoute ==
    \A t \in Terminal :
        view[t] \in OnScreen /\ child[t] = "running" /\ Copilot(attachment[t]) =>
            router[attachment[t]][pid[t]] = t

\* A call of a process that descends from a terminal's living PTY child, within
\* the hops of the walk, is routed to that terminal; at worst to one whose own
\* process has exited and whose PID it was given, never to a terminal in use.
RoutedHome ==
    \A t \in Terminal, q \in Pid :
        /\ view[t] \in OnScreen /\ child[t] = "running" /\ Copilot(attachment[t])
        /\ \E n \in 0..(MaxHops - 1) : Ancestor(q)[n] = pid[t]
        => LET u == TerminalFor(attachment[t], q) IN
           u # NoTerminal /\ (u = t \/ child[u] # "running")

\* An attachment, and so its lockfile and its server, lives only as long as a
\* spawn or a tab that it was prepared for: however a terminal ends (exit,
\* closed tab, failed spawn, closed window), nothing keeps it afterwards.
AttachmentHasTerminal ==
    \A a \in Att : Alive(a) =>
        \E t \in Terminal : attachment[t] = a /\ view[t] \in Pending \cup OnScreen

\* The panel finds every live Copilot attachment under the key it was prepared
\* for, so that there are never two of one key: not when a terminal closes
\* while another spawn that shares its attachment is still pending.
SharedByKey ==
    panelUp => \A a \in Att :
        Copilot(a) /\ Alive(a) => byWorkspace[keyOf[a]] = a

\* A terminal on screen whose process exits is closed, and with it what it
\* holds is released, unless its tab has been moved out of the pane that it was
\* opened in.  (Its exit must not have been handled before the panel subscribed
\* to the terminal.)
ExitedTerminalCloses ==
    \A t \in Terminal :
        view[t] = "open" /\ child[t] = "exited" ~> view[t] = "closed" \/ t \in displaced

-----------------------------------------------------------------------------
(* The inductive invariant behind those about the panel. *)

\* The PTY children that live have PIDs of their own.
ChildrenHavePids ==
    \A t \in Terminal :
        /\ child[t] = "none" <=> pid[t] = NoPid
        /\ view[t] \in {"created"} \cup OnScreen => child[t] # "none"
        /\ view[t] \in {"unused", "spawning"} => child[t] = "none"
        /\ child[t] = "running" => parent[pid[t]] # Free
        /\ \A u \in Terminal :
            child[t] = "running" /\ child[u] = "running" /\ pid[t] = pid[u] => t = u

\* The spawns that wait to resume, each once.
ReadySound ==
    /\ \A i \in 1..Len(ready) : view[ready[i]] = "created"
    /\ \A i, j \in 1..Len(ready) : ready[i] = ready[j] => i = j

\* A spawn that has yet to register will not take the PID of a living child
\* from its terminal: it was created later, with a PID that was free.
ReadyInOrder ==
    /\ \A t \in Terminal, i \in 1..Len(ready) :
        view[t] \in OnScreen /\ child[t] = "running" => pid[t] # pid[ready[i]]
    /\ \A i, j \in 1..Len(ready) :
        i < j /\ child[ready[i]] = "running" => pid[ready[i]] # pid[ready[j]]

\* What the panel holds for a terminal is that terminal's attachment, and only
\* while it is on screen.
HeldByView ==
    \A t \in Terminal : attachments[t] # NoAtt =>
        view[t] \in OnScreen /\ attachments[t] = attachment[t]

\* Attachments in use, and keys, are of attachments that were prepared.
MadeFirst ==
    /\ \A t \in Terminal : attachment[t] # NoAtt => attachment[t] \in made
    /\ \A t \in Terminal : view[t] = "unused" => attachment[t] = NoAtt
    /\ \A k \in Key : byWorkspace[k] # NoAtt => byWorkspace[k] \in made
    /\ \A a \in Att : keyOf[a] # NoKey => a \in made

PanelInv ==
    /\ TypeOK /\ ChildrenHavePids /\ ReadySound /\ ReadyInOrder /\ HeldByView
    /\ MadeFirst /\ LiveTerminalKeepsRoute /\ SharedByKey

\* A living PTY child is a child of the editor: nothing that is found above it
\* in the process table is the child of another terminal.
ChildrenAreTop == \A t \in Terminal : child[t] = "running" => parent[pid[t]] = Outside

\* A router entry, also one that is out of date, is of a terminal with that PID.
RoutesHavePids ==
    \A a \in Att, p \in Pid : router[a][p] # NoTerminal => pid[router[a][p]] = p

RouteInv == ChildrenAreTop /\ RoutesHavePids
=============================================================================
