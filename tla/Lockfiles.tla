------------------------------ MODULE Lockfiles ------------------------------
(***************************************************************************)
(* The lockfiles through which an agent's CLI finds the editor: one per    *)
(* attachment, in a directory that all running editors share.  Preparing   *)
(* an attachment sweeps the directory of files that crashed editors have   *)
(* left, binds a server and writes the file; releasing it removes the file *)
(* and then drops the server (lockfile.rs and attachment.rs of             *)
(* crates/copilot_cli_ide and crates/claude_code_ide).                     *)
(*                                                                         *)
(* The two connectors differ in how a file is named and found stale:       *)
(*   copilot  named by a fresh uuid; stale if its PID is not running;      *)
(*   claude   named by the server's TCP port; stale if nobody accepts a    *)
(*            connection on that port.                                     *)
(* Each has its own directory, so a behaviour is about one of them.        *)
(*                                                                         *)
(* Within an editor prepare and release run to the end on the foreground   *)
(* thread; the steps of different editors interleave, an editor may crash  *)
(* between any two, and PIDs and ports are used again.  Listing the        *)
(* directory, looking at a file and unlinking it may each fail: the code   *)
(* logs that and goes on.                                                  *)
(***************************************************************************)
EXTENDS FiniteSets

CONSTANTS
    Editor,     \* editor processes, each started once
    Att,        \* attachments, each prepared once; also their uuids
    Pid,        \* process ids
    Port,       \* TCP ports
    None        \* no file, no pid, no port, no attachment

ASSUME NoneAssumption == None \notin Editor \cup Att \cup Pid \cup Port
ASSUME NamesAssumption == Att \cap Port = {}

VARIABLES
    kind,       \* which connector this is about; never changes
    pid,        \* the PID of an editor, once started
    up,         \* the editors that run
    others,     \* PIDs and ports in use by programs that are not editors
    todo,       \* names of the sweep under way, read from the directory
    victim,     \* the name the sweep has found stale and is about to unlink
    busy,       \* the attachment an editor is preparing or releasing
    step,       \* how far an editor has got with it
    owner,      \* the editor of an attachment
    port,       \* the port of an attachment's server (claude)
    bound,      \* the attachments whose server a client can connect to
    guard,      \* the attachments that hold a LockfileGuard
    file,       \* the directory: the attachment a file describes
    leftover,   \* ghost: stale when the sweep began; not taken over since, and
                \* no error met at it
    kept        \* ghost: the attachments whose guard failed to unlink the file

sweepVars == <<todo, victim, leftover>>
attVars == <<owner, port, bound, guard, kept>>
vars == <<kind, pid, up, others, busy, step, file, sweepVars, attVars>>

Name == Att \cup Port

\* The name of an attachment's file: `<uuid>.lock` or `<port>.lock`.
NameOf(a) == IF kind = "copilot" THEN a ELSE port[a]

Files == {n \in Name : file[n] # None}

Init ==
    /\ kind \in {"copilot", "claude"}
    /\ pid = [e \in Editor |-> None]
    /\ up = {} /\ others = {}
    /\ todo = [e \in Editor |-> {}]
    /\ victim = [e \in Editor |-> None]
    /\ busy = [e \in Editor |-> None]
    /\ step = [e \in Editor |-> "idle"]
    /\ owner = [a \in Att |-> None]
    /\ port = [a \in Att |-> None]
    /\ bound = {} /\ guard = {} /\ kept = {}
    /\ file = [n \in Name |-> None]
    /\ leftover = [e \in Editor |-> {}]

-----------------------------------------------------------------------------
(* The operating system. *)

PidsInUse == {pid[e] : e \in up} \cup (others \cap Pid)

PortsInUse == {port[a] : a \in bound} \cup (others \cap Port)

\* Mutant: a file that can be read is taken for stale.
SkipOnlyUnreadable(n) == IF kind = "copilot" THEN file[n] = None ELSE n \in PortsInUse

\* is_process_alive and probe_port: the sweep leaves the file n alone if its
\* PID cannot be read or is running, or if someone listens on its port.
Skipped(n) ==
    IF kind = "copilot" THEN file[n] = None \/ pid[owner[file[n]]] \in PidsInUse
    ELSE n \in PortsInUse

\* The files a sweep is for: their PID or port is free.
Stale == {n \in Files : ~Skipped(n)}

\* The leftovers that do not look alive again when x, a PID or a port, is
\* taken by someone.
NotReused(x) ==
    [e \in Editor |-> {n \in leftover[e] :
        n # x /\ (kind = "copilot" /\ file[n] # None => pid[owner[file[n]]] # x)}]

StartEditor(e) ==
    /\ pid[e] = None
    /\ \E p \in Pid \ PidsInUse :
        /\ pid' = [pid EXCEPT ![e] = p]
        /\ leftover' = NotReused(p)
    /\ up' = up \cup {e}
    /\ UNCHANGED <<kind, others, busy, step, file, todo, victim, attVars>>

\* The process ends without running any destructor; its servers close.
Crash(e) ==
    /\ e \in up
    /\ up' = up \ {e}
    /\ bound' = {a \in bound : owner[a] # e}
    /\ guard' = {a \in guard : owner[a] # e}
    /\ todo' = [todo EXCEPT ![e] = {}]
    /\ victim' = [victim EXCEPT ![e] = None]
    /\ leftover' = [leftover EXCEPT ![e] = {}]
    /\ busy' = [busy EXCEPT ![e] = None]
    /\ step' = [step EXCEPT ![e] = "idle"]
    /\ UNCHANGED <<kind, pid, others, file, owner, port, kept>>

\* Another program starts with a PID, or listens on a port.
OtherStarts(x) ==
    /\ x \in (Pid \cup Port) \ (PidsInUse \cup PortsInUse)
    /\ others' = others \cup {x}
    /\ leftover' = NotReused(x)
    /\ UNCHANGED <<kind, pid, up, busy, step, file, todo, victim, attVars>>

OtherStops(x) ==
    /\ x \in others
    /\ others' = others \ {x}
    /\ UNCHANGED <<kind, pid, up, busy, step, file, sweepVars, attVars>>

-----------------------------------------------------------------------------
(* CopilotAttachment::prepare and ClaudeCodeAttachment::prepare. *)

\* The sweep reads the directory, or fails to: then it is over.
Prepare(e) ==
    /\ e \in up /\ step[e] = "idle"
    /\ \E a \in Att : owner[a] = None
    /\ \E listed \in {Files, {}} :
        /\ todo' = [todo EXCEPT ![e] = listed]
        /\ leftover' = [leftover EXCEPT ![e] = Stale \cap listed]
    /\ step' = [step EXCEPT ![e] = "sweep"]
    /\ UNCHANGED <<kind, pid, up, others, busy, file, victim, attVars>>

\* One file of the listing is skipped, or found stale and to be unlinked.
SweepCheck(e, n) ==
    /\ step[e] = "sweep" /\ victim[e] = None /\ n \in todo[e]
    /\ todo' = [todo EXCEPT ![e] = @ \ {n}]
    /\ victim' = IF Skipped(n) THEN victim ELSE [victim EXCEPT ![e] = n]
    /\ UNCHANGED <<kind, pid, up, others, busy, step, file, leftover, attVars>>

\* Mutant: a file that cannot be read ends the sweep.
UnreadableEndsSweep(e, n) ==
    /\ step[e] = "sweep" /\ victim[e] = None /\ n \in todo[e]
    /\ todo' = [todo EXCEPT ![e] = {}]
    /\ leftover' = [leftover EXCEPT ![e] = @ \ {n}]
    /\ UNCHANGED <<kind, pid, up, others, busy, step, file, victim, attVars>>

\* ... or cannot be read, and is skipped with a log line.
SweepUnreadable(e, n) ==
    /\ step[e] = "sweep" /\ victim[e] = None /\ n \in todo[e]
    /\ todo' = [todo EXCEPT ![e] = @ \ {n}]
    /\ leftover' = [leftover EXCEPT ![e] = @ \ {n}]
    /\ UNCHANGED <<kind, pid, up, others, busy, step, file, victim, attVars>>

\* The stale file is unlinked, or the unlink fails and the sweep goes on.
SweepRemove(e) ==
    /\ victim[e] # None
    /\ \/ /\ file' = [file EXCEPT ![victim[e]] = None]
          /\ UNCHANGED leftover
       \/ /\ leftover' = [leftover EXCEPT ![e] = @ \ {victim[e]}]
          /\ UNCHANGED file
    /\ victim' = [victim EXCEPT ![e] = None]
    /\ UNCHANGED <<kind, pid, up, others, busy, step, todo, attVars>>

\* Mutant: a free port is looked for, and not held.
BindUnheld(e, a) ==
    /\ step[e] = "sweep" /\ todo[e] = {} /\ victim[e] = None
    /\ owner[a] = None
    /\ owner' = [owner EXCEPT ![a] = e]
    /\ \E q \in Port \ PortsInUse : port' = [port EXCEPT ![a] = q]
    /\ leftover' = [leftover EXCEPT ![e] = {}]
    /\ busy' = [busy EXCEPT ![e] = a]
    /\ step' = [step EXCEPT ![e] = "write"]
    /\ UNCHANGED <<kind, pid, up, others, file, todo, victim, guard, bound, kept>>

\* The sweep is over.  Server::bind: a socket in a fresh directory, or any
\* free port.
Bind(e, a) ==
    /\ step[e] = "sweep" /\ todo[e] = {} /\ victim[e] = None
    /\ owner[a] = None
    /\ owner' = [owner EXCEPT ![a] = e]
    /\ \/ /\ kind = "copilot"
          /\ leftover' = [leftover EXCEPT ![e] = {}]
          /\ UNCHANGED port
       \/ /\ kind = "claude"
          /\ \E q \in Port \ PortsInUse :
                /\ port' = [port EXCEPT ![a] = q]
                /\ leftover' = [NotReused(q) EXCEPT ![e] = {}]
    /\ bound' = bound \cup {a}
    /\ busy' = [busy EXCEPT ![e] = a]
    /\ step' = [step EXCEPT ![e] = "write"]
    /\ UNCHANGED <<kind, pid, up, others, file, todo, victim, guard, kept>>

\* ... fails: prepare returns an error.
BindFails(e) ==
    /\ step[e] = "sweep" /\ todo[e] = {} /\ victim[e] = None
    /\ leftover' = [leftover EXCEPT ![e] = {}]
    /\ step' = [step EXCEPT ![e] = "idle"]
    /\ UNCHANGED <<kind, pid, up, others, busy, file, todo, victim, attVars>>

\* write_atomic: temp file and rename.
WriteLockfile(e) ==
    /\ step[e] = "write"
    /\ file' = [file EXCEPT ![NameOf(busy[e])] = busy[e]]
    /\ guard' = guard \cup {busy[e]}
    /\ busy' = [busy EXCEPT ![e] = None]
    /\ step' = [step EXCEPT ![e] = "idle"]
    /\ UNCHANGED <<kind, pid, up, others, sweepVars, owner, port, bound, kept>>

\* Mutant: the server of an attachment that failed to prepare is kept.
WriteFailsKeepsServer(e) ==
    /\ step[e] = "write"
    /\ step' = [step EXCEPT ![e] = "idle"]
    /\ UNCHANGED <<kind, pid, up, others, busy, file, sweepVars, attVars>>

\* ... fails: prepare returns an error and the server is dropped.
WriteFails(e) ==
    /\ step[e] = "write"
    /\ bound' = bound \ {busy[e]}
    /\ busy' = [busy EXCEPT ![e] = None]
    /\ step' = [step EXCEPT ![e] = "idle"]
    /\ UNCHANGED <<kind, pid, up, others, file, sweepVars, owner, port, guard, kept>>

\* refresh_workspace_folders with a changed set: the file is written again,
\* and is back if a sweep had removed it.
RefreshWorkspaceFolders(e, a) ==
    /\ kind = "copilot" /\ e \in up /\ step[e] = "idle"
    /\ a \in guard /\ owner[a] = e
    /\ file' = [file EXCEPT ![NameOf(a)] = a]
    /\ UNCHANGED <<kind, pid, up, others, busy, step, sweepVars, attVars>>

-----------------------------------------------------------------------------
(* Dropping an attachment: its fields go in order of declaration. *)

Droppable(e, a) == e \in up /\ step[e] = "idle" /\ a \in guard /\ owner[a] = e

\* Copilot's directory with the socket goes first: no client can connect any
\* more, unless removing it fails.
DropSocketDir(e, a) ==
    /\ kind = "copilot" /\ Droppable(e, a)
    /\ bound' \in {bound, bound \ {a}}
    /\ busy' = [busy EXCEPT ![e] = a]
    /\ step' = [step EXCEPT ![e] = "unlink"]
    /\ UNCHANGED <<kind, pid, up, others, file, sweepVars, owner, port, guard, kept>>

\* Mutant: the server is declared, and dropped, before the lockfile guard.
DropServerFirst(e, a) ==
    /\ IF kind = "copilot" THEN step[e] = "unlink" /\ busy[e] = a ELSE Droppable(e, a)
    /\ bound' = bound \ {a}
    /\ busy' = [busy EXCEPT ![e] = a]
    /\ step' = [step EXCEPT ![e] = "drop"]
    /\ UNCHANGED <<kind, pid, up, others, file, sweepVars, owner, port, guard, kept>>

\* LockfileGuard::drop unlinks the file, if it is there; a failure is logged.
DropGuard(e, a) ==
    /\ IF kind = "copilot" THEN step[e] = "unlink" /\ busy[e] = a ELSE Droppable(e, a)
    /\ \/ /\ file' = [file EXCEPT ![NameOf(a)] = None]
          /\ UNCHANGED kept
       \/ /\ kept' = kept \cup {a}
          /\ UNCHANGED file
    /\ guard' = guard \ {a}
    /\ busy' = [busy EXCEPT ![e] = a]
    /\ step' = [step EXCEPT ![e] = "drop"]
    /\ UNCHANGED <<kind, pid, up, others, sweepVars, owner, port, bound>>

\* The server is dropped: its listener closes.
DropServer(e) ==
    /\ step[e] = "drop"
    /\ bound' = bound \ {busy[e]}
    /\ busy' = [busy EXCEPT ![e] = None]
    /\ step' = [step EXCEPT ![e] = "idle"]
    /\ UNCHANGED <<kind, pid, up, others, file, sweepVars, owner, port, guard, kept>>

-----------------------------------------------------------------------------

Next ==
    \/ \E e \in Editor :
        \/ StartEditor(e) \/ Crash(e)
        \/ Prepare(e) \/ SweepRemove(e) \/ BindFails(e)
        \/ WriteLockfile(e) \/ WriteFails(e) \/ DropServer(e)
        \/ \E n \in Name : SweepCheck(e, n) \/ SweepUnreadable(e, n)
        \/ \E a \in Att : Bind(e, a) \/ RefreshWorkspaceFolders(e, a)
                          \/ DropSocketDir(e, a) \/ DropGuard(e, a)
    \/ \E x \in Pid \cup Port : OtherStarts(x) \/ OtherStops(x)

Spec == Init /\ [][Next]_vars

-----------------------------------------------------------------------------
(* Properties. *)

\* Type invariant.
TypeOK ==
    /\ kind \in {"copilot", "claude"}
    /\ pid \in [Editor -> Pid \cup {None}]
    /\ up \subseteq Editor /\ others \subseteq Pid \cup Port
    /\ todo \in [Editor -> SUBSET Name] /\ leftover \in [Editor -> SUBSET Name]
    /\ victim \in [Editor -> Name \cup {None}]
    /\ busy \in [Editor -> Att \cup {None}]
    /\ step \in [Editor -> {"idle", "sweep", "write", "unlink", "drop"}]
    /\ \A e \in Editor : busy[e] # None <=> step[e] \in {"write", "unlink", "drop"}
    /\ owner \in [Att -> Editor \cup {None}]
    /\ port \in [Att -> Port \cup {None}]
    /\ bound \subseteq Att /\ guard \subseteq Att /\ kept \subseteq Att
    /\ file \in [Name -> Att \cup {None}]

\* "Holds an exclusive claim on a lockfile": while an attachment has its
\* guard, the file its guard will unlink is its own or none, although ports
\* are used again: the guard goes before the server gives the port back.
ExclusiveClaim == \A a \in guard : file[NameOf(a)] \in {a, None}

\* A file never sends a CLI to a server that a running editor has closed: it
\* is written after the server is bound, and gone when the attachment is, save
\* where its guard's unlink failed.  Copilot's is there a moment longer than
\* its socket, not more.
FileHasServer ==
    \A n \in Files : LET e == owner[file[n]] IN
        e \in up => \/ file[n] \in bound \cup kept
                    \/ step[e] = "unlink" /\ busy[e] = file[n]

\* No sweep, guard or crash of another editor removes the lockfile of a live
\* attachment.
LiveFileStays == \A a \in guard : file[NameOf(a)] = a

\* ... which holds for Copilot, whose files are never written by a second
\* editor under the name that a sweep has found stale.
CopilotFileStays == kind = "copilot" => LiveFileStays

\* Crash recovery: when a sweep that could list the directory is over, every
\* file that was stale when it began is gone, unless an error was met at this
\* very file or its PID or port was taken meanwhile: "a parse failure or fs
\* error on one file should not block sweeping the rest".
CrashLeftoversAreSwept ==
    \A e \in Editor : step[e] = "sweep" /\ todo[e] = {} /\ victim[e] = None =>
        leftover[e] \cap Files = {}

-----------------------------------------------------------------------------
(* The inductive invariant behind them. *)

\* Editors that run, or own attachments, have been started; servers and guards
\* go with their editor.
OwnersRun ==
    /\ \A e \in up : pid[e] # None
    /\ \A a \in Att : owner[a] # None => pid[owner[a]] # None
    /\ \A a \in bound \cup guard : owner[a] \in up

\* A file carries the name of the attachment it describes.
FilesNamed == \A n \in Files : owner[file[n]] # None /\ n = NameOf(file[n])

\* A port is given to one server at a time, and kept until the guard is gone.
PortsHeld ==
    kind = "claude" =>
        /\ guard \subseteq bound
        /\ \A a \in bound : port[a] \in Port
        /\ \A a, b \in bound : port[a] = port[b] => a = b

NoFile(a) == \A n \in Name : file[n] # a

\* What the attachment an editor is busy with has, at each step.
BusySound ==
    \A e \in Editor :
        /\ step[e] # "idle" => e \in up
        /\ step[e] \in {"write", "unlink", "drop"} => owner[busy[e]] = e
        /\ step[e] = "write" => busy[e] \in bound /\ busy[e] \notin guard /\ NoFile(busy[e])
        /\ step[e] = "unlink" => kind = "copilot" /\ busy[e] \in guard
        /\ step[e] = "drop" => busy[e] \notin guard /\ (busy[e] \in kept \/ NoFile(busy[e]))

\* A guard whose server is not there any more is the one about to be dropped.
GuardHasServer ==
    \A a \in guard : a \in bound \/ (step[owner[a]] = "unlink" /\ busy[owner[a]] = a)

\* The editor of an attachment has ended; it will not come back.
Gone(a) == a \in Att /\ owner[a] # None /\ owner[a] \notin up

\* What a sweep has yet to look at, and why what it unlinks belongs to nobody.
SweepSound ==
    \A e \in Editor :
        /\ victim[e] # None => step[e] = "sweep"
        /\ victim[e] # None /\ kind = "copilot" => Gone(victim[e])
        /\ step[e] = "sweep" => leftover[e] \cap Files \subseteq todo[e] \cup {victim[e]}
        /\ \A n \in leftover[e] :
            /\ kind = "copilot" => Gone(n) /\ (file[n] # None => pid[owner[n]] \notin PidsInUse)
            /\ kind = "claude" => n \notin PortsInUse

LockInv ==
    /\ TypeOK /\ OwnersRun /\ FilesNamed /\ PortsHeld /\ BusySound /\ GuardHasServer
    /\ SweepSound /\ ExclusiveClaim /\ FileHasServer /\ CopilotFileStays
=============================================================================
