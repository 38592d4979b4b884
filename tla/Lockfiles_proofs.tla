-------------------------- MODULE Lockfiles_proofs --------------------------
(***************************************************************************)
(* Proofs about the lockfile protocol: LockInv is inductive, and implies   *)
(* what the runs check of it, for every set of editors, attachments, PIDs  *)
(* and ports.                                                              *)
(*                                                                         *)
(* The argument rests on two facts.  An editor that is Gone does not come  *)
(* back, so a file that Copilot's sweep has found stale (its PID is not    *)
(* running, hence its owner is not up) stays without a guard until it is   *)
(* unlinked.  And a Claude server holds its port until the guard is gone   *)
(* (PortsHeld), so two guards never name the same file.  Nothing of the    *)
(* kind bounds Claude's own sweep: see LiveFileStays.                      *)
(***************************************************************************)
EXTENDS Lockfiles, TLAPS

\* pid[e] was None, so e owned nothing: whoever is Gone stays Gone.
LEMMA StartEditorInv ==
    ASSUME LockInv, NEW e \in Editor, StartEditor(e)
    PROVE  LockInv'
<1>1. FilesNamed' /\ PortsHeld' /\ GuardHasServer' /\ ExclusiveClaim' /\
   CopilotFileStays'
  BY DEF LockInv, StartEditor, attVars, FilesNamed, Files, NameOf, PortsHeld,
     GuardHasServer, ExclusiveClaim, CopilotFileStays, LiveFileStays
<1>2. TypeOK'
  BY DEF LockInv, StartEditor, attVars, TypeOK, NotReused, Name
<1>3. OwnersRun'
  BY NoneAssumption DEF LockInv, StartEditor, attVars, TypeOK, OwnersRun,
     NotReused
<1>4. BusySound'
  BY DEF LockInv, StartEditor, attVars, BusySound, NoFile
<1>5. SweepSound'
  BY NoneAssumption, NamesAssumption DEF LockInv, StartEditor, attVars,
     TypeOK, NotReused, SweepSound, Gone, Files, PidsInUse, PortsInUse, Name,
     NameOf, OwnersRun, BusySound, FilesNamed
<1>6. FileHasServer'
  BY NoneAssumption DEF LockInv, StartEditor, attVars, TypeOK, OwnersRun,
     NotReused, FileHasServer, Files
<1> QED BY <1>1, <1>2, <1>3, <1>4, <1>5, <1>6 DEF LockInv

\* What e owned goes; its sweep ends.
LEMMA CrashInv ==
    ASSUME LockInv, NEW e \in Editor, Crash(e)
    PROVE  LockInv'
<1>1. FilesNamed'
  BY DEF LockInv, Crash, FilesNamed, Files, NameOf
<1>2. TypeOK'
  BY DEF LockInv, Crash, TypeOK, Name
<1>3. OwnersRun'
  BY DEF LockInv, Crash, OwnersRun
<1>4. PortsHeld'
  BY DEF LockInv, Crash, PortsHeld
<1>5. BusySound'
  BY DEF LockInv, Crash, TypeOK, BusySound, NoFile
<1>6. GuardHasServer'
  BY DEF LockInv, Crash, GuardHasServer
<1>7. SweepSound'
  BY DEF LockInv, Crash, TypeOK, SweepSound, Gone, Files, PidsInUse,
     PortsInUse
<1>8. ExclusiveClaim'
  BY DEF LockInv, Crash, ExclusiveClaim, NameOf
<1>9. FileHasServer'
  BY DEF LockInv, Crash, FileHasServer, Files
<1>10. CopilotFileStays'
  BY DEF LockInv, Crash, CopilotFileStays, LiveFileStays, NameOf
<1> QED BY <1>1, <1>2, <1>3, <1>4, <1>5, <1>6, <1>7, <1>8, <1>9, <1>10 DEF
   LockInv

\* Leftovers whose PID or port is taken are leftovers no more.
LEMMA OtherStartsInv ==
    ASSUME LockInv, NEW x \in Pid \cup Port, OtherStarts(x)
    PROVE  LockInv'
<1>1. OwnersRun' /\ FilesNamed' /\ PortsHeld' /\ BusySound' /\ GuardHasServer'
   /\ ExclusiveClaim' /\ FileHasServer' /\ CopilotFileStays'
  BY DEF LockInv, OtherStarts, attVars, OwnersRun, FilesNamed, Files, NameOf,
     PortsHeld, BusySound, NoFile, GuardHasServer, ExclusiveClaim,
     FileHasServer, CopilotFileStays, LiveFileStays
<1>2. TypeOK'
  BY DEF LockInv, OtherStarts, attVars, TypeOK, NotReused, Name
<1>3. SweepSound'
  BY NoneAssumption, NamesAssumption DEF LockInv, OtherStarts, attVars,
     TypeOK, NotReused, SweepSound, Gone, Files, PidsInUse, PortsInUse, Name,
     NameOf, OwnersRun, BusySound, FilesNamed
<1> QED BY <1>1, <1>2, <1>3 DEF LockInv

\* A PID or a port that is given back was nobody's whom the invariant names.
LEMMA OtherStopsInv ==
    ASSUME LockInv, NEW x \in Pid \cup Port, OtherStops(x)
    PROVE  LockInv'
<1>1. OwnersRun' /\ FilesNamed' /\ PortsHeld' /\ BusySound' /\ GuardHasServer'
   /\ ExclusiveClaim' /\ FileHasServer' /\ CopilotFileStays'
  BY DEF LockInv, OtherStops, attVars, sweepVars, OwnersRun, FilesNamed,
     Files, NameOf, PortsHeld, BusySound, NoFile, GuardHasServer,
     ExclusiveClaim, FileHasServer, CopilotFileStays, LiveFileStays
<1>2. TypeOK'
  BY DEF LockInv, OtherStops, attVars, sweepVars, TypeOK, Name
<1>3. SweepSound'
  BY DEF LockInv, OtherStops, attVars, sweepVars, SweepSound, Gone, Files,
     PidsInUse, PortsInUse
<1> QED BY <1>1, <1>2, <1>3 DEF LockInv

\* The sweep begins with every file in todo; Stale is what SweepSound asks for.
LEMMA PrepareInv ==
    ASSUME LockInv, NEW e \in Editor, Prepare(e)
    PROVE  LockInv'
<1>1. OwnersRun' /\ FilesNamed' /\ PortsHeld' /\ ExclusiveClaim' /\
   CopilotFileStays'
  BY DEF LockInv, Prepare, attVars, OwnersRun, FilesNamed, Files, NameOf,
     PortsHeld, ExclusiveClaim, CopilotFileStays, LiveFileStays
<1>2. TypeOK'
  BY DEF LockInv, Prepare, attVars, TypeOK, Stale, Skipped, Files, Name
<1>3. BusySound'
  BY DEF LockInv, Prepare, attVars, BusySound, NoFile
<1>4. GuardHasServer'
  BY DEF LockInv, Prepare, attVars, GuardHasServer
<1>5. SweepSound'
  BY NoneAssumption, NamesAssumption DEF LockInv, Prepare, attVars, TypeOK,
     Stale, Skipped, Files, SweepSound, Gone, PidsInUse, PortsInUse, Name,
     NameOf, OwnersRun, BusySound, FilesNamed
<1>6. FileHasServer'
  BY DEF LockInv, Prepare, attVars, FileHasServer, Files
<1> QED BY <1>1, <1>2, <1>3, <1>4, <1>5, <1>6 DEF LockInv

\* A copilot file with a dead PID belongs to an editor that is Gone.
LEMMA SweepCheckInv ==
    ASSUME LockInv, NEW e \in Editor, NEW n \in Name, SweepCheck(e, n)
    PROVE  LockInv'
<1>1. OwnersRun' /\ FilesNamed' /\ PortsHeld' /\ BusySound' /\ GuardHasServer'
   /\ ExclusiveClaim' /\ FileHasServer' /\ CopilotFileStays'
  BY DEF LockInv, SweepCheck, attVars, OwnersRun, FilesNamed, Files, NameOf,
     PortsHeld, BusySound, NoFile, GuardHasServer, ExclusiveClaim,
     FileHasServer, CopilotFileStays, LiveFileStays
<1>2. TypeOK'
  BY DEF LockInv, SweepCheck, attVars, TypeOK, Name
<1>3. SweepSound'
  BY NoneAssumption, NamesAssumption DEF LockInv, SweepCheck, attVars, TypeOK,
     Skipped, SweepSound, Gone, Files, PidsInUse, PortsInUse, Name, NameOf,
     OwnersRun, BusySound, FilesNamed
<1> QED BY <1>1, <1>2, <1>3 DEF LockInv

\* An error at a file takes it off the leftovers, and off nothing else.
LEMMA SweepUnreadableInv ==
    ASSUME LockInv, NEW e \in Editor, NEW n \in Name, SweepUnreadable(e, n)
    PROVE  LockInv'
<1>1. OwnersRun' /\ FilesNamed' /\ PortsHeld' /\ BusySound' /\ GuardHasServer'
   /\ ExclusiveClaim' /\ FileHasServer' /\ CopilotFileStays'
  BY DEF LockInv, SweepUnreadable, attVars, OwnersRun, FilesNamed, Files, NameOf,
     PortsHeld, BusySound, NoFile, GuardHasServer, ExclusiveClaim,
     FileHasServer, CopilotFileStays, LiveFileStays
<1>2. TypeOK'
  BY DEF LockInv, SweepUnreadable, attVars, TypeOK, Name
<1>3. SweepSound'
  BY DEF LockInv, SweepUnreadable, attVars, TypeOK, SweepSound, Gone, Files,
     PidsInUse, PortsInUse
<1> QED BY <1>1, <1>2, <1>3 DEF LockInv

\* A victim of copilot is Gone, so no guard names it.
LEMMA SweepRemoveInv ==
    ASSUME LockInv, NEW e \in Editor, SweepRemove(e)
    PROVE  LockInv'
<1>1. OwnersRun' /\ PortsHeld' /\ GuardHasServer'
  BY DEF LockInv, SweepRemove, attVars, OwnersRun, PortsHeld, GuardHasServer
<1>2. TypeOK'
  BY DEF LockInv, SweepRemove, attVars, TypeOK, Name
<1>3. FilesNamed'
  BY NoneAssumption DEF LockInv, SweepRemove, attVars, TypeOK, Name, FilesNamed,
     Files, NameOf
<1>4. BusySound'
  BY DEF LockInv, SweepRemove, attVars, TypeOK, BusySound, NoFile
<1>5. SweepSound'
  BY DEF LockInv, SweepRemove, attVars, TypeOK, SweepSound, Gone, Files,
     PidsInUse, PortsInUse
<1>6. ExclusiveClaim'
  <2>1. \A n \in Name : file'[n] \in {file[n], None}
    BY DEF LockInv, SweepRemove, TypeOK
  <2>2. \A g \in guard : NameOf(g) \in Name
    BY DEF LockInv, TypeOK, PortsHeld, NameOf, Name
  <2>3. guard' \subseteq guard /\ kind' = kind /\ port' = port
    BY DEF SweepRemove, attVars
  <2> QED BY <2>1, <2>2, <2>3 DEF LockInv, ExclusiveClaim, NameOf
<1>7. FileHasServer'
  BY NoneAssumption DEF LockInv, SweepRemove, attVars, TypeOK, Name,
     FileHasServer, Files
<1>8. CopilotFileStays'
  BY NoneAssumption, NamesAssumption DEF LockInv, SweepRemove, attVars,
     TypeOK, CopilotFileStays, LiveFileStays, NameOf, Name, SweepSound, Gone,
     OwnersRun, BusySound
<1> QED BY <1>1, <1>2, <1>3, <1>4, <1>5, <1>6, <1>7, <1>8 DEF LockInv

\* A new attachment, whose port no other server holds.
LEMMA BindInv ==
    ASSUME LockInv, NEW e \in Editor, NEW a \in Att, Bind(e, a)
    PROVE  LockInv'
<1>1. TypeOK' /\ SweepSound' /\ ExclusiveClaim'
  <2>1. CASE kind = "copilot"
    <3>1. TypeOK'
      BY <2>1, NoneAssumption DEF LockInv, Bind, TypeOK, Name, NameOf, Files
    <3>2. SweepSound'
      BY <2>1, NoneAssumption DEF LockInv, Bind, TypeOK, SweepSound, Gone,
         Files, Name, NameOf, OwnersRun, PidsInUse, PortsInUse, BusySound,
         FilesNamed
    <3>3. ExclusiveClaim'
      BY <2>1, NoneAssumption DEF LockInv, Bind, TypeOK, ExclusiveClaim,
         NameOf, Name, FilesNamed, Files, PortsHeld, BusySound,
         GuardHasServer, OwnersRun
    <3> QED BY <3>1, <3>2, <3>3
  <2>2. CASE kind = "claude"
    <3>1. PICK q \in Port \ PortsInUse :
            /\ port' = [port EXCEPT ![a] = q]
            /\ leftover' = [NotReused(q) EXCEPT ![e] = {}]
      BY <2>2 DEF Bind
    <3>2. TypeOK'
      BY <2>2, <3>1, NoneAssumption, NamesAssumption DEF LockInv, Bind,
         TypeOK, NotReused, Name, NameOf, Files
    <3>3. SweepSound'
      BY <2>2, <3>1, NoneAssumption, NamesAssumption DEF LockInv, Bind,
         TypeOK, NotReused, SweepSound, Gone, Files, Name, NameOf, OwnersRun,
         PidsInUse, PortsInUse, BusySound, FilesNamed
    <3>4. ExclusiveClaim'
      BY <2>2, <3>1, NoneAssumption, NamesAssumption DEF LockInv, Bind,
         TypeOK, NotReused, ExclusiveClaim, NameOf, Name, FilesNamed, Files,
         PortsHeld, BusySound, GuardHasServer, OwnersRun
    <3> QED BY <3>2, <3>3, <3>4
  <2> QED BY <2>1, <2>2 DEF LockInv, TypeOK
<1>2. OwnersRun'
  BY NoneAssumption DEF LockInv, Bind, TypeOK, OwnersRun, BusySound,
     NotReused, Name, NameOf
<1>3. FilesNamed'
  BY DEF LockInv, Bind, TypeOK, FilesNamed, Files, NameOf
<1>4. PortsHeld'
  BY NoneAssumption, NamesAssumption DEF LockInv, Bind, TypeOK, NotReused,
     PortsHeld, PortsInUse, BusySound
<1>5. BusySound'
  BY NoneAssumption, NamesAssumption DEF LockInv, Bind, TypeOK, NotReused,
     BusySound, NoFile, OwnersRun, FilesNamed, Files, Name, NameOf, PortsHeld
<1>6. GuardHasServer'
  BY DEF LockInv, Bind, GuardHasServer
<1>7. FileHasServer'
  BY DEF LockInv, Bind, FileHasServer, Files
<1>8. CopilotFileStays'
  BY DEF LockInv, Bind, CopilotFileStays, LiveFileStays, NameOf
<1> QED BY <1>1, <1>2, <1>3, <1>4, <1>5, <1>6, <1>7, <1>8 DEF LockInv

\* The sweep is over, and nothing was bound.
LEMMA BindFailsInv ==
    ASSUME LockInv, NEW e \in Editor, BindFails(e)
    PROVE  LockInv'
<1>1. OwnersRun' /\ FilesNamed' /\ PortsHeld' /\ ExclusiveClaim' /\
   CopilotFileStays'
  BY DEF LockInv, BindFails, attVars, OwnersRun, FilesNamed, Files, NameOf,
     PortsHeld, ExclusiveClaim, CopilotFileStays, LiveFileStays
<1>2. TypeOK'
  BY DEF LockInv, BindFails, attVars, TypeOK, Name
<1>3. BusySound'
  BY DEF LockInv, BindFails, attVars, BusySound, NoFile
<1>4. GuardHasServer'
  BY DEF LockInv, BindFails, attVars, GuardHasServer
<1>5. SweepSound'
  BY DEF LockInv, BindFails, attVars, SweepSound, Gone, Files, PidsInUse,
     PortsInUse
<1>6. FileHasServer'
  BY DEF LockInv, BindFails, attVars, FileHasServer, Files
<1> QED BY <1>1, <1>2, <1>3, <1>4, <1>5, <1>6 DEF LockInv

\* The only file of busy[e]; who had its name before is no guard.
LEMMA WriteLockfileInv ==
    ASSUME LockInv, NEW e \in Editor, WriteLockfile(e)
    PROVE  LockInv'
<1>1. TypeOK'
  BY DEF LockInv, WriteLockfile, sweepVars, TypeOK, Name
<1>2. OwnersRun'
  BY NoneAssumption DEF LockInv, WriteLockfile, sweepVars, TypeOK, OwnersRun,
     BusySound, Name, NameOf
<1>3. FilesNamed'
  BY NoneAssumption DEF LockInv, WriteLockfile, sweepVars, TypeOK, OwnersRun,
     BusySound, FilesNamed, Files, NameOf, Name
<1>4. PortsHeld'
  BY NoneAssumption DEF LockInv, WriteLockfile, sweepVars, TypeOK, OwnersRun,
     BusySound, PortsHeld, Name, NameOf
<1>5. BusySound'
  BY DEF LockInv, WriteLockfile, sweepVars, TypeOK, BusySound, NoFile
<1>6. GuardHasServer'
  BY NoneAssumption DEF LockInv, WriteLockfile, sweepVars, TypeOK, OwnersRun,
     BusySound, GuardHasServer, Name, NameOf
<1>7. SweepSound'
  BY NoneAssumption DEF LockInv, WriteLockfile, sweepVars, TypeOK, OwnersRun,
     BusySound, SweepSound, Gone, Files, PidsInUse, PortsInUse, Name, NameOf
<1>8. ExclusiveClaim'
  BY NoneAssumption, NamesAssumption DEF LockInv, WriteLockfile, sweepVars,
     TypeOK, ExclusiveClaim, NameOf, Name, FilesNamed, Files, PortsHeld,
     BusySound, GuardHasServer, OwnersRun
<1>9. FileHasServer'
  BY NoneAssumption DEF LockInv, WriteLockfile, sweepVars, TypeOK, OwnersRun,
     BusySound, FileHasServer, Files, Name, NameOf
<1>10. CopilotFileStays'
  BY NoneAssumption DEF LockInv, WriteLockfile, sweepVars, TypeOK, OwnersRun,
     BusySound, CopilotFileStays, LiveFileStays, NameOf, Name
<1> QED BY <1>1, <1>2, <1>3, <1>4, <1>5, <1>6, <1>7, <1>8, <1>9, <1>10 DEF
   LockInv

\* busy[e] has no file to leave without a server.
LEMMA WriteFailsInv ==
    ASSUME LockInv, NEW e \in Editor, WriteFails(e)
    PROVE  LockInv'
<1>1. FilesNamed' /\ ExclusiveClaim' /\ CopilotFileStays'
  BY DEF LockInv, WriteFails, sweepVars, FilesNamed, Files, NameOf,
     ExclusiveClaim, CopilotFileStays, LiveFileStays
<1>2. TypeOK'
  BY DEF LockInv, WriteFails, sweepVars, TypeOK, Name
<1>3. OwnersRun'
  BY DEF LockInv, WriteFails, sweepVars, OwnersRun
<1>4. PortsHeld'
  BY NoneAssumption DEF LockInv, WriteFails, sweepVars, TypeOK, OwnersRun,
     BusySound, PortsHeld, Name, NameOf
<1>5. BusySound'
  BY DEF LockInv, WriteFails, sweepVars, TypeOK, BusySound, NoFile
<1>6. GuardHasServer'
  BY NoneAssumption DEF LockInv, WriteFails, sweepVars, TypeOK, OwnersRun,
     BusySound, GuardHasServer, Name, NameOf
<1>7. SweepSound'
  BY DEF LockInv, WriteFails, sweepVars, SweepSound, Gone, Files, PidsInUse,
     PortsInUse
<1>8. FileHasServer'
  BY NoneAssumption, NamesAssumption DEF LockInv, WriteFails, sweepVars,
     TypeOK, FileHasServer, Files, Name, NameOf, FilesNamed, OwnersRun,
     BusySound, ExclusiveClaim, NoFile, GuardHasServer
<1> QED BY <1>1, <1>2, <1>3, <1>4, <1>5, <1>6, <1>7, <1>8 DEF LockInv

\* A file with the name of its own attachment, whose server is bound.
LEMMA RefreshWorkspaceFoldersInv ==
    ASSUME LockInv, NEW e \in Editor, NEW a \in Att, RefreshWorkspaceFolders(e, a)
    PROVE  LockInv'
<1>1. OwnersRun' /\ PortsHeld' /\ GuardHasServer'
  BY DEF LockInv, RefreshWorkspaceFolders, attVars, sweepVars, OwnersRun,
     PortsHeld, GuardHasServer
<1>2. TypeOK'
  BY DEF LockInv, RefreshWorkspaceFolders, attVars, sweepVars, TypeOK, Name
<1>3. FilesNamed'
  BY NoneAssumption DEF LockInv, RefreshWorkspaceFolders, attVars, sweepVars,
     TypeOK, OwnersRun, FilesNamed, Files, NameOf
<1>4. BusySound'
  BY DEF LockInv, RefreshWorkspaceFolders, attVars, sweepVars, BusySound,
     NoFile
<1>5. SweepSound'
  BY NoneAssumption DEF LockInv, RefreshWorkspaceFolders, attVars, sweepVars,
     TypeOK, OwnersRun, BusySound, SweepSound, Gone, Files, PidsInUse,
     PortsInUse, Name, NameOf
<1>6. ExclusiveClaim'
  BY DEF LockInv, RefreshWorkspaceFolders, attVars, sweepVars, ExclusiveClaim,
     NameOf
<1>7. FileHasServer'
  BY NoneAssumption, NamesAssumption DEF LockInv, RefreshWorkspaceFolders,
     attVars, sweepVars, TypeOK, FileHasServer, Files, Name, NameOf,
     FilesNamed, OwnersRun, BusySound, ExclusiveClaim, NoFile, GuardHasServer
<1>8. CopilotFileStays'
  BY DEF LockInv, RefreshWorkspaceFolders, attVars, sweepVars,
     CopilotFileStays, LiveFileStays, NameOf
<1> QED BY <1>1, <1>2, <1>3, <1>4, <1>5, <1>6, <1>7, <1>8 DEF LockInv

\* The guard outlives its socket, at step unlink only.
LEMMA DropSocketDirInv ==
    ASSUME LockInv, NEW e \in Editor, NEW a \in Att, DropSocketDir(e, a)
    PROVE  LockInv'
<1>1. FilesNamed' /\ ExclusiveClaim' /\ CopilotFileStays'
  BY DEF LockInv, DropSocketDir, sweepVars, FilesNamed, Files, NameOf,
     ExclusiveClaim, CopilotFileStays, LiveFileStays
<1>2. TypeOK'
  BY NoneAssumption DEF LockInv, DropSocketDir, sweepVars, TypeOK, OwnersRun,
     Droppable, Name
<1>3. OwnersRun'
  BY DEF LockInv, DropSocketDir, sweepVars, OwnersRun
<1>4. PortsHeld'
  BY DEF LockInv, DropSocketDir, sweepVars, PortsHeld
<1>5. BusySound'
  BY DEF LockInv, DropSocketDir, sweepVars, TypeOK, Droppable, BusySound,
     NoFile
<1>6. GuardHasServer'
  BY DEF LockInv, DropSocketDir, sweepVars, TypeOK, Droppable, GuardHasServer
<1>7. SweepSound'
  BY DEF LockInv, DropSocketDir, sweepVars, TypeOK, Droppable, SweepSound,
     Gone, Files, PidsInUse, PortsInUse
<1>8. FileHasServer'
  BY DEF LockInv, DropSocketDir, sweepVars, TypeOK, Droppable, FileHasServer,
     Files
<1> QED BY <1>1, <1>2, <1>3, <1>4, <1>5, <1>6, <1>7, <1>8 DEF LockInv

\* Only the file of a itself goes.
LEMMA DropGuardInv ==
    ASSUME LockInv, NEW e \in Editor, NEW a \in Att, DropGuard(e, a)
    PROVE  LockInv'
<1>1. TypeOK'
  BY NoneAssumption DEF LockInv, DropGuard, sweepVars, TypeOK, OwnersRun,
     Droppable, Name
<1>2. OwnersRun'
  BY DEF LockInv, DropGuard, sweepVars, OwnersRun
<1>3. FilesNamed'
  BY NoneAssumption DEF LockInv, DropGuard, sweepVars, TypeOK, Name, FilesNamed,
     Files, NameOf
<1>4. PortsHeld'
  BY DEF LockInv, DropGuard, sweepVars, PortsHeld
<1>5. BusySound'
  BY NoneAssumption, NamesAssumption DEF LockInv, DropGuard, sweepVars,
     TypeOK, Droppable, BusySound, NoFile, OwnersRun, FilesNamed, Files, Name,
     NameOf, PortsHeld
<1>6. GuardHasServer'
  BY DEF LockInv, DropGuard, sweepVars, TypeOK, Droppable, GuardHasServer
<1>7. SweepSound'
  BY DEF LockInv, DropGuard, sweepVars, TypeOK, Droppable, SweepSound, Gone,
     Files, PidsInUse, PortsInUse
<1>8. ExclusiveClaim'
  <2>1. \A n \in Name : file'[n] \in {file[n], None}
    BY DEF LockInv, DropGuard, TypeOK
  <2>2. \A g \in guard : NameOf(g) \in Name
    BY DEF LockInv, TypeOK, PortsHeld, NameOf, Name
  <2>3. guard' \subseteq guard /\ kind' = kind /\ port' = port
    BY DEF DropGuard, attVars
  <2> QED BY <2>1, <2>2, <2>3 DEF LockInv, ExclusiveClaim, NameOf
<1>9. FileHasServer'
  BY NoneAssumption, NamesAssumption DEF LockInv, DropGuard, sweepVars,
     TypeOK, Droppable, FileHasServer, Files, Name, NameOf, FilesNamed,
     OwnersRun, BusySound, ExclusiveClaim, NoFile, GuardHasServer
<1>10. CopilotFileStays'
  BY NoneAssumption DEF LockInv, DropGuard, sweepVars, TypeOK, Name,
     CopilotFileStays, LiveFileStays, NameOf
<1> QED BY <1>1, <1>2, <1>3, <1>4, <1>5, <1>6, <1>7, <1>8, <1>9, <1>10 DEF
   LockInv

\* busy[e] has neither guard nor file any more.
LEMMA DropServerInv ==
    ASSUME LockInv, NEW e \in Editor, DropServer(e)
    PROVE  LockInv'
<1>1. FilesNamed' /\ ExclusiveClaim' /\ CopilotFileStays'
  BY DEF LockInv, DropServer, sweepVars, FilesNamed, Files, NameOf,
     ExclusiveClaim, CopilotFileStays, LiveFileStays
<1>2. TypeOK'
  BY DEF LockInv, DropServer, sweepVars, TypeOK, Name
<1>3. OwnersRun'
  BY DEF LockInv, DropServer, sweepVars, OwnersRun
<1>4. PortsHeld'
  BY NoneAssumption DEF LockInv, DropServer, sweepVars, TypeOK, OwnersRun,
     BusySound, PortsHeld, Name, NameOf
<1>5. BusySound'
  BY DEF LockInv, DropServer, sweepVars, TypeOK, BusySound, NoFile
<1>6. GuardHasServer'
  BY NoneAssumption DEF LockInv, DropServer, sweepVars, TypeOK, OwnersRun,
     BusySound, GuardHasServer, Name, NameOf
<1>7. SweepSound'
  BY DEF LockInv, DropServer, sweepVars, SweepSound, Gone, Files, PidsInUse,
     PortsInUse
<1>8. FileHasServer'
  BY NoneAssumption, NamesAssumption DEF LockInv, DropServer, sweepVars,
     TypeOK, FileHasServer, Files, Name, NameOf, FilesNamed, OwnersRun,
     BusySound, ExclusiveClaim, NoFile, GuardHasServer
<1> QED BY <1>1, <1>2, <1>3, <1>4, <1>5, <1>6, <1>7, <1>8 DEF LockInv

-----------------------------------------------------------------------------
\* The empty directory satisfies the invariant.
LEMMA InitLock == Init => LockInv
<1> SUFFICES ASSUME Init PROVE LockInv
  OBVIOUS
<1>1. TypeOK
  BY DEF Init, TypeOK, Name
<1>2. OwnersRun /\ FilesNamed /\ PortsHeld /\ BusySound /\ GuardHasServer
  BY <1>1 DEF Init, OwnersRun, FilesNamed, Files, PortsHeld, BusySound,
     GuardHasServer, TypeOK
<1>3. SweepSound /\ ExclusiveClaim /\ FileHasServer /\ CopilotFileStays
  BY <1>1 DEF Init, SweepSound, Files, ExclusiveClaim, FileHasServer,
     CopilotFileStays, LiveFileStays, TypeOK
<1> QED BY <1>1, <1>2, <1>3 DEF LockInv

\* A step that leaves every variable alone preserves the invariant.
LEMMA StutterLock == LockInv /\ UNCHANGED vars => LockInv'
<1> SUFFICES ASSUME LockInv, UNCHANGED vars PROVE LockInv'
  OBVIOUS
<1> USE DEF vars, sweepVars, attVars, LockInv
<1>1. TypeOK' /\ OwnersRun' /\ PortsHeld' /\ BusySound' /\ GuardHasServer'
  BY DEF TypeOK, Name, OwnersRun, PortsHeld, BusySound, NoFile, GuardHasServer
<1>2. FilesNamed' /\ ExclusiveClaim' /\ FileHasServer' /\ CopilotFileStays'
  BY DEF FilesNamed, Files, NameOf, ExclusiveClaim, FileHasServer,
     CopilotFileStays, LiveFileStays
<1>3. SweepSound'
  BY DEF SweepSound, Gone, Files, PidsInUse, PortsInUse
<1> QED BY <1>1, <1>2, <1>3

\* Every step of every editor, and of the programs beside them, preserves it.
LEMMA NextLock == LockInv /\ [Next]_vars => LockInv'
<1> SUFFICES ASSUME LockInv, [Next]_vars PROVE LockInv'
  OBVIOUS
<1>1. CASE Next
  <2>1. ASSUME NEW e \in Editor, StartEditor(e)
        PROVE  LockInv'
    BY <2>1, StartEditorInv
  <2>2. ASSUME NEW e \in Editor, Crash(e)
        PROVE  LockInv'
    BY <2>2, CrashInv
  <2>3. ASSUME NEW x \in Pid \cup Port, OtherStarts(x)
        PROVE  LockInv'
    BY <2>3, OtherStartsInv
  <2>4. ASSUME NEW x \in Pid \cup Port, OtherStops(x)
        PROVE  LockInv'
    BY <2>4, OtherStopsInv
  <2>5. ASSUME NEW e \in Editor, Prepare(e)
        PROVE  LockInv'
    BY <2>5, PrepareInv
  <2>6. ASSUME NEW e \in Editor, NEW n \in Name, SweepCheck(e, n)
        PROVE  LockInv'
    BY <2>6, SweepCheckInv
  <2>7. ASSUME NEW e \in Editor, SweepRemove(e)
        PROVE  LockInv'
    BY <2>7, SweepRemoveInv
  <2>8. ASSUME NEW e \in Editor, NEW a \in Att, Bind(e, a)
        PROVE  LockInv'
    BY <2>8, BindInv
  <2>9. ASSUME NEW e \in Editor, BindFails(e)
        PROVE  LockInv'
    BY <2>9, BindFailsInv
  <2>10. ASSUME NEW e \in Editor, WriteLockfile(e)
        PROVE  LockInv'
    BY <2>10, WriteLockfileInv
  <2>11. ASSUME NEW e \in Editor, WriteFails(e)
        PROVE  LockInv'
    BY <2>11, WriteFailsInv
  <2>12. ASSUME NEW e \in Editor, NEW a \in Att, RefreshWorkspaceFolders(e, a)
        PROVE  LockInv'
    BY <2>12, RefreshWorkspaceFoldersInv
  <2>13. ASSUME NEW e \in Editor, NEW a \in Att, DropSocketDir(e, a)
        PROVE  LockInv'
    BY <2>13, DropSocketDirInv
  <2>14. ASSUME NEW e \in Editor, NEW a \in Att, DropGuard(e, a)
        PROVE  LockInv'
    BY <2>14, DropGuardInv
  <2>15. ASSUME NEW e \in Editor, DropServer(e)
        PROVE  LockInv'
    BY <2>15, DropServerInv
  <2>16. ASSUME NEW e \in Editor, NEW n \in Name, SweepUnreadable(e, n)
        PROVE  LockInv'
    BY <2>16, SweepUnreadableInv
  <2> QED BY <1>1, <2>1, <2>2, <2>3, <2>4, <2>5, <2>6, <2>7, <2>8, <2>9, <2>10, <2>11, <2>12, <2>13, <2>14, <2>15,
     <2>16 DEF Next
<1>2. CASE UNCHANGED vars
  BY <1>2, StutterLock
<1> QED BY <1>1, <1>2

\* The lockfile protocol of prepare and drop keeps its inductive invariant, for
\* any number of editors, attachments, PIDs and ports.
THEOREM LockInvariance == Spec => []LockInv
BY InitLock, NextLock, PTL DEF Spec

\* The variables of prepare, drop and the sweep keep their types.
THEOREM LockTypeCorrect == Spec => []TypeOK
<1>1. LockInv => TypeOK
  BY DEF LockInv
<1> QED BY <1>1, LockInvariance, PTL

\* LockfileGuard::drop never unlinks the file of another attachment.
THEOREM ClaimIsExclusive == Spec => []ExclusiveClaim
<1>1. LockInv => ExclusiveClaim
  BY DEF LockInv
<1> QED BY <1>1, LockInvariance, PTL

\* A lockfile of a running editor leads to a server that it has bound.
THEOREM FilesHaveServers == Spec => []FileHasServer
<1>1. LockInv => FileHasServer
  BY DEF LockInv
<1> QED BY <1>1, LockInvariance, PTL

\* Copilot's sweep, by PID, never unlinks the file of a live attachment.
THEOREM CopilotFilesStay == Spec => []CopilotFileStays
<1>1. LockInv => CopilotFileStays
  BY DEF LockInv
<1> QED BY <1>1, LockInvariance, PTL

\* A sweep that is over has removed every file that was stale when it began,
\* but the ones at which it met an error itself.
THEOREM LeftoversAreSwept == Spec => []CrashLeftoversAreSwept
<1>1. LockInv => CrashLeftoversAreSwept
  BY NoneAssumption DEF LockInv, TypeOK, SweepSound, CrashLeftoversAreSwept, Files, Name
<1> QED BY <1>1, LockInvariance, PTL
=============================================================================
