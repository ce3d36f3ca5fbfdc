------------------------------ MODULE Scaffold ------------------------------
(***************************************************************************)
(* The project generator of internal/scaffold/scaffold.go, and the wahoo     *)
(* command of cmd/wahoo/main.go that runs it: Create, Add and Upgrade, each a *)
(* sequence of file system steps that may fail and between which the process *)
(* may be killed; new and add then run go mod tidy and go mod vendor.  New   *)
(* files are created exclusively; the route list, go.mod and the project     *)
(* metadata are replaced through a temporary file and a rename.  Several     *)
(* invocations may work on one directory.                                   *)
(*                                                                         *)
(* A file is absent, partial or full; only the contents the generator reads *)
(* back are kept.  The template files beside routes.go and go.mod stand for *)
(* one, ".dockerignore", the first that Create writes.                      *)
(***************************************************************************)
EXTENDS Integers, SequencesExt

CONSTANTS
    Procs,              \* concurrent invocations of the command
    Modules,            \* the modules that are requested
    Requests,           \* module arguments: sequences without repetition
    Versions,           \* framework versions, numbered from 1
    FrameworkVersion,   \* the version of this generator
    LegacyModules,      \* the modules.json of a project without project.json
    LegacyRoutes,       \* and the registrations in its routes.go
    MaxSessions,        \* bound: invocations that are started
    MaxCrashes          \* bound: invocations that are killed

(* moduleSpecs: the files of a module and whether it registers routes.       *)
Single(f) == [files |-> <<f>>, registers |-> TRUE]

moduleSpecs ==
    [auth      |-> Single("app/auth.go"),
     sse       |-> Single("app/sse.go"),
     websocket |-> Single("app/websocket.go"),
     openapi   |-> [files |-> <<"app/openapi.go", "app/openapi.json">>,
                    registers |-> TRUE],
     jobs      |-> [files |-> <<"app/jobs.go", "cmd/worker/main.go">>,
                    registers |-> FALSE],
     uploads   |-> Single("app/uploads.go"),
     mail      |-> Single("app/mail.go"),
     audit     |-> Single("app/audit.go"),
     webhooks  |-> Single("app/webhooks.go"),
     entitlements |-> Single("app/entitlements.go"),
     billing   |-> Single("app/billing.go")]

FilesOf(m) == moduleSpecs[m].files
Registers(m) == moduleSpecs[m].registers

ASSUME ScaffoldAssumption ==
    /\ "none" \notin Procs
    /\ Modules \subseteq DOMAIN moduleSpecs
    /\ Requests \subseteq Seq(Modules)
    /\ Versions \subseteq Nat \ {0}
    /\ FrameworkVersion \in Versions
    /\ LegacyModules \in Seq(Modules)
    /\ LegacyRoutes \in Seq(Modules)
    /\ IsInjective(LegacyRoutes)
    /\ ToSet(LegacyRoutes) = {m \in ToSet(LegacyModules) : Registers(m)}
    /\ MaxSessions \in Nat
    /\ MaxCrashes \in Nat

RoutesFile   == "app/routes.go"
GoModFile    == "go.mod"
ManifestFile == ".wahoo/project.json"

BaseFiles   == <<".dockerignore", RoutesFile, GoModFile>>   \* in walk order
Managed     == {RoutesFile, GoModFile, ManifestFile}
ModuleFiles == UNION {ToSet(FilesOf(m)) : m \in Modules}
Files       == ToSet(BaseFiles) \cup Managed \cup ModuleFiles

VARIABLES
    files,      \* [Files -> {"absent", "partial", "full"}]
    routes,     \* the registrations in routes.go, in order
    goMod,      \* the framework version that go.mod requires
    manifest,   \* the contents of project.json
    replaced,   \* go.mod replaces the framework by a local checkout
    tmp,        \* [Managed -> the file's ".wahoo.tmp"]
    writer,     \* [Managed -> who opened the file under its temporary name
                \*             and had not written it when it was renamed]
    legacy,     \* modules.json is there
    built,      \* what the go command did since the sources last changed
    sess,       \* [Procs -> the invocation's local state]
    answer,     \* what the latest step returned to its user, if it did
    sessions,   \* number of invocations started
    crashes,    \* number of invocations killed
    overlapped  \* history: two invocations ran at the same time

contents == <<routes, goMod, manifest, replaced>>
disk == <<files, contents, tmp, writer, legacy>>
vars == <<disk, built, sess, answer, sessions, crashes, overlapped>>

-----------------------------------------------------------------------------
NoProject == [format |-> 0, modules |-> << >>, version |-> 0]

Blank == [project |-> NoProject, routes |-> << >>, version |-> 0]

NoTmp == [state |-> "absent", owner |-> "none", data |-> Blank]

Idle == [pc |-> "idle", cmd |-> "none", mods |-> << >>, apply |-> FALSE,
         project |-> NoProject, routes |-> << >>, version |-> 0,
         todo |-> << >>, out |-> "none", failed |-> FALSE, local |-> "read"]

Unbuilt == [tidied |-> FALSE, vendored |-> FALSE]

Exists(f) == files[f] # "absent"

FormatVersion == 1

Running(p) == sess[p].pc # "idle"

Init ==
    /\ legacy \in BOOLEAN
    /\ files = [f \in Files |->
          IF /\ legacy
             /\ \/ f \in ToSet(BaseFiles)
                \/ \E m \in ToSet(LegacyModules) : f \in ToSet(FilesOf(m))
          THEN "full" ELSE "absent"]
    /\ routes = IF legacy THEN LegacyRoutes ELSE << >>
    /\ goMod = IF legacy THEN FrameworkVersion ELSE 0
    /\ manifest = NoProject
    /\ replaced \in IF legacy THEN BOOLEAN ELSE {FALSE}
    /\ built = Unbuilt
    /\ tmp = [f \in Managed |-> NoTmp]
    /\ writer = [f \in Managed |-> "none"]
    /\ sess = [p \in Procs |-> Idle]
    /\ answer = "none"
    /\ sessions = 0
    /\ crashes = 0
    /\ overlapped = FALSE

-----------------------------------------------------------------------------
(* Control: a step of an invocation, and the ways it ends.                   *)

Step(p, s) ==
    /\ sess' = [sess EXCEPT ![p] = s]
    /\ answer' = "none"
    /\ UNCHANGED <<legacy, sessions, crashes, overlapped>>

Goto(p, l) == Step(p, [sess[p] EXCEPT !.pc = l])

(* The generator has done its work: the command goes on to the go command.    *)
Build(p) ==
    Step(p, [Idle EXCEPT !.pc = "tidy", !.cmd = sess[p].cmd,
                         !.mods = sess[p].mods, !.local = sess[p].local])

Finish(p, a) ==
    /\ sess' = [sess EXCEPT ![p] = Idle]
    /\ answer' = a
    /\ UNCHANGED <<legacy, sessions, crashes, overlapped>>

Start(p, s) ==
    /\ ~Running(p)
    /\ sessions < MaxSessions
    /\ sessions' = sessions + 1
    /\ sess' = [sess EXCEPT ![p] = s]
    /\ answer' = "none"
    /\ overlapped' = (overlapped \/ \E q \in Procs \ {p} : Running(q))
    /\ UNCHANGED <<disk, crashes>>

(* Arguments, links, permissions or a read that fails: an error, and this    *)
(* step changed nothing.                                                     *)
FailReading(p) ==
    /\ sess[p].pc \in {"readManifest", "readRoutes", "readGoMod",
                       "check", "readVersion"}
    /\ Finish(p, "error")
    /\ UNCHANGED <<files, contents, tmp, writer>>

Crash(p) ==
    /\ Running(p)
    /\ crashes < MaxCrashes
    /\ crashes' = crashes + 1
    /\ sess' = [sess EXCEPT ![p] = Idle]
    /\ answer' = "none"
    /\ UNCHANGED <<disk, sessions, overlapped>>

-----------------------------------------------------------------------------
(* The additions: the requested modules that the metadata does not list.  The *)
(* loop over them writes a module's files and then appends it to the module   *)
(* list and, if it registers routes, to the route list.                      *)
Missing(s) ==
    {i \in DOMAIN s.mods : s.mods[i] \notin ToSet(s.project.modules)}

NextAddition(s) == s.mods[Min(Missing(s))]

NextModule(s) ==
    IF Missing(s) # {}
    THEN [s EXCEPT !.pc = "create", !.todo = FilesOf(NextAddition(s))]
    ELSE [s EXCEPT !.pc = IF s.out = RoutesFile THEN "open"
                          ELSE "readVersion"]

ModuleWritten(s) ==
    LET m == NextAddition(s)
        project == [s.project EXCEPT !.modules = Append(@, m)] IN
    IF Registers(m)
    THEN [s EXCEPT !.project = project, !.routes = Append(@, m),
                   !.out = RoutesFile]
    ELSE [s EXCEPT !.project = project]

-----------------------------------------------------------------------------
(* Variants of the operators below, each with one slip a maintainer could    *)
(* make; they are not part of the specification.                             *)

FilesWrittenAlwaysRoutes(s) ==
    IF s.cmd = "create" THEN [s EXCEPT !.pc = "open", !.out = ManifestFile]
    ELSE LET t == ModuleWritten(s) IN
         IF Missing(t) # {} THEN NextModule(t) ELSE [t EXCEPT !.pc = "open"]

CreateFileTruncating(p) ==
    /\ sess[p].pc = "create"
    /\ files' = [files EXCEPT ![Head(sess[p].todo)] = "partial"]
    /\ Goto(p, "fill")
    /\ UNCHANGED <<contents, tmp, writer>>

ReadGoModOnly(p) ==
    LET s == sess[p] IN
    /\ s.pc = "readGoMod"
    /\ files[GoModFile] = "full"
    /\ \/ /\ s.apply /\ goMod # s.version
          /\ Step(p, [s EXCEPT !.pc = "open", !.out = GoModFile])
       \/ /\ ~s.apply \/ goMod = s.version
          /\ Finish(p, "ok")
    /\ UNCHANGED <<files, contents, tmp, writer>>

-----------------------------------------------------------------------------
(* writeNewFile, for each file of sess[p].todo: create, write and close, or  *)
(* remove what was created and fail.                                         *)

FilesWritten(s) ==
    IF s.cmd = "create" THEN [s EXCEPT !.pc = "open", !.out = ManifestFile]
    ELSE NextModule(ModuleWritten(s))

CreateFile(p) ==
    /\ sess[p].pc = "create"
    /\ ~Exists(Head(sess[p].todo))
    /\ files' = [files EXCEPT ![Head(sess[p].todo)] = "partial"]
    /\ Goto(p, "fill")
    /\ UNCHANGED <<contents, tmp, writer>>

CreateFails(p) ==
    /\ sess[p].pc = "create"
    /\ Finish(p, "error")
    /\ UNCHANGED <<files, contents, tmp, writer>>

FillFile(p) ==
    LET f == Head(sess[p].todo)
        s == [sess[p] EXCEPT !.todo = Tail(@), !.pc = "create"] IN
    /\ sess[p].pc = "fill"
    /\ files' = [files EXCEPT ![f] = "full"]
    /\ routes' = IF f = RoutesFile THEN << >> ELSE routes
    /\ goMod' = IF f = GoModFile THEN FrameworkVersion ELSE goMod
    /\ replaced' = IF f = GoModFile THEN sess[p].local = "yes" ELSE replaced
    /\ Step(p, IF s.todo = << >> THEN FilesWritten(s) ELSE s)
    /\ UNCHANGED <<manifest, tmp, writer>>

FillShortWrite(p) ==    \* variant: the count that Write returns is ignored
    LET s == [sess[p] EXCEPT !.todo = Tail(@), !.pc = "create"] IN
    /\ sess[p].pc = "fill"
    /\ Step(p, IF s.todo = << >> THEN FilesWritten(s) ELSE s)
    /\ UNCHANGED <<files, contents, tmp, writer>>

FillFails(p) ==
    /\ sess[p].pc = "fill"
    /\ files' = [files EXCEPT ![Head(sess[p].todo)] = "absent"]
    /\ Finish(p, "error")
    /\ UNCHANGED <<contents, tmp, writer>>

-----------------------------------------------------------------------------
(* writeAtomic of the managed file sess[p].out: an exclusive temporary file, *)
(* a rename, and the deferred removal of whatever then has the temporary     *)
(* name.  writeManifest writes through it too.                               *)

Payload(s) ==
    [project |-> [s.project EXCEPT !.format = FormatVersion,
                                   !.version = s.version],
     routes  |-> s.routes,
     version |-> s.version]

OpenTmp(p) ==
    /\ sess[p].pc = "open"
    /\ tmp[sess[p].out].state = "absent"
    /\ tmp' = [tmp EXCEPT ![sess[p].out] =
          [state |-> "partial", owner |-> p, data |-> Payload(sess[p])]]
    /\ writer' = [writer EXCEPT ![sess[p].out] = IF @ = p THEN "none" ELSE @]
    /\ Goto(p, "write")
    /\ UNCHANGED <<files, contents>>

OpenTmpFails(p) ==
    /\ sess[p].pc = "open"
    /\ Finish(p, "error")
    /\ UNCHANGED <<files, contents, tmp, writer>>

Discard(p) == Step(p, [sess[p] EXCEPT !.pc = "remove", !.failed = TRUE])

(* The write goes to the file this invocation opened: it may have lost its    *)
(* temporary name to another's deferred removal, and it is the target itself *)
(* when another's rename has moved it there.                                 *)
WriteTmp(p) ==
    LET f == sess[p].out IN
    /\ sess[p].pc = "write"
    /\ \/ /\ tmp' = IF tmp[f].owner = p
                    THEN [tmp EXCEPT ![f].state = "full"] ELSE tmp
          /\ files' = IF writer[f] = p
                      THEN [files EXCEPT ![f] = "full"] ELSE files
          /\ Goto(p, "rename")
       \/ Discard(p) /\ UNCHANGED <<files, tmp>>
    /\ UNCHANGED <<contents, writer>>

RenameTmp(p) ==
    LET f == sess[p].out
        t == tmp[f] IN
    /\ sess[p].pc = "rename"
    /\ t.state # "absent"
    /\ files' = [files EXCEPT ![f] = t.state]
    /\ writer' = [writer EXCEPT ![f] =
                     IF t.state = "partial" THEN t.owner ELSE "none"]
    /\ routes' = IF f = RoutesFile THEN t.data.routes ELSE routes
    /\ goMod' = IF f = GoModFile THEN t.data.version ELSE goMod
    /\ manifest' = IF f = ManifestFile THEN t.data.project ELSE manifest
    /\ tmp' = [tmp EXCEPT ![f] = NoTmp]
    /\ Goto(p, "remove")
    /\ UNCHANGED replaced

RenameFails(p) ==
    /\ sess[p].pc = "rename"
    /\ Discard(p)
    /\ UNCHANGED <<files, contents, tmp, writer>>

ProjectChanged(s) ==
    \/ s.project.format # FormatVersion
    \/ s.project.version # s.version

(* What each command does after a managed file is in place.                  *)
Continue(p) ==
    LET s == sess[p] IN
    \/ /\ s.out = RoutesFile
       /\ Goto(p, "readVersion")
    \/ /\ s.out = GoModFile
       /\ ProjectChanged(s)
       /\ Step(p, [s EXCEPT !.pc = "open", !.out = ManifestFile])
    \/ /\ s.out = GoModFile
       /\ ~ProjectChanged(s)
       /\ Finish(p, "ok")
    \/ /\ s.out = ManifestFile
       /\ s.cmd = "create" /\ s.mods # << >>
       /\ Step(p, [Idle EXCEPT !.pc = "readManifest", !.cmd = "add",
                               !.mods = s.mods, !.local = s.local])
    \/ /\ s.out = ManifestFile
       /\ s.cmd = "add" \/ (s.cmd = "create" /\ s.mods = << >>)
       /\ Build(p)
    \/ /\ s.out = ManifestFile
       /\ s.cmd = "upgrade"
       /\ Finish(p, "ok")

RemoveTmp(p) ==
    /\ sess[p].pc = "remove"
    /\ tmp' = [tmp EXCEPT ![sess[p].out] = NoTmp]
    /\ IF sess[p].failed THEN Finish(p, "error") ELSE Continue(p)
    /\ UNCHANGED <<files, contents, writer>>

-----------------------------------------------------------------------------
(* Create: an empty directory, the template files, the metadata, and then    *)
(* the requested modules through Add.                                        *)
StartCreate(p, ms, local) ==
    /\ \A f \in Files : ~Exists(f)
    /\ \A f \in Managed : tmp[f] = NoTmp
    /\ Start(p, [Idle EXCEPT !.pc = "create", !.cmd = "create", !.mods = ms,
                             !.todo = BaseFiles, !.version = FrameworkVersion,
                             !.local = IF local THEN "yes" ELSE "no"])

StartAdd(p, ms) ==
    /\ ms # << >>
    /\ Start(p, [Idle EXCEPT !.pc = "readManifest", !.cmd = "add",
                             !.mods = ms])

StartUpgrade(p, v, apply) ==
    Start(p, [Idle EXCEPT !.pc = "readManifest", !.cmd = "upgrade",
                          !.version = v, !.apply = apply])

(* readManifest: project.json or, without it, a legacy modules.json.         *)
IsProject ==
    files[ManifestFile] = "full" \/ (~Exists(ManifestFile) /\ legacy)

StoredProject ==
    IF Exists(ManifestFile) THEN manifest
    ELSE [NoProject EXCEPT !.modules = LegacyModules]

ReadManifest(p) ==
    /\ sess[p].pc = "readManifest"
    /\ IsProject
    /\ Step(p, [sess[p] EXCEPT !.project = StoredProject,
                !.pc = IF sess[p].cmd = "add" THEN "readRoutes"
                       ELSE "readGoMod"])
    /\ UNCHANGED <<files, contents, tmp, writer>>

ReadRoutes(p) ==
    /\ sess[p].pc = "readRoutes"
    /\ files[RoutesFile] = "full"
    /\ Step(p, [sess[p] EXCEPT !.routes = routes, !.pc = "check"])
    /\ UNCHANGED <<files, contents, tmp, writer>>

(* No target of an addition may exist.                                      *)
CheckTargets(p) ==
    LET s == sess[p] IN
    /\ s.pc = "check"
    /\ \/ /\ Missing(s) = {}
          /\ Build(p)
       \/ /\ Missing(s) # {}
          /\ \A i \in Missing(s) : \A f \in ToSet(FilesOf(s.mods[i])) : ~Exists(f)
          /\ Step(p, NextModule(s))
    /\ UNCHANGED <<files, contents, tmp, writer>>

(* frameworkDependencyVersion, read after the files and the routes.          *)
ReadVersion(p) ==
    /\ sess[p].pc = "readVersion"
    /\ files[GoModFile] = "full"
    /\ Step(p, [sess[p] EXCEPT !.version = goMod, !.pc = "open",
                               !.out = ManifestFile])
    /\ UNCHANGED <<files, contents, tmp, writer>>

(* Upgrade: the plan, and the first file it writes, if any.                  *)
ReadGoMod(p) ==
    LET s == sess[p] IN
    /\ s.pc = "readGoMod"
    /\ files[GoModFile] = "full"
    /\ \/ /\ s.apply /\ goMod # s.version
          /\ Step(p, [s EXCEPT !.pc = "open", !.out = GoModFile])
       \/ /\ s.apply /\ goMod = s.version /\ ProjectChanged(s)
          /\ Step(p, [s EXCEPT !.pc = "open", !.out = ManifestFile])
       \/ /\ ~s.apply \/ (goMod = s.version /\ ~ProjectChanged(s))
          /\ Finish(p, "ok")
    /\ UNCHANGED <<files, contents, tmp, writer>>

-----------------------------------------------------------------------------
(* The go command, which new and add run even when there was nothing to add.  *)
Done(p, b, a) ==
    /\ built' = b
    /\ Finish(p, a)
    /\ UNCHANGED <<files, contents, tmp, writer>>

Tidied == [built EXCEPT !.tidied = TRUE]

Local(s) == s.local = "yes" \/ (s.local = "read" /\ replaced)

Tidy(p) ==
    /\ sess[p].pc = "tidy"
    /\ \/ Done(p, built, "error")
       \/ sess[p].local = "read" /\ Done(p, Tidied, "error")
       \/ ~Local(sess[p]) /\ Done(p, Tidied, "ok")
       \/ /\ Local(sess[p])
          /\ built' = Tidied
          /\ Goto(p, "vendor")
          /\ UNCHANGED <<files, contents, tmp, writer>>

Vendor(p) ==
    /\ sess[p].pc = "vendor"
    /\ \/ Done(p, built, "error")
       \/ Done(p, [built EXCEPT !.vendored = TRUE], "ok")

(* What the go command did is out of date when a source file changes.         *)
Outdated ==
    built' = IF <<files', routes', goMod'>> = <<files, routes, goMod>>
             THEN built ELSE Unbuilt

-----------------------------------------------------------------------------
Begin(p) ==
    \/ \E ms \in Requests :
          StartAdd(p, ms) \/ \E local \in BOOLEAN : StartCreate(p, ms, local)
    \/ \E v \in Versions, apply \in BOOLEAN : StartUpgrade(p, v, apply)

Work(p) ==
    \/ CreateFile(p) \/ CreateFails(p) \/ FillFile(p) \/ FillFails(p)
    \/ OpenTmp(p) \/ OpenTmpFails(p) \/ WriteTmp(p)
    \/ RenameTmp(p) \/ RenameFails(p) \/ RemoveTmp(p)
    \/ ReadManifest(p) \/ ReadRoutes(p) \/ CheckTargets(p)
    \/ ReadVersion(p) \/ ReadGoMod(p)
    \/ FailReading(p)

Next ==
    \E p \in Procs :
        \/ (Begin(p) \/ Work(p) \/ Crash(p)) /\ Outdated
        \/ Tidy(p) \/ Vendor(p)

Spec == Init /\ [][Next]_vars

-----------------------------------------------------------------------------
(* Properties                                                                *)

Projects == [format : {0, FormatVersion}, modules : Seq(Modules),
             version : Versions \cup {0}]

Payloads == [project : Projects, routes : Seq(Modules),
             version : Versions \cup {0}]

Labels == {"idle", "create", "fill", "open", "write", "rename", "remove",
           "readManifest", "readRoutes", "check", "readVersion", "readGoMod",
           "tidy", "vendor"}

Sessions ==
    [pc : Labels, cmd : {"none", "create", "add", "upgrade"},
     mods : Requests \cup {<< >>}, apply : BOOLEAN, project : Projects,
     routes : Seq(Modules), version : Versions \cup {0}, todo : Seq(Files),
     out : Managed \cup {"none"}, failed : BOOLEAN,
     local : {"yes", "no", "read"}]

LabelOK(s) ==
    /\ s.pc \in {"create", "fill"} => s.todo # << >>
    /\ s.pc \in {"open", "write", "rename", "remove"} => s.out \in Managed

DiskTypeOK ==
    /\ files \in [Files -> {"absent", "partial", "full"}]
    /\ routes \in Seq(Modules)
    /\ goMod \in Versions \cup {0}
    /\ manifest \in Projects
    /\ tmp \in [Managed -> [state : {"absent", "partial", "full"},
                            owner : Procs \cup {"none"}, data : Payloads]]
    /\ writer \in [Managed -> Procs \cup {"none"}]
    /\ replaced \in BOOLEAN

ControlTypeOK ==
    /\ legacy \in BOOLEAN
    /\ sess \in [Procs -> Sessions]
    /\ \A p \in Procs : LabelOK(sess[p])
    /\ answer \in {"none", "ok", "error"}
    /\ sessions \in 0..MaxSessions
    /\ crashes \in 0..MaxCrashes
    /\ overlapped \in BOOLEAN

TypeOK ==
    /\ DiskTypeOK
    /\ ControlTypeOK
    /\ built \in [tidied : BOOLEAN, vendored : BOOLEAN]

Installed(m) ==
    /\ \A f \in ToSet(FilesOf(m)) : files[f] = "full"
    /\ Registers(m) => m \in ToSet(routes)

(* What the metadata says is true of the directory, whenever the processes   *)
(* that wrote it were killed or failed: a project has its template files     *)
(* whole, and each module it lists has its files and its registration        *)
(* (scaffold.go:243, 314-353).  Invocations that overlap may lose each        *)
(* other's updates and are left out.                                         *)
ManifestHonest ==
    (~overlapped /\ IsProject) =>
        /\ \A f \in ToSet(BaseFiles) : files[f] = "full"
        /\ \A m \in ToSet(StoredProject.modules) : Installed(m)

(* The application compiles as far as the generator is concerned: the list   *)
(* that routes.go holds, or is being given by an invocation that has not     *)
(* finished the file, registers a module once, and only when the file that    *)
(* defines the registration is complete - also when invocations overlap,     *)
(* replace routes.go one after another or with each other's temporary file,  *)
(* fail halfway, are killed or are repeated (scaffold.go:304-313, 337-347,   *)
(* 463-481).                                                                 *)
RoutesCompile ==
    /\ \A i, j \in DOMAIN routes : routes[i] = routes[j] => i = j
    /\ \A i \in DOMAIN routes, f \in Files :
          f \in ToSet(FilesOf(routes[i])) => files[f] = "full"

(* A file the application may have edited since is never truncated, replaced *)
(* or removed, by a retry, a failed write's cleanup or another invocation    *)
(* (scaffold.go:176, 442-461).                                               *)
NeverClobbers ==
    [][\A f \in Files \ Managed : files[f] = "full" => files'[f] = "full"]_vars

(* A success that is reported holds, whatever earlier invocations left       *)
(* behind: an added module is listed and complete, and the go command has     *)
(* seen its files, also when an earlier add failed after writing them; after  *)
(* an upgrade go.mod and the metadata agree on the version, also when an      *)
(* earlier upgrade was killed between the two (scaffold.go:315-317, 514-537, *)
(* main.go:92-99, 123-134).                                                  *)
SuccessMeans ==
    [][\A p \in Procs :
          (Running(p) /\ ~Running(p)' /\ answer' = "ok" /\ ~overlapped) =>
             /\ \A m \in ToSet(sess[p].mods) :
                   Installed(m)' /\ m \in ToSet(StoredProject'.modules)
             /\ sess[p].cmd # "upgrade" =>
                   built'.tidied /\ (replaced' => built'.vendored)
             /\ (sess[p].cmd = "upgrade" /\ sess[p].apply) =>
                   /\ goMod' = sess[p].version
                   /\ StoredProject'.version = sess[p].version
                   /\ StoredProject'.format = FormatVersion]_vars

(* "Add installs modules in an existing Wahoo project" (scaffold.go:253): in *)
(* a project at rest, the files of a module that is not installed are not in *)
(* the way of installing it.                                                 *)
AddInstallable ==
    (IsProject /\ \A p \in Procs : ~Running(p)) =>
        \A m \in Modules \ ToSet(StoredProject.modules) :
            \A f \in ToSet(FilesOf(m)) : ~Exists(f)
=============================================================================
