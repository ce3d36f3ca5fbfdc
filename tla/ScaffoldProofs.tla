--------------------------- MODULE ScaffoldProofs ---------------------------
(***************************************************************************)
(* The safety of Scaffold for every set of modules, requests and versions,   *)
(* any number of invocations and kills.  What holds however invocations     *)
(* overlap rests on Types, FillInv and RouteInv: a new file belongs to the   *)
(* one that created it, and each copy of the route list, on disk, in a       *)
(* temporary file or in memory, compiles.  What holds of invocations that do *)
(* not overlap rests on SoloInv: the directory as a whole (DiskOK), and what *)
(* the invocation under way has done of its command (SessionOK).            *)
(***************************************************************************)
EXTENDS Scaffold, SequenceTheorems, WellFoundedInduction, TLAPS

(* Add, in its loop: a module is still to be written.                        *)
InLoop(s) == s.cmd # "create" /\ s.pc \in {"create", "fill"}

LoopInv == \A p \in Procs : InLoop(sess[p]) => Missing(sess[p]) # {}

Types == DiskTypeOK /\ ControlTypeOK /\ LoopInv

(* In the directory fs the files of a module are complete.                   *)
Whole(fs, m) == \A f \in ToSet(FilesOf(m)) : fs[f] = "full"

(* A route list that compiles.                                               *)
Good(fs, rs) == IsInjective(rs) /\ \A m \in ToSet(rs) : Whole(fs, m)

(* A new file that is being written is this invocation's own.                *)
FillInv ==
    \A p \in Procs :
        (sess[p].pc = "fill" /\ Head(sess[p].todo) \notin Managed) =>
            /\ files[Head(sess[p].todo)] = "partial"
            /\ \A q \in Procs \ {p} :
                  sess[q].pc = "fill" => Head(sess[q].todo) # Head(sess[p].todo)

(* In the loop: the files of the module that comes next are complete or still *)
(* to be written, and no module that comes is registered.                    *)
LoopOK(fs, s) ==
    /\ Missing(s) # {}
    /\ \A f \in ToSet(FilesOf(NextAddition(s))) :
          f \in ToSet(s.todo) \/ fs[f] = "full"
    /\ \A i \in Missing(s) : s.mods[i] \notin ToSet(s.routes)

(* Every copy of the route list compiles: on disk, in a temporary file and   *)
(* in the memory of an invocation.                                           *)
RouteInv ==
    /\ Good(files, routes)
    /\ \A f \in Managed : Good(files, tmp[f].data.routes)
    /\ \A p \in Procs : Good(files, sess[p].routes)
    /\ \A p \in Procs : InLoop(sess[p]) => LoopOK(files, sess[p])

(* In a directory with files fs and registrations rs, the template files are  *)
(* whole; the modules ms are installed.                                      *)
BaseWhole(fs) == \A f \in ToSet(BaseFiles) : fs[f] = "full"

Present(fs, rs, ms) ==
    \A m \in ToSet(ms) : Whole(fs, m) /\ (Registers(m) => m \in ToSet(rs))

(* An invocation is replacing a file, or has done so.                        *)
Replacing(s) == s.pc \in {"open", "write", "rename"}

Replaced(s) == s.pc = "remove" /\ ~s.failed

(* Create is in no project until the metadata is in place, which comes after   *)
(* the template files.                                                       *)
CreateOK(s) ==
    /\ s.project.modules = << >>
    /\ s.pc \in {"create", "fill"} =>
          /\ ~IsProject
          /\ ToSet(s.todo) \subseteq ToSet(BaseFiles)
          /\ \A f \in ToSet(BaseFiles) : f \in ToSet(s.todo) \/ files[f] = "full"
    /\ s.pc \notin {"create", "fill"} =>
          /\ s.pc \in {"open", "write", "rename", "remove"}
          /\ s.out = ManifestFile
    /\ Replacing(s) => BaseWhole(files)

(* Add's route list is the one on disk and what it is about to register, and  *)
(* the modules it is about to list are present in it; when the files are       *)
(* written none is missing.                                                  *)
AddPlace(s) ==
    \/ s.pc \in {"readRoutes", "check"} /\ s.out = "none"
    \/ s.pc \in {"create", "fill"} /\ s.out \in {"none", RoutesFile}
    \/ s.pc \in {"open", "write", "rename", "remove"}
       /\ s.out \in {RoutesFile, ManifestFile}
    \/ s.pc = "readVersion"

Registering(s) ==
    s.out = RoutesFile /\ s.pc \in {"create", "fill", "open", "write", "rename"}

AddOK(s) ==
    /\ IsProject
    /\ AddPlace(s)
    /\ s.pc = "readRoutes" => Present(files, routes, s.project.modules)
    /\ s.pc \in {"readRoutes", "check"} => s.project = StoredProject
    /\ s.pc # "readRoutes" /\ ~s.failed =>
          /\ Present(files, s.routes, s.project.modules)
          /\ ToSet(routes) \subseteq ToSet(s.routes)
          /\ Registering(s) \/ ToSet(s.routes) \subseteq ToSet(routes)
    /\ s.pc \in {"create", "fill"} =>
          ToSet(s.todo) \subseteq ToSet(FilesOf(NextAddition(s)))
    /\ s.pc \in {"open", "write", "rename", "remove", "readVersion"} =>
          Missing(s) = {}
    /\ Replaced(s) /\ s.out = ManifestFile => StoredProject = Payload(s).project

(* Upgrade changes the version alone, go.mod before the metadata.            *)
UpgradeOK(s) ==
    /\ IsProject
    /\ Present(files, routes, s.project.modules)
    /\ \/ s.pc = "readGoMod"
       \/ s.pc \in {"open", "write", "rename", "remove"}
          /\ s.out \in {GoModFile, ManifestFile}
    /\ s.pc = "readGoMod" \/ s.out = GoModFile => s.project = StoredProject
    /\ \/ s.pc = "readGoMod" \/ s.failed
       \/ s.out = GoModFile /\ Replacing(s)
       \/ goMod = s.version
    /\ Replaced(s) /\ s.out = ManifestFile => StoredProject = Payload(s).project

(* When the go command runs, what was asked for is in the metadata.          *)
GoOK(s) ==
    /\ s.mods # << >> => IsProject
    /\ ToSet(s.mods) \subseteq ToSet(StoredProject.modules)
    /\ s.pc = "vendor" => built.tidied
    /\ s.cmd # "upgrade"

TmpOK(p, s) ==
    /\ s.pc \in {"write", "rename"} =>
          tmp[s.out] = [state |-> IF s.pc = "write" THEN "partial" ELSE "full",
                        owner |-> p, data |-> Payload(s)]
    /\ s.pc = "write" => writer[s.out] # p

SessionOK(p) ==
    LET s == sess[p] IN
    /\ TmpOK(p, s)
    /\ s.pc = "fill" => files[Head(s.todo)] = "partial"
    /\ s.local = "no" => ~replaced
    /\ s.failed => s.pc = "remove"
    /\ IF s.pc = "readManifest" THEN s.cmd \in {"add", "upgrade"} /\ s.out = "none"
       ELSE IF s.pc \in {"tidy", "vendor"} THEN GoOK(s)
       ELSE \/ s.cmd = "create" /\ CreateOK(s)
            \/ s.cmd = "add" /\ AddOK(s)
            \/ s.cmd = "upgrade" /\ UpgradeOK(s)

(* The directory, as long as invocations do not overlap.                     *)
DiskOK ==
    /\ files[ManifestFile] # "partial"
    /\ replaced => files[GoModFile] = "full"
    /\ IsProject => /\ BaseWhole(files)
                    /\ Present(files, routes, StoredProject.modules)

SoloInv ==
    ~overlapped =>
        /\ \A p, q \in Procs : Running(p) /\ Running(q) => p = q
        /\ DiskOK
        /\ \A p \in Procs : Running(p) => SessionOK(p)

-----------------------------------------------------------------------------
(* Sequences and minima.                                                     *)

(* The elements of a list, its first one and the others.                     *)
LEMMA ListElements ==
    ASSUME NEW S, NEW q \in Seq(S)
    PROVE  /\ ToSet(q) \subseteq S
           /\ \A i \in DOMAIN q : q[i] \in ToSet(q)
           /\ q # << >> => /\ Head(q) \in S
                           /\ Head(q) \in ToSet(q)
                           /\ Tail(q) \in Seq(S)
                           /\ ToSet(q) \subseteq {Head(q)} \cup ToSet(Tail(q))
                           /\ ToSet(Tail(q)) \subseteq ToSet(q)
  <1>1. q \in [1..Len(q) -> S] /\ Len(q) \in Nat /\ DOMAIN q = 1..Len(q)
    BY LenProperties
  <1>2. ToSet(q) \subseteq S /\ \A i \in DOMAIN q : q[i] \in ToSet(q)
    BY <1>1 DEF ToSet
  <1>3. ASSUME q # << >>
        PROVE  /\ Head(q) \in S
               /\ Head(q) \in ToSet(q)
               /\ Tail(q) \in Seq(S)
               /\ ToSet(q) \subseteq {Head(q)} \cup ToSet(Tail(q))
               /\ ToSet(Tail(q)) \subseteq ToSet(q)
    <2>1. Head(q) \in S /\ Tail(q) \in Seq(S) /\ Len(Tail(q)) = Len(q) - 1
          /\ \A i \in 1..Len(Tail(q)) : Tail(q)[i] = q[i + 1]
      BY <1>3, HeadTailProperties
    <2>2. Len(q) > 0 /\ Head(q) = q[1]
      BY <1>1, <1>3, EmptySeq
    <2>3. DOMAIN Tail(q) = 1..(Len(q) - 1)
      BY <2>1, LenProperties
    <2>4. ToSet(Tail(q)) \subseteq ToSet(q)
      <3>1. \A i \in 1..(Len(q) - 1) : i + 1 \in 1..Len(q)
        BY <1>1
      <3> QED
        BY <1>1, <2>1, <2>3, <3>1 DEF ToSet
    <2>5. ToSet(q) \subseteq {Head(q)} \cup ToSet(Tail(q))
      <3> SUFFICES ASSUME NEW i \in 1..Len(q), i # 1
                   PROVE  q[i] \in ToSet(Tail(q))
        BY <1>1, <2>2 DEF ToSet
      <3>1. i - 1 \in 1..(Len(q) - 1) /\ (i - 1) + 1 = i
        BY <1>1
      <3>2. Tail(q)[i - 1] = q[i]
        BY <2>1, <3>1
      <3> QED
        BY <2>3, <3>1, <3>2 DEF ToSet
    <2>6. Head(q) \in ToSet(q)
      BY <1>1, <2>2 DEF ToSet
    <2> QED
      BY <2>1, <2>4, <2>5, <2>6
  <1> QED
    BY <1>2, <1>3

(* Appending adds one element and keeps a list without repetition so.        *)
LEMMA AppendElements ==
    ASSUME NEW S, NEW q \in Seq(S), NEW e \in S
    PROVE  /\ Append(q, e) \in Seq(S)
           /\ ToSet(Append(q, e)) = ToSet(q) \cup {e}
           /\ IsInjective(q) /\ e \notin ToSet(q) => IsInjective(Append(q, e))
  <1>1. q \in [1..Len(q) -> S] /\ Len(q) \in Nat /\ DOMAIN q = 1..Len(q)
    BY LenProperties
  <1>2. /\ Append(q, e) \in Seq(S)
        /\ Len(Append(q, e)) = Len(q) + 1
        /\ \A i \in 1..Len(q) : Append(q, e)[i] = q[i]
        /\ Append(q, e)[Len(q) + 1] = e
    BY AppendProperties
  <1>3. DOMAIN Append(q, e) = 1..(Len(q) + 1)
    BY <1>2, LenProperties
  <1>4. \A i \in 1..(Len(q) + 1) : i \in 1..Len(q) \/ i = Len(q) + 1
    BY <1>1
  <1>5. 1..Len(q) \subseteq 1..(Len(q) + 1) /\ Len(q) + 1 \in 1..(Len(q) + 1)
    BY <1>1
  <1>6. ToSet(Append(q, e)) = ToSet(q) \cup {e}
    BY <1>1, <1>2, <1>3, <1>4, <1>5 DEF ToSet
  <1>7. ASSUME IsInjective(q), e \notin ToSet(q)
        PROVE  IsInjective(Append(q, e))
    BY <1>1, <1>2, <1>3, <1>4, <1>7 DEF ToSet, IsInjective
  <1> QED
    BY <1>2, <1>6, <1>7

LEMMA NoElements == ToSet(<< >>) = {} /\ IsInjective(<< >>)
  BY DEF ToSet, IsInjective

(* A set of numbers has a minimum.                                           *)
LEMMA MinIsIn ==
    ASSUME NEW S, S \subseteq Nat, S # {}
    PROVE  Min(S) \in S
  <1> DEFINE R == {ss \in Nat \X Nat : ss[1] < ss[2]}
  <1>1. IsWellFoundedOn(R, Nat)
    BY NatLessThanWellFounded DEF OpToRel
  <1>2. PICK x \in S : \A y \in S : ~ (<<y, x>> \in R)
    <2> HIDE DEF R
    <2> QED
      BY <1>1, WFMin
  <1>3. \A y \in S : ~ (y < x)
    BY <1>2
  <1>4. \A y \in S : x =< y
    BY <1>3
  <1> QED
    BY <1>4 DEF Min

-----------------------------------------------------------------------------
(* What moduleSpecs says of every module.                                    *)
LEMMA ModuleSpecs ==
    ASSUME NEW m \in Modules
    PROVE  /\ FilesOf(m) \in Seq(Files)
           /\ FilesOf(m) # << >>
           /\ ToSet(FilesOf(m)) # {}
           /\ ToSet(FilesOf(m)) \subseteq Files \ Managed
           /\ Registers(m) \in BOOLEAN
  <1>1. m \in {"auth", "sse", "websocket", "openapi", "jobs", "uploads", "mail",
               "audit", "webhooks", "entitlements", "billing"}
    BY ScaffoldAssumption DEF moduleSpecs
  <1>2. PICK a, b : /\ a \notin Managed /\ b \notin Managed
                    /\ FilesOf(m) = <<a>> \/ FilesOf(m) = <<a, b>>
                    /\ Registers(m) \in BOOLEAN
    <2>1. CASE m = "auth"
      <3>1. FilesOf(m) = <<"app/auth.go">> /\ Registers(m) \in BOOLEAN
        BY <2>1 DEF FilesOf, Registers, moduleSpecs, Single
      <3>2. "app/auth.go" \notin Managed
        BY DEF Managed, RoutesFile, GoModFile, ManifestFile
      <3> QED
        BY <3>1, <3>2
    <2>2. CASE m = "sse"
      <3>1. FilesOf(m) = <<"app/sse.go">> /\ Registers(m) \in BOOLEAN
        BY <2>2 DEF FilesOf, Registers, moduleSpecs, Single
      <3>2. "app/sse.go" \notin Managed
        BY DEF Managed, RoutesFile, GoModFile, ManifestFile
      <3> QED
        BY <3>1, <3>2
    <2>3. CASE m = "websocket"
      <3>1. FilesOf(m) = <<"app/websocket.go">> /\ Registers(m) \in BOOLEAN
        BY <2>3 DEF FilesOf, Registers, moduleSpecs, Single
      <3>2. "app/websocket.go" \notin Managed
        BY DEF Managed, RoutesFile, GoModFile, ManifestFile
      <3> QED
        BY <3>1, <3>2
    <2>4. CASE m = "openapi"
      <3>1. FilesOf(m) = <<"app/openapi.go", "app/openapi.json">>
            /\ Registers(m) \in BOOLEAN
        BY <2>4 DEF FilesOf, Registers, moduleSpecs
      <3>2. "app/openapi.go" \notin Managed /\ "app/openapi.json" \notin Managed
        BY DEF Managed, RoutesFile, GoModFile, ManifestFile
      <3> QED
        BY <3>1, <3>2
    <2>5. CASE m = "jobs"
      <3>1. FilesOf(m) = <<"app/jobs.go", "cmd/worker/main.go">>
            /\ Registers(m) \in BOOLEAN
        BY <2>5 DEF FilesOf, Registers, moduleSpecs
      <3>2. "app/jobs.go" \notin Managed /\ "cmd/worker/main.go" \notin Managed
        BY DEF Managed, RoutesFile, GoModFile, ManifestFile
      <3> QED
        BY <3>1, <3>2
    <2>6. CASE m = "uploads"
      <3>1. FilesOf(m) = <<"app/uploads.go">> /\ Registers(m) \in BOOLEAN
        BY <2>6 DEF FilesOf, Registers, moduleSpecs, Single
      <3>2. "app/uploads.go" \notin Managed
        BY DEF Managed, RoutesFile, GoModFile, ManifestFile
      <3> QED
        BY <3>1, <3>2
    <2>7. CASE m = "mail"
      <3>1. FilesOf(m) = <<"app/mail.go">> /\ Registers(m) \in BOOLEAN
        BY <2>7 DEF FilesOf, Registers, moduleSpecs, Single
      <3>2. "app/mail.go" \notin Managed
        BY DEF Managed, RoutesFile, GoModFile, ManifestFile
      <3> QED
        BY <3>1, <3>2
    <2>8. CASE m = "audit"
      <3>1. FilesOf(m) = <<"app/audit.go">> /\ Registers(m) \in BOOLEAN
        BY <2>8 DEF FilesOf, Registers, moduleSpecs, Single
      <3>2. "app/audit.go" \notin Managed
        BY DEF Managed, RoutesFile, GoModFile, ManifestFile
      <3> QED
        BY <3>1, <3>2
    <2>9. CASE m = "webhooks"
      <3>1. FilesOf(m) = <<"app/webhooks.go">> /\ Registers(m) \in BOOLEAN
        BY <2>9 DEF FilesOf, Registers, moduleSpecs, Single
      <3>2. "app/webhooks.go" \notin Managed
        BY DEF Managed, RoutesFile, GoModFile, ManifestFile
      <3> QED
        BY <3>1, <3>2
    <2>10. CASE m = "entitlements"
      <3>1. FilesOf(m) = <<"app/entitlements.go">> /\ Registers(m) \in BOOLEAN
        BY <2>10 DEF FilesOf, Registers, moduleSpecs, Single
      <3>2. "app/entitlements.go" \notin Managed
        BY DEF Managed, RoutesFile, GoModFile, ManifestFile
      <3> QED
        BY <3>1, <3>2
    <2>11. CASE m = "billing"
      <3>1. FilesOf(m) = <<"app/billing.go">> /\ Registers(m) \in BOOLEAN
        BY <2>11 DEF FilesOf, Registers, moduleSpecs, Single
      <3>2. "app/billing.go" \notin Managed
        BY DEF Managed, RoutesFile, GoModFile, ManifestFile
      <3> QED
        BY <3>1, <3>2
    <2> QED
      BY <1>1, <2>1, <2>2, <2>3, <2>4, <2>5, <2>6, <2>7, <2>8, <2>9, <2>10, <2>11
  <1>3. ToSet(FilesOf(m)) \subseteq Files
    BY DEF Files, ModuleFiles
  <1>4. CASE FilesOf(m) = <<a>>
    <2>1. ToSet(FilesOf(m)) = {a}
      BY <1>4 DEF ToSet
    <2> QED
      BY <1>2, <1>3, <1>4, <2>1
  <1>5. CASE FilesOf(m) = <<a, b>>
    <2>1. ToSet(FilesOf(m)) = {a, b}
      BY <1>5 DEF ToSet
    <2> QED
      BY <1>2, <1>3, <1>5, <2>1
  <1> QED
    BY <1>2, <1>4, <1>5

-----------------------------------------------------------------------------
(* The steps of a session are well typed.                                    *)
LEMMA Constants ==
    /\ BaseFiles \in Seq(Files) /\ BaseFiles # << >>
    /\ Managed \subseteq Files
    /\ RoutesFile \in Managed /\ GoModFile \in Managed /\ ManifestFile \in Managed
    /\ RoutesFile # GoModFile /\ RoutesFile # ManifestFile
    /\ GoModFile # ManifestFile
  <1>1. ToSet(BaseFiles) = {".dockerignore", RoutesFile, GoModFile}
    BY DEF BaseFiles, ToSet
  <1>2. BaseFiles \in Seq(Files) /\ BaseFiles # << >>
    BY <1>1 DEF BaseFiles, Files
  <1> QED
    BY <1>2 DEF Managed, Files, RoutesFile, GoModFile, ManifestFile

LEMMA IdleOK ==
    /\ NoProject \in Projects
    /\ Blank \in Payloads
    /\ Idle \in Sessions /\ LabelOK(Idle) /\ ~InLoop(Idle)
  <1>1. << >> \in Seq(Modules) /\ << >> \in Seq(Files)
    BY EmptySeq
  <1>2. NoProject \in Projects
    BY <1>1 DEF NoProject, Projects
  <1>3. Blank \in Payloads
    BY <1>1, <1>2 DEF Blank, Payloads
  <1>4. Idle \in Sessions
    BY <1>1, <1>2 DEF Idle, Sessions, Labels
  <1> QED
    BY <1>2, <1>3, <1>4 DEF Idle, LabelOK, InLoop

LEMMA MissingModules ==
    ASSUME NEW s \in Sessions
    PROVE  /\ s.mods \in Seq(Modules)
           /\ Missing(s) \subseteq Nat
           /\ \A i \in Missing(s) : s.mods[i] \in Modules
           /\ Missing(s) # {} =>
                 \E i \in Missing(s) : NextAddition(s) = s.mods[i]
           /\ Missing(s) # {} => NextAddition(s) \in Modules
  <1>1. s.mods \in Seq(Modules)
    BY ScaffoldAssumption, EmptySeq DEF Sessions
  <1>2. /\ DOMAIN s.mods \subseteq Nat
        /\ \A i \in DOMAIN s.mods : s.mods[i] \in Modules
    BY <1>1, LenProperties
  <1>3. Missing(s) \subseteq Nat /\ \A i \in Missing(s) : s.mods[i] \in Modules
    BY <1>2 DEF Missing
  <1>4. ASSUME Missing(s) # {}
        PROVE  \E i \in Missing(s) : NextAddition(s) = s.mods[i]
    <2>1. Min(Missing(s)) \in Missing(s)
      BY <1>3, <1>4, MinIsIn
    <2> QED
      BY <2>1 DEF NextAddition
  <1> QED
    BY <1>1, <1>3, <1>4

LEMMA StepTypes ==
    ASSUME Types, NEW p \in Procs, NEW s \in Sessions, LabelOK(s),
           InLoop(s) => Missing(s) # {}, Step(p, s)
    PROVE  ControlTypeOK' /\ LoopInv'
  <1>1. /\ sess' \in [Procs -> Sessions]
        /\ \A q \in Procs : sess'[q] = IF q = p THEN s ELSE sess[q]
    BY DEF Types, ControlTypeOK, Step
  <1>2. LoopInv'
    BY <1>1 DEF Types, LoopInv
  <1> QED
    BY <1>1, <1>2 DEF Types, ControlTypeOK, Step

LEMMA FinishTypes ==
    ASSUME Types, NEW p \in Procs, NEW a \in {"ok", "error"}, Finish(p, a)
    PROVE  ControlTypeOK' /\ LoopInv'
  <1>1. /\ sess' \in [Procs -> Sessions]
        /\ \A q \in Procs : sess'[q] = IF q = p THEN Idle ELSE sess[q]
    BY IdleOK DEF Types, ControlTypeOK, Finish
  <1>2. LoopInv'
    BY <1>1, IdleOK DEF Types, LoopInv
  <1> QED
    BY <1>1, <1>2, IdleOK DEF Types, ControlTypeOK, Finish

LEMMA StartTypes ==
    ASSUME Types, NEW p \in Procs, NEW s \in Sessions, LabelOK(s), ~InLoop(s),
           Start(p, s)
    PROVE  Types'
  <1>1. /\ sess' \in [Procs -> Sessions]
        /\ \A q \in Procs : sess'[q] = IF q = p THEN s ELSE sess[q]
    BY DEF Types, ControlTypeOK, Start
  <1>2. LoopInv'
    BY <1>1 DEF Types, LoopInv
  <1>3. sessions' \in 0..MaxSessions
    BY ScaffoldAssumption DEF Types, ControlTypeOK, Start
  <1>4. overlapped' \in BOOLEAN
    BY DEF Types, ControlTypeOK, Start
  <1>5. DiskTypeOK' /\ legacy' = legacy /\ crashes' = crashes
    BY DEF Types, DiskTypeOK, Start, disk, contents
  <1> QED
    BY <1>1, <1>2, <1>3, <1>4, <1>5 DEF Types, ControlTypeOK, Start

-----------------------------------------------------------------------------
(* The loop over the additions.                                              *)
LEMMA NextModuleTypes ==
    ASSUME NEW s \in Sessions
    PROVE  /\ NextModule(s) \in Sessions
           /\ LabelOK(NextModule(s))
           /\ Missing(NextModule(s)) = Missing(s)
           /\ NextModule(s).pc = IF Missing(s) # {} THEN "create"
                                 ELSE IF s.out = RoutesFile THEN "open"
                                 ELSE "readVersion"
           /\ NextModule(s).todo = IF Missing(s) # {}
                                   THEN FilesOf(NextAddition(s)) ELSE s.todo
           /\ NextModule(s).cmd = s.cmd
           /\ NextModule(s).mods = s.mods
           /\ NextModule(s).apply = s.apply
           /\ NextModule(s).project = s.project
           /\ NextModule(s).routes = s.routes
           /\ NextModule(s).version = s.version
           /\ NextModule(s).out = s.out
           /\ NextModule(s).failed = s.failed
           /\ NextModule(s).local = s.local
  <1>1. CASE Missing(s) # {}
    <2> DEFINE fs == FilesOf(NextAddition(s))
               n == [s EXCEPT !.pc = "create", !.todo = fs]
    <2>1. fs \in Seq(Files) /\ fs # << >>
      BY <1>1, MissingModules, ModuleSpecs
    <2>2. NextModule(s) = n
      BY <1>1 DEF NextModule
    <2> HIDE DEF fs
    <2>3. /\ n \in Sessions
          /\ n.pc = "create" /\ n.todo = fs
          /\ n.cmd = s.cmd /\ n.mods = s.mods /\ n.apply = s.apply
          /\ n.project = s.project /\ n.routes = s.routes
          /\ n.version = s.version /\ n.out = s.out
          /\ n.failed = s.failed /\ n.local = s.local
      BY <2>1 DEF Sessions, Labels
    <2> HIDE DEF n
    <2>4. LabelOK(n)
      BY <2>1, <2>3 DEF LabelOK
    <2>5. Missing(n) = Missing(s)
      BY <2>3 DEF Missing
    <2> QED
      BY <1>1, <2>2, <2>3, <2>4, <2>5 DEF fs
  <1>2. CASE Missing(s) = {}
    <2> DEFINE l == IF s.out = RoutesFile THEN "open" ELSE "readVersion"
               n == [s EXCEPT !.pc = l]
    <2>1. NextModule(s) = n
      BY <1>2 DEF NextModule
    <2>2. l \in Labels /\ l \in {"open", "readVersion"}
          /\ (l = "open" <=> s.out = RoutesFile)
      BY DEF Labels
    <2>3. s.out = RoutesFile => s.out \in Managed
      BY Constants
    <2> HIDE DEF l
    <2>4. /\ n \in Sessions
          /\ n.pc = l /\ n.todo = s.todo
          /\ n.cmd = s.cmd /\ n.mods = s.mods /\ n.apply = s.apply
          /\ n.project = s.project /\ n.routes = s.routes
          /\ n.version = s.version /\ n.out = s.out
          /\ n.failed = s.failed /\ n.local = s.local
      BY <2>2 DEF Sessions
    <2> HIDE DEF n
    <2>5. LabelOK(n)
      BY <2>2, <2>3, <2>4 DEF LabelOK
    <2>6. Missing(n) = Missing(s)
      BY <2>4 DEF Missing
    <2> QED
      BY <1>2, <2>1, <2>4, <2>5, <2>6 DEF l
  <1> QED
    BY <1>1, <1>2

LEMMA ModuleWrittenTypes ==
    ASSUME NEW s \in Sessions, Missing(s) # {}
    PROVE  LET t == ModuleWritten(s)
               m == NextAddition(s) IN
           /\ t \in Sessions
           /\ t.project = [s.project EXCEPT !.modules = Append(@, m)]
           /\ t.project.modules = Append(s.project.modules, m)
           /\ t.routes = IF Registers(m) THEN Append(s.routes, m) ELSE s.routes
           /\ t.out = IF Registers(m) THEN RoutesFile ELSE s.out
           /\ t.cmd = s.cmd /\ t.mods = s.mods /\ t.apply = s.apply
           /\ t.todo = s.todo /\ t.version = s.version /\ t.pc = s.pc
           /\ t.failed = s.failed /\ t.local = s.local
  <1> DEFINE t == ModuleWritten(s)
             m == NextAddition(s)
             ms == Append(s.project.modules, m)
             rs == Append(s.routes, m)
             pr == [s.project EXCEPT !.modules = ms]
  <1>1. m \in Modules /\ Registers(m) \in BOOLEAN
    BY MissingModules, ModuleSpecs
  <1>2. /\ s.project \in Projects /\ s.project.modules \in Seq(Modules)
        /\ s.routes \in Seq(Modules)
    BY DEF Sessions, Projects
  <1>3. ms \in Seq(Modules) /\ rs \in Seq(Modules)
    BY <1>1, <1>2, AppendElements
  <1>4. t = IF Registers(m)
            THEN [s EXCEPT !.project = pr, !.routes = rs, !.out = RoutesFile]
            ELSE [s EXCEPT !.project = pr]
    BY DEF ModuleWritten
  <1>5. pr = [s.project EXCEPT !.modules = Append(@, m)]
    OBVIOUS
  <1> HIDE DEF m, ms, rs
  <1>6. pr \in Projects /\ pr.modules = ms
    BY <1>2, <1>3 DEF Projects
  <1>7. RoutesFile \in Managed
    BY Constants
  <1> HIDE DEF pr, t
  <1>8. /\ t \in Sessions
        /\ t.project = pr
        /\ t.routes = IF Registers(m) THEN rs ELSE s.routes
        /\ t.out = IF Registers(m) THEN RoutesFile ELSE s.out
        /\ t.cmd = s.cmd /\ t.mods = s.mods /\ t.apply = s.apply
        /\ t.todo = s.todo /\ t.version = s.version /\ t.pc = s.pc
        /\ t.failed = s.failed /\ t.local = s.local
    <2>1. CASE Registers(m)
      BY <1>3, <1>4, <1>6, <1>7, <2>1 DEF Sessions
    <2>2. CASE ~Registers(m)
      BY <1>4, <1>6, <2>2 DEF Sessions
    <2> QED
      BY <2>1, <2>2
  <1> QED
    BY <1>5, <1>6, <1>8 DEF t, m, ms, rs

(* A module that has been written is no longer missing.                      *)
LEMMA ModuleWrittenMissing ==
    ASSUME NEW s \in Sessions, Missing(s) # {}
    PROVE  /\ Missing(ModuleWritten(s)) \subseteq Missing(s)
           /\ \A i \in Missing(ModuleWritten(s)) :
                 s.mods[i] # NextAddition(s)
  <1> DEFINE t == ModuleWritten(s)
             m == NextAddition(s)
  <1>1. t.mods = s.mods /\ t.project.modules = Append(s.project.modules, m)
    BY ModuleWrittenTypes
  <1>2. m \in Modules /\ s.project.modules \in Seq(Modules)
    BY MissingModules DEF Sessions, Projects
  <1>3. ToSet(t.project.modules) = ToSet(s.project.modules) \cup {m}
    BY <1>1, <1>2, AppendElements
  <1> HIDE DEF t, m
  <1>4. /\ Missing(t) \subseteq Missing(s)
        /\ \A i \in Missing(t) : s.mods[i] # m
    BY <1>1, <1>3 DEF Missing
  <1> QED
    BY <1>4 DEF t, m
-----------------------------------------------------------------------------
(* Every action is well typed.                                               *)
LEMMA SessionTypes ==
    ASSUME Types, NEW p \in Procs
    PROVE  /\ sess[p] \in Sessions /\ LabelOK(sess[p])
           /\ InLoop(sess[p]) => Missing(sess[p]) # {}
  BY DEF Types, ControlTypeOK, LoopInv

LEMMA GotoTypes ==
    ASSUME Types, NEW p \in Procs, NEW l \in Labels,
           LabelOK([sess[p] EXCEPT !.pc = l]),
           InLoop([sess[p] EXCEPT !.pc = l]) => InLoop(sess[p]),
           Goto(p, l)
    PROVE  ControlTypeOK' /\ LoopInv'
  <1> DEFINE s == [sess[p] EXCEPT !.pc = l]
  <1>1. s \in Sessions /\ s.mods = sess[p].mods /\ s.project = sess[p].project
    BY SessionTypes DEF Sessions
  <1>2. Missing(s) = Missing(sess[p])
    BY <1>1 DEF Missing
  <1>3. Step(p, s)
    BY DEF Goto
  <1>4. LabelOK(s) /\ (InLoop(s) => Missing(s) # {})
    BY <1>2, SessionTypes
  <1> HIDE DEF s
  <1> QED
    BY <1>1, <1>3, <1>4, StepTypes

LEMMA BuildTypes ==
    ASSUME Types, NEW p \in Procs, Build(p)
    PROVE  ControlTypeOK' /\ LoopInv'
  <1> DEFINE s == [Idle EXCEPT !.pc = "tidy", !.cmd = sess[p].cmd,
                               !.mods = sess[p].mods, !.local = sess[p].local]
  <1>1. s \in Sessions /\ s.pc = "tidy"
    BY ZenonT(60), SessionTypes, IdleOK DEF Sessions, Labels
  <1>2. Step(p, s)
    BY DEF Build
  <1> HIDE DEF s
  <1>3. LabelOK(s) /\ ~InLoop(s)
    BY <1>1 DEF LabelOK, InLoop
  <1> QED
    BY <1>1, <1>2, <1>3, StepTypes

LEMMA StartAddTypes ==
    ASSUME Types, NEW p \in Procs, NEW ms \in Requests, StartAdd(p, ms)
    PROVE  Types'
  <1> DEFINE s == [Idle EXCEPT !.pc = "readManifest", !.cmd = "add", !.mods = ms]
  <1>1. s \in Sessions /\ s.pc = "readManifest"
    BY IdleOK DEF Sessions, Labels
  <1>2. Start(p, s)
    BY DEF StartAdd
  <1> HIDE DEF s
  <1>3. LabelOK(s) /\ ~InLoop(s)
    BY <1>1 DEF LabelOK, InLoop
  <1> QED
    BY <1>1, <1>2, <1>3, StartTypes

LEMMA StartCreateTypes ==
    ASSUME Types, NEW p \in Procs, NEW ms \in Requests, NEW local \in BOOLEAN,
           StartCreate(p, ms, local)
    PROVE  Types'
  <1> DEFINE lo == IF local THEN "yes" ELSE "no"
             s == [Idle EXCEPT !.pc = "create", !.cmd = "create", !.mods = ms,
                               !.todo = BaseFiles, !.version = FrameworkVersion,
                               !.local = lo]
  <1>1. lo \in {"yes", "no"}
    OBVIOUS
  <1>2. Start(p, s)
    BY DEF StartCreate
  <1> HIDE DEF lo
  <1>3. /\ s \in Sessions /\ s.pc = "create" /\ s.cmd = "create"
        /\ s.todo = BaseFiles
    BY <1>1, IdleOK, Constants, ScaffoldAssumption DEF Sessions, Labels
  <1> HIDE DEF s
  <1>4. LabelOK(s) /\ ~InLoop(s)
    BY <1>3, Constants DEF LabelOK, InLoop
  <1> QED
    BY <1>2, <1>3, <1>4, StartTypes

LEMMA StartUpgradeTypes ==
    ASSUME Types, NEW p \in Procs, NEW v \in Versions, NEW apply \in BOOLEAN,
           StartUpgrade(p, v, apply)
    PROVE  Types'
  <1> DEFINE s == [Idle EXCEPT !.pc = "readManifest", !.cmd = "upgrade",
                               !.version = v, !.apply = apply]
  <1>1. s \in Sessions /\ s.pc = "readManifest"
    BY IdleOK DEF Sessions, Labels
  <1>2. Start(p, s)
    BY DEF StartUpgrade
  <1> HIDE DEF s
  <1>3. LabelOK(s) /\ ~InLoop(s)
    BY <1>1 DEF LabelOK, InLoop
  <1> QED
    BY <1>1, <1>2, <1>3, StartTypes

LEMMA CrashTypes ==
    ASSUME Types, NEW p \in Procs, Crash(p)
    PROVE  Types'
  <1>1. /\ sess' \in [Procs -> Sessions]
        /\ \A q \in Procs : sess'[q] = IF q = p THEN Idle ELSE sess[q]
    BY IdleOK DEF Types, ControlTypeOK, Crash
  <1>2. LoopInv'
    BY <1>1, IdleOK DEF Types, LoopInv
  <1>3. crashes' \in 0..MaxCrashes
    BY ScaffoldAssumption DEF Types, ControlTypeOK, Crash
  <1>4. DiskTypeOK' /\ legacy' = legacy
    BY DEF Types, DiskTypeOK, Crash, disk, contents
  <1> QED
    BY <1>1, <1>2, <1>3, <1>4, IdleOK DEF Types, ControlTypeOK, Crash

LEMMA FailReadingTypes ==
    ASSUME Types, NEW p \in Procs, FailReading(p)
    PROVE  Types'
  BY FinishTypes DEF Types, DiskTypeOK, FailReading, contents

LEMMA CreateFileTypes ==
    ASSUME Types, NEW p \in Procs, CreateFile(p)
    PROVE  Types'
  <1>1. DiskTypeOK'
    BY DEF Types, DiskTypeOK, CreateFile, contents
  <1> DEFINE s == [sess[p] EXCEPT !.pc = "fill"]
  <1>2. LabelOK(s) /\ (InLoop(s) => InLoop(sess[p]))
    BY SessionTypes DEF LabelOK, InLoop, Sessions, CreateFile
  <1>3. ControlTypeOK' /\ LoopInv'
    BY <1>2, GotoTypes DEF CreateFile, Labels
  <1> QED
    BY <1>1, <1>3 DEF Types

LEMMA CreateFailsTypes ==
    ASSUME Types, NEW p \in Procs, CreateFails(p)
    PROVE  Types'
  BY FinishTypes DEF Types, DiskTypeOK, CreateFails, contents

LEMMA FillFailsTypes ==
    ASSUME Types, NEW p \in Procs, FillFails(p)
    PROVE  Types'
  BY FinishTypes DEF Types, DiskTypeOK, FillFails, contents
(* The session after a file has been written, and after the last one.        *)
NextFile(s) == [s EXCEPT !.todo = Tail(@), !.pc = "create"]

AfterFile(s) ==
    IF Tail(s.todo) = << >> THEN FilesWritten(NextFile(s)) ELSE NextFile(s)

LEMMA NextFileTypes ==
    ASSUME NEW s \in Sessions, s.todo # << >>
    PROVE  LET n == NextFile(s) IN
           /\ n \in Sessions
           /\ n.pc = "create" /\ n.todo = Tail(s.todo)
           /\ Missing(n) = Missing(s)
           /\ n.cmd = s.cmd /\ n.mods = s.mods /\ n.apply = s.apply
           /\ n.project = s.project /\ n.routes = s.routes
           /\ n.version = s.version /\ n.out = s.out
           /\ n.failed = s.failed /\ n.local = s.local
  <1> DEFINE tl == Tail(s.todo)
             n == [s EXCEPT !.todo = tl, !.pc = "create"]
  <1>1. tl \in Seq(Files)
    BY ListElements DEF Sessions
  <1>2. NextFile(s) = n
    BY DEF NextFile
  <1> HIDE DEF tl
  <1>3. /\ n \in Sessions
        /\ n.pc = "create" /\ n.todo = tl
        /\ n.cmd = s.cmd /\ n.mods = s.mods /\ n.apply = s.apply
        /\ n.project = s.project /\ n.routes = s.routes
        /\ n.version = s.version /\ n.out = s.out
        /\ n.failed = s.failed /\ n.local = s.local
    BY <1>1 DEF Sessions, Labels
  <1> HIDE DEF n
  <1>4. Missing(n) = Missing(s)
    BY <1>3 DEF Missing
  <1> QED
    BY <1>2, <1>3, <1>4 DEF tl

LEMMA AfterFileTypes ==
    ASSUME NEW s \in Sessions, LabelOK(s), s.pc = "fill",
           InLoop(s) => Missing(s) # {}
    PROVE  /\ AfterFile(s) \in Sessions
           /\ LabelOK(AfterFile(s))
           /\ InLoop(AfterFile(s)) => Missing(AfterFile(s)) # {}
  <1> DEFINE n == NextFile(s)
             t == ModuleWritten(n)
             c == [n EXCEPT !.pc = "open", !.out = ManifestFile]
  <1>1. s.todo # << >>
    BY DEF LabelOK
  <1>2. /\ n \in Sessions /\ n.pc = "create" /\ n.todo = Tail(s.todo)
        /\ Missing(n) = Missing(s) /\ n.cmd = s.cmd
    BY <1>1, NextFileTypes
  <1>3. CASE Tail(s.todo) # << >>
    <2>1. AfterFile(s) = n
      BY <1>3 DEF AfterFile
    <2> QED
      BY <1>2, <1>3, <2>1 DEF LabelOK, InLoop
  <1>4. CASE Tail(s.todo) = << >> /\ s.cmd = "create"
    <2>1. AfterFile(s) = c
      BY <1>2, <1>4 DEF AfterFile, FilesWritten
    <2> HIDE DEF n
    <2>2. c \in Sessions /\ c.pc = "open" /\ c.out = ManifestFile
      BY <1>2, Constants DEF Sessions, Labels
    <2> HIDE DEF c
    <2> QED
      BY <2>1, <2>2, Constants DEF LabelOK, InLoop
  <1>5. CASE Tail(s.todo) = << >> /\ s.cmd # "create"
    <2>1. AfterFile(s) = NextModule(t)
      BY <1>2, <1>5 DEF AfterFile, FilesWritten
    <2>2. Missing(n) # {}
      BY <1>2, <1>5 DEF InLoop
    <2>3. t \in Sessions
      BY <1>2, <2>2, ModuleWrittenTypes
    <2> HIDE DEF t
    <2>4. /\ NextModule(t) \in Sessions /\ LabelOK(NextModule(t))
          /\ Missing(NextModule(t)) = Missing(t)
          /\ NextModule(t).pc = IF Missing(t) # {} THEN "create"
                                ELSE IF t.out = RoutesFile THEN "open"
                                ELSE "readVersion"
      BY <2>3, NextModuleTypes
    <2> QED
      BY <2>1, <2>4 DEF InLoop
  <1> QED
    BY <1>3, <1>4, <1>5

LEMMA FillFileStep ==
    ASSUME NEW p \in Procs, sess[p] \in Sessions, sess[p].todo # << >>, FillFile(p)
    PROVE  Step(p, AfterFile(sess[p]))
  <1>1. NextFile(sess[p]).todo = Tail(sess[p].todo)
    BY NextFileTypes
  <1> QED
    BY <1>1 DEF FillFile, AfterFile, NextFile

LEMMA FillFileTypes ==
    ASSUME Types, NEW p \in Procs, FillFile(p)
    PROVE  Types'
  <1>1. sess[p].pc = "fill" /\ sess[p].todo # << >>
    BY SessionTypes DEF FillFile, LabelOK
  <1>2. Step(p, AfterFile(sess[p]))
    BY <1>1, SessionTypes, FillFileStep
  <1>3. ControlTypeOK' /\ LoopInv'
    BY <1>1, <1>2, SessionTypes, AfterFileTypes, StepTypes
  <1>4. DiskTypeOK'
    <2>1. routes' \in Seq(Modules)
      BY EmptySeq DEF FillFile, Types, DiskTypeOK
    <2>2. goMod' \in Versions \cup {0}
      BY ScaffoldAssumption DEF FillFile, Types, DiskTypeOK
    <2>3. replaced' \in BOOLEAN
      BY DEF FillFile, Types, DiskTypeOK
    <2>4. files' \in [Files -> {"absent", "partial", "full"}]
      BY DEF FillFile, Types, DiskTypeOK
    <2> QED
      BY <2>1, <2>2, <2>3, <2>4 DEF FillFile, Types, DiskTypeOK
  <1> QED
    BY <1>3, <1>4 DEF Types

-----------------------------------------------------------------------------
LEMMA PayloadTypes ==
    ASSUME NEW s \in Sessions
    PROVE  /\ Payload(s) \in Payloads
           /\ Payload(s).routes = s.routes
           /\ Payload(s).version = s.version
           /\ Payload(s).project.modules = s.project.modules
           /\ Payload(s).project.format = FormatVersion
           /\ Payload(s).project.version = s.version
  <1> DEFINE pr == [s.project EXCEPT !.format = FormatVersion,
                                     !.version = s.version]
  <1>1. /\ pr \in Projects /\ pr.modules = s.project.modules
        /\ pr.format = FormatVersion /\ pr.version = s.version
    BY DEF Sessions, Projects
  <1>2. Payload(s) = [project |-> pr, routes |-> s.routes, version |-> s.version]
    BY DEF Payload
  <1> HIDE DEF pr
  <1> QED
    BY <1>1, <1>2 DEF Payloads, Sessions

LEMMA OpenTmpTypes ==
    ASSUME Types, NEW p \in Procs, OpenTmp(p)
    PROVE  Types'
  <1> DEFINE s == [sess[p] EXCEPT !.pc = "write"]
             d == Payload(sess[p])
  <1>1. LabelOK(s) /\ (InLoop(s) => InLoop(sess[p]))
    BY SessionTypes DEF LabelOK, InLoop, Sessions, OpenTmp
  <1>2. ControlTypeOK' /\ LoopInv'
    BY <1>1, GotoTypes DEF OpenTmp, Labels
  <1>3. d \in Payloads
    BY SessionTypes, PayloadTypes
  <1>4. tmp' = [tmp EXCEPT ![sess[p].out] =
                  [state |-> "partial", owner |-> p, data |-> d]]
    BY DEF OpenTmp
  <1> HIDE DEF d
  <1>5. [state |-> "partial", owner |-> p, data |-> d] \in
           [state : {"absent", "partial", "full"}, owner : Procs \cup {"none"},
            data : Payloads]
    BY <1>3
  <1>6. tmp' \in [Managed -> [state : {"absent", "partial", "full"},
                             owner : Procs \cup {"none"}, data : Payloads]]
    BY <1>4, <1>5 DEF Types, DiskTypeOK
  <1>7. writer' \in [Managed -> Procs \cup {"none"}]
    BY DEF Types, DiskTypeOK, OpenTmp
  <1>8. DiskTypeOK'
    BY <1>6, <1>7 DEF Types, DiskTypeOK, OpenTmp, contents
  <1> QED
    BY <1>2, <1>8 DEF Types

LEMMA OpenTmpFailsTypes ==
    ASSUME Types, NEW p \in Procs, OpenTmpFails(p)
    PROVE  Types'
  BY FinishTypes DEF Types, DiskTypeOK, OpenTmpFails, contents

LEMMA DiscardTypes ==
    ASSUME Types, NEW p \in Procs, sess[p].pc \in {"write", "rename"}, Discard(p)
    PROVE  ControlTypeOK' /\ LoopInv'
  <1> DEFINE s == [sess[p] EXCEPT !.pc = "remove", !.failed = TRUE]
  <1>1. s \in Sessions /\ s.pc = "remove" /\ s.out = sess[p].out
    BY ZenonT(60), SessionTypes DEF Sessions, Labels
  <1>2. Step(p, s)
    BY DEF Discard
  <1> HIDE DEF s
  <1>3. LabelOK(s) /\ ~InLoop(s)
    BY <1>1, SessionTypes DEF LabelOK, InLoop
  <1> QED
    BY <1>1, <1>2, <1>3, StepTypes

LEMMA WriteTmpTypes ==
    ASSUME Types, NEW p \in Procs, WriteTmp(p)
    PROVE  Types'
  <1>1. ControlTypeOK' /\ LoopInv'
    <2>1. CASE Goto(p, "rename")
      <3> DEFINE s == [sess[p] EXCEPT !.pc = "rename"]
      <3>1. LabelOK(s) /\ (InLoop(s) => InLoop(sess[p]))
        BY SessionTypes DEF LabelOK, InLoop, Sessions, WriteTmp
      <3> QED
        BY <2>1, <3>1, GotoTypes DEF Labels
    <2>2. CASE Discard(p)
      BY <2>2, DiscardTypes DEF WriteTmp
    <2> QED
      BY <2>1, <2>2 DEF WriteTmp
  <1>2. sess[p].out \in Managed
    BY SessionTypes DEF WriteTmp, LabelOK
  <1>3. \/ tmp' = tmp
        \/ tmp' = [tmp EXCEPT ![sess[p].out] = [@ EXCEPT !.state = "full"]]
    BY DEF WriteTmp
  <1>4. [tmp[sess[p].out] EXCEPT !.state = "full"] \in
           [state : {"absent", "partial", "full"}, owner : Procs \cup {"none"},
            data : Payloads]
    BY <1>2 DEF Types, DiskTypeOK
  <1>5. tmp' \in [Managed -> [state : {"absent", "partial", "full"},
                             owner : Procs \cup {"none"}, data : Payloads]]
    BY <1>3, <1>4 DEF Types, DiskTypeOK
  <1>6. files' \in [Files -> {"absent", "partial", "full"}]
    BY DEF Types, DiskTypeOK, WriteTmp
  <1>7. DiskTypeOK'
    BY <1>5, <1>6 DEF Types, DiskTypeOK, WriteTmp, contents
  <1> QED
    BY <1>1, <1>7 DEF Types

LEMMA RenameTmpTypes ==
    ASSUME Types, NEW p \in Procs, RenameTmp(p)
    PROVE  Types'
  <1> DEFINE s == [sess[p] EXCEPT !.pc = "remove"]
  <1>1. LabelOK(s) /\ (InLoop(s) => InLoop(sess[p]))
    BY SessionTypes DEF LabelOK, InLoop, Sessions, RenameTmp
  <1>2. ControlTypeOK' /\ LoopInv'
    BY <1>1, GotoTypes DEF RenameTmp, Labels
  <1>3. sess[p].out \in Managed /\ sess[p].out \in Files
    BY SessionTypes, Constants DEF RenameTmp, LabelOK
  <1>4. /\ tmp[sess[p].out].state \in {"absent", "partial", "full"}
        /\ tmp[sess[p].out].data \in Payloads
    BY <1>3 DEF Types, DiskTypeOK
  <1>5. NoTmp \in [state : {"absent", "partial", "full"},
                   owner : Procs \cup {"none"}, data : Payloads]
    BY IdleOK DEF NoTmp
  <1>6. tmp' \in [Managed -> [state : {"absent", "partial", "full"},
                             owner : Procs \cup {"none"}, data : Payloads]]
    BY <1>5 DEF Types, DiskTypeOK, RenameTmp
  <1>7. files' \in [Files -> {"absent", "partial", "full"}]
    BY <1>4 DEF Types, DiskTypeOK, RenameTmp
  <1>8. /\ routes' \in Seq(Modules) /\ goMod' \in Versions \cup {0}
        /\ manifest' \in Projects /\ replaced' \in BOOLEAN
    BY <1>4 DEF Types, DiskTypeOK, RenameTmp, Payloads
  <1>9. writer' \in [Managed -> Procs \cup {"none"}]
    <2>1. tmp[sess[p].out].owner \in Procs \cup {"none"}
      BY <1>3 DEF Types, DiskTypeOK
    <2> QED
      BY <2>1 DEF Types, DiskTypeOK, RenameTmp
  <1> QED
    BY <1>2, <1>6, <1>7, <1>8, <1>9 DEF Types, DiskTypeOK

LEMMA RenameFailsTypes ==
    ASSUME Types, NEW p \in Procs, RenameFails(p)
    PROVE  Types'
  BY DiscardTypes DEF Types, DiskTypeOK, RenameFails, contents
LEMMA ContinueTypes ==
    ASSUME Types, NEW p \in Procs, sess[p].pc = "remove", Continue(p)
    PROVE  ControlTypeOK' /\ LoopInv'
  <1> DEFINE s == sess[p]
  <1>1. CASE s.out = RoutesFile /\ Goto(p, "readVersion")
    <2> DEFINE n == [sess[p] EXCEPT !.pc = "readVersion"]
    <2>1. LabelOK(n) /\ ~InLoop(n)
      BY SessionTypes DEF LabelOK, InLoop, Sessions
    <2> QED
      BY <1>1, <2>1, GotoTypes DEF Labels
  <1>2. CASE Step(p, [s EXCEPT !.pc = "open", !.out = ManifestFile])
    <2> DEFINE n == [s EXCEPT !.pc = "open", !.out = ManifestFile]
    <2>1. n \in Sessions /\ n.pc = "open" /\ n.out = ManifestFile
      BY ZenonT(60), SessionTypes, Constants DEF Sessions, Labels
    <2> HIDE DEF n
    <2>2. LabelOK(n) /\ ~InLoop(n)
      BY <2>1, Constants DEF LabelOK, InLoop
    <2> QED
      BY <1>2, <2>1, <2>2, StepTypes DEF n
  <1>3. CASE Finish(p, "ok")
    BY <1>3, FinishTypes
  <1>4. CASE Step(p, [Idle EXCEPT !.pc = "readManifest", !.cmd = "add",
                                  !.mods = s.mods, !.local = s.local])
    <2> DEFINE n == [Idle EXCEPT !.pc = "readManifest", !.cmd = "add",
                                 !.mods = s.mods, !.local = s.local]
    <2>1. n \in Sessions /\ n.pc = "readManifest"
      BY ZenonT(60), SessionTypes, IdleOK DEF Sessions, Labels
    <2> HIDE DEF n
    <2>2. LabelOK(n) /\ ~InLoop(n)
      BY <2>1 DEF LabelOK, InLoop
    <2> QED
      BY <1>4, <2>1, <2>2, StepTypes DEF n
  <1>5. CASE Build(p)
    BY <1>5, BuildTypes
  <1> QED
    BY <1>1, <1>2, <1>3, <1>4, <1>5 DEF Continue

LEMMA RemoveTmpTypes ==
    ASSUME Types, NEW p \in Procs, RemoveTmp(p)
    PROVE  Types'
  <1>1. ControlTypeOK' /\ LoopInv'
    BY FinishTypes, ContinueTypes DEF RemoveTmp
  <1>2. NoTmp \in [state : {"absent", "partial", "full"},
                   owner : Procs \cup {"none"}, data : Payloads]
    BY IdleOK DEF NoTmp
  <1>3. tmp' \in [Managed -> [state : {"absent", "partial", "full"},
                             owner : Procs \cup {"none"}, data : Payloads]]
    BY <1>2 DEF Types, DiskTypeOK, RemoveTmp
  <1>4. DiskTypeOK'
    BY <1>3 DEF Types, DiskTypeOK, RemoveTmp, contents
  <1> QED
    BY <1>1, <1>4 DEF Types

LEMMA StoredProjectTypes ==
    ASSUME Types
    PROVE  StoredProject \in Projects
  <1> DEFINE l == [NoProject EXCEPT !.modules = LegacyModules]
  <1>1. l \in Projects
    BY IdleOK, ScaffoldAssumption DEF Projects
  <1> HIDE DEF l
  <1>2. StoredProject = IF Exists(ManifestFile) THEN manifest ELSE l
    BY DEF StoredProject, l
  <1> QED
    BY <1>1, <1>2 DEF Types, DiskTypeOK

LEMMA ReadManifestTypes ==
    ASSUME Types, NEW p \in Procs, ReadManifest(p)
    PROVE  Types'
  <1> DEFINE pr == StoredProject
             l == IF sess[p].cmd = "add" THEN "readRoutes" ELSE "readGoMod"
             n == [sess[p] EXCEPT !.project = pr, !.pc = l]
  <1>1. l \in Labels /\ l \in {"readRoutes", "readGoMod"}
    BY DEF Labels
  <1>2. pr \in Projects
    BY StoredProjectTypes
  <1>3. Step(p, n)
    BY DEF ReadManifest
  <1> HIDE DEF pr, l
  <1>4. n \in Sessions /\ n.pc = l
    BY <1>1, <1>2, SessionTypes DEF Sessions
  <1> HIDE DEF n
  <1>5. LabelOK(n) /\ ~InLoop(n)
    BY <1>1, <1>4 DEF LabelOK, InLoop
  <1>6. ControlTypeOK' /\ LoopInv'
    BY <1>3, <1>4, <1>5, StepTypes
  <1> QED
    BY <1>6 DEF Types, DiskTypeOK, ReadManifest, contents

LEMMA ReadRoutesTypes ==
    ASSUME Types, NEW p \in Procs, ReadRoutes(p)
    PROVE  Types'
  <1> DEFINE n == [sess[p] EXCEPT !.routes = routes, !.pc = "check"]
  <1>1. routes \in Seq(Modules)
    BY DEF Types, DiskTypeOK
  <1>2. n \in Sessions /\ n.pc = "check"
    BY <1>1, SessionTypes DEF Sessions, Labels
  <1>3. Step(p, n)
    BY DEF ReadRoutes
  <1> HIDE DEF n
  <1>4. LabelOK(n) /\ ~InLoop(n)
    BY <1>2 DEF LabelOK, InLoop
  <1>5. ControlTypeOK' /\ LoopInv'
    BY <1>2, <1>3, <1>4, StepTypes
  <1> QED
    BY <1>5 DEF Types, DiskTypeOK, ReadRoutes, contents

LEMMA CheckTargetsTypes ==
    ASSUME Types, NEW p \in Procs, CheckTargets(p)
    PROVE  Types'
  <1>1. CASE Build(p)
    BY <1>1, BuildTypes DEF Types, DiskTypeOK, CheckTargets, contents
  <1>2. CASE Missing(sess[p]) # {} /\ Step(p, NextModule(sess[p]))
    <2> DEFINE n == NextModule(sess[p])
    <2>1. n \in Sessions /\ LabelOK(n) /\ Missing(n) # {}
      BY <1>2, SessionTypes, NextModuleTypes
    <2>2. Step(p, n)
      BY <1>2
    <2> HIDE DEF n
    <2>3. ControlTypeOK' /\ LoopInv'
      BY <2>1, <2>2, StepTypes
    <2> QED
      BY <2>3 DEF Types, DiskTypeOK, CheckTargets, contents
  <1> QED
    BY <1>1, <1>2 DEF CheckTargets

LEMMA ReadVersionTypes ==
    ASSUME Types, NEW p \in Procs, ReadVersion(p)
    PROVE  Types'
  <1> DEFINE n == [sess[p] EXCEPT !.version = goMod, !.pc = "open",
                                  !.out = ManifestFile]
  <1>1. goMod \in Versions \cup {0}
    BY DEF Types, DiskTypeOK
  <1>2. n \in Sessions /\ n.pc = "open" /\ n.out = ManifestFile
    BY ZenonT(60), <1>1, SessionTypes, Constants DEF Sessions, Labels
  <1>3. Step(p, n)
    BY DEF ReadVersion
  <1> HIDE DEF n
  <1>4. LabelOK(n) /\ ~InLoop(n)
    BY <1>2, Constants DEF LabelOK, InLoop
  <1>5. ControlTypeOK' /\ LoopInv'
    BY <1>2, <1>3, <1>4, StepTypes
  <1> QED
    BY <1>5 DEF Types, DiskTypeOK, ReadVersion, contents

LEMMA ReadGoModTypes ==
    ASSUME Types, NEW p \in Procs, ReadGoMod(p)
    PROVE  Types'
  <1>1. ASSUME NEW f \in Managed,
               Step(p, [sess[p] EXCEPT !.pc = "open", !.out = f])
        PROVE  ControlTypeOK' /\ LoopInv'
    <2> DEFINE n == [sess[p] EXCEPT !.pc = "open", !.out = f]
    <2>1. n \in Sessions /\ n.pc = "open" /\ n.out = f
      BY SessionTypes DEF Sessions, Labels
    <2> HIDE DEF n
    <2>2. LabelOK(n) /\ ~InLoop(n)
      BY <2>1 DEF LabelOK, InLoop
    <2> QED
      BY <1>1, <2>1, <2>2, StepTypes DEF n
  <1>2. ControlTypeOK' /\ LoopInv'
    BY <1>1, FinishTypes, Constants DEF ReadGoMod
  <1> QED
    BY <1>2 DEF Types, DiskTypeOK, ReadGoMod, contents

LEMMA GoCommandTypes ==
    ASSUME Types, NEW p \in Procs, Tidy(p) \/ Vendor(p),
           built \in [tidied : BOOLEAN, vendored : BOOLEAN]
    PROVE  Types' /\ built' \in [tidied : BOOLEAN, vendored : BOOLEAN]
  <1>1. ControlTypeOK' /\ LoopInv'
    <2>1. CASE Goto(p, "vendor") /\ sess[p].pc = "tidy"
      <3> DEFINE n == [sess[p] EXCEPT !.pc = "vendor"]
      <3>1. LabelOK(n) /\ ~InLoop(n)
        BY SessionTypes DEF LabelOK, InLoop, Sessions
      <3> QED
        BY <2>1, <3>1, GotoTypes DEF Labels
    <2> QED
      BY <2>1, FinishTypes DEF Tidy, Vendor, Done
  <1>2. DiskTypeOK'
    BY DEF Types, DiskTypeOK, Tidy, Vendor, Done, contents
  <1>3. built' \in [tidied : BOOLEAN, vendored : BOOLEAN]
    BY DEF Tidy, Vendor, Done, Tidied
  <1> QED
    BY <1>1, <1>2, <1>3 DEF Types
-----------------------------------------------------------------------------
LEMMA InitTypes == Init => Types /\ TypeOK
  <1> SUFFICES ASSUME Init
               PROVE  Types /\ TypeOK
    OBVIOUS
  <1>1. NoTmp \in [state : {"absent", "partial", "full"},
                   owner : Procs \cup {"none"}, data : Payloads]
    BY IdleOK DEF NoTmp
  <1>2. DiskTypeOK
    <2>1. routes \in Seq(Modules)
      BY ScaffoldAssumption, EmptySeq DEF Init
    <2>2. goMod \in Versions \cup {0} /\ replaced \in BOOLEAN
      BY ScaffoldAssumption DEF Init
    <2>3. files \in [Files -> {"absent", "partial", "full"}]
      BY DEF Init
    <2>4. manifest \in Projects
      BY IdleOK DEF Init
    <2>5. tmp \in [Managed -> [state : {"absent", "partial", "full"},
                              owner : Procs \cup {"none"}, data : Payloads]]
      BY <1>1 DEF Init
    <2>6. writer \in [Managed -> Procs \cup {"none"}]
      BY DEF Init
    <2> QED
      BY <2>1, <2>2, <2>3, <2>4, <2>5, <2>6 DEF DiskTypeOK
  <1>3. ControlTypeOK /\ LoopInv
    <2>1. sessions \in 0..MaxSessions /\ crashes \in 0..MaxCrashes
      BY ScaffoldAssumption DEF Init
    <2>2. sess = [p \in Procs |-> Idle]
      BY DEF Init
    <2> QED
      BY <2>1, <2>2, IdleOK DEF ControlTypeOK, LoopInv, Init
  <1>4. built \in [tidied : BOOLEAN, vendored : BOOLEAN]
    BY DEF Init, Unbuilt
  <1> QED
    BY <1>2, <1>3, <1>4 DEF Types, TypeOK

LEMMA NextTypes ==
    ASSUME Types, TypeOK, [Next]_vars
    PROVE  Types' /\ TypeOK'
  <1>1. CASE UNCHANGED vars
    BY <1>1 DEF Types, TypeOK, DiskTypeOK, ControlTypeOK, LoopInv, LabelOK, InLoop,
                Missing, vars, disk, contents
  <1>2. ASSUME NEW p \in Procs, Begin(p)
        PROVE  Types'
    BY <1>2, StartAddTypes, StartCreateTypes, StartUpgradeTypes DEF Begin
  <1>3. ASSUME NEW p \in Procs, Work(p)
        PROVE  Types'
    BY <1>3, CreateFileTypes, CreateFailsTypes, FillFileTypes, FillFailsTypes,
       OpenTmpTypes, OpenTmpFailsTypes, WriteTmpTypes, RenameTmpTypes,
       RenameFailsTypes, RemoveTmpTypes, ReadManifestTypes, ReadRoutesTypes,
       CheckTargetsTypes, ReadVersionTypes, ReadGoModTypes, FailReadingTypes DEF Work
  <1>4. ASSUME Outdated
        PROVE  built' \in [tidied : BOOLEAN, vendored : BOOLEAN]
    BY <1>4 DEF TypeOK, Outdated, Unbuilt
  <1>5. ASSUME NEW p \in Procs, Tidy(p) \/ Vendor(p)
        PROVE  Types' /\ TypeOK'
    BY <1>5, GoCommandTypes DEF Types, TypeOK
  <1>6. ASSUME NEW p \in Procs, Begin(p) \/ Work(p) \/ Crash(p), Outdated
        PROVE  Types' /\ TypeOK'
    <2>1. Types'
      BY <1>2, <1>3, <1>6, CrashTypes
    <2> QED
      BY <1>4, <1>6, <2>1 DEF Types, TypeOK
  <1> QED
    BY <1>1, <1>5, <1>6 DEF Next

(* Every file, every copy of the metadata and of the route list and every     *)
(* invocation keep their types; in particular Add, in its loop, always has a  *)
(* module left to write (scaffold.go:321-347).                               *)
THEOREM TypeCorrect == Spec => []TypeOK
  <1>1. Init => Types /\ TypeOK
    BY InitTypes
  <1>2. Types /\ TypeOK /\ [Next]_vars => (Types /\ TypeOK)'
    BY NextTypes
  <1> QED
    BY <1>1, <1>2, PTL DEF Spec
-----------------------------------------------------------------------------
(* A quiet step: no application file changes, none is being written, and      *)
(* route lists are only copied.                                              *)
Others(p) == \A q \in Procs \ {p} : sess'[q] = sess[q]

Copied(p) ==
    /\ sess'[p].routes \in {sess[p].routes, << >>, routes}
    /\ routes' \in {routes, tmp[RoutesFile].data.routes}
    /\ \A f \in Managed : tmp'[f].data.routes \in
                             {<< >>, tmp[f].data.routes, sess[p].routes}

Quiet(p) ==
    /\ Others(p)
    /\ \A f \in Files \ Managed : files'[f] = files[f]
    /\ sess'[p].pc # "fill" /\ ~InLoop(sess'[p])
    /\ Copied(p)

LEMMA SessionStep ==
    ASSUME Types, NEW p \in Procs, NEW s, sess' = [sess EXCEPT ![p] = s]
    PROVE  sess'[p] = s /\ Others(p)
  BY DEF Types, ControlTypeOK, Others

LEMMA QuietIdle ==
    ASSUME Types, NEW p \in Procs, sess' = [sess EXCEPT ![p] = Idle],
           UNCHANGED <<files, contents, tmp>>
    PROVE  Quiet(p)
  <1>1. sess'[p] = Idle /\ Others(p)
    BY SessionStep
  <1>2. Idle.pc = "idle" /\ Idle.routes = << >>
    BY DEF Idle
  <1> QED
    BY <1>1, <1>2 DEF Quiet, Copied, InLoop, contents

LEMMA QuietStart ==
    ASSUME Types, NEW p \in Procs, NEW s, Start(p, s), s.routes = << >>,
           s.pc = "readManifest" \/ (s.pc = "create" /\ s.cmd = "create")
    PROVE  Quiet(p)
  <1>1. sess'[p] = s /\ Others(p)
    BY SessionStep DEF Start
  <1> QED
    BY <1>1 DEF Quiet, Copied, InLoop, Start, disk, contents

LEMMA QuietBegin ==
    ASSUME Types, NEW p \in Procs, Begin(p)
    PROVE  Quiet(p)
  <1>1. ASSUME NEW ms, StartAdd(p, ms)
        PROVE  Quiet(p)
    <2> DEFINE s == [Idle EXCEPT !.pc = "readManifest", !.cmd = "add",
                                 !.mods = ms]
    <2>1. s.pc = "readManifest" /\ s.routes = << >>
      BY DEF Idle
    <2>2. Start(p, s)
      BY <1>1 DEF StartAdd
    <2> HIDE DEF s
    <2> QED
      BY <2>1, <2>2, QuietStart
  <1>2. ASSUME NEW ms, NEW local, StartCreate(p, ms, local)
        PROVE  Quiet(p)
    <2> DEFINE lo == IF local THEN "yes" ELSE "no"
               s == [Idle EXCEPT !.pc = "create", !.cmd = "create", !.mods = ms,
                                 !.todo = BaseFiles,
                                 !.version = FrameworkVersion, !.local = lo]
    <2>1. Start(p, s)
      BY <1>2 DEF StartCreate
    <2> HIDE DEF lo
    <2>2. s.pc = "create" /\ s.cmd = "create" /\ s.routes = << >>
      BY DEF Idle
    <2> HIDE DEF s
    <2> QED
      BY <2>1, <2>2, QuietStart
  <1>3. ASSUME NEW v, NEW apply, StartUpgrade(p, v, apply)
        PROVE  Quiet(p)
    <2> DEFINE s == [Idle EXCEPT !.pc = "readManifest", !.cmd = "upgrade",
                                 !.version = v, !.apply = apply]
    <2>1. s.pc = "readManifest" /\ s.routes = << >>
      BY DEF Idle
    <2>2. Start(p, s)
      BY <1>3 DEF StartUpgrade
    <2> HIDE DEF s
    <2> QED
      BY <2>1, <2>2, QuietStart
  <1> QED
    BY <1>1, <1>2, <1>3 DEF Begin

(* The steps that end an invocation, and those that only read.               *)
LEMMA QuietFinishes ==
    ASSUME Types, NEW p \in Procs,
           FailReading(p) \/ CreateFails(p) \/ OpenTmpFails(p) \/ Crash(p)
    PROVE  Quiet(p)
  BY QuietIdle DEF FailReading, CreateFails, OpenTmpFails, Crash, Finish, disk

LEMMA QuietOpenTmp ==
    ASSUME Types, NEW p \in Procs, OpenTmp(p)
    PROVE  Quiet(p)
  <1> DEFINE s == [sess[p] EXCEPT !.pc = "write"]
             d == Payload(sess[p])
  <1>1. sess'[p] = s /\ Others(p)
    BY SessionStep DEF OpenTmp, Goto, Step
  <1>2. s.pc = "write" /\ s.routes = sess[p].routes
    BY SessionTypes DEF Sessions
  <1>3. d.routes = sess[p].routes
    BY SessionTypes, PayloadTypes
  <1>4. tmp' = [tmp EXCEPT ![sess[p].out] =
                  [state |-> "partial", owner |-> p, data |-> d]]
    BY DEF OpenTmp
  <1> HIDE DEF s, d
  <1>5. \A f \in Managed : tmp'[f].data.routes \in
                             {<< >>, tmp[f].data.routes, sess[p].routes}
    BY <1>3, <1>4 DEF Types, DiskTypeOK
  <1> QED
    BY <1>1, <1>2, <1>5 DEF Quiet, Copied, InLoop, OpenTmp, contents

LEMMA QuietDiscard ==
    ASSUME Types, NEW p \in Procs, Discard(p), UNCHANGED <<files, contents, tmp>>
    PROVE  Quiet(p)
  <1> DEFINE s == [sess[p] EXCEPT !.pc = "remove", !.failed = TRUE]
  <1>1. sess'[p] = s /\ Others(p)
    BY SessionStep DEF Discard, Step
  <1>2. s.pc = "remove" /\ s.routes = sess[p].routes
    BY SessionTypes DEF Sessions
  <1> HIDE DEF s
  <1> QED
    BY <1>1, <1>2 DEF Quiet, Copied, InLoop, contents

LEMMA QuietWriteTmp ==
    ASSUME Types, NEW p \in Procs, WriteTmp(p)
    PROVE  Quiet(p)
  <1>1. CASE Goto(p, "rename")
    <2> DEFINE s == [sess[p] EXCEPT !.pc = "rename"]
    <2>1. sess'[p] = s /\ Others(p)
      BY <1>1, SessionStep DEF Goto, Step
    <2>2. s.pc = "rename" /\ s.routes = sess[p].routes
      BY SessionTypes DEF Sessions
    <2>3. sess[p].out \in Managed
      BY SessionTypes DEF WriteTmp, LabelOK
    <2>4. \/ tmp' = tmp
          \/ tmp' = [tmp EXCEPT ![sess[p].out] = [@ EXCEPT !.state = "full"]]
      BY DEF WriteTmp
    <2>5. [tmp[sess[p].out] EXCEPT !.state = "full"].data = tmp[sess[p].out].data
      BY <2>3 DEF Types, DiskTypeOK
    <2>6. \A f \in Managed : tmp'[f].data = tmp[f].data
      BY <2>4, <2>5 DEF Types, DiskTypeOK
    <2>7. \A f \in Files \ Managed : files'[f] = files[f]
      BY <2>3 DEF Types, DiskTypeOK, WriteTmp
    <2> HIDE DEF s
    <2> QED
      BY <2>1, <2>2, <2>6, <2>7 DEF Quiet, Copied, InLoop, WriteTmp, contents
  <1>2. CASE Discard(p) /\ UNCHANGED <<files, tmp>>
    BY <1>2, QuietDiscard DEF WriteTmp, contents
  <1> QED
    BY <1>1, <1>2 DEF WriteTmp

LEMMA QuietRenameTmp ==
    ASSUME Types, NEW p \in Procs, RenameTmp(p)
    PROVE  Quiet(p)
  <1> DEFINE s == [sess[p] EXCEPT !.pc = "remove"]
  <1>1. sess'[p] = s /\ Others(p)
    BY SessionStep DEF RenameTmp, Goto, Step
  <1>2. s.pc = "remove" /\ s.routes = sess[p].routes
    BY SessionTypes DEF Sessions
  <1>3. sess[p].out \in Managed
    BY SessionTypes DEF RenameTmp, LabelOK
  <1>4. \A f \in Files \ Managed : files'[f] = files[f]
    BY <1>3 DEF Types, DiskTypeOK, RenameTmp
  <1>5. \A f \in Managed : tmp'[f].data.routes \in {<< >>, tmp[f].data.routes}
    BY DEF Types, DiskTypeOK, RenameTmp, NoTmp, Blank
  <1>6. routes' \in {routes, tmp[RoutesFile].data.routes}
    BY DEF RenameTmp
  <1> HIDE DEF s
  <1> QED
    BY <1>1, <1>2, <1>4, <1>5, <1>6 DEF Quiet, Copied, InLoop

LEMMA QuietRenameFails ==
    ASSUME Types, NEW p \in Procs, RenameFails(p)
    PROVE  Quiet(p)
  BY QuietDiscard DEF RenameFails
(* Where an invocation goes on to: any place out of the loop.                *)
LEMMA QuietMove ==
    ASSUME Types, NEW p \in Procs, NEW s, sess' = [sess EXCEPT ![p] = s],
           s.pc \notin {"fill", "create"},
           s.routes \in {sess[p].routes, << >>, routes},
           UNCHANGED <<files, contents>>,
           \A f \in Managed : tmp'[f] \in {tmp[f], NoTmp}
    PROVE  Quiet(p)
  <1>1. sess'[p] = s /\ Others(p)
    BY SessionStep
  <1>2. NoTmp.data.routes = << >>
    BY DEF NoTmp, Blank
  <1> QED
    BY <1>1, <1>2 DEF Quiet, Copied, InLoop, contents

LEMMA BuildFields ==
    ASSUME NEW p
    PROVE  LET s == [Idle EXCEPT !.pc = "tidy", !.cmd = sess[p].cmd,
                                 !.mods = sess[p].mods, !.local = sess[p].local]
           IN  s.pc = "tidy" /\ s.routes = << >>
  BY DEF Idle

LEMMA QuietRemoveTmp ==
    ASSUME Types, NEW p \in Procs, RemoveTmp(p)
    PROVE  Quiet(p)
  <1> DEFINE s == sess[p]
  <1>1. /\ UNCHANGED <<files, contents>>
        /\ \A f \in Managed : tmp'[f] \in {tmp[f], NoTmp}
    BY DEF RemoveTmp, Types, DiskTypeOK
  <1>2. Idle.pc = "idle" /\ Idle.routes = << >>
    BY DEF Idle
  <1>3. ASSUME NEW a, Finish(p, a)
        PROVE  Quiet(p)
    BY <1>1, <1>2, <1>3, QuietMove DEF Finish
  <1>4. CASE Goto(p, "readVersion")
    <2> DEFINE n == [sess[p] EXCEPT !.pc = "readVersion"]
    <2>1. n.pc = "readVersion" /\ n.routes = s.routes
      BY SessionTypes DEF Sessions
    <2>2. sess' = [sess EXCEPT ![p] = n]
      BY <1>4 DEF Goto, Step
    <2> HIDE DEF n
    <2> QED
      BY <1>1, <2>1, <2>2, QuietMove
  <1>5. CASE Step(p, [s EXCEPT !.pc = "open", !.out = ManifestFile])
    <2> DEFINE n == [s EXCEPT !.pc = "open", !.out = ManifestFile]
    <2>1. n.pc = "open" /\ n.routes = s.routes
      BY SessionTypes DEF Sessions
    <2>2. sess' = [sess EXCEPT ![p] = n]
      BY <1>5 DEF Step
    <2> HIDE DEF n
    <2> QED
      BY <1>1, <2>1, <2>2, QuietMove
  <1>6. CASE Step(p, [Idle EXCEPT !.pc = "readManifest", !.cmd = "add",
                                  !.mods = s.mods, !.local = s.local])
    <2> DEFINE n == [Idle EXCEPT !.pc = "readManifest", !.cmd = "add",
                                 !.mods = s.mods, !.local = s.local]
    <2>1. n.pc = "readManifest" /\ n.routes = << >>
      BY DEF Idle
    <2>2. sess' = [sess EXCEPT ![p] = n]
      BY <1>6 DEF Step
    <2> HIDE DEF n
    <2> QED
      BY <1>1, <2>1, <2>2, QuietMove
  <1>7. CASE Build(p)
    <2> DEFINE n == [Idle EXCEPT !.pc = "tidy", !.cmd = sess[p].cmd,
                                 !.mods = sess[p].mods, !.local = sess[p].local]
    <2>1. n.pc = "tidy" /\ n.routes = << >>
      BY BuildFields
    <2>2. sess' = [sess EXCEPT ![p] = n]
      BY <1>7 DEF Build, Step
    <2> HIDE DEF n
    <2> QED
      BY <1>1, <2>1, <2>2, QuietMove
  <1> QED
    BY <1>3, <1>4, <1>5, <1>6, <1>7 DEF RemoveTmp, Continue

LEMMA QuietReadManifest ==
    ASSUME Types, NEW p \in Procs, ReadManifest(p)
    PROVE  Quiet(p)
  <1> DEFINE pr == StoredProject
             l == IF sess[p].cmd = "add" THEN "readRoutes" ELSE "readGoMod"
             n == [sess[p] EXCEPT !.project = pr, !.pc = l]
  <1>1. l \in {"readRoutes", "readGoMod"}
    OBVIOUS
  <1>2. sess' = [sess EXCEPT ![p] = n]
    BY DEF ReadManifest, Step
  <1> HIDE DEF pr, l
  <1>3. n.pc = l /\ n.routes = sess[p].routes
    BY SessionTypes DEF Sessions
  <1> HIDE DEF n
  <1> QED
    BY <1>1, <1>2, <1>3, QuietMove DEF ReadManifest

LEMMA QuietReadRoutes ==
    ASSUME Types, NEW p \in Procs, ReadRoutes(p)
    PROVE  Quiet(p)
  <1> DEFINE n == [sess[p] EXCEPT !.routes = routes, !.pc = "check"]
  <1>1. sess' = [sess EXCEPT ![p] = n]
    BY DEF ReadRoutes, Step
  <1>2. n.pc = "check" /\ n.routes = routes
    BY SessionTypes DEF Sessions
  <1> HIDE DEF n
  <1> QED
    BY <1>1, <1>2, QuietMove DEF ReadRoutes

LEMMA QuietReadVersion ==
    ASSUME Types, NEW p \in Procs, ReadVersion(p)
    PROVE  Quiet(p)
  <1> DEFINE n == [sess[p] EXCEPT !.version = goMod, !.pc = "open",
                                  !.out = ManifestFile]
  <1>1. sess' = [sess EXCEPT ![p] = n]
    BY DEF ReadVersion, Step
  <1>2. n.pc = "open" /\ n.routes = sess[p].routes
    BY SessionTypes DEF Sessions
  <1> HIDE DEF n
  <1> QED
    BY <1>1, <1>2, QuietMove DEF ReadVersion

LEMMA QuietReadGoMod ==
    ASSUME Types, NEW p \in Procs, ReadGoMod(p)
    PROVE  Quiet(p)
  <1>1. ASSUME NEW f, Step(p, [sess[p] EXCEPT !.pc = "open", !.out = f])
        PROVE  Quiet(p)
    <2> DEFINE n == [sess[p] EXCEPT !.pc = "open", !.out = f]
    <2>1. n.pc = "open" /\ n.routes = sess[p].routes
      BY SessionTypes DEF Sessions
    <2>2. sess' = [sess EXCEPT ![p] = n]
      BY <1>1 DEF Step
    <2> HIDE DEF n
    <2> QED
      BY <2>1, <2>2, QuietMove DEF ReadGoMod
  <1>2. CASE Finish(p, "ok")
    BY <1>2, QuietIdle DEF Finish, ReadGoMod
  <1> QED
    BY <1>1, <1>2 DEF ReadGoMod

LEMMA QuietNothingToAdd ==
    ASSUME Types, NEW p \in Procs, Build(p), UNCHANGED <<files, contents, tmp>>
    PROVE  Quiet(p)
  <1> DEFINE n == [Idle EXCEPT !.pc = "tidy", !.cmd = sess[p].cmd,
                               !.mods = sess[p].mods, !.local = sess[p].local]
  <1>1. n.pc = "tidy" /\ n.routes = << >>
    BY BuildFields
  <1>2. sess' = [sess EXCEPT ![p] = n]
    BY DEF Build, Step
  <1> HIDE DEF n
  <1> QED
    BY <1>1, <1>2, QuietMove

LEMMA QuietGoCommand ==
    ASSUME Types, NEW p \in Procs, Tidy(p) \/ Vendor(p)
    PROVE  Quiet(p)
  <1>1. UNCHANGED <<files, contents, tmp>>
    BY DEF Tidy, Vendor, Done
  <1>2. CASE Goto(p, "vendor")
    <2> DEFINE n == [sess[p] EXCEPT !.pc = "vendor"]
    <2>1. n.pc = "vendor" /\ n.routes = sess[p].routes
      BY SessionTypes DEF Sessions
    <2>2. sess' = [sess EXCEPT ![p] = n]
      BY <1>2 DEF Goto, Step
    <2> HIDE DEF n
    <2> QED
      BY <1>1, <2>1, <2>2, QuietMove
  <1>3. CASE \E a : Finish(p, a)
    BY <1>1, <1>3, QuietIdle DEF Finish
  <1> QED
    BY <1>2, <1>3 DEF Tidy, Vendor, Done

(* What is not quiet: the steps of writeNewFile, and the entry into the loop. *)
LEMMA QuietSteps ==
    ASSUME Types, NEW p \in Procs,
           Begin(p) \/ Work(p) \/ Crash(p) \/ Tidy(p) \/ Vendor(p)
    PROVE  \/ Quiet(p)
           \/ CreateFile(p) \/ FillFile(p) \/ FillFails(p)
           \/ /\ CheckTargets(p) /\ Missing(sess[p]) # {}
              /\ Step(p, NextModule(sess[p]))
  <1>1. CASE CheckTargets(p)
    BY <1>1, QuietNothingToAdd DEF CheckTargets
  <1> QED
    BY <1>1, QuietBegin, QuietFinishes, QuietOpenTmp, QuietWriteTmp,
       QuietRenameTmp, QuietRenameFails, QuietRemoveTmp, QuietReadManifest,
       QuietReadRoutes, QuietReadVersion, QuietReadGoMod, QuietGoCommand
    DEF Work
-----------------------------------------------------------------------------
(* No application file is clobbered, and every route list compiles.          *)
Kept(fs, gs) == \A f \in Files \ Managed : fs[f] = "full" => gs[f] = "full"

LEMMA WholeKept ==
    ASSUME NEW fs, NEW gs, Kept(fs, gs), NEW m \in Modules, Whole(fs, m)
    PROVE  Whole(gs, m)
  BY ModuleSpecs DEF Kept, Whole

LEMMA GoodKept ==
    ASSUME NEW fs, NEW gs, Kept(fs, gs), NEW rs \in Seq(Modules), Good(fs, rs)
    PROVE  Good(gs, rs)
  <1>1. ToSet(rs) \subseteq Modules
    BY ListElements
  <1> QED
    BY <1>1, WholeKept DEF Good

LEMMA LoopKept ==
    ASSUME NEW fs, NEW gs, Kept(fs, gs), NEW s \in Sessions, LoopOK(fs, s)
    PROVE  LoopOK(gs, s)
  <1>1. NextAddition(s) \in Modules
    BY MissingModules DEF LoopOK
  <1>2. ToSet(FilesOf(NextAddition(s))) \subseteq Files \ Managed
    BY <1>1, ModuleSpecs
  <1> QED
    BY <1>2 DEF LoopOK, Kept

LEMMA NoRoutes ==
    ASSUME NEW fs
    PROVE  Good(fs, << >>)
  BY NoElements DEF Good

LEMMA RouteTypes ==
    ASSUME Types
    PROVE  /\ routes \in Seq(Modules)
           /\ \A f \in Managed : tmp[f].data.routes \in Seq(Modules)
           /\ \A p \in Procs : sess[p].routes \in Seq(Modules)
  BY DEF Types, DiskTypeOK, ControlTypeOK, Payloads, Sessions

(* What the other invocations hold is kept, and what is only copied.         *)
LEMMA CopiesKept ==
    ASSUME Types, RouteInv, NEW p \in Procs, Others(p), Kept(files, files'),
           Good(files', sess'[p].routes),
           InLoop(sess'[p]) => LoopOK(files', sess'[p]),
           routes' \in {routes, << >>, tmp[RoutesFile].data.routes},
           \A f \in Managed : tmp'[f].data.routes \in
                              {<< >>, tmp[f].data.routes, sess[p].routes}
    PROVE  RouteInv'
  <1>1. /\ Good(files', routes) /\ Good(files', << >>)
        /\ \A f \in Managed : Good(files', tmp[f].data.routes)
        /\ \A q \in Procs : Good(files', sess[q].routes)
    BY RouteTypes, GoodKept, NoRoutes DEF RouteInv
  <1>2. \A q \in Procs : InLoop(sess[q]) => LoopOK(files', sess[q])
    BY SessionTypes, LoopKept DEF RouteInv
  <1>3. Good(files', routes')
    BY <1>1, Constants
  <1>4. \A f \in Managed : Good(files', tmp'[f].data.routes)
    BY <1>1
  <1>5. \A q \in Procs : Good(files', sess'[q].routes)
    BY <1>1 DEF Others
  <1>6. \A q \in Procs : InLoop(sess'[q]) => LoopOK(files', sess'[q])
    BY <1>2 DEF Others
  <1> QED
    BY <1>3, <1>4, <1>5, <1>6 DEF RouteInv

(* The files that other invocations write stay theirs.                       *)
LEMMA FillOthersKept ==
    ASSUME Types, FillInv, NEW p \in Procs, Others(p), sess'[p].pc # "fill",
           \A f \in Files \ Managed :
              \/ sess[p].pc = "fill" /\ f = Head(sess[p].todo)
              \/ files'[f] = files[f]
    PROVE  FillInv'
  <1> SUFFICES ASSUME NEW q \in Procs, sess'[q].pc = "fill",
                      Head(sess'[q].todo) \notin Managed
               PROVE  /\ files'[Head(sess'[q].todo)] = "partial"
                      /\ \A r \in Procs \ {q} :
                            sess'[r].pc = "fill" =>
                               Head(sess'[r].todo) # Head(sess'[q].todo)
    BY DEF FillInv
  <1>1. q # p /\ sess'[q] = sess[q]
    BY DEF Others
  <1>2. Head(sess[q].todo) \in Files \ Managed
    BY <1>1, SessionTypes, ListElements DEF Sessions, LabelOK
  <1>3. files'[Head(sess[q].todo)] = "partial"
    BY <1>1, <1>2 DEF FillInv
  <1>4. ASSUME NEW r \in Procs \ {q}, sess'[r].pc = "fill"
        PROVE  Head(sess'[r].todo) # Head(sess'[q].todo)
    <2>1. r # p /\ sess'[r] = sess[r]
      BY <1>4 DEF Others
    <2> QED
      BY <1>1, <1>4, <2>1 DEF FillInv
  <1> QED
    BY <1>1, <1>3, <1>4

LEMMA QuietKeeps ==
    ASSUME Types, FillInv, RouteInv, NEW p \in Procs, Quiet(p)
    PROVE  Kept(files, files') /\ FillInv' /\ RouteInv'
  <1>1. Kept(files, files')
    BY DEF Quiet, Kept
  <1>2. RouteInv'
    <2>1. Good(files', sess'[p].routes)
      BY <1>1, RouteTypes, GoodKept, NoRoutes DEF Quiet, Copied, RouteInv
    <2> QED
      BY <1>1, <2>1, CopiesKept DEF Quiet, Copied
  <1>3. FillInv'
    BY FillOthersKept DEF Quiet
  <1> QED
    BY <1>1, <1>2, <1>3

(* CreateFile: the file was absent, so no invocation was writing it.         *)
LEMMA CreateFileKeeps ==
    ASSUME Types, FillInv, RouteInv, NEW p \in Procs, CreateFile(p)
    PROVE  Kept(files, files') /\ FillInv' /\ RouteInv'
  <1> DEFINE s == sess[p]
             n == [sess[p] EXCEPT !.pc = "fill"]
             h == Head(sess[p].todo)
  <1>1. h \in Files /\ s \in Sessions /\ s.pc = "create"
    BY SessionTypes, ListElements DEF Sessions, LabelOK, CreateFile
  <1>2. sess'[p] = n /\ Others(p)
    BY SessionStep DEF CreateFile, Goto, Step
  <1>3. /\ n.pc = "fill" /\ n.todo = s.todo /\ n.routes = s.routes
        /\ n.cmd = s.cmd /\ n.mods = s.mods /\ n.project = s.project
    BY <1>1 DEF Sessions
  <1> HIDE DEF n
  <1>4. /\ files' = [files EXCEPT ![h] = "partial"] /\ files[h] = "absent"
        /\ routes' = routes /\ tmp' = tmp
    BY DEF CreateFile, Exists, contents
  <1>5. Kept(files, files')
    BY <1>1, <1>4 DEF Kept, Types, DiskTypeOK
  <1>6. InLoop(n) => LoopOK(files', n)
    <2>1. ASSUME InLoop(n)
          PROVE  LoopOK(files', s)
      BY <1>1, <1>3, <1>5, <2>1, LoopKept DEF InLoop, RouteInv
    <2>2. Missing(n) = Missing(s)
      BY <1>3 DEF Missing
    <2>3. NextAddition(n) = NextAddition(s)
      BY <1>3, <2>2 DEF NextAddition
    <2> QED
      BY <1>3, <2>1, <2>2, <2>3 DEF LoopOK
  <1>7. RouteInv'
    <2>1. Good(files', n.routes)
      BY <1>3, <1>5, RouteTypes, GoodKept DEF RouteInv
    <2> QED
      BY <1>2, <1>4, <1>5, <1>6, <2>1, CopiesKept
  <1>8. FillInv'
    <2> SUFFICES ASSUME NEW q \in Procs, sess'[q].pc = "fill",
                        Head(sess'[q].todo) \notin Managed
                 PROVE  /\ files'[Head(sess'[q].todo)] = "partial"
                        /\ \A r \in Procs \ {q} :
                              sess'[r].pc = "fill" =>
                                 Head(sess'[r].todo) # Head(sess'[q].todo)
      BY DEF FillInv
    <2>1. ASSUME NEW r \in Procs \ {p}, sess[r].pc = "fill",
                 Head(sess[r].todo) \notin Managed
          PROVE  Head(sess[r].todo) # h
      BY <1>4, <2>1 DEF FillInv
    <2>2. \A r \in Procs : sess'[r] = IF r = p THEN n ELSE sess[r]
      BY <1>2 DEF Others
    <2>3. CASE q = p
      BY <1>1, <1>3, <1>4, <2>1, <2>2, <2>3 DEF Types, DiskTypeOK
    <2>4. CASE q # p
      <3>1. /\ sess'[q] = sess[q]
            /\ Head(sess[q].todo) # h
        BY <2>1, <2>2, <2>4
      <3>2. files'[Head(sess[q].todo)] = files[Head(sess[q].todo)]
        BY <1>4, <3>1 DEF Types, DiskTypeOK
      <3> QED
        BY <1>3, <2>2, <3>1, <3>2 DEF FillInv
    <2> QED
      BY <2>3, <2>4
  <1> QED
    BY <1>5, <1>7, <1>8
(* FillFile: the module whose last file is written is whole, and was not       *)
(* registered before.                                                        *)
LEMMA AfterFileRoutes ==
    ASSUME NEW fs, NEW s \in Sessions, LabelOK(s), s.pc = "fill",
           Good(fs, s.routes), InLoop(s) => LoopOK(fs, s),
           fs[Head(s.todo)] = "full"
    PROVE  /\ Good(fs, AfterFile(s).routes)
           /\ InLoop(AfterFile(s)) => LoopOK(fs, AfterFile(s))
  <1> DEFINE n == NextFile(s)
             m == NextAddition(s)
             t == ModuleWritten(n)
             c == [n EXCEPT !.pc = "open", !.out = ManifestFile]
  <1>1. s.todo # << >> /\ s.todo \in Seq(Files) /\ s.routes \in Seq(Modules)
    BY DEF LabelOK, Sessions
  <1>2. /\ n \in Sessions /\ n.pc = "create" /\ n.todo = Tail(s.todo)
        /\ n.cmd = s.cmd /\ n.mods = s.mods /\ n.routes = s.routes
        /\ Missing(n) = Missing(s)
    BY <1>1, NextFileTypes
  <1>3. NextAddition(n) = m
    BY <1>2 DEF NextAddition
  <1> HIDE DEF n
  <1>4. ToSet(s.todo) \subseteq {Head(s.todo)} \cup ToSet(Tail(s.todo))
    BY <1>1, ListElements
  <1>5. CASE Tail(s.todo) # << >>
    <2>1. AfterFile(s) = n
      BY <1>5 DEF AfterFile, n
    <2>2. InLoop(n) => LoopOK(fs, n)
      BY <1>2, <1>3, <1>4 DEF InLoop, LoopOK
    <2> QED
      BY <1>2, <2>1, <2>2
  <1>6. CASE Tail(s.todo) = << >> /\ s.cmd = "create"
    <2>1. AfterFile(s) = c
      BY <1>2, <1>6 DEF AfterFile, FilesWritten, n
    <2>2. c.pc = "open" /\ c.routes = s.routes
      BY <1>2 DEF Sessions
    <2> HIDE DEF c
    <2> QED
      BY <2>1, <2>2 DEF InLoop
  <1>7. CASE Tail(s.todo) = << >> /\ s.cmd # "create"
    <2>1. AfterFile(s) = NextModule(t)
      BY <1>2, <1>7 DEF AfterFile, FilesWritten, n
    <2>2. LoopOK(fs, s)
      BY <1>7 DEF InLoop
    <2>3. PICK i \in Missing(s) : m = s.mods[i]
      BY <2>2, MissingModules DEF LoopOK
    <2>4. m \in Modules /\ m \notin ToSet(s.routes)
      BY <2>2, <2>3, MissingModules DEF LoopOK
    <2>5. Whole(fs, m)
      <3>1. ToSet(Tail(s.todo)) = {}
        BY <1>7, NoElements
      <3> QED
        BY <1>4, <2>2, <3>1 DEF LoopOK, Whole
    <2>6. Missing(n) # {}
      BY <1>2, <2>2 DEF LoopOK
    <2>7. /\ t \in Sessions
          /\ t.routes = IF Registers(m) THEN Append(s.routes, m) ELSE s.routes
          /\ t.mods = s.mods
      BY <1>2, <1>3, <2>6, ModuleWrittenTypes
    <2>8. \A j \in Missing(t) : j \in Missing(s) /\ s.mods[j] # m
      BY <1>2, <1>3, <2>6, ModuleWrittenMissing
    <2> HIDE DEF m, t
    <2>9. /\ ToSet(Append(s.routes, m)) = ToSet(s.routes) \cup {m}
          /\ IsInjective(s.routes) => IsInjective(Append(s.routes, m))
      BY <1>1, <2>4, AppendElements
    <2>10. Good(fs, t.routes)
      BY <2>5, <2>7, <2>9 DEF Good
    <2>11. \A j \in Missing(t) : t.mods[j] \notin ToSet(t.routes)
      BY <2>2, <2>7, <2>8, <2>9 DEF LoopOK
    <2> DEFINE x == NextModule(t)
    <2>12. /\ x \in Sessions /\ x.routes = t.routes /\ x.mods = t.mods
           /\ Missing(x) = Missing(t) /\ x.project = t.project
           /\ x.pc \in {"create", "fill"} => Missing(t) # {}
           /\ Missing(t) # {} => x.todo = FilesOf(NextAddition(t))
      BY <2>7, NextModuleTypes
    <2>13. NextAddition(x) = NextAddition(t)
      BY <2>12 DEF NextAddition
    <2> HIDE DEF x
    <2>14. InLoop(x) => LoopOK(fs, x)
      BY <2>11, <2>12, <2>13 DEF LoopOK, InLoop
    <2> QED
      BY <2>1, <2>10, <2>12, <2>14 DEF x
  <1> QED
    BY <1>5, <1>6, <1>7

LEMMA NotFilling ==
    ASSUME NEW s \in Sessions, LabelOK(s), InLoop(s) => Missing(s) # {},
           s.pc = "fill"
    PROVE  AfterFile(s).pc # "fill"
  <1> DEFINE n == NextFile(s)
             t == ModuleWritten(n)
             c == [n EXCEPT !.pc = "open", !.out = ManifestFile]
  <1>1. /\ n \in Sessions /\ n.pc = "create" /\ n.cmd = s.cmd
        /\ Missing(n) = Missing(s) /\ n.todo = Tail(s.todo)
    BY NextFileTypes DEF LabelOK
  <1>2. CASE Tail(s.todo) # << >>
    BY <1>1, <1>2 DEF AfterFile
  <1>3. CASE Tail(s.todo) = << >> /\ s.cmd = "create"
    <2>1. AfterFile(s) = c
      BY <1>1, <1>3 DEF AfterFile, FilesWritten
    <2> HIDE DEF n
    <2> QED
      BY <1>1, <2>1 DEF Sessions
  <1>4. CASE Tail(s.todo) = << >> /\ s.cmd # "create"
    <2>1. AfterFile(s) = NextModule(t)
      BY <1>1, <1>4 DEF AfterFile, FilesWritten
    <2>2. t \in Sessions
      BY <1>1, <1>4, ModuleWrittenTypes DEF InLoop
    <2> HIDE DEF t
    <2> QED
      BY <2>1, <2>2, NextModuleTypes
  <1> QED
    BY <1>2, <1>3, <1>4
LEMMA FillFileKeeps ==
    ASSUME Types, FillInv, RouteInv, NEW p \in Procs, FillFile(p)
    PROVE  Kept(files, files') /\ FillInv' /\ RouteInv'
  <1> DEFINE s == sess[p]
             n == AfterFile(sess[p])
             h == Head(sess[p].todo)
  <1>1. /\ s \in Sessions /\ LabelOK(s) /\ s.pc = "fill" /\ s.todo # << >>
        /\ InLoop(s) => Missing(s) # {}
    BY SessionTypes DEF FillFile, LabelOK
  <1>2. h \in Files
    BY <1>1, ListElements DEF Sessions
  <1>3. sess'[p] = n /\ Others(p)
    BY <1>1, FillFileStep, SessionStep DEF Step
  <1>4. /\ files' = [files EXCEPT ![h] = "full"]
        /\ routes' \in {routes, << >>} /\ tmp' = tmp
    BY DEF FillFile
  <1>5. files'[h] = "full" /\ Kept(files, files')
    BY <1>2, <1>4 DEF Kept, Types, DiskTypeOK
  <1>6. Good(files', s.routes) /\ (InLoop(s) => LoopOK(files', s))
    BY <1>1, <1>5, RouteTypes, GoodKept, LoopKept DEF RouteInv
  <1>7. Good(files', n.routes) /\ (InLoop(n) => LoopOK(files', n))
    BY <1>1, <1>5, <1>6, AfterFileRoutes
  <1>8. n.pc # "fill"
    BY <1>1, NotFilling
  <1> HIDE DEF n
  <1>9. RouteInv'
    BY <1>3, <1>4, <1>5, <1>7, CopiesKept
  <1>10. FillInv'
    <2>1. \A f \in Files \ Managed : f = h \/ files'[f] = files[f]
      BY <1>4 DEF Types, DiskTypeOK
    <2> QED
      BY <1>1, <1>3, <1>8, <2>1, FillOthersKept
  <1> QED
    BY <1>5, <1>9, <1>10

(* A file that could not be written is removed: it was this invocation's own, *)
(* and was not full.                                                         *)
LEMMA FillFailsKeeps ==
    ASSUME Types, FillInv, RouteInv, NEW p \in Procs, FillFails(p)
    PROVE  Kept(files, files') /\ FillInv' /\ RouteInv'
  <1> DEFINE h == Head(sess[p].todo)
  <1>1. sess[p].pc = "fill" /\ h \in Files
    BY SessionTypes, ListElements DEF Sessions, LabelOK, FillFails
  <1>2. sess'[p] = Idle /\ Others(p)
    BY SessionStep DEF FillFails, Finish
  <1>3. Idle.pc = "idle" /\ Idle.routes = << >>
    BY DEF Idle
  <1>4. /\ files' = [files EXCEPT ![h] = "absent"]
        /\ routes' = routes /\ tmp' = tmp
    BY DEF FillFails, contents
  <1>5. Kept(files, files')
    BY <1>1, <1>4 DEF Kept, Types, DiskTypeOK, FillInv
  <1>6. RouteInv'
    BY <1>2, <1>3, <1>4, <1>5, NoRoutes, CopiesKept DEF InLoop
  <1>7. FillInv'
    <2>1. \A f \in Files \ Managed : f = h \/ files'[f] = files[f]
      BY <1>4 DEF Types, DiskTypeOK
    <2> QED
      BY <1>1, <1>2, <1>3, <2>1, FillOthersKept
  <1> QED
    BY <1>5, <1>6, <1>7

(* The targets of the additions do not exist, so no route list registers one. *)
LEMMA EnterLoopKeeps ==
    ASSUME Types, FillInv, RouteInv, NEW p \in Procs, CheckTargets(p),
           Missing(sess[p]) # {}, Step(p, NextModule(sess[p]))
    PROVE  Kept(files, files') /\ FillInv' /\ RouteInv'
  <1> DEFINE s == sess[p]
             x == NextModule(sess[p])
  <1>1. s \in Sessions /\ Good(files, s.routes) /\ UNCHANGED <<files, contents, tmp>>
    BY SessionTypes DEF RouteInv, CheckTargets
  <1>2. sess'[p] = x /\ Others(p)
    BY SessionStep DEF Step
  <1>3. /\ x.routes = s.routes /\ x.mods = s.mods
        /\ Missing(x) = Missing(s) /\ x.project = s.project
        /\ x.todo = FilesOf(NextAddition(s)) /\ x.pc = "create"
    BY <1>1, NextModuleTypes
  <1>4. NextAddition(x) = NextAddition(s)
    BY <1>3 DEF NextAddition
  <1> HIDE DEF x
  <1>5. ASSUME NEW i \in Missing(s)
        PROVE  s.mods[i] \notin ToSet(s.routes)
    <2>1. s.mods[i] \in Modules
      BY <1>1, MissingModules
    <2>2. \A f \in ToSet(FilesOf(s.mods[i])) : files[f] = "absent"
      <3>1. s.pc = "check" /\ ~(Missing(s) = {} /\ Build(p))
        BY DEF CheckTargets
      <3> QED
        BY <3>1 DEF CheckTargets, Exists
    <2>3. ~Whole(files, s.mods[i])
      BY <2>1, <2>2, ModuleSpecs DEF Whole
    <2> QED
      BY <1>1, <2>3 DEF Good
  <1>6. LoopOK(files', x)
    BY <1>3, <1>4, <1>5 DEF LoopOK
  <1>7. Kept(files, files')
    BY <1>1 DEF Kept
  <1>8. RouteInv'
    BY <1>1, <1>2, <1>3, <1>6, <1>7, CopiesKept DEF contents
  <1>9. FillInv'
    BY <1>1, <1>2, <1>3, FillOthersKept
  <1> QED
    BY <1>7, <1>8, <1>9

LEMMA InitRoutes == Init => FillInv /\ RouteInv
  <1> SUFFICES ASSUME Init
               PROVE  FillInv /\ RouteInv
    OBVIOUS
  <1>1. \A p \in Procs : sess[p] = Idle
    BY DEF Init
  <1>2. Idle.pc = "idle" /\ Idle.routes = << >>
    BY DEF Idle
  <1>3. FillInv
    BY <1>1, <1>2 DEF FillInv
  <1>4. Good(files, << >>)
    BY NoRoutes
  <1>5. Good(files, routes)
    <2>1. CASE legacy
      <3>1. routes = LegacyRoutes
        BY <2>1 DEF Init
      <3>2. ASSUME NEW m \in ToSet(LegacyRoutes)
            PROVE  Whole(files, m)
        <4>1. m \in ToSet(LegacyModules) /\ m \in Modules
          BY ScaffoldAssumption, ListElements
        <4>2. ToSet(FilesOf(m)) \subseteq Files
          BY <4>1, ModuleSpecs
        <4> QED
          BY <2>1, <4>1, <4>2 DEF Init, Whole
      <3> QED
        BY <3>1, <3>2, ScaffoldAssumption DEF Good
    <2>2. CASE ~legacy
      BY <1>4, <2>2 DEF Init
    <2> QED
      BY <2>1, <2>2
  <1>6. \A f \in Managed : tmp[f].data.routes = << >>
    BY DEF Init, NoTmp, Blank
  <1>7. RouteInv
    BY <1>1, <1>2, <1>4, <1>5, <1>6 DEF RouteInv, InLoop
  <1> QED
    BY <1>3, <1>7

(* Every step keeps full application files and good route lists.             *)
LEMMA NextRoutes ==
    ASSUME Types, FillInv, RouteInv, [Next]_vars
    PROVE  Kept(files, files') /\ FillInv' /\ RouteInv'
  <1>1. CASE UNCHANGED vars
    <2>1. /\ files' = files /\ routes' = routes /\ tmp' = tmp /\ sess' = sess
      BY <1>1 DEF vars, disk, contents
    <2>2. FillInv'
      BY <2>1 DEF FillInv
    <2>3. RouteInv'
      BY <2>1 DEF RouteInv
    <2> QED
      BY <2>1, <2>2, <2>3 DEF Kept
  <1>2. ASSUME NEW p \in Procs,
               Begin(p) \/ Work(p) \/ Crash(p) \/ Tidy(p) \/ Vendor(p)
        PROVE  Kept(files, files') /\ FillInv' /\ RouteInv'
    BY <1>2, QuietSteps, QuietKeeps, CreateFileKeeps, FillFileKeeps,
       FillFailsKeeps, EnterLoopKeeps
  <1> QED
    BY <1>1, <1>2 DEF Next

(* No invocation, however it overlaps with others, fails, is killed or is     *)
(* repeated, truncates, replaces or removes an application file that is       *)
(* complete: writeNewFile creates exclusively and removes only what it        *)
(* created (scaffold.go:442-461).                                            *)
THEOREM ApplicationFilesAreSafe == Spec => NeverClobbers
  <1> DEFINE Inv == Types /\ TypeOK /\ FillInv /\ RouteInv
  <1>1. Init => Inv
    BY InitTypes, InitRoutes
  <1>2. Inv /\ [Next]_vars => Inv' /\ Kept(files, files')
    BY NextTypes, NextRoutes
  <1>3. Kept(files, files') =>
          \A f \in Files \ Managed : files[f] = "full" => files'[f] = "full"
    BY DEF Kept
  <1> QED
    BY <1>1, <1>2, <1>3, PTL DEF Spec, NeverClobbers

(* routes.go registers a module once and only when its files are complete,    *)
(* whatever overlaps, fails or is killed: every copy of the route list, in    *)
(* memory, in a temporary file or in place, has that property, since Add      *)
(* looks for the files before it writes them and registers a module after     *)
(* they are written (scaffold.go:304-313, 321-347).                          *)
THEOREM ApplicationCompiles == Spec => []RoutesCompile
  <1> DEFINE Inv == Types /\ TypeOK /\ FillInv /\ RouteInv
  <1>1. Init => Inv
    BY InitTypes, InitRoutes
  <1>2. Inv /\ [Next]_vars => Inv'
    BY NextTypes, NextRoutes
  <1>3. Inv => RoutesCompile
    <2> SUFFICES ASSUME Inv
                 PROVE  RoutesCompile
      OBVIOUS
    <2>1. Good(files, routes) /\ \A i \in DOMAIN routes : routes[i] \in ToSet(routes)
      BY RouteTypes, ListElements DEF RouteInv
    <2> QED
      BY <2>1 DEF RoutesCompile, Good, Whole, IsInjective
  <1> QED
    BY <1>1, <1>2, <1>3, PTL DEF Spec
-----------------------------------------------------------------------------
(* Without overlap the metadata stays true.                                  *)

(* A step that leaves the project as it is.                                  *)
LEMMA DiskFrame ==
    ASSUME UNCHANGED <<files, contents, legacy>>
    PROVE  /\ IsProject' <=> IsProject
           /\ StoredProject' = StoredProject
           /\ DiskOK => DiskOK'
  <1>1. /\ files' = files /\ routes' = routes /\ goMod' = goMod
        /\ manifest' = manifest /\ replaced' = replaced /\ legacy' = legacy
    BY DEF contents
  <1>2. (IsProject' <=> IsProject) /\ StoredProject' = StoredProject
    BY <1>1 DEF IsProject, StoredProject, Exists
  <1> QED
    BY <1>1, <1>2 DEF DiskOK

LEMMA PresentKept ==
    ASSUME NEW fs, NEW gs, NEW rs, NEW us, NEW ms \in Seq(Modules),
           Kept(fs, gs), ToSet(rs) \subseteq ToSet(us), Present(fs, rs, ms)
    PROVE  Present(gs, us, ms)
  <1>1. ToSet(ms) \subseteq Modules
    BY ListElements
  <1> QED
    BY <1>1, WholeKept DEF Present

(* A step that loses no whole file, in the project or before there is one.    *)
LEMMA DiskGrows ==
    ASSUME Types, DiskOK,
           \A f \in Files : files[f] = "full" => files'[f] = "full",
           files'[ManifestFile] = files[ManifestFile],
           manifest' = manifest, legacy' = legacy,
           ToSet(routes) \subseteq ToSet(routes') \/ ~IsProject,
           replaced' => files'[GoModFile] = "full"
    PROVE  /\ IsProject' <=> IsProject
           /\ StoredProject' = StoredProject
           /\ DiskOK'
  <1>1. (IsProject' <=> IsProject) /\ StoredProject' = StoredProject
    BY DEF IsProject, StoredProject, Exists
  <1>2. ASSUME IsProject
        PROVE  BaseWhole(files') /\ Present(files', routes', StoredProject.modules)
    <2>1. BaseWhole(files')
      BY <1>2, Constants, ListElements DEF DiskOK, BaseWhole
    <2>2. StoredProject.modules \in Seq(Modules)
      BY StoredProjectTypes DEF Projects
    <2>3. Kept(files, files')
      BY DEF Kept
    <2> QED
      BY <1>2, <2>1, <2>2, <2>3, PresentKept DEF DiskOK
  <1> QED
    BY <1>1, <1>2 DEF DiskOK

(* The only invocation that runs takes a step.                               *)
LEMMA SoloStep ==
    ASSUME Types, SoloInv, ~overlapped, NEW p \in Procs, Running(p), Others(p),
           DiskOK', Running(p)' => SessionOK(p)'
    PROVE  SoloInv'
  <1>1. \A q \in Procs \ {p} : ~Running(q)
    BY DEF SoloInv
  <1>2. \A q \in Procs \ {p} : ~Running(q)'
    BY <1>1 DEF Running, Others
  <1> QED
    BY <1>2 DEF SoloInv

(* The only invocation ends, and the project is as it was.                   *)
LEMMA SoloEnds ==
    ASSUME Types, SoloInv, ~overlapped, NEW p \in Procs, Running(p),
           sess' = [sess EXCEPT ![p] = Idle], DiskOK'
    PROVE  SoloInv'
  <1>1. sess'[p] = Idle /\ Others(p)
    BY SessionStep
  <1>2. ~Running(p)'
    BY <1>1 DEF Running, Idle
  <1> QED
    BY <1>1, <1>2, SoloStep

LEMMA PcField ==
    ASSUME NEW s \in Sessions, NEW l \in Labels
    PROVE  LET n == [s EXCEPT !.pc = l] IN
           /\ n \in Sessions /\ n.pc = l
           /\ n.cmd = s.cmd /\ n.mods = s.mods /\ n.apply = s.apply
           /\ n.project = s.project /\ n.routes = s.routes
           /\ n.version = s.version /\ n.out = s.out /\ n.todo = s.todo
           /\ n.failed = s.failed /\ n.local = s.local
           /\ Missing(n) = Missing(s) /\ NextAddition(n) = NextAddition(s)
           /\ Payload(n) = Payload(s)
  <1> DEFINE n == [s EXCEPT !.pc = l]
  <1>1. /\ n \in Sessions /\ n.pc = l
        /\ n.cmd = s.cmd /\ n.mods = s.mods /\ n.apply = s.apply
        /\ n.project = s.project /\ n.routes = s.routes
        /\ n.version = s.version /\ n.out = s.out /\ n.todo = s.todo
        /\ n.failed = s.failed /\ n.local = s.local
    BY DEF Sessions
  <1> HIDE DEF n
  <1>2. Missing(n) = Missing(s)
    BY <1>1 DEF Missing
  <1>3. NextAddition(n) = NextAddition(s)
    BY <1>1, <1>2 DEF NextAddition
  <1>4. Payload(n) = Payload(s)
    BY <1>1 DEF Payload
  <1> QED
    BY <1>1, <1>2, <1>3, <1>4 DEF n
LEMMA SoloStart ==
    ASSUME Types, SoloInv, NEW p \in Procs, NEW s, Start(p, s), ~overlapped',
           SessionOK(p)'
    PROVE  SoloInv'
  <1>1. ~overlapped /\ \A q \in Procs : ~Running(q)
    BY DEF Start
  <1>2. Others(p)
    BY SessionStep DEF Start
  <1>3. DiskOK'
    BY <1>1, DiskFrame DEF Start, disk, SoloInv
  <1>4. \A q \in Procs \ {p} : ~Running(q)'
    BY <1>1, <1>2 DEF Running, Others
  <1> QED
    BY <1>3, <1>4 DEF SoloInv

LEMMA SoloBegin ==
    ASSUME Types, SoloInv, NEW p \in Procs, Begin(p), ~overlapped'
    PROVE  SoloInv'
  <1>1. ASSUME NEW ms \in Requests, StartAdd(p, ms)
        PROVE  SoloInv'
    <2> DEFINE s == [Idle EXCEPT !.pc = "readManifest", !.cmd = "add",
                                 !.mods = ms]
    <2>1. /\ s.pc = "readManifest" /\ s.cmd = "add" /\ s.out = "none"
          /\ s.local = "read" /\ s.failed = FALSE
      BY DEF Idle
    <2>2. Start(p, s)
      BY <1>1 DEF StartAdd
    <2> HIDE DEF s
    <2>3. sess'[p] = s
      BY <2>2, SessionStep DEF Start
    <2>4. SessionOK(p)'
      BY <2>1, <2>3 DEF SessionOK, TmpOK
    <2> QED
      BY <2>2, <2>4, SoloStart
  <1>2. ASSUME NEW v \in Versions, NEW apply \in BOOLEAN, StartUpgrade(p, v, apply)
        PROVE  SoloInv'
    <2> DEFINE s == [Idle EXCEPT !.pc = "readManifest", !.cmd = "upgrade",
                                 !.version = v, !.apply = apply]
    <2>1. /\ s.pc = "readManifest" /\ s.cmd = "upgrade" /\ s.out = "none"
          /\ s.local = "read" /\ s.failed = FALSE
      BY DEF Idle
    <2>2. Start(p, s)
      BY <1>2 DEF StartUpgrade
    <2> HIDE DEF s
    <2>3. sess'[p] = s
      BY <2>2, SessionStep DEF Start
    <2>4. SessionOK(p)'
      BY <2>1, <2>3 DEF SessionOK, TmpOK
    <2> QED
      BY <2>2, <2>4, SoloStart
  <1>3. ASSUME NEW ms \in Requests, NEW local \in BOOLEAN,
               StartCreate(p, ms, local)
        PROVE  SoloInv'
    <2> DEFINE lo == IF local THEN "yes" ELSE "no"
               s == [Idle EXCEPT !.pc = "create", !.cmd = "create", !.mods = ms,
                                 !.todo = BaseFiles,
                                 !.version = FrameworkVersion, !.local = lo]
    <2>1. Start(p, s)
      BY <1>3 DEF StartCreate
    <2> HIDE DEF lo
    <2>2. /\ s.pc = "create" /\ s.cmd = "create" /\ s.todo = BaseFiles
          /\ s.failed = FALSE /\ s.project = NoProject
      BY DEF Idle
    <2> HIDE DEF s
    <2>3. sess'[p] = s
      BY <2>1, SessionStep DEF Start
    <2>4. \A f \in Files : files[f] = "absent"
      BY <1>3 DEF StartCreate, Exists
    <2>5. UNCHANGED <<files, contents, legacy>> /\ ~overlapped
      BY <2>1 DEF Start, disk
    <2>6. DiskOK
      BY <2>5 DEF SoloInv
    <2>7. ~replaced'
      BY <2>4, <2>5, <2>6, Constants DEF DiskOK, contents
    <2>8. ~IsProject
      <3>1. ToSet(BaseFiles) \subseteq Files /\ Head(BaseFiles) \in ToSet(BaseFiles)
        BY Constants, ListElements
      <3> QED
        BY <2>4, <2>6, <3>1 DEF DiskOK, BaseWhole
    <2>9. ~IsProject'
      BY <2>5, <2>8, DiskFrame
    <2>10. NoProject.modules = << >>
      BY DEF NoProject
    <2>11. CreateOK(sess[p])'
      BY <2>2, <2>3, <2>9, <2>10 DEF CreateOK, Replacing
    <2>12. SessionOK(p)'
      BY <2>2, <2>3, <2>7, <2>11 DEF SessionOK, TmpOK
    <2> QED
      BY <2>1, <2>12, SoloStart
  <1> QED
    BY <1>1, <1>2, <1>3 DEF Begin

LEMMA SoloFinishes ==
    ASSUME Types, SoloInv, ~overlapped, NEW p \in Procs, Running(p),
           FailReading(p) \/ CreateFails(p) \/ OpenTmpFails(p) \/ Crash(p)
    PROVE  SoloInv'
  <1>1. /\ sess' = [sess EXCEPT ![p] = Idle]
        /\ UNCHANGED <<files, contents, legacy>>
    BY DEF FailReading, CreateFails, OpenTmpFails, Crash, Finish, disk
  <1> QED
    BY <1>1, DiskFrame, SoloEnds DEF SoloInv

(* The steps that read.                                                      *)
LEMMA SoloReadManifest ==
    ASSUME Types, SoloInv, ~overlapped, NEW p \in Procs, Running(p),
           ReadManifest(p)
    PROVE  SoloInv'
  <1> DEFINE s == sess[p]
             pr == StoredProject
             l == IF sess[p].cmd = "add" THEN "readRoutes" ELSE "readGoMod"
             n == [sess[p] EXCEPT !.project = pr, !.pc = l]
  <1>1. s \in Sessions /\ s.pc = "readManifest" /\ SessionOK(p) /\ DiskOK
    BY SessionTypes DEF ReadManifest, SoloInv
  <1>2. sess'[p] = n /\ Others(p) /\ UNCHANGED <<files, contents, tmp, legacy>>
    BY SessionStep DEF ReadManifest, Step
  <1> HIDE DEF pr
  <1>3. /\ n.pc = l /\ n.project = pr /\ n.cmd = s.cmd /\ n.out = s.out
        /\ n.failed = s.failed /\ n.local = s.local
    BY <1>1 DEF Sessions
  <1> HIDE DEF n
  <1>4. /\ s.cmd \in {"add", "upgrade"} /\ s.out = "none" /\ ~s.failed
        /\ s.local = "no" => ~replaced
    BY <1>1 DEF SessionOK
  <1>5. DiskOK' /\ IsProject' /\ StoredProject' = pr
    BY <1>1, <1>2, DiskFrame DEF pr, ReadManifest
  <1>6. Present(files', routes', pr.modules)
    BY <1>5 DEF DiskOK
  <1>7. CASE s.cmd = "add"
    <2>1. AddOK(sess[p])'
      BY <1>2, <1>3, <1>4, <1>5, <1>6, <1>7 DEF AddOK, AddPlace, Replaced
    <2> QED
      BY <1>2, <1>3, <1>4, <1>5, <1>7, <2>1, SoloStep
      DEF SessionOK, TmpOK, contents
  <1>8. CASE s.cmd = "upgrade"
    <2>1. UpgradeOK(sess[p])'
      BY <1>2, <1>3, <1>4, <1>5, <1>6, <1>8 DEF UpgradeOK, Replaced
    <2> QED
      BY <1>2, <1>3, <1>4, <1>5, <1>8, <2>1, SoloStep
      DEF SessionOK, TmpOK, contents
  <1> QED
    BY <1>4, <1>7, <1>8

LEMMA SoloReadRoutes ==
    ASSUME Types, SoloInv, ~overlapped, NEW p \in Procs, Running(p), ReadRoutes(p)
    PROVE  SoloInv'
  <1> DEFINE s == sess[p]
             n == [sess[p] EXCEPT !.routes = routes, !.pc = "check"]
  <1>1. s \in Sessions /\ s.pc = "readRoutes" /\ SessionOK(p) /\ DiskOK
    BY SessionTypes DEF ReadRoutes, SoloInv
  <1>2. sess'[p] = n /\ Others(p) /\ UNCHANGED <<files, contents, tmp, legacy>>
    BY SessionStep DEF ReadRoutes, Step
  <1>3. /\ n.pc = "check" /\ n.routes = routes /\ n.project = s.project
        /\ n.cmd = s.cmd /\ n.out = s.out
        /\ n.failed = s.failed /\ n.local = s.local
    BY <1>1 DEF Sessions
  <1> HIDE DEF n
  <1>4. /\ s.cmd = "add" /\ AddOK(s) /\ ~s.failed
        /\ s.local = "no" => ~replaced
    BY <1>1 DEF SessionOK, CreateOK, UpgradeOK
  <1>5. /\ DiskOK' /\ (IsProject' <=> IsProject)
        /\ StoredProject' = StoredProject
    BY <1>1, <1>2, DiskFrame
  <1>6. AddOK(sess[p])'
    BY <1>1, <1>2, <1>3, <1>4, <1>5 DEF AddOK, AddPlace, Replaced, contents
  <1> QED
    BY <1>2, <1>3, <1>4, <1>5, <1>6, SoloStep DEF SessionOK, TmpOK, contents

LEMMA SoloReadVersion ==
    ASSUME Types, SoloInv, ~overlapped, NEW p \in Procs, Running(p), ReadVersion(p)
    PROVE  SoloInv'
  <1> DEFINE s == sess[p]
             n == [sess[p] EXCEPT !.version = goMod, !.pc = "open",
                                  !.out = ManifestFile]
  <1>1. s \in Sessions /\ s.pc = "readVersion" /\ SessionOK(p) /\ DiskOK
    BY SessionTypes DEF ReadVersion, SoloInv
  <1>2. sess'[p] = n /\ Others(p) /\ UNCHANGED <<files, contents, tmp, legacy>>
    BY SessionStep DEF ReadVersion, Step
  <1>3. /\ n.pc = "open" /\ n.routes = s.routes /\ n.project = s.project
        /\ n.cmd = s.cmd /\ n.out = ManifestFile /\ n.mods = s.mods
        /\ n.failed = s.failed /\ n.local = s.local
    BY <1>1 DEF Sessions
  <1> HIDE DEF n
  <1>4. /\ s.cmd = "add" /\ AddOK(s) /\ ~s.failed
        /\ s.local = "no" => ~replaced
    BY <1>1 DEF SessionOK, CreateOK, UpgradeOK
  <1>5. DiskOK' /\ (IsProject' <=> IsProject)
    BY <1>1, <1>2, DiskFrame
  <1>6. Missing(n) = Missing(s)
    BY <1>3 DEF Missing
  <1>7. AddOK(sess[p])'
    BY <1>1, <1>2, <1>3, <1>4, <1>5, <1>6, Constants
    DEF AddOK, AddPlace, Registering, Replaced, contents
  <1> QED
    BY <1>2, <1>3, <1>4, <1>5, <1>7, SoloStep DEF SessionOK, TmpOK, contents
LEMMA SoloBuild ==
    ASSUME Types, SoloInv, ~overlapped, NEW p \in Procs, Running(p), Build(p),
           UNCHANGED <<files, contents>>, sess[p].cmd # "upgrade",
           sess[p].mods # << >> => IsProject,
           ToSet(sess[p].mods) \subseteq ToSet(StoredProject.modules)
    PROVE  SoloInv'
  <1> DEFINE s == sess[p]
             n == [Idle EXCEPT !.pc = "tidy", !.cmd = sess[p].cmd,
                               !.mods = sess[p].mods, !.local = sess[p].local]
  <1>1. sess'[p] = n /\ Others(p) /\ UNCHANGED <<files, contents, legacy>>
    BY SessionStep DEF Build, Step
  <1>2. /\ n.pc = "tidy" /\ n.cmd = s.cmd /\ n.mods = s.mods
        /\ n.local = s.local /\ n.failed = FALSE
    BY DEF Idle
  <1> HIDE DEF n
  <1>3. /\ DiskOK' /\ (IsProject' <=> IsProject)
        /\ StoredProject' = StoredProject
    BY <1>1, DiskFrame DEF SoloInv
  <1>4. s.local = "no" => ~replaced
    BY DEF SoloInv, SessionOK
  <1>5. GoOK(sess[p])'
    BY <1>1, <1>2, <1>3 DEF GoOK
  <1>6. SessionOK(p)'
    BY <1>1, <1>2, <1>4, <1>5 DEF SessionOK, TmpOK, contents
  <1> QED
    BY <1>1, <1>3, <1>6, SoloStep

(* With nothing missing every request is in the module list.                 *)
LEMMA NoneMissing ==
    ASSUME NEW s \in Sessions, Missing(s) = {}
    PROVE  ToSet(s.mods) \subseteq ToSet(s.project.modules)
  BY DEF Missing, ToSet

LEMMA SoloCheckTargets ==
    ASSUME Types, SoloInv, ~overlapped, NEW p \in Procs, Running(p),
           CheckTargets(p)
    PROVE  SoloInv'
  <1> DEFINE s == sess[p]
             n == NextModule(sess[p])
  <1>1. s \in Sessions /\ s.pc = "check" /\ SessionOK(p) /\ DiskOK
    BY SessionTypes DEF CheckTargets, SoloInv
  <1>2. /\ s.cmd = "add" /\ AddOK(s) /\ ~s.failed
        /\ s.local = "no" => ~replaced
    BY <1>1 DEF SessionOK, CreateOK, UpgradeOK
  <1>3. UNCHANGED <<files, contents>>
    BY DEF CheckTargets, contents
  <1>4. CASE Missing(s) = {} /\ Build(p)
    <2>1. ToSet(s.mods) \subseteq ToSet(StoredProject.modules)
      BY <1>1, <1>2, <1>4, NoneMissing DEF AddOK
    <2> QED
      BY <1>2, <1>3, <1>4, <2>1, SoloBuild DEF AddOK
  <1>5. CASE Missing(s) # {} /\ Step(p, n)
    <2>1. sess'[p] = n /\ Others(p) /\ UNCHANGED <<files, contents, legacy>>
      BY <1>3, <1>5, SessionStep DEF Step
    <2>2. /\ n.pc = "create" /\ n.routes = s.routes /\ n.project = s.project
          /\ n.cmd = s.cmd /\ n.out = s.out /\ n.mods = s.mods
          /\ n.failed = s.failed /\ n.local = s.local
          /\ n.todo = FilesOf(NextAddition(s)) /\ Missing(n) = Missing(s)
      BY <1>1, <1>5, NextModuleTypes
    <2>3. NextAddition(n) = NextAddition(s)
      BY <2>2 DEF NextAddition
    <2> HIDE DEF n
    <2>4. DiskOK' /\ (IsProject' <=> IsProject)
      BY <1>1, <2>1, DiskFrame
    <2>5. AddOK(sess[p])'
      BY <1>1, <1>2, <2>1, <2>2, <2>3, <2>4
      DEF AddOK, AddPlace, Registering, Replaced, contents
    <2> QED
      BY <1>2, <2>1, <2>2, <2>4, <2>5, SoloStep DEF SessionOK, TmpOK, contents
  <1> QED
    BY <1>4, <1>5 DEF CheckTargets

LEMMA SoloReadGoMod ==
    ASSUME Types, SoloInv, ~overlapped, NEW p \in Procs, Running(p), ReadGoMod(p)
    PROVE  SoloInv'
  <1> DEFINE s == sess[p]
  <1>1. s \in Sessions /\ s.pc = "readGoMod" /\ SessionOK(p) /\ DiskOK
    BY SessionTypes DEF ReadGoMod, SoloInv
  <1>2. /\ s.cmd = "upgrade" /\ UpgradeOK(s) /\ ~s.failed
        /\ s.local = "no" => ~replaced
    BY <1>1 DEF SessionOK, CreateOK, AddOK, AddPlace
  <1>3. ASSUME NEW f \in {GoModFile, ManifestFile},
               f = ManifestFile => goMod = s.version,
               Step(p, [s EXCEPT !.pc = "open", !.out = f])
        PROVE  SoloInv'
    <2> DEFINE n == [s EXCEPT !.pc = "open", !.out = f]
    <2>1. sess'[p] = n /\ Others(p) /\ UNCHANGED <<files, contents, legacy>>
      BY <1>3, SessionStep DEF Step, ReadGoMod
    <2>2. /\ n.pc = "open" /\ n.routes = s.routes /\ n.project = s.project
          /\ n.cmd = s.cmd /\ n.out = f /\ n.version = s.version
          /\ n.failed = s.failed /\ n.local = s.local
      BY <1>1 DEF Sessions
    <2> HIDE DEF n
    <2>3. /\ DiskOK' /\ (IsProject' <=> IsProject)
          /\ StoredProject' = StoredProject
      BY <1>1, <2>1, DiskFrame
    <2>4. UpgradeOK(sess[p])'
      BY <1>1, <1>2, <1>3, <2>1, <2>2, <2>3, Constants
      DEF UpgradeOK, Replaced, Replacing, contents
    <2> QED
      BY <1>2, <2>1, <2>2, <2>3, <2>4, SoloStep DEF SessionOK, TmpOK, contents
  <1>4. CASE Finish(p, "ok")
    BY <1>1, <1>4, DiskFrame, SoloEnds DEF Finish, ReadGoMod
  <1>5. CASE Step(p, [s EXCEPT !.pc = "open", !.out = GoModFile])
    BY <1>3, <1>5, Constants
  <1>6. CASE /\ goMod = s.version
             /\ Step(p, [s EXCEPT !.pc = "open", !.out = ManifestFile])
    BY <1>3, <1>6
  <1> QED
    BY <1>4, <1>5, <1>6 DEF ReadGoMod

-----------------------------------------------------------------------------
(* A move of the only invocation that leaves the project alone and goes from  *)
(* one step of writeAtomic to the next.                                      *)
LEMMA SoloMove ==
    ASSUME Types, SoloInv, ~overlapped, NEW p \in Procs, Running(p),
           NEW n, sess' = [sess EXCEPT ![p] = n],
           UNCHANGED <<files, contents, legacy>>,
           sess[p].pc \in {"open", "write", "rename"},
           n.pc \in {"write", "rename", "remove"},
           n.pc = "remove" <=> n.failed,
           n.cmd = sess[p].cmd, n.project = sess[p].project,
           n.routes = sess[p].routes, n.version = sess[p].version,
           n.out = sess[p].out, n.local = sess[p].local, n.mods = sess[p].mods,
           TmpOK(p, sess[p])'
    PROVE  SoloInv'
  <1> DEFINE s == sess[p]
  <1>1. s \in Sessions /\ SessionOK(p) /\ DiskOK /\ ~s.failed
    BY SessionTypes DEF SoloInv, SessionOK
  <1>2. sess'[p] = n /\ Others(p)
    BY SessionStep
  <1>3. /\ DiskOK' /\ (IsProject' <=> IsProject)
        /\ StoredProject' = StoredProject
    BY <1>1, DiskFrame
  <1>4. Missing(n) = Missing(s)
    BY DEF Missing
  <1>5. /\ files' = files /\ routes' = routes /\ goMod' = goMod
        /\ replaced' = replaced
    BY DEF contents
  <1>6. s.local = "no" => ~replaced
    BY <1>1 DEF SessionOK
  <1>7. CASE s.cmd = "create" /\ CreateOK(s)
    <2>1. CreateOK(sess[p])'
      BY <1>2, <1>5, <1>7 DEF CreateOK, Replacing
    <2> QED
      BY <1>2, <1>3, <1>5, <1>6, <1>7, <2>1, SoloStep DEF SessionOK
  <1>8. CASE s.cmd = "add" /\ AddOK(s)
    <2>1. AddOK(sess[p])'
      BY <1>1, <1>2, <1>3, <1>4, <1>5, <1>8
      DEF AddOK, AddPlace, Registering, Replaced
    <2> QED
      BY <1>2, <1>3, <1>5, <1>6, <1>8, <2>1, SoloStep DEF SessionOK
  <1>9. CASE s.cmd = "upgrade" /\ UpgradeOK(s)
    <2>1. UpgradeOK(sess[p])'
      BY <1>1, <1>2, <1>3, <1>5, <1>9 DEF UpgradeOK, Replaced, Replacing
    <2> QED
      BY <1>2, <1>3, <1>5, <1>6, <1>9, <2>1, SoloStep DEF SessionOK
  <1> QED
    BY <1>1, <1>7, <1>8, <1>9 DEF SessionOK

LEMMA SoloOpenTmp ==
    ASSUME Types, SoloInv, ~overlapped, NEW p \in Procs, Running(p), OpenTmp(p)
    PROVE  SoloInv'
  <1> DEFINE s == sess[p]
             n == [sess[p] EXCEPT !.pc = "write"]
             d == Payload(sess[p])
  <1>1. s \in Sessions /\ s.pc = "open" /\ s.out \in Managed /\ ~s.failed
    BY SessionTypes DEF OpenTmp, LabelOK, SoloInv, SessionOK
  <1>2. /\ sess' = [sess EXCEPT ![p] = n]
        /\ UNCHANGED <<files, contents, legacy>>
    BY DEF OpenTmp, Goto, Step
  <1>3. /\ n.pc = "write" /\ n.cmd = s.cmd /\ n.project = s.project
        /\ n.routes = s.routes /\ n.version = s.version /\ n.out = s.out
        /\ n.local = s.local /\ n.mods = s.mods /\ n.failed = s.failed
        /\ Payload(n) = d
    <2>1. "write" \in Labels
      BY DEF Labels
    <2> QED
      BY <1>1, <2>1, PcField
  <1>4. tmp' = [tmp EXCEPT ![s.out] =
                  [state |-> "partial", owner |-> p, data |-> d]]
    BY DEF OpenTmp
  <1> HIDE DEF n, d
  <1>5. tmp'[s.out] = [state |-> "partial", owner |-> p, data |-> d]
    BY <1>1, <1>4 DEF Types, DiskTypeOK
  <1>6. sess'[p] = n
    BY <1>2, SessionStep
  <1>7. writer'[s.out] # p
    <2>1. writer' = [writer EXCEPT ![s.out] = IF @ = p THEN "none" ELSE @]
      BY DEF OpenTmp
    <2>2. p # "none"
      BY ScaffoldAssumption
    <2> QED
      BY <1>1, <2>1, <2>2 DEF Types, DiskTypeOK
  <1>8. TmpOK(p, sess[p])'
    BY <1>3, <1>5, <1>6, <1>7 DEF TmpOK
  <1> QED
    BY <1>1, <1>2, <1>3, <1>8, SoloMove

LEMMA SoloDiscard ==
    ASSUME Types, SoloInv, ~overlapped, NEW p \in Procs, Running(p), Discard(p),
           sess[p].pc \in {"write", "rename"}, UNCHANGED <<files, contents>>
    PROVE  SoloInv'
  <1> DEFINE s == sess[p]
             n == [sess[p] EXCEPT !.pc = "remove", !.failed = TRUE]
  <1>1. sess' = [sess EXCEPT ![p] = n] /\ UNCHANGED <<files, contents, legacy>>
    BY DEF Discard, Step
  <1>2. /\ n.pc = "remove" /\ n.cmd = s.cmd /\ n.project = s.project
        /\ n.routes = s.routes /\ n.version = s.version /\ n.out = s.out
        /\ n.local = s.local /\ n.mods = s.mods /\ n.failed = TRUE
    BY SessionTypes DEF Sessions
  <1> HIDE DEF n
  <1>3. sess'[p] = n
    BY <1>1, SessionStep
  <1>4. TmpOK(p, sess[p])'
    BY <1>2, <1>3 DEF TmpOK
  <1> QED
    BY <1>1, <1>2, <1>4, SoloMove

LEMMA SoloRenameFails ==
    ASSUME Types, SoloInv, ~overlapped, NEW p \in Procs, Running(p), RenameFails(p)
    PROVE  SoloInv'
  BY SoloDiscard DEF RenameFails

LEMMA SoloWriteTmp ==
    ASSUME Types, SoloInv, ~overlapped, NEW p \in Procs, Running(p), WriteTmp(p)
    PROVE  SoloInv'
  <1> DEFINE s == sess[p]
             n == [sess[p] EXCEPT !.pc = "rename"]
             d == Payload(sess[p])
  <1>1. /\ s \in Sessions /\ s.pc = "write" /\ s.out \in Managed /\ ~s.failed
        /\ TmpOK(p, s)
    BY SessionTypes DEF WriteTmp, LabelOK, SoloInv, SessionOK
  <1>2. CASE Discard(p) /\ UNCHANGED <<files, tmp>>
    BY <1>1, <1>2, SoloDiscard DEF WriteTmp
  <1>3. CASE /\ Goto(p, "rename")
             /\ tmp' = IF tmp[s.out].owner = p
                       THEN [tmp EXCEPT ![s.out].state = "full"] ELSE tmp
             /\ files' = IF writer[s.out] = p
                         THEN [files EXCEPT ![s.out] = "full"] ELSE files
    <2>1. /\ sess' = [sess EXCEPT ![p] = n]
          /\ UNCHANGED <<files, contents, legacy>>
      BY <1>1, <1>3 DEF WriteTmp, Goto, Step, TmpOK
    <2>2. /\ n.pc = "rename" /\ n.cmd = s.cmd /\ n.project = s.project
          /\ n.routes = s.routes /\ n.version = s.version /\ n.out = s.out
          /\ n.local = s.local /\ n.mods = s.mods /\ n.failed = s.failed
          /\ Payload(n) = d
      <3>1. "rename" \in Labels
        BY DEF Labels
      <3> QED
        BY <1>1, <3>1, PcField
    <2>3. tmp[s.out] = [state |-> "partial", owner |-> p, data |-> d]
      BY <1>1 DEF TmpOK
    <2> HIDE DEF n, d
    <2>4. tmp' = [tmp EXCEPT ![s.out] = [@ EXCEPT !.state = "full"]]
      BY <1>3, <2>3
    <2>5. tmp'[s.out] = [state |-> "full", owner |-> p, data |-> d]
      BY <1>1, <2>3, <2>4 DEF Types, DiskTypeOK
    <2>6. sess'[p] = n
      BY <2>1, SessionStep
    <2>7. TmpOK(p, sess[p])'
      BY <2>2, <2>5, <2>6 DEF TmpOK
    <2> QED
      BY <1>1, <2>1, <2>2, <2>7, SoloMove
  <1> QED
    BY <1>2, <1>3 DEF WriteTmp

(* A rename puts in place what this invocation wrote.                        *)
LEMMA SoloRenameTmp ==
    ASSUME Types, SoloInv, ~overlapped, NEW p \in Procs, Running(p), RenameTmp(p)
    PROVE  SoloInv'
  <1> DEFINE s == sess[p]
             n == [sess[p] EXCEPT !.pc = "remove"]
             d == Payload(sess[p])
  <1>1. /\ s \in Sessions /\ s.pc = "rename" /\ s.out \in Managed /\ ~s.failed
        /\ SessionOK(p) /\ DiskOK
        /\ s.local = "no" => ~replaced
    BY SessionTypes DEF RenameTmp, LabelOK, SoloInv, SessionOK
  <1>2. /\ sess' = [sess EXCEPT ![p] = n]
        /\ legacy' = legacy /\ replaced' = replaced
    BY DEF RenameTmp, Goto, Step
  <1>3. /\ n.pc = "remove" /\ n.cmd = s.cmd /\ n.project = s.project
        /\ n.routes = s.routes /\ n.version = s.version /\ n.out = s.out
        /\ n.local = s.local /\ n.mods = s.mods /\ n.failed = s.failed
        /\ Missing(n) = Missing(s) /\ Payload(n) = d
    <2>1. "remove" \in Labels
      BY DEF Labels
    <2> QED
      BY <1>1, <2>1, PcField
  <1>4. tmp[s.out] = [state |-> "full", owner |-> p, data |-> d]
    BY <1>1 DEF SessionOK, TmpOK
  <1>5. /\ files' = [files EXCEPT ![s.out] = "full"]
        /\ routes' = IF s.out = RoutesFile THEN d.routes ELSE routes
        /\ goMod' = IF s.out = GoModFile THEN d.version ELSE goMod
        /\ manifest' = IF s.out = ManifestFile THEN d.project ELSE manifest
    BY <1>4 DEF RenameTmp
  <1>6. /\ d.routes = s.routes /\ d.version = s.version
        /\ d.project.modules = s.project.modules
    BY <1>1, PayloadTypes
  <1>7. /\ s.project.modules \in Seq(Modules)
        /\ s.out \in Files
    BY <1>1, Constants DEF Sessions, Projects
  <1> HIDE DEF n, d
  <1>8. sess'[p] = n /\ Others(p)
    BY <1>2, SessionStep
  <1>9. /\ \A f \in Files : files[f] = "full" => files'[f] = "full"
        /\ Kept(files, files')
        /\ files'[s.out] = "full"
        /\ \A f \in Files : f # s.out => files'[f] = files[f]
    BY <1>5, <1>7 DEF Types, DiskTypeOK, Kept
  <1>10. replaced' => files'[GoModFile] = "full"
    BY <1>1, <1>2, <1>9, Constants DEF DiskOK
  <1>11. TmpOK(p, sess[p])'
    BY <1>3, <1>8 DEF TmpOK
  <1>12. /\ s.out # ManifestFile =>
              /\ manifest' = manifest
              /\ files'[ManifestFile] = files[ManifestFile]
         /\ s.out = ManifestFile =>
              /\ IsProject' /\ StoredProject' = d.project
              /\ files'[ManifestFile] # "partial"
    BY <1>5, <1>9, Constants DEF IsProject, StoredProject, Exists
  <1>13. BaseWhole(files) => BaseWhole(files')
    BY <1>9, Constants, ListElements DEF BaseWhole
  <1>14. CASE s.cmd = "create" /\ CreateOK(s)
    <2>1. s.out = ManifestFile /\ BaseWhole(files) /\ s.project.modules = << >>
      BY <1>1, <1>14 DEF CreateOK, Replacing
    <2>2. Present(files', routes', d.project.modules)
      BY <1>6, <2>1, NoElements DEF Present
    <2>3. DiskOK'
      BY <1>10, <1>12, <1>13, <2>1, <2>2 DEF DiskOK
    <2>4. CreateOK(sess[p])'
      BY <1>3, <1>8, <2>1 DEF CreateOK, Replacing
    <2> QED
      BY <1>1, <1>2, <1>3, <1>8, <1>11, <1>14, <2>3, <2>4, SoloStep DEF SessionOK
  <1>15. CASE s.cmd = "add" /\ AddOK(s)
    <2>1. /\ IsProject /\ Missing(s) = {}
          /\ Present(files, s.routes, s.project.modules)
          /\ ToSet(routes) \subseteq ToSet(s.routes)
          /\ s.out \in {RoutesFile, ManifestFile}
          /\ s.out # RoutesFile => ToSet(s.routes) \subseteq ToSet(routes)
      BY <1>1, <1>15 DEF AddOK, AddPlace, Registering
    <2>2. /\ ToSet(routes') = ToSet(s.routes)
          /\ ToSet(routes) \subseteq ToSet(routes')
      BY <1>5, <1>6, <2>1
    <2>3. /\ Present(files', s.routes, s.project.modules)
          /\ Present(files', routes', s.project.modules)
      BY <1>7, <1>9, <2>1, <2>2, PresentKept
    <2>4. DiskOK' /\ IsProject'
      <3>1. CASE s.out = RoutesFile
        BY <1>1, <1>2, <1>9, <1>10, <1>12, <2>1, <2>2, <3>1, Constants, DiskGrows
      <3>2. CASE s.out = ManifestFile
        BY <1>1, <1>6, <1>10, <1>12, <1>13, <2>1, <2>3, <3>2 DEF DiskOK
      <3> QED
        BY <2>1, <3>1, <3>2
    <2>5. AddOK(sess[p])'
      BY <1>1, <1>3, <1>8, <1>12, <2>1, <2>2, <2>3, <2>4
      DEF AddOK, AddPlace, Registering, Replaced
    <2> QED
      BY <1>1, <1>2, <1>3, <1>8, <1>11, <1>15, <2>4, <2>5, SoloStep DEF SessionOK
  <1>16. CASE s.cmd = "upgrade" /\ UpgradeOK(s)
    <2>1. /\ IsProject
          /\ Present(files, routes, s.project.modules)
          /\ s.out \in {GoModFile, ManifestFile}
          /\ s.out = GoModFile => s.project = StoredProject
          /\ s.out = ManifestFile => goMod = s.version
      BY <1>1, <1>16, Constants DEF UpgradeOK
    <2>2. routes' = routes /\ goMod' = s.version
      BY <1>5, <1>6, <2>1, Constants
    <2>3. Present(files', routes', s.project.modules)
      BY <1>7, <1>9, <2>1, <2>2, PresentKept
    <2>4. /\ DiskOK' /\ IsProject'
          /\ s.out = GoModFile => StoredProject' = StoredProject
      <3>1. CASE s.out = GoModFile
        BY <1>1, <1>2, <1>9, <1>10, <1>12, <2>1, <2>2, <3>1, Constants, DiskGrows
      <3>2. CASE s.out = ManifestFile
        BY <1>1, <1>6, <1>10, <1>12, <1>13, <2>1, <2>3, <3>2, Constants DEF DiskOK
      <3> QED
        BY <2>1, <3>1, <3>2
    <2>5. UpgradeOK(sess[p])'
      BY <1>1, <1>3, <1>8, <1>12, <2>1, <2>2, <2>3, <2>4
      DEF UpgradeOK, Replaced, Replacing
    <2> QED
      BY <1>1, <1>2, <1>3, <1>8, <1>11, <1>16, <2>4, <2>5, SoloStep DEF SessionOK
  <1> QED
    BY <1>1, <1>14, <1>15, <1>16 DEF SessionOK

(* Once the file is in place the command goes on from it.                    *)
LEMMA SoloContinue ==
    ASSUME Types, SoloInv, ~overlapped, NEW p \in Procs, Running(p),
           sess[p].pc = "remove", ~sess[p].failed, UNCHANGED <<files, contents>>,
           Continue(p)
    PROVE  SoloInv'
  <1> DEFINE s == sess[p]
  <1>1. /\ s \in Sessions /\ SessionOK(p) /\ DiskOK
        /\ s.local = "no" => ~replaced
    BY SessionTypes DEF SoloInv, SessionOK
  <1>2. \/ s.cmd = "create" /\ CreateOK(s) /\ s.out = ManifestFile
        \/ s.cmd = "add" /\ AddOK(s)
        \/ s.cmd = "upgrade" /\ UpgradeOK(s)
    BY <1>1 DEF SessionOK, CreateOK
  <1>3. /\ files' = files /\ routes' = routes /\ goMod' = goMod
        /\ replaced' = replaced
    BY DEF contents
  <1>4. CASE \E a \in {"ok", "error"} : Finish(p, a)
    BY <1>1, <1>4, DiskFrame, SoloEnds DEF Finish
  <1>5. CASE s.out = RoutesFile /\ Goto(p, "readVersion")
    <2> DEFINE n == [sess[p] EXCEPT !.pc = "readVersion"]
    <2>1. sess'[p] = n /\ Others(p) /\ UNCHANGED <<files, contents, legacy>>
      BY <1>5, SessionStep DEF Goto, Step
    <2>2. /\ n.pc = "readVersion" /\ n.cmd = s.cmd /\ n.project = s.project
          /\ n.routes = s.routes /\ n.out = s.out /\ n.local = s.local
          /\ n.failed = s.failed /\ Missing(n) = Missing(s)
      <3>1. "readVersion" \in Labels
        BY DEF Labels
      <3> QED
        BY <1>1, <3>1, PcField
    <2> HIDE DEF n
    <2>3. s.cmd = "add" /\ AddOK(s)
      BY <1>2, <1>5, Constants DEF UpgradeOK
    <2>4. DiskOK' /\ (IsProject' <=> IsProject)
      BY <1>1, <2>1, DiskFrame
    <2>5. AddOK(sess[p])'
      BY <1>3, <2>1, <2>2, <2>3, <2>4 DEF AddOK, AddPlace, Registering, Replaced
    <2> QED
      BY <1>1, <1>3, <2>1, <2>2, <2>3, <2>4, <2>5, SoloStep DEF SessionOK, TmpOK
  <1>6. CASE /\ s.out = GoModFile
             /\ Step(p, [s EXCEPT !.pc = "open", !.out = ManifestFile])
    <2> DEFINE n == [s EXCEPT !.pc = "open", !.out = ManifestFile]
    <2>1. sess'[p] = n /\ Others(p) /\ UNCHANGED <<files, contents, legacy>>
      BY <1>6, SessionStep DEF Step
    <2>2. /\ n.pc = "open" /\ n.cmd = s.cmd /\ n.project = s.project
          /\ n.version = s.version /\ n.out = ManifestFile
          /\ n.local = s.local /\ n.failed = s.failed
      BY <1>1 DEF Sessions
    <2> HIDE DEF n
    <2>3. s.cmd = "upgrade" /\ UpgradeOK(s)
      BY <1>2, <1>6, Constants DEF AddOK, AddPlace
    <2>4. /\ DiskOK' /\ (IsProject' <=> IsProject)
          /\ StoredProject' = StoredProject
      BY <1>1, <2>1, DiskFrame
    <2>5. UpgradeOK(sess[p])'
      BY <1>3, <2>1, <2>2, <2>3, <2>4, Constants
      DEF UpgradeOK, Replaced, Replacing
    <2> QED
      BY <1>1, <1>3, <2>1, <2>2, <2>3, <2>4, <2>5, SoloStep DEF SessionOK, TmpOK
  <1>7. CASE Step(p, [Idle EXCEPT !.pc = "readManifest", !.cmd = "add",
                                  !.mods = s.mods, !.local = s.local])
    <2> DEFINE n == [Idle EXCEPT !.pc = "readManifest", !.cmd = "add",
                                 !.mods = s.mods, !.local = s.local]
    <2>1. sess'[p] = n /\ Others(p) /\ UNCHANGED <<files, contents, legacy>>
      BY <1>7, SessionStep DEF Step
    <2>2. /\ n.pc = "readManifest" /\ n.cmd = "add" /\ n.out = "none"
          /\ n.local = s.local /\ n.failed = FALSE
      BY DEF Idle
    <2> HIDE DEF n
    <2>3. DiskOK'
      BY <1>1, <2>1, DiskFrame
    <2>4. SessionOK(p)'
      BY <1>1, <1>3, <2>1, <2>2 DEF SessionOK, TmpOK
    <2> QED
      BY <2>1, <2>3, <2>4, SoloStep
  <1>8. CASE /\ s.out = ManifestFile
             /\ s.cmd = "add" \/ (s.cmd = "create" /\ s.mods = << >>)
             /\ Build(p)
    <2>1. ToSet(s.mods) \subseteq ToSet(StoredProject.modules)
      <3>1. CASE s.mods = << >>
        BY <3>1, NoElements
      <3>2. CASE s.cmd = "add"
        <4>1. /\ StoredProject.modules = s.project.modules
              /\ Missing(s) = {}
          BY <1>1, <1>2, <1>8, <3>2, PayloadTypes DEF AddOK, Replaced
        <4> QED
          BY <1>1, <4>1, NoneMissing
      <3> QED
        BY <1>8, <3>1, <3>2
    <2>2. s.mods # << >> => IsProject
      BY <1>2, <1>8 DEF AddOK
    <2> QED
      BY <1>8, <2>1, <2>2, SoloBuild
  <1> QED
    BY <1>4, <1>5, <1>6, <1>7, <1>8 DEF Continue

LEMMA SoloRemoveTmp ==
    ASSUME Types, SoloInv, ~overlapped, NEW p \in Procs, Running(p), RemoveTmp(p)
    PROVE  SoloInv'
  <1>1. CASE sess[p].failed
    <2>1. /\ sess' = [sess EXCEPT ![p] = Idle]
          /\ UNCHANGED <<files, contents, legacy>>
      BY <1>1 DEF RemoveTmp, Finish
    <2> QED
      BY <2>1, DiskFrame, SoloEnds DEF SoloInv
  <1>2. CASE ~sess[p].failed
    BY <1>2, SoloContinue DEF RemoveTmp
  <1> QED
    BY <1>1, <1>2

-----------------------------------------------------------------------------
(* New files: never the metadata, and in a project only those of a module.    *)
LEMMA SoloHead ==
    ASSUME Types, SoloInv, ~overlapped, NEW p \in Procs, Running(p),
           sess[p].pc \in {"create", "fill"}
    PROVE  LET s == sess[p]
               h == Head(sess[p].todo) IN
           /\ s \in Sessions /\ LabelOK(s) /\ s.todo # << >>
           /\ h \in Files /\ h \in ToSet(s.todo) /\ h # ManifestFile
           /\ DiskOK /\ ~s.failed
           /\ s.pc = "fill" => files[h] = "partial"
           /\ s.local = "no" => ~replaced
           /\ \/ s.cmd = "create" /\ CreateOK(s)
              \/ s.cmd = "add" /\ AddOK(s) /\ Missing(s) # {} /\ h \notin Managed
  <1> DEFINE s == sess[p]
             h == Head(s.todo)
  <1>1. /\ s \in Sessions /\ LabelOK(s) /\ s.todo # << >> /\ s.todo \in Seq(Files)
        /\ InLoop(s) => Missing(s) # {}
    BY SessionTypes DEF LabelOK, Sessions
  <1>2. h \in Files /\ h \in ToSet(s.todo)
    BY <1>1, ListElements
  <1>3. /\ DiskOK /\ ~s.failed
        /\ s.pc = "fill" => files[h] = "partial"
        /\ s.local = "no" => ~replaced
        /\ \/ s.cmd = "create" /\ CreateOK(s)
           \/ s.cmd = "add" /\ AddOK(s)
    BY DEF SoloInv, SessionOK, UpgradeOK
  <1> HIDE DEF h
  <1>4. CASE s.cmd = "create" /\ CreateOK(s)
    <2>1. h \in ToSet(BaseFiles)
      BY <1>2, <1>4 DEF CreateOK
    <2>2. h # ManifestFile
      BY <2>1 DEF BaseFiles, ToSet, RoutesFile, GoModFile, ManifestFile
    <2> QED
      BY <1>1, <1>2, <1>3, <1>4, <2>2 DEF h
  <1>5. CASE s.cmd = "add" /\ AddOK(s)
    <2>1. Missing(s) # {}
      BY <1>1, <1>5 DEF InLoop
    <2>2. h \in ToSet(FilesOf(NextAddition(s)))
      BY <1>2, <1>5 DEF AddOK
    <2>3. h \notin Managed
      BY <1>1, <2>1, <2>2, MissingModules, ModuleSpecs
    <2> QED
      BY <1>1, <1>2, <1>3, <1>5, <2>1, <2>3, Constants DEF h
  <1> QED
    BY <1>3, <1>4, <1>5

LEMMA SoloFillFails ==
    ASSUME Types, SoloInv, ~overlapped, NEW p \in Procs, Running(p), FillFails(p)
    PROVE  SoloInv'
  <1> DEFINE h == Head(sess[p].todo)
  <1>1. /\ h \in Files /\ h # ManifestFile /\ DiskOK /\ files[h] = "partial"
    BY SoloHead DEF FillFails
  <1>2. /\ sess' = [sess EXCEPT ![p] = Idle]
        /\ UNCHANGED <<contents, legacy>>
        /\ files' = [files EXCEPT ![h] = "absent"]
    BY DEF FillFails, Finish
  <1>3. /\ \A f \in Files : files[f] = "full" => files'[f] = "full"
        /\ files'[ManifestFile] = files[ManifestFile]
    BY <1>1, <1>2, Constants DEF Types, DiskTypeOK
  <1>4. DiskOK'
    BY <1>1, <1>2, <1>3, Constants, DiskGrows DEF DiskOK, contents
  <1> QED
    BY <1>2, <1>4, SoloEnds

LEMMA SoloCreateFile ==
    ASSUME Types, SoloInv, ~overlapped, NEW p \in Procs, Running(p), CreateFile(p)
    PROVE  SoloInv'
  <1> DEFINE s == sess[p]
             n == [sess[p] EXCEPT !.pc = "fill"]
             h == Head(sess[p].todo)
  <1>1. /\ s \in Sessions /\ s.pc = "create" /\ ~s.failed
        /\ h \in Files /\ h # ManifestFile /\ DiskOK
        /\ s.local = "no" => ~replaced
        /\ \/ s.cmd = "create" /\ CreateOK(s)
           \/ s.cmd = "add" /\ AddOK(s)
    BY SoloHead DEF CreateFile
  <1>2. /\ sess'[p] = n /\ Others(p) /\ UNCHANGED <<contents, legacy>>
        /\ files[h] = "absent" /\ files' = [files EXCEPT ![h] = "partial"]
    BY SessionStep DEF CreateFile, Goto, Step, Exists
  <1>3. /\ n.pc = "fill" /\ n.cmd = s.cmd /\ n.project = s.project
        /\ n.routes = s.routes /\ n.out = s.out /\ n.todo = s.todo
        /\ n.local = s.local /\ n.failed = s.failed /\ Missing(n) = Missing(s)
        /\ NextAddition(n) = NextAddition(s)
    <2>1. "fill" \in Labels
      BY DEF Labels
    <2> QED
      BY <1>1, <2>1, PcField
  <1> HIDE DEF n, h
  <1>4. /\ \A f \in Files : files[f] = "full" => files'[f] = "full"
        /\ Kept(files, files')
        /\ files'[ManifestFile] = files[ManifestFile] /\ files'[h] = "partial"
    BY <1>1, <1>2, Constants DEF Types, DiskTypeOK, Kept
  <1>5. /\ routes' = routes /\ goMod' = goMod /\ manifest' = manifest
        /\ replaced' = replaced /\ legacy' = legacy
    BY <1>2 DEF contents
  <1>6. /\ DiskOK' /\ (IsProject' <=> IsProject)
        /\ StoredProject' = StoredProject
    <2>1. replaced' => files'[GoModFile] = "full"
      BY <1>1, <1>4, <1>5, Constants DEF DiskOK
    <2> QED
      BY <1>1, <1>4, <1>5, <2>1, DiskGrows
  <1>7. CASE s.cmd = "create" /\ CreateOK(s)
    <2>1. ToSet(BaseFiles) \subseteq Files
      BY Constants, ListElements
    <2>2. CreateOK(sess[p])'
      BY <1>1, <1>2, <1>3, <1>4, <1>6, <1>7, <2>1 DEF CreateOK, Replacing
    <2> QED
      BY <1>1, <1>2, <1>3, <1>4, <1>5, <1>6, <1>7, <2>2, SoloStep
      DEF SessionOK, TmpOK, h
  <1>8. CASE s.cmd = "add" /\ AddOK(s)
    <2>1. Present(files', s.routes, s.project.modules)
      BY <1>1, <1>4, <1>8, PresentKept DEF AddOK, Sessions, Projects
    <2>2. AddOK(sess[p])'
      BY <1>1, <1>2, <1>3, <1>5, <1>6, <1>8, <2>1
      DEF AddOK, AddPlace, Registering, Replaced
    <2> QED
      BY <1>1, <1>2, <1>3, <1>4, <1>5, <1>6, <1>8, <2>2, SoloStep
      DEF SessionOK, TmpOK, h
  <1> QED
    BY <1>1, <1>7, <1>8

(* A file is complete: the next one, or the module is written.               *)
LEMMA SoloNextFile ==
    ASSUME NEW fs, NEW s \in Sessions, LabelOK(s), s.pc = "fill", s.cmd = "add",
           Missing(s) # {}, Tail(s.todo) = << >>,
           Whole(fs, NextAddition(s)), Present(fs, s.routes, s.project.modules),
           NEW rs, ToSet(rs) \subseteq ToSet(s.routes),
           s.out = RoutesFile \/ ToSet(s.routes) \subseteq ToSet(rs),
           s.out \in {"none", RoutesFile}
    PROVE  LET n == AfterFile(s) IN
           /\ n \in Sessions
           /\ n.cmd = s.cmd /\ n.failed = s.failed /\ n.local = s.local
           /\ n.pc \in {"create", "open", "readVersion"}
           /\ n.pc = "create" => n.todo = FilesOf(NextAddition(n))
           /\ n.pc \in {"open", "readVersion"} => Missing(n) = {}
           /\ Present(fs, n.routes, n.project.modules)
           /\ ToSet(rs) \subseteq ToSet(n.routes)
           /\ Registering(n) \/ ToSet(n.routes) \subseteq ToSet(rs)
           /\ AddPlace(n)
  <1> DEFINE k == NextFile(s)
             m == NextAddition(s)
             t == ModuleWritten(k)
             n == NextModule(t)
  <1>1. /\ k \in Sessions /\ k.cmd = s.cmd /\ k.routes = s.routes
        /\ k.project = s.project /\ k.out = s.out /\ k.mods = s.mods
        /\ k.failed = s.failed /\ k.local = s.local /\ Missing(k) = Missing(s)
    BY NextFileTypes DEF LabelOK
  <1>2. NextAddition(k) = m
    BY <1>1 DEF NextAddition
  <1>3. AfterFile(s) = n
    <2>1. k.cmd # "create"
      BY <1>1
    <2> QED
      BY <2>1 DEF AfterFile, FilesWritten
  <1>4. /\ t \in Sessions
        /\ t.project.modules = Append(s.project.modules, m)
        /\ t.routes = IF Registers(m) THEN Append(s.routes, m) ELSE s.routes
        /\ t.out = IF Registers(m) THEN RoutesFile ELSE s.out
        /\ t.cmd = s.cmd /\ t.mods = s.mods
        /\ t.failed = s.failed /\ t.local = s.local
    BY <1>1, <1>2, ModuleWrittenTypes
  <1>5. /\ m \in Modules /\ s.project.modules \in Seq(Modules)
        /\ s.routes \in Seq(Modules)
    BY MissingModules DEF Sessions, Projects
  <1> HIDE DEF k, m, t
  <1>6. /\ ToSet(t.project.modules) = ToSet(s.project.modules) \cup {m}
        /\ ToSet(t.routes) = IF Registers(m) THEN ToSet(s.routes) \cup {m}
                             ELSE ToSet(s.routes)
    <2>1. /\ ToSet(Append(s.project.modules, m)) = ToSet(s.project.modules) \cup {m}
          /\ ToSet(Append(s.routes, m)) = ToSet(s.routes) \cup {m}
      BY <1>5, AppendElements
    <2> QED
      BY <1>4, <2>1
  <1>7. /\ n \in Sessions
        /\ n.pc = IF Missing(t) # {} THEN "create"
                  ELSE IF t.out = RoutesFile THEN "open" ELSE "readVersion"
        /\ n.todo = IF Missing(t) # {} THEN FilesOf(NextAddition(t)) ELSE t.todo
        /\ n.cmd = t.cmd /\ n.mods = t.mods /\ n.project = t.project
        /\ n.routes = t.routes /\ n.out = t.out /\ n.failed = t.failed
        /\ n.local = t.local /\ Missing(n) = Missing(t)
    BY <1>4, NextModuleTypes
  <1>8. NextAddition(n) = NextAddition(t)
    BY <1>7 DEF NextAddition
  <1> HIDE DEF n
  <1>9. Present(fs, n.routes, n.project.modules)
    BY <1>6, <1>7 DEF Present, m
  <1>10. Registering(n) \/ ToSet(n.routes) \subseteq ToSet(rs)
    BY <1>4, <1>6, <1>7, Constants DEF Registering
  <1>11. AddPlace(n)
    BY <1>4, <1>7, Constants DEF AddPlace
  <1> QED
    BY <1>3, <1>4, <1>6, <1>7, <1>8, <1>9, <1>10, <1>11

LEMMA SoloFillFile ==
    ASSUME Types, RouteInv, SoloInv, ~overlapped, NEW p \in Procs, Running(p),
           FillFile(p)
    PROVE  SoloInv'
  <1> DEFINE s == sess[p]
             n == AfterFile(sess[p])
             h == Head(sess[p].todo)
  <1>1. /\ s \in Sessions /\ LabelOK(s) /\ s.pc = "fill" /\ s.todo # << >>
        /\ ~s.failed /\ s.todo \in Seq(Files)
        /\ h \in Files /\ h # ManifestFile /\ DiskOK
        /\ s.local = "no" => ~replaced
        /\ \/ s.cmd = "create" /\ CreateOK(s)
           \/ s.cmd = "add" /\ AddOK(s) /\ Missing(s) # {} /\ h \notin Managed
    BY SoloHead DEF FillFile, Sessions
  <1>2. /\ sess'[p] = n /\ Others(p) /\ legacy' = legacy
        /\ files' = [files EXCEPT ![h] = "full"] /\ manifest' = manifest
        /\ replaced' = IF h = GoModFile THEN s.local = "yes" ELSE replaced
        /\ h \notin Managed => routes' = routes /\ goMod' = goMod
    <2>1. Step(p, n)
      BY <1>1, FillFileStep
    <2> HIDE DEF n
    <2> QED
      BY <2>1, SessionStep, Constants DEF FillFile, Step
  <1>3. /\ n.pc # "fill"
        /\ Tail(s.todo) # << >> => n = NextFile(s)
    BY <1>1, NotFilling, SessionTypes DEF AfterFile
  <1>4. /\ ToSet(s.todo) \subseteq {h} \cup ToSet(Tail(s.todo))
        /\ ToSet(Tail(s.todo)) \subseteq ToSet(s.todo)
    BY <1>1, ListElements
  <1>5. /\ NextFile(s).pc = "create" /\ NextFile(s).todo = Tail(s.todo)
        /\ Missing(NextFile(s)) = Missing(s)
        /\ NextFile(s).cmd = s.cmd /\ NextFile(s).mods = s.mods
        /\ NextFile(s).project = s.project /\ NextFile(s).routes = s.routes
        /\ NextFile(s).out = s.out /\ NextFile(s).failed = s.failed
        /\ NextFile(s).local = s.local
    BY <1>1, NextFileTypes
  <1> HIDE DEF n, h
  <1>6. /\ \A f \in Files : files[f] = "full" => files'[f] = "full"
        /\ Kept(files, files') /\ files'[h] = "full"
        /\ files'[ManifestFile] = files[ManifestFile]
    BY <1>1, <1>2, Constants DEF Types, DiskTypeOK, Kept
  <1>7. replaced' => files'[GoModFile] = "full"
    BY <1>1, <1>2, <1>6, Constants DEF DiskOK
  <1>8. CASE s.cmd = "create" /\ CreateOK(s)
    <2>1. /\ ~IsProject /\ ToSet(s.todo) \subseteq ToSet(BaseFiles)
          /\ \A f \in ToSet(BaseFiles) : f \in ToSet(s.todo) \/ files[f] = "full"
          /\ s.project.modules = << >>
      BY <1>1, <1>8 DEF CreateOK
    <2>2. DiskOK' /\ ~IsProject'
      BY <1>1, <1>2, <1>6, <1>7, <2>1, DiskGrows
    <2>3. \A f \in ToSet(BaseFiles) :
             f \in ToSet(Tail(s.todo)) \/ files'[f] = "full"
      BY <1>4, <1>6, <2>1, Constants, ListElements
    <2>4. n.local = s.local /\ n.failed = s.failed /\ n.cmd = "create"
          /\ n.pc \in {"create", "open"} /\ CreateOK(sess[p])'
      <3>1. CASE Tail(s.todo) # << >>
        BY <1>2, <1>3, <1>4, <1>5, <1>8, <2>1, <2>2, <2>3, <3>1
        DEF CreateOK, Replacing
      <3>2. CASE Tail(s.todo) = << >>
        <4> DEFINE k == NextFile(s)
                   c == [k EXCEPT !.pc = "open", !.out = ManifestFile]
        <4>1. n = c
          BY <1>5, <1>8, <3>2 DEF n, AfterFile, FilesWritten
        <4>2. k \in Sessions
          BY <1>1, NextFileTypes
        <4> HIDE DEF k
        <4>3. /\ c.pc = "open" /\ c.out = ManifestFile /\ c.project = k.project
              /\ c.local = k.local /\ c.failed = k.failed /\ c.cmd = k.cmd
          BY <4>2 DEF Sessions
        <4> HIDE DEF c
        <4>4. BaseWhole(files')
          BY <2>3, <3>2, NoElements DEF BaseWhole
        <4> QED
          BY <1>2, <1>5, <1>8, <2>1, <4>1, <4>3, <4>4 DEF k, CreateOK, Replacing
      <3> QED
        BY <3>1, <3>2
    <2>5. s.local = "no" => ~replaced'
      BY <1>1, <1>2
    <2> QED
      BY <1>1, <1>2, <1>3, <2>2, <2>4, <2>5, SoloStep DEF SessionOK, TmpOK
  <1>9. CASE s.cmd = "add" /\ AddOK(s) /\ Missing(s) # {} /\ h \notin Managed
    <2>1. routes' = routes /\ goMod' = goMod /\ replaced' = replaced
      BY <1>2, <1>9, Constants
    <2>2. /\ DiskOK' /\ (IsProject' <=> IsProject)
          /\ StoredProject' = StoredProject
      BY <1>1, <1>2, <1>6, <1>7, <2>1, DiskGrows
    <2>3. /\ IsProject
          /\ Present(files', s.routes, s.project.modules)
          /\ ToSet(routes) \subseteq ToSet(s.routes)
          /\ s.out = RoutesFile \/ ToSet(s.routes) \subseteq ToSet(routes)
          /\ s.out \in {"none", RoutesFile}
          /\ ToSet(s.todo) \subseteq ToSet(FilesOf(NextAddition(s)))
      <3>1. Present(files, s.routes, s.project.modules)
        BY <1>1, <1>9 DEF AddOK
      <3> QED
        <4>1. s.project.modules \in Seq(Modules) /\ ToSet(s.routes) \subseteq ToSet(s.routes)
          BY <1>1 DEF Sessions, Projects
        <4>2. Present(files', s.routes, s.project.modules)
          BY <1>6, <3>1, <4>1, PresentKept
        <4> QED
          BY <1>1, <1>9, <4>2 DEF AddOK, AddPlace, Registering
    <2>4. CASE Tail(s.todo) # << >>
      <3> DEFINE k == NextFile(s)
      <3>1. NextAddition(k) = NextAddition(s)
        BY <1>5 DEF NextAddition
      <3>2. k.pc = "create" /\ k.cmd = s.cmd /\ k.out = s.out
            /\ k.todo = Tail(s.todo) /\ k.project = s.project
            /\ k.routes = s.routes /\ k.failed = s.failed /\ k.local = s.local
        BY <1>5
      <3>3. n = k
        BY <1>3, <2>4
      <3> HIDE DEF k
      <3>4. AddOK(sess[p])'
        BY <1>1, <1>2, <1>4, <2>1, <2>2, <2>3, <3>1, <3>2, <3>3
        DEF AddOK, AddPlace, Registering, Replaced
      <3>5. SessionOK(p)'
        BY <1>1, <1>2, <1>9, <2>1, <3>2, <3>3, <3>4 DEF SessionOK, TmpOK
      <3> QED
        BY <1>2, <2>2, <3>5, SoloStep
    <2>5. CASE Tail(s.todo) = << >>
      <3>1. Whole(files', NextAddition(s))
        <4>1. LoopOK(files, s)
          BY <1>1, <1>9 DEF RouteInv, InLoop
        <4>2. ToSet(s.todo) \subseteq {h}
          BY <1>4, <2>5, NoElements
        <4>3. NextAddition(s) \in Modules
          BY <1>1, <1>9, MissingModules
        <4>4. ToSet(FilesOf(NextAddition(s))) \subseteq Files
          BY <4>3, ModuleSpecs
        <4> QED
          BY <1>6, <4>1, <4>2, <4>4 DEF LoopOK, Whole
      <3>2. /\ n.cmd = s.cmd /\ n.failed = s.failed /\ n.local = s.local
            /\ n.pc \in {"create", "open", "readVersion"}
            /\ n.pc = "create" => n.todo = FilesOf(NextAddition(n))
            /\ n.pc \in {"open", "readVersion"} => Missing(n) = {}
            /\ Present(files', n.routes, n.project.modules)
            /\ ToSet(routes) \subseteq ToSet(n.routes)
            /\ Registering(n) \/ ToSet(n.routes) \subseteq ToSet(routes)
            /\ AddPlace(n)
        BY <1>1, <1>9, <2>3, <2>5, <3>1, SoloNextFile DEF n
      <3>3. AddOK(sess[p])'
        BY <1>1, <1>2, <2>1, <2>2, <2>3, <3>2 DEF AddOK, Replaced
      <3>4. SessionOK(p)'
        BY <1>1, <1>2, <1>9, <2>1, <3>2, <3>3 DEF SessionOK, TmpOK
      <3> QED
        BY <1>2, <2>2, <3>4, SoloStep
    <2> QED
      BY <2>4, <2>5
  <1> QED
    BY <1>1, <1>8, <1>9

-----------------------------------------------------------------------------
(* The go command, whose order is tidy before vendor.                        *)
LEMMA SoloGoCommand ==
    ASSUME Types, SoloInv, ~overlapped, NEW p \in Procs, Running(p),
           built \in [tidied : BOOLEAN, vendored : BOOLEAN],
           Tidy(p) \/ Vendor(p)
    PROVE  SoloInv'
  <1> DEFINE s == sess[p]
             n == [sess[p] EXCEPT !.pc = "vendor"]
  <1>1. CASE /\ sess' = [sess EXCEPT ![p] = Idle]
             /\ UNCHANGED <<files, contents, legacy>>
    BY <1>1, DiskFrame, SoloEnds DEF SoloInv
  <1>2. CASE /\ s.pc = "tidy" /\ Goto(p, "vendor") /\ built' = Tidied
             /\ UNCHANGED <<files, contents, tmp>>
    <2>1. /\ s \in Sessions /\ SessionOK(p) /\ DiskOK /\ built'.tidied
      BY <1>2, SessionTypes DEF SoloInv, Tidied
    <2>2. sess'[p] = n /\ Others(p) /\ UNCHANGED <<files, contents, legacy>>
      BY <1>2, SessionStep DEF Goto, Step
    <2>3. /\ n.pc = "vendor" /\ n.cmd = s.cmd /\ n.mods = s.mods
          /\ n.local = s.local /\ n.failed = s.failed
      BY <2>1 DEF Sessions
    <2> HIDE DEF n
    <2>4. /\ DiskOK' /\ (IsProject' <=> IsProject)
          /\ StoredProject' = StoredProject
      BY <2>1, <2>2, DiskFrame
    <2>5. GoOK(s) /\ ~s.failed /\ (s.local = "no" => ~replaced)
      BY <1>2, <2>1 DEF SessionOK
    <2>6. GoOK(sess[p])'
      BY <2>1, <2>2, <2>3, <2>4, <2>5 DEF GoOK
    <2>7. SessionOK(p)'
      BY <2>2, <2>3, <2>5, <2>6 DEF SessionOK, TmpOK, contents
    <2> QED
      BY <2>2, <2>4, <2>7, SoloStep
  <1> QED
    BY <1>1, <1>2 DEF Tidy, Vendor, Done, Finish

LEMMA InitSolo == Init => SoloInv
  <1> SUFFICES ASSUME Init
               PROVE  SoloInv
    OBVIOUS
  <1>1. \A p \in Procs : ~Running(p)
    BY DEF Init, Running, Idle
  <1>2. files[ManifestFile] # "partial" /\ (replaced => files[GoModFile] = "full")
    <2>1. GoModFile \in ToSet(BaseFiles)
      BY DEF BaseFiles, ToSet
    <2> QED
      BY <2>1, Constants DEF Init
  <1>3. ASSUME IsProject
        PROVE  BaseWhole(files) /\ Present(files, routes, StoredProject.modules)
    <2>1. files[ManifestFile] = "absent"
      <3>1. ManifestFile \notin ToSet(BaseFiles)
        BY DEF BaseFiles, ToSet, ManifestFile, RoutesFile, GoModFile
      <3>2. ASSUME NEW m \in ToSet(LegacyModules)
            PROVE  ManifestFile \notin ToSet(FilesOf(m))
        BY ScaffoldAssumption, ListElements, ModuleSpecs, Constants
      <3> QED
        BY <3>1, <3>2, Constants DEF Init
    <2>2. legacy /\ StoredProject.modules = LegacyModules
      BY <1>3, <2>1 DEF IsProject, StoredProject, Exists, NoProject
    <2>3. BaseWhole(files)
      BY <2>2, Constants, ListElements DEF Init, BaseWhole
    <2>4. ASSUME NEW m \in ToSet(LegacyModules)
          PROVE  Whole(files, m) /\ (Registers(m) => m \in ToSet(routes))
      <3>1. m \in Modules
        BY ScaffoldAssumption, ListElements
      <3>2. ToSet(FilesOf(m)) \subseteq Files
        BY <3>1, ModuleSpecs
      <3> QED
        BY <2>2, <3>2, ScaffoldAssumption DEF Init, Whole
    <2> QED
      BY <2>2, <2>3, <2>4 DEF Present
  <1> QED
    BY <1>1, <1>2, <1>3 DEF SoloInv, DiskOK

LEMMA NextSolo ==
    ASSUME Types, TypeOK, RouteInv, SoloInv, [Next]_vars
    PROVE  SoloInv'
  <1>1. CASE UNCHANGED vars
    <2>1. /\ UNCHANGED <<files, contents, legacy>> /\ tmp' = tmp /\ sess' = sess
          /\ writer' = writer /\ built' = built /\ overlapped' = overlapped
      BY <1>1 DEF vars, disk
    <2>2. /\ files' = files /\ routes' = routes /\ goMod' = goMod
          /\ replaced' = replaced
      BY <2>1 DEF contents
    <2>3. /\ IsProject' <=> IsProject
          /\ StoredProject' = StoredProject
          /\ DiskOK => DiskOK'
      BY <2>1, DiskFrame
    <2>4. ASSUME NEW p \in Procs, SessionOK(p)
          PROVE  SessionOK(p)'
      <3>1. /\ CreateOK(sess[p]) <=> CreateOK(sess[p])'
            /\ AddOK(sess[p]) <=> AddOK(sess[p])'
            /\ UpgradeOK(sess[p]) <=> UpgradeOK(sess[p])'
            /\ GoOK(sess[p]) <=> GoOK(sess[p])'
            /\ TmpOK(p, sess[p]) <=> TmpOK(p, sess[p])'
        BY <2>1, <2>2, <2>3 DEF CreateOK, AddOK, UpgradeOK, GoOK, TmpOK
      <3> QED
        BY <2>1, <2>2, <2>4, <3>1 DEF SessionOK
    <2> QED
      BY <2>1, <2>3, <2>4 DEF SoloInv, Running
  <1>2. ASSUME NEW p \in Procs, Begin(p)
        PROVE  SoloInv'
    <2>1. CASE overlapped'
      BY <2>1 DEF SoloInv
    <2>2. CASE ~overlapped'
      BY <1>2, <2>2, SoloBegin
    <2> QED
      BY <2>1, <2>2
  <1>3. ASSUME NEW p \in Procs,
               Work(p) \/ Crash(p) \/ Tidy(p) \/ Vendor(p)
        PROVE  SoloInv'
    <2>1. Running(p) /\ overlapped' = overlapped
      BY <1>3 DEF Running, Work, Crash, Tidy, Vendor, Done, CreateFile, CreateFails,
         FillFile, FillFails, OpenTmp, OpenTmpFails, WriteTmp, RenameTmp,
         RenameFails, RemoveTmp, ReadManifest, ReadRoutes, CheckTargets,
         ReadVersion, ReadGoMod, FailReading, Goto, Step, Finish, Discard, Build,
         Continue
    <2>2. CASE overlapped
      BY <2>1, <2>2 DEF SoloInv
    <2>3. CASE ~overlapped /\ (Tidy(p) \/ Vendor(p))
      BY <2>1, <2>3, SoloGoCommand DEF TypeOK
    <2>4. CASE ~overlapped /\ (Work(p) \/ Crash(p))
      BY <2>1, <2>4, SoloCreateFile, SoloFillFile, SoloFillFails, SoloFinishes,
         SoloOpenTmp, SoloWriteTmp, SoloRenameTmp, SoloRenameFails,
         SoloRemoveTmp, SoloReadManifest, SoloReadRoutes, SoloCheckTargets,
         SoloReadVersion, SoloReadGoMod DEF Work
    <2> QED
      BY <1>3, <2>2, <2>3, <2>4
  <1> QED
    BY <1>1, <1>2, <1>3 DEF Next

(* What the metadata says is true of the directory, wherever an invocation     *)
(* failed or was killed, as long as invocations do not overlap: Create writes *)
(* it after the template files, Add after the modules' files and their        *)
(* registrations, and both through a temporary file that only they can have   *)
(* written (scaffold.go:243, 314-353, 463-482).                              *)
THEOREM MetadataIsHonest == Spec => []ManifestHonest
  <1> DEFINE Inv == Types /\ TypeOK /\ FillInv /\ RouteInv /\ SoloInv
  <1>1. Init => Inv
    BY InitTypes, InitRoutes, InitSolo
  <1>2. Inv /\ [Next]_vars => Inv'
    BY NextTypes, NextRoutes, NextSolo
  <1>3. Inv => ManifestHonest
    BY DEF SoloInv, DiskOK, BaseWhole, Present, Whole, ManifestHonest, Installed
  <1> QED
    BY <1>1, <1>2, <1>3, PTL DEF Spec

-----------------------------------------------------------------------------
(* What is reported.                                                         *)

(* Upgrade asks for no module.                                               *)
Asks(s) == s.cmd = "upgrade" => s.mods = << >>

AsksInv == \A p \in Procs : Asks(sess[p])

LEMMA IdleAsks == Asks(Idle)
  BY DEF Asks, Idle

(* Every step of an invocation leaves its request alone or ends it.          *)
LEMMA AskedBefore ==
    ASSUME Types, AsksInv, NEW p \in Procs, NEW n, sess' = [sess EXCEPT ![p] = n],
           Asks(n)
    PROVE  AsksInv'
  <1>1. sess'[p] = n /\ Others(p)
    BY SessionStep
  <1> QED
    BY <1>1 DEF AsksInv, Others

LEMMA AsksSame ==
    ASSUME Types, AsksInv, NEW p \in Procs, NEW n, sess' = [sess EXCEPT ![p] = n],
           n.cmd = sess[p].cmd, n.mods = sess[p].mods
    PROVE  AsksInv'
  <1>1. Asks(n)
    BY DEF AsksInv, Asks
  <1> QED
    BY <1>1, AskedBefore

LEMMA AsksGoto ==
    ASSUME Types, AsksInv, NEW p \in Procs, NEW l, Goto(p, l)
    PROVE  AsksInv'
  <1> DEFINE n == [sess[p] EXCEPT !.pc = l]
  <1>1. n.cmd = sess[p].cmd /\ n.mods = sess[p].mods
    BY SessionTypes DEF Sessions
  <1>2. sess' = [sess EXCEPT ![p] = n]
    BY DEF Goto, Step
  <1> HIDE DEF n
  <1> QED
    BY <1>1, <1>2, AsksSame

LEMMA AsksEnd ==
    ASSUME Types, AsksInv, NEW p \in Procs, sess' = [sess EXCEPT ![p] = Idle]
    PROVE  AsksInv'
  BY IdleAsks, AskedBefore

LEMMA AsksBuild ==
    ASSUME Types, AsksInv, NEW p \in Procs, Build(p)
    PROVE  AsksInv'
  <1> DEFINE n == [Idle EXCEPT !.pc = "tidy", !.cmd = sess[p].cmd,
                               !.mods = sess[p].mods, !.local = sess[p].local]
  <1>1. n.cmd = sess[p].cmd /\ n.mods = sess[p].mods
    BY DEF Idle
  <1>2. sess' = [sess EXCEPT ![p] = n]
    BY DEF Build, Step
  <1> HIDE DEF n
  <1> QED
    BY <1>1, <1>2, AsksSame

LEMMA AsksBegin ==
    ASSUME Types, AsksInv, NEW p \in Procs, Begin(p)
    PROVE  AsksInv'
  <1>1. ASSUME NEW ms \in Requests, StartAdd(p, ms)
        PROVE  AsksInv'
    <2> DEFINE n == [Idle EXCEPT !.pc = "readManifest", !.cmd = "add",
                                 !.mods = ms]
    <2>1. Asks(n)
      BY DEF Asks, Idle
    <2>2. sess' = [sess EXCEPT ![p] = n]
      BY <1>1 DEF StartAdd, Start
    <2> HIDE DEF n
    <2> QED
      BY <2>1, <2>2, AskedBefore
  <1>2. ASSUME NEW ms \in Requests, NEW local \in BOOLEAN,
               StartCreate(p, ms, local)
        PROVE  AsksInv'
    <2> DEFINE lo == IF local THEN "yes" ELSE "no"
               n == [Idle EXCEPT !.pc = "create", !.cmd = "create", !.mods = ms,
                                 !.todo = BaseFiles,
                                 !.version = FrameworkVersion, !.local = lo]
    <2>1. Asks(n)
      BY DEF Asks, Idle
    <2>2. sess' = [sess EXCEPT ![p] = n]
      BY <1>2 DEF StartCreate, Start
    <2> HIDE DEF n
    <2> QED
      BY <2>1, <2>2, AskedBefore
  <1>3. ASSUME NEW v \in Versions, NEW apply \in BOOLEAN, StartUpgrade(p, v, apply)
        PROVE  AsksInv'
    <2> DEFINE n == [Idle EXCEPT !.pc = "readManifest", !.cmd = "upgrade",
                                 !.version = v, !.apply = apply]
    <2>1. Asks(n)
      BY DEF Asks, Idle
    <2>2. sess' = [sess EXCEPT ![p] = n]
      BY <1>3 DEF StartUpgrade, Start
    <2> HIDE DEF n
    <2> QED
      BY <2>1, <2>2, AskedBefore
  <1> QED
    BY <1>1, <1>2, <1>3 DEF Begin

LEMMA AsksFillFile ==
    ASSUME Types, AsksInv, NEW p \in Procs, FillFile(p)
    PROVE  AsksInv'
  <1> DEFINE s == sess[p]
             k == NextFile(sess[p])
             t == ModuleWritten(k)
             c == [k EXCEPT !.pc = "open", !.out = ManifestFile]
             n == AfterFile(sess[p])
  <1>1. /\ s \in Sessions /\ s.pc = "fill" /\ s.todo # << >>
        /\ InLoop(s) => Missing(s) # {}
    BY SessionTypes DEF FillFile, LabelOK
  <1>2. /\ k \in Sessions /\ k.cmd = s.cmd /\ k.mods = s.mods
        /\ Missing(k) = Missing(s)
    BY <1>1, NextFileTypes
  <1>3. n \in {k, c} \/ (s.cmd # "create" /\ n = NextModule(t))
    BY <1>2 DEF AfterFile, FilesWritten
  <1>4. sess' = [sess EXCEPT ![p] = n]
    BY <1>1, FillFileStep DEF Step
  <1> HIDE DEF n, k
  <1>5. c.cmd = k.cmd /\ c.mods = k.mods
    BY <1>2 DEF Sessions
  <1>6. ASSUME s.cmd # "create"
        PROVE  NextModule(t).cmd = s.cmd /\ NextModule(t).mods = s.mods
    <2>1. Missing(k) # {}
      BY <1>1, <1>2, <1>6 DEF InLoop
    <2>2. t \in Sessions /\ t.cmd = s.cmd /\ t.mods = s.mods
      BY <1>2, <2>1, ModuleWrittenTypes
    <2> HIDE DEF t
    <2> QED
      BY <2>2, NextModuleTypes
  <1> HIDE DEF c, t
  <1>7. n.cmd = s.cmd /\ n.mods = s.mods
    BY <1>2, <1>3, <1>5, <1>6
  <1> QED
    BY <1>4, <1>7, AsksSame

LEMMA AsksContinue ==
    ASSUME Types, AsksInv, NEW p \in Procs, Continue(p)
    PROVE  AsksInv'
  <1> DEFINE s == sess[p]
             a == [s EXCEPT !.pc = "open", !.out = ManifestFile]
             b == [Idle EXCEPT !.pc = "readManifest", !.cmd = "add",
                               !.mods = s.mods, !.local = s.local]
  <1>1. s \in Sessions
    BY SessionTypes
  <1>2. a.cmd = s.cmd /\ a.mods = s.mods /\ Asks(b)
    BY <1>1 DEF Sessions, Asks, Idle
  <1> HIDE DEF a, b
  <1>3. CASE Step(p, a)
    BY <1>2, <1>3, AsksSame DEF Step
  <1>4. CASE Step(p, b)
    BY <1>2, <1>4, AskedBefore DEF Step
  <1>5. CASE Goto(p, "readVersion")
    BY <1>5, AsksGoto
  <1>6. CASE Build(p)
    BY <1>6, AsksBuild
  <1>7. CASE sess' = [sess EXCEPT ![p] = Idle]
    BY <1>7, AsksEnd
  <1> QED
    BY <1>3, <1>4, <1>5, <1>6, <1>7 DEF Continue, Finish, a, b

LEMMA AsksReading ==
    ASSUME Types, AsksInv, NEW p \in Procs,
           \/ ReadManifest(p) \/ ReadRoutes(p) \/ CheckTargets(p)
           \/ ReadVersion(p) \/ ReadGoMod(p)
    PROVE  AsksInv'
  <1> DEFINE s == sess[p]
             pr == StoredProject
             l == IF sess[p].cmd = "add" THEN "readRoutes" ELSE "readGoMod"
             a == [sess[p] EXCEPT !.project = pr, !.pc = l]
             b == [sess[p] EXCEPT !.routes = routes, !.pc = "check"]
             c == [sess[p] EXCEPT !.version = goMod, !.pc = "open",
                                  !.out = ManifestFile]
             d == [s EXCEPT !.pc = "open", !.out = GoModFile]
             e == [s EXCEPT !.pc = "open", !.out = ManifestFile]
  <1>1. s \in Sessions
    BY SessionTypes
  <1> HIDE DEF pr, l
  <1>2. \A n \in {a, b, c, d, e} : n.cmd = s.cmd /\ n.mods = s.mods
    BY <1>1 DEF Sessions
  <1>3. CASE ReadManifest(p)
    <2>1. sess' = [sess EXCEPT ![p] = a]
      BY <1>3 DEF ReadManifest, Step, pr, l
    <2> QED
      BY <1>2, <2>1, AsksSame
  <1>4. CASE ReadRoutes(p)
    <2>1. sess' = [sess EXCEPT ![p] = b]
      BY <1>4 DEF ReadRoutes, Step
    <2> QED
      BY <1>2, <2>1, AsksSame
  <1>5. CASE ReadVersion(p)
    <2>1. sess' = [sess EXCEPT ![p] = c]
      BY <1>5 DEF ReadVersion, Step
    <2> QED
      BY <1>2, <2>1, AsksSame
  <1>6. CASE ReadGoMod(p)
    <2>1. \/ sess' = [sess EXCEPT ![p] = d]
          \/ sess' = [sess EXCEPT ![p] = e]
          \/ sess' = [sess EXCEPT ![p] = Idle]
      BY <1>6 DEF ReadGoMod, Step, Finish
    <2>2. CASE sess' = [sess EXCEPT ![p] = d]
      BY <1>2, <2>2, AsksSame
    <2>3. CASE sess' = [sess EXCEPT ![p] = e]
      BY <1>2, <2>3, AsksSame
    <2> QED
      BY <2>1, <2>2, <2>3, AsksEnd
  <1>7. CASE CheckTargets(p)
    <2>1. CASE Build(p)
      BY <2>1, AsksBuild
    <2>2. CASE sess' = [sess EXCEPT ![p] = NextModule(s)]
      <3>1. NextModule(s).cmd = s.cmd /\ NextModule(s).mods = s.mods
        BY <1>1, NextModuleTypes
      <3> QED
        BY <2>2, <3>1, AsksSame
    <2> QED
      BY <1>7, <2>1, <2>2 DEF CheckTargets, Step
  <1> QED
    BY <1>3, <1>4, <1>5, <1>6, <1>7

LEMMA InitAsks == Init => AsksInv
  BY IdleAsks DEF Init, AsksInv

LEMMA NextAsks ==
    ASSUME Types, AsksInv, [Next]_vars
    PROVE  AsksInv'
  <1>1. CASE UNCHANGED vars
    BY <1>1 DEF vars, AsksInv
  <1>2. ASSUME NEW p \in Procs, Discard(p)
        PROVE  AsksInv'
    <2> DEFINE n == [sess[p] EXCEPT !.pc = "remove", !.failed = TRUE]
    <2>1. n.cmd = sess[p].cmd /\ n.mods = sess[p].mods
      BY SessionTypes DEF Sessions
    <2>2. sess' = [sess EXCEPT ![p] = n]
      BY <1>2 DEF Discard, Step
    <2> HIDE DEF n
    <2> QED
      BY <2>1, <2>2, AsksSame
  <1>3. ASSUME NEW p \in Procs, CreateFile(p) \/ OpenTmp(p) \/ RenameTmp(p)
        PROVE  AsksInv'
    BY <1>3, AsksGoto DEF CreateFile, OpenTmp, RenameTmp
  <1>4. ASSUME NEW p \in Procs, WriteTmp(p) \/ RenameFails(p)
        PROVE  AsksInv'
    BY <1>2, <1>4, AsksGoto DEF WriteTmp, RenameFails
  <1>5. ASSUME NEW p \in Procs,
               \/ CreateFails(p) \/ FillFails(p) \/ OpenTmpFails(p)
               \/ FailReading(p) \/ Crash(p)
        PROVE  AsksInv'
    BY <1>5, AsksEnd
    DEF CreateFails, FillFails, OpenTmpFails, FailReading, Crash, Finish
  <1>6. ASSUME NEW p \in Procs, RemoveTmp(p)
        PROVE  AsksInv'
    BY <1>6, AsksEnd, AsksContinue DEF RemoveTmp, Finish
  <1>7. ASSUME NEW p \in Procs, Tidy(p) \/ Vendor(p)
        PROVE  AsksInv'
    BY <1>7, AsksEnd, AsksGoto DEF Tidy, Vendor, Done, Finish
  <1>8. ASSUME NEW p \in Procs, Work(p)
        PROVE  AsksInv'
    BY <1>3, <1>4, <1>5, <1>6, <1>8, AsksFillFile, AsksReading DEF Work
  <1> QED
    BY <1>1, <1>5, <1>7, <1>8, AsksBegin DEF Next

(* The steps that report success.                                            *)
UpgradePlanned(p) ==
    LET s == sess[p] IN
    /\ s.pc = "readGoMod"
    /\ ~s.apply \/ (goMod = s.version /\ ~ProjectChanged(s))

UpgradeWritten(p) ==
    LET s == sess[p] IN
    /\ s.pc = "remove" /\ ~s.failed
    /\ \/ s.out = GoModFile /\ ~ProjectChanged(s)
       \/ s.out = ManifestFile /\ s.cmd = "upgrade"

LEMMA OkSteps ==
    ASSUME NEW p \in Procs,
           Begin(p) \/ Work(p) \/ Crash(p) \/ Tidy(p) \/ Vendor(p),
           answer' = "ok"
    PROVE  /\ Finish(p, "ok")
           /\ UNCHANGED <<files, contents>>
           /\ \/ UpgradePlanned(p)
              \/ UpgradeWritten(p)
              \/ sess[p].pc = "tidy" /\ built' = Tidied /\ ~Local(sess[p])
              \/ /\ sess[p].pc = "vendor"
                 /\ built' = [built EXCEPT !.vendored = TRUE]
  <1>1. ~Begin(p) /\ ~Crash(p)
    BY DEF Begin, StartAdd, StartCreate, StartUpgrade, Start, Crash
  <1>2. CASE Tidy(p)
    BY <1>2 DEF Tidy, Done, Finish, Goto, Step
  <1>3. CASE Vendor(p)
    BY <1>3 DEF Vendor, Done, Finish
  <1>4. CASE RemoveTmp(p)
    <2>1. sess[p].pc = "remove" /\ ~sess[p].failed
      BY <1>4 DEF RemoveTmp, Finish
    <2>2. Continue(p) /\ UNCHANGED <<files, contents>>
      BY <1>4, <2>1 DEF RemoveTmp
    <2> QED
      BY <2>1, <2>2 DEF Continue, Finish, Goto, Step, Build, UpgradeWritten
  <1>5. CASE ReadGoMod(p)
    BY <1>5 DEF ReadGoMod, Finish, Step, UpgradePlanned
  <1>6. CASE Work(p) /\ ~RemoveTmp(p) /\ ~ReadGoMod(p)
    BY <1>6 DEF Work, CreateFile, CreateFails, FillFile, FillFails, OpenTmp,
       OpenTmpFails, WriteTmp, RenameTmp, RenameFails, ReadManifest, ReadRoutes,
       CheckTargets, ReadVersion, FailReading, Goto, Step, Finish, Discard, Build
  <1> QED
    BY <1>1, <1>2, <1>3, <1>4, <1>5, <1>6

(* An upgrade that succeeds.                                                 *)
LEMMA UpgradeSuccess ==
    ASSUME Types, SoloInv, ~overlapped, NEW p \in Procs, Running(p),
           UpgradePlanned(p) \/ UpgradeWritten(p)
    PROVE  /\ sess[p].cmd = "upgrade"
           /\ sess[p].apply \/ UpgradeWritten(p) =>
                /\ goMod = sess[p].version
                /\ StoredProject.version = sess[p].version
                /\ StoredProject.format = FormatVersion
  <1> DEFINE s == sess[p]
  <1>1. s \in Sessions /\ SessionOK(p)
    BY SessionTypes DEF SoloInv
  <1>2. CASE UpgradePlanned(p)
    <2>1. s.cmd = "upgrade" /\ UpgradeOK(s)
      BY <1>1, <1>2 DEF UpgradePlanned, SessionOK, CreateOK, AddOK, AddPlace
    <2>2. s.project = StoredProject
      BY <1>2, <2>1 DEF UpgradePlanned, UpgradeOK
    <2>3. ~UpgradeWritten(p)
      BY <1>2 DEF UpgradePlanned, UpgradeWritten
    <2> QED
      BY <1>2, <2>1, <2>2, <2>3 DEF UpgradePlanned, ProjectChanged
  <1>3. CASE UpgradeWritten(p)
    <2>1. s.cmd = "upgrade" /\ UpgradeOK(s)
      BY <1>1, <1>3, Constants
      DEF UpgradeWritten, SessionOK, CreateOK, AddOK, AddPlace
    <2>2. goMod = s.version
      BY <1>3, <2>1 DEF UpgradeWritten, UpgradeOK, Replacing
    <2>3. CASE s.out = GoModFile /\ ~ProjectChanged(s)
      BY <2>1, <2>2, <2>3 DEF UpgradeOK, ProjectChanged
    <2>4. CASE s.out = ManifestFile
      <3>1. StoredProject = Payload(s).project
        BY <1>3, <2>1, <2>4 DEF UpgradeWritten, UpgradeOK, Replaced
      <3> QED
        BY <1>1, <2>1, <2>2, <3>1, PayloadTypes
    <2> QED
      BY <1>3, <2>3, <2>4 DEF UpgradeWritten
  <1> QED
    BY <1>2, <1>3

(* A new or an add that succeeds, after the go command.                      *)
LEMMA BuildSuccess ==
    ASSUME Types, TypeOK, SoloInv, ~overlapped, NEW p \in Procs, Running(p),
           \/ sess[p].pc = "tidy" /\ built' = Tidied /\ ~Local(sess[p])
           \/ /\ sess[p].pc = "vendor"
              /\ built' = [built EXCEPT !.vendored = TRUE]
    PROVE  /\ \A m \in ToSet(sess[p].mods) :
                 Installed(m) /\ m \in ToSet(StoredProject.modules)
           /\ sess[p].cmd # "upgrade"
           /\ built'.tidied /\ (replaced => built'.vendored)
  <1> DEFINE s == sess[p]
  <1>1. s \in Sessions /\ SessionOK(p) /\ DiskOK
    BY SessionTypes DEF SoloInv
  <1>2. GoOK(s) /\ (s.local = "no" => ~replaced)
    BY <1>1 DEF SessionOK
  <1>3. ASSUME NEW m \in ToSet(s.mods)
        PROVE  Installed(m) /\ m \in ToSet(StoredProject.modules)
    <2>1. s.mods # << >>
      BY <1>3, NoElements
    <2>2. m \in ToSet(StoredProject.modules)
      BY <1>2, <1>3 DEF GoOK
    <2> QED
      BY <1>1, <1>2, <2>1, <2>2 DEF GoOK, DiskOK, Present, Whole, Installed
  <1>4. CASE s.pc = "tidy" /\ built' = Tidied /\ ~Local(s)
    <2>1. ~replaced
      BY <1>1, <1>2, <1>4 DEF Local, Sessions
    <2> QED
      BY <1>2, <1>3, <1>4, <2>1 DEF GoOK, Tidied, TypeOK
  <1>5. CASE s.pc = "vendor" /\ built' = [built EXCEPT !.vendored = TRUE]
    BY <1>2, <1>3, <1>5 DEF GoOK, TypeOK
  <1> QED
    BY <1>4, <1>5

LEMMA SuccessHolds ==
    ASSUME Types, TypeOK, SoloInv, AsksInv, Next, ~overlapped,
           NEW p \in Procs, Running(p), ~Running(p)', answer' = "ok"
    PROVE  /\ \A m \in ToSet(sess[p].mods) :
                 Installed(m)' /\ m \in ToSet(StoredProject'.modules)
           /\ sess[p].cmd # "upgrade" =>
                 built'.tidied /\ (replaced' => built'.vendored)
           /\ (sess[p].cmd = "upgrade" /\ sess[p].apply) =>
                 /\ goMod' = sess[p].version
                 /\ StoredProject'.version = sess[p].version
                 /\ StoredProject'.format = FormatVersion
  <1>1. PICK q \in Procs : Begin(q) \/ Work(q) \/ Crash(q) \/ Tidy(q) \/ Vendor(q)
    BY DEF Next
  <1>2. /\ Finish(q, "ok")
        /\ UNCHANGED <<files, contents>>
        /\ \/ UpgradePlanned(q)
           \/ UpgradeWritten(q)
           \/ sess[q].pc = "tidy" /\ built' = Tidied /\ ~Local(sess[q])
           \/ /\ sess[q].pc = "vendor"
              /\ built' = [built EXCEPT !.vendored = TRUE]
    BY <1>1, OkSteps
  <1>3. q = p
    <2>1. Others(q)
      BY <1>2, SessionStep DEF Finish
    <2> QED
      BY <2>1 DEF Others, Running
  <1>4. /\ StoredProject' = StoredProject /\ goMod' = goMod
        /\ replaced' = replaced /\ files' = files /\ routes' = routes
    <2>1. UNCHANGED <<files, contents, legacy>>
      BY <1>2 DEF Finish
    <2> QED
      BY <2>1, DiskFrame DEF contents
  <1>5. \A m : Installed(m)' <=> Installed(m)
    BY <1>4 DEF Installed
  <1>6. CASE UpgradePlanned(p) \/ UpgradeWritten(p)
    <2>1. /\ sess[p].cmd = "upgrade"
          /\ sess[p].apply =>
                /\ goMod = sess[p].version
                /\ StoredProject.version = sess[p].version
                /\ StoredProject.format = FormatVersion
      BY <1>6, UpgradeSuccess
    <2>2. ToSet(sess[p].mods) = {}
      BY <2>1, NoElements DEF AsksInv, Asks
    <2> QED
      BY <1>4, <2>1, <2>2
  <1>7. CASE \/ sess[p].pc = "tidy" /\ built' = Tidied /\ ~Local(sess[p])
             \/ /\ sess[p].pc = "vendor"
                /\ built' = [built EXCEPT !.vendored = TRUE]
    BY <1>4, <1>5, <1>7, BuildSuccess
  <1> QED
    BY <1>2, <1>3, <1>6, <1>7

(* A success that is reported holds, whatever earlier invocations left        *)
(* behind: what was asked for is listed and installed and the go command has  *)
(* seen it, and after an upgrade go.mod and the metadata agree on the version *)
(* (scaffold.go:315-317, 514-537, main.go:92-99, 123-134).                   *)
THEOREM SuccessIsTrue == Spec => SuccessMeans
  <1> DEFINE Inv == Types /\ TypeOK /\ FillInv /\ RouteInv /\ SoloInv /\ AsksInv
  <1>1. Init => Inv
    BY InitTypes, InitRoutes, InitSolo, InitAsks
  <1>2. Inv /\ [Next]_vars => Inv'
    BY NextTypes, NextRoutes, NextSolo, NextAsks
  <1>3. Inv /\ Next =>
          \A p \in Procs :
             (Running(p) /\ ~Running(p)' /\ answer' = "ok" /\ ~overlapped) =>
                /\ \A m \in ToSet(sess[p].mods) :
                      Installed(m)' /\ m \in ToSet(StoredProject'.modules)
                /\ sess[p].cmd # "upgrade" =>
                      built'.tidied /\ (replaced' => built'.vendored)
                /\ (sess[p].cmd = "upgrade" /\ sess[p].apply) =>
                      /\ goMod' = sess[p].version
                      /\ StoredProject'.version = sess[p].version
                      /\ StoredProject'.format = FormatVersion
    BY SuccessHolds
  <1> HIDE DEF Inv
  <1> QED
    BY <1>1, <1>2, <1>3, PTL DEF Spec, SuccessMeans
=============================================================================
