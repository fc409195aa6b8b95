--------------------------- MODULE EvidenceBundle ---------------------------
(***************************************************************************)
(* `lara check-ara ROOT [--policy FILE] [--out DIR]' commands over one     *)
(* package whose files change while they are read, publishing to one       *)
(* destination (Lara.Evidence.{Load,Snapshot,Report}, app/Main.hs,         *)
(* cbits/evidence_posix.c).                                                *)
(*                                                                         *)
(* Bytes are versions, and a manifest is the function from its objects, in *)
(* manifest order, to the version each digest pins.  What the pure stages  *)
(* make of those bytes is given by Front, Needs and Accepts.               *)
(***************************************************************************)
EXTENDS Naturals

CONSTANTS
  Cmd,            \* the commands
  Overriding,     \* those with --policy
  Publishing,     \* those with --out
  Size,           \* the objects of a manifest are 1 .. Size
  Paper, Source, Policy,  \* its global objects
  Version,        \* the contents a file may have
  Broken,         \* an unreadable, oversized or half-written file
  Pointer,        \* the <<object, version>> that are Git LFS pointer files
  Manifest,       \* the canonical manifests
  Needs,          \* the objects the requests of a source name
  TooHeavy,       \* the sources whose required objects pass 16 MiB
  Front(_, _),    \* parsing, admission and binding of a source and a policy
  Accepts(_, _, _), \* extraction and the core check
  None,
  MaxEdits        \* bound: changes made to files by others

Object == 1 .. Size
Globals == {Paper, Source, Policy}

ASSUME PackageAssumption ==
  /\ Size \in Nat /\ Globals \subseteq Object
  /\ Paper # Source /\ Paper # Policy /\ Source # Policy
  /\ Manifest \subseteq [Object -> Version] /\ Pointer \subseteq Object \X Version
  /\ Needs \in [Version -> SUBSET Object]
  /\ Broken \notin Version /\ None \notin Version /\ None \notin Cmd /\ None \notin Manifest
  /\ "existing" \notin Cmd \cup {None}
  /\ MaxEdits \in Nat

VARIABLES
  files,     \* the bytes of each object on disk
  mfile,     \* the manifest on disk, None when unreadable or not canonical
  vfile,     \* the file --policy names
  edits,
  dest,      \* what the destination names: None, "existing" or a command's bundle
  pc,
  manifest,  \* the manifest a command decoded
  snap,      \* what it captured of each object
  override,  \* the verifier policy it read
  exit,
  reason,    \* why it rejected
  fault,     \* what unwound the publication, or that its directory would not go
  temp,      \* its temporary directory: "none", "linked" or "renamed"
  written    \* the files in it

package == <<files, mfile, vfile, edits>>
loading == <<manifest, snap, override>>
bundle  == <<dest, fault, temp, written>>
vars    == <<package, loading, bundle, pc, exit, reason>>

Init ==
  /\ files \in Manifest
  /\ mfile = files
  /\ vfile \in Version
  /\ edits = 0
  /\ dest \in {None, "existing"}
  /\ pc = [c \in Cmd |-> "manifest"]
  /\ manifest = [c \in Cmd |-> None]
  /\ snap = [c \in Cmd |-> [o \in Object |-> None]]
  /\ override = [c \in Cmd |-> None]
  /\ exit = [c \in Cmd |-> "running"]
  /\ reason = [c \in Cmd |-> "none"]
  /\ fault = [c \in Cmd |-> "none"]
  /\ temp = [c \in Cmd |-> "none"]
  /\ written = [c \in Cmd |-> {}]

-----------------------------------------------------------------------------
(* Others change the package. *)

Edit ==
  /\ edits < MaxEdits
  /\ edits' = edits + 1
  /\ \/ /\ \E o \in Object, v \in Version \cup {Broken} : files' = [files EXCEPT ![o] = v]
        /\ files' # files
        /\ UNCHANGED <<mfile, vfile>>
     \/ /\ mfile' \in (Manifest \cup {None}) \ {mfile}
        /\ UNCHANGED <<files, vfile>>
     \/ /\ vfile' \in (Version \cup {Broken}) \ {vfile}
        /\ UNCHANGED <<files, mfile>>
  /\ UNCHANGED <<loading, bundle, pc, exit, reason>>

-----------------------------------------------------------------------------
(* checkPackage. *)

Goto(c, next) == pc' = [pc EXCEPT ![c] = next]

Stop(c, code, why) ==
  /\ Goto(c, "ended")
  /\ exit' = [exit EXCEPT ![c] = code]
  /\ reason' = [reason EXCEPT ![c] = why]

ReadManifest(c) ==
  /\ pc[c] = "manifest"
  /\ \/ /\ mfile # None
        /\ manifest' = [manifest EXCEPT ![c] = mfile]
        /\ Goto(c, "paper")
        /\ UNCHANGED <<exit, reason>>
     \/ /\ mfile = None
        /\ Stop(c, "2", "package")
        /\ UNCHANGED manifest
  /\ UNCHANGED <<package, bundle, snap, override>>

\* captureObject: bytes are accepted by length and digest, unless they are an
\* unresolved Git LFS pointer, which is refused even when it is what is pinned.
Matches(c, o) == files[o] = manifest[c][o] /\ <<o, files[o]>> \notin Pointer

Keep(c, o) == snap' = [snap EXCEPT ![c][o] = files[o]]

AfterGlobal(c) ==
  CASE pc[c] = "paper" -> "source"
    [] pc[c] = "source" -> "policy"
    [] OTHER -> IF c \in Overriding THEN "verifier" ELSE "front"

CaptureGlobalAs(c, o, code) ==
  /\ \/ /\ Matches(c, o)
        /\ Keep(c, o)
        /\ Goto(c, AfterGlobal(c))
        /\ UNCHANGED <<exit, reason>>
     \/ /\ ~ Matches(c, o)
        /\ Stop(c, code, "package")
        /\ UNCHANGED snap
  /\ UNCHANGED <<package, bundle, manifest, override>>

Named(stage) ==
  CASE stage = "paper" -> Paper [] stage = "source" -> Source [] OTHER -> Policy

CaptureGlobalLocated(c) ==
  /\ pc[c] \in {"paper", "source", "policy"}
  /\ CaptureGlobalAs(c, Named(pc[c]), "1")
CaptureGlobal(c) ==
  /\ pc[c] \in {"paper", "source", "policy"}
  /\ CaptureGlobalAs(c, Named(pc[c]), "2")

ReadVerifierPolicy(c) ==
  /\ pc[c] = "verifier"
  /\ \/ /\ vfile # Broken
        /\ override' = [override EXCEPT ![c] = vfile]
        /\ Goto(c, "front")
        /\ UNCHANGED <<exit, reason>>
     \/ /\ vfile = Broken
        /\ Stop(c, "2", "package")
        /\ UNCHANGED override
  /\ UNCHANGED <<package, bundle, manifest, snap>>

PolicyBytes(c) == IF c \in Overriding THEN override[c] ELSE snap[c][Policy]

\* Parsing and structure, admission, evidence binding, the bound on what is
\* to be captured: each stage has its own exit code.
Structure(c) ==
  LET front == Front(snap[c][Source], PolicyBytes(c)) IN
  /\ pc[c] = "front"
  /\ CASE front = "invalid" -> Stop(c, "2", "package")
       [] front \in {"admission", "binding"} -> Stop(c, "1", "judged")
       [] OTHER -> IF snap[c][Source] \in TooHeavy
                   THEN Stop(c, IF Needs[snap[c][Source]] = {} THEN "2" ELSE "1", "judged")
                   ELSE Goto(c, "capture") /\ UNCHANGED <<exit, reason>>
  /\ UNCHANGED <<package, bundle, loading>>

Missing(c) == {o \in Needs[snap[c][Source]] : snap[c][o] = None}

First(S) == CHOOSE i \in S : \A j \in S : i <= j

CaptureRequired(c) ==
  LET o == First(Missing(c)) IN
  /\ pc[c] = "capture" /\ Missing(c) # {}
  /\ \/ /\ Matches(c, o)
        /\ Keep(c, o)
        /\ UNCHANGED <<pc, exit, reason>>
     \/ /\ ~ Matches(c, o)
        /\ Stop(c, "1", "capture")
        /\ UNCHANGED snap
  /\ UNCHANGED <<package, bundle, manifest, override>>

\* The captured bytes are judged, whatever the disk holds by now.
EvidenceOnDisk(c) == [o \in Needs[snap[c][Source]] |-> files[o]]
Evidence(c) == [o \in Needs[snap[c][Source]] |-> snap[c][o]]

Judge(c) ==
  /\ pc[c] = "capture" /\ Missing(c) = {}
  /\ IF Accepts(snap[c][Source], PolicyBytes(c), Evidence(c))
     THEN Goto(c, IF c \in Publishing THEN "mkdtemp" ELSE "print") /\ UNCHANGED <<exit, reason>>
     ELSE Stop(c, "1", "judged")
  /\ UNCHANGED <<package, bundle, loading>>

-----------------------------------------------------------------------------
(* writeEvidenceBundle. *)

MakeTemporary(c) ==
  /\ pc[c] = "mkdtemp"
  /\ \/ /\ temp' = [temp EXCEPT ![c] = "linked"]
        /\ Goto(c, "report")
        /\ UNCHANGED <<exit, reason>>
     \/ /\ Stop(c, "2", "publish")
        /\ UNCHANGED temp
  /\ UNCHANGED <<package, loading, dest, fault, written>>

WriteReport(c) ==
  /\ pc[c] = "report"
  /\ written' = [written EXCEPT ![c] = @ \cup {"report.sexp"}]
  /\ Goto(c, "verdict")
  /\ UNCHANGED <<package, loading, dest, fault, temp, exit, reason>>

WriteVerdict(c) ==
  /\ pc[c] = "verdict"
  /\ written' = [written EXCEPT ![c] = @ \cup {"core-verdict.sexp"}]
  /\ Goto(c, "publish")
  /\ UNCHANGED <<package, loading, dest, fault, temp, exit, reason>>

\* renameat2 with RENAME_NOREPLACE fails when the destination exists.
Vacant(c) == dest = None

PublishNoReplace(c) ==
  /\ pc[c] = "publish"
  /\ Vacant(c)
  /\ dest' = c
  /\ temp' = [temp EXCEPT ![c] = "renamed"]
  /\ Goto(c, "published")
  /\ UNCHANGED <<package, loading, fault, written, exit, reason>>

\* The report is printed once the bracket is left, then the command exits 0.
LeaveBracket(c) ==
  /\ pc[c] = "published"
  /\ Goto(c, "print")
  /\ UNCHANGED <<package, loading, bundle, exit, reason>>

PrintReport(c) ==
  /\ pc[c] = "print"
  /\ Stop(c, "0", "none")
  /\ UNCHANGED <<package, loading, bundle>>

InBracket == {"report", "verdict", "publish"}

\* A write fails, or renameat2 does: the destination is taken, or the call is
\* not supported.
PublishFailsUnnoticed(c) ==
  /\ pc[c] \in InBracket
  /\ Goto(c, "print")
  /\ UNCHANGED <<package, loading, bundle, exit, reason>>
PublishFails(c) ==
  /\ pc[c] \in InBracket
  /\ fault' = [fault EXCEPT ![c] = "io"]
  /\ Goto(c, "cleanup")
  /\ UNCHANGED <<package, loading, dest, temp, written, exit, reason>>

\* An interrupt inside the bracket, also after the rename, runs its cleanup.
Interrupt(c) ==
  /\ pc[c] \notin {"cleanup", "ended"}
  /\ IF pc[c] \in InBracket \cup {"published"}
     THEN /\ fault' = [fault EXCEPT ![c] = "interrupt"]
          /\ Goto(c, "cleanup")
          /\ UNCHANGED <<exit, reason>>
     ELSE /\ Stop(c, "interrupted", "none")
          /\ UNCHANGED fault
  /\ UNCHANGED <<package, loading, dest, temp, written>>

\* removeDirectoryRecursive, whose own failure takes the place of what
\* unwound the bracket and leaves the directory, with some of its files; it
\* fails too when the directory was renamed to be the bundle.
Cleanup(c) ==
  /\ pc[c] = "cleanup"
  /\ \/ /\ temp[c] = "linked"
        /\ temp' = [temp EXCEPT ![c] = "none"]
        /\ written' = [written EXCEPT ![c] = {}]
        /\ Stop(c, IF fault[c] = "io" THEN "2" ELSE "interrupted", "publish")
        /\ UNCHANGED fault
     \/ /\ temp[c] = "linked"
        /\ \E left \in SUBSET written[c] : written' = [written EXCEPT ![c] = left]
        /\ fault' = [fault EXCEPT ![c] = "removal"]
        /\ Stop(c, "2", "publish")
        /\ UNCHANGED temp
     \/ /\ temp[c] = "renamed"
        /\ Stop(c, "2", "publish")
        /\ UNCHANGED <<fault, temp, written>>
  /\ UNCHANGED <<package, loading, dest>>

Kill(c) ==
  /\ pc[c] # "ended"
  /\ Stop(c, "killed", "none")
  /\ UNCHANGED <<package, loading, bundle>>

Check(c) ==
  \/ ReadManifest(c) \/ CaptureGlobal(c) \/ ReadVerifierPolicy(c)
  \/ Structure(c) \/ CaptureRequired(c) \/ Judge(c)

Publish(c) ==
  \/ MakeTemporary(c) \/ WriteReport(c) \/ WriteVerdict(c) \/ PublishNoReplace(c)
  \/ LeaveBracket(c) \/ PrintReport(c) \/ PublishFails(c) \/ Cleanup(c)

Next == Edit \/ \E c \in Cmd : Check(c) \/ Publish(c) \/ Interrupt(c) \/ Kill(c)

\* A command left alone takes its next step.
Spec == Init /\ [][Next]_vars

-----------------------------------------------------------------------------
(* Properties. *)

\* The state keeps its types: what a command holds was readable.
TypeOK ==
  /\ files \in [Object -> Version \cup {Broken}]
  /\ mfile \in Manifest \cup {None} /\ vfile \in Version \cup {Broken}
  /\ edits \in 0 .. MaxEdits
  /\ dest \in {None, "existing"} \cup Cmd
  /\ pc \in [Cmd -> InBracket \cup {"manifest", "paper", "source", "policy", "verifier",
             "front", "capture", "mkdtemp", "published", "print", "cleanup", "ended"}]
  /\ manifest \in [Cmd -> Manifest \cup {None}]
  /\ snap \in [Cmd -> [Object -> Version \cup {None}]]
  /\ override \in [Cmd -> Version \cup {None}]
  /\ exit \in [Cmd -> {"running", "0", "1", "2", "interrupted", "killed"}]
  /\ reason \in [Cmd -> {"none", "package", "capture", "judged", "publish"}]
  /\ fault \in [Cmd -> {"none", "io", "interrupt", "removal"}]
  /\ temp \in [Cmd -> {"none", "linked", "renamed"}]
  /\ written \in [Cmd -> SUBSET {"report.sexp", "core-verdict.sexp"}]

\* What one look at the package a manifest pins would say under a policy: of
\* the stages before the requested objects are captured, and of all of them.
Passes(m, p) ==
  Front(m[Source], p) \notin {"invalid", "admission", "binding"} /\ m[Source] \notin TooHeavy

Sound(m, p) ==
  LET s == m[Source] IN
  /\ Passes(m, p)
  /\ \A o \in Globals \cup Needs[s] : <<o, m[o]>> \notin Pointer
  /\ Accepts(s, p, [o \in Needs[s] |-> m[o]])

PolicyOf(c) == IF c \in Overriding THEN override[c] ELSE manifest[c][Policy]

\* Snapshot consistency: a published bundle and a printed report are those of
\* one package, the one the manifest pins, although its files were read at
\* different moments and may have changed in between.
OnePackage == \A c \in Cmd :
  exit[c] = "0" \/ dest = c =>
    /\ Sound(manifest[c], PolicyOf(c))
    /\ \A o \in Object :
         snap[c][o] = IF o \in Globals \cup Needs[manifest[c][Source]]
                      THEN manifest[c][o] ELSE None

\* rejection-surface.md: damage to the manifest or a global object is exit 2.
\* A command turns to exit 1 only with the pinned globals in hand, and either
\* the package they pin is one the stages refuse, or that package passes the
\* stages before the capture and the first requested object in manifest order
\* that is not yet captured is, at that moment, not the pinned one on disk, or
\* is pinned to an LFS pointer.
Justified(c) ==
  LET needed == Needs[manifest[c][Source]] IN
  exit[c] # "1" /\ exit'[c] = "1" =>
    /\ \A o \in Globals : snap[c][o] = manifest[c][o]
    /\ \/ reason'[c] = "judged" /\ ~ Sound(manifest[c], PolicyOf(c))
       \/ /\ reason'[c] = "capture"
          /\ Passes(manifest[c], PolicyOf(c))
          /\ \E o \in needed :
               /\ files[o] # manifest[c][o] \/ <<o, manifest[c][o]>> \in Pointer
               /\ snap[c][o] = None
               /\ \A p \in needed : p < o => snap[c][p] = manifest[c][p]

\* Every rejection is such a one.
RejectionClass == [][\A c \in Cmd : Justified(c)]_vars

\* The exit code tells who owns the destination: a command with --out that
\* exits 0 does, and none that rejected or failed does, save one that an
\* interrupt reached between the rename and the end of the bracket: it exits 2
\* with its bundle in place.
ExitTruthful == \A c \in Cmd :
  /\ exit[c] = "0" /\ c \in Publishing => dest = c
  /\ exit[c] = "1" => dest # c
  /\ exit[c] = "2" /\ fault[c] # "interrupt" => dest # c

\* The destination names no bundle but a whole one.  A command that has ended
\* left its temporary directory only if it was killed, or if removing the
\* directory failed: then it exits 2 and the destination is not its own.
NothingPartial ==
  /\ dest \in Cmd => written[dest] = {"report.sexp", "core-verdict.sexp"}
  /\ \A c \in Cmd : pc[c] = "ended" /\ temp[c] = "linked" =>
       \/ exit[c] = "killed"
       \/ exit[c] = "2" /\ fault[c] = "removal" /\ dest # c

\* Both: who owns the destination is what the exit codes say, and what is there
\* is whole.
PublicationIsWhole == ExitTruthful /\ NothingPartial

\* What the destination names is never replaced, and a bundle never changes.
NeverReplaced ==
  [][/\ dest # None => dest' = dest
     /\ \A c \in Cmd : dest = c => written'[c] = written[c]]_vars

=============================================================================
