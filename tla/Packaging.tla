------------------------------- MODULE Packaging -------------------------------
(***************************************************************************)
(* How a release is made of a commit (src/tools/release.py): `build' reads *)
(* the checkout file by file and writes an archive, `smoke' extracts an    *)
(* archive into a new workspace, `materialize' writes the archive again    *)
(* from an extracted one.  None of them locks anything: Git is asked       *)
(* before and after the reading, and everything read from an archive or a  *)
(* directory is compared with the manifest in it.                          *)
(***************************************************************************)
EXTENDS Naturals

CONSTANTS Packer,       \* commands that run at one time
          Piece,        \* the allowlisted sources
          VersionFile,  \* the one of them that says which version it is
          MaxText,      \* texts of a file
          MaxCommit,    \* commits
          MaxMeddle     \* what others do meanwhile

ASSUME PackagingAssumption ==
  /\ VersionFile \in Piece
  /\ {MaxText, MaxCommit} \subseteq Nat \ {0} /\ MaxMeddle \in Nat

VARIABLES
  tree,       \* the files of the checkout
  past,       \* what each commit contains
  count,      \* how many there are
  tip,        \* HEAD
  receipt,    \* what the proposal and its approval amount to
  packer,     \* the commands
  zip,        \* the archive under the name of the output
  workspace,  \* the extracted release
  built,      \* history: the releases that builds composed
  doubtful,   \* history: those whose checkout was disturbed and put back meanwhile
  meddle      \* what others may still do

sourceVars == <<tree, past, count, tip, receipt>>
packVars == <<sourceVars, packer, zip, workspace, built, doubtful, meddle>>

Text     == 0 .. MaxText     \* 0 where there is no file
Snapshot == [Piece -> Text]
NoFiles  == [f \in Piece |-> 0]

\* The four states that a release records, and two that stop a build: one of
\* proposal and shape without the other, and a receipt that does not match.
Trust   == {"no-project", "matched", "portable", "no-event"}
Receipt == Trust \cup {"half", "invalid"}

\* The installer's files are made of the others and of nothing else: of other files
\* there would be others.
Generated(file) == file

\* _validate_install_bundle
Canonical(file, generated) == generated = Generated(file)

\* A release is its manifest: where it is from, and the digest of every member.
Package == [commit : 0 .. MaxCommit, version : Text, trust : Trust, file : Snapshot]
NoPackage   == [commit |-> 0, version |-> 0, trust |-> "no-project", file |-> NoFiles]

\* _verify_member_set: the members are those of the manifest, the generated ones those
\* that would be generated again, none is missing, VERSION is the version.
Verified(file, generated, manifest) ==
  /\ manifest.commit # 0
  /\ file = manifest.file /\ Canonical(file, generated)
  /\ \A f \in Piece : file[f] # 0
  /\ file[VersionFile] = manifest.version

Archive   == [state : {"absent", "whole", "torn"}, release : Package]
Directory == [there : BOOLEAN, file : Snapshot, generated : Snapshot, manifest : Package]

BuildStep == {"head", "status", "authority", "version", "collect", "authority again",
              "head again", "status again", "compose"}
PackStep  == {"idle", "write", "report", "read", "target", "mkdir", "extract"}
             \cup BuildStep

\* The members of a directory.
Part == Piece \cup {"generated", "manifest"}

\* A command: what it read or composed, what it has still to read or to write.
\* History: blurred, whether the checkout was put back during the build.
Command == [task : {"none", "build", "smoke", "make"}, step : PackStep,
            release : Package, generated : Snapshot, manifest : Package,
            unread : SUBSET Part, blurred : BOOLEAN]
Dormant == [task |-> "none", step |-> "idle", release |-> NoPackage, generated |-> NoFiles,
            manifest |-> NoPackage, unread |-> {}, blurred |-> FALSE]

Is(p, step)  == packer[p].step = step
To(p, new)   == packer' = [packer EXCEPT ![p] = new]
Turns(p, step) == To(p, [packer[p] EXCEPT !.step = step])
Rest(p)      == To(p, Dormant)
Reads        == UNCHANGED <<sourceVars, zip, workspace, built, doubtful, meddle>>

\* What `git status' shows is nothing.
NothingToCommit == tree = past[tip]

Starts(p, task, step) ==
  /\ Is(p, "idle")
  /\ To(p, [Dormant EXCEPT !.task = task, !.step = step])
  /\ Reads

-----------------------------------------------------------------------------
(* build                                                                   *)

StartBuild(p) == Starts(p, "build", "head")

\* _git_state is two commands: HEAD, and then whether the checkout differs from it.
ReadHead(p) ==
  /\ Is(p, "head")
  /\ To(p, [packer[p] EXCEPT !.step = "status", !.release.commit = tip])
  /\ Reads

ReadStatus(p) ==
  /\ Is(p, "status")
  /\ IF NothingToCommit THEN Turns(p, "authority") ELSE Rest(p)
  /\ Reads

ReadAuthority(p) ==
  /\ Is(p, "authority")
  /\ IF receipt \in Trust
     THEN To(p, [packer[p] EXCEPT !.step = "version", !.release.trust = receipt])
     ELSE Rest(p)
  /\ Reads

\* collect_files reads VERSION for the manifest, and again as one of the files.
ReadVersion(p) ==
  /\ Is(p, "version")
  /\ IF \A f \in Piece : tree[f] # 0
     THEN To(p, [packer[p] EXCEPT !.step = "collect", !.release.version = tree[VersionFile],
                                  !.unread = Piece])
     ELSE Rest(p)
  /\ Reads

\* Of all the files the installer's are generated.
ReadPiece(p, f) ==
  /\ Is(p, "collect") /\ f \in packer[p].unread /\ tree[f] # 0
  /\ LET file == [packer[p].release.file EXCEPT ![f] = tree[f]] IN
     To(p, IF packer[p].unread = {f}
           THEN [packer[p] EXCEPT !.step = "authority again", !.unread = {},
                                  !.release.file = file, !.generated = Generated(file)]
           ELSE [packer[p] EXCEPT !.release.file = file, !.unread = @ \ {f}])
  /\ Reads

PieceGone(p) ==
  /\ Is(p, "collect") /\ \E f \in packer[p].unread : tree[f] = 0
  /\ Rest(p)
  /\ Reads

CheckAuthority(p) ==
  /\ Is(p, "authority again")
  /\ IF receipt = packer[p].release.trust THEN Turns(p, "head again") ELSE Rest(p)
  /\ Reads

CheckHead(p) ==
  /\ Is(p, "head again")
  /\ IF tip = packer[p].release.commit THEN Turns(p, "status again") ELSE Rest(p)
  /\ Reads

\* Mutant: whether the checkout still is clean is not asked.
CheckStatusBlind(p) == Is(p, "status again") /\ Turns(p, "compose") /\ Reads

CheckStatus(p) ==
  /\ Is(p, "status again")
  /\ IF NothingToCommit THEN Turns(p, "compose") ELSE Rest(p)
  /\ Reads

Compose(p) ==
  /\ Is(p, "compose")
  /\ LET r == packer[p].release IN
     IF Verified(r.file, packer[p].generated, r)
     THEN /\ Turns(p, "write")
          /\ IF packer[p].blurred
             THEN doubtful' = doubtful \cup {r} /\ UNCHANGED built
             ELSE built' = built \cup {r} /\ UNCHANGED doubtful
     ELSE Rest(p) /\ UNCHANGED <<built, doubtful>>
  /\ UNCHANGED <<sourceVars, zip, workspace, meddle>>

\* The archive is written to a temporary of its own and renamed.
Put(p) ==
  /\ Is(p, "write")
  /\ zip' = [state |-> "whole", release |-> packer[p].release]
  /\ Turns(p, "report")
  /\ UNCHANGED <<sourceVars, workspace, built, doubtful, meddle>>

\* verify_archive reads what is there now.  A build reports that, materialize refuses
\* another release than its own.
Report(p) == Is(p, "report") /\ Rest(p) /\ Reads

-----------------------------------------------------------------------------
(* smoke                                                                   *)

\* _verified_archive
OpenZip(p) ==
  /\ Is(p, "idle") /\ zip.state = "whole"
  /\ To(p, [Dormant EXCEPT !.task = "smoke", !.step = "mkdir", !.release = zip.release])
  /\ Reads

MakeWorkspace(p) ==
  /\ Is(p, "mkdir")
  /\ IF workspace.there
     THEN Rest(p) /\ UNCHANGED workspace
     ELSE /\ workspace' = [workspace EXCEPT !.there = TRUE]
          /\ To(p, [packer[p] EXCEPT !.step = "extract", !.unread = Part])
  /\ UNCHANGED <<sourceVars, zip, built, doubtful, meddle>>

\* The members of the workspace.
Present(part) == CASE part = "generated" -> workspace.generated # NoFiles
                   [] part = "manifest"  -> workspace.manifest # NoPackage
                   [] OTHER              -> workspace.file[part] # 0

\* A member is never written over what is there.
WritePart(p, part) ==
  /\ Is(p, "extract") /\ part \in packer[p].unread
  /\ LET r == packer[p].release IN
     IF Present(part) THEN Rest(p) /\ UNCHANGED workspace
     ELSE /\ workspace' =
               CASE part = "generated" -> [workspace EXCEPT !.generated = Generated(r.file)]
                 [] part = "manifest"  -> [workspace EXCEPT !.manifest = r]
                 [] OTHER              -> [workspace EXCEPT !.file[part] = r.file[part]]
          /\ To(p, IF packer[p].unread = {part} THEN Dormant
                   ELSE [packer[p] EXCEPT !.unread = @ \ {part}])
  /\ UNCHANGED <<sourceVars, zip, built, doubtful, meddle>>

-----------------------------------------------------------------------------
(* materialize                                                             *)

\* _read_release_directory: the names first, then one member after the other.
Walk(p) ==
  /\ Is(p, "idle") /\ workspace.there
  /\ LET present == {part \in Part : Present(part)} IN
     IF present = {} THEN UNCHANGED packer
     ELSE To(p, [Dormant EXCEPT !.task = "make", !.step = "read", !.unread = present])
  /\ Reads

\* The command after it read one more of its members.
WithPart(c, part) ==
  CASE part = "generated" -> [c EXCEPT !.generated = workspace.generated]
    [] part = "manifest"  -> [c EXCEPT !.manifest = workspace.manifest]
    [] OTHER              -> [c EXCEPT !.release.file[part] = workspace.file[part]]

ReadPart(p, part) ==
  /\ Is(p, "read") /\ part \in packer[p].unread
  /\ LET c == [WithPart(packer[p], part) EXCEPT !.unread = @ \ {part}] IN
     To(p, IF ~Present(part) THEN Dormant
           ELSE IF c.unread # {} THEN c
           ELSE IF Verified(c.release.file, c.generated, c.manifest)
           THEN [c EXCEPT !.step = "target", !.release = c.manifest]
           ELSE Dormant)
  /\ Reads

\* An existing archive must be the same.
Target(p) ==
  /\ Is(p, "target")
  /\ CASE zip.state = "absent" -> Turns(p, "write")
       [] zip.state = "whole" /\ zip.release = packer[p].release -> Turns(p, "report")
       [] OTHER -> Rest(p)
  /\ Reads

-----------------------------------------------------------------------------
(* Others                                                                  *)

\* The checkout is again as the build saw it first, or moves between the two commands
\* of its last look at it.
Blurs(p) ==
  LET c == packer[p].release.commit IN
  /\ packer[p].task = "build"
  /\ \/ NothingToCommit' /\ tip' = c /\ ~(NothingToCommit /\ tip = c)
     \/ Is(p, "status again") /\ tip' # tip

Meddles ==
  /\ meddle > 0 /\ meddle' = meddle - 1
  /\ UNCHANGED <<zip, workspace, built, doubtful>>
Notices == packer' = [p \in Packer |-> [packer[p] EXCEPT !.blurred = @ \/ Blurs(p)]]

Amend(f, t) ==
  /\ Meddles
  /\ tree' = [tree EXCEPT ![f] = t]
  /\ UNCHANGED <<past, count, tip, receipt>>
  /\ Notices

CommitTree ==
  /\ Meddles /\ count < MaxCommit /\ ~NothingToCommit
  /\ count' = count + 1 /\ tip' = count + 1
  /\ past' = [past EXCEPT ![count + 1] = tree]
  /\ UNCHANGED <<tree, receipt>>
  /\ Notices

Checkout(c) ==
  /\ Meddles /\ c <= count
  /\ tip' = c /\ tree' = past[c]
  /\ UNCHANGED <<past, count, receipt>>
  /\ Notices

Decides(r) ==
  /\ Meddles
  /\ receipt' = r
  /\ UNCHANGED <<tree, past, count, tip, packer>>

\* Somebody edits the extracted release, removes a member of it, or the archive is
\* damaged; a command is killed.
EditWorkspace(part, t) ==
  /\ meddle > 0 /\ meddle' = meddle - 1 /\ workspace.there
  /\ workspace' = CASE part = "generated" -> [workspace EXCEPT !.generated = NoFiles]
                    [] part = "manifest"  -> [workspace EXCEPT !.manifest = NoPackage]
                    [] OTHER              -> [workspace EXCEPT !.file[part] = t]
  /\ UNCHANGED <<sourceVars, packer, zip, built, doubtful>>

Damage ==
  /\ meddle > 0 /\ meddle' = meddle - 1 /\ zip.state = "whole"
  /\ zip' = [zip EXCEPT !.state = "torn"]
  /\ UNCHANGED <<sourceVars, packer, workspace, built, doubtful>>

TakeOut ==
  /\ meddle > 0 /\ meddle' = meddle - 1
  /\ zip' = [state |-> "absent", release |-> NoPackage]
  /\ UNCHANGED <<sourceVars, packer, workspace, built, doubtful>>

KillPacker(p) ==
  /\ meddle > 0 /\ meddle' = meddle - 1 /\ ~Is(p, "idle")
  /\ Rest(p)
  /\ UNCHANGED <<sourceVars, zip, workspace, built, doubtful>>

-----------------------------------------------------------------------------

PackagingInit ==
  /\ past = [c \in 1 .. MaxCommit |-> [f \in Piece |-> IF c = 1 THEN 1 ELSE 0]]
  /\ tree = past[1] /\ count = 1 /\ tip = 1
  /\ receipt = "no-project"
  /\ packer = [p \in Packer |-> Dormant]
  /\ zip = [state |-> "absent", release |-> NoPackage]
  /\ workspace = [there |-> FALSE, file |-> NoFiles, generated |-> NoFiles,
                  manifest |-> NoPackage]
  /\ built = {} /\ doubtful = {}
  /\ meddle = MaxMeddle

BuildMoves(p) ==
  \/ StartBuild(p) \/ ReadHead(p) \/ ReadStatus(p) \/ ReadAuthority(p)
  \/ ReadVersion(p) \/ \E f \in Piece : ReadPiece(p, f)
  \/ PieceGone(p) \/ CheckAuthority(p) \/ CheckHead(p) \/ CheckStatus(p)
  \/ Compose(p) \/ Put(p) \/ Report(p)

CopyMoves(p) ==
  \/ OpenZip(p) \/ MakeWorkspace(p) \/ Walk(p) \/ Target(p)
  \/ \E part \in Part : WritePart(p, part) \/ ReadPart(p, part)

OthersMove ==
  \/ \E f \in Piece, t \in Text : Amend(f, t)
  \/ CommitTree
  \/ \E c \in 1 .. MaxCommit : Checkout(c)
  \/ \E r \in Receipt : Decides(r)
  \/ \E part \in Part, t \in Text : EditWorkspace(part, t)
  \/ Damage \/ TakeOut
  \/ \E p \in Packer : KillPacker(p)

PackagingNext == OthersMove \/ \E p \in Packer : BuildMoves(p) \/ CopyMoves(p)
PackagingSpec == PackagingInit /\ [][PackagingNext]_packVars

PackagingTypeOK ==
  /\ tree \in Snapshot /\ past \in [1 .. MaxCommit -> Snapshot]
  /\ count \in 1 .. MaxCommit /\ tip \in 1 .. count
  /\ receipt \in Receipt
  /\ packer \in [Packer -> Command]
  /\ zip \in Archive /\ workspace \in Directory
  /\ built \subseteq Package /\ doubtful \subseteq Package
  /\ meddle \in 0 .. MaxMeddle

\* A release has exactly the files of the commit that its manifest names, although
\* they were read one by one from a checkout that others edit, commit in and check
\* out meanwhile, as long as nobody puts back what the build saw.
BuiltFromCommit ==
  \A r \in built : r.file = past[r.commit] /\ r.version = r.file[VersionFile]

\* What one build makes of a commit every build makes of it.
Reproducible ==
  \A r, s \in built : r.commit = s.commit /\ r.trust = s.trust => r = s

\* Whatever passes as a release, as an archive or extracted, in whatever order its
\* parts were written and read, was composed by a build.
Genuine ==
  LET releases == built \cup doubtful IN
  /\ zip.state = "whole" => zip.release \in releases
  /\ Verified(workspace.file, workspace.generated, workspace.manifest)
       => workspace.manifest \in releases
  /\ \A p \in Packer : packer[p].step \in {"target", "write", "report"}
       => packer[p].release \in releases

PackagesSafe == BuiltFromCommit /\ Reproducible /\ Genuine
=============================================================================
