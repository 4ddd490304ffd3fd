----------------------------- MODULE SidecarFiles -----------------------------
(***************************************************************************)
(* The files a run depends on (station-kernel/src/runtime.rs, context.rs):  *)
(* how the paths of a profile and of a manifest are resolved, and what the  *)
(* two hashes of a subprocess manifest hold on to.  The author of a         *)
(* manifest signs it with the files as they are; later, perhaps in another  *)
(* checkout and after edits, start_plugin resolves the paths again,         *)
(* compares the hashes, and spawns the sidecar.                            *)
(*                                                                         *)
(* A hash is what it is computed from.  Files hold still while start_plugin *)
(* looks at them, and there are no symbolic links.                         *)
(***************************************************************************)
EXTENDS Naturals, Sequences, SequencesExt

CONSTANTS
  Checkouts,   \* where the workspace may be: absolute paths
  Places,      \* files the workspace may have besides profiles/, by path in it
  Directories, \* the directories the workspace has
  Outside,     \* a directory that is not in the workspace
  Bytes,       \* contents of files
  Released,    \* the contents of all files before any edit
  PathLength,  \* directories on PATH
  WorkingDirs, \* working_dir of a manifest, NoDir when it has none
  NoDir, Refused, \* no working directory given; one that is out of bounds
  Args,        \* the paths a manifest may have as its one argument
  Spellings,   \* how the path of the profile is given
  MaxEdits     \* bound: changes to files

\* A path as written: parts may be "." and "..".
Path(abs, parts) == [abs |-> abs, parts |-> parts]
Absolute(parts) == Path(TRUE, parts)
Relative(parts) == Path(FALSE, parts)
NoFile == "no file"
Unsigned == [signed |-> FALSE]
Idle == [ran |-> FALSE]

Profiles == <<"profiles">>

Part == STRING
PlaceName == Seq(Part)
PathName == [abs : BOOLEAN, parts : PlaceName]
Plain(place) == \A i \in DOMAIN place : place[i] \notin {".", ".."}

\* No file or directory is called "." or "..", and the directory above each is one.
ASSUME FilesAssumption ==
  /\ Profiles \in Directories /\ <<>> \in Directories /\ <<>> \notin Places
  /\ \A p \in Directories \cup Places :
       p \in PlaceName /\ Plain(p) /\ (p # <<>> => Front(p) \in Directories)
  /\ \A p \in Checkouts \cup {Outside} : p \in PlaceName /\ Plain(p)
  /\ \A c \in Checkouts : ~IsPrefix(c, Outside)
  /\ Args \subseteq PathName /\ WorkingDirs \subseteq PathName \cup {NoDir}
  /\ NoDir # Refused /\ NoDir \notin PathName /\ Refused \notin PathName
  /\ Spellings \subseteq {"absolute", "from_workspace", "bare"}
  /\ MaxEdits \in Nat /\ PathLength \in Nat /\ Released \in Bytes

VARIABLES
  root,     \* the workspace: the directory above the profile's
  spelling, \* how TNSR_PROFILE names the profile
  files,    \* contents of the files in the workspace
  bins,     \* contents of the command in each directory of PATH
  manifest, \* the manifest as signed, with what a child opened at that time
  child,    \* the sidecar that was spawned
  edits     \* how often a file was changed

vars == <<root, spelling, files, bins, manifest, child, edits>>

\* A checkout with every file, and the command in the last directory of PATH.
Init ==
  /\ root \in Checkouts /\ spelling \in Spellings
  /\ files = [p \in Places |-> Released]
  /\ bins = [i \in 1 .. PathLength |-> IF i = PathLength THEN Released ELSE NoFile]
  /\ manifest = Unsigned /\ child = Idle /\ edits = 0

-----------------------------------------------------------------------------
(* The file system.                                                        *)

\* Where the kernel runs, and the directory part of the profile's path.
Cwd == IF spelling = "bare" THEN root \o Profiles ELSE root
ProfileDir == CASE spelling = "absolute" -> Absolute(root \o Profiles)
                [] spelling = "from_workspace" -> Relative(Profiles)
                [] spelling = "bare" -> Relative(<<>>)

InWorkspace(place) == IsPrefix(root, place)
Within(place) == SubSeq(place, Len(root) + 1, Len(place))
IsDir(place) == \/ IsPrefix(place, root) \/ IsPrefix(place, Outside)
                \/ InWorkspace(place) /\ Within(place) \in Directories
Content(place) == IF InWorkspace(place) /\ Within(place) \in Places
                  THEN files[Within(place)] ELSE NoFile
Exists(place) == IsDir(place) \/ Content(place) # NoFile

\* The directory above; that of the root directory is itself.
Above(place) == IF place = <<>> THEN <<>> ELSE Front(place)

Step(place, part) ==
  CASE part = "." -> place [] part = ".." -> Above(place) [] OTHER -> Append(place, part)

\* The system's own walk along a path, from a directory: a set of one place, or
\* of none when the walk fails.
Walk(from, parts) ==
  LET at[n \in 0 .. Len(parts)] ==
        IF n = 0 THEN {from}
        ELSE {Step(p, parts[n]) : p \in {q \in at[n - 1] : IsDir(q)}}
  IN at[Len(parts)]
Found(path) ==
  {p \in Walk(IF path.abs THEN <<>> ELSE Cwd, path.parts) :
     Exists(p) /\ path # Relative(<<>>)}

-----------------------------------------------------------------------------
(* Paths in the kernel.  An outcome is a set: of one path, or of none when   *)
(* the operation fails.                                                    *)

Collapse(parts) ==
  LET done[n \in 0 .. Len(parts)] ==
        IF n = 0 THEN {<<>>}
        ELSE {Step(d, parts[n]) : d \in {e \in done[n - 1] : e # <<>> \/ parts[n] # ".."}}
  IN done[Len(parts)]

Normalize(path) == {Path(path.abs, parts) : parts \in Collapse(path.parts)}

CanonicalizeOrNormalize(path) ==
  IF Found(path) # {} THEN {Absolute(p) : p \in Found(path)} ELSE Normalize(path)

Join(path, more) == IF more.abs THEN more ELSE Path(path.abs, path.parts \o more.parts)

\* Path::starts_with compares components; every path starts with the empty one.
StartsWith(path, prefix) ==
  \/ prefix = Relative(<<>>)
  \/ path.abs = prefix.abs /\ IsPrefix(prefix.parts, path.parts)

\* Path::parent.
Parent(path) == IF path.parts = <<>> THEN {} ELSE {Path(path.abs, Front(path.parts))}

\* The roots a working directory may be under: the profile's directory and the
\* one above it, unless that is the empty path.
ProfileRoot == CanonicalizeOrNormalize(ProfileDir)
WorkspaceRoot ==
  (UNION {CanonicalizeOrNormalize(w) : w \in UNION {Parent(p) : p \in ProfileRoot}})
    \ {Relative(<<>>)}

\* Faulty variant: the candidate is compared with the roots as it is written.
InBounds_AsWritten(candidate) ==
  {n \in CanonicalizeOrNormalize(candidate) :
     \E r \in ProfileRoot \cup WorkspaceRoot : StartsWith(candidate, r)}

InBounds(candidate) ==
  {n \in CanonicalizeOrNormalize(candidate) :
     \E r \in ProfileRoot \cup WorkspaceRoot : StartsWith(n, r)}

\* resolve_bounded_working_dir: the first candidate that is in bounds, from the
\* profile's root and then from the workspace's; one that cannot be normalized
\* ends the search.
ResolveBoundedWorkingDir(working_dir) ==
  LET near == IF working_dir.abs THEN {working_dir}
              ELSE {Join(p, working_dir) : p \in ProfileRoot}
      far == IF working_dir.abs THEN {} ELSE {Join(w, working_dir) : w \in WorkspaceRoot}
      kept == UNION {InBounds(c) : c \in near}
  IN IF kept # {} \/ \E c \in near : CanonicalizeOrNormalize(c) = {} THEN kept
     ELSE UNION {InBounds(c) : c \in far}

\* Faulty variant: the workspace is looked at first.
ResolveProfilePath_WorkspaceFirst(path) ==
  IF path.abs THEN path
  ELSE LET near == {w \in Parent(ProfileDir) : Found(Join(w, path)) # {}}
       IN IF near # {} THEN CHOOSE p \in {Join(w, path) : w \in near} : TRUE
          ELSE IF Found(Join(ProfileDir, path)) # {} THEN Join(ProfileDir, path)
          ELSE Join(Relative(<<".">>), path)

\* resolve_profile_path, for the manifests and schemas a profile lists.
ResolveProfilePath(path) ==
  IF path.abs THEN path
  ELSE IF Found(Join(ProfileDir, path)) # {} THEN Join(ProfileDir, path)
  ELSE LET near == {w \in Parent(ProfileDir) : Found(Join(w, path)) # {}}
       IN IF near # {} THEN CHOOSE p \in {Join(w, path) : w \in near} : TRUE
          ELSE Join(Relative(<<".">>), path)

-----------------------------------------------------------------------------
(* The hashes of a manifest.                                               *)

\* The directory that start_plugin goes on with: none, one, or a refusal.
WorkingDir(working_dir) ==
  IF working_dir = NoDir THEN NoDir
  ELSE LET resolved == ResolveBoundedWorkingDir(working_dir)
       IN IF resolved = {} THEN Refused ELSE CHOOSE d \in resolved : TRUE

\* resolve_command_target, for a bare name: the first directory of PATH with it.
CommandTarget ==
  LET has == {i \in DOMAIN bins : bins[i] # NoFile}
  IN IF has = {} THEN 0 ELSE CHOOSE i \in has : \A j \in has : i <= j

ExecutableHash == IF CommandTarget = 0 THEN NoFile ELSE bins[CommandTarget]

FileAt(path) ==
  LET places == {p \in Found(path) : ~IsDir(p)}
  IN IF places = {} THEN NoFile ELSE Content(CHOOSE p \in places : TRUE)

\* Faulty variants: relative arguments are looked up from the profile; the
\* place the argument resolves to is hashed with it.
SidecarArgsHash_FromProfile(arg, dir) ==
  [raw |-> arg,
   file |-> IF arg.abs THEN FileAt(arg)
            ELSE IF dir = NoDir THEN NoFile
            ELSE FileAt(Join(ProfileDir, arg))]

SidecarArgsHash_Resolved(arg, dir) ==
  [raw |-> IF dir = NoDir THEN arg ELSE Join(dir, arg),
   file |-> IF arg.abs THEN FileAt(arg)
            ELSE IF dir = NoDir THEN NoFile
            ELSE FileAt(Join(dir, arg))]

\* canonicalize_sidecar_arg: the argument as written, and the bytes of the file
\* it names, from the working directory if there is one.
SidecarArgsHash(arg, dir) ==
  [raw |-> arg,
   file |-> IF arg.abs THEN FileAt(arg)
            ELSE IF dir = NoDir THEN NoFile
            ELSE FileAt(Join(dir, arg))]

\* Where a child that is spawned with this working directory is, and what it
\* opens by the argument there: the set is empty when it cannot be spawned.
ChildIn(dir) == IF dir = NoDir THEN {Cwd} ELSE {p \in Found(dir) : IsDir(p)}
Opens(arg, place) ==
  FileAt(IF arg.abs THEN arg ELSE Absolute(place \o arg.parts))

Runs(arg, dir) ==
  {[ran |-> TRUE, in |-> place, executable |-> ExecutableHash,
    script |-> Opens(arg, place)] : place \in ChildIn(dir)}

-----------------------------------------------------------------------------
(* What happens.                                                           *)

Edited == edits < MaxEdits /\ edits' = edits + 1

Write(place, bytes) ==
  /\ Edited
  /\ files' = [files EXCEPT ![place] = bytes]
  /\ UNCHANGED <<root, spelling, bins, manifest, child>>

Install(i, bytes) ==
  /\ Edited
  /\ bins' = [bins EXCEPT ![i] = bytes]
  /\ UNCHANGED <<root, spelling, files, manifest, child>>

\* The checkout is moved as a whole, between runs.
Move(place) ==
  /\ ~child.ran
  /\ place # root
  /\ root' = place
  /\ UNCHANGED <<spelling, files, bins, manifest, child, edits>>

\* The author of the manifest puts the hashes in it.
Sign(working_dir, arg) ==
  /\ ~manifest.signed
  /\ ExecutableHash # NoFile /\ WorkingDir(working_dir) # Refused
  /\ \E run \in Runs(arg, WorkingDir(working_dir)) :
       manifest' = [signed |-> TRUE, working_dir |-> working_dir, arg |-> arg,
                    executable |-> ExecutableHash,
                    args |-> SidecarArgsHash(arg, WorkingDir(working_dir)),
                    edits |-> edits, run |-> run]
  /\ UNCHANGED <<root, spelling, files, bins, child, edits>>

\* The checks of start_plugin before it spawns.
Accepts ==
  /\ manifest.signed
  /\ WorkingDir(manifest.working_dir) # Refused
  /\ CommandTarget # 0 /\ ExecutableHash = manifest.executable
  /\ SidecarArgsHash(manifest.arg, WorkingDir(manifest.working_dir)) = manifest.args

StartPlugin ==
  /\ Accepts /\ ~child.ran
  /\ \E run \in Runs(manifest.arg, WorkingDir(manifest.working_dir)) : child' = run
  /\ UNCHANGED <<root, spelling, files, bins, manifest, edits>>

ChildEnds ==
  /\ child.ran
  /\ child' = Idle
  /\ UNCHANGED <<root, spelling, files, bins, manifest, edits>>

Next ==
  \/ \E place \in Places, bytes \in Bytes \cup {NoFile} : Write(place, bytes)
  \/ \E i \in DOMAIN bins, bytes \in Bytes \cup {NoFile} : Install(i, bytes)
  \/ \E place \in Checkouts : Move(place)
  \/ \E working_dir \in WorkingDirs, arg \in Args : Sign(working_dir, arg)
  \/ StartPlugin \/ ChildEnds

Spec == Init /\ [][Next]_vars

-----------------------------------------------------------------------------
(* What a manifest may rely on.                                            *)

\* A sidecar runs what its author saw run: the executable and the script that the
\* child opens have the bytes they had when the manifest was signed, whatever has
\* been edited, removed, installed earlier on PATH or moved in between.
RunsWhatWasSigned ==
  child.ran /\ manifest.working_dir # NoDir =>
    child.executable = manifest.run.executable /\ child.script = manifest.run.script

\* The paths of a manifest, taken from the profile, never leave the workspace.
StaysInside(working_dir, arg) ==
  /\ ~arg.abs
  /\ working_dir # NoDir =>
       ~working_dir.abs /\ Collapse(Profiles \o working_dir.parts \o arg.parts) # {}

\* A checkout can be moved (with a profile whose path has a directory): while
\* nothing was edited since it was signed, a manifest whose paths stay inside the
\* workspace is accepted wherever the checkout is.  (One that leaves it and comes
\* back by the name of the checkout is not.)
MovesFreely ==
  manifest.signed /\ spelling # "bare" =>
    (edits = manifest.edits /\ StaysInside(manifest.working_dir, manifest.arg) => Accepts)

\* A sidecar with a working directory runs in the workspace, however many ".." the
\* path has and whether or not it exists, when the profile's path has a directory.
RunsInWorkspace ==
  child.ran /\ manifest.working_dir # NoDir /\ spelling # "bare" =>
    InWorkspace(child.in)

\* What a profile lists is found beside the profile, or else in the workspace, and
\* it is the same file whether the profile's path is absolute or relative.
FoundWhereItIs ==
  spelling # "bare" =>
    \A arg \in {a \in Args : ~a.abs} :
      LET beside == root \o Profiles \o arg.parts
          above == root \o arg.parts
          found == Found(ResolveProfilePath(arg))
      IN /\ Exists(beside) => found = {beside}
         /\ ~Exists(beside) /\ Exists(above) => found = {above}

=============================================================================
