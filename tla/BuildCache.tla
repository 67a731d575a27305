----------------------------- MODULE BuildCache -----------------------------
(***************************************************************************)
(* The artifact cache of psc: cache.get, has, mark, put and clear          *)
(* (src/src/psc/cache/cache.pengu), the fast paths of driver.build that    *)
(* use them (src/src/psc/driver/build.pengu), `psc gc`                     *)
(* (src/src/psc/cmd/gc.pengu), and the file operations of                  *)
(* src/pengu_runtime.h they are made of.                                   *)
(*                                                                         *)
(* A process runs one `psc build` or `psc check` after another.  A step is *)
(* one system call that others can see: creating a directory, opening a    *)
(* file for writing (which truncates it), writing it, reading it whole,    *)
(* unlinking it, renaming it.  A process may be killed between any two.    *)
(*                                                                         *)
(* A command is its flags and the version of the sources it was started    *)
(* with.  Its key is what compute_cache_key hashes of it: of the flags not  *)
(* all, those of -D are missing, so two commands may share a key (Hashed). *)
(* The content of a bundle.c, of an artifact and of an entry is the        *)
(* command it was made for.  A .tmp file that a killed process leaves is   *)
(* forgotten: its name holds the process id, it is never read and only     *)
(* keeps an entry directory from being removed.                            *)
(*                                                                         *)
(* The builds are of one project: they write the C code into one           *)
(* {build_dir}/bundle.c, wherever the artifact goes.  (A --split build has *)
(* the files of {build_dir}/units in its place.)                           *)
(***************************************************************************)
EXTENDS FiniteSets

CONSTANTS
  Builds,    \* processes
  Flags,     \* what a command line fixes: profile, options, output kind, -D
  Checks,    \* the flags of `psc check`; the others are those of `psc build`
  Hashed,    \* Hashed[f]: what goes into the key of flags f
  Runs,      \* Runs[b]: the flags process b is started with
  Output,    \* Output[b]: the path where process b puts its artifact
  Versions,  \* versions of the sources
  Faulty,    \* versions with an error that sema reports
  Broken,    \* builds whose code cannot be generated, compiled or linked
  BundlesOverlap,     \* whether builds write bundle.c while another needs it
  EditsDuringBuilds,  \* whether the sources change while psc runs
  DiskFills,  \* whether the disk may be full while psc writes
  Absent,    \* there is no such file
  Partial    \* a file truncated or not yet written to the end

Commands == Flags \X Versions

KeyOf(c) == <<Hashed[c[1]], c[2]>>

Keys == {KeyOf(c) : c \in Commands}

\* The output kind is hashed, so no check shares its key with a build.
ASSUME BuildCacheAssumption ==
  /\ Checks \subseteq Flags
  /\ \A f, g \in Flags : Hashed[f] = Hashed[g] => (f \in Checks <=> g \in Checks)
  /\ \A b \in Builds : Runs[b] \subseteq Flags
  /\ Faulty \subseteq Versions
  /\ Broken \subseteq (Flags \ Checks) \X Versions
  /\ {BundlesOverlap, EditsDuringBuilds, DiskFills} \subseteq BOOLEAN

Outputs == {Output[b] : b \in Builds}

ASSUME FileAssumption ==
  /\ Absent # Partial
  /\ {Absent, Partial} \cap Commands = {}

Files == Commands \cup {Absent, Partial}

VARIABLES
  src,   \* the version of the sources on disk
  dirs,  \* keys whose entry directory exists
  app,   \* app[k]: the file {root}/{k}/app
  tmp,   \* tmp[b]: the file {root}/{Key(b)}/app.{pid}.tmp
  bundle,  \* the file {build_dir}/bundle.c of the project
  out,   \* out[o]: the artifact at path o
  pc,    \* where each process is
  cmd,   \* the command a process runs
  buf    \* what a process is about to write

vars == <<src, dirs, app, tmp, bundle, out, pc, cmd, buf>>

Finals == {"idle", "ok", "failed"}

TypeOK ==
  /\ src \in Versions
  /\ dirs \subseteq Keys
  /\ app \in [Keys -> Files]
  /\ tmp \in [Builds -> Files]
  /\ bundle \in Files
  /\ out \in [Outputs -> Files]
  /\ pc \in [Builds -> Finals \cup
               {"get", "open", "truncate", "copy", "sema", "bundle", "emit",
                "compile", "link", "linking", "mkdir", "read", "create",
                "write", "unlink", "rename"}]
  /\ cmd \in [Builds -> Commands \cup {Absent}]
  /\ \A b \in Builds : pc[b] # "idle" => cmd[b] \in Commands
  /\ buf \in [Builds -> Files]

\* An empty cache and no artifact.
Init ==
  /\ src \in Versions
  /\ dirs = {}
  /\ app = [k \in Keys |-> Absent]
  /\ tmp = [b \in Builds |-> Absent]
  /\ bundle = Absent
  /\ out = [o \in Outputs |-> Absent]
  /\ pc = [b \in Builds |-> "idle"]
  /\ cmd = [b \in Builds |-> Absent]
  /\ buf = [b \in Builds |-> Absent]

Key(b) == KeyOf(cmd[b])

Checking(b) == cmd[b][1] \in Checks

Goes(b, next) ==
  /\ pc' = [pc EXCEPT ![b] = next]
  /\ UNCHANGED cmd

Holds(b, file) == buf' = [buf EXCEPT ![b] = file]

\* What write_file leaves of a file.  The result of fwrite is not looked at,
\* so the caller learns nothing of a full disk.
Written(file) == {file} \cup IF DiskFills THEN {Partial} ELSE {}

\* The process has exited or been killed: only its files are left.
Dies(b, status) ==
  /\ Goes(b, status)
  /\ Holds(b, Absent)

-----------------------------------------------------------------------------
(* The sources and the processes.                                          *)

Edit ==
  /\ EditsDuringBuilds \/ \A b \in Builds : pc[b] \in Finals
  /\ \E v \in Versions : src' = v
  /\ pc' = [b \in Builds |-> IF pc[b] \in Finals THEN "idle" ELSE pc[b]]
  /\ cmd' = [b \in Builds |-> IF pc[b] \in Finals THEN Absent ELSE cmd[b]]
  /\ UNCHANGED <<dirs, app, tmp, bundle, out, buf>>

\* compute_cache_key: flags of the command and the bytes of every source.
Begins(b, f) ==
  /\ pc[b] \in Finals
  /\ f \in Runs[b]
  /\ cmd' = [cmd EXCEPT ![b] = <<f, src>>]
  /\ pc' = [pc EXCEPT ![b] = "get"]
  /\ UNCHANGED <<src, dirs, app, tmp, bundle, out, buf>>

\* The process is killed, with the compiler it runs; its files stay, and its
\* .tmp is forgotten.
Killed(b) ==
  /\ pc[b] \notin Finals
  /\ tmp' = [tmp EXCEPT ![b] = Absent]
  /\ pc' = [pc EXCEPT ![b] = "idle"]
  /\ cmd' = [cmd EXCEPT ![b] = Absent]
  /\ Holds(b, Absent)
  /\ UNCHANGED <<src, dirs, app, bundle, out>>

-----------------------------------------------------------------------------
(* The fast path.                                                          *)

\* cache.has: {k}/app is a regular file, and the check is over.
MarkerFound(b) ==
  /\ pc[b] = "get"
  /\ Checking(b)
  /\ app[Key(b)] # Absent
  /\ Dies(b, "ok")
  /\ UNCHANGED <<src, dirs, app, tmp, bundle, out>>

\* cache.get finds the file, or one of the two finds none.
Looks(b) ==
  /\ pc[b] = "get"
  /\ \/ app[Key(b)] = Absent /\ Goes(b, "sema")
     \/ app[Key(b)] # Absent /\ ~Checking(b) /\ Goes(b, "open")
  /\ UNCHANGED <<src, dirs, app, tmp, bundle, out, buf>>

HitVanishedFails(b) ==
  /\ pc[b] = "open"
  /\ app[Key(b)] = Absent
  /\ Dies(b, "failed")
  /\ UNCHANGED <<src, dirs, app, tmp, bundle, out>>

\* The entry went away after get: the driver compiles.
HitVanished(b) ==
  /\ pc[b] = "open"
  /\ app[Key(b)] = Absent
  /\ Goes(b, "sema")
  /\ UNCHANGED <<src, dirs, app, tmp, bundle, out, buf>>

\* copy_file(hit, artifact) reads the entry, then truncates and writes.
HitRead(b) ==
  /\ pc[b] = "open"
  /\ app[Key(b)] # Absent
  /\ Holds(b, app[Key(b)])
  /\ Goes(b, "truncate")
  /\ UNCHANGED <<src, dirs, app, tmp, bundle, out>>

HitTruncates(b) ==
  /\ pc[b] = "truncate"
  /\ out' = [out EXCEPT ![Output[b]] = Partial]
  /\ Goes(b, "copy")
  /\ UNCHANGED <<src, dirs, app, tmp, bundle, buf>>

\* The artifact is being executed and cannot be opened for writing: an
\* identical one counts as a hit, any other is built.
HitBusy(b) ==
  /\ pc[b] = "truncate"
  /\ out[Output[b]] \notin {Absent, Partial}
  /\ IF out[Output[b]] = app[Key(b)] THEN Dies(b, "ok")
                                     ELSE Goes(b, "sema") /\ Holds(b, Absent)
  /\ UNCHANGED <<src, dirs, app, tmp, bundle, out>>

HitCopied(b) ==
  /\ pc[b] = "copy"
  /\ \E file \in Written(buf[b]) : out' = [out EXCEPT ![Output[b]] = file]
  /\ Dies(b, "ok")
  /\ UNCHANGED <<src, dirs, app, tmp, bundle>>

-----------------------------------------------------------------------------
(* The slow path.                                                          *)

\* check_file reads the sources (again); its errors, code that cannot be
\* generated, or a bundle.c that cannot be created end the command.
Rejects(b) ==
  /\ pc[b] = "sema"
  /\ \/ src \in Faulty
     \/ <<cmd[b][1], src>> \in Broken
     \/ DiskFills /\ ~Checking(b)
  /\ Dies(b, "failed")
  /\ UNCHANGED <<src, dirs, app, tmp, bundle, out>>

\* What is to be made is fixed now: these flags, what sema has read.
Analyses(b) ==
  /\ pc[b] = "sema"
  /\ src \notin Faulty
  /\ Holds(b, <<cmd[b][1], src>>)
  /\ Goes(b, IF Checking(b) THEN "mkdir" ELSE "bundle")
  /\ UNCHANGED <<src, dirs, app, tmp, bundle, out>>

\* Between write_text of bundle.c and the compiler's reading of it.
NeedsBundle(b) == pc[b] \in {"emit", "compile"}

OpensBundle(b) ==
  /\ pc[b] = "bundle"
  /\ BundlesOverlap \/ \A c \in Builds : ~NeedsBundle(c)
  /\ bundle' = Partial
  /\ Goes(b, "emit")
  /\ UNCHANGED <<src, dirs, app, tmp, out, buf>>

WritesBundle(b) ==
  /\ pc[b] = "emit"
  /\ bundle' \in Written(buf[b])
  /\ Goes(b, "compile")
  /\ UNCHANGED <<src, dirs, app, tmp, out, buf>>

\* The C compiler reads bundle.c, whatever is there now.
ReadsBundle(b) ==
  /\ pc[b] = "compile"
  /\ Holds(b, bundle)
  /\ Goes(b, "link")
  /\ UNCHANGED <<src, dirs, app, tmp, bundle, out>>

\* The linker writes the artifact, not in one go.
Links(b) ==
  /\ pc[b] = "link"
  /\ out' = [out EXCEPT ![Output[b]] = Partial]
  /\ Goes(b, "linking")
  /\ UNCHANGED <<src, dirs, app, tmp, bundle, buf>>

\* A part of a bundle.c may make a part of an artifact.
Linked(b) ==
  /\ pc[b] = "linking"
  /\ buf[b] \notin Broken
  /\ out' = [out EXCEPT ![Output[b]] = buf[b]]
  /\ Goes(b, "mkdir")
  /\ UNCHANGED <<src, dirs, app, tmp, bundle, buf>>

\* The compiler fails before it touches the artifact, the linker removes it.
CompileFails(b) ==
  /\ pc[b] \in {"link", "linking"}
  /\ buf[b] \in Broken \cup {Partial}
  /\ out' = IF pc[b] = "link" THEN out ELSE [out EXCEPT ![Output[b]] = Absent]
  /\ Dies(b, "failed")
  /\ UNCHANGED <<src, dirs, app, tmp, bundle>>

-----------------------------------------------------------------------------
(* cache.put and cache.mark.  Their result is not looked at.               *)

MakesDir(b) ==
  /\ pc[b] = "mkdir"
  /\ dirs' = dirs \cup {Key(b)}
  /\ Goes(b, IF Checking(b) THEN "create" ELSE "read")
  /\ UNCHANGED <<src, app, tmp, bundle, out, buf>>

\* copy_file(artifact, tmp) reads the artifact, whatever is there now.
ReadsArtifact(b) ==
  /\ pc[b] = "read"
  /\ IF out[Output[b]] = Absent
       THEN Dies(b, "ok")
       ELSE Holds(b, out[Output[b]]) /\ Goes(b, "create")
  /\ UNCHANGED <<src, dirs, app, tmp, bundle, out>>

\* The directory has been removed under the process: nothing is stored.
CannotCreate(b) ==
  /\ pc[b] = "create"
  /\ Key(b) \notin dirs
  /\ Dies(b, "ok")
  /\ UNCHANGED <<src, dirs, app, tmp, bundle, out>>

\* A marker is empty, hence complete once it exists.
Creates(b) ==
  /\ pc[b] = "create"
  /\ Key(b) \in dirs
  /\ tmp' = [tmp EXCEPT ![b] = IF Checking(b) THEN buf[b] ELSE Partial]
  /\ Goes(b, IF Checking(b) THEN "unlink" ELSE "write")
  /\ UNCHANGED <<src, dirs, app, bundle, out, buf>>

\* What is written to an open file that has been unlinked is lost.
Writes(b) ==
  /\ pc[b] = "write"
  /\ \E file \in Written(buf[b]) :
       tmp' = [tmp EXCEPT ![b] = IF @ = Absent THEN Absent ELSE file]
  /\ Goes(b, "unlink")
  /\ UNCHANGED <<src, dirs, app, bundle, out, buf>>

RenamesBeforeWriting(b) ==
  /\ pc[b] \in {"write", "unlink"}
  /\ app' = [app EXCEPT ![Key(b)] = Absent]
  /\ Goes(b, "rename")
  /\ UNCHANGED <<src, dirs, tmp, bundle, out, buf>>

\* move_file with overwrite removes the target before it renames.
Unlinks(b) ==
  /\ pc[b] = "unlink"
  /\ app' = [app EXCEPT ![Key(b)] = Absent]
  /\ Goes(b, "rename")
  /\ UNCHANGED <<src, dirs, tmp, bundle, out, buf>>

\* When tmp is gone, rename fails, and so does the copy tried after it.
Renames(b) ==
  /\ pc[b] = "rename"
  /\ app' = IF tmp[b] = Absent THEN app ELSE [app EXCEPT ![Key(b)] = tmp[b]]
  /\ tmp' = [tmp EXCEPT ![b] = Absent]
  /\ Dies(b, "ok")
  /\ UNCHANGED <<src, dirs, bundle, out>>

-----------------------------------------------------------------------------
(* `psc gc` and --clear-cache: remove_dir deletes the files it has listed  *)
(* one by one, then the directory if it is empty.  Any entry may go.       *)

DeletesApp(k) ==
  /\ app[k] # Absent
  /\ app' = [app EXCEPT ![k] = Absent]
  /\ UNCHANGED <<src, dirs, tmp, bundle, out, pc, cmd, buf>>

DeletesTmp(b) ==
  /\ tmp[b] # Absent
  /\ tmp' = [tmp EXCEPT ![b] = Absent]
  /\ UNCHANGED <<src, dirs, app, bundle, out, pc, cmd, buf>>

DeletesDir(k) ==
  /\ k \in dirs
  /\ app[k] = Absent
  /\ \A b \in Builds : tmp[b] # Absent => Key(b) # k
  /\ dirs' = dirs \ {k}
  /\ UNCHANGED <<src, app, tmp, bundle, out, pc, cmd, buf>>

Collects ==
  \/ \E k \in Keys : DeletesApp(k) \/ DeletesDir(k)
  \/ \E b \in Builds : DeletesTmp(b)

-----------------------------------------------------------------------------
Hits(b) ==
  \/ MarkerFound(b) \/ Looks(b) \/ HitVanished(b) \/ HitRead(b)
  \/ HitTruncates(b) \/ HitBusy(b) \/ HitCopied(b)

Makes(b) ==
  \/ Rejects(b) \/ Analyses(b)
  \/ OpensBundle(b) \/ WritesBundle(b) \/ ReadsBundle(b)
  \/ Links(b) \/ Linked(b) \/ CompileFails(b)

Stores(b) ==
  \/ MakesDir(b) \/ ReadsArtifact(b) \/ CannotCreate(b) \/ Creates(b)
  \/ Writes(b) \/ Unlinks(b) \/ Renames(b)

Next ==
  \/ Edit
  \/ \E b \in Builds : \/ Killed(b) \/ Hits(b) \/ Makes(b) \/ Stores(b)
                       \/ \E f \in Flags : Begins(b, f)
  \/ Collects

Spec == Init /\ [][Next]_vars

-----------------------------------------------------------------------------
(* Properties.                                                             *)

\* File is a whole artifact, or marker, of a command with this key.
Fits(file, k) == file \in Commands \ Broken /\ KeyOf(file) = k

(* An entry is whole, was made by a command with its key, and only sources *)
(* without errors have one, whatever was killed or collected in the middle *)
(* of whatever: a hit gives what some build with this key would have given. *)
EntrySound ==
  \A k \in Keys : app[k] # Absent => Fits(app[k], k) /\ k[2] \notin Faulty

(* Kills, checks, `psc gc` and other builds change no answer but among     *)
(* commands that share a key (build.pengu:338-462): a command that fails   *)
(* has an error of its own, and one that succeeds has sources without      *)
(* errors and, a build, leaves an artifact of these sources, made with     *)
(* flags that hash like its own.                                           *)
AnswersRight ==
  \A b \in Builds :
    /\ pc[b] = "failed" => src \in Faulty \/ <<cmd[b][1], src>> \in Broken
    /\ pc[b] = "ok" => src \notin Faulty
    /\ pc[b] = "ok" /\ ~Checking(b) =>
         Fits(out[Output[b]], KeyOf(<<cmd[b][1], src>>))

(* The same where all that tells two builds apart is hashed: a build       *)
(* succeeds only if its own code compiles, and leaves its own artifact.    *)
AnswersOwn ==
  \A b \in Builds :
    pc[b] = "ok" /\ ~Checking(b) =>
      /\ out[Output[b]] = <<cmd[b][1], src>>
      /\ <<cmd[b][1], src>> \notin Broken

(* docs/BUILD_CACHE.md:103-104: "A crashed or concurrent build can leave a *)
(* .tmp file but never a truncated app."                                   *)
EntryWhole == \A k \in Keys : app[k] # Partial
=============================================================================
