--------------------------- MODULE BuildCache_proofs ---------------------------
(***************************************************************************)
(* Proofs about the build cache (module BuildCache), for any processes,    *)
(* flags, versions and output paths.                                       *)
(*                                                                         *)
(* What one process knows (Sound) is kept by its own steps because nobody  *)
(* else writes its .tmp file, its artifact or the bundle.c it is about to  *)
(* compile, and by the steps of others because the shared entries only     *)
(* ever hold what their key says (EntrySound).  The two invariants are     *)
(* therefore proved together, after the one that says who needs bundle.c   *)
(* (Alone).                                                                *)
(*                                                                         *)
(* The theorems name what they need and the code does not see to: that no  *)
(* two builds of the project need bundle.c at a time, that two processes   *)
(* do not write one output path, that the sources do not change while a    *)
(* command runs, and that the disk does not fill up.  Without any one of   *)
(* them TLC finds a violation.                                             *)
(***************************************************************************)
EXTENDS BuildCache, TLAPS

USE BuildCacheAssumption, FileAssumption

\* No two processes put their artifacts at one path.
OutputsDistinct == \A b, c \in Builds : Output[b] = Output[c] => b = c

\* What the user has to see to: see the four conditions above.
Undisturbed ==
  ~BundlesOverlap /\ ~EditsDuringBuilds /\ ~DiskFills /\ OutputsDistinct

\* All that tells two builds apart is hashed: nobody uses -D.
KeysTell == \A f, g \in Flags \ Checks : Hashed[f] = Hashed[g] => f = g

-----------------------------------------------------------------------------
(* Type correctness.                                                       *)

(* Entries, temporary files and artifacts are whole files, truncated files *)
(* or absent, and a process is always at a known place.                    *)
THEOREM TypeCorrect == Spec => []TypeOK
<1>1. Init => TypeOK
  BY DEF Init, TypeOK, Files, Finals
<1>2. TypeOK /\ [Next]_vars => TypeOK'
  <2> SUFFICES ASSUME TypeOK, [Next]_vars
               PROVE  TypeOK'
    OBVIOUS
  <2> USE DEF TypeOK, Finals
  <2>1. CASE Edit
    BY <2>1 DEF Edit
  <2>2. ASSUME NEW b \in Builds, NEW f \in Flags, Begins(b, f)
        PROVE  TypeOK'
    BY <2>2 DEF Begins, Commands
  <2>3. ASSUME NEW b \in Builds, Killed(b)
        PROVE  TypeOK'
    BY <2>3 DEF Killed, Holds, Files
  <2>4. ASSUME NEW b \in Builds, Hits(b)
        PROVE  TypeOK'
    <3>1. CASE MarkerFound(b) \/ Looks(b) \/ HitVanished(b)
      BY <3>1 DEF MarkerFound, Looks, HitVanished, Dies, Goes, Holds, Files
    <3>2. CASE HitRead(b)
      <4>1. Key(b) \in Keys
        BY <3>2 DEF HitRead, Key, Keys
      <4>2. app[Key(b)] \in Files
        BY <4>1
      <4>. QED BY <3>2, <4>2 DEF HitRead, Goes, Holds
    <3>3. CASE HitTruncates(b) \/ HitCopied(b) \/ HitBusy(b)
      <4>1. Output[b] \in Outputs
        BY DEF Outputs
      <4>. QED
        BY <3>3, <4>1 DEF HitTruncates, HitCopied, HitBusy, Written, Dies, Goes,
                      Holds, Files
    <3>. QED BY <2>4, <3>1, <3>2, <3>3 DEF Hits
  <2>5. ASSUME NEW b \in Builds, Makes(b)
        PROVE  TypeOK'
    <3>1. CASE Rejects(b)
      BY <3>1 DEF Rejects, Dies, Goes, Holds, Files
    <3>2. CASE Analyses(b)
      <4>1. <<cmd[b][1], src>> \in Files
        BY <3>2 DEF Analyses, Files, Commands
      <4>. QED BY <3>2, <4>1 DEF Analyses, Goes, Holds
    <3>3. CASE OpensBundle(b) \/ WritesBundle(b) \/ ReadsBundle(b)
      BY <3>3 DEF OpensBundle, WritesBundle, ReadsBundle, Written, Goes, Holds,
                  Files
    <3>4. CASE Links(b) \/ Linked(b) \/ CompileFails(b)
      BY <3>4 DEF Links, Linked, CompileFails, Dies, Goes, Holds, Files, Outputs
    <3>. QED BY <2>5, <3>1, <3>2, <3>3, <3>4 DEF Makes
  <2>6. ASSUME NEW b \in Builds, Stores(b)
        PROVE  TypeOK'
    <3>1. CASE MakesDir(b)
      <4>1. Key(b) \in Keys
        BY <3>1 DEF MakesDir, Key, Keys
      <4>. QED BY <3>1, <4>1 DEF MakesDir, Goes
    <3>2. CASE ReadsArtifact(b) \/ CannotCreate(b)
      BY <3>2 DEF ReadsArtifact, CannotCreate, Dies, Goes, Holds, Files, Outputs
    <3>3. CASE Creates(b) \/ Writes(b)
      BY <3>3 DEF Creates, Writes, Written, Goes, Files
    <3>4. CASE Unlinks(b) \/ Renames(b)
      BY <3>4 DEF Unlinks, Renames, Dies, Goes, Holds, Files
    <3>. QED BY <2>6, <3>1, <3>2, <3>3, <3>4 DEF Stores
  <2>7. CASE Collects
    BY <2>7 DEF Collects, DeletesApp, DeletesTmp, DeletesDir, Files
  <2>8. CASE UNCHANGED vars
    BY <2>8 DEF vars
  <2>. QED BY <2>1, <2>2, <2>3, <2>4, <2>5, <2>6, <2>7, <2>8 DEF Next
<1>. QED BY <1>1, <1>2, PTL DEF Spec

-----------------------------------------------------------------------------
(* Who needs bundle.c.                                                     *)

Alone == \A b, c \in Builds : NeedsBundle(b) /\ NeedsBundle(c) => b = c

LEMMA AloneCorrect ==
  ASSUME ~BundlesOverlap
  PROVE  Spec => []Alone
<1>1. Init => Alone
  BY DEF Init, Alone, NeedsBundle
<1>2. TypeOK /\ Alone /\ [Next]_vars => Alone'
  <2> SUFFICES ASSUME TypeOK, Alone, [Next]_vars
               PROVE  Alone'
    OBVIOUS
  <2> USE DEF Alone, NeedsBundle, TypeOK, Goes, Dies, Holds, Finals
  <2>1. ASSUME NEW b \in Builds, OpensBundle(b)
        PROVE  Alone'
    BY <2>1 DEF OpensBundle
  <2>2. ASSUME NEW b \in Builds, WritesBundle(b)
        PROVE  Alone'
    BY <2>2 DEF WritesBundle
  <2>3. CASE \A b \in Builds : NeedsBundle(b)' => NeedsBundle(b)
    BY <2>3
  <2>4. ASSUME NEW b \in Builds, Hits(b)
        PROVE  \A c \in Builds : NeedsBundle(c)' => NeedsBundle(c)
    BY <2>4 DEF Hits, MarkerFound, Looks, HitVanished, HitRead, HitTruncates,
                HitBusy, HitCopied
  <2>5. ASSUME NEW b \in Builds,
               \/ Rejects(b) \/ Analyses(b) \/ ReadsBundle(b)
               \/ Links(b) \/ Linked(b) \/ CompileFails(b)
        PROVE  \A c \in Builds : NeedsBundle(c)' => NeedsBundle(c)
    BY <2>5 DEF Rejects, Analyses, ReadsBundle, Links, Linked, CompileFails
  <2>6. ASSUME NEW b \in Builds, Stores(b)
        PROVE  \A c \in Builds : NeedsBundle(c)' => NeedsBundle(c)
    BY <2>6 DEF Stores, MakesDir, ReadsArtifact, CannotCreate, Creates, Writes,
                Unlinks, Renames
  <2>7. CASE Edit \/ \E b \in Builds : Killed(b) \/ \E f \in Flags : Begins(b, f)
    BY <2>3, <2>7 DEF Edit, Killed, Begins
  <2>8. CASE Collects \/ UNCHANGED vars
    BY <2>8 DEF Collects, DeletesApp, DeletesTmp, DeletesDir, vars
  <2>. QED
    BY <2>1, <2>2, <2>3, <2>4, <2>5, <2>6, <2>7, <2>8 DEF Next, Makes
<1>. QED BY <1>1, <1>2, TypeCorrect, PTL DEF Spec

-----------------------------------------------------------------------------
(* What one process knows.                                                 *)

\* Places a command reaches only if sema has passed these sources, or an
\* entry for them exists.
Vetted == {"truncate", "copy", "bundle", "emit", "compile", "link", "linking",
           "mkdir", "read", "create", "write", "unlink", "rename", "ok"}

\* Places at which the artifact has been linked or copied.
Made == {"mkdir", "read", "create", "write", "unlink", "rename", "ok"}

Sound(b) ==
  /\ pc[b] # "idle" => cmd[b][2] = src
  /\ pc[b] \in {"open", "truncate", "copy", "bundle", "emit", "compile", "link",
                "linking", "read", "write"} => ~Checking(b)
  /\ pc[b] \in Vetted => src \notin Faulty
  /\ pc[b] = "failed" => src \in Faulty \/ cmd[b] \in Broken
  /\ pc[b] \in {"truncate", "copy", "create", "write"} => Fits(buf[b], Key(b))
  /\ pc[b] = "mkdir" /\ Checking(b) => Fits(buf[b], Key(b))
  /\ pc[b] \in {"bundle", "emit", "link", "linking"} => buf[b] = cmd[b]
  /\ pc[b] = "compile" => bundle = cmd[b]
  /\ pc[b] \in {"unlink", "rename"} => tmp[b] = Absent \/ Fits(tmp[b], Key(b))
  /\ pc[b] \in Made /\ ~Checking(b) => Fits(out[Output[b]], Key(b))

AllSound == \A b \in Builds : Sound(b)

\* What a step of process b leaves alone.
Frame(b) ==
  /\ src' = src
  /\ \A c \in Builds \ {b} :
       /\ pc'[c] = pc[c] /\ cmd'[c] = cmd[c]
       /\ buf'[c] = buf[c] /\ tmp'[c] = tmp[c]
       /\ NeedsBundle(c) => bundle' = bundle
  /\ \A o \in Outputs \ {Output[b]} : out'[o] = out[o]

\* Such a step takes no other process's knowledge away.
LEMMA OthersStaySound ==
  ASSUME OutputsDistinct, AllSound, NEW b \in Builds, Frame(b), Sound(b)'
  PROVE  AllSound'
<1>1. ASSUME NEW c \in Builds \ {b}
      PROVE  Sound(c)'
  <2>1. out'[Output[c]] = out[Output[c]]
    BY DEF OutputsDistinct, Frame, Outputs
  <2>. QED BY <2>1 DEF Frame, AllSound, Sound, Checking, Key, NeedsBundle
<1>. QED BY <1>1 DEF AllSound

\* Every step of a process is one; TypeOK makes the updates take effect.
LEMMA StepFrames ==
  ASSUME ~BundlesOverlap, Alone, TypeOK, NEW b \in Builds,
         \/ \E f \in Flags : Begins(b, f)
         \/ Killed(b) \/ Hits(b) \/ Makes(b) \/ Stores(b)
  PROVE  Frame(b)
<1> USE DEF Frame, TypeOK, Goes, Dies, Holds
<1>1. CASE \E f \in Flags : Begins(b, f)
  BY <1>1 DEF Begins
<1>2. CASE Killed(b)
  BY <1>2 DEF Killed
<1>3. CASE Hits(b)
  BY <1>3 DEF Hits, MarkerFound, Looks, HitVanished, HitRead, HitTruncates,
              HitBusy, HitCopied
<1>4. CASE Makes(b)
  <2>1. CASE OpensBundle(b)
    BY <2>1 DEF OpensBundle
  <2>2. CASE WritesBundle(b)
    BY <2>2 DEF WritesBundle, Alone, NeedsBundle
  <2>3. CASE ~OpensBundle(b) /\ ~WritesBundle(b)
    BY <1>4, <2>3 DEF Makes, Rejects, Analyses, ReadsBundle, Links, Linked,
                      CompileFails
  <2>. QED BY <2>1, <2>2, <2>3
<1>5. CASE Stores(b)
  BY <1>5 DEF Stores, MakesDir, ReadsArtifact, CannotCreate, Creates, Writes,
              Unlinks, Renames
<1>. QED BY <1>1, <1>2, <1>3, <1>4, <1>5

\* A process that starts or is killed knows what it has to.
LEMMA StartsSound ==
  ASSUME TypeOK, NEW b \in Builds,
         Killed(b) \/ \E f \in Flags : Begins(b, f)
  PROVE  Sound(b)'
  BY DEF Killed, Begins, Sound, Vetted, Made, TypeOK

\* The fast path: an entry that exists is what its key says.
LEMMA HitsSound ==
  ASSUME ~DiskFills, TypeOK, EntrySound, NEW b \in Builds, Sound(b), Hits(b)
  PROVE  Sound(b)'
<1> USE DEF Sound, Vetted, Made, Checking, Key, TypeOK, Goes, Dies, Holds
<1>1. pc[b] # "idle" => Key(b) \in Keys /\ Key(b)[2] = src
  BY DEF Keys, KeyOf
<1>2. CASE MarkerFound(b)
  BY <1>1, <1>2 DEF MarkerFound, EntrySound
<1>3. CASE Looks(b) \/ HitVanished(b)
  BY <1>3 DEF Looks, HitVanished
<1>4. CASE HitRead(b)
  BY <1>1, <1>4 DEF HitRead, EntrySound
<1>5. CASE HitTruncates(b)
  BY <1>5 DEF HitTruncates
<1>6. CASE HitBusy(b)
  BY <1>1, <1>6 DEF HitBusy, EntrySound
<1>7. CASE HitCopied(b)
  <2>1. Output[b] \in Outputs
    BY DEF Outputs
  <2>. QED BY <1>7, <2>1 DEF HitCopied, Written
<1>. QED BY <1>2, <1>3, <1>4, <1>5, <1>6, <1>7 DEF Hits

\* The slow path: what is made is what the command asks for.
LEMMA MakesSound ==
  ASSUME ~DiskFills, TypeOK, NEW b \in Builds, Sound(b), Makes(b)
  PROVE  Sound(b)'
<1> USE DEF Sound, Vetted, Made, Checking, Key, TypeOK, Goes, Dies, Holds
<1>1. pc[b] # "idle" => cmd[b] = <<cmd[b][1], src>>
  BY DEF Commands
<1>2. CASE Rejects(b)
  BY <1>1, <1>2 DEF Rejects
<1>3. CASE Analyses(b)
  <2>1. Checking(b) => Fits(cmd[b], Key(b))
    BY <1>3 DEF Analyses, Fits
  <2>. QED BY <1>1, <1>3, <2>1 DEF Analyses
<1>4. CASE OpensBundle(b) \/ WritesBundle(b) \/ ReadsBundle(b)
  BY <1>4 DEF OpensBundle, WritesBundle, ReadsBundle, Written
<1>5. CASE Links(b) \/ Linked(b)
  <2>1. Output[b] \in Outputs
    BY DEF Outputs
  <2>. QED BY <1>5, <2>1 DEF Links, Linked, Fits
<1>6. CASE CompileFails(b)
  <2>1. cmd[b] # Partial
    BY <1>6 DEF CompileFails
  <2>. QED BY <1>6, <2>1 DEF CompileFails
<1>. QED BY <1>2, <1>3, <1>4, <1>5, <1>6 DEF Makes

\* Storing: the temporary file is complete, or gone, when it is renamed.
LEMMA StoresSound ==
  ASSUME ~DiskFills, TypeOK, NEW b \in Builds, Sound(b), Stores(b)
  PROVE  Sound(b)'
<1> USE DEF Sound, Vetted, Made, Checking, Key, TypeOK, Goes, Dies, Holds
<1>1. CASE MakesDir(b) \/ ReadsArtifact(b) \/ CannotCreate(b)
  BY <1>1 DEF MakesDir, ReadsArtifact, CannotCreate
<1>2. CASE Creates(b) \/ Writes(b)
  BY <1>2 DEF Creates, Writes, Written
<1>3. CASE Unlinks(b) \/ Renames(b)
  BY <1>3 DEF Unlinks, Renames
<1>. QED BY <1>1, <1>2, <1>3 DEF Stores

LEMMA SoundInductive ==
  ASSUME Undisturbed
  PROVE  AllSound /\ Alone /\ EntrySound /\ TypeOK /\ [Next]_vars => AllSound'
<1> SUFFICES ASSUME AllSound, Alone, EntrySound, TypeOK, [Next]_vars
             PROVE  AllSound'
  OBVIOUS
<1> USE DEF Undisturbed
<1>1. CASE Edit
  <2>1. \A b \in Builds : pc'[b] = "idle"
    BY <1>1 DEF Edit
  <2>. QED BY <2>1 DEF AllSound, Sound, Vetted, Made
<1>2. ASSUME NEW b \in Builds,
             \/ Killed(b) \/ Hits(b) \/ Makes(b) \/ Stores(b)
             \/ \E f \in Flags : Begins(b, f)
      PROVE  AllSound'
  <2>1. Sound(b)
    BY DEF AllSound
  <2>2. Sound(b)'
    BY <1>2, <2>1, StartsSound, HitsSound, MakesSound, StoresSound
  <2>. QED BY <1>2, <2>2, StepFrames, OthersStaySound
<1>3. CASE Collects
  <2>1. /\ UNCHANGED <<src, bundle, out, pc, cmd, buf>>
        /\ \A b \in Builds : tmp'[b] \in {tmp[b], Absent}
    BY <1>3 DEF Collects, DeletesApp, DeletesTmp, DeletesDir, TypeOK
  <2>. QED BY <2>1 DEF AllSound, Sound, Checking, Key
<1>4. CASE UNCHANGED vars
  BY <1>4 DEF vars, AllSound, Sound, Checking, Key
<1>. QED BY <1>1, <1>2, <1>3, <1>4 DEF Next

\* Only a rename adds to the shared entries, and what it adds is complete.
LEMMA EntrySoundInductive ==
  AllSound /\ EntrySound /\ TypeOK /\ [Next]_vars => EntrySound'
<1> SUFFICES ASSUME AllSound, EntrySound, TypeOK, [Next]_vars
             PROVE  EntrySound'
  OBVIOUS
<1>1. ASSUME NEW b \in Builds, Renames(b)
      PROVE  EntrySound'
  <2>1. /\ Key(b)[2] = src /\ src \notin Faulty
        /\ tmp[b] = Absent \/ Fits(tmp[b], Key(b))
    BY <1>1 DEF AllSound, Sound, Vetted, Renames, Key, KeyOf
  <2>. QED BY <1>1, <2>1 DEF Renames, EntrySound, TypeOK
<1>2. ASSUME NEW b \in Builds, Unlinks(b)
      PROVE  EntrySound'
  BY <1>2 DEF Unlinks, EntrySound, TypeOK
<1>3. CASE Collects
  BY <1>3 DEF Collects, DeletesApp, DeletesTmp, DeletesDir, EntrySound, TypeOK
<1>4. CASE app' = app
  BY <1>4 DEF EntrySound
<1>. QED
  BY <1>1, <1>2, <1>3, <1>4 DEF Next, Edit, Begins, Killed, Hits, Makes, Stores,
     MarkerFound, Looks, HitVanished, HitRead, HitTruncates, HitBusy,
     HitCopied, Rejects, Analyses, OpensBundle, WritesBundle, ReadsBundle,
     Links, Linked, CompileFails, MakesDir, ReadsArtifact, CannotCreate,
     Creates, Writes, vars

LEMMA CacheSound ==
  ASSUME Undisturbed
  PROVE  Spec => [](AllSound /\ EntrySound)
<1>1. Init => AllSound /\ EntrySound
  BY DEF Init, AllSound, Sound, Vetted, Made, EntrySound
<1>2. AllSound /\ Alone /\ EntrySound /\ TypeOK /\ [Next]_vars => AllSound'
  BY SoundInductive
<1>3. Spec => []Alone
  BY AloneCorrect DEF Undisturbed
<1>. QED BY <1>1, <1>2, <1>3, EntrySoundInductive, TypeCorrect, PTL DEF Spec

(* Any number of processes that build and check, are killed and collected  *)
(* between any two system calls, never leave an entry that is truncated,   *)
(* is not what its key says, or stands for sources with an error, if the   *)
(* four conditions hold.  -D flags that share a key are allowed for.       *)
THEOREM EntrySoundCorrect ==
  ASSUME Undisturbed
  PROVE  Spec => []EntrySound
BY CacheSound, PTL

(* The cache changes no answer but among builds that share a key: a        *)
(* command that fails has an error of its own, in sema or in the C         *)
(* compiler, and a build that succeeds leaves an artifact of its sources   *)
(* with flags that hash like its own.                                      *)
THEOREM AnswersRightCorrect ==
  ASSUME Undisturbed
  PROVE  Spec => []AnswersRight
<1>1. AllSound /\ TypeOK => AnswersRight
  <2> SUFFICES ASSUME TypeOK, AllSound, NEW b \in Builds
               PROVE  /\ pc[b] = "failed" =>
                           src \in Faulty \/ <<cmd[b][1], src>> \in Broken
                      /\ pc[b] = "ok" => src \notin Faulty
                      /\ pc[b] = "ok" /\ ~Checking(b) =>
                           Fits(out[Output[b]], KeyOf(<<cmd[b][1], src>>))
    BY DEF AnswersRight
  <2>1. Sound(b)
    BY DEF AllSound
  <2>2. pc[b] # "idle" => cmd[b] = <<cmd[b][1], src>>
    BY <2>1 DEF Sound, TypeOK, Commands
  <2>. QED BY <2>1, <2>2 DEF Sound, Vetted, Made, Key
<1>. QED BY <1>1, CacheSound, TypeCorrect, PTL

(* If moreover all that tells two builds apart is hashed, which -D flags   *)
(* break, every build that succeeds leaves the very artifact it asked for, *)
(* and one whose code does not compile does not succeed.                   *)
THEOREM AnswersOwnCorrect ==
  ASSUME Undisturbed, KeysTell
  PROVE  Spec => []AnswersOwn
<1>1. AnswersRight /\ TypeOK => AnswersOwn
  <2> SUFFICES ASSUME TypeOK, AnswersRight, NEW b \in Builds,
                      pc[b] = "ok", ~Checking(b)
               PROVE  /\ out[Output[b]] = <<cmd[b][1], src>>
                      /\ <<cmd[b][1], src>> \notin Broken
    BY DEF AnswersOwn
  <2>1. Fits(out[Output[b]], KeyOf(<<cmd[b][1], src>>))
    BY DEF AnswersRight
  <2>2. PICK g \in Flags, v \in Versions : out[Output[b]] = <<g, v>>
    BY <2>1 DEF Fits, Commands
  <2>3. Hashed[g] = Hashed[cmd[b][1]] /\ v = src
    BY <2>1, <2>2 DEF Fits, KeyOf
  <2>4. cmd[b][1] \in Flags \ Checks
    BY DEF TypeOK, Commands, Checking
  <2>5. g = cmd[b][1]
    BY <2>3, <2>4, BuildCacheAssumption DEF KeysTell
  <2>. QED BY <2>1, <2>2, <2>3, <2>5 DEF Fits
<1>. QED BY <1>1, AnswersRightCorrect, TypeCorrect, PTL
=============================================================================
