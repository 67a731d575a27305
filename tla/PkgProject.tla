----------------------------- MODULE PkgProject -----------------------------
(***************************************************************************)
(* The packages of a PenguScript project: psc add, remove, update, upgrade *)
(* and verify (src/src/psc/cmd/deps.pengu) and the dependency section of   *)
(* psc build (src/src/psc/driver/build.pengu), with the resolver, the      *)
(* installer and the writers of pengu.toml and pengu.lock under            *)
(* src/src/psc/pkg/.                                                       *)
(*                                                                         *)
(* A command is the list of the steps it still has to take; a step is one  *)
(* change on disk, or the visit of one entry of the resolver's queue.  A   *)
(* step that fails replaces the list by what the code does on that path.   *)
(* A command may be killed between any two steps: the three things on disk *)
(* stay, the rest is lost.  move_file with overwrite unlinks the target    *)
(* before it renames (src/pengu_runtime.h:4080), so a file is replaced in  *)
(* two steps, and remove_dir deletes a directory bit by bit.               *)
(*                                                                         *)
(* A tree is what a package directory holds, .git included.  Of a tree the *)
(* lock has the commit and a hash that leaves out lib, build and a few     *)
(* more (src/src/psc/pkg/lock.pengu:50-63); the records below keep the     *)
(* tree itself and are compared by Hash.  A build.pengu runs in its own    *)
(* package directory and writes there only, and not in pengu.toml.  A spec *)
(* is an entry of a manifest without its name: source, ref and constraint. *)
(* The staging and backup directories are deleted before they are used, so *)
(* what a killed command leaves in them is forgotten.  pengu.toml holds    *)
(* its dependencies in one [dependencies] section.                         *)
(***************************************************************************)
EXTENDS Sequences, Functions

CONSTANTS
  Names,     \* names of package directories
  Specs,     \* specs of the manifests of the project and of the packages
  Trees,     \* contents of package directories, half deleted ones included
  Versions,  \* texts of versions and tags
  Fetched,   \* Fetched[s]: the trees that an installation of s may bring
  Told,      \* Told[s]: the tag that s resolves to, None without a tag
  Accepts,   \* Accepts[s]: the versions that satisfy the constraint of s
  Version,   \* Version[t]: the version that pengu.toml of t declares
  Needs,     \* Needs[t]: the dependencies that pengu.toml of t declares
  Import,    \* Import[t]: the import name that it declares, or None
  Remains,   \* Remains[t]: what deleting a part of t may leave, None at last
  Builds,    \* Builds[t]: what runs of the build.pengu in t may make of t
  Hash,      \* Hash[t]: the commit and the hash that the lock has of t
  Offers,    \* what the user may add, and with which options: the name is
             \* explicit with --name, and rebuild stands for --rebuild
  Failures,  \* the steps that may fail
  Kills,     \* whether commands are killed
  None

Packages == [version : Versions, tree : Trees, spec : Specs]
Entries  == [name : Names, spec : Specs]

ASSUME PkgAssumption ==
  /\ None \notin Names \cup Specs \cup Trees \cup Versions
  /\ Fetched \in [Specs -> SUBSET Trees]
  /\ Told \in [Specs -> Versions \cup {None}]
  /\ Accepts \in [Specs -> SUBSET Versions]
  /\ Version \in [Trees -> Versions]
  /\ Needs \in [Trees -> Seq(Entries)]
  /\ Import \in [Trees -> Names \cup {None}]
  /\ Remains \in [Trees -> SUBSET (Trees \cup {None})]
  /\ Offers \subseteq [name : Names, spec : Specs,
                      explicit : BOOLEAN, rebuild : BOOLEAN]
  /\ Failures \subseteq {"fetch", "move", "script", "manifest", "lock"}
  /\ Kills \in BOOLEAN

\* A build.pengu does not touch pengu.toml, which the hash covers.
ASSUME BuildAssumption ==
  /\ Builds \in [Trees -> SUBSET Trees]
  /\ \A t \in Trees : \A u \in Builds[t] : Builds[u] \subseteq Builds[t]
  /\ DOMAIN Hash = Trees
  /\ \A t, u \in Trees :
       u \in Builds[t] \/ Hash[u] = Hash[t] =>
         Version[u] = Version[t] /\ Needs[u] = Needs[t] /\ Import[u] = Import[t]

VARIABLES
  manifest,  \* pengu.toml: its dependencies in order; None without the file
  lock,      \* pengu.lock: the package of each name; None without the file
  lib,       \* lib[n]: the directory lib/n, None without it
  cmd,       \* the command that runs, None without one
  todo,      \* the steps it has left
  draft,     \* what it is about to rename to pengu.toml
  queue,     \* the resolver's queue, from the entry it visits on
  graph,     \* the packages resolved so far
  stage,     \* the staged tree and its version, None without one
  settled,   \* whether the last command that may change the project wrote
             \* or deleted the lock and succeeded
  outcome    \* the last command and its result, None if it was killed

vars == <<manifest, lock, lib, cmd, todo, draft, queue, graph, stage,
          settled, outcome>>
disk == <<manifest, lock, lib>>
plan == <<queue, graph, stage>>
seen == <<settled, outcome>>

NoPackage == [n \in {} |-> None]

Nothing == [n \in Names |-> None]

Init ==
  /\ manifest = <<>>
  /\ lock = None
  /\ lib = Nothing
  /\ cmd = None
  /\ todo = <<>>
  /\ draft = None
  /\ queue = <<>>
  /\ graph = NoPackage
  /\ stage = None
  /\ settled = FALSE
  /\ outcome = None

-----------------------------------------------------------------------------
(* Commands.                                                               *)

ReadOnly == {"locked", "verify"}

\* The entries but that of n: a name has at most one.
Without(m, n) ==
  IF \E i \in DOMAIN m : m[i].name = n
  THEN LET i == CHOOSE i \in DOMAIN m : m[i].name = n
       IN  [j \in 1..(Len(m) - 1) |-> IF j < i THEN m[j] ELSE m[j + 1]]
  ELSE m

\* manifest.upsert puts the entry first.
With(m, n, s) == <<[name |-> n, spec |-> s]>> \o Without(m, n)

\* add remembers the manifest, and whether the package was installed.
Starts(kind, name, spec, force, steps) ==
  /\ cmd = None
  /\ manifest # None
  /\ cmd' = [kind |-> kind, name |-> name, as |-> name, spec |-> spec,
             force |-> force, result |-> "ok",
             before |-> IF kind = "add" THEN manifest ELSE <<>>,
             found |-> IF kind = "add" THEN lib ELSE Nothing]
  /\ todo' = steps
  /\ outcome' = None
  /\ settled' = (settled /\ kind \in ReadOnly)
  /\ UNCHANGED <<disk, draft, plan>>

Add(o) ==
  Starts("add", o.name, o.spec, o.rebuild,
         IF o.explicit THEN <<"stash", "put", "sync">>
         ELSE <<"stash", "put", "sync", "adopt">>)

Remove(n, keepFiles) ==
  Starts("remove", n, None, FALSE,
         IF keepFiles THEN <<"drop", "sync">> ELSE <<"drop", "delete", "sync">>)

Update == Starts("update", None, None, TRUE, <<"sync">>)

Upgrade(n, s) ==
  /\ manifest # None
  /\ \E d \in Range(manifest) : d.name = n
  /\ Starts("upgrade", n, s, TRUE, <<"put", "delete", "sync">>)

\* Without dependencies the driver skips the whole section: a build changes
\* nothing here, and build --locked is accepted without a look at the lock.
Build ==
  /\ manifest # <<>>
  /\ Starts("build", None, None, FALSE, <<"resolve">>)

BuildLocked ==
  Starts("locked", None, None, FALSE,
         IF manifest = <<>> THEN <<>> ELSE <<"resolve">>)

Verify == Starts("verify", None, None, FALSE, <<"inspect">>)

At(step) == todo # <<>> /\ Head(todo) = step

Goes(steps) ==
  /\ todo' = steps
  /\ UNCHANGED <<cmd, seen>>

Passes == Goes(Tail(todo))

\* The step it is at goes on with another one.
Turns(step) == Goes([todo EXCEPT ![1] = step])

Forgets ==
  /\ queue' = <<>>
  /\ graph' = NoPackage
  /\ stage' = None

\* The command reports an error; what it undoes first is its rollback.
FailsWith(rollback) ==
  /\ cmd' = [cmd EXCEPT !.result = "failed"]
  /\ todo' = rollback
  /\ Forgets
  /\ UNCHANGED seen

FailsDirty ==
  FailsWith(IF cmd.kind = "add" THEN <<"delete", "unstash">> ELSE <<>>)

Fails ==
  FailsWith(IF cmd.kind = "add" THEN <<"restore", "delete", "unstash">>
            ELSE <<>>)

\* A write or a rename whose result the command does not look at.  If it was
\* part of the rollback, something is not what it was.
GivesUp ==
  /\ cmd' = [cmd EXCEPT !.result = IF @ = "failed" THEN "unrestored" ELSE @]
  /\ todo' = Tail(todo)
  /\ UNCHANGED seen

Finish ==
  /\ cmd # None
  /\ todo = <<>>
  /\ outcome' = [kind |-> cmd.kind, name |-> cmd.as, spec |-> cmd.spec,
                 ok |-> cmd.result \in {"ok", "unlocked"}]
  /\ settled' = IF cmd.kind \in ReadOnly THEN settled ELSE cmd.result = "ok"
  /\ cmd' = None
  /\ UNCHANGED <<disk, todo, draft, plan>>

Killed ==
  /\ Kills
  /\ cmd # None
  /\ cmd' = None
  /\ todo' = <<>>
  /\ draft' = None
  /\ Forgets
  /\ settled' = (settled /\ cmd.kind \in ReadOnly)
  /\ UNCHANGED <<disk, outcome>>

\* The project is checked out again: lib is not under version control.
Checkout ==
  /\ cmd = None
  /\ lib' = Nothing
  /\ settled' = FALSE
  /\ outcome' = None
  /\ UNCHANGED <<manifest, lock, cmd, todo, draft, plan>>

-----------------------------------------------------------------------------
(* pengu.toml.                                                             *)

\* The new text is in pengu.toml.tmp, and pengu.toml is unlinked.
Unlinks(new) ==
  /\ draft' = new
  /\ manifest' = None
  /\ Turns("publish")
  /\ UNCHANGED <<lock, lib, plan>>

Put  == At("put")  /\ Unlinks(With(manifest, cmd.as, cmd.spec))
Drop == At("drop") /\ Unlinks(Without(manifest, cmd.name))

\* write_text opens the file, which truncates it.
Restore ==
  /\ At("restore")
  /\ draft' = cmd.before
  /\ manifest' = <<>>
  /\ Turns("publish")
  /\ UNCHANGED <<lock, lib, plan>>

\* The file cannot be opened, or not be written to the end.
RestoreFails ==
  /\ "manifest" \in Failures
  /\ At("restore")
  /\ \/ UNCHANGED manifest
     \/ \E k \in 0..Len(cmd.before) : manifest' = SubSeq(cmd.before, 1, k)
  /\ GivesUp
  /\ UNCHANGED <<lock, lib, draft, plan>>

Publish ==
  /\ At("publish")
  /\ manifest' = draft
  /\ draft' = None
  /\ Passes
  /\ UNCHANGED <<lock, lib, plan>>

\* pengu.toml.tmp cannot be written.  run_add gives the package its place
\* back, and does not look at the result once it has adopted a name.
EditFails ==
  /\ "manifest" \in Failures
  /\ At("put") \/ At("drop")
  /\ IF cmd.as # cmd.name
     THEN Passes /\ UNCHANGED plan
     ELSE FailsWith(IF cmd.kind = "add" THEN <<"unstash">> ELSE <<>>)
  /\ UNCHANGED <<disk, draft>>

-----------------------------------------------------------------------------
(* Package directories.                                                    *)

Has(n, t) == lib' = [lib EXCEPT ![n] = t]

\* run_add renames the installed package to .psc-backup-name.
Stash ==
  /\ At("stash")
  /\ Has(cmd.name, None)
  /\ Passes
  /\ UNCHANGED <<manifest, lock, draft, plan>>

StashFails ==
  /\ "move" \in Failures
  /\ At("stash")
  /\ lib[cmd.name] # None
  /\ FailsWith(<<>>)
  /\ UNCHANGED <<disk, draft>>

\* Nothing is renamed to a directory that is still there.
Unstash ==
  /\ At("unstash")
  /\ IF lib[cmd.name] = None
     THEN Has(cmd.name, cmd.found[cmd.name])
     ELSE UNCHANGED lib
  /\ Passes
  /\ UNCHANGED <<manifest, lock, draft, plan>>

UnstashFails ==
  /\ "move" \in Failures
  /\ At("unstash")
  /\ cmd.found[cmd.name] # None
  /\ GivesUp
  /\ UNCHANGED <<disk, draft, plan>>

\* One step of remove_dir.
Erodes(n) ==
  /\ lib[n] # None
  /\ \E t \in Remains[lib[n]] : Has(n, t)
  /\ UNCHANGED <<manifest, lock, cmd, todo, draft, plan, seen>>

Delete ==
  /\ At("delete")
  /\ \/ Erodes(cmd.name)
     \/ /\ lib[cmd.name] = None
        /\ Passes
        /\ UNCHANGED <<disk, draft, plan>>

DeleteFails ==
  /\ "move" \in Failures
  /\ At("delete")
  /\ lib[cmd.name] # None
  /\ GivesUp
  /\ UNCHANGED <<disk, draft, plan>>

AdoptsUnsynced ==
  /\ At("adopt")
  /\ LET i == IF lib[cmd.name] = None THEN None ELSE Import[lib[cmd.name]]
     IN  IF i \in Names \ {cmd.name} /\ lib[i] = None
         THEN /\ lib' = [lib EXCEPT ![i] = lib[cmd.name], ![cmd.name] = None]
              /\ cmd' = [cmd EXCEPT !.as = i, !.force = FALSE]
              /\ todo' = <<"drop", "put">>
              /\ UNCHANGED <<manifest, lock, draft, plan, seen>>
         ELSE Passes /\ UNCHANGED <<disk, draft, plan>>

\* adopt_import_name: lib/name becomes lib/<import>, and run_add enters it
\* under that name and synchronises again.
Adopt ==
  /\ At("adopt")
  /\ LET i == IF lib[cmd.name] = None THEN None ELSE Import[lib[cmd.name]]
     IN  IF i \in Names \ {cmd.name} /\ lib[i] = None
         THEN /\ lib' = [lib EXCEPT ![i] = lib[cmd.name], ![cmd.name] = None]
              /\ cmd' = [cmd EXCEPT !.as = i, !.force = FALSE]
              /\ todo' = <<"drop", "put", "sync">>
              /\ UNCHANGED <<manifest, lock, draft, plan, seen>>
         ELSE Passes /\ UNCHANGED <<disk, draft, plan>>

\* The directory cannot be renamed: the package keeps its name.
AdoptFails ==
  /\ "move" \in Failures
  /\ At("adopt")
  /\ Passes
  /\ UNCHANGED <<disk, draft, plan>>

-----------------------------------------------------------------------------
(* The resolver.                                                           *)

\* sync: without dependencies the lock is deleted and the command is done.
Sync ==
  /\ At("sync")
  /\ IF manifest = <<>>
     THEN lock' = None /\ Passes
     ELSE Turns("resolve") /\ UNCHANGED lock
  /\ UNCHANGED <<manifest, lib, draft, plan>>

Resolve ==
  /\ At("resolve")
  /\ queue' = manifest
  /\ Turns("visit")
  /\ UNCHANGED <<disk, draft, graph, stage>>

Visited == Head(queue)

\* The package of the visited entry enters the graph with what lib holds,
\* and what it needs enters the queue.
Enters(version) ==
  LET n == Visited.name
      p == [version |-> version, tree |-> lib'[n], spec |-> Visited.spec]
  IN  /\ graph' = [m \in DOMAIN graph \cup {n} |->
                     IF m = n THEN p ELSE graph[m]]
      /\ queue' = Tail(queue) \o Needs[lib'[n]]
      /\ stage' = None

AtEntry == At("visit") /\ queue # <<>>

VisitKnownGladly ==
  /\ AtEntry
  /\ Visited.name \in DOMAIN graph
  /\ Goes(todo)
  /\ queue' = Tail(queue)
  /\ UNCHANGED <<disk, draft, graph, stage>>

VisitKnown ==
  /\ AtEntry
  /\ Visited.name \in DOMAIN graph
  /\ IF graph[Visited.name].version \in Accepts[Visited.spec]
     THEN Goes(todo) /\ queue' = Tail(queue) /\ UNCHANGED <<graph, stage>>
     ELSE Fails
  /\ UNCHANGED <<disk, draft>>

\* ensure: an installed package is left alone if its version will do.
Suits ==
  /\ lib[Visited.name] # None
  /\ Version[lib[Visited.name]] \in Accepts[Visited.spec]

MustInstallUnforced == ~Suits

MustInstall == cmd.force \/ ~Suits

VisitInstalled ==
  /\ AtEntry
  /\ Visited.name \notin DOMAIN graph
  /\ ~MustInstall
  /\ Goes(todo)
  /\ UNCHANGED <<disk, draft>>
  /\ Enters(Version[lib[Visited.name]])

\* install_from: the version is the tag, or else what the tree declares, and
\* is checked in the staging directory.
Fetch(t) ==
  /\ AtEntry
  /\ Visited.name \notin DOMAIN graph
  /\ MustInstall
  /\ cmd.kind # "locked"
  /\ t \in Fetched[Visited.spec]
  /\ LET v == IF Told[Visited.spec] # None THEN Told[Visited.spec]
              ELSE Version[t]
     IN  IF v \in Accepts[Visited.spec]
         THEN /\ stage' = [tree |-> t, version |-> v]
              /\ Turns("replace")
              /\ UNCHANGED <<queue, graph>>
         ELSE Fails
  /\ UNCHANGED <<disk, draft>>

FetchFails ==
  /\ AtEntry
  /\ Visited.name \notin DOMAIN graph
  /\ MustInstall
  /\ cmd.kind = "locked" \/ "fetch" \in Failures
  /\ Fails
  /\ UNCHANGED <<disk, draft>>

\* replace_stage: remove_dir of the old directory, then move_file.
Replace ==
  /\ At("replace")
  /\ \/ Erodes(Visited.name)
     \/ /\ lib[Visited.name] = None
        /\ Has(Visited.name, stage.tree)
        /\ Enters(stage.version)
        /\ Turns("visit")
        /\ UNCHANGED <<manifest, lock, draft>>

\* The old directory cannot be deleted to the end, or the new one not moved.
ReplaceFails ==
  /\ "move" \in Failures
  /\ At("replace")
  /\ Fails
  /\ UNCHANGED <<disk, draft>>

\* sync goes on with the scripts, the driver with the lock.
Resolved ==
  /\ At("visit")
  /\ queue = <<>>
  /\ Turns(CASE cmd.kind = "build"  -> "lock"
             [] cmd.kind = "locked" -> "compare"
             [] OTHER               -> "scripts")
  /\ UNCHANGED <<disk, draft, plan>>

\* The build.pengu of each package, run if it is trusted: never by remove,
\* nor in the second round of add.  It runs in lib/n, after ensure has taken
\* the hash of lib/n, and whether it fails or not it may have written there.
RunsScripts == cmd.kind # "remove" /\ cmd.as = cmd.name

ScriptWrites ==
  /\ At("scripts")
  /\ RunsScripts
  /\ \E n \in DOMAIN graph :
       /\ lib[n] # None
       /\ \E t \in Builds[lib[n]] : Has(n, t)
  /\ Goes(todo)
  /\ UNCHANGED <<manifest, lock, draft, plan>>

Scripts ==
  /\ At("scripts")
  /\ \/ Turns("lock") /\ UNCHANGED plan
     \/ "script" \in Failures /\ RunsScripts /\ Fails
  /\ UNCHANGED <<disk, draft>>

-----------------------------------------------------------------------------
(* pengu.lock.                                                             *)

WriteLock ==
  /\ At("lock")
  /\ lock' = None
  /\ Turns("seal")
  /\ UNCHANGED <<manifest, lib, draft, plan>>

Seal ==
  /\ At("seal")
  /\ lock' = graph
  /\ Forgets
  /\ Passes
  /\ UNCHANGED <<manifest, lib, draft>>

\* sync reports it, the driver does not look.
LockFails ==
  /\ "lock" \in Failures
  /\ At("lock")
  /\ IF cmd.kind = "build"
     THEN /\ cmd' = [cmd EXCEPT !.result = "unlocked"]
          /\ todo' = Tail(todo)
          /\ Forgets
          /\ UNCHANGED seen
     ELSE Fails
  /\ UNCHANGED <<disk, draft>>

\* build --locked: the resolved graph against the lock, both ways.
LockMatches ==
  /\ lock # None
  /\ DOMAIN lock = DOMAIN graph
  /\ \A n \in DOMAIN graph :
       /\ lock[n].version = graph[n].version
       /\ Hash[lock[n].tree] = Hash[graph[n].tree]
       /\ graph[n].version \in Accepts[lock[n].spec] \cap Accepts[graph[n].spec]

Compare ==
  /\ At("compare")
  /\ IF LockMatches THEN Passes /\ Forgets ELSE Fails
  /\ UNCHANGED <<disk, draft>>

\* psc verify.
Verified ==
  /\ lock # None
  /\ \A n \in DOMAIN lock :
       /\ lib[n] # None
       /\ Hash[lib[n]] = Hash[lock[n].tree]
       /\ lock[n].version \in Accepts[lock[n].spec]
  /\ \A d \in Range(manifest) :
       /\ d.name \in DOMAIN lock
       /\ lock[d.name].version \in Accepts[d.spec]

Inspect ==
  /\ At("inspect")
  /\ IF Verified THEN Passes /\ UNCHANGED plan ELSE Fails
  /\ UNCHANGED <<disk, draft>>

-----------------------------------------------------------------------------

Begin ==
  \/ \E o \in Offers : Add(o)
  \/ \E n \in Names, keepFiles \in BOOLEAN : Remove(n, keepFiles)
  \/ \E o \in Offers : Upgrade(o.name, o.spec)
  \/ Update
  \/ Build
  \/ BuildLocked
  \/ Verify

Work ==
  \/ Put
  \/ Drop
  \/ Restore
  \/ RestoreFails
  \/ Publish
  \/ EditFails
  \/ Stash
  \/ StashFails
  \/ Unstash
  \/ UnstashFails
  \/ Delete
  \/ DeleteFails
  \/ Adopt
  \/ AdoptFails
  \/ Sync
  \/ Resolve
  \/ VisitKnown
  \/ VisitInstalled
  \/ \E t \in Trees : Fetch(t)
  \/ FetchFails
  \/ Replace
  \/ ReplaceFails
  \/ Resolved
  \/ ScriptWrites
  \/ Scripts
  \/ WriteLock
  \/ Seal
  \/ LockFails
  \/ Compare
  \/ Inspect
  \/ Finish

Next == Begin \/ Work \/ Killed \/ Checkout

Spec == Init /\ [][Next]_vars

-----------------------------------------------------------------------------
(* Properties.                                                             *)

Steps == {"stash", "unstash", "put", "drop", "restore", "publish", "delete",
          "adopt", "sync", "resolve", "visit", "replace", "scripts", "lock",
          "seal", "compare", "inspect"}

Kinds == {"add", "remove", "update", "upgrade", "build"} \cup ReadOnly

Commands == [kind : Kinds,
             name : Names \cup {None}, as : Names \cup {None},
             spec : Specs \cup {None}, force : BOOLEAN, before : Seq(Entries),
             found : [Names -> Trees \cup {None}],
             result : {"ok", "failed", "unrestored", "unlocked"}]

Stages == [tree : Trees, version : Versions]

Graphs == UNION {[D -> Packages] : D \in SUBSET Names}

Outcomes == [kind : Kinds,
             name : Names \cup {None}, spec : Specs \cup {None}, ok : BOOLEAN]

ASSUME NoneAssumption ==
  /\ None \notin Seq(Entries)
  /\ None \notin Graphs
  /\ None \notin Stages
  /\ None \notin Commands
  /\ None \notin Outcomes

TypeOK ==
  /\ manifest \in Seq(Entries) \cup {None}
  /\ lock \in Graphs \cup {None}
  /\ lib \in [Names -> Trees \cup {None}]
  /\ cmd \in Commands \cup {None}
  /\ todo \in Seq(Steps)
  /\ cmd = None => todo = <<>>
  /\ draft \in Seq(Entries) \cup {None}
  /\ queue \in Seq(Entries)
  /\ graph \in Graphs
  /\ stage \in Stages \cup {None}
  /\ settled \in BOOLEAN
  /\ outcome \in Outcomes \cup {None}

Succeeded(kinds) == outcome # None /\ outcome.kind \in kinds /\ outcome.ok

\* What the manifest and the packages in the set ask for.
Asked(m, names) ==
  Range(m) \cup UNION {Range(Needs[lib[n]]) : n \in names}

Closed(names) ==
  /\ \A n \in names : lib[n] # None
  /\ \A d \in Asked(manifest, names) : d.name \in names

\* A package is as its entry in the lock has it, but for what its build.pengu
\* wrote after it was hashed.
AsLocked(n) ==
  /\ lib[n] # None
  /\ Hash[lib[n]] = Hash[lock[n].tree] \/ lib[n] \in Builds[lock[n].tree]

\* The lock lists the packages that the manifest needs, directly or not, and
\* no other; they are in lib as the lock has them; and the version of each
\* satisfies every package that asks for it.
LockFits ==
  IF manifest = <<>>
  THEN lock = None
  ELSE /\ lock # None
       /\ \A n \in DOMAIN lock : AsLocked(n)
       /\ Closed(DOMAIN lock)
       /\ \A names \in SUBSET DOMAIN lock :
            Closed(names) => names = DOMAIN lock
       /\ \A d \in Asked(manifest, DOMAIN lock) :
            lock[d.name].version \in Accepts[d.spec]

\* build --locked has compared the project with its lock.  Without
\* dependencies it compares nothing and accepts any pengu.lock
\* (src/src/psc/driver/build.pengu:955).
Compared == Succeeded({"locked"}) /\ manifest # <<>>

\* Whenever a command has written the lock and succeeded, and whenever build
\* --locked accepts a project that has dependencies, whatever was killed
\* before, the lock fits the manifest and the directories; and what build
\* --locked accepts has the very hashes of the lock.  The resolver keeps the
\* first answer to each name while it replaces directories that it may
\* already have read (src/src/psc/pkg/resolve.pengu:88-153).
LockSound ==
  /\ settled \/ Compared => LockFits
  /\ Compared => \A n \in DOMAIN lock : Hash[lib[n]] = Hash[lock[n].tree]

\* What a command left settled, build --locked and verify accept, on two
\* conditions.  The lock has of each package the version that the package
\* declares: install_from takes the text of the tag
\* (src/src/psc/pkg/install.pengu:130 and 151), ensure of an installed package
\* reads pengu.toml (src/src/psc/pkg/resolve.pengu:41), and with tags like
\* v1.2.0 they differ after add.  And what the build.pengu of a package writes
\* leaves its hash alone: sync runs it after ensure has taken the hash
\* (src/src/psc/cmd/deps.pengu:72-96), and the script of
\* src/docs/LIBRARIES.md:209 writes in native, which is hashed.  verify wants a
\* lock, which a project without dependencies has not.
LockAccepted ==
  (/\ settled
   /\ lock # None
   /\ \A n \in DOMAIN lock :
        /\ lock[n].version = Version[lock[n].tree]
        /\ \A t \in Builds[lock[n].tree] : Hash[t] = Hash[lock[n].tree])
  => (outcome # None /\ outcome.kind \in ReadOnly => outcome.ok)

\* What an installation of s brings, and what its build.pengu makes of it.
Delivered(s) == UNION {{t} \cup Builds[t] : t \in Fetched[s]}

\* When psc add fails and its rollback does not, the manifest and the
\* directory of the package are what they were, wherever in the command it
\* failed ("el manifiesto no debe quedar sucio y el paquete anterior (o el
\* inexistente) debe quedar como estaba", src/src/psc/cmd/deps.pengu:295-296),
\* and no directory is new and not whole ("no deja un paquete nuevo a medias",
\* src/docs/psc/CLI.md:78-79).  The last only as long as add has not adopted an
\* import name: of a second sync that fails it takes back lib/name, and
\* lib/<import> stays behind, whole or half replaced.
AddRollsBack ==
  (/\ cmd # None
   /\ cmd.kind = "add"
   /\ cmd.result = "failed"
   /\ todo = <<>>)
  => /\ manifest = cmd.before
     /\ lib[cmd.name] = cmd.found[cmd.name]
     /\ cmd.as = cmd.name =>
          \A n \in Names : cmd.found[n] = None /\ lib[n] # None =>
            \E s \in Specs : lib[n] \in Delivered(s)

\* An update that succeeds leaves every package as its source delivers it,
\* whatever half deleted directories killed commands left that a build would
\* take for the package, and whatever its build.pengu wrote since.  An add
\* does so for the package it adds, if the lock has it from there: run_add
\* does not look whether the adopted name got into pengu.toml
\* (src/src/psc/cmd/deps.pengu:283-287), and another package may ask for the
\* same name from somewhere else.
Repaired ==
  /\ Succeeded({"update"}) /\ lock # None =>
       \A n \in DOMAIN lock : lib[n] \in Delivered(lock[n].spec)
  /\ Succeeded({"add"}) /\ lock # None =>
       \A n \in DOMAIN lock :
         n = outcome.name /\ lock[n].spec = outcome.spec =>
           lib[n] \in Delivered(outcome.spec)
=============================================================================
