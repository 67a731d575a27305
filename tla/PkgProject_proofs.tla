------------------------- MODULE PkgProject_proofs -------------------------
(***************************************************************************)
(* Proofs about PkgProject: its types, the rollback of psc add, that a     *)
(* settled project has a lock that fits and is accepted, and that update   *)
(* and add bring what the sources deliver.                                 *)
(*                                                                         *)
(* A command is at one of a few lists of steps, so most of what holds      *)
(* while it runs depends on where it is.  Each part below states what is   *)
(* true at every place, shows that a step keeps it, and ends with the      *)
(* theorem that follows at the place where the command is over.            *)
(***************************************************************************)
EXTENDS PkgProject, SequenceTheorems, TLAPS

USE PkgAssumption, NoneAssumption

-----------------------------------------------------------------------------
(* Queues.                                                                 *)

\* The empty queue has no elements.
LEMMA EmptyQueue == Range(<<>>) = {}
  BY DEF Range

\* Popping removes the head.
LEMMA PopFromQueue ==
  ASSUME NEW S, NEW q \in Seq(S), q # <<>>
  PROVE  /\ Head(q) \in S
         /\ Tail(q) \in Seq(S)
         /\ Len(Tail(q)) = Len(q) - 1
         /\ Range(q) = {Head(q)} \cup Range(Tail(q))
<1>1. /\ Head(q) = q[1] /\ q[1] \in S /\ Len(q) \in Nat \ {0}
      /\ Tail(q) \in Seq(S) /\ Len(Tail(q)) = Len(q) - 1
      /\ \A i \in 1..Len(Tail(q)) : Tail(q)[i] = q[i + 1]
  OBVIOUS
<1>2. DOMAIN q = 1..Len(q) /\ DOMAIN Tail(q) = 1..(Len(q) - 1)
  BY <1>1
<1>3. Range(q) = {Head(q)} \cup Range(Tail(q))
  <2>1. ASSUME NEW i \in DOMAIN q, i # 1
        PROVE  q[i] \in Range(Tail(q))
    <3>1. i - 1 \in DOMAIN Tail(q) /\ Tail(q)[i - 1] = q[i]
      BY <1>1, <1>2, <2>1
    <3>. QED BY <3>1 DEF Range
  <2>2. ASSUME NEW x \in Range(q)
        PROVE  x \in {Head(q)} \cup Range(Tail(q))
    <3>1. PICK i \in DOMAIN q : x = q[i]
      BY DEF Range
    <3>. QED BY <1>1, <2>1, <3>1
  <2>3. Head(q) \in Range(q)
    BY <1>1, <1>2 DEF Range
  <2>4. Range(Tail(q)) \subseteq Range(q)
    BY <1>1, <1>2 DEF Range
  <2>. QED BY <2>2, <2>3, <2>4
<1>. QED BY <1>1, <1>3

\* Appending a whole queue adds its elements.
LEMMA ConcatQueues ==
  ASSUME NEW S, NEW q \in Seq(S), NEW r \in Seq(S)
  PROVE  q \o r \in Seq(S) /\ Range(q \o r) = Range(q) \cup Range(r)
  BY ConcatProperties, RangeConcatenation

-----------------------------------------------------------------------------
(* Lists of steps, entries and directories.                                *)

\* The results of a command that undoes what it did, or could not.
Undoing == {"failed", "unrestored"}

USE DEF Undoing

\* The lists of steps a command may have after the one it is at.
Sync1    == <<"sync">>
SyncA    == <<"sync", "adopt">>
PutS     == <<"put", "sync">>
PutSA    == <<"put", "sync", "adopt">>
DeleteS  == <<"delete", "sync">>
Adopt1   == <<"adopt">>
Unstash1 == <<"unstash">>
DeleteU  == <<"delete", "unstash">>

Lists == {Sync1, SyncA, PutS, PutSA, DeleteS, Adopt1, Unstash1, DeleteU}

\* The first and the later steps of those lists, computed once.
LEMMA ListFacts ==
  /\ Lists \subseteq Seq(Steps) \ {<<>>}
  /\ Head(Sync1) = "sync"        /\ Tail(Sync1) = <<>>
  /\ Head(SyncA) = "sync"        /\ Tail(SyncA) = Adopt1
  /\ Head(PutS) = "put"          /\ Tail(PutS) = Sync1
  /\ Head(PutSA) = "put"         /\ Tail(PutSA) = SyncA
  /\ Head(DeleteS) = "delete"    /\ Tail(DeleteS) = Sync1
  /\ Head(Adopt1) = "adopt"      /\ Tail(Adopt1) = <<>>
  /\ Head(Unstash1) = "unstash"  /\ Tail(Unstash1) = <<>>
  /\ Head(DeleteU) = "delete"    /\ Tail(DeleteU) = Unstash1
<1> USE DEF Sync1, SyncA, PutS, PutSA, DeleteS, Adopt1, Unstash1, DeleteU
<1>1. /\ Sync1 \in Seq(Steps) /\ SyncA \in Seq(Steps)
      /\ PutS \in Seq(Steps) /\ PutSA \in Seq(Steps)
      /\ DeleteS \in Seq(Steps) /\ Adopt1 \in Seq(Steps)
      /\ Unstash1 \in Seq(Steps) /\ DeleteU \in Seq(Steps)
  BY DEF Steps
<1>2. /\ Head(Sync1) = "sync"        /\ Tail(Sync1) = <<>> /\ Sync1 # <<>>
      /\ Head(Adopt1) = "adopt"      /\ Tail(Adopt1) = <<>> /\ Adopt1 # <<>>
      /\ Head(Unstash1) = "unstash"  /\ Tail(Unstash1) = <<>> /\ Unstash1 # <<>>
  OBVIOUS
<1>3. /\ Head(SyncA) = "sync"        /\ Tail(SyncA) = Adopt1 /\ SyncA # <<>>
      /\ Head(PutS) = "put"          /\ Tail(PutS) = Sync1 /\ PutS # <<>>
      /\ Head(PutSA) = "put"         /\ Tail(PutSA) = SyncA /\ PutSA # <<>>
  OBVIOUS
<1>4. /\ Head(DeleteS) = "delete"    /\ Tail(DeleteS) = Sync1 /\ DeleteS # <<>>
      /\ Head(DeleteU) = "delete"    /\ Tail(DeleteU) = Unstash1 /\ DeleteU # <<>>
  OBVIOUS
<1>. QED BY <1>1, <1>2, <1>3, <1>4 DEF Lists

\* The programs of the commands, and what replaces them.
LEMMA ProgramFacts ==
  {<<"stash", "put", "sync">>, <<"stash", "put", "sync", "adopt">>,
   <<"drop", "sync">>, <<"drop", "delete", "sync">>, <<"sync">>,
   <<"put", "delete", "sync">>, <<"resolve">>, <<"inspect">>,
   <<"restore", "delete", "unstash">>, <<"unstash">>, <<"drop", "put", "sync">>}
    \subseteq Seq(Steps) \ {<<>>}
<1> USE DEF Steps
<1>1. /\ <<"stash", "put", "sync">> \in Seq(Steps) \ {<<>>}
      /\ <<"stash", "put", "sync", "adopt">> \in Seq(Steps) \ {<<>>}
      /\ <<"drop", "sync">> \in Seq(Steps) \ {<<>>}
      /\ <<"drop", "delete", "sync">> \in Seq(Steps) \ {<<>>}
  OBVIOUS
<1>2. /\ <<"sync">> \in Seq(Steps) \ {<<>>}
      /\ <<"put", "delete", "sync">> \in Seq(Steps) \ {<<>>}
      /\ <<"resolve">> \in Seq(Steps) \ {<<>>}
      /\ <<"inspect">> \in Seq(Steps) \ {<<>>}
  OBVIOUS
<1>3. /\ <<"restore", "delete", "unstash">> \in Seq(Steps) \ {<<>>}
      /\ <<"unstash">> \in Seq(Steps) \ {<<>>}
      /\ <<"drop", "put", "sync">> \in Seq(Steps) \ {<<>>}
  OBVIOUS
<1>. QED BY <1>1, <1>2, <1>3

\* Where each program starts and what it leaves for later.
LEMMA ProgramTails ==
  /\ Head(<<"stash", "put", "sync">>) = "stash"
  /\ Tail(<<"stash", "put", "sync">>) = PutS
  /\ Head(<<"stash", "put", "sync", "adopt">>) = "stash"
  /\ Tail(<<"stash", "put", "sync", "adopt">>) = PutSA
  /\ Head(<<"drop", "sync">>) = "drop" /\ Tail(<<"drop", "sync">>) = Sync1
  /\ Head(<<"drop", "delete", "sync">>) = "drop"
  /\ Tail(<<"drop", "delete", "sync">>) = DeleteS
  /\ Head(<<"put", "delete", "sync">>) = "put"
  /\ Tail(<<"put", "delete", "sync">>) = DeleteS
  /\ Head(<<"drop", "put", "sync">>) = "drop"
  /\ Tail(<<"drop", "put", "sync">>) = PutS
  /\ Head(<<"restore", "delete", "unstash">>) = "restore"
  /\ Tail(<<"restore", "delete", "unstash">>) = DeleteU
  /\ <<"unstash">> = Unstash1
  /\ Head(<<"sync">>) = "sync" /\ Tail(<<"sync">>) = <<>>
  /\ Head(<<"resolve">>) = "resolve" /\ Tail(<<"resolve">>) = <<>>
  /\ Head(<<"inspect">>) = "inspect" /\ Tail(<<"inspect">>) = <<>>
  BY DEF Sync1, PutS, PutSA, DeleteS, DeleteU, Unstash1

\* A statement that goes on with another step keeps what follows it.
LEMMA TurnFacts ==
  ASSUME NEW s \in Seq(Steps), s # <<>>, NEW x \in Steps
  PROVE  LET t == [s EXCEPT ![1] = x]
         IN  t \in Seq(Steps) /\ t # <<>> /\ Head(t) = x /\ Tail(t) = Tail(s)
<1> DEFINE t == [s EXCEPT ![1] = x]
<1>1. t \in Seq(Steps) /\ Len(t) = Len(s) /\ t # <<>> /\ Head(t) = x
  OBVIOUS
<1>2. Tail(t) = Tail(s)
  BY <1>1
<1>. QED BY <1>1, <1>2

\* pengu.toml without a package is a pengu.toml (pman.remove).
LEMMA WithoutEntries ==
  ASSUME NEW m \in Seq(Entries), NEW n
  PROVE  Without(m, n) \in Seq(Entries)
<1>1. CASE \E i \in DOMAIN m : m[i].name = n
  <2> DEFINE i == CHOOSE k \in DOMAIN m : m[k].name = n
             w == [j \in 1..(Len(m) - 1) |-> IF j < i THEN m[j] ELSE m[j + 1]]
  <2>1. i \in 1..Len(m)
    BY <1>1
  <2> HIDE DEF i
  <2>2. Len(m) - 1 \in Nat
    BY <2>1
  <2>3. \A j \in 1..(Len(m) - 1) : w[j] \in Entries
    BY <2>1
  <2>4. w \in [1..(Len(m) - 1) -> Entries]
    BY <2>3
  <2>5. w \in Seq(Entries)
    BY <2>2, <2>4
  <2>. QED BY <1>1, <2>5 DEF Without, i
<1>2. CASE ~\E i \in DOMAIN m : m[i].name = n
  BY <1>2 DEF Without
<1>. QED BY <1>1, <1>2

\* pengu.toml with a package is a pengu.toml that starts with the package
\* (pman.upsert).
LEMMA WithEntries ==
  ASSUME NEW m \in Seq(Entries), NEW n \in Names, NEW s \in Specs
  PROVE  /\ With(m, n, s) \in Seq(Entries)
         /\ With(m, n, s) # <<>>
         /\ Head(With(m, n, s)) = [name |-> n, spec |-> s]
<1> DEFINE e == [name |-> n, spec |-> s]
           w == Without(m, n)
<1>1. e \in Entries
  BY DEF Entries
<1>2. w \in Seq(Entries)
  BY WithoutEntries
<1> HIDE DEF e, w
<1>3. /\ <<e>> \o w \in Seq(Entries) /\ (<<e>> \o w)[1] = e
      /\ Len(<<e>> \o w) = 1 + Len(w)
  BY <1>1, <1>2
<1>4. <<e>> \o w # <<>> /\ Head(<<e>> \o w) = e
  BY <1>2, <1>3
<1>. QED BY <1>3, <1>4 DEF With, e, w

\* upsert puts the entry first.
LEMMA WithHead ==
  ASSUME NEW m \in Seq(Entries), NEW n \in Names, NEW s \in Specs,
         NEW e, e = [name |-> n, spec |-> s]
  PROVE  Head(With(m, n, s)) = e
  BY WithEntries

-----------------------------------------------------------------------------
(* Type correctness.                                                       *)

AtTail(heads, tails) ==
  todo # <<>> /\ Head(todo) \in heads /\ Tail(todo) \in tails

\* What a step of sync or of the driver becomes.
Round == {"sync", "resolve", "visit", "replace", "scripts", "lock", "seal"}

\* Where a command can be that reads only, that changes the project, and
\* that undoes a failed add.
Reads ==
  \/ todo = <<>>
  \/ cmd.kind = "locked" /\ AtTail({"resolve", "visit", "compare"}, {<<>>})
  \/ cmd.kind = "verify" /\ AtTail({"inspect"}, {<<>>})

WorksFirst ==
  \/ AtTail({"stash"}, {PutS, PutSA})
  \/ AtTail({"put", "publish"}, {Sync1, SyncA})
  \/ AtTail(Round, {Adopt1})
  \/ AtTail({"adopt"}, {<<>>})

WorksAgain ==
  \/ AtTail({"drop", "publish"}, {PutS})
  \/ AtTail({"put", "publish"}, {Sync1})

Works ==
  \/ todo = <<>>
  \/ AtTail(Round, {<<>>})
  \/ cmd.kind = "add" /\ cmd.as = cmd.name /\ WorksFirst
  \/ cmd.kind = "add" /\ cmd.as # cmd.name /\ WorksAgain
  \/ cmd.kind = "remove" /\ AtTail({"drop", "publish"}, {Sync1, DeleteS})
  \/ cmd.kind = "upgrade" /\ AtTail({"put", "publish"}, {DeleteS})
  \/ cmd.kind \in {"remove", "upgrade"} /\ AtTail({"delete"}, {Sync1})

Undoes ==
  \/ todo = <<>>
  \/ AtTail({"unstash"}, {<<>>})
  \/ AtTail({"delete"}, {Unstash1})
  \/ AtTail({"restore", "publish"}, {DeleteU})

OnCourse ==
  IF cmd.result \in Undoing THEN IF cmd.kind = "add" THEN Undoes ELSE todo = <<>>
  ELSE IF cmd.kind \in ReadOnly THEN Reads
  ELSE Works

Plan ==
  cmd # None =>
    /\ OnCourse
    /\ manifest = None => At("publish")
    /\ At("publish") => draft # None
    /\ At("replace") =>
         stage # None /\ queue # <<>> /\ Visited.name \notin DOMAIN graph
    /\ cmd.kind \in {"add", "remove", "upgrade"} => cmd.name \in Names
    /\ cmd.kind \in {"add", "upgrade"} => cmd.as \in Names /\ cmd.spec \in Specs
    /\ cmd.kind # "add" => cmd.as = cmd.name
    /\ cmd.kind \in ReadOnly => ~cmd.force

\* A command starts with what its first step wants.
Begun(name, spec, force, steps) ==
  /\ cmd'.kind \in {"add", "remove", "upgrade"} => name \in Names
  /\ cmd'.kind \in {"add", "upgrade"} => spec \in Specs
  /\ cmd'.kind \in ReadOnly => ~force
  /\ steps # <<>> => Head(steps) # "publish" /\ Head(steps) # "replace"
  /\ OnCourse'

\* A command starts with a program of its own kind, on a manifest that is
\* there.
LEMMA StartsTyped ==
  ASSUME TypeOK, NEW kind \in Kinds, NEW name \in Names \cup {None},
         NEW spec \in Specs \cup {None}, NEW force \in BOOLEAN,
         NEW steps \in Seq(Steps),
         Starts(kind, name, spec, force, steps)
  PROVE  /\ TypeOK'
         /\ cmd' # None /\ manifest' # None
         /\ cmd'.kind = kind /\ cmd'.name = name /\ cmd'.as = name
         /\ cmd'.spec = spec /\ cmd'.force = force /\ cmd'.result = "ok"
         /\ todo' = steps
         /\ Begun(name, spec, force, steps) => Plan'
<1>1. cmd' \in Commands
  <2> DEFINE before == IF kind = "add" THEN manifest ELSE <<>>
             found  == IF kind = "add" THEN lib ELSE Nothing
  <2>1. before \in Seq(Entries) /\ found \in [Names -> Trees \cup {None}]
    BY DEF Starts, TypeOK, Nothing
  <2>2. cmd' = [kind |-> kind, name |-> name, as |-> name, spec |-> spec,
                force |-> force, result |-> "ok", before |-> before,
                found |-> found]
    BY DEF Starts
  <2> HIDE DEF before, found
  <2>. QED BY <2>1, <2>2 DEF Commands
<1>2. /\ TypeOK'
      /\ cmd' # None /\ manifest' # None
      /\ cmd'.kind = kind /\ cmd'.name = name /\ cmd'.as = name
      /\ cmd'.spec = spec /\ cmd'.force = force /\ cmd'.result = "ok"
      /\ todo' = steps
  BY <1>1 DEF Starts, TypeOK, disk, plan
<1>3. ASSUME Begun(name, spec, force, steps)
      PROVE  Plan'
  BY <1>2, <1>3 DEF Begun, Plan, At
<1>. QED BY <1>2, <1>3

\* The seven commands start typed and on course.
LEMMA BeginsTyped ==
  ASSUME TypeOK, Begin
  PROVE  TypeOK' /\ Plan'
<1> USE DEF Kinds, ReadOnly
<1>1. ASSUME NEW o \in Offers
      PROVE  o.name \in Names /\ o.spec \in Specs /\ o.rebuild \in BOOLEAN
  <2>1. o \in [name : Names, spec : Specs, explicit : BOOLEAN, rebuild : BOOLEAN]
    OBVIOUS
  <2>. QED BY <2>1
<1>2. ASSUME NEW o \in Offers, Add(o)
      PROVE  TypeOK' /\ Plan'
  <2>1. PICK steps \in {<<"stash", "put", "sync">>,
                        <<"stash", "put", "sync", "adopt">>} :
          Starts("add", o.name, o.spec, o.rebuild, steps)
    BY <1>2 DEF Add
  <2>2. /\ steps \in Seq(Steps) \ {<<>>}
        /\ Head(steps) = "stash" /\ Tail(steps) \in {PutS, PutSA}
    <3>1. CASE steps = <<"stash", "put", "sync">>
      BY <3>1, ProgramFacts, ProgramTails
    <3>2. CASE steps = <<"stash", "put", "sync", "adopt">>
      BY <3>2, ProgramFacts, ProgramTails
    <3>. QED BY <3>1, <3>2
  <2>3. /\ todo' = steps /\ cmd'.kind = "add"
        /\ cmd'.as = cmd'.name /\ cmd'.result = "ok"
    BY <1>1, <2>1, <2>2, StartsTyped
  <2>4. Begun(o.name, o.spec, o.rebuild, steps)
    BY <1>1, <2>2, <2>3 DEF Begun, OnCourse, Works, WorksFirst, AtTail
  <2>. QED BY <1>1, <2>1, <2>2, <2>4, StartsTyped
<1>3. ASSUME NEW n \in Names, NEW keepFiles \in BOOLEAN, Remove(n, keepFiles)
      PROVE  TypeOK' /\ Plan'
  <2>1. PICK steps \in {<<"drop", "sync">>, <<"drop", "delete", "sync">>} :
          Starts("remove", n, None, FALSE, steps)
    BY <1>3 DEF Remove
  <2>2. /\ steps \in Seq(Steps) \ {<<>>}
        /\ Head(steps) = "drop" /\ Tail(steps) \in {Sync1, DeleteS}
    <3>1. CASE steps = <<"drop", "sync">>
      BY <3>1, ProgramFacts, ProgramTails
    <3>2. CASE steps = <<"drop", "delete", "sync">>
      BY <3>2, ProgramFacts, ProgramTails
    <3>. QED BY <3>1, <3>2
  <2>3. todo' = steps /\ cmd'.kind = "remove" /\ cmd'.result = "ok"
    BY <2>1, <2>2, StartsTyped
  <2>4. Begun(n, None, FALSE, steps)
    BY <2>2, <2>3 DEF Begun, OnCourse, Works, AtTail
  <2>. QED BY <2>1, <2>2, <2>4, StartsTyped
<1>4. ASSUME NEW o \in Offers, Upgrade(o.name, o.spec)
      PROVE  TypeOK' /\ Plan'
  <2> DEFINE steps == <<"put", "delete", "sync">>
  <2>1. Starts("upgrade", o.name, o.spec, TRUE, steps)
    BY <1>4 DEF Upgrade
  <2>2. /\ steps \in Seq(Steps) \ {<<>>}
        /\ Head(steps) = "put" /\ Tail(steps) = DeleteS
    BY ProgramFacts, ProgramTails
  <2> HIDE DEF steps
  <2>3. todo' = steps /\ cmd'.kind = "upgrade" /\ cmd'.result = "ok"
    <3>1. o.name \in Names /\ o.spec \in Specs
      BY <1>1
    <3>. QED BY <2>1, <2>2, <3>1, StartsTyped
  <2>4. Begun(o.name, o.spec, TRUE, steps)
    BY <1>1, <2>2, <2>3 DEF Begun, OnCourse, Works, AtTail
  <2>. QED BY <1>1, <2>1, <2>2, <2>4, StartsTyped
<1>5. CASE Update
  <2> DEFINE steps == <<"sync">>
  <2>1. Starts("update", None, None, TRUE, steps)
    BY <1>5 DEF Update
  <2>2. steps \in Seq(Steps) \ {<<>>} /\ Head(steps) = "sync" /\ Tail(steps) = <<>>
    BY ProgramFacts, ProgramTails
  <2> HIDE DEF steps
  <2>3. todo' = steps /\ cmd'.kind = "update" /\ cmd'.result = "ok"
    BY <2>1, <2>2, StartsTyped
  <2>4. Begun(None, None, TRUE, steps)
    BY <2>2, <2>3 DEF Begun, OnCourse, Works, AtTail, Round
  <2>. QED BY <2>1, <2>2, <2>4, StartsTyped
<1>6. CASE Build \/ BuildLocked
  <2>1. PICK kind \in {"build", "locked"}, steps \in {<<>>, <<"resolve">>} :
          Starts(kind, None, None, FALSE, steps)
    BY <1>6 DEF Build, BuildLocked
  <2>2. /\ steps \in Seq(Steps)
        /\ steps # <<>> => Head(steps) = "resolve" /\ Tail(steps) = <<>>
    <3>1. <<>> \in Seq(Steps)
      OBVIOUS
    <3>. QED BY <3>1, ProgramFacts, ProgramTails
  <2>3. todo' = steps /\ cmd'.kind = kind /\ cmd'.result = "ok"
    BY <2>1, <2>2, StartsTyped
  <2>4. Begun(None, None, FALSE, steps)
    BY <2>2, <2>3 DEF Begun, OnCourse, Works, Reads, AtTail, Round
  <2>. QED BY <2>1, <2>2, <2>4, StartsTyped
<1>7. CASE Verify
  <2> DEFINE steps == <<"inspect">>
  <2>1. Starts("verify", None, None, FALSE, steps)
    BY <1>7 DEF Verify
  <2>2. /\ steps \in Seq(Steps) \ {<<>>}
        /\ Head(steps) = "inspect" /\ Tail(steps) = <<>>
    BY ProgramFacts, ProgramTails
  <2> HIDE DEF steps
  <2>3. todo' = steps /\ cmd'.kind = "verify" /\ cmd'.result = "ok"
    BY <2>1, <2>2, StartsTyped
  <2>4. Begun(None, None, FALSE, steps)
    BY <2>2, <2>3 DEF Begun, OnCourse, Reads, AtTail
  <2>. QED BY <2>1, <2>2, <2>4, StartsTyped
<1>. QED BY <1>2, <1>3, <1>4, <1>5, <1>6, <1>7 DEF Begin

\* What passing a step and turning it into another do to the list.
LEMMA PassesFacts ==
  ASSUME TypeOK, todo # <<>>
  PROVE  /\ Passes => todo' = Tail(todo) /\ todo' \in Seq(Steps)
         /\ \A x \in Steps : Turns(x) =>
              /\ todo' \in Seq(Steps) /\ todo' # <<>>
              /\ Head(todo') = x /\ Tail(todo') = Tail(todo)
<1>1. Tail(todo) \in Seq(Steps)
  BY DEF TypeOK
<1>2. ASSUME NEW x \in Steps, Turns(x)
      PROVE  /\ todo' \in Seq(Steps) /\ todo' # <<>>
             /\ Head(todo') = x /\ Tail(todo') = Tail(todo)
  BY <1>2, TurnFacts DEF TypeOK, Turns, Goes
<1>. QED BY <1>1, <1>2 DEF Passes, Goes

\* The empty graph is a graph.
LEMMA NoPackageTyped == NoPackage \in Graphs
<1>1. NoPackage \in [{} -> Packages]
  BY DEF NoPackage
<1>. QED BY <1>1 DEF Graphs

\* A resolution that is dropped leaves typed variables.
LEMMA ForgetsTyped ==
  ASSUME Forgets
  PROVE  queue' \in Seq(Entries) /\ graph' \in Graphs /\ stage' = None
  BY NoPackageTyped DEF Forgets

\* A command with another result.
LEMMA ResultFacts ==
  ASSUME NEW c \in Commands,
         NEW r \in {"ok", "failed", "unrestored", "unlocked"},
         NEW d, d = [c EXCEPT !.result = r]
  PROVE  /\ d \in Commands /\ d # None /\ d.result = r
         /\ d.kind = c.kind /\ d.name = c.name /\ d.as = c.as
         /\ d.spec = c.spec /\ d.force = c.force
         /\ d.before = c.before /\ d.found = c.found
<1>1. d \in Commands
  BY DEF Commands
<1>. QED BY <1>1 DEF Commands

\* A write or a rename that fails and that the command ignores.
LEMMA GivesUpFacts ==
  ASSUME cmd \in Commands, todo \in Seq(Steps), todo # <<>>, GivesUp
  PROVE  /\ cmd' \in Commands /\ cmd' # None
         /\ cmd.result \in Undoing => cmd'.result = "unrestored"
         /\ cmd.result \notin Undoing => cmd' = cmd
         /\ cmd'.kind = cmd.kind /\ cmd'.name = cmd.name /\ cmd'.as = cmd.as
         /\ cmd'.spec = cmd.spec /\ cmd'.force = cmd.force
         /\ cmd'.before = cmd.before /\ cmd'.found = cmd.found
         /\ todo' = Tail(todo) /\ todo' \in Seq(Steps)
<1> DEFINE x == IF cmd.result = "failed" THEN "unrestored" ELSE cmd.result
<1>1. cmd' = [cmd EXCEPT !.result = x] /\ todo' = Tail(todo)
  BY DEF GivesUp
<1>2. x \in {"ok", "failed", "unrestored", "unlocked"}
  BY DEF Commands
<1>3. cmd.result \notin Undoing => [cmd EXCEPT !.result = cmd.result] = cmd
  BY DEF Commands
<1>4. cmd.result \in Undoing => x = "unrestored"
  OBVIOUS
<1>5. cmd.result \notin Undoing => x = cmd.result
  OBVIOUS
<1> HIDE DEF x
<1>6. todo' \in Seq(Steps)
  BY <1>1
<1>. QED BY <1>1, <1>2, <1>3, <1>4, <1>5, <1>6, ResultFacts

\* A step of sync or of the driver that fails.
LEMMA FailsTyped ==
  ASSUME TypeOK, Plan, cmd # None, cmd.result \notin Undoing,
         ~At("publish"),
         Fails, UNCHANGED <<disk, draft>>
  PROVE  TypeOK' /\ Plan'
<1>1. /\ cmd' = [cmd EXCEPT !.result = "failed"]
      /\ todo' = IF cmd.kind = "add" THEN <<"restore", "delete", "unstash">>
                 ELSE <<>>
  BY DEF Fails, FailsWith
<1>2. cmd \in Commands
  BY DEF TypeOK
<1>3. /\ cmd' \in Commands /\ cmd' # None /\ cmd'.result = "failed"
      /\ cmd'.kind = cmd.kind /\ cmd'.name = cmd.name /\ cmd'.as = cmd.as
      /\ cmd'.spec = cmd.spec /\ cmd'.force = cmd.force
  BY <1>1, <1>2, ResultFacts
<1>4. todo' \in Seq(Steps)
  BY <1>1, ProgramFacts
<1>5. TypeOK'
  BY <1>3, <1>4, ForgetsTyped DEF TypeOK, Fails, FailsWith, disk, seen
<1>6. manifest' # None
  BY DEF Plan, disk
<1>7. ~At("publish")' /\ ~At("replace")' /\ OnCourse'
  <2>1. CASE cmd.kind = "add"
    <3>1. todo' # <<>> /\ Head(todo') = "restore" /\ Tail(todo') = DeleteU
      BY <1>1, <2>1, ProgramFacts, ProgramTails
    <3>. QED BY <1>3, <2>1, <3>1 DEF OnCourse, Undoes, AtTail, At
  <2>2. CASE cmd.kind # "add"
    BY <1>1, <1>3, <2>2 DEF OnCourse, At
  <2>. QED BY <2>1, <2>2
<1>. QED BY <1>3, <1>5, <1>6, <1>7 DEF Plan

\* What the place of a command says about it.
LEMMA AtFacts ==
  ASSUME TypeOK, Plan, todo # <<>>
  PROVE  /\ cmd # None /\ cmd \in Commands
         /\ todo \in Seq(Steps)
         /\ Head(todo) \in Round \cup {"put", "drop", "stash", "adopt"}
              => cmd.result \notin Undoing
         /\ Head(todo) \in {"compare", "inspect"}
              => cmd.result \notin Undoing /\ cmd.kind \in ReadOnly
         /\ Head(todo) # "publish" => manifest \in Seq(Entries)
<1>1. cmd # None /\ cmd \in Commands /\ todo \in Seq(Steps)
  BY DEF TypeOK
<1>2. OnCourse
  BY <1>1 DEF Plan
<1>3. CASE cmd.result \in Undoing
  BY <1>1, <1>2, <1>3 DEF OnCourse, Undoes, AtTail, Round, TypeOK, Plan, At
<1>4. CASE cmd.result \notin Undoing /\ cmd.kind \in ReadOnly
  BY <1>1, <1>2, <1>4 DEF OnCourse, Reads, AtTail, Round, TypeOK, Plan, At
<1>5. CASE cmd.result \notin Undoing /\ cmd.kind \notin ReadOnly
  BY <1>1, <1>2, <1>5
     DEF OnCourse, Works, WorksFirst, WorksAgain, AtTail, Round, TypeOK, Plan, At
<1>. QED BY <1>1, <1>3, <1>4, <1>5

\* Steps of sync and of the driver that turn into one another.
LEMMA TurnsTyped ==
  ASSUME TypeOK, Plan, todo # <<>>, Head(todo) \in Round \cup {"compare"},
         NEW x \in Round \cup {"compare"}, Turns(x),
         cmd.kind \in ReadOnly => x \in {"visit", "compare"},
         cmd.kind \notin ReadOnly => x # "compare"
  PROVE  /\ cmd' = cmd /\ cmd # None
         /\ todo' \in Seq(Steps) /\ todo' # <<>>
         /\ Head(todo') = x /\ Tail(todo') = Tail(todo)
         /\ OnCourse'
<1>1. x \in Steps
  BY DEF Round, Steps
<1>2. /\ todo' \in Seq(Steps) /\ todo' # <<>>
      /\ Head(todo') = x /\ Tail(todo') = Tail(todo)
  BY <1>1, PassesFacts
<1>3. cmd' = cmd /\ cmd # None /\ cmd.result \notin Undoing
  BY AtFacts DEF Turns, Goes, ReadOnly
<1>4. CASE cmd.kind \in ReadOnly
  BY <1>2, <1>3, <1>4 DEF Plan, OnCourse, Reads, AtTail, Round
<1>5. CASE cmd.kind \notin ReadOnly
  BY <1>2, <1>3, <1>5
     DEF Plan, OnCourse, Works, WorksFirst, WorksAgain, AtTail, Round
<1>. QED BY <1>2, <1>3, <1>4, <1>5

\* A step of sync or of the driver after which it is done.
LEMMA RoundEnds ==
  ASSUME TypeOK, Plan, todo # <<>>, Head(todo) \in Round \cup {"compare"}, Passes
  PROVE  /\ cmd' = cmd /\ cmd # None
         /\ todo' \in Seq(Steps)
         /\ todo' # <<>> => Head(todo') = "adopt"
         /\ ~At("publish")' /\ ~At("replace")'
         /\ OnCourse'
<1>1. todo' = Tail(todo) /\ todo' \in Seq(Steps)
  BY PassesFacts
<1>2. cmd' = cmd /\ cmd # None /\ cmd.result \notin Undoing
  BY AtFacts DEF Passes, Goes
<1>3. CASE cmd.kind \in ReadOnly
  BY <1>1, <1>2, <1>3 DEF Plan, OnCourse, Reads, AtTail, Round, At
<1>4. CASE cmd.kind \notin ReadOnly
  <2>1. \/ todo' = <<>>
        \/ todo' = Adopt1 /\ cmd.kind = "add" /\ cmd.as = cmd.name
    BY <1>1, <1>2, <1>4
       DEF Plan, OnCourse, Works, WorksFirst, WorksAgain, AtTail, Round
  <2>2. CASE todo' = <<>>
    BY <1>1, <1>2, <1>4, <2>2 DEF OnCourse, Works, At
  <2>3. CASE todo' = Adopt1 /\ cmd.kind = "add" /\ cmd.as = cmd.name
    <3>1. todo' # <<>> /\ Head(todo') = "adopt" /\ Tail(todo') = <<>>
      BY <2>3, ListFacts DEF Lists
    <3>. QED BY <1>1, <1>2, <1>4, <2>3, <3>1
         DEF OnCourse, Works, WorksFirst, AtTail, At
  <2>. QED BY <2>1, <2>2, <2>3
<1>. QED BY <1>1, <1>2, <1>3, <1>4

\* Steps on the manifest.
LEMMA ManifestTyped ==
  ASSUME TypeOK, Plan,
         Put \/ Drop \/ Restore \/ RestoreFails \/ Publish \/ EditFails
  PROVE  TypeOK' /\ Plan'
<1>0. todo # <<>>
  BY DEF Put, Drop, Restore, RestoreFails, Publish, EditFails, At
<1>1. cmd # None /\ cmd \in Commands /\ OnCourse
  BY <1>0, AtFacts DEF Plan
<1>2. ASSUME NEW new \in Seq(Entries), Unlinks(new),
             Head(todo) \in {"put", "drop"}
      PROVE  TypeOK' /\ Plan'
  <2>1. /\ todo' \in Seq(Steps) /\ todo' # <<>>
        /\ Head(todo') = "publish" /\ Tail(todo') = Tail(todo)
    <3>1. Turns("publish") /\ "publish" \in Steps
      BY <1>2 DEF Unlinks, Steps
    <3>. QED BY <1>0, <3>1, PassesFacts
  <2>2. cmd' = cmd /\ manifest' = None /\ draft' # None /\ cmd.result \notin Undoing
    BY <1>0, <1>2, AtFacts DEF Unlinks, Turns, Goes
  <2>3. TypeOK'
    BY <1>2, <2>1, <2>2 DEF TypeOK, Unlinks, Turns, Goes, plan, seen
  <2>4. OnCourse'
    <3>1. cmd.kind \notin ReadOnly
      BY <1>0, <1>1, <1>2, <2>2 DEF OnCourse, Reads, AtTail
    <3>. QED BY <1>0, <1>1, <1>2, <2>1, <2>2, <3>1
         DEF OnCourse, Works, WorksFirst, WorksAgain, AtTail, Round
  <2>. QED BY <1>1, <2>1, <2>2, <2>3, <2>4 DEF Plan, At
<1>3. CASE Put
  <2>1. /\ manifest \in Seq(Entries) /\ Head(todo) = "put"
        /\ cmd.as \in Names /\ cmd.spec \in Specs
    <3>1. manifest \in Seq(Entries) /\ Head(todo) = "put" /\ cmd.result \notin Undoing
      BY <1>0, <1>3, AtFacts DEF Put, At
    <3>2. cmd.kind \in {"add", "upgrade"}
      BY <1>0, <1>1, <3>1
         DEF OnCourse, Reads, Works, WorksFirst, WorksAgain, AtTail, Round
    <3>. QED BY <1>1, <3>1, <3>2 DEF Plan
  <2>2. With(manifest, cmd.as, cmd.spec) \in Seq(Entries)
    BY <2>1, WithEntries
  <2>. QED BY <1>2, <1>3, <2>1, <2>2 DEF Put
<1>4. CASE Drop
  <2>1. manifest \in Seq(Entries) /\ Head(todo) = "drop"
    BY <1>0, <1>4, AtFacts DEF Drop, At
  <2>2. Without(manifest, cmd.name) \in Seq(Entries)
    BY <2>1, WithoutEntries
  <2>. QED BY <1>2, <1>4, <2>1, <2>2 DEF Drop
<1>5. CASE Restore
  <2>1. /\ todo' \in Seq(Steps) /\ todo' # <<>>
        /\ Head(todo') = "publish" /\ Tail(todo') = Tail(todo)
    <3>1. Turns("publish") /\ "publish" \in Steps
      BY <1>5 DEF Restore, Steps
    <3>. QED BY <1>0, <3>1, PassesFacts
  <2>2. /\ cmd' = cmd /\ Head(todo) = "restore"
        /\ draft' \in Seq(Entries) /\ draft' # None
    BY <1>1, <1>5 DEF Restore, Turns, Goes, Commands, At
  <2>3. manifest' = <<>> /\ manifest' \in Seq(Entries) /\ manifest' # None
    <3>1. manifest' = <<>>
      BY <1>5 DEF Restore
    <3>2. <<>> \in Seq(Entries)
      OBVIOUS
    <3>. QED BY <3>1, <3>2
  <2>4. TypeOK'
    BY <1>5, <2>1, <2>2, <2>3 DEF TypeOK, Restore, Turns, Goes, plan, seen
  <2>5. cmd.result \in Undoing /\ cmd.kind = "add" /\ Tail(todo) = DeleteU
    BY <1>0, <1>1, <2>2 DEF OnCourse, Undoes, Reads, Works, WorksFirst, WorksAgain,
                            AtTail, Round
  <2>6. OnCourse'
    BY <2>1, <2>2, <2>5 DEF OnCourse, Undoes, AtTail
  <2>. QED BY <1>1, <2>1, <2>2, <2>3, <2>4, <2>6 DEF Plan, At
<1>6. ASSUME Passes, Head(todo) \in {"put", "drop", "publish"}, manifest' # None,
             Head(todo) \in {"put", "drop"} =>
               cmd.kind = "add" /\ cmd.as # cmd.name
      PROVE  /\ cmd' = cmd /\ todo' \in Seq(Steps)
             /\ ~At("publish")' /\ ~At("replace")'
             /\ OnCourse'
  <2>1. cmd' = cmd /\ todo' = Tail(todo) /\ todo' \in Seq(Steps)
    BY <1>0, <1>6, PassesFacts DEF Passes, Goes
  <2>2. CASE cmd.result \in Undoing
    <3>1. todo' = DeleteU /\ cmd.kind = "add"
      BY <1>0, <1>1, <1>6, <2>1, <2>2 DEF OnCourse, Undoes, AtTail
    <3>2. todo' # <<>> /\ Head(todo') = "delete" /\ Tail(todo') = Unstash1
      BY <3>1, ListFacts DEF Lists
    <3>. QED BY <2>1, <2>2, <3>1, <3>2 DEF OnCourse, Undoes, AtTail, At
  <2>3. CASE cmd.result \notin Undoing
    <3>1. cmd.kind \notin ReadOnly
      BY <1>0, <1>1, <1>6, <2>3 DEF OnCourse, Reads, AtTail
    <3>2. \/ todo' = PutS /\ cmd.kind = "add" /\ cmd.as # cmd.name
          \/ todo' = Sync1
          \/ todo' = SyncA /\ cmd.kind = "add" /\ cmd.as = cmd.name
          \/ todo' = DeleteS /\ cmd.kind \in {"remove", "upgrade"}
      BY <1>0, <1>1, <1>6, <2>1, <2>3, <3>1
         DEF OnCourse, Works, WorksFirst, WorksAgain, AtTail, Round
    <3>3. \/ /\ todo' # <<>> /\ Head(todo') = "put" /\ Tail(todo') = Sync1
             /\ cmd.kind = "add" /\ cmd.as # cmd.name
          \/ todo' # <<>> /\ Head(todo') = "sync" /\ Tail(todo') = <<>>
          \/ /\ todo' # <<>> /\ Head(todo') = "sync" /\ Tail(todo') = Adopt1
             /\ cmd.kind = "add" /\ cmd.as = cmd.name
          \/ /\ todo' # <<>> /\ Head(todo') = "delete" /\ Tail(todo') = Sync1
             /\ cmd.kind \in {"remove", "upgrade"}
      BY <3>2, ListFacts DEF Lists
    <3>4. Works' /\ ~At("publish")' /\ ~At("replace")'
      BY <2>1, <3>3 DEF Works, WorksFirst, WorksAgain, AtTail, Round, At
    <3>. QED BY <2>1, <2>3, <3>1, <3>4 DEF OnCourse
  <2>. QED BY <2>1, <2>2, <2>3
<1>7. CASE Publish
  <2>1. draft \in Seq(Entries) /\ manifest' \in Seq(Entries) /\ manifest' # None
    BY <1>1, <1>7 DEF Publish, TypeOK, Plan
  <2>2. Passes /\ Head(todo) = "publish"
    BY <1>7 DEF Publish, At
  <2>3. TypeOK'
    BY <1>6, <1>7, <2>1, <2>2 DEF TypeOK, Publish, Passes, Goes, plan, seen
  <2>. QED BY <1>1, <1>6, <2>1, <2>2, <2>3 DEF Plan
<1>8. CASE EditFails
  <2>1. /\ Head(todo) \in {"put", "drop"} /\ cmd.result \notin Undoing
        /\ manifest' = manifest /\ manifest # None
    BY <1>0, <1>8, AtFacts DEF EditFails, At, disk
  <2>2. CASE cmd.as # cmd.name
    <3>1. Passes /\ cmd.kind = "add"
      BY <1>1, <1>8, <2>2 DEF EditFails, Plan
    <3>2. TypeOK'
      BY <1>6, <1>8, <2>1, <2>2, <3>1
         DEF TypeOK, EditFails, Passes, Goes, plan, disk, seen
    <3>. QED BY <1>1, <1>6, <2>1, <2>2, <3>1, <3>2 DEF Plan
  <2>3. CASE cmd.as = cmd.name
    <3>1. /\ cmd' = [cmd EXCEPT !.result = "failed"]
          /\ todo' = IF cmd.kind = "add" THEN <<"unstash">> ELSE <<>>
          /\ Forgets /\ UNCHANGED <<disk, draft, seen>>
      BY <1>8, <2>3 DEF EditFails, FailsWith
    <3>2. /\ cmd' \in Commands /\ cmd' # None /\ cmd'.result = "failed"
          /\ cmd'.kind = cmd.kind /\ cmd'.name = cmd.name /\ cmd'.as = cmd.as
          /\ cmd'.spec = cmd.spec /\ cmd'.force = cmd.force
      BY <1>1, <3>1, ResultFacts
    <3>3. todo' \in Seq(Steps)
      BY <3>1, ProgramFacts
    <3>4. TypeOK'
      BY <3>1, <3>2, <3>3, ForgetsTyped DEF TypeOK, disk, seen
    <3>5. OnCourse' /\ ~At("publish")' /\ ~At("replace")'
      <4>1. CASE cmd.kind = "add"
        <5>1. todo' # <<>> /\ Head(todo') = "unstash" /\ Tail(todo') = <<>>
          BY <3>1, <4>1, ListFacts, ProgramTails DEF Lists
        <5>. QED BY <3>2, <4>1, <5>1 DEF OnCourse, Undoes, AtTail, At
      <4>2. CASE cmd.kind # "add"
        BY <3>1, <3>2, <4>2 DEF OnCourse, At
      <4>. QED BY <4>1, <4>2
    <3>. QED BY <1>1, <2>1, <3>2, <3>4, <3>5 DEF Plan
  <2>. QED BY <2>2, <2>3
<1>9. CASE RestoreFails
  <2>1. Head(todo) = "restore" /\ GivesUp /\ manifest # None
    BY <1>0, <1>9, AtFacts DEF RestoreFails, At
  <2>2. cmd.result \in Undoing /\ cmd.kind = "add" /\ Tail(todo) = DeleteU
    BY <1>0, <1>1, <2>1 DEF OnCourse, Undoes, Reads, Works, WorksFirst, WorksAgain,
                            AtTail, Round
  <2>3. /\ cmd' \in Commands /\ cmd' # None /\ cmd'.result \in Undoing
        /\ cmd'.kind = cmd.kind /\ cmd'.name = cmd.name /\ cmd'.as = cmd.as
        /\ cmd'.spec = cmd.spec /\ cmd'.force = cmd.force
        /\ todo' = DeleteU /\ todo' \in Seq(Steps)
    BY <1>0, <1>1, <2>1, <2>2, GivesUpFacts DEF TypeOK
  <2>4. manifest' \in Seq(Entries)
    <3>1. ASSUME NEW k \in 0..Len(cmd.before)
          PROVE  SubSeq(cmd.before, 1, k) \in Seq(Entries)
      <4>1. cmd.before \in Seq(Entries)
        BY <1>1 DEF Commands
      <4>. QED BY <4>1
    <3>2. manifest \in Seq(Entries)
      BY <1>0, <2>1, AtFacts
    <3>3. \/ manifest' = manifest
          \/ \E k \in 0..Len(cmd.before) : manifest' = SubSeq(cmd.before, 1, k)
      BY <1>9 DEF RestoreFails
    <3>. QED BY <3>1, <3>2, <3>3
  <2>5. manifest' # None
    BY <2>4
  <2>6. todo' # <<>> /\ Head(todo') = "delete" /\ Tail(todo') = Unstash1
    BY <2>3, ListFacts DEF Lists
  <2>7. TypeOK'
    BY <1>9, <2>1, <2>3, <2>4 DEF TypeOK, RestoreFails, GivesUp, plan, seen
  <2>8. OnCourse'
    BY <2>2, <2>3, <2>6 DEF OnCourse, Undoes, AtTail
  <2>. QED BY <1>1, <2>3, <2>5, <2>6, <2>7, <2>8 DEF Plan, At
<1>. QED BY <1>3, <1>4, <1>5, <1>7, <1>8, <1>9

\* One step of the deletion of a directory.
LEMMA ErodesTyped ==
  ASSUME TypeOK, Plan, NEW n \in Names, Erodes(n),
         todo # <<>>, Head(todo) \in {"delete", "replace"}
  PROVE  TypeOK' /\ Plan'
<1>1. lib' \in [Names -> Trees \cup {None}]
  BY DEF Erodes, Has, TypeOK
<1>2. TypeOK'
  BY <1>1 DEF TypeOK, Erodes, plan, seen
<1>. QED BY <1>2
     DEF Plan, Erodes, OnCourse, Undoes, Reads, Works, WorksFirst, WorksAgain,
         AtTail, At, plan, Visited

\* Steps on the directories.
LEMMA DirectoriesTyped ==
  ASSUME TypeOK, Plan,
         \/ Stash \/ StashFails \/ Unstash \/ UnstashFails
         \/ Delete \/ DeleteFails \/ Adopt \/ AdoptFails
  PROVE  TypeOK' /\ Plan'
<1>0. todo # <<>>
  BY DEF Stash, StashFails, Unstash, UnstashFails, Delete, DeleteFails, Adopt,
         AdoptFails, At
<1>1. cmd # None /\ cmd \in Commands /\ OnCourse
  BY <1>0, AtFacts DEF Plan
<1>2. CASE Stash
  <2>1. Head(todo) = "stash" /\ cmd.result \notin Undoing /\ manifest # None
    BY <1>0, <1>2, AtFacts DEF Stash, At
  <2>2. cmd.kind = "add" /\ cmd.as = cmd.name /\ Tail(todo) \in {PutS, PutSA}
    BY <1>0, <1>1, <2>1
       DEF OnCourse, Reads, Works, WorksFirst, WorksAgain, AtTail, Round
  <2>3. cmd.name \in Names /\ lib[cmd.name] \in Trees \cup {None}
    BY <1>1, <2>2 DEF Plan, TypeOK
  <2>4. cmd' = cmd
    BY <1>2 DEF Stash, Passes, Goes
  <2>5. /\ todo' \in Seq(Steps) /\ todo' # <<>>
        /\ Head(todo') = "put" /\ Tail(todo') \in {Sync1, SyncA}
    BY <1>2, <2>2, ListFacts DEF Stash, Passes, Goes, Lists
  <2>6. lib' \in [Names -> Trees \cup {None}]
    BY <1>2, <2>3 DEF TypeOK, Stash, Has
  <2>7. TypeOK'
    BY <1>1, <1>2, <2>4, <2>5, <2>6 DEF TypeOK, Stash, Passes, Goes, plan, seen
  <2>8. OnCourse'
    BY <2>1, <2>2, <2>4, <2>5 DEF OnCourse, Works, WorksFirst, AtTail, ReadOnly
  <2>. QED BY <1>1, <1>2, <2>1, <2>4, <2>5, <2>7, <2>8 DEF Plan, At, Stash
<1>3. CASE Unstash
  <2>1. Head(todo) = "unstash" /\ manifest # None
    BY <1>0, <1>3, AtFacts DEF Unstash, At
  <2>2. cmd.kind = "add" /\ cmd.result \in Undoing /\ Tail(todo) = <<>>
    BY <1>0, <1>1, <2>1
       DEF OnCourse, Undoes, Reads, Works, WorksFirst, WorksAgain, AtTail, Round
  <2>3. todo' = <<>> /\ cmd' = cmd /\ todo' \in Seq(Steps)
    BY <1>0, <1>3, <2>2, PassesFacts DEF Unstash, Passes, Goes
  <2>4. lib' \in [Names -> Trees \cup {None}]
    <3>1. cmd.name \in Names /\ cmd.found[cmd.name] \in Trees \cup {None}
      BY <1>1, <2>2 DEF Plan, Commands
    <3>. QED BY <1>3, <3>1 DEF Unstash, Has, TypeOK
  <2>5. TypeOK'
    BY <1>3, <2>3, <2>4 DEF TypeOK, Unstash, Passes, Goes, plan, seen
  <2>. QED BY <1>1, <1>3, <2>1, <2>2, <2>3, <2>5
       DEF Plan, OnCourse, Undoes, At, Unstash
<1>5. CASE Delete
  <2>1. Head(todo) = "delete" /\ manifest # None
    BY <1>0, <1>5, AtFacts DEF Delete, At
  <2>2. \/ /\ cmd.kind = "add" /\ cmd.result \in Undoing /\ Tail(todo) = Unstash1
        \/ /\ cmd.kind \in {"remove", "upgrade"} /\ cmd.result \notin Undoing
           /\ Tail(todo) = Sync1
    BY <1>0, <1>1, <2>1
       DEF OnCourse, Undoes, Reads, Works, WorksFirst, WorksAgain, AtTail, Round
  <2>3. CASE Erodes(cmd.name)
    BY <1>0, <1>1, <2>1, <2>2, <2>3, ErodesTyped DEF Plan
  <2>4. CASE Passes /\ UNCHANGED <<disk, draft, plan>>
    <3>1. \/ /\ cmd.kind = "add" /\ cmd.result \in Undoing
             /\ todo' # <<>> /\ Head(todo') = "unstash" /\ Tail(todo') = <<>>
          \/ /\ cmd.kind \in {"remove", "upgrade"} /\ cmd.result \notin Undoing
             /\ todo' # <<>> /\ Head(todo') = "sync" /\ Tail(todo') = <<>>
      BY <1>0, <2>2, <2>4, PassesFacts, ListFacts DEF Lists
    <3>2. cmd' = cmd /\ todo' \in Seq(Steps)
      BY <1>0, <2>4, PassesFacts DEF Passes, Goes
    <3>3. TypeOK'
      BY <1>1, <2>4, <3>2 DEF TypeOK, Passes, Goes, plan, seen, disk
    <3>4. OnCourse'
      BY <3>1, <3>2 DEF OnCourse, Undoes, Works, AtTail, Round, ReadOnly
    <3>. QED BY <1>1, <2>1, <2>4, <3>1, <3>2, <3>3, <3>4 DEF Plan, At, disk
  <2>. QED BY <1>5, <2>3, <2>4 DEF Delete
<1>6. CASE Adopt
  <2>1. Head(todo) = "adopt" /\ cmd.result \notin Undoing /\ manifest # None
    BY <1>0, <1>6, AtFacts DEF Adopt, At
  <2>2. cmd.kind = "add" /\ cmd.as = cmd.name /\ Tail(todo) = <<>>
    BY <1>0, <1>1, <2>1
       DEF OnCourse, Reads, Works, WorksFirst, WorksAgain, AtTail, Round
  <2>3. CASE Passes /\ UNCHANGED <<disk, draft, plan>>
    <3>1. cmd' = cmd /\ todo' = <<>> /\ todo' \in Seq(Steps)
      BY <1>0, <2>2, <2>3, PassesFacts DEF Passes, Goes
    <3>2. TypeOK'
      BY <1>1, <2>3, <3>1 DEF TypeOK, Passes, Goes, plan, seen, disk
    <3>. QED BY <1>1, <2>1, <2>2, <2>3, <3>1, <3>2
         DEF Plan, OnCourse, Works, At, disk, ReadOnly
  <2>4. ASSUME NEW i \in Names \ {cmd.name},
               lib' = [lib EXCEPT ![i] = lib[cmd.name], ![cmd.name] = None],
               cmd' = [cmd EXCEPT !.as = i, !.force = FALSE],
               todo' = <<"drop", "put", "sync">>,
               UNCHANGED <<manifest, lock, draft, plan, seen>>
        PROVE  TypeOK' /\ Plan'
    <3>1. /\ cmd' \in Commands /\ cmd'.result = cmd.result /\ cmd' # None
          /\ cmd'.kind = cmd.kind /\ cmd'.name = cmd.name /\ cmd'.as = i
          /\ cmd'.spec = cmd.spec /\ cmd'.force = FALSE
      <4>1. i \in Names /\ cmd' = [cmd EXCEPT !.as = i, !.force = FALSE]
        BY <2>4
      <4>2. cmd' \in Commands
        BY <1>1, <4>1 DEF Commands
      <4>3. cmd' # None
        BY <4>2
      <4>. QED BY <1>1, <4>1, <4>2, <4>3 DEF Commands
    <3>2. /\ todo' \in Seq(Steps) /\ todo' # <<>>
          /\ Head(todo') = "drop" /\ Tail(todo') = PutS
      BY <2>4, ProgramFacts, ProgramTails
    <3>3. cmd.name \in Names /\ cmd.spec \in Specs
      BY <1>1, <2>2 DEF Plan
    <3>4. lib' \in [Names -> Trees \cup {None}]
      BY <2>4, <3>3 DEF TypeOK
    <3>5. TypeOK'
      BY <2>4, <3>1, <3>2, <3>4 DEF TypeOK, plan, seen
    <3>6. OnCourse'
      BY <2>1, <2>2, <2>4, <3>1, <3>2
         DEF OnCourse, Works, WorksAgain, AtTail, ReadOnly
    <3>. QED BY <2>1, <2>2, <2>4, <3>1, <3>2, <3>3, <3>5, <3>6 DEF Plan, At
  <2>. QED BY <1>6, <2>3, <2>4 DEF Adopt
<1>7. CASE StashFails
  <2>1. Head(todo) = "stash" /\ cmd.result \notin Undoing /\ manifest # None
    BY <1>0, <1>7, AtFacts DEF StashFails, At
  <2>2. /\ cmd' = [cmd EXCEPT !.result = "failed"] /\ todo' = <<>>
        /\ Forgets /\ UNCHANGED <<disk, draft, seen>>
    BY <1>7 DEF StashFails, FailsWith
  <2>3. /\ cmd' \in Commands /\ cmd' # None /\ cmd'.result = "failed"
        /\ cmd'.kind = cmd.kind /\ cmd'.name = cmd.name /\ cmd'.as = cmd.as
        /\ cmd'.spec = cmd.spec /\ cmd'.force = cmd.force
    BY <1>1, <2>2, ResultFacts
  <2>4. todo' \in Seq(Steps)
    <3>1. <<>> \in Seq(Steps)
      OBVIOUS
    <3>. QED BY <2>2, <3>1
  <2>5. TypeOK'
    BY <2>2, <2>3, <2>4, ForgetsTyped DEF TypeOK, disk, seen
  <2>. QED BY <1>1, <2>1, <2>2, <2>3, <2>5 DEF Plan, OnCourse, Undoes, At, disk
<1>8. ASSUME GivesUp, UNCHANGED <<disk, draft, plan>>, manifest # None,
             \/ /\ Head(todo) = "unstash" /\ Tail(todo) = <<>>
                /\ cmd.kind = "add" /\ cmd.result \in Undoing
             \/ /\ Head(todo) = "delete" /\ Tail(todo) = Unstash1
                /\ cmd.kind = "add" /\ cmd.result \in Undoing
             \/ /\ Head(todo) = "delete" /\ Tail(todo) = Sync1
                /\ cmd.kind \in {"remove", "upgrade"}
                /\ cmd.result \notin Undoing
      PROVE  TypeOK' /\ Plan'
  <2>1. /\ cmd' \in Commands /\ cmd' # None
        /\ cmd'.result \in Undoing <=> cmd.result \in Undoing
        /\ cmd'.kind = cmd.kind /\ cmd'.name = cmd.name /\ cmd'.as = cmd.as
        /\ cmd'.spec = cmd.spec /\ cmd'.force = cmd.force
        /\ todo' = Tail(todo) /\ todo' \in Seq(Steps)
    BY <1>0, <1>1, <1>8, GivesUpFacts DEF TypeOK
  <2>2. \/ todo' = <<>> /\ cmd.kind = "add" /\ cmd.result \in Undoing
        \/ /\ todo' # <<>> /\ Head(todo') = "unstash" /\ Tail(todo') = <<>>
           /\ cmd.kind = "add" /\ cmd.result \in Undoing
        \/ /\ todo' # <<>> /\ Head(todo') = "sync" /\ Tail(todo') = <<>>
           /\ cmd.kind \in {"remove", "upgrade"}
           /\ cmd.result \notin Undoing
    BY <1>8, <2>1, ListFacts DEF Lists
  <2>3. TypeOK'
    BY <1>8, <2>1 DEF TypeOK, GivesUp, disk, plan, seen
  <2>4. OnCourse'
    BY <2>1, <2>2 DEF OnCourse, Undoes, Works, AtTail, Round, ReadOnly
  <2>. QED BY <1>1, <1>8, <2>1, <2>2, <2>3, <2>4 DEF Plan, At, disk
<1>9. CASE UnstashFails
  <2>1. Head(todo) = "unstash" /\ manifest # None
    BY <1>0, <1>9, AtFacts DEF UnstashFails, At
  <2>2. cmd.kind = "add" /\ cmd.result \in Undoing /\ Tail(todo) = <<>>
    BY <1>0, <1>1, <2>1
       DEF OnCourse, Undoes, Reads, Works, WorksFirst, WorksAgain, AtTail, Round
  <2>. QED BY <1>8, <1>9, <2>1, <2>2 DEF UnstashFails
<1>10. CASE DeleteFails
  <2>1. Head(todo) = "delete" /\ manifest # None
    BY <1>0, <1>10, AtFacts DEF DeleteFails, At
  <2>2. \/ /\ cmd.kind = "add" /\ cmd.result \in Undoing
           /\ Tail(todo) = Unstash1
        \/ /\ cmd.kind \in {"remove", "upgrade"} /\ cmd.result \notin Undoing
           /\ Tail(todo) = Sync1
    BY <1>0, <1>1, <2>1
       DEF OnCourse, Undoes, Reads, Works, WorksFirst, WorksAgain, AtTail, Round
  <2>. QED BY <1>8, <1>10, <2>1, <2>2 DEF DeleteFails
<1>11. CASE AdoptFails
  <2>1. Head(todo) = "adopt" /\ cmd.result \notin Undoing /\ manifest # None
    BY <1>0, <1>11, AtFacts DEF AdoptFails, At
  <2>2. cmd.kind = "add" /\ cmd.as = cmd.name /\ Tail(todo) = <<>>
    BY <1>0, <1>1, <2>1
       DEF OnCourse, Reads, Works, WorksFirst, WorksAgain, AtTail, Round
  <2>3. cmd' = cmd /\ todo' = <<>> /\ todo' \in Seq(Steps)
    BY <1>0, <1>11, <2>2, PassesFacts DEF AdoptFails, Passes, Goes
  <2>4. TypeOK'
    BY <1>1, <1>11, <2>3 DEF TypeOK, AdoptFails, Passes, Goes, plan, seen, disk
  <2>. QED BY <1>1, <1>11, <2>1, <2>2, <2>3, <2>4
       DEF Plan, OnCourse, Works, At, disk, ReadOnly, AdoptFails
<1>. QED BY <1>2, <1>3, <1>5, <1>6, <1>7, <1>9, <1>10, <1>11

\* The graph has packages under the names of directories.
LEMMA GraphFacts ==
  ASSUME TypeOK
  PROVE  /\ DOMAIN graph \subseteq Names
         /\ \A n \in DOMAIN graph : graph[n] \in Packages
<1>1. PICK D \in SUBSET Names : graph \in [D -> Packages]
  BY DEF TypeOK, Graphs
<1>. QED BY <1>1

\* What a script writes in a package.
LEMMA ScriptTyped ==
  ASSUME TypeOK, Plan, ScriptWrites
  PROVE  TypeOK' /\ Plan'
<1>1. /\ cmd' = cmd /\ todo' = todo /\ At("scripts")
      /\ UNCHANGED <<manifest, lock, draft, plan, seen>>
  BY DEF ScriptWrites, Goes
<1>2. PICK n \in DOMAIN graph :
        lib[n] # None /\ \E t \in Builds[lib[n]] : Has(n, t)
  BY DEF ScriptWrites
<1>3. n \in Names /\ lib[n] \in Trees
  BY <1>2, GraphFacts DEF TypeOK
<1>4. PICK t \in Trees : lib' = [lib EXCEPT ![n] = t]
  <2>1. Builds[lib[n]] \subseteq Trees
    BY <1>3, BuildAssumption
  <2>. QED BY <1>2, <2>1 DEF Has
<1>5. lib' \in [Names -> Trees \cup {None}]
  BY <1>3, <1>4 DEF TypeOK
<1>6. TypeOK'
  BY <1>1, <1>5 DEF TypeOK, plan, seen
<1>. QED BY <1>1, <1>6, SMTT(30)
     DEF Plan, OnCourse, Undoes, Reads, Works, WorksFirst, WorksAgain, AtTail,
         At, plan, Visited

\* The visited entry, and what entering its package does to the graph.
LEMMA VisitedFacts ==
  ASSUME TypeOK, queue # <<>>
  PROVE  /\ Visited \in Entries /\ Visited.name \in Names
         /\ Visited.spec \in Specs /\ Tail(queue) \in Seq(Entries)
         /\ lib[Visited.name] \in Trees \cup {None}
<1>1. Visited \in Entries /\ Tail(queue) \in Seq(Entries)
  BY DEF TypeOK, Visited
<1>2. Visited.name \in Names /\ Visited.spec \in Specs
  BY <1>1 DEF Entries
<1>. QED BY <1>1, <1>2 DEF TypeOK

\* A package that enters the graph leaves it a graph, and the queue a list
\* of entries.
LEMMA EntersTyped ==
  ASSUME TypeOK, queue # <<>>, NEW version \in Versions,
         lib'[Visited.name] \in Trees, Enters(version)
  PROVE  queue' \in Seq(Entries) /\ graph' \in Graphs /\ stage' = None
<1> DEFINE n == Visited.name
           p == [version |-> version, tree |-> lib'[n], spec |-> Visited.spec]
<1>1. n \in Names /\ p \in Packages
  BY VisitedFacts DEF Packages
<1>2. graph' = [m \in DOMAIN graph \cup {n} |-> IF m = n THEN p ELSE graph[m]]
  BY DEF Enters
<1>3. queue' = Tail(queue) \o Needs[lib'[n]] /\ stage' = None
  BY DEF Enters
<1>4. Needs[lib'[n]] \in Seq(Entries)
  OBVIOUS
<1> HIDE DEF n, p
<1>5. graph' \in Graphs
  <2>1. graph \in Graphs
    BY DEF TypeOK
  <2>2. PICK D \in SUBSET Names : graph \in [D -> Packages]
    BY <2>1 DEF Graphs
  <2>3. graph' \in [D \cup {n} -> Packages]
    BY <1>1, <1>2, <2>2
  <2>4. D \cup {n} \in SUBSET Names
    BY <1>1
  <2>. QED BY <2>3, <2>4 DEF Graphs
<1>6. queue' \in Seq(Entries)
  BY <1>3, <1>4, VisitedFacts
<1>. QED BY <1>3, <1>5, <1>6

\* A step that leaves the manifest, the draft and the directories alone, and
\* after which the command is not about to replace a directory.
LEMMA StaysTyped ==
  ASSUME TypeOK, Plan, todo # <<>>, Head(todo) # "publish",
         UNCHANGED <<manifest, lib, draft, cmd, seen>>,
         lock' \in Graphs \cup {None},
         queue' \in Seq(Entries), graph' \in Graphs, stage' = stage \/ stage' = None,
         todo' \in Seq(Steps), OnCourse', ~At("publish")', ~At("replace")'
  PROVE  TypeOK' /\ Plan'
<1>1. cmd # None
  BY AtFacts
<1>2. TypeOK'
  BY <1>1 DEF TypeOK, seen
<1>. QED BY <1>1, <1>2 DEF Plan, At

\* Steps of sync and of the driver that only change the resolver's state or
\* the lock.
LEMMA RoundTyped ==
  ASSUME TypeOK, Plan,
         Sync \/ Resolve \/ Resolved \/ Scripts \/ WriteLock \/ Seal
           \/ Compare
  PROVE  TypeOK' /\ Plan'
<1>0. todo # <<>>
  BY DEF Sync, Resolve, Resolved, Scripts, WriteLock, Seal, Compare, At
<1>1. cmd # None /\ OnCourse
  BY <1>0, AtFacts DEF Plan
<1>2. /\ lock \in Graphs \cup {None} /\ queue \in Seq(Entries)
      /\ graph \in Graphs
  BY DEF TypeOK
<1>3. ASSUME NEW x \in Round \cup {"compare"}, Turns(x), x # "replace",
             Head(todo) \in Round,
             cmd.kind \in ReadOnly => x \in {"visit", "compare"},
             cmd.kind \notin ReadOnly => x # "compare",
             UNCHANGED <<manifest, lib, draft, graph, stage>>,
             lock' \in Graphs \cup {None}, queue' \in Seq(Entries)
      PROVE  TypeOK' /\ Plan'
  <2>1. /\ todo' \in Seq(Steps) /\ todo' # <<>> /\ Head(todo') = x /\ OnCourse'
        /\ x # "publish" /\ Head(todo) # "publish"
    BY <1>0, <1>3, TurnsTyped DEF Round
  <2>2. ~At("publish")' /\ ~At("replace")'
    BY <1>3, <2>1 DEF At
  <2>3. UNCHANGED <<cmd, seen>>
    BY <1>3 DEF Turns, Goes
  <2>. QED BY <1>0, <1>2, <1>3, <2>1, <2>2, <2>3, StaysTyped
<1>4. ASSUME Passes, Head(todo) \in Round \cup {"compare"},
             UNCHANGED <<manifest, lib, draft>>,
             lock' \in Graphs \cup {None}, queue' \in Seq(Entries),
             graph' \in Graphs, stage' = stage \/ stage' = None
      PROVE  TypeOK' /\ Plan'
  <2>1. /\ todo' \in Seq(Steps) /\ OnCourse'
        /\ ~At("publish")' /\ ~At("replace")' /\ Head(todo) # "publish"
    BY <1>0, <1>4, RoundEnds DEF Round
  <2>2. UNCHANGED <<cmd, seen>>
    BY <1>4 DEF Passes, Goes
  <2>. QED BY <1>0, <1>4, <2>1, <2>2, StaysTyped
<1>5. ASSUME Fails, UNCHANGED <<disk, draft>>,
             Head(todo) \in Round \cup {"compare"}
      PROVE  TypeOK' /\ Plan'
  BY <1>0, <1>1, <1>5, AtFacts, FailsTyped DEF Round, At
<1>6. CASE Sync
  <2>1. Head(todo) = "sync" /\ "resolve" \in Round /\ "sync" \in Round
    BY <1>6 DEF Sync, At, Round
  <2>2. cmd.kind \notin ReadOnly
    BY <1>0, <1>1, <2>1, AtFacts DEF OnCourse, Reads, AtTail, Round
  <2>3. CASE lock' = None /\ Passes
    BY <1>2, <1>4, <1>6, <2>1, <2>3 DEF Sync, plan
  <2>4. CASE Turns("resolve") /\ UNCHANGED lock
    BY <1>2, <1>3, <1>6, <2>1, <2>2, <2>4 DEF Sync, plan
  <2>. QED BY <1>6, <2>3, <2>4 DEF Sync
<1>7. CASE Resolve
  <2>1. Head(todo) = "resolve" /\ "visit" \in Round /\ "resolve" \in Round
    BY <1>7 DEF Resolve, At, Round
  <2>2. queue' \in Seq(Entries)
    BY <1>0, <1>7, <2>1, AtFacts DEF Resolve
  <2>. QED BY <1>2, <1>3, <1>7, <2>1, <2>2 DEF Resolve, disk
<1>8. CASE Resolved
  <2>1. Head(todo) = "visit" /\ "visit" \in Round
        /\ "lock" \in Round /\ "scripts" \in Round
    BY <1>8 DEF Resolved, At, Round
  <2>2. cmd.kind \in ReadOnly => cmd.kind = "locked"
    BY <1>0, <1>1, <2>1, AtFacts DEF OnCourse, Reads, AtTail, Round
  <2>3. PICK x \in {"lock", "compare", "scripts"} :
          /\ Turns(x)
          /\ cmd.kind \in ReadOnly => x = "compare"
          /\ cmd.kind \notin ReadOnly => x # "compare"
    BY <1>8, <2>2 DEF Resolved, ReadOnly
  <2>. QED BY <1>2, <1>3, <1>8, <2>1, <2>3 DEF Resolved, disk, plan
<1>9. CASE Scripts
  <2>1. Head(todo) = "scripts" /\ "scripts" \in Round /\ "lock" \in Round
    BY <1>9 DEF Scripts, At, Round
  <2>2. cmd.kind \notin ReadOnly
    BY <1>0, <1>1, <2>1, AtFacts DEF OnCourse, Reads, AtTail, Round
  <2>3. CASE Turns("lock") /\ UNCHANGED plan
    BY <1>2, <1>3, <1>9, <2>1, <2>2, <2>3 DEF Scripts, disk, plan
  <2>. QED BY <1>5, <1>9, <2>1, <2>3 DEF Scripts
<1>10. CASE WriteLock
  <2>1. Head(todo) = "lock" /\ "lock" \in Round /\ "seal" \in Round
    BY <1>10 DEF WriteLock, At, Round
  <2>2. cmd.kind \notin ReadOnly
    BY <1>0, <1>1, <2>1, AtFacts DEF OnCourse, Reads, AtTail, Round
  <2>. QED BY <1>2, <1>3, <1>10, <2>1, <2>2 DEF WriteLock, plan
<1>11. CASE Seal
  <2>1. Head(todo) = "seal" /\ "seal" \in Round
    BY <1>11 DEF Seal, At, Round
  <2>. QED BY <1>2, <1>4, <1>11, <2>1, ForgetsTyped DEF Seal
<1>12. CASE Compare
  <2>1. Head(todo) = "compare"
    BY <1>12 DEF Compare, At
  <2>2. CASE Passes /\ Forgets
    BY <1>2, <1>4, <1>12, <2>1, <2>2, ForgetsTyped DEF Compare, disk
  <2>. QED BY <1>5, <1>12, <2>1, <2>2 DEF Compare
<1>. QED BY <1>6, <1>7, <1>8, <1>9, <1>10, <1>11, <1>12

\* The visit of an entry of the queue.
LEMMA VisitTyped ==
  ASSUME TypeOK, Plan,
         \/ VisitKnown \/ VisitInstalled \/ \E t \in Trees : Fetch(t)
         \/ FetchFails \/ Replace \/ ReplaceFails
  PROVE  TypeOK' /\ Plan'
<1>0. todo # <<>> /\ Head(todo) \in {"visit", "replace"}
  BY DEF VisitKnown, VisitInstalled, Fetch, FetchFails, Replace, ReplaceFails,
         AtEntry, At
<1>1. /\ cmd # None /\ OnCourse /\ cmd.result \notin Undoing
      /\ Head(todo) \in Round /\ Head(todo) # "publish" /\ "visit" \in Round
  BY <1>0, AtFacts DEF Plan, Round
<1>2. queue # <<>>
  BY <1>0, <1>1 DEF VisitKnown, VisitInstalled, Fetch, FetchFails, Replace,
              ReplaceFails, AtEntry, Plan, At
<1>3. /\ Visited \in Entries /\ Visited.name \in Names /\ Visited.spec \in Specs
      /\ Tail(queue) \in Seq(Entries) /\ lib[Visited.name] \in Trees \cup {None}
      /\ lock \in Graphs \cup {None} /\ graph \in Graphs
  BY <1>2, VisitedFacts DEF TypeOK
<1>4. ASSUME Fails, UNCHANGED <<disk, draft>>
      PROVE  TypeOK' /\ Plan'
  BY <1>0, <1>1, <1>4, FailsTyped DEF At
<1>5. ASSUME Goes(todo), Head(todo) = "visit",
             UNCHANGED <<disk, draft>>,
             queue' \in Seq(Entries), graph' \in Graphs,
             stage' = stage \/ stage' = None
      PROVE  TypeOK' /\ Plan'
  <2>1. /\ todo' = todo /\ UNCHANGED <<cmd, seen>>
        /\ todo' \in Seq(Steps) /\ ~At("publish")' /\ ~At("replace")'
    BY <1>5 DEF Goes, At, TypeOK
  <2>2. OnCourse'
    BY <1>1, <2>1 DEF OnCourse, Undoes, Reads, Works, WorksFirst, WorksAgain,
                      AtTail
  <2>. QED BY <1>0, <1>1, <1>3, <1>5, <2>1, <2>2, StaysTyped DEF disk
<1>6. CASE VisitKnown
  <2>1. CASE Fails
    BY <1>4, <1>6, <2>1 DEF VisitKnown
  <2>2. CASE Goes(todo) /\ queue' = Tail(queue) /\ UNCHANGED <<graph, stage>>
    BY <1>3, <1>5, <1>6, <2>2 DEF VisitKnown, AtEntry, At
  <2>. QED BY <1>6, <2>1, <2>2 DEF VisitKnown
<1>7. CASE VisitInstalled
  <2>1. /\ lib' = lib /\ lib[Visited.name] \in Trees
        /\ Enters(Version[lib[Visited.name]])
    BY <1>3, <1>7 DEF VisitInstalled, MustInstall, Suits, disk
  <2>2. Version[lib[Visited.name]] \in Versions
    BY <2>1
  <2>3. queue' \in Seq(Entries) /\ graph' \in Graphs /\ stage' = None
    BY <1>2, <2>1, <2>2, EntersTyped
  <2>. QED BY <1>5, <1>7, <2>3 DEF VisitInstalled, AtEntry, At
<1>8. ASSUME NEW t \in Trees, Fetch(t)
      PROVE  TypeOK' /\ Plan'
  <2> DEFINE v == IF Told[Visited.spec] # None THEN Told[Visited.spec]
                  ELSE Version[t]
  <2>1. v \in Versions
    BY <1>3
  <2> HIDE DEF v
  <2>2. CASE Fails
    BY <1>4, <1>8, <2>2 DEF Fetch
  <2>3. CASE /\ stage' = [tree |-> t, version |-> v]
             /\ Turns("replace") /\ UNCHANGED <<queue, graph>>
    <3>1. stage' \in Stages /\ stage' # None
      <4>1. stage' \in Stages
        BY <2>1, <2>3 DEF Stages
      <4>. QED BY <4>1
    <3>2. cmd.kind \notin ReadOnly /\ Head(todo) = "visit"
      BY <1>0, <1>1, <1>8 DEF Fetch, AtEntry, At, OnCourse, Reads, AtTail, ReadOnly
    <3>3. /\ cmd' = cmd /\ todo' \in Seq(Steps) /\ todo' # <<>>
          /\ Head(todo') = "replace" /\ OnCourse'
      <4>1. "replace" \in Round
        BY DEF Round
      <4>. QED BY <1>0, <1>1, <2>3, <3>2, <4>1, TurnsTyped
    <3>4. UNCHANGED <<disk, draft, seen>> /\ Visited.name \notin DOMAIN graph
      BY <1>8, <2>3 DEF Fetch, Turns, Goes
    <3>5. TypeOK'
      BY <1>1, <2>3, <3>1, <3>3, <3>4 DEF TypeOK, disk, seen
    <3>. QED BY <1>0, <1>1, <1>2, <2>3, <3>1, <3>2, <3>3, <3>4, <3>5
         DEF Plan, At, Visited, disk
  <2>. QED BY <1>8, <2>2, <2>3 DEF Fetch, v
<1>9. CASE FetchFails
  BY <1>4, <1>9 DEF FetchFails
<1>10. CASE Replace
  <2>1. Head(todo) = "replace" /\ stage # None
    BY <1>1, <1>10 DEF Replace, At, Plan
  <2>2. CASE Erodes(Visited.name)
    BY <1>0, <1>3, <2>1, <2>2, ErodesTyped
  <2>3. CASE /\ Has(Visited.name, stage.tree) /\ Enters(stage.version)
             /\ Turns("visit") /\ UNCHANGED <<manifest, lock, draft>>
    <3>1. stage.tree \in Trees /\ stage.version \in Versions
      BY <2>1 DEF TypeOK, Stages
    <3>2. /\ lib' \in [Names -> Trees \cup {None}]
          /\ lib'[Visited.name] \in Trees
      BY <1>3, <2>3, <3>1 DEF Has, TypeOK
    <3>3. queue' \in Seq(Entries) /\ graph' \in Graphs /\ stage' = None
      BY <1>2, <2>3, <3>1, <3>2, EntersTyped
    <3>4. cmd.kind \notin ReadOnly
      BY <1>0, <1>1, <2>1 DEF OnCourse, Reads, AtTail
    <3>5. /\ cmd' = cmd /\ todo' \in Seq(Steps) /\ todo' # <<>>
          /\ Head(todo') = "visit" /\ OnCourse'
      BY <1>0, <1>1, <2>3, <3>4, TurnsTyped
    <3>6. TypeOK'
      BY <1>3, <2>3, <3>2, <3>3, <3>5 DEF TypeOK, Turns, Goes, seen
    <3>. QED BY <1>0, <1>1, <2>3, <3>5, <3>6 DEF Plan, At
  <2>. QED BY <1>10, <2>2, <2>3 DEF Replace
<1>11. CASE ReplaceFails
  BY <1>4, <1>11 DEF ReplaceFails
<1>. QED BY <1>6, <1>7, <1>8, <1>9, <1>10, <1>11

\* The other steps of a command.
LEMMA EndsTyped ==
  ASSUME TypeOK, Plan, LockFails \/ Inspect \/ Finish
  PROVE  TypeOK' /\ Plan'
<1>1. CASE LockFails
  <2>1. todo # <<>> /\ Head(todo) = "lock" /\ UNCHANGED <<disk, draft>>
    BY <1>1 DEF LockFails, At
  <2>2. /\ cmd # None /\ cmd \in Commands /\ cmd.result \notin Undoing
        /\ OnCourse /\ ~At("publish") /\ manifest # None
    BY <2>1, AtFacts DEF Plan, Round, At
  <2>3. CASE Fails
    BY <2>1, <2>2, <2>3, FailsTyped
  <2>4. CASE /\ cmd.kind = "build"
             /\ cmd' = [cmd EXCEPT !.result = "unlocked"]
             /\ todo' = Tail(todo) /\ Forgets /\ UNCHANGED seen
    <3>1. /\ cmd' \in Commands /\ cmd' # None /\ cmd'.result = "unlocked"
          /\ cmd'.kind = cmd.kind /\ cmd'.name = cmd.name /\ cmd'.as = cmd.as
      BY <2>2, <2>4, ResultFacts
    <3>2. Tail(todo) = <<>>
      BY <2>1, <2>2, <2>4 DEF OnCourse, Works, WorksFirst, WorksAgain, AtTail,
                              ReadOnly
    <3>3. todo' = <<>> /\ todo' \in Seq(Steps)
      <4>1. <<>> \in Seq(Steps)
        OBVIOUS
      <4>. QED BY <2>4, <3>2, <4>1
    <3>4. TypeOK'
      BY <2>1, <2>4, <3>1, <3>3, ForgetsTyped DEF TypeOK, disk, seen
    <3>. QED BY <2>1, <2>2, <2>4, <3>1, <3>3, <3>4
         DEF Plan, OnCourse, Works, At, ReadOnly, disk
  <2>. QED BY <1>1, <2>3, <2>4 DEF LockFails
<1>2. CASE Inspect
  <2>1. todo # <<>> /\ Head(todo) = "inspect" /\ UNCHANGED <<disk, draft>>
    BY <1>2 DEF Inspect, At
  <2>2. /\ cmd # None /\ cmd \in Commands /\ cmd.result \notin Undoing
        /\ OnCourse /\ ~At("publish") /\ manifest # None
    BY <2>1, AtFacts DEF Plan, At
  <2>3. CASE Fails
    BY <2>1, <2>2, <2>3, FailsTyped
  <2>4. CASE Passes /\ UNCHANGED plan
    <3>1. cmd.kind \in ReadOnly /\ Tail(todo) = <<>>
      BY <2>1, <2>2 DEF OnCourse, Reads, Works, WorksFirst, WorksAgain, AtTail,
                        Round
    <3>2. todo' = <<>> /\ todo' \in Seq(Steps) /\ UNCHANGED <<cmd, seen>>
      BY <2>1, <2>4, <3>1, PassesFacts DEF Passes, Goes
    <3>3. TypeOK'
      BY <2>1, <2>2, <2>4, <3>2 DEF TypeOK, disk, plan, seen
    <3>. QED BY <2>1, <2>2, <3>1, <3>2, <3>3
         DEF Plan, OnCourse, Reads, At, disk
  <2>. QED BY <1>2, <2>3, <2>4 DEF Inspect
<1>3. CASE Finish
  <2>1. outcome' \in Outcomes
    BY <1>3 DEF Finish, TypeOK, Commands, Outcomes
  <2>2. settled' \in BOOLEAN
    BY <1>3 DEF Finish, TypeOK
  <2>. QED BY <1>3, <2>1, <2>2 DEF Finish, TypeOK, Plan, disk, plan
<1>. QED BY <1>1, <1>2, <1>3

\* No step leaves the types or the courses.
LEMMA NextTyped ==
  ASSUME TypeOK, Plan, [Next]_vars
  PROVE  TypeOK' /\ Plan'
<1>1. CASE Begin
  BY <1>1, BeginsTyped
<1>2. CASE Work
  BY <1>2, ManifestTyped, DirectoriesTyped, RoundTyped, ScriptTyped, VisitTyped,
     EndsTyped DEF Work
<1>3. CASE Killed
  <2>1. TypeOK'
    <3>1. <<>> \in Seq(Steps)
      OBVIOUS
    <3>2. settled' \in BOOLEAN
      BY <1>3 DEF Killed, TypeOK
    <3>. QED BY <1>3, <3>1, <3>2, ForgetsTyped DEF Killed, TypeOK, disk
  <2>. QED BY <1>3, <2>1 DEF Killed, Plan
<1>4. CASE Checkout
  <2>1. TypeOK'
    BY <1>4 DEF Checkout, TypeOK, plan, Nothing
  <2>. QED BY <1>4, <2>1 DEF Checkout, Plan
<1>5. CASE UNCHANGED vars
  BY <1>5, SMTT(30) DEF vars, TypeOK, Plan, OnCourse, Reads, Works, WorksFirst,
              WorksAgain, Undoes, AtTail, At, Visited
<1>. QED BY <1>1, <1>2, <1>3, <1>4, <1>5 DEF Next

\* The invariant that the types of the state follow from.
Typed == TypeOK /\ Plan

\* In every reachable state the variables have their types, and the command
\* has one of the lists of steps that deps.pengu and build.pengu give it.
THEOREM TypedInvariant == Spec => []Typed
<1>1. Init => Typed
  <2>1. ASSUME Init
        PROVE  TypeOK
    <3>1. lib \in [Names -> Trees \cup {None}]
      BY <2>1 DEF Init, Nothing
    <3>2. <<>> \in Seq(Entries) /\ <<>> \in Seq(Steps)
      OBVIOUS
    <3>. QED BY <2>1, <3>1, <3>2, NoPackageTyped DEF Init, TypeOK
  <2>. QED BY <2>1 DEF Init, Typed, Plan
<1>2. Typed /\ [Next]_vars => Typed'
  BY NextTyped DEF Typed
<1>. QED BY <1>1, <1>2, PTL DEF Spec

\* The variables keep their types.
THEOREM TypeCorrect == Spec => []TypeOK
<1>1. Typed => TypeOK
  BY DEF Typed
<1>. QED BY <1>1, TypedInvariant, PTL

-----------------------------------------------------------------------------
(* A failed add is undone.                                                 *)

\* Until the package is put aside nothing has changed; until the manifest is
\* written it is the old one, and the directory is free; and a rollback of
\* which nothing has failed puts the manifest back before it empties and fills
\* the directory.
Rollback ==
  cmd # None /\ cmd.kind = "add" =>
    /\ cmd.result = "failed" =>
         /\ At("publish") => draft = cmd.before
         /\ ~At("restore") /\ ~At("publish") => manifest = cmd.before
         /\ At("unstash") => lib[cmd.name] = None
         /\ todo = <<>> => lib[cmd.name] = cmd.found[cmd.name]
    /\ cmd.result \notin Undoing =>
         /\ At("stash") =>
              manifest = cmd.before /\ lib[cmd.name] = cmd.found[cmd.name]
         /\ At("put") /\ cmd.as = cmd.name =>
              manifest = cmd.before /\ lib[cmd.name] = None

\* The rollback starts by writing the old text of pengu.toml.
LEMMA FailsRollback ==
  ASSUME TypeOK, cmd # None, Fails
  PROVE  Rollback'
<1>1. /\ cmd' = [cmd EXCEPT !.result = "failed"]
      /\ todo' = IF cmd.kind = "add" THEN <<"restore", "delete", "unstash">>
                 ELSE <<>>
  BY DEF Fails, FailsWith
<1>2. cmd \in Commands
  BY DEF TypeOK
<1>3. cmd'.result = "failed" /\ cmd'.kind = cmd.kind
  BY <1>1, <1>2, ResultFacts
<1>4. CASE cmd.kind = "add"
  <2>1. todo' # <<>> /\ Head(todo') = "restore"
    BY <1>1, <1>4, ProgramFacts, ProgramTails
  <2>. QED BY <1>3, <1>4, <2>1 DEF Rollback, At
<1>5. CASE cmd.kind # "add"
  BY <1>3, <1>5 DEF Rollback
<1>. QED BY <1>4, <1>5

\* Once add has put the directory aside and entered the package, nothing
\* but a failure concerns the rollback.
LEMMA WorksRollback ==
  ASSUME cmd # None, cmd.result \notin Undoing,
         cmd' = cmd, ~At("stash")', At("put")' => cmd.as # cmd.name
  PROVE  Rollback'
  BY DEF Rollback

\* A synchronisation, whatever it does to the directories, leaves what the
\* rollback will restore.
LEMMA RoundRollback ==
  ASSUME TypeOK, Plan, Rollback,
         \/ Sync \/ Resolve \/ Resolved \/ ScriptWrites \/ Scripts \/ WriteLock
         \/ Seal \/ Compare \/ VisitKnown \/ VisitInstalled \/ FetchFails
         \/ Replace \/ ReplaceFails \/ LockFails \/ Inspect
         \/ \E t \in Trees : Fetch(t)
  PROVE  Rollback'
<1>1. /\ todo # <<>>
      /\ Head(todo) \in {"sync", "resolve", "visit", "replace", "scripts",
                         "lock", "seal", "compare", "inspect"}
  BY DEF Sync, Resolve, Resolved, ScriptWrites, Scripts, WriteLock, Seal, Compare,
         VisitKnown, VisitInstalled, FetchFails, Replace, ReplaceFails,
         LockFails, Inspect, Fetch, AtEntry, At
<1>2. cmd # None /\ cmd \in Commands /\ cmd.result \notin Undoing /\ ~At("stash")
      /\ ~At("put") /\ OnCourse
  BY <1>1, AtFacts DEF Round, At, Plan
<1>3. CASE Fails
  BY <1>2, <1>3, FailsRollback
<1>4. CASE /\ cmd' = cmd
           /\ todo' # <<>> => Head(todo') \notin {"stash", "put"}
  BY <1>2, <1>4, WorksRollback DEF At
<1>5. ASSUME NEW x \in Round \cup {"compare"}, Turns(x)
      PROVE  Rollback'
  <2>1. todo' # <<>> /\ Head(todo') = x /\ cmd' = cmd
    <3>1. x \in Steps
      BY DEF Round, Steps
    <3>. QED BY <1>1, <1>5, <3>1, PassesFacts DEF Turns, Goes
  <2>. QED BY <1>4, <2>1 DEF Round
<1>6. ASSUME Passes, Head(todo) \in Round \cup {"compare"}
      PROVE  Rollback'
  BY <1>1, <1>4, <1>6, RoundEnds
<1>7. CASE cmd' = cmd /\ todo' = todo
  BY <1>1, <1>4, <1>7
<1>8. CASE Sync
  <2>1. Head(todo) \in Round /\ "resolve" \in Round
    BY <1>8 DEF Sync, At, Round
  <2>. QED BY <1>5, <1>6, <1>8, <2>1 DEF Sync
<1>9. CASE Resolve \/ Resolved \/ WriteLock
  <2>1. PICK x \in Round \cup {"compare"} : Turns(x)
    BY <1>9 DEF Resolve, Resolved, WriteLock, Round
  <2>. QED BY <1>5, <2>1
<1>10. CASE Scripts
  BY <1>3, <1>5, <1>10 DEF Scripts, Round
<1>11. CASE Seal \/ Compare
  <2>1. Head(todo) \in Round \cup {"compare"}
    BY <1>11 DEF Seal, Compare, At, Round
  <2>. QED BY <1>3, <1>6, <1>11, <2>1 DEF Seal, Compare
<1>12. CASE VisitKnown \/ VisitInstalled \/ ScriptWrites
  BY <1>3, <1>7, <1>12 DEF VisitKnown, VisitInstalled, ScriptWrites, Goes
<1>13. CASE FetchFails \/ ReplaceFails
  BY <1>3, <1>13 DEF FetchFails, ReplaceFails
<1>14. CASE Replace
  BY <1>5, <1>7, <1>14 DEF Replace, Erodes, Round
<1>15. CASE LockFails
  <2>1. CASE cmd.kind = "build"
    BY <1>2, <1>15, <2>1, ResultFacts DEF LockFails, Rollback
  <2>. QED BY <1>3, <1>15, <2>1 DEF LockFails
<1>16. CASE Inspect
  <2>1. cmd.kind # "add"
    BY <1>1, <1>2, <1>16
       DEF Inspect, At, OnCourse, Works, WorksFirst, WorksAgain, AtTail, Round,
           ReadOnly
  <2>. QED BY <1>3, <1>16, <2>1 DEF Inspect, Passes, Goes, Rollback
<1>17. ASSUME NEW t \in Trees, Fetch(t)
       PROVE  Rollback'
  BY <1>3, <1>5, <1>17 DEF Fetch, Round
<1>. QED BY <1>8, <1>9, <1>10, <1>11, <1>12, <1>13, <1>14, <1>15, <1>16, <1>17

\* Neither do the writes of pengu.toml: a failing one takes the short way,
\* and the rollback's own ends with the old text.
LEMMA ManifestRollback ==
  ASSUME TypeOK, Plan, Rollback,
         Put \/ Drop \/ Restore \/ RestoreFails \/ Publish \/ EditFails
  PROVE  Rollback'
<1>0. todo # <<>>
  BY DEF Put, Drop, Restore, RestoreFails, Publish, EditFails, At
<1>1. cmd # None /\ cmd \in Commands /\ OnCourse
  BY <1>0, AtFacts DEF Plan
<1>2. ASSUME NEW new, Unlinks(new), Head(todo) \in {"put", "drop"}
      PROVE  Rollback'
  <2>1. todo' # <<>> /\ Head(todo') = "publish" /\ cmd' = cmd
    <3>1. Turns("publish") /\ "publish" \in Steps
      BY <1>2 DEF Unlinks, Steps
    <3>. QED BY <1>0, <3>1, PassesFacts DEF Turns, Goes
  <2>2. cmd.result \notin Undoing
    BY <1>0, <1>2, AtFacts
  <2>. QED BY <1>1, <1>2, <2>1, <2>2, WorksRollback DEF At
<1>3. CASE Put \/ Drop
  BY <1>2, <1>3 DEF Put, Drop, At
<1>4. CASE Restore
  <2>1. todo' # <<>> /\ Head(todo') = "publish" /\ cmd' = cmd
        /\ draft' = cmd.before /\ Head(todo) = "restore"
    <3>1. Turns("publish") /\ "publish" \in Steps
      BY <1>4 DEF Restore, Steps
    <3>. QED BY <1>0, <1>4, <3>1, PassesFacts DEF Turns, Goes, Restore, At
  <2>2. cmd.result \in Undoing
    BY <1>0, <1>1, <2>1 DEF OnCourse, Reads, Works, WorksFirst, WorksAgain,
                            AtTail, Round
  <2>. QED BY <2>1, <2>2 DEF Rollback, At
<1>5. CASE Publish
  <2>1. cmd' = cmd /\ todo' = Tail(todo) /\ Head(todo) = "publish" /\ At("publish")
    BY <1>5 DEF Publish, Passes, Goes, At
  <2>2. CASE cmd.kind # "add"
    BY <2>1, <2>2 DEF Rollback
  <2>3. CASE cmd.kind = "add" /\ cmd.result \in Undoing
    <3>1. todo' = DeleteU
      BY <1>0, <1>1, <2>1, <2>3 DEF OnCourse, Undoes, AtTail
    <3>2. todo' # <<>> /\ Head(todo') = "delete"
      BY <3>1, ListFacts DEF Lists
    <3>. QED BY <1>5, <2>1, <2>3, <3>2 DEF Rollback, At, Publish
  <2>4. CASE cmd.kind = "add" /\ cmd.result \notin Undoing
    <3>1. \/ todo' = PutS /\ cmd.as # cmd.name
          \/ todo' \in {Sync1, SyncA}
      BY <1>0, <1>1, <2>1, <2>4
         DEF OnCourse, Works, WorksFirst, WorksAgain, AtTail, Round, ReadOnly
    <3>2. /\ todo' # <<>>
          /\ \/ Head(todo') = "put" /\ cmd.as # cmd.name
             \/ Head(todo') = "sync"
      BY <3>1, ListFacts DEF Lists
    <3>. QED BY <1>1, <2>1, <2>4, <3>2, WorksRollback DEF At
  <2>. QED BY <2>2, <2>3, <2>4
<1>6. CASE EditFails
  <2>1. /\ Head(todo) \in {"put", "drop"} /\ cmd.result \notin Undoing
        /\ UNCHANGED <<disk, draft>>
    BY <1>0, <1>6, AtFacts DEF EditFails, At
  <2>2. CASE cmd.kind # "add"
    BY <1>1, <1>6, <2>2, ResultFacts
       DEF EditFails, Passes, Goes, FailsWith, Rollback
  <2>3. CASE cmd.kind = "add" /\ cmd.as # cmd.name
    <3>1. cmd' = cmd /\ todo' = Tail(todo)
      BY <1>6, <2>3 DEF EditFails, Passes, Goes
    <3>2. todo' \in {PutS, Sync1}
      BY <1>0, <1>1, <2>1, <2>3, <3>1
         DEF OnCourse, Works, WorksFirst, WorksAgain, AtTail, Round, ReadOnly
    <3>3. todo' # <<>> /\ Head(todo') # "stash"
      BY <3>2, ListFacts DEF Lists
    <3>. QED BY <1>1, <2>1, <2>3, <3>1, <3>3, WorksRollback DEF At
  <2>4. CASE cmd.kind = "add" /\ cmd.as = cmd.name
    <3>1. /\ cmd' = [cmd EXCEPT !.result = "failed"]
          /\ todo' = <<"unstash">>
      BY <1>6, <2>4 DEF EditFails, FailsWith
    <3>2. /\ cmd'.result = "failed" /\ cmd'.name = cmd.name
          /\ cmd'.before = cmd.before
      BY <1>1, <3>1, ResultFacts
    <3>3. todo' # <<>> /\ Head(todo') = "unstash"
      BY <3>1, ProgramTails, ListFacts DEF Lists
    <3>4. Head(todo) = "put"
      BY <1>0, <1>1, <2>1, <2>4
         DEF OnCourse, Works, WorksFirst, WorksAgain, AtTail, Round, ReadOnly
    <3>5. manifest = cmd.before /\ lib[cmd.name] = None
      BY <1>0, <1>1, <2>1, <2>4, <3>4 DEF Rollback, At
    <3>. QED BY <2>1, <3>2, <3>3, <3>5 DEF Rollback, At, disk
  <2>. QED BY <2>2, <2>3, <2>4
<1>7. CASE RestoreFails
  <2>1. GivesUp /\ Head(todo) = "restore"
    BY <1>7 DEF RestoreFails, At
  <2>2. cmd.result \in Undoing
    BY <1>0, <1>1, <2>1 DEF OnCourse, Reads, Works, WorksFirst, WorksAgain,
                            AtTail, Round
  <2>3. cmd'.result = "unrestored"
    BY <1>0, <1>1, <2>1, <2>2, GivesUpFacts DEF TypeOK
  <2>. QED BY <2>3 DEF Rollback
<1>. QED BY <1>3, <1>4, <1>5, <1>6, <1>7

\* The rollback empties the package's directory before it moves the old one
\* back.
LEMMA DirectoriesRollback ==
  ASSUME TypeOK, Plan, Rollback,
         \/ Stash \/ StashFails \/ Unstash \/ UnstashFails
         \/ Delete \/ DeleteFails \/ Adopt \/ AdoptFails
  PROVE  Rollback'
<1>0. todo # <<>>
  BY DEF Stash, StashFails, Unstash, UnstashFails, Delete, DeleteFails, Adopt,
         AdoptFails, At
<1>1. cmd # None /\ cmd \in Commands /\ OnCourse
  BY <1>0, AtFacts DEF Plan
<1>2. CASE Stash
  <2>1. Head(todo) = "stash" /\ cmd.result \notin Undoing
    BY <1>0, <1>2, AtFacts DEF Stash, At
  <2>2. cmd.kind = "add" /\ Tail(todo) \in {PutS, PutSA} /\ cmd.name \in Names
    BY <1>0, <1>1, <2>1
       DEF Plan, OnCourse, Reads, Works, WorksFirst, WorksAgain, AtTail, Round
  <2>3. manifest' = cmd.before /\ lib'[cmd.name] = None /\ cmd' = cmd
    BY <1>0, <1>1, <1>2, <2>1, <2>2
       DEF Rollback, At, Stash, Has, TypeOK, Passes, Goes
  <2>4. todo' # <<>> /\ Head(todo') = "put"
    BY <1>2, <2>2, ListFacts DEF Stash, Passes, Goes, Lists
  <2>. QED BY <2>1, <2>3, <2>4 DEF Rollback, At
<1>3. CASE Unstash
  <2>1. Head(todo) = "unstash" /\ cmd' = cmd /\ todo' = Tail(todo)
    BY <1>3 DEF Unstash, Passes, Goes, At
  <2>2. cmd.kind = "add" /\ cmd.result \in Undoing /\ Tail(todo) = <<>>
        /\ cmd.name \in Names
    BY <1>0, <1>1, <2>1
       DEF Plan, OnCourse, Undoes, Reads, Works, WorksFirst, WorksAgain, AtTail,
           Round
  <2>3. CASE cmd.result = "failed"
    <3>1. lib[cmd.name] = None /\ manifest = cmd.before
      BY <1>0, <1>1, <2>1, <2>2, <2>3 DEF Rollback, At
    <3>2. lib'[cmd.name] = cmd.found[cmd.name]
      BY <1>3, <2>2, <3>1 DEF Unstash, Has, TypeOK
    <3>. QED BY <1>3, <2>1, <2>2, <2>3, <3>1, <3>2 DEF Rollback, At, Unstash
  <2>. QED BY <2>1, <2>2, <2>3 DEF Rollback
<1>4. CASE Delete
  <2>1. Head(todo) = "delete" /\ UNCHANGED <<manifest, cmd>>
    BY <1>4 DEF Delete, At, Erodes, Passes, Goes, disk
  <2>2. CASE cmd.kind # "add"
    BY <2>1, <2>2 DEF Rollback
  <2>3. CASE cmd.kind = "add"
    <3>1. cmd.result \in Undoing /\ Tail(todo) = Unstash1
      BY <1>0, <1>1, <2>1, <2>3
         DEF OnCourse, Undoes, Works, WorksFirst, WorksAgain, AtTail, Round,
             ReadOnly
    <3>2. CASE Erodes(cmd.name)
      BY <1>0, <1>1, <2>1, <2>3, <3>1, <3>2 DEF Rollback, At, Erodes
    <3>3. CASE /\ lib[cmd.name] = None /\ Passes /\ UNCHANGED <<disk, draft, plan>>
      <4>1. todo' # <<>> /\ Head(todo') = "unstash"
        BY <3>1, <3>3, ListFacts DEF Passes, Goes, Lists
      <4>. QED BY <1>0, <1>1, <2>1, <2>3, <3>1, <3>3, <4>1 DEF Rollback, At, disk
    <3>. QED BY <1>4, <3>2, <3>3 DEF Delete
  <2>. QED BY <2>2, <2>3
<1>5. CASE Adopt
  <2>1. Head(todo) = "adopt" /\ cmd.result \notin Undoing /\ ~At("stash")
    BY <1>0, <1>5, AtFacts DEF Adopt, At
  <2>2. cmd.kind = "add" /\ Tail(todo) = <<>>
    BY <1>0, <1>1, <2>1
       DEF OnCourse, Reads, Works, WorksFirst, WorksAgain, AtTail, Round
  <2>3. CASE Passes
    BY <1>1, <2>1, <2>2, <2>3, WorksRollback DEF Passes, Goes, At
  <2>4. CASE /\ todo' = <<"drop", "put", "sync">>
             /\ \E i \in Names : cmd' = [cmd EXCEPT !.as = i, !.force = FALSE]
    <3>1. todo' # <<>> /\ Head(todo') = "drop"
      BY <2>4, ProgramFacts, ProgramTails
    <3>2. cmd'.result = cmd.result
      BY <1>1, <2>4 DEF Commands
    <3>. QED BY <1>1, <2>1, <2>2, <3>1, <3>2 DEF Rollback, At
  <2>. QED BY <1>5, <2>3, <2>4 DEF Adopt
<1>6. CASE StashFails
  <2>1. Head(todo) = "stash" /\ cmd.result \notin Undoing
    BY <1>0, <1>6, AtFacts DEF StashFails, At
  <2>2. /\ cmd' = [cmd EXCEPT !.result = "failed"] /\ todo' = <<>>
        /\ UNCHANGED disk
    BY <1>6 DEF StashFails, FailsWith
  <2>3. /\ cmd'.result = "failed" /\ cmd'.name = cmd.name
        /\ cmd'.kind = cmd.kind /\ cmd'.before = cmd.before
        /\ cmd'.found = cmd.found
    BY <1>1, <2>2, ResultFacts
  <2>4. cmd.kind = "add" =>
          manifest = cmd.before /\ lib[cmd.name] = cmd.found[cmd.name]
    BY <1>0, <1>1, <2>1 DEF Rollback, At
  <2>. QED BY <2>2, <2>3, <2>4 DEF Rollback, At, disk
<1>7. CASE UnstashFails \/ DeleteFails
  <2>1. GivesUp /\ Head(todo) \in {"unstash", "delete"}
    BY <1>7 DEF UnstashFails, DeleteFails, At
  <2>2. cmd.kind = "add" => cmd.result \in Undoing
    BY <1>0, <1>1, <2>1 DEF OnCourse, Works, WorksFirst, WorksAgain, AtTail, Round,
                            ReadOnly
  <2>3. /\ cmd'.kind = cmd.kind
        /\ cmd.result \in Undoing => cmd'.result = "unrestored"
    BY <1>0, <1>1, <2>1, GivesUpFacts DEF TypeOK
  <2>. QED BY <2>2, <2>3 DEF Rollback
<1>8. CASE AdoptFails
  <2>1. Head(todo) = "adopt" /\ cmd.result \notin Undoing /\ Passes
    BY <1>0, <1>8, AtFacts DEF AdoptFails, At
  <2>2. cmd.kind = "add" /\ Tail(todo) = <<>>
    BY <1>0, <1>1, <2>1
       DEF OnCourse, Reads, Works, WorksFirst, WorksAgain, AtTail, Round
  <2>. QED BY <1>1, <2>1, <2>2, WorksRollback DEF Passes, Goes, At
<1>. QED BY <1>2, <1>3, <1>4, <1>5, <1>6, <1>7, <1>8

\* A command that starts has changed nothing.
LEMMA BeginsRollback ==
  ASSUME TypeOK, Begin
  PROVE  Rollback'
<1>1. ASSUME NEW o \in Offers, Add(o)
      PROVE  Rollback'
  <2>1. PICK steps \in {<<"stash", "put", "sync">>,
                        <<"stash", "put", "sync", "adopt">>} :
          Starts("add", o.name, o.spec, o.rebuild, steps)
    BY <1>1 DEF Add
  <2>2. steps # <<>> /\ Head(steps) = "stash"
    <3>1. CASE steps = <<"stash", "put", "sync">>
      BY <3>1, ProgramFacts, ProgramTails
    <3>2. CASE steps = <<"stash", "put", "sync", "adopt">>
      BY <3>2, ProgramFacts, ProgramTails
    <3>. QED BY <3>1, <3>2
  <2>3. o.name \in Names
    <3>1. o \in [name : Names, spec : Specs, explicit : BOOLEAN, rebuild : BOOLEAN]
      OBVIOUS
    <3>. QED BY <3>1
  <2>4. /\ cmd'.result = "ok" /\ cmd'.name = o.name /\ cmd'.as = o.name
        /\ cmd'.before = manifest /\ cmd'.found = lib
        /\ manifest' = manifest /\ lib' = lib /\ todo' = steps
    BY <2>1, <2>3 DEF Starts, disk
  <2>. QED BY <2>2, <2>4 DEF Rollback, At
<1>2. ASSUME NEW kind, kind # "add", NEW name, NEW spec, NEW force, NEW steps,
             Starts(kind, name, spec, force, steps)
      PROVE  Rollback'
  BY <1>2 DEF Starts, Rollback
<1>. QED BY <1>1, <1>2
     DEF Begin, Remove, Upgrade, Update, Build, BuildLocked, Verify

\* In every reachable state the rollback of psc add has what it needs.
THEOREM RollbackInvariant == Spec => []Rollback
<1>1. Init => Rollback
  BY DEF Init, Rollback
<1>2. Typed /\ Rollback /\ [Next]_vars => Rollback'
  <2> SUFFICES ASSUME TypeOK, Plan, Rollback, [Next]_vars
               PROVE  Rollback'
    BY DEF Typed
  <2>1. CASE Begin
    BY <2>1, BeginsRollback
  <2>2. CASE Finish \/ Killed
    BY <2>2 DEF Finish, Killed, Rollback
  <2>3. CASE Work /\ ~Finish
    BY <2>3, ManifestRollback, DirectoriesRollback, RoundRollback DEF Work
  <2>4. CASE Checkout
    BY <2>4 DEF Checkout, Rollback
  <2>5. CASE UNCHANGED vars
    BY <2>5 DEF vars, Rollback, At
  <2>. QED BY <2>1, <2>2, <2>3, <2>4, <2>5 DEF Next
<1>. QED BY <1>1, <1>2, TypedInvariant, PTL DEF Spec

-----------------------------------------------------------------------------
(* What the resolver has found.                                            *)

\* Where the resolver's state means something.
AtPlace ==
  todo # <<>> /\ Head(todo) \in {"visit", "replace", "scripts", "lock", "seal",
                                 "compare"}

\* The packages resolved are in lib, up to what their scripts wrote, in
\* versions that will do.
Fits ==
  \A n \in DOMAIN graph :
    /\ lib[n] \in {graph[n].tree} \cup Builds[graph[n].tree]
    /\ graph[n].version \in Accepts[graph[n].spec]

\* No script has run yet.
Fresh == \A n \in DOMAIN graph : lib[n] = graph[n].tree

\* Asked, of the directories l.
Wanted(m, l, names) == Range(m) \cup UNION {Range(Needs[l[n]]) : n \in names}

\* What the manifest and they ask for is in the queue or resolved.
Pending ==
  \A d \in Wanted(manifest, lib, DOMAIN graph) :
    \/ d \in Range(queue)
    \/ d.name \in DOMAIN graph /\ graph[d.name].version \in Accepts[d.spec]

\* Nothing is resolved or in the queue that is not needed.
Reached ==
  \A names \in SUBSET Names :
    (\A d \in Wanted(manifest, lib, names \cap DOMAIN graph) :
       d.name \in names) =>
      /\ DOMAIN graph \subseteq names
      /\ \A d \in Range(queue) : d.name \in names

Resolving ==
  /\ IF AtPlace
     THEN /\ manifest # <<>>
          /\ Fits /\ Pending /\ Reached
          /\ Head(todo) \notin {"visit", "replace"} => queue = <<>>
          /\ Head(todo) \notin {"scripts", "lock", "seal"} => Fresh
     ELSE graph = NoPackage /\ queue = <<>>
  /\ At("resolve") => manifest # <<>>
  /\ At("replace") => /\ stage.version \in Accepts[Visited.spec]
                      /\ stage.tree \in Fetched[Visited.spec]

\* What one more directory adds to what is asked for.
LEMMA WantedGrows ==
  ASSUME NEW m, NEW l, NEW k, NEW A, NEW B, NEW n,
         A \subseteq B, B \subseteq A \cup {n}, \A a \in A : k[a] = l[a]
  PROVE  /\ Wanted(m, l, A) \subseteq Wanted(m, k, B)
         /\ Wanted(m, k, B) \subseteq Wanted(m, l, A) \cup Range(Needs[k[n]])
<1>1. ASSUME NEW d \in Wanted(m, l, A), d \notin Range(m)
      PROVE  d \in Wanted(m, k, B)
  <2>1. PICK a \in A : d \in Range(Needs[l[a]])
    BY <1>1 DEF Wanted
  <2>2. a \in B /\ d \in Range(Needs[k[a]])
    BY <2>1
  <2>. QED BY <2>2 DEF Wanted
<1>2. ASSUME NEW d \in Wanted(m, k, B), d \notin Range(m),
             d \notin Range(Needs[k[n]])
      PROVE  d \in Wanted(m, l, A)
  <2>1. PICK b \in B : d \in Range(Needs[k[b]])
    BY <1>2 DEF Wanted
  <2>2. b \in A /\ d \in Range(Needs[l[b]])
    BY <1>2, <2>1
  <2>. QED BY <2>2 DEF Wanted
<1>3. Range(m) \subseteq Wanted(m, k, B) /\ Range(m) \subseteq Wanted(m, l, A)
  BY DEF Wanted
<1>. QED BY <1>1, <1>2, <1>3

\* The manifest is what is asked for at first.
LEMMA ResolveResolving ==
  ASSUME manifest \in Seq(Entries), manifest # <<>>, graph = NoPackage,
         UNCHANGED <<manifest, lib, graph>>, queue' = manifest
  PROVE  Fits' /\ Fresh' /\ Pending' /\ Reached'
<1>1. DOMAIN graph = {}
  BY DEF NoPackage
<1>2. Fits' /\ Fresh'
  BY <1>1 DEF Fits, Fresh
<1>3. Wanted(manifest, lib, {}) = Range(manifest)
  BY DEF Wanted
<1>4. Pending'
  BY <1>1, <1>3 DEF Pending
<1>5. Reached'
  BY <1>1, <1>3 DEF Reached
<1>. QED BY <1>2, <1>4, <1>5

\* An entry whose package is resolved leaves the queue.
LEMMA KnownResolving ==
  ASSUME TypeOK, Pending, Reached, queue # <<>>,
         Visited.name \in DOMAIN graph,
         graph[Visited.name].version \in Accepts[Visited.spec],
         UNCHANGED <<manifest, lib, graph>>, queue' = Tail(queue)
  PROVE  Pending' /\ Reached'
<1>1. Range(queue) = {Visited} \cup Range(queue')
  BY PopFromQueue DEF TypeOK, Visited
<1>3. Pending'
  BY <1>1 DEF Pending
<1>4. Reached'
  <2>1. ASSUME NEW names \in SUBSET Names,
               \A d \in Wanted(manifest, lib, names \cap DOMAIN graph) :
                 d.name \in names
        PROVE  /\ DOMAIN graph \subseteq names
               /\ \A d \in Range(queue') : d.name \in names
    BY <1>1, <2>1 DEF Reached
  <2>. QED BY <2>1 DEF Reached
<1>. QED BY <1>3, <1>4

\* The package of an entry becomes resolved, and what it needs is queued.
LEMMA EntersResolving ==
  ASSUME TypeOK, Fits, Fresh, Pending, Reached, queue # <<>>,
         NEW version, version \in Accepts[Visited.spec],
         Visited.name \notin DOMAIN graph, lib'[Visited.name] \in Trees,
         \A m \in Names \ {Visited.name} : lib'[m] = lib[m],
         manifest' = manifest, Enters(version)
  PROVE  Fits' /\ Fresh' /\ Pending' /\ Reached'
<1> DEFINE n == Visited.name
           needs == Needs[lib'[n]]
<1>1. n \in Names /\ needs \in Seq(Entries) /\ Tail(queue) \in Seq(Entries)
  BY VisitedFacts
<1>2. /\ DOMAIN graph' = DOMAIN graph \cup {n} /\ DOMAIN graph \subseteq Names
      /\ \A m \in DOMAIN graph : graph'[m] = graph[m]
      /\ graph'[n].version = version /\ graph'[n].tree = lib'[n]
      /\ graph'[n].spec = Visited.spec
  BY GraphFacts DEF Enters
<1>3. Range(queue') = Range(Tail(queue)) \cup Range(needs)
  <2>1. queue' = Tail(queue) \o needs
    BY DEF Enters
  <2>2. \A q, r \in Seq(Entries) : Range(q \o r) = Range(q) \cup Range(r)
    BY ONLY ConcatQueues
  <2> HIDE DEF needs
  <2>. QED BY ONLY <1>1, <2>1, <2>2, Zenon
<1>4. Range(queue) = {Visited} \cup Range(Tail(queue))
  BY PopFromQueue DEF TypeOK, Visited
<1>5. \A m \in DOMAIN graph : lib'[m] = lib[m]
  BY <1>2
<1>6. ASSUME NEW names
      PROVE  LET old == Wanted(manifest, lib, names \cap DOMAIN graph)
                 new == Wanted(manifest', lib', names \cap DOMAIN graph')
             IN  /\ old \subseteq new
                 /\ new \subseteq old \cup Range(needs)
                 /\ n \in names => Range(needs) \subseteq new
  <2>1. /\ names \cap DOMAIN graph \subseteq names \cap DOMAIN graph'
        /\ names \cap DOMAIN graph' \subseteq (names \cap DOMAIN graph) \cup {n}
        /\ \A m \in names \cap DOMAIN graph : lib'[m] = lib[m]
    BY <1>2, <1>5
  <2>2. /\ Wanted(manifest, lib, names \cap DOMAIN graph)
             \subseteq Wanted(manifest, lib', names \cap DOMAIN graph')
        /\ Wanted(manifest, lib', names \cap DOMAIN graph')
             \subseteq Wanted(manifest, lib, names \cap DOMAIN graph) \cup Range(needs)
    <3> HIDE DEF n
    <3>. QED BY <2>1, WantedGrows
  <2>4. n \in names =>
          Range(needs) \subseteq Wanted(manifest', lib', names \cap DOMAIN graph')
    BY <1>2 DEF Wanted
  <2>. QED BY <2>2, <2>4
<1> HIDE DEF needs
<1>7. Fits' /\ Fresh'
  BY <1>2, <1>5 DEF Fits, Fresh
<1>8. Pending'
  <2>1. Wanted(manifest', lib', DOMAIN graph')
          \subseteq Wanted(manifest, lib, DOMAIN graph) \cup Range(needs)
    <3>1. /\ DOMAIN graph' \cap DOMAIN graph = DOMAIN graph
          /\ DOMAIN graph' \cap DOMAIN graph' = DOMAIN graph'
      BY <1>2
    <3>2. Wanted(manifest', lib', DOMAIN graph' \cap DOMAIN graph')
            \subseteq Wanted(manifest, lib, DOMAIN graph' \cap DOMAIN graph)
                        \cup Range(needs)
      BY <1>6
    <3>. QED BY <3>1, <3>2
  <2>2. ASSUME NEW d \in Wanted(manifest', lib', DOMAIN graph')
        PROVE  \/ d \in Range(queue')
               \/ /\ d.name \in DOMAIN graph'
                  /\ graph'[d.name].version \in Accepts[d.spec]
    <3>1. CASE d \in Range(needs)
      BY <1>3, <3>1
    <3>2. CASE d \in Wanted(manifest, lib, DOMAIN graph)
      <4>1. d \in Range(queue) \/ /\ d.name \in DOMAIN graph
                                  /\ graph[d.name].version \in Accepts[d.spec]
        BY <3>2 DEF Pending
      <4>. QED BY <1>2, <1>3, <1>4, <4>1
    <3>. QED BY <2>1, <2>2, <3>1, <3>2
  <2>. QED BY <2>2 DEF Pending
<1>9. Reached'
  <2>1. ASSUME NEW names \in SUBSET Names,
               \A d \in Wanted(manifest', lib', names \cap DOMAIN graph') :
                 d.name \in names
        PROVE  /\ DOMAIN graph' \subseteq names
               /\ \A d \in Range(queue') : d.name \in names
    <3>1. \A d \in Wanted(manifest, lib, names \cap DOMAIN graph) :
            d.name \in names
      BY <1>6, <2>1
    <3>2. DOMAIN graph \subseteq names /\ \A d \in Range(queue) : d.name \in names
      BY <3>1 DEF Reached
    <3>3. n \in names
      BY <1>4, <3>2
    <3>4. \A d \in Range(needs) : d.name \in names
      BY <1>6, <2>1, <3>3
    <3>. QED BY <1>2, <1>3, <1>4, <3>2, <3>3, <3>4
  <2>. QED BY <2>1 DEF Reached
<1>. QED BY <1>7, <1>8, <1>9

\* What a set of packages asks for depends on their pengu.toml alone.
LEMMA WantedSame ==
  ASSUME NEW m, NEW l, NEW k, NEW A, \A a \in A : Needs[k[a]] = Needs[l[a]]
  PROVE  Wanted(m, k, A) = Wanted(m, l, A)
<1>1. {Range(Needs[k[a]]) : a \in A} = {Range(Needs[l[a]]) : a \in A}
  OBVIOUS
<1>. QED BY <1>1 DEF Wanted

\* The steps that follow are not those of a resolution.
LEMMA TailFacts ==
  ASSUME TypeOK, Plan, todo # <<>>
  PROVE  \/ Tail(todo) = <<>>
         \/ /\ Tail(todo) # <<>>
            /\ Head(Tail(todo)) \in {"sync", "put", "delete", "adopt", "unstash"}
<1>1. OnCourse /\ cmd # None
  BY AtFacts DEF Plan
<1>2. Tail(todo) \in Lists \cup {<<>>}
  BY <1>1 DEF OnCourse, Undoes, Reads, Works, WorksFirst, WorksAgain, AtTail,
              Lists
<1>. QED BY <1>2, ListFacts DEF Lists

\* A step that is none of a resolution, or that ends one.
LEMMA IdleResolving ==
  ASSUME queue' = <<>>, graph' = NoPackage,
         \/ todo' = <<>>
         \/ Head(todo') \notin {"resolve", "visit", "replace", "scripts",
                                "lock", "seal", "compare"}
  PROVE  Resolving'
  BY DEF Resolving, AtPlace, At

\* A command that fails has resolved nothing.
LEMMA FailsResolving ==
  ASSUME NEW rollback, FailsWith(rollback),
         rollback = <<>> \/ Head(rollback) \in {"restore", "unstash"}
  PROVE  Resolving'
  BY IdleResolving DEF FailsWith, Forgets

\* Nor has one that fails with the rollback of its kind.
LEMMA FailureResolving ==
  ASSUME Fails
  PROVE  Resolving'
<1>1. CASE cmd.kind = "add"
  <2>1. Head(<<"restore", "delete", "unstash">>) = "restore"
    BY ProgramTails
  <2>. QED BY <1>1, <2>1, FailsResolving DEF Fails
<1>2. CASE cmd.kind # "add"
  BY <1>2, FailsResolving DEF Fails
<1>. QED BY <1>1, <1>2

\* Nor has one whose synchronisation is over.
LEMMA PassesResolving ==
  ASSUME TypeOK, Plan, todo # <<>>, Passes, queue' = <<>>, graph' = NoPackage
  PROVE  Resolving'
  BY TailFacts, IdleResolving DEF Passes, Goes

\* Steps that are none of a resolution.
LEMMA OthersResolving ==
  ASSUME TypeOK, Plan, Resolving,
         \/ Begin \/ Put \/ Drop \/ Restore \/ RestoreFails \/ Publish
         \/ EditFails \/ Stash \/ StashFails \/ Unstash \/ UnstashFails
         \/ Delete \/ DeleteFails \/ Adopt \/ AdoptFails \/ Sync \/ Inspect
         \/ Finish \/ Killed \/ Checkout
  PROVE  Resolving'
<1>1. ASSUME NEW kind, NEW name, NEW spec, NEW force, NEW steps,
             Starts(kind, name, spec, force, steps),
             steps = <<>> \/
               Head(steps) \notin {"visit", "replace", "scripts", "lock",
                                   "seal", "compare"},
             steps # <<>> /\ Head(steps) = "resolve" => manifest # <<>>
      PROVE  Resolving'
  <2>1. /\ todo = <<>> /\ todo' = steps
        /\ UNCHANGED <<manifest, queue, graph>>
    BY <1>1 DEF Starts, TypeOK, disk, plan
  <2>2. queue = <<>> /\ graph = NoPackage
    BY <2>1 DEF Resolving, AtPlace
  <2>. QED BY <1>1, <2>1, <2>2 DEF Resolving, AtPlace, At
<1>2. CASE Begin
  <2>1. ASSUME NEW o \in Offers, Add(o)
        PROVE  Resolving'
    BY <1>1, <2>1, ProgramTails DEF Add
  <2>2. ASSUME NEW n \in Names, NEW keepFiles \in BOOLEAN, Remove(n, keepFiles)
        PROVE  Resolving'
    BY <1>1, <2>2, ProgramTails DEF Remove
  <2>3. ASSUME NEW o \in Offers, Upgrade(o.name, o.spec)
        PROVE  Resolving'
    BY <1>1, <2>3, ProgramTails DEF Upgrade
  <2>4. CASE Update \/ Build \/ BuildLocked \/ Verify
    BY <1>1, <2>4, ProgramTails DEF Update, Build, BuildLocked, Verify
  <2>. QED BY <1>2, <2>1, <2>2, <2>3, <2>4 DEF Begin
<1>3. CASE Finish
  BY <1>3 DEF Finish, Resolving, AtPlace, At, plan
<1>4. CASE Killed
  BY <1>4, IdleResolving DEF Killed, Forgets
<1>5. CASE Checkout
  <2>1. todo = <<>>
    BY <1>5 DEF Checkout, TypeOK
  <2>. QED BY <1>5, <2>1 DEF Checkout, Resolving, AtPlace, At, plan
<1>6. ASSUME todo # <<>>,
             Head(todo) \notin {"visit", "replace", "scripts", "lock", "seal",
                                "compare"},
             UNCHANGED plan
      PROVE  queue' = <<>> /\ graph' = NoPackage
  BY <1>6 DEF Resolving, AtPlace, plan
<1>7. ASSUME NEW x \in {"publish", "resolve"}, Turns(x), UNCHANGED plan, todo # <<>>,
             Head(todo) \notin {"visit", "replace", "scripts", "lock", "seal",
                                "compare"},
             x = "resolve" => manifest # <<>> /\ manifest' = manifest
      PROVE  Resolving'
  <2>1. todo' # <<>> /\ Head(todo') = x
    <3>1. x \in Steps
      BY DEF Steps
    <3>. QED BY <1>7, <3>1, PassesFacts
  <2>. QED BY <1>6, <1>7, <2>1 DEF Resolving, AtPlace, At
<1>8. CASE Put \/ Drop \/ Restore
  BY <1>7, <1>8 DEF Put, Drop, Restore, Unlinks, At
<1>9. CASE Publish \/ Unstash \/ AdoptFails
  BY <1>6, <1>9, PassesResolving DEF Publish, Unstash, AdoptFails, At
<1>10. CASE EditFails
  <2>1. /\ todo # <<>> /\ Head(todo) \in {"put", "drop"}
        /\ Head(<<"unstash">>) = "unstash"
    BY <1>10 DEF EditFails, At
  <2>. QED BY <1>6, <1>10, <2>1, PassesResolving, FailsResolving DEF EditFails
<1>11. CASE Stash
  <2>1. todo # <<>> /\ Head(todo) = "stash" /\ todo' = Tail(todo)
    BY <1>11 DEF Stash, At, Passes, Goes
  <2>. QED BY <1>6, <1>11, <2>1, TailFacts, IdleResolving DEF Stash
<1>12. CASE Delete
  <2>1. todo # <<>> /\ Head(todo) = "delete"
    BY <1>12 DEF Delete, At
  <2>2. CASE Erodes(cmd.name)
    BY <1>6, <2>1, <2>2, IdleResolving DEF Erodes
  <2>. QED BY <1>6, <1>12, <2>1, <2>2, PassesResolving DEF Delete
<1>13. CASE Adopt
  <2>1. todo # <<>> /\ Head(todo) = "adopt" /\ UNCHANGED plan
    BY <1>13 DEF Adopt, At
  <2>2. Head(<<"drop", "put", "sync">>) = "drop"
    BY ProgramTails
  <2>. QED BY <1>6, <1>13, <2>1, <2>2, PassesResolving, IdleResolving DEF Adopt
<1>14. CASE Sync
  <2>1. todo # <<>> /\ Head(todo) = "sync" /\ UNCHANGED <<manifest, plan>>
    BY <1>14 DEF Sync, At
  <2>. QED BY <1>6, <1>7, <1>14, <2>1, PassesResolving DEF Sync
<1>15. CASE Inspect
  <2>1. todo # <<>> /\ Head(todo) = "inspect"
    BY <1>15 DEF Inspect, At
  <2>. QED BY <1>6, <1>15, <2>1, PassesResolving, FailureResolving DEF Inspect
<1>16. CASE StashFails
  BY <1>16, FailsResolving DEF StashFails
<1>17. CASE RestoreFails \/ UnstashFails \/ DeleteFails
  <2>1. /\ todo # <<>> /\ todo' = Tail(todo) /\ UNCHANGED plan
        /\ Head(todo) \in {"restore", "unstash", "delete"}
    BY <1>17 DEF RestoreFails, UnstashFails, DeleteFails, At, GivesUp, plan
  <2>. QED BY <1>6, <2>1, TailFacts, IdleResolving
<1>. QED BY <1>2, <1>3, <1>4, <1>5, <1>8, <1>9, <1>10, <1>11, <1>12, <1>13,
            <1>14, <1>15, <1>16, <1>17

\* The steps of a resolution.
LEMMA PlacesResolving ==
  ASSUME TypeOK, Plan, Resolving,
         \/ Resolve \/ VisitKnown \/ VisitInstalled \/ \E t \in Trees : Fetch(t)
         \/ FetchFails \/ Replace \/ ReplaceFails \/ Resolved \/ ScriptWrites
         \/ Scripts \/ WriteLock \/ Seal \/ LockFails \/ Compare
  PROVE  Resolving'
<1>1. ASSUME NEW x \in Steps, Turns(x), todo # <<>>
      PROVE  todo' # <<>> /\ Head(todo') = x
  BY <1>1, PassesFacts
<1>2. /\ {"visit", "replace", "scripts", "lock", "seal", "compare"} \subseteq Steps
  BY DEF Steps
<1>3. ASSUME AtPlace, todo' # <<>>,
             Head(todo') \in {"visit", "scripts", "lock", "seal", "compare"},
             manifest' = manifest, Fits', Pending', Reached',
             Head(todo') # "visit" => queue' = <<>>,
             Head(todo') \notin {"scripts", "lock", "seal"} => Fresh'
      PROVE  Resolving'
  BY <1>3 DEF Resolving, AtPlace, At
<1>4. ASSUME AtPlace, UNCHANGED <<manifest, lib, queue, graph>>
      PROVE  /\ Fits' /\ Pending' /\ Reached'
             /\ Head(todo) \notin {"scripts", "lock", "seal"} => Fresh'
  BY <1>4 DEF Resolving, Fits, Fresh, Pending, Reached
<1>5. CASE Resolve
  <2>1. todo # <<>> /\ Head(todo) = "resolve" /\ At("resolve") /\ ~AtPlace
    BY <1>5 DEF Resolve, At, AtPlace
  <2>2. todo' # <<>> /\ Head(todo') = "visit"
    BY <1>1, <1>2, <1>5, <2>1 DEF Resolve
  <2>3. manifest \in Seq(Entries) /\ manifest # <<>> /\ graph = NoPackage
    BY <2>1, AtFacts DEF Resolving
  <2>4. Fits' /\ Fresh' /\ Pending' /\ Reached'
    BY <1>5, <2>3, ResolveResolving DEF Resolve, disk
  <2>. QED BY <1>5, <2>2, <2>3, <2>4 DEF Resolving, AtPlace, At, Resolve, disk
<1>6. CASE VisitKnown /\ ~Fails
  <2>1. /\ AtPlace /\ todo' = todo /\ Head(todo) = "visit" /\ todo # <<>>
        /\ UNCHANGED <<manifest, lib, graph>>
        /\ queue # <<>> /\ queue' = Tail(queue)
        /\ Visited.name \in DOMAIN graph
        /\ graph[Visited.name].version \in Accepts[Visited.spec]
    BY <1>6 DEF VisitKnown, AtEntry, At, AtPlace, Goes, disk
  <2>2. Pending' /\ Reached'
    BY <2>1, KnownResolving DEF Resolving
  <2>3. Fits' /\ Fresh'
    BY <2>1 DEF Resolving, Fits, Fresh
  <2>. QED BY <1>3, <2>1, <2>2, <2>3
<1>7. CASE VisitInstalled
  <2>1. /\ AtPlace /\ todo' = todo /\ Head(todo) = "visit" /\ todo # <<>>
        /\ UNCHANGED <<manifest, lib>>
        /\ queue # <<>> /\ Visited.name \notin DOMAIN graph
        /\ Enters(Version[lib[Visited.name]])
        /\ lib[Visited.name] # None
        /\ Version[lib[Visited.name]] \in Accepts[Visited.spec]
    BY <1>7 DEF VisitInstalled, MustInstall, Suits, AtEntry, At, AtPlace, Goes,
                disk
  <2>2. lib'[Visited.name] \in Trees
    BY <2>1, VisitedFacts
  <2>3. Fits' /\ Fresh' /\ Pending' /\ Reached'
    BY <2>1, <2>2, EntersResolving DEF Resolving
  <2>. QED BY <1>3, <2>1, <2>3
<1>8. ASSUME NEW t \in Trees, Fetch(t), ~Fails
      PROVE  Resolving'
  <2>1. /\ AtPlace /\ todo # <<>> /\ Turns("replace")
        /\ UNCHANGED <<manifest, lib, queue, graph>>
        /\ Head(todo) = "visit"
        /\ stage'.version \in Accepts[Visited.spec]
        /\ stage'.tree \in Fetched[Visited.spec]
    BY <1>8 DEF Fetch, AtEntry, At, AtPlace, disk
  <2>2. todo' # <<>> /\ Head(todo') = "replace"
    BY <1>1, <1>2, <2>1
  <2>. QED BY <1>4, <2>1, <2>2 DEF Resolving, AtPlace, At, Visited
<1>9. CASE Replace
  <2>1. /\ At("replace") /\ todo # <<>> /\ Head(todo) = "replace" /\ AtPlace
        /\ Fits /\ Fresh /\ Pending /\ Reached
        /\ stage.version \in Accepts[Visited.spec]
    BY <1>9 DEF Replace, At, AtPlace, Resolving
  <2>2. /\ cmd # None /\ queue # <<>> /\ stage # None
        /\ Visited.name \notin DOMAIN graph
    BY <2>1, AtFacts DEF Plan
  <2>3. DOMAIN graph \subseteq Names
    BY GraphFacts
  <2>4. CASE Erodes(Visited.name)
    <3>1. /\ UNCHANGED <<manifest, queue, graph, stage, todo>>
          /\ \A m \in DOMAIN graph : lib'[m] = lib[m]
      BY <2>2, <2>3, <2>4 DEF Erodes, Has, plan, TypeOK
    <3>2. \A names : Wanted(manifest, lib', names \cap DOMAIN graph)
                       = Wanted(manifest, lib, names \cap DOMAIN graph)
      BY <3>1, WantedSame
    <3>3. Wanted(manifest, lib', DOMAIN graph) = Wanted(manifest, lib, DOMAIN graph)
      BY <3>1, WantedSame
    <3>4. Fits' /\ Fresh' /\ Pending'
      BY <2>1, <3>1, <3>3 DEF Fits, Fresh, Pending
    <3>5. Reached'
      BY <2>1, <3>1, <3>2 DEF Reached
    <3>. QED BY <2>1, <3>1, <3>4, <3>5 DEF Resolving, AtPlace, At, Visited
  <2>5. CASE /\ Has(Visited.name, stage.tree) /\ Enters(stage.version)
             /\ Turns("visit") /\ UNCHANGED <<manifest, lock, draft>>
    <3>1. todo' # <<>> /\ Head(todo') = "visit"
      BY <1>1, <1>2, <2>1, <2>5
    <3>2. /\ lib'[Visited.name] \in Trees
          /\ \A m \in Names \ {Visited.name} : lib'[m] = lib[m]
      BY <2>2, <2>5, VisitedFacts DEF Has, TypeOK, Stages
    <3>3. Fits' /\ Fresh' /\ Pending' /\ Reached'
      BY <2>1, <2>2, <2>5, <3>2, EntersResolving
    <3>. QED BY <1>3, <2>1, <2>5, <3>1, <3>3
  <2>. QED BY <1>9, <2>4, <2>5 DEF Replace
<1>10. CASE FetchFails \/ ReplaceFails \/ Fails
  BY <1>10, FailureResolving DEF FetchFails, ReplaceFails
<1>11. ASSUME NEW x \in {"scripts", "lock", "seal", "compare"}, Turns(x), AtPlace,
              queue = <<>>, UNCHANGED <<manifest, lib, queue, graph>>,
              x = "compare" => Head(todo) = "visit"
       PROVE  Resolving'
  <2>1. todo' # <<>> /\ Head(todo') = x
    BY <1>1, <1>2, <1>11 DEF AtPlace
  <2>. QED BY <1>3, <1>4, <1>11, <2>1
<1>12. CASE Resolved
  <2>1. /\ AtPlace /\ queue = <<>> /\ UNCHANGED <<manifest, lib, queue, graph>>
        /\ Head(todo) = "visit"
    BY <1>12 DEF Resolved, At, AtPlace, disk, plan
  <2>. QED BY <1>11, <1>12, <2>1 DEF Resolved
<1>13. CASE Scripts /\ ~Fails
  <2>1. /\ AtPlace /\ queue = <<>> /\ UNCHANGED <<manifest, lib, queue, graph>>
        /\ Turns("lock")
    BY <1>13 DEF Scripts, At, AtPlace, disk, plan, Resolving
  <2>. QED BY <1>11, <2>1
<1>14. CASE WriteLock
  <2>1. AtPlace /\ queue = <<>> /\ UNCHANGED <<manifest, lib, queue, graph>>
        /\ Turns("seal")
    BY <1>14 DEF WriteLock, At, AtPlace, plan, Resolving
  <2>. QED BY <1>11, <2>1
<1>15. CASE (Seal \/ Compare) /\ ~Fails
  BY <1>15, PassesResolving DEF Seal, Compare, Forgets, At
<1>16. CASE LockFails /\ ~Fails
  <2>1. todo # <<>> /\ todo' = Tail(todo) /\ Forgets
    BY <1>16 DEF LockFails, At
  <2>. QED BY <2>1, TailFacts, IdleResolving DEF Forgets
<1>17. CASE ScriptWrites
  <2>1. /\ AtPlace /\ todo # <<>> /\ Head(todo) = "scripts" /\ todo' = todo
        /\ Fits /\ Pending /\ Reached /\ queue = <<>>
        /\ UNCHANGED <<manifest, queue, graph>>
    BY <1>17 DEF ScriptWrites, At, AtPlace, Resolving, Goes, plan
  <2>2. PICK n \in DOMAIN graph :
          lib[n] # None /\ \E t \in Builds[lib[n]] : Has(n, t)
    BY <1>17 DEF ScriptWrites
  <2>3. PICK t \in Builds[lib[n]] : lib' = [lib EXCEPT ![n] = t]
    BY <2>2 DEF Has
  <2>4. /\ n \in Names /\ lib[n] \in Trees /\ graph[n].tree \in Trees
        /\ DOMAIN graph \subseteq Names
    BY <2>2, GraphFacts DEF TypeOK, Packages
  <2>5. Builds[lib[n]] \subseteq Trees
    BY <2>4, BuildAssumption
  <2>6. Needs[t] = Needs[lib[n]]
    BY <2>3, <2>4, <2>5, BuildAssumption
  <2>7. Builds[lib[n]] \subseteq Builds[graph[n].tree]
    BY <2>1, <2>2, <2>4, BuildAssumption DEF Fits
  <2>8. Fits'
    BY <2>1, <2>3, <2>4, <2>7 DEF Fits, TypeOK
  <2>9. \A m \in DOMAIN graph : Needs[lib'[m]] = Needs[lib[m]]
    BY <2>3, <2>4, <2>6 DEF TypeOK
  <2>10. \A names : Wanted(manifest, lib', names \cap DOMAIN graph)
                      = Wanted(manifest, lib, names \cap DOMAIN graph)
    BY <2>9, WantedSame
  <2>11. Wanted(manifest, lib', DOMAIN graph) = Wanted(manifest, lib, DOMAIN graph)
    BY <2>9, WantedSame
  <2>12. Pending' /\ Reached'
    BY <2>1, <2>10, <2>11 DEF Pending, Reached
  <2>. QED BY <1>3, <2>1, <2>8, <2>12
<1>. QED BY <1>5, <1>6, <1>7, <1>8, <1>9, <1>10, <1>12, <1>13, <1>14, <1>15,
            <1>16, <1>17

\* In every reachable state what is resolved and what is queued cover what
\* the manifest and the resolved packages ask for.
THEOREM ResolvingInvariant == Spec => []Resolving
<1>1. Init => Resolving
  BY DEF Init, Resolving, AtPlace, At
<1>2. Typed /\ Resolving /\ [Next]_vars => Resolving'
  <2> SUFFICES ASSUME TypeOK, Plan, Resolving, [Next]_vars
               PROVE  Resolving'
    BY DEF Typed
  <2>1. CASE UNCHANGED vars
    BY <2>1 DEF vars, Resolving, AtPlace, At, Fits, Fresh, Pending, Reached,
                  Visited
  <2>2. CASE Next
    BY <2>2, OthersResolving, PlacesResolving DEF Next, Work
  <2>. QED BY <2>1, <2>2
<1>. QED BY <1>1, <1>2, TypedInvariant, PTL DEF Spec

-----------------------------------------------------------------------------
(* The lock fits.                                                          *)

LockGood ==
  /\ LockFits
  /\ lock # None =>
       \A n \in DOMAIN lock : lock[n].version \in Accepts[lock[n].spec]

\* The directories have the very hashes of the lock.
Exact == \A n \in DOMAIN lock : Hash[lib[n]] = Hash[lock[n].tree]

\* The lock fits when a command has got as far as that, and stays so while no
\* command that may change the project runs.
Sealed ==
  /\ settled => LockGood
  /\ Compared => LockGood /\ Exact
  /\ cmd # None =>
       /\ outcome = None
       /\ settled => cmd.kind \in ReadOnly
       /\ cmd.result = "unlocked" => cmd.kind = "build"
       /\ cmd.kind \notin ReadOnly /\ cmd.result = "ok"
            /\ (todo = <<>> \/ At("adopt")) => LockGood
       /\ cmd.kind = "locked" /\ cmd.result = "ok" /\ todo = <<>>
            /\ manifest # <<>> => LockGood /\ Exact

\* A lock with the packages and versions that were resolved fits.
LEMMA GraphFits ==
  ASSUME TypeOK, Resolving, AtPlace, queue = <<>>,
         UNCHANGED <<manifest, lib>>, lock' \in Graphs,
         DOMAIN lock' = DOMAIN graph,
         \A n \in DOMAIN graph :
           /\ AsLocked(n)'
           /\ lock'[n].version = graph[n].version
           /\ lock'[n].version \in Accepts[lock'[n].spec]
  PROVE  LockGood'
<1>1. lock' # None /\ manifest' # <<>> /\ Fits /\ Pending /\ Reached
  BY DEF Resolving
<1>2. \A n \in DOMAIN lock' : AsLocked(n)' /\ lib'[n] # None
  BY DEF AsLocked
<1>3. \A d \in Wanted(manifest', lib', DOMAIN lock') :
        /\ d.name \in DOMAIN lock'
        /\ lock'[d.name].version \in Accepts[d.spec]
  BY <1>1, EmptyQueue DEF Pending
<1>4. ASSUME NEW names \in SUBSET DOMAIN lock',
             \A d \in Wanted(manifest', lib', names) : d.name \in names
      PROVE  names = DOMAIN lock'
  <2>1. names \in SUBSET Names /\ names \cap DOMAIN graph = names
    BY GraphFacts
  <2>2. \A d \in Wanted(manifest, lib, names \cap DOMAIN graph) : d.name \in names
    BY <1>4, <2>1
  <2>. QED BY <1>1, <2>1, <2>2 DEF Reached
<1>. QED BY <1>1, <1>2, <1>3, <1>4 DEF LockGood, LockFits, Closed, Asked, Wanted

\* Only what has ended has no steps left.
LEMMA Busy ==
  ASSUME Work, ~Finish
  PROVE  todo # <<>>
  BY DEF Work, Put, Drop, Restore, RestoreFails, Publish, EditFails, Stash,
         StashFails, Unstash, UnstashFails, Delete, DeleteFails, Adopt,
         AdoptFails, Sync, Resolve, VisitKnown, VisitInstalled, Fetch,
         FetchFails, Replace, ReplaceFails, Resolved, Scripts, ScriptWrites,
         WriteLock, Seal, LockFails, Compare, Inspect, AtEntry, At

\* What the steps of a command do to it, and that a command which only reads
\* changes nothing on disk.
LEMMA WorkFacts ==
  ASSUME TypeOK, Plan, Work, ~Finish
  PROVE  /\ cmd # None /\ cmd \in Commands
         /\ cmd' # None /\ cmd'.kind = cmd.kind
         /\ \/ cmd'.result \in {cmd.result} \cup Undoing
            \/ cmd'.result = "unlocked" /\ cmd.kind = "build"
         /\ UNCHANGED seen
         /\ cmd.kind \in ReadOnly => UNCHANGED disk
         /\ /\ cmd'.result \notin Undoing /\ cmd.kind # "build"
            /\ ~At("adopt")
            => cmd' = cmd
<1>1. todo # <<>>
  BY Busy
<1>2. cmd # None /\ cmd \in Commands /\ OnCourse
  BY <1>1, AtFacts DEF Plan
<1>3. ASSUME cmd.kind \in ReadOnly
      PROVE  Head(todo) \in {"resolve", "visit", "compare", "inspect"}
  BY <1>1, <1>2, <1>3 DEF OnCourse, Reads, AtTail, ReadOnly
<1>4. UNCHANGED seen
  BY DEF Work, Put, Drop, Restore, RestoreFails, Publish, EditFails, Stash,
         StashFails, Unstash, UnstashFails, Delete, DeleteFails, Adopt,
         AdoptFails, Sync, Resolve, VisitKnown, VisitInstalled, Fetch,
         FetchFails, Replace, ReplaceFails, Resolved, Scripts, ScriptWrites,
         WriteLock, Seal, LockFails, Compare, Inspect, Unlinks, Erodes, Passes,
         Turns, Goes, GivesUp, Fails, FailsWith
<1>5. \/ cmd' = cmd
      \/ cmd' = [cmd EXCEPT !.result = "failed"]
      \/ cmd' = [cmd EXCEPT !.result = "unlocked"] /\ cmd.kind = "build"
      \/ GivesUp
      \/ /\ At("adopt")
         /\ \E i \in Names : cmd' = [cmd EXCEPT !.as = i, !.force = FALSE]
  BY DEF Work, Put, Drop, Restore, RestoreFails, Publish, EditFails, Stash,
         StashFails, Unstash, UnstashFails, Delete, DeleteFails, Adopt,
         AdoptFails, Sync, Resolve, VisitKnown, VisitInstalled, Fetch,
         FetchFails, Replace, ReplaceFails, Resolved, Scripts, ScriptWrites,
         WriteLock, Seal, LockFails, Compare, Inspect, Unlinks, Erodes, Passes,
         Turns, Goes, Fails, FailsWith
<1>6. GivesUp => /\ cmd' # None /\ cmd'.kind = cmd.kind
                 /\ cmd' = cmd \/ cmd'.result \in Undoing
  BY <1>1, <1>2, AtFacts, GivesUpFacts
<1>7. ASSUME At("adopt"),
             NEW i \in Names, cmd' = [cmd EXCEPT !.as = i, !.force = FALSE]
      PROVE  /\ cmd' # None /\ cmd'.kind = cmd.kind /\ cmd'.result = cmd.result
             /\ cmd.kind \notin ReadOnly
  <2>1. cmd' \in Commands
    BY <1>2, <1>7 DEF Commands
  <2>2. cmd' # None
    BY <2>1
  <2>. QED BY <1>2, <1>3, <1>7, <2>1, <2>2 DEF At, Commands
<1>8. CASE \/ cmd' = cmd
           \/ cmd' = [cmd EXCEPT !.result = "failed"]
           \/ cmd' = [cmd EXCEPT !.result = "unlocked"] /\ cmd.kind = "build"
           \/ GivesUp
  <2>1. /\ cmd' # None /\ cmd'.kind = cmd.kind
        /\ \/ cmd'.result \in {cmd.result} \cup Undoing
           \/ cmd'.result = "unlocked" /\ cmd.kind = "build"
    BY <1>2, <1>6, <1>8, ResultFacts
  <2>2. cmd.kind \in ReadOnly => UNCHANGED disk
    BY <1>1, <1>3
       DEF Work, Put, Drop, Restore, RestoreFails, Publish, EditFails, Stash,
           StashFails, Unstash, UnstashFails, Delete, DeleteFails, Adopt,
           AdoptFails, Sync, Resolve, VisitKnown, VisitInstalled, Fetch,
           FetchFails, Replace, ReplaceFails, Resolved, Scripts, ScriptWrites,
           WriteLock, Seal, LockFails, Compare, Inspect, At, AtEntry
  <2>3. cmd' = cmd \/ cmd'.result \in Undoing \/ cmd.kind = "build"
    BY <1>2, <1>6, <1>8, ResultFacts
  <2>. QED BY <1>2, <1>4, <1>8, <2>1, <2>2, <2>3 DEF ReadOnly
<1>. QED BY <1>2, <1>4, <1>5, <1>7, <1>8

\* After these steps a command that changes the project goes on.
LEMMA GoesOn ==
  ASSUME TypeOK, Plan, todo # <<>>, cmd.result \notin Undoing,
         cmd.kind \notin ReadOnly,
         Head(todo) \in {"put", "drop", "publish", "stash", "delete"}
  PROVE  Tail(todo) # <<>> /\ Head(Tail(todo)) # "adopt"
<1>1. OnCourse /\ cmd # None
  BY AtFacts DEF Plan
<1>2. Tail(todo) \in {Sync1, SyncA, PutS, PutSA, DeleteS}
  BY <1>1 DEF OnCourse, Works, WorksFirst, WorksAgain, AtTail, Round
<1>. QED BY <1>2, ListFacts DEF Lists

\* A lock in the state after a step that leaves what it is about alone.
LEMMA SameLock ==
  ASSUME LockGood, UNCHANGED disk
  PROVE  LockGood'
<1>1. manifest' = manifest /\ lock' = lock /\ lib' = lib
  BY DEF disk
<1>2. \A names : Asked(manifest, names)' = Asked(manifest, names)
  BY <1>1 DEF Asked
<1>3. \A names : Closed(names)' <=> Closed(names)
  BY <1>1, <1>2 DEF Closed
<1>4. LockFits' <=> LockFits
  BY <1>1, <1>2, <1>3 DEF LockFits, AsLocked
<1>. QED BY <1>1, <1>4 DEF LockGood

\* The last steps but the adoption of a command that changes the project.
LEMMA LastSteps ==
  ASSUME TypeOK, Plan, Work, ~Finish,
         cmd.kind \notin ReadOnly, cmd'.result = "ok",
         todo' = <<>> \/ At("adopt")'
  PROVE  \/ Seal
         \/ Sync /\ manifest = <<>> /\ lock' = None
         \/ At("adopt") /\ todo' = <<>> /\ UNCHANGED <<disk, cmd>>
<1>1. cmd # None /\ cmd \in Commands /\ cmd.result = "ok" /\ OnCourse
  BY WorkFacts DEF Plan
<1>2. \A rollback : ~FailsWith(rollback)
  BY <1>1, ResultFacts DEF FailsWith
<1>3. ~Fails
  BY <1>2 DEF Fails
<1>4. ASSUME todo' # <<>>, Head(todo') # "adopt"
      PROVE  FALSE
  BY <1>4 DEF At
<1>5. ASSUME NEW x \in Steps \ {"adopt"}, Turns(x), todo # <<>>
      PROVE  FALSE
  BY <1>4, <1>5, PassesFacts
<1>6. CASE Put \/ Drop \/ Restore
  BY <1>5, <1>6 DEF Put, Drop, Restore, Unlinks, At, Steps
<1>7. ASSUME todo # <<>>, todo' = Tail(todo),
             Head(todo) \in {"put", "drop", "publish", "stash", "delete"}
      PROVE  FALSE
  BY <1>1, <1>4, <1>7, GoesOn
<1>8. CASE Publish \/ EditFails \/ Stash \/ StashFails \/ DeleteFails
  BY <1>2, <1>7, <1>8 DEF Publish, EditFails, Stash, StashFails, DeleteFails,
                          GivesUp, Passes, Goes, At
<1>9. CASE Delete
  <2>1. todo # <<>> /\ Head(todo) = "delete"
    BY <1>9 DEF Delete, At
  <2>. QED BY <1>4, <1>7, <1>9, <2>1 DEF Delete, Erodes, Passes, Goes
<1>10. CASE Unstash \/ UnstashFails \/ RestoreFails
  <2>1. todo # <<>> /\ Head(todo) \in {"unstash", "restore"}
    BY <1>10 DEF Unstash, UnstashFails, RestoreFails, At
  <2>. QED BY <1>1, <2>1
       DEF OnCourse, Works, WorksFirst, WorksAgain, AtTail, Round
<1>11. CASE Adopt \/ AdoptFails
  <2>1. todo # <<>> /\ Head(todo) = "adopt"
    BY <1>11 DEF Adopt, AdoptFails, At
  <2>2. CASE Passes /\ UNCHANGED <<disk, draft, plan>>
    <3>1. todo' = Tail(todo) /\ UNCHANGED <<disk, cmd>>
      BY <2>2 DEF Passes, Goes
    <3>2. Head(Tail(todo)) # "adopt" \/ Tail(todo) = <<>>
      BY <1>1, <2>1
         DEF OnCourse, Works, WorksFirst, WorksAgain, AtTail, Round
    <3>. QED BY <2>1, <3>1, <3>2 DEF At
  <2>3. CASE todo' = <<"drop", "put", "sync">>
    BY <1>4, <2>3, ProgramFacts, ProgramTails
  <2>. QED BY <1>11, <2>2, <2>3 DEF Adopt, AdoptFails
<1>12. CASE Sync
  <2>1. todo # <<>> /\ "resolve" \in Steps
    BY <1>12 DEF Sync, At, Steps
  <2>. QED BY <1>5, <1>12, <2>1 DEF Sync
<1>13. CASE Resolve \/ Resolved \/ Scripts \/ WriteLock
  <2>1. todo # <<>>
    BY <1>13 DEF Resolve, Resolved, Scripts, WriteLock, At
  <2>2. \E x \in Steps \ {"adopt"} : Turns(x)
    BY <1>3, <1>13 DEF Resolve, Resolved, Scripts, WriteLock, Steps
  <2>. QED BY <1>5, <2>1, <2>2
<1>14. CASE VisitKnown \/ VisitInstalled \/ ScriptWrites
  BY <1>3, <1>4, <1>14
     DEF VisitKnown, VisitInstalled, ScriptWrites, Goes, AtEntry, At
<1>15. ASSUME NEW t \in Trees, Fetch(t)
       PROVE  FALSE
  BY <1>3, <1>5, <1>15 DEF Fetch, AtEntry, At, Steps
<1>16. CASE FetchFails \/ ReplaceFails \/ LockFails
  BY <1>1, <1>3, <1>16, ResultFacts DEF FetchFails, ReplaceFails, LockFails
<1>17. CASE Replace
  <2>1. todo # <<>> /\ Head(todo) = "replace" /\ "visit" \in Steps
    BY <1>17 DEF Replace, At, Steps
  <2>. QED BY <1>4, <1>5, <1>17, <2>1 DEF Replace, Erodes
<1>18. CASE Compare \/ Inspect
  BY <1>18, AtFacts DEF Compare, Inspect, At
<1>. QED BY <1>6, <1>8, <1>9, <1>10, <1>11, <1>12, <1>13, <1>14, <1>15, <1>16,
            <1>17, <1>18 DEF Work

\* When a command that changes the project has done its last step but the
\* adoption, the lock fits.
LEMMA ChangesSeal ==
  ASSUME TypeOK, Plan, Resolving, Sealed, Work, ~Finish,
         cmd.kind \notin ReadOnly, cmd'.result = "ok",
         todo' = <<>> \/ At("adopt")'
  PROVE  LockGood'
<1>1. cmd # None /\ cmd \in Commands /\ cmd.result = "ok"
  BY WorkFacts
<1>2. CASE Seal
  <2>1. /\ AtPlace /\ queue = <<>> /\ UNCHANGED <<manifest, lib>>
        /\ lock' = graph /\ graph \in Graphs /\ Fits
    BY <1>2 DEF Seal, At, AtPlace, Resolving, TypeOK
  <2>2. \A n \in DOMAIN graph : AsLocked(n)'
    <3>1. \A n \in DOMAIN graph :
            graph[n].tree \in Trees /\ Builds[graph[n].tree] \subseteq Trees
      BY GraphFacts, BuildAssumption DEF Packages
    <3>. QED BY <2>1, <3>1 DEF Fits, AsLocked
  <2>. QED BY <2>1, <2>2, GraphFits DEF Fits
<1>3. CASE Sync /\ manifest = <<>> /\ lock' = None
  BY <1>3 DEF Sync, LockGood, LockFits
<1>4. CASE At("adopt") /\ todo' = <<>> /\ UNCHANGED <<disk, cmd>>
  BY <1>1, <1>4, SameLock DEF Sealed
<1>. QED BY <1>2, <1>3, <1>4, LastSteps

\* When build --locked has accepted the lock, it fits.
LEMMA LockedSeals ==
  ASSUME TypeOK, Plan, Resolving, Work, ~Finish,
         cmd.kind = "locked", cmd'.result = "ok", todo' = <<>>
  PROVE  LockGood' /\ Exact'
<1>1. cmd # None /\ cmd \in Commands /\ cmd.result = "ok" /\ OnCourse
  BY WorkFacts DEF Plan
<1>2. ~Fails
  BY <1>1, ResultFacts DEF Fails, FailsWith
<1>3. todo # <<>>
  BY Busy
<1>4. Head(todo) \in {"resolve", "visit", "compare"}
  BY <1>1, <1>3 DEF OnCourse, Reads, AtTail, ReadOnly
<1>5. ASSUME NEW x \in Steps, Turns(x)
      PROVE  FALSE
  BY <1>3, <1>5, PassesFacts
<1>6. CASE Resolve \/ Resolved
  <2>1. \E x \in Steps : Turns(x)
    BY <1>6 DEF Resolve, Resolved, Steps
  <2>. QED BY <1>5, <2>1
<1>7. CASE VisitKnown \/ VisitInstalled
  BY <1>2, <1>3, <1>7 DEF VisitKnown, VisitInstalled, Goes
<1>8. CASE Compare
  <2>1. /\ LockMatches /\ UNCHANGED disk /\ AtPlace /\ queue = <<>> /\ Fresh
    BY <1>2, <1>8 DEF Compare, At, AtPlace, Resolving
  <2>2. lock' \in Graphs /\ UNCHANGED <<manifest, lib, lock>>
    BY <2>1 DEF LockMatches, TypeOK, disk
  <2>3. \A n \in DOMAIN lock' : AsLocked(n)'
    <3>1. \A n \in DOMAIN graph : graph[n].tree \in Trees
      BY GraphFacts DEF Packages
    <3>. QED BY <2>1, <2>2, <3>1 DEF LockMatches, Fresh, AsLocked
  <2>4. Exact'
    BY <2>1, <2>2 DEF LockMatches, Fresh, Exact
  <2>. QED BY <2>1, <2>2, <2>3, <2>4, GraphFits DEF LockMatches
<1>. QED BY <1>2, <1>4, <1>6, <1>7, <1>8
     DEF Work, Put, Drop, Restore, RestoreFails, Publish, EditFails, Stash,
         StashFails, Unstash, UnstashFails, Delete, DeleteFails, Adopt,
         AdoptFails, Sync, Fetch, FetchFails, Replace, ReplaceFails, Scripts,
         ScriptWrites, WriteLock, Seal, LockFails, Inspect, AtEntry, At

\* In every reachable state a settled project has a lock that fits.
THEOREM SealedInvariant == Spec => []Sealed
<1>1. Init => Sealed
  BY DEF Init, Sealed, Compared, Succeeded
<1>2. Typed /\ Resolving /\ Sealed /\ [Next]_vars => Sealed'
  <2> SUFFICES ASSUME TypeOK, Plan, Resolving, Sealed, [Next]_vars
               PROVE  Sealed'
    BY DEF Typed
  <2>1. ASSUME NEW kind, NEW name, NEW spec, NEW force, NEW steps,
               Starts(kind, name, spec, force, steps),
               \/ steps # <<>> /\ Head(steps) # "adopt"
               \/ manifest = <<>> /\ kind = "locked"
        PROVE  Sealed'
    <3>1. /\ settled' = (settled /\ kind \in ReadOnly)
          /\ outcome' = None /\ cmd'.kind = kind /\ cmd'.result = "ok"
          /\ todo' = steps /\ UNCHANGED disk
      BY <2>1 DEF Starts
    <3>2. settled' => LockGood'
      BY <3>1, SameLock DEF Sealed
    <3>. QED BY <2>1, <3>1, <3>2 DEF Sealed, Compared, Succeeded, At, ReadOnly, disk
  <2>2. CASE Begin
    <3>1. ASSUME NEW o \in Offers, Add(o)
          PROVE  Sealed'
      BY <2>1, <3>1, ProgramFacts, ProgramTails DEF Add
    <3>2. ASSUME NEW n \in Names, NEW keepFiles \in BOOLEAN, Remove(n, keepFiles)
          PROVE  Sealed'
      BY <2>1, <3>2, ProgramFacts, ProgramTails DEF Remove
    <3>3. ASSUME NEW o \in Offers, Upgrade(o.name, o.spec)
          PROVE  Sealed'
      BY <2>1, <3>3, ProgramFacts, ProgramTails DEF Upgrade
    <3>4. CASE Update \/ Build \/ Verify
      BY <2>1, <3>4, ProgramFacts, ProgramTails DEF Update, Build, Verify
    <3>5. CASE BuildLocked
      BY <2>1, <3>5, ProgramFacts, ProgramTails DEF BuildLocked
    <3>. QED BY <2>2, <3>1, <3>2, <3>3, <3>4, <3>5 DEF Begin
  <2>3. CASE Work /\ ~Finish
    <3>1. /\ cmd # None /\ cmd' # None /\ cmd'.kind = cmd.kind
          /\ outcome' = None /\ settled' = settled
          /\ cmd'.result = "unlocked" => cmd.kind = "build"
          /\ ~Compared'
      BY <2>3, WorkFacts DEF Sealed, seen, Compared, Succeeded
    <3>2. CASE cmd.kind \notin ReadOnly
      <4>1. ~settled'
        BY <3>1, <3>2 DEF Sealed
      <4>2. cmd'.result = "ok" /\ (todo' = <<>> \/ At("adopt")') => LockGood'
        BY <2>3, <3>2, ChangesSeal
      <4>. QED BY <3>1, <3>2, <4>1, <4>2 DEF Sealed, ReadOnly
    <3>3. CASE cmd.kind \in ReadOnly
      <4>1. settled' => LockGood'
        BY <2>3, <3>1, <3>3, WorkFacts, SameLock DEF Sealed
      <4>2. cmd.kind = "locked" /\ cmd'.result = "ok" /\ todo' = <<>> =>
              LockGood' /\ Exact'
        BY <2>3, LockedSeals
      <4>. QED BY <3>1, <3>3, <4>1, <4>2 DEF Sealed
    <3>. QED BY <3>2, <3>3
  <2>4. CASE Finish
    <3>1. /\ cmd # None /\ cmd \in Commands /\ todo = <<>>
          /\ cmd' = None /\ UNCHANGED disk
      BY <2>4 DEF Finish, TypeOK
    <3>2. settled' => LockGood
      BY <2>4, <3>1 DEF Finish, Sealed
    <3>3. Compared' => LockGood /\ Exact
      <4>1. outcome' = [kind |-> cmd.kind, name |-> cmd.as, spec |-> cmd.spec,
                        ok |-> cmd.result \in {"ok", "unlocked"}]
        BY <2>4 DEF Finish
      <4>2. Compared' => /\ cmd.kind = "locked" /\ manifest # <<>>
                         /\ cmd.result \in {"ok", "unlocked"}
        BY <3>1, <4>1 DEF Compared, Succeeded, disk
      <4>. QED BY <3>1, <4>2 DEF Sealed
    <3>4. Exact => Exact'
      BY <3>1 DEF Exact, disk
    <3>. QED BY <3>1, <3>2, <3>3, <3>4, SameLock DEF Sealed
  <2>5. CASE Killed
    <3>1. outcome' = None /\ cmd' = None /\ UNCHANGED disk /\ (settled' => settled)
      BY <2>5 DEF Killed, Sealed
    <3>. QED BY <3>1, SameLock DEF Sealed, Compared, Succeeded
  <2>6. CASE Checkout
    BY <2>6 DEF Checkout, Sealed, Compared, Succeeded
  <2>7. CASE UNCHANGED vars
    BY <2>7, SameLock DEF vars, Sealed, Compared, Exact, Succeeded, At, disk
  <2>. QED BY <2>2, <2>3, <2>4, <2>5, <2>6, <2>7 DEF Next
<1>. QED BY <1>1, <1>2, TypedInvariant, ResolvingInvariant, PTL DEF Spec

\* Whenever a command has written the lock and succeeded, and whenever build
\* --locked has accepted a project with dependencies, the lock fits the
\* manifest and lib; and build --locked has found the very hashes of the lock.
THEOREM LockSoundCorrect == Spec => []LockSound
<1>1. Sealed => LockSound
  BY DEF Sealed, LockSound, LockGood, Exact
<1>. QED BY <1>1, SealedInvariant, PTL

-----------------------------------------------------------------------------
(* The lock is accepted.                                                   *)

\* The lock has the versions that the packages declare, and scripts leave the
\* hashes alone.
Declared ==
  /\ lock # None
  /\ \A n \in DOMAIN lock :
       /\ lock[n].version = Version[lock[n].tree]
       /\ \A t \in Builds[lock[n].tree] : Hash[t] = Hash[lock[n].tree]

\* A command that only reads resolves what the lock has, from what it lists.
Accepting ==
  settled /\ Declared =>
    /\ outcome # None /\ outcome.kind \in ReadOnly => outcome.ok
    /\ cmd # None => cmd.result \notin Undoing
    /\ cmd # None /\ AtPlace =>
         /\ \A n \in DOMAIN graph :
              /\ n \in DOMAIN lock
              /\ graph[n].version = lock[n].version
              /\ Hash[graph[n].tree] = Hash[lock[n].tree]
         /\ Range(queue) \subseteq Wanted(manifest, lib, DOMAIN lock)

\* What a lock that fits says of the directories and the entries.
LEMMA GoodFacts ==
  ASSUME TypeOK, LockGood, Declared
  PROVE  /\ manifest # <<>> /\ DOMAIN lock \subseteq Names
         /\ \A n \in DOMAIN lock :
              /\ Hash[lib[n]] = Hash[lock[n].tree] /\ lib[n] \in Trees
              /\ lock[n].version = Version[lib[n]]
              /\ lock[n].version \in Accepts[lock[n].spec]
         /\ \A d \in Wanted(manifest, lib, DOMAIN lock) :
              /\ d.name \in DOMAIN lock
              /\ lock[d.name].version \in Accepts[d.spec]
         /\ \A names \in SUBSET DOMAIN lock :
              (/\ \A n \in names : lib[n] # None
               /\ \A d \in Wanted(manifest, lib, names) : d.name \in names)
              => names = DOMAIN lock
<1>1. PICK D \in SUBSET Names : lock \in [D -> Packages]
  BY DEF TypeOK, Declared, Graphs
<1>2. \A n \in DOMAIN lock : lock[n].tree \in Trees
  BY <1>1 DEF Packages
<1>3. manifest # <<>>
  BY DEF LockGood, LockFits, Declared
<1>4. \A n \in DOMAIN lock :
        /\ Hash[lib[n]] = Hash[lock[n].tree] /\ lib[n] \in Trees
        /\ Version[lib[n]] = Version[lock[n].tree]
  <2>1. \A n \in DOMAIN lock : AsLocked(n) /\ n \in Names
    BY <1>1, <1>3 DEF LockGood, LockFits
  <2>2. \A n \in DOMAIN lock :
          Hash[lib[n]] = Hash[lock[n].tree] /\ lib[n] \in Trees
    BY <2>1 DEF AsLocked, Declared, TypeOK
  <2>. QED BY <1>2, <2>2, BuildAssumption
<1>5. \A d \in Wanted(manifest, lib, DOMAIN lock) :
        d.name \in DOMAIN lock /\ lock[d.name].version \in Accepts[d.spec]
  BY <1>3 DEF LockGood, LockFits, Closed, Asked, Wanted
<1>6. ASSUME NEW names \in SUBSET DOMAIN lock,
             \A n \in names : lib[n] # None,
             \A d \in Wanted(manifest, lib, names) : d.name \in names
      PROVE  names = DOMAIN lock
  <2>1. Closed(names)
    BY <1>6 DEF Closed, Asked, Wanted
  <2>. QED BY <1>3, <2>1 DEF LockGood, LockFits
<1>. QED BY <1>1, <1>2, <1>3, <1>4, <1>5, <1>6 DEF LockGood, Declared

\* A command that only reads resolves a settled project to its lock.
LEMMA ReadsAccepting ==
  ASSUME TypeOK, Plan, Resolving, Sealed, Accepting, Work, ~Finish,
         settled, Declared, cmd.kind \in ReadOnly
  PROVE  Accepting'
<1>1. /\ cmd # None /\ cmd \in Commands /\ OnCourse /\ cmd.result \notin Undoing
      /\ UNCHANGED <<disk, seen>> /\ outcome = None /\ ~cmd.force
      /\ LockGood
  BY WorkFacts DEF Plan, Sealed, Accepting
<1>2. UNCHANGED <<manifest, lock, lib, settled, outcome>> /\ Declared'
  BY <1>1 DEF disk, seen, Declared
<1>3. todo # <<>>
  BY Busy
<1>4. \/ cmd.kind = "locked" /\ Head(todo) \in {"resolve", "visit", "compare"}
      \/ cmd.kind = "verify" /\ Head(todo) = "inspect"
  BY <1>1, <1>3 DEF OnCourse, Reads, AtTail, ReadOnly
<1>5. Head(todo) \in {"visit", "compare"} =>
        /\ AtPlace
        /\ \A n \in DOMAIN graph :
             /\ n \in DOMAIN lock
             /\ graph[n].version = lock[n].version
             /\ Hash[graph[n].tree] = Hash[lock[n].tree]
        /\ Range(queue) \subseteq Wanted(manifest, lib, DOMAIN lock)
  BY <1>1, <1>3 DEF Accepting, AtPlace
<1>6. ASSUME Passes, ~AtPlace'
      PROVE  Accepting'
  BY <1>1, <1>2, <1>6 DEF Accepting, Passes, Goes
<1>7. CASE Resolve
  <2>1. DOMAIN graph' = {} /\ queue' = manifest /\ cmd' = cmd
    <3>1. graph = NoPackage
      BY <1>7 DEF Resolve, At, Resolving, AtPlace
    <3>. QED BY <1>7, <3>1 DEF Resolve, Turns, Goes, NoPackage
  <2>2. Range(manifest) \subseteq Wanted(manifest, lib, DOMAIN lock)
    BY DEF Wanted
  <2>. QED BY <1>1, <1>2, <2>1, <2>2 DEF Accepting
<1>8. ASSUME AtEntry
      PROVE  /\ Visited \in Wanted(manifest, lib, DOMAIN lock)
             /\ Visited.name \in DOMAIN lock
             /\ lock[Visited.name].version \in Accepts[Visited.spec]
             /\ Range(Tail(queue)) \subseteq Wanted(manifest, lib, DOMAIN lock)
             /\ Suits
  <2>1. Range(queue) = {Visited} \cup Range(Tail(queue)) /\ Head(todo) = "visit"
    BY <1>8, PopFromQueue DEF TypeOK, Visited, AtEntry, At
  <2>2. Visited \in Wanted(manifest, lib, DOMAIN lock)
    BY <1>5, <2>1
  <2>. QED BY <1>1, <1>5, <2>1, <2>2, GoodFacts DEF Suits
<1>9. CASE VisitKnown
  <2>1. AtEntry /\ Visited.name \in DOMAIN graph /\ Head(todo) = "visit"
    BY <1>9 DEF VisitKnown, AtEntry, At
  <2>2. graph[Visited.name].version \in Accepts[Visited.spec]
    BY <1>5, <1>8, <2>1
  <2>3. cmd' = cmd /\ queue' = Tail(queue) /\ graph' = graph
    BY <1>9, <2>2 DEF VisitKnown, Goes
  <2>. QED BY <1>1, <1>2, <1>5, <1>8, <2>1, <2>3 DEF Accepting
<1>10. CASE VisitInstalled
  <2> DEFINE n == Visited.name
             needs == Needs[lib[n]]
  <2>1. AtEntry /\ n \notin DOMAIN graph /\ Head(todo) = "visit"
    BY <1>10 DEF VisitInstalled, AtEntry, At
  <2>2. /\ n \in DOMAIN lock /\ lib[n] \in Trees
        /\ Hash[lib[n]] = Hash[lock[n].tree]
        /\ lock[n].version = Version[lib[n]]
    BY <1>1, <1>8, <2>1, GoodFacts
  <2>3. /\ DOMAIN graph' = DOMAIN graph \cup {n}
        /\ \A m \in DOMAIN graph : graph'[m] = graph[m]
        /\ graph'[n].version = Version[lib[n]] /\ graph'[n].tree = lib[n]
        /\ queue' = Tail(queue) \o needs /\ cmd' = cmd
    BY <1>2, <1>10, <2>1 DEF VisitInstalled, Enters, Goes
  <2>4. Range(queue') = Range(Tail(queue)) \cup Range(needs)
    <3>1. needs \in Seq(Entries) /\ Tail(queue) \in Seq(Entries)
      BY <2>1, <2>2, VisitedFacts DEF AtEntry
    <3>2. queue' = Tail(queue) \o needs
      BY <2>3
    <3> HIDE DEF needs
    <3>3. Range(Tail(queue) \o needs) = Range(Tail(queue)) \cup Range(needs)
      BY ONLY <3>1, ConcatQueues, ZenonT(40)
    <3>. QED BY <3>2, <3>3
  <2>5. Range(needs) \subseteq Wanted(manifest, lib, DOMAIN lock)
    BY <2>2 DEF Wanted
  <2> HIDE DEF n, needs
  <2>. QED BY <1>1, <1>2, <1>5, <1>8, <2>1, <2>2, <2>3, <2>4, <2>5 DEF Accepting
<1>11. CASE FetchFails \/ \E t \in Trees : Fetch(t)
  BY <1>1, <1>8, <1>11 DEF FetchFails, Fetch, MustInstall
<1>12. CASE Resolved
  BY <1>1, <1>2, <1>3, <1>5, <1>12 DEF Resolved, Turns, Goes, Accepting, plan, At
<1>13. CASE Compare
  <2>1. AtPlace /\ queue = <<>> /\ Fits /\ Pending /\ Head(todo) = "compare"
    BY <1>13 DEF Compare, At, AtPlace, Resolving
  <2>2. DOMAIN graph = DOMAIN lock
    <3>1. DOMAIN graph \in SUBSET DOMAIN lock
      BY <1>5, <2>1
    <3>2. \A d \in Wanted(manifest, lib, DOMAIN graph) : d.name \in DOMAIN graph
      BY <2>1, EmptyQueue DEF Pending
    <3>3. \A n \in DOMAIN graph : lib[n] # None
      BY <1>1, <3>1, GoodFacts
    <3>. QED BY <1>1, <3>1, <3>2, <3>3, GoodFacts
  <2>3. LockMatches
    BY <1>1, <1>5, <2>1, <2>2, GoodFacts DEF LockMatches, Fits, Declared
  <2>4. Passes
    BY <1>13, <2>3 DEF Compare
  <2>5. ~AtPlace'
    BY <1>3, <2>1, <2>4, RoundEnds DEF AtPlace
  <2>. QED BY <1>6, <2>4, <2>5
<1>14. CASE Inspect
  <2>1. Verified
    <3>1. Range(manifest) \subseteq Wanted(manifest, lib, DOMAIN lock)
      BY DEF Wanted
    <3>. QED BY <1>1, <3>1, GoodFacts DEF Verified, Declared
  <2>2. Passes
    BY <1>14, <2>1 DEF Inspect
  <2>3. ~AtPlace'
    BY <1>3, <2>2, TailFacts DEF AtPlace, Passes, Goes
  <2>. QED BY <1>6, <2>2, <2>3
<1>. QED BY <1>4, <1>7, <1>9, <1>10, <1>11, <1>12, <1>13, <1>14
     DEF Work, Put, Drop, Restore, RestoreFails, Publish, EditFails, Stash,
         StashFails, Unstash, UnstashFails, Delete, DeleteFails, Adopt,
         AdoptFails, Sync, Replace, ReplaceFails, Scripts, ScriptWrites,
         WriteLock, Seal, LockFails, At

\* In every reachable state a command that reads a settled project is on
\* its way to accept it.
THEOREM AcceptingInvariant == Spec => []Accepting
<1>1. Init => Accepting
  BY DEF Init, Accepting
<1>2. /\ Typed /\ Typed' /\ Resolving /\ Sealed /\ Sealed' /\ Accepting
      /\ [Next]_vars
      => Accepting'
  <2> SUFFICES ASSUME TypeOK, Plan, Resolving, Sealed, Sealed', Accepting,
                      [Next]_vars
               PROVE  Accepting'
    BY DEF Typed
  <2>1. ASSUME NEW kind, NEW name, NEW spec, NEW force, NEW steps,
               Starts(kind, name, spec, force, steps),
               steps = <<>> \/
                 Head(steps) \notin {"visit", "replace", "scripts", "lock",
                                     "seal", "compare"}
        PROVE  Accepting'
    <3>1. /\ UNCHANGED disk /\ outcome' = None /\ cmd'.result = "ok"
          /\ todo' = steps
      BY <2>1 DEF Starts
    <3>. QED BY <2>1, <3>1 DEF Accepting, AtPlace
  <2>2. CASE Begin
    <3>1. ASSUME NEW o \in Offers, Add(o)
          PROVE  Accepting'
      BY <2>1, <3>1, ProgramTails DEF Add
    <3>2. ASSUME NEW n \in Names, NEW keepFiles \in BOOLEAN, Remove(n, keepFiles)
          PROVE  Accepting'
      BY <2>1, <3>2, ProgramTails DEF Remove
    <3>3. ASSUME NEW o \in Offers, Upgrade(o.name, o.spec)
          PROVE  Accepting'
      BY <2>1, <3>3, ProgramTails DEF Upgrade
    <3>4. CASE Update \/ Build \/ BuildLocked \/ Verify
      BY <2>1, <3>4, ProgramTails DEF Update, Build, BuildLocked, Verify
    <3>. QED BY <2>2, <3>1, <3>2, <3>3, <3>4 DEF Begin
  <2>3. CASE Work /\ ~Finish
    <3>1. cmd # None /\ UNCHANGED settled
      BY <2>3, WorkFacts DEF seen
    <3>2. CASE settled
      <4>1. cmd.kind \in ReadOnly /\ UNCHANGED disk
        BY <2>3, <3>1, <3>2, WorkFacts DEF Sealed
      <4>2. Declared' => Declared
        BY <4>1 DEF Declared, disk
      <4>3. CASE Declared
        BY <2>3, <3>2, <4>1, <4>3, ReadsAccepting
      <4>. QED BY <4>2, <4>3 DEF Accepting
    <3>. QED BY <3>1, <3>2 DEF Accepting
  <2>4. CASE Finish
    <3>1. /\ cmd # None /\ cmd' = None /\ UNCHANGED disk
          /\ outcome' = [kind |-> cmd.kind, name |-> cmd.as, spec |-> cmd.spec,
                         ok |-> cmd.result \in {"ok", "unlocked"}]
          /\ cmd.kind \in ReadOnly => settled' = settled
      BY <2>4 DEF Finish
    <3>2. Declared' => Declared
      BY <3>1 DEF Declared, disk
    <3>3. outcome'.kind = cmd.kind /\ (cmd.result \notin Undoing => outcome'.ok)
      BY <3>1 DEF TypeOK, Commands
    <3>. QED BY <3>1, <3>2, <3>3 DEF Accepting
  <2>5. CASE Killed
    BY <2>5 DEF Killed, Accepting, Sealed
  <2>6. CASE Checkout
    BY <2>6 DEF Checkout, Accepting
  <2>7. CASE UNCHANGED vars
    BY <2>7 DEF vars, Accepting, Declared, AtPlace
  <2>. QED BY <2>2, <2>3, <2>4, <2>5, <2>6, <2>7 DEF Next
<1>. QED BY <1>1, <1>2, TypedInvariant, ResolvingInvariant, SealedInvariant,
            PTL DEF Spec

\* What a command left settled, build --locked and verify accept, if the lock
\* has the versions that the packages declare and no script changes a hash.
THEOREM LockAcceptedCorrect == Spec => []LockAccepted
<1>1. Accepting => LockAccepted
  BY DEF Accepting, LockAccepted, Declared
<1>. QED BY <1>1, AcceptingInvariant, PTL

-----------------------------------------------------------------------------
(* Packages are as their sources deliver them.                             *)

\* What an installation brings, a script keeps.
LEMMA DeliveredFacts ==
  ASSUME NEW s \in Specs
  PROVE  /\ Delivered(s) \subseteq Trees
         /\ \A t \in Fetched[s] : {t} \cup Builds[t] \subseteq Delivered(s)
         /\ \A t \in Delivered(s) : Builds[t] \subseteq Delivered(s)
<1>1. Fetched[s] \subseteq Trees /\ \A t \in Trees : Builds[t] \subseteq Trees
  BY BuildAssumption
<1>2. \A t \in Fetched[s] : {t} \cup Builds[t] \subseteq Delivered(s)
  BY DEF Delivered
<1>3. Delivered(s) \subseteq Trees
  BY <1>1 DEF Delivered
<1>4. ASSUME NEW t \in Delivered(s)
      PROVE  Builds[t] \subseteq Delivered(s)
  <2>1. PICK u \in Fetched[s] : t \in {u} \cup Builds[u]
    BY DEF Delivered
  <2>2. Builds[t] \subseteq Builds[u]
    BY <1>1, <2>1, BuildAssumption
  <2>. QED BY <1>2, <2>2
<1>. QED BY <1>2, <1>3, <1>4

\* What a step inside a resolution, or into one, does to the directories and
\* to what is resolved: it starts from the manifest, resolves nothing new,
\* deletes a part of an old directory, enters a package, or runs a script.
Opens ==
  /\ At("resolve") /\ ~At("replace")'
  /\ DOMAIN graph = {} /\ graph' = graph /\ queue' = manifest
  /\ UNCHANGED lib

Keeps ==
  /\ AtPlace /\ ~At("replace")
  /\ At("visit") \/ ~(At("visit") \/ At("replace"))'
  /\ UNCHANGED <<graph, lib>>
  /\ \/ queue' = queue
     \/ queue # <<>> /\ Visited.name \in DOMAIN graph

Clears ==
  /\ At("replace") /\ At("replace")'
  /\ Visited.name \notin DOMAIN graph /\ lib[Visited.name] # None
  /\ \A m \in Names \ {Visited.name} : lib'[m] = lib[m]
  /\ UNCHANGED <<graph, queue>>

Gains ==
  /\ At("visit") \/ At("replace")
  /\ AtPlace /\ ~At("replace")'
  /\ queue # <<>> /\ Visited.name \notin DOMAIN graph
  /\ DOMAIN graph' = DOMAIN graph \cup {Visited.name}
  /\ \A m \in DOMAIN graph : graph'[m] = graph[m]
  /\ graph'[Visited.name].spec = Visited.spec
  /\ graph'[Visited.name].tree = lib'[Visited.name]
  /\ \A m \in Names \ {Visited.name} : lib'[m] = lib[m]
  /\ \/ /\ ~At("replace") /\ cmd.force # TRUE
        /\ lib' = lib /\ lib[Visited.name] # None
     \/ lib'[Visited.name] \in Fetched[Visited.spec]

Writes ==
  /\ At("scripts") /\ At("scripts")'
  /\ cmd.as = cmd.name
  /\ UNCHANGED <<graph, queue>>
  /\ \A n \in Names :
       \/ lib'[n] = lib[n]
       \/ n \in DOMAIN graph /\ lib[n] \in Trees /\ lib'[n] \in Builds[lib[n]]

\* A step in the middle of a resolution does one of those five things.
LEMMA GraphSteps ==
  ASSUME TypeOK, Plan, Resolving, Work, ~Finish, AtPlace',
         cmd'.result \notin Undoing
  PROVE  /\ cmd' = cmd /\ UNCHANGED <<manifest, draft>>
         /\ Opens \/ Keeps \/ Clears \/ Gains \/ Writes
<1>1. /\ cmd # None /\ cmd \in Commands /\ todo # <<>>
      /\ todo' # <<>>
      /\ Head(todo') \in {"visit", "replace", "scripts", "lock", "seal",
                          "compare"}
  BY WorkFacts, Busy DEF AtPlace
<1>2. \A rollback : ~FailsWith(rollback)
  BY <1>1, ResultFacts DEF FailsWith
<1>3. ~Fails
  BY <1>2 DEF Fails
<1>4. todo' # Tail(todo)
  BY <1>1, TailFacts
<1>5. ~Passes
  BY <1>4 DEF Passes, Goes
<1>6. ASSUME NEW x \in Steps, Turns(x)
      PROVE  Head(todo') = x
  BY <1>1, <1>6, PassesFacts
<1>7. /\ {"publish", "resolve", "visit", "replace", "scripts", "lock", "seal",
          "compare"} \subseteq Steps
      /\ Head(<<"drop", "put", "sync">>) = "drop"
  BY ProgramTails DEF Steps
<1>8. ~Turns("publish") /\ ~Turns("resolve")
  BY <1>1, <1>6, <1>7
<1>9. CASE \/ Put \/ Drop \/ Restore \/ RestoreFails \/ Sync \/ Publish
           \/ EditFails \/ Unstash \/ UnstashFails \/ Delete \/ DeleteFails
           \/ Adopt \/ AdoptFails \/ Seal \/ Compare \/ Inspect \/ Stash
           \/ StashFails \/ LockFails
  BY <1>1, <1>2, <1>3, <1>4, <1>5, <1>7, <1>8, <1>9
     DEF Put, Drop, Restore, RestoreFails, Unlinks, Sync, Publish, EditFails,
         Unstash, UnstashFails, Delete, DeleteFails, Erodes, GivesUp, Adopt,
         AdoptFails, Seal, Compare, Inspect, Stash, StashFails, LockFails, At
<1>10. CASE FetchFails \/ ReplaceFails
  BY <1>3, <1>10 DEF FetchFails, ReplaceFails
<1>11. CASE Resolve
  <2>1. Head(todo') = "visit" /\ graph = NoPackage
    BY <1>6, <1>7, <1>11 DEF Resolve, Resolving, AtPlace, At
  <2>. QED BY <1>11, <2>1 DEF Resolve, Turns, Goes, At, NoPackage, disk, Opens
<1>12. CASE VisitKnown
  BY <1>3, <1>12 DEF VisitKnown, Goes, AtEntry, At, AtPlace, disk, Keeps
<1>13. CASE VisitInstalled
  <2>1. Visited.name \in Names
    BY <1>13, VisitedFacts DEF VisitInstalled, AtEntry
  <2>. QED BY <1>13, <2>1
       DEF VisitInstalled, Goes, AtEntry, At, AtPlace, disk, Enters, MustInstall,
           Suits, Gains
<1>14. ASSUME NEW t \in Trees, Fetch(t)
       PROVE  /\ cmd' = cmd /\ UNCHANGED <<manifest, draft, graph, lib, queue>>
              /\ AtPlace /\ Head(todo') = "replace" /\ ~At("replace")
  <2>1. Turns("replace")
    BY <1>3, <1>14 DEF Fetch
  <2>. QED BY <1>3, <1>6, <1>7, <1>14, <2>1
       DEF Fetch, Turns, Goes, AtEntry, At, AtPlace, disk
<1>15. CASE Replace
  <2>1. /\ At("replace") /\ Visited.name \notin DOMAIN graph /\ queue # <<>>
        /\ stage.tree \in Fetched[Visited.spec]
    BY <1>1, <1>15 DEF Replace, Plan, Resolving
  <2>2. Visited.name \in Names
    BY <2>1, VisitedFacts
  <2>3. CASE Erodes(Visited.name)
    BY <2>1, <2>2, <2>3 DEF Erodes, Has, plan, At, TypeOK, Clears
  <2>4. CASE /\ Has(Visited.name, stage.tree) /\ Enters(stage.version)
             /\ Turns("visit") /\ UNCHANGED <<manifest, lock, draft>>
    <3>1. Head(todo') = "visit"
      BY <1>6, <1>7, <2>4
    <3>2. lib'[Visited.name] = stage.tree
          /\ \A m \in Names \ {Visited.name} : lib'[m] = lib[m]
      BY <2>2, <2>4 DEF Has, TypeOK
    <3>3. /\ DOMAIN graph' = DOMAIN graph \cup {Visited.name}
          /\ \A m \in DOMAIN graph : graph'[m] = graph[m]
          /\ graph'[Visited.name].spec = Visited.spec
          /\ graph'[Visited.name].tree = lib'[Visited.name]
      BY <2>1, <2>4 DEF Enters
    <3>. QED BY <2>1, <2>4, <3>1, <3>2, <3>3
         DEF Turns, Goes, Gains, At, AtPlace
  <2>. QED BY <1>15, <2>3, <2>4 DEF Replace
<1>16. CASE Resolved \/ Scripts \/ WriteLock
  <2>1. AtPlace /\ ~At("replace")
    BY <1>16 DEF Resolved, Scripts, WriteLock, At, AtPlace
  <2>2. cmd' = cmd /\ UNCHANGED <<manifest, draft, lib, queue, graph>>
    BY <1>3, <1>16 DEF Resolved, Scripts, WriteLock, Turns, Goes, disk, plan
  <2>3. At("visit") \/ ~(At("visit") \/ At("replace"))'
    BY <1>3, <1>6, <1>7, <1>16 DEF Resolved, Scripts, WriteLock, At
  <2>4. Keeps
    BY <2>1, <2>2, <2>3 DEF Keeps
  <2>. QED BY <2>2, <2>4
<1>17. ASSUME NEW t \in Trees, Fetch(t)
       PROVE  cmd' = cmd /\ UNCHANGED <<manifest, draft>> /\ Keeps
  <2>1. Keeps
    BY <1>14, <1>17 DEF Fetch, AtEntry, Keeps, AtPlace, At
  <2>. QED BY <1>14, <1>17, <2>1
<1>18. CASE ScriptWrites
  <2>1. PICK n \in DOMAIN graph :
          lib[n] # None /\ \E t \in Builds[lib[n]] : Has(n, t)
    BY <1>18 DEF ScriptWrites
  <2>2. PICK t \in Builds[lib[n]] : lib' = [lib EXCEPT ![n] = t]
    BY <2>1 DEF Has
  <2>3. n \in Names /\ lib[n] \in Trees
    BY <2>1, GraphFacts DEF TypeOK
  <2>4. \A m \in Names :
          \/ lib'[m] = lib[m]
          \/ m \in DOMAIN graph /\ lib[m] \in Trees /\ lib'[m] \in Builds[lib[m]]
    BY <2>2, <2>3 DEF TypeOK
  <2>. QED BY <1>18, <2>4 DEF ScriptWrites, RunsScripts, Goes, At, plan, Writes
<1>. QED BY <1>9, <1>10, <1>11, <1>12, <1>13, <1>15, <1>16, <1>17, <1>18 DEF Work

\* A resolution goes on until the lock is written.
LEMMA LeavesRound ==
  ASSUME TypeOK, Plan, Work, ~Finish, cmd'.result \notin Undoing,
         Head(todo) \in Round \ {"sync"}
  PROVE  AtPlace' \/ todo' = <<>> \/ At("adopt")'
<1>1. todo # <<>> /\ cmd # None /\ cmd \in Commands /\ OnCourse
  BY WorkFacts, Busy DEF Plan
<1>2. \A rollback : ~FailsWith(rollback)
  BY <1>1, ResultFacts DEF FailsWith
<1>3. ~Fails
  BY <1>2 DEF Fails
<1>4. ASSUME NEW x \in {"visit", "replace", "scripts", "lock", "seal", "compare"},
             Turns(x)
      PROVE  AtPlace'
  <2>1. x \in Steps
    BY DEF Steps
  <2>. QED BY <1>1, <1>4, <2>1, PassesFacts DEF AtPlace
<1>5. CASE todo' = Tail(todo)
  <2>1. Tail(todo) \in {<<>>, Adopt1}
    BY <1>1 DEF OnCourse, Undoes, Reads, Works, WorksFirst, WorksAgain, AtTail,
                Round
  <2>. QED BY <1>5, <2>1, ListFacts DEF Lists, At
<1>6. CASE todo' = todo /\ Head(todo) \in {"visit", "replace", "scripts"}
  BY <1>1, <1>6 DEF AtPlace
<1>7. CASE Resolve \/ Resolved \/ Scripts \/ WriteLock
  BY <1>3, <1>4, <1>7 DEF Resolve, Resolved, Scripts, WriteLock
<1>8. CASE VisitKnown \/ VisitInstalled \/ ScriptWrites
  BY <1>3, <1>6, <1>8
     DEF VisitKnown, VisitInstalled, ScriptWrites, Goes, AtEntry, At
<1>9. ASSUME NEW t \in Trees, Fetch(t)
      PROVE  AtPlace'
  BY <1>3, <1>4, <1>9 DEF Fetch
<1>10. CASE Replace
  BY <1>4, <1>6, <1>10 DEF Replace, Erodes, At
<1>11. CASE Seal \/ LockFails
  BY <1>3, <1>5, <1>11 DEF Seal, LockFails, Passes, Goes
<1>. QED BY <1>3, <1>7, <1>8, <1>9, <1>10, <1>11
     DEF Work, Put, Drop, Restore, RestoreFails, Publish, EditFails, Stash,
         StashFails, Unstash, UnstashFails, Delete, DeleteFails, Adopt,
         AdoptFails, Sync, FetchFails, ReplaceFails, Compare, Inspect, At,
         Round

\* What some source delivers.
Whole(t) == \E s \in Specs : t \in Delivered(s)

\* A directory that was not there when add began.
New(n) == cmd.found[n] = None /\ lib[n] # None

\* The directories that add brings are whole; and the resolver, which deletes
\* what it replaces, has resolved them.
Newcomers ==
  cmd # None /\ cmd.kind = "add" /\ cmd.as = cmd.name =>
    \A n \in Names : New(n) =>
      /\ cmd.result \notin Undoing \/ n # cmd.name => Whole(lib[n])
      /\ /\ cmd.result \notin Undoing /\ todo # <<>>
         /\ Head(todo) \in {"stash", "put", "publish", "sync", "resolve",
                            "visit", "replace"}
         => n \in DOMAIN graph

\* A command that fails, or undoes what it did, touches at most the package
\* of its name.
LEMMA UndoingNewcomers ==
  ASSUME TypeOK, Plan, Newcomers, Work, ~Finish,
         cmd'.kind = "add", cmd'.as = cmd'.name, cmd'.result \in Undoing
  PROVE  Newcomers'
<1>1. /\ cmd # None /\ cmd \in Commands /\ OnCourse /\ todo # <<>>
      /\ todo \in Seq(Steps)
      /\ cmd.kind = "add" /\ cmd.name \in Names
  BY WorkFacts, Busy, AtFacts DEF Plan
<1>2. ASSUME cmd'.name = cmd.name, cmd'.as = cmd.as, cmd'.found = cmd.found,
             \A n \in Names \ {cmd.name} : lib'[n] = lib[n],
             cmd.result \notin Undoing => lib' = lib
      PROVE  Newcomers'
  <2>1. ASSUME NEW n \in Names, New(n)', n # cmd.name
        PROVE  Whole(lib'[n])
    BY <1>1, <1>2, <2>1 DEF Newcomers, New
  <2>. QED BY <1>2, <2>1 DEF Newcomers
<1>3. CASE cmd.result \notin Undoing
  <2>1. \/ cmd' = cmd
        \/ GivesUp
        \/ cmd.kind = "build"
        \/ \E i \in Names : cmd' = [cmd EXCEPT !.as = i, !.force = FALSE]
        \/ cmd' = [cmd EXCEPT !.result = "failed"] /\ UNCHANGED disk
    BY DEF Work, Put, Drop, Restore, RestoreFails, Publish, EditFails, Stash,
           StashFails, Unstash, UnstashFails, Delete, DeleteFails, Adopt,
           AdoptFails, Sync, Resolve, VisitKnown, VisitInstalled, Fetch,
           FetchFails, Replace, ReplaceFails, Resolved, Scripts, ScriptWrites,
           WriteLock, Seal, LockFails, Compare, Inspect, Unlinks, Erodes,
           Passes, Turns, Goes, Fails, FailsWith
  <2>2. GivesUp => cmd' = cmd
    BY <1>1, <1>3, GivesUpFacts
  <2>3. ~\E i \in Names : cmd' = [cmd EXCEPT !.as = i, !.force = FALSE]
    BY <1>1, <1>3 DEF Commands
  <2>4. cmd' = [cmd EXCEPT !.result = "failed"] /\ lib' = lib
    BY <1>1, <1>3, <2>1, <2>2, <2>3 DEF disk
  <2>5. cmd'.name = cmd.name /\ cmd'.as = cmd.as /\ cmd'.found = cmd.found
    BY <1>1, <2>4, ResultFacts
  <2>. QED BY <1>2, <2>4, <2>5
<1>4. CASE cmd.result \in Undoing
  <2>1. Head(todo) \in {"unstash", "delete", "restore", "publish"}
    BY <1>1, <1>4 DEF OnCourse, Undoes, AtTail
  <2>2. /\ cmd' = cmd \/ GivesUp
        /\ \A n \in Names \ {cmd.name} : lib'[n] = lib[n]
    BY <1>1, <2>1
       DEF Work, Put, Drop, Restore, RestoreFails, Publish, EditFails, Stash,
           StashFails, Unstash, UnstashFails, Delete, DeleteFails, Adopt,
           AdoptFails, Sync, Resolve, VisitKnown, VisitInstalled, Fetch,
           FetchFails, Replace, ReplaceFails, Resolved, Scripts, ScriptWrites,
           WriteLock, Seal, LockFails, Compare, Inspect, AtEntry, At, Unlinks,
           Erodes, Has, Passes, Turns, Goes, disk, TypeOK
  <2>3. cmd'.name = cmd.name /\ cmd'.as = cmd.as /\ cmd'.found = cmd.found
    BY <1>1, <2>2, GivesUpFacts
  <2>. QED BY <1>2, <1>4, <2>2, <2>3
<1>. QED BY <1>3, <1>4

\* One that goes on brings what a source delivers.
LEMMA WorkingNewcomers ==
  ASSUME TypeOK, Plan, Resolving, Newcomers, Work, ~Finish,
         cmd'.kind = "add", cmd'.as = cmd'.name, cmd'.result \notin Undoing
  PROVE  Newcomers'
<1> DEFINE early == {"stash", "put", "publish", "sync", "resolve", "visit",
                     "replace"}
<1>1. /\ cmd # None /\ cmd \in Commands /\ OnCourse /\ todo # <<>>
      /\ cmd.kind = "add" /\ cmd.name \in Names /\ cmd.result \notin Undoing
      /\ cmd.kind \notin ReadOnly /\ \A rollback : ~FailsWith(rollback)
  BY WorkFacts, Busy, ResultFacts DEF Plan, ReadOnly, FailsWith
<1>2. ASSUME cmd' = cmd,
             \A n \in Names : New(n)' =>
               /\ Whole(lib'[n])
               /\ todo' # <<>> /\ Head(todo') \in early => n \in DOMAIN graph'
      PROVE  Newcomers'
  BY <1>1, <1>2 DEF Newcomers
<1>3. ASSUME cmd' = cmd
      PROVE  \A n \in Names : New(n) =>
               /\ Whole(lib[n])
               /\ Head(todo) \in early => n \in DOMAIN graph
  BY <1>1, <1>3 DEF Newcomers
<1> HIDE DEF early
<1>4. CASE At("adopt")
  <2>1. (Adopt \/ AdoptFails) /\ Head(todo) = "adopt"
    BY <1>4 DEF Work, Put, Drop, Restore, RestoreFails, Publish, EditFails,
                Stash, StashFails, Unstash, UnstashFails, Delete, DeleteFails,
                Adopt, AdoptFails, Sync, Resolve, VisitKnown, VisitInstalled,
                Fetch, FetchFails, Replace, ReplaceFails, Resolved, Scripts,
                ScriptWrites, WriteLock, Seal, LockFails, Compare, Inspect,
                AtEntry, At
  <2>2. cmd.as = cmd.name /\ Tail(todo) = <<>>
    BY <1>1, <2>1 DEF OnCourse, Works, WorksFirst, WorksAgain, AtTail, Round
  <2>3. ~\E i \in Names \ {cmd.name} : cmd' = [cmd EXCEPT !.as = i, !.force = FALSE]
    BY <1>1 DEF Commands
  <2>4. cmd' = cmd /\ todo' = <<>> /\ lib' = lib
    BY <2>1, <2>2, <2>3 DEF Adopt, AdoptFails, Passes, Goes, disk
  <2>5. \A n \in Names : New(n)' => New(n)
    BY <2>4 DEF New
  <2>. QED BY <1>2, <1>3, <2>4, <2>5
<1>5. CASE ~At("adopt") /\ AtPlace'
  <2>1. cmd' = cmd
    BY <1>1, <1>5, WorkFacts
  <2>2. ASSUME NEW n \in Names, New(n)'
        PROVE  /\ Whole(lib'[n])
               /\ todo' # <<>> /\ Head(todo') \in early => n \in DOMAIN graph'
    <3>1. \A m \in Names :
            lib'[m] = lib[m] /\ New(m)' => New(m) /\ Whole(lib[m])
      BY <1>3, <2>1 DEF New
    <3>2. CASE Opens
      BY <1>3, <2>1, <2>2, <3>1, <3>2 DEF Opens, At, early
    <3>3. CASE Keeps
      <4>1. Head(todo') \in early => Head(todo) = "visit"
        BY <1>5, <3>3 DEF Keeps, AtPlace, At, early
      <4>. QED BY <1>3, <2>1, <2>2, <3>1, <3>3, <4>1 DEF Keeps, early
    <3>4. CASE Clears
      <4>1. n # Visited.name
        <5>1. Head(todo) \in early /\ lib[Visited.name] # None
              /\ Visited.name \notin DOMAIN graph
          BY <3>4 DEF Clears, At, early
        <5>. QED BY <1>3, <2>1, <2>2, <5>1 DEF New
      <4>. QED BY <1>3, <2>1, <2>2, <3>1, <3>4, <4>1 DEF Clears, At, early
    <3>5. CASE Gains
      <4>1. Head(todo) \in early
        BY <3>5 DEF Gains, At, early
      <4>2. CASE n = Visited.name
        <5>1. n \in DOMAIN graph' /\ n \notin DOMAIN graph
          BY <3>5, <4>2 DEF Gains
        <5>2. lib'[n] # lib[n]
          BY <1>3, <2>1, <2>2, <3>1, <4>1, <5>1
        <5>3. lib'[n] \in Fetched[Visited.spec] /\ queue # <<>>
          BY <3>5, <4>2, <5>2 DEF Gains
        <5>. QED BY <5>1, <5>3, VisitedFacts, DeliveredFacts DEF Whole
      <4>3. CASE n # Visited.name
        BY <1>3, <2>1, <2>2, <3>1, <3>5, <4>1, <4>3 DEF Gains
      <4>. QED BY <4>2, <4>3
    <3>6. CASE Writes
      <4>1. Head(todo') \notin early
        BY <3>6 DEF Writes, At, early
      <4>2. CASE lib'[n] = lib[n]
        BY <2>2, <3>1, <4>1, <4>2
      <4>3. CASE lib[n] \in Trees /\ lib'[n] \in Builds[lib[n]]
        <5>1. Whole(lib[n])
          BY <1>3, <2>1, <2>2, <4>3 DEF New
        <5>. QED BY <4>1, <4>3, <5>1, DeliveredFacts DEF Whole
      <4>. QED BY <3>6, <4>2, <4>3 DEF Writes
    <3>. QED BY <1>5, <3>2, <3>3, <3>4, <3>5, <3>6, GraphSteps
  <2>. QED BY <1>2, <2>1, <2>2
<1>6. CASE ~At("adopt") /\ ~AtPlace'
  <2>1. cmd' = cmd
    BY <1>1, <1>6, WorkFacts
  <2>2. ~Replace /\ ~ScriptWrites
    <3>1. ASSUME Replace
          PROVE  FALSE
      <4>1. "visit" \in Steps /\ Head(todo) = "replace"
        BY <3>1 DEF Replace, Steps, At
      <4>2. CASE Turns("visit")
        BY <1>1, <1>6, <4>1, <4>2, PassesFacts DEF AtPlace
      <4>3. CASE todo' = todo
        BY <1>1, <1>6, <4>1, <4>3 DEF AtPlace
      <4>. QED BY <3>1, <4>2, <4>3 DEF Replace, Erodes
    <3>2. ASSUME ScriptWrites
          PROVE  FALSE
      BY <1>1, <1>6, <3>2 DEF ScriptWrites, Goes, At, AtPlace
    <3>. QED BY <3>1, <3>2
  <2>3. Head(todo) \in {"stash", "put", "publish"} \cup Round
    BY <1>1, <1>6, <2>1 DEF OnCourse, Works, WorksFirst, AtTail, At
  <2>4. \A n \in Names : lib'[n] = lib[n] \/ lib'[n] = None
    BY <1>1, <1>6, <2>2, <2>3
       DEF Work, Put, Drop, Restore, RestoreFails, Publish, EditFails, Stash,
           StashFails, Unstash, UnstashFails, Delete, DeleteFails, Adopt,
           AdoptFails, Sync, Resolve, VisitKnown, VisitInstalled, Fetch,
           FetchFails, Replace, ReplaceFails, Resolved, Scripts, ScriptWrites,
           WriteLock, Seal, LockFails, Compare, Inspect, AtEntry, At, Unlinks,
           Has, disk, Round, TypeOK
  <2>5. todo' # <<>> /\ Head(todo') \in early => graph' = graph /\ Head(todo) \in early
    <3>1. CASE Head(todo) \in Round \ {"sync"}
      <4>1. todo' = <<>> \/ Head(todo') = "adopt"
        BY <1>6, <3>1, LeavesRound DEF At
      <4>. QED BY <4>1 DEF early
    <3>2. CASE Head(todo) \in {"stash", "put", "publish", "sync"}
      BY <1>1, <3>2
         DEF Work, Put, Drop, Restore, RestoreFails, Publish, EditFails, Stash,
             StashFails, Unstash, UnstashFails, Delete, DeleteFails, Adopt,
             AdoptFails, Sync, Resolve, VisitKnown, VisitInstalled, Fetch,
             FetchFails, Replace, ReplaceFails, Resolved, Scripts,
             ScriptWrites, WriteLock, Seal, LockFails, Compare, Inspect,
             AtEntry, At, Unlinks, plan, early
    <3>. QED BY <2>3, <3>1, <3>2
  <2>6. \A n \in Names : New(n)' => New(n) /\ lib'[n] = lib[n]
    BY <2>1, <2>4 DEF New
  <2>. QED BY <1>1, <1>2, <1>3, <2>1, <2>5, <2>6
<1>. QED BY <1>4, <1>5, <1>6

\* In every reachable state what add has brought is whole.
THEOREM NewcomersInvariant == Spec => []Newcomers
<1>1. Init => Newcomers
  BY DEF Init, Newcomers
<1>2. Typed /\ Resolving /\ Newcomers /\ [Next]_vars => Newcomers'
  <2> SUFFICES ASSUME TypeOK, Plan, Resolving, Newcomers, [Next]_vars
               PROVE  Newcomers'
    BY DEF Typed
  <2>1. ASSUME NEW kind, NEW name, NEW spec, NEW force, NEW steps,
               Starts(kind, name, spec, force, steps)
        PROVE  Newcomers'
    <3>1. cmd'.kind = "add" => cmd'.found = lib /\ lib' = lib
      BY <2>1 DEF Starts, disk
    <3>. QED BY <3>1 DEF Newcomers, New
  <2>2. CASE Begin
    BY <2>1, <2>2 DEF Begin, Add, Remove, Upgrade, Update, Build, BuildLocked,
                      Verify
  <2>3. CASE Work /\ ~Finish
    BY <2>3, UndoingNewcomers, WorkingNewcomers DEF Newcomers
  <2>4. CASE Finish \/ Killed
    BY <2>4 DEF Finish, Killed, Newcomers
  <2>5. CASE Checkout
    BY <2>5 DEF Checkout, Newcomers
  <2>6. CASE UNCHANGED vars
    BY <2>6 DEF vars, Newcomers, New
  <2>. QED BY <2>2, <2>3, <2>4, <2>5, <2>6 DEF Next
<1>. QED BY <1>1, <1>2, TypedInvariant, ResolvingInvariant, PTL DEF Spec

\* A psc add that fails and can undo what it did leaves the manifest and the
\* directory of its package as it found them, and, unless it has adopted an
\* import name, no new directory that is not whole.
THEOREM AddRollsBackCorrect == Spec => []AddRollsBack
<1>1. Rollback /\ Newcomers => AddRollsBack
  BY DEF Rollback, Newcomers, New, Whole, AddRollsBack, At
<1>. QED BY <1>1, RollbackInvariant, NewcomersInvariant, PTL

\* update installs every package again.
UpdateDelivers ==
  cmd # None /\ cmd.kind = "update" /\ cmd.result \notin Undoing =>
    /\ cmd.force = TRUE
    /\ AtPlace =>
         \A n \in DOMAIN graph : graph[n].tree \in Fetched[graph[n].spec]
    /\ todo = <<>> /\ lock # None =>
         \A n \in DOMAIN lock : lib[n] \in Delivered(lock[n].spec)

\* In its first round add has put the old package aside, and the new one is
\* the first that is resolved.
Added == [name |-> cmd.name, spec |-> cmd.spec]

AddDelivers ==
  cmd # None /\ cmd.kind = "add" /\ cmd.result \notin Undoing /\ cmd.as = cmd.name =>
    /\ todo # <<>> /\ Head(todo) \in {"put", "publish", "sync", "resolve"} =>
         lib[cmd.name] = None
    /\ At("publish") => draft # <<>> /\ Head(draft) = Added
    /\ At("sync") \/ At("resolve") => manifest # <<>> /\ Head(manifest) = Added
    /\ AtPlace =>
         \/ /\ DOMAIN graph = {} /\ queue # <<>> /\ Visited = Added
            /\ lib[cmd.name] = None
         \/ /\ cmd.name \in DOMAIN graph
            /\ lib[cmd.name] \in Delivered(cmd.spec)
    /\ todo = <<>> \/ At("adopt") => lib[cmd.name] \in Delivered(cmd.spec)

\* In the second round, under the adopted name, the package is there, until
\* the resolver replaces it by what another entry of that name asks for.
AdoptDelivers ==
  cmd # None /\ cmd.kind = "add" /\ cmd.result \notin Undoing /\ cmd.as # cmd.name =>
    /\ todo # <<>> /\ ~AtPlace => lib[cmd.as] \in Delivered(cmd.spec)
    /\ AtPlace =>
         \/ lib[cmd.as] \in Delivered(cmd.spec)
         \/ At("replace") /\ Visited.name = cmd.as
         \/ /\ cmd.as \in DOMAIN graph
            /\ lib[cmd.as] \in Delivered(graph[cmd.as].spec)
    /\ todo = <<>> /\ lock # None =>
         \A n \in DOMAIN lock :
           n = cmd.as /\ lock[n].spec = cmd.spec => lib[n] \in Delivered(cmd.spec)

\* A working step keeps an update's promise,
LEMMA UpdateStep ==
  ASSUME TypeOK, Plan, Resolving, Sealed, UpdateDelivers, Work, ~Finish
  PROVE  UpdateDelivers'
<1> SUFFICES ASSUME cmd'.kind = "update", cmd'.result \notin Undoing
             PROVE  UpdateDelivers'
  BY DEF UpdateDelivers
<1>1. /\ cmd # None /\ cmd \in Commands /\ OnCourse
      /\ cmd.kind = "update" /\ cmd.result \notin Undoing /\ todo # <<>>
      /\ cmd.kind \notin ReadOnly
  BY WorkFacts, Busy DEF Plan, ReadOnly
<1>2. ~At("adopt")
  BY <1>1 DEF OnCourse, Works, AtTail, Round, At
<1>3. cmd' = cmd /\ cmd.force = TRUE
  BY <1>1, <1>2, WorkFacts DEF UpdateDelivers
<1>4. cmd'.result = "ok"
  BY <1>1, <1>3 DEF Commands, Sealed
<1>5. ASSUME AtPlace'
      PROVE  \A n \in DOMAIN graph' : graph'[n].tree \in Fetched[graph'[n].spec]
  <2>1. AtPlace \/ DOMAIN graph = {}
    BY DEF Resolving, NoPackage
  <2>2. \A n \in DOMAIN graph : graph[n].tree \in Fetched[graph[n].spec]
    BY <1>1, <2>1 DEF UpdateDelivers
  <2>3. CASE Opens \/ Keeps \/ Clears \/ Writes
    BY <2>2, <2>3 DEF Opens, Keeps, Clears, Writes
  <2>4. CASE Gains
    BY <1>3, <2>2, <2>4 DEF Gains
  <2>. QED BY <1>1, <1>3, <1>5, <2>3, <2>4, GraphSteps
<1>6. ASSUME todo' = <<>>, lock' # None
      PROVE  \A n \in DOMAIN lock' : lib'[n] \in Delivered(lock'[n].spec)
  <2>1. CASE Seal
    <3>1. AtPlace /\ Fits /\ lock' = graph /\ lib' = lib
      BY <2>1 DEF Seal, At, AtPlace, Resolving
    <3>2. \A n \in DOMAIN graph : graph[n].spec \in Specs
      BY GraphFacts DEF Packages
    <3>. QED BY <1>1, <3>1, <3>2, DeliveredFacts DEF UpdateDelivers, Fits
  <2>. QED BY <1>1, <1>2, <1>4, <1>6, <2>1, LastSteps
<1>. QED BY <1>1, <1>3, <1>5, <1>6 DEF UpdateDelivers

\* that of the first round of an add,
LEMMA AddStep ==
  ASSUME TypeOK, Plan, Resolving, Sealed, AddDelivers, Work, ~Finish
  PROVE  AddDelivers'
<1> SUFFICES ASSUME cmd'.kind = "add", cmd'.result \notin Undoing, cmd'.as = cmd'.name
             PROVE  AddDelivers'
  BY DEF AddDelivers
<1>1. /\ cmd # None /\ cmd \in Commands /\ OnCourse
      /\ cmd.kind = "add" /\ cmd.result \notin Undoing /\ todo # <<>>
      /\ cmd.kind \notin ReadOnly /\ cmd.name \in Names /\ cmd.spec \in Specs
      /\ \A rollback : ~FailsWith(rollback)
  BY WorkFacts, Busy, ResultFacts DEF Plan, ReadOnly, FailsWith
<1>2. CASE At("stash")
  <2>1. /\ Stash /\ Head(todo) = "stash"
    BY <1>1, <1>2 DEF Work, Put, Drop, Restore, RestoreFails, Publish, EditFails,
                Stash, StashFails, Unstash, UnstashFails, Delete, DeleteFails,
                Adopt, AdoptFails, Sync, Resolve, VisitKnown, VisitInstalled,
                Fetch, FetchFails, Replace, ReplaceFails, Resolved, Scripts,
                ScriptWrites, WriteLock, Seal, LockFails, Compare, Inspect,
                AtEntry, At
  <2>2. todo' \in {PutS, PutSA}
    BY <1>1, <2>1
       DEF Stash, Passes, Goes, OnCourse, Works, WorksFirst, WorksAgain, AtTail,
           Round
  <2>3. todo' # <<>> /\ Head(todo') = "put"
    BY <2>2, ListFacts DEF Lists
  <2>4. lib'[cmd.name] = None
    BY <1>1, <2>1 DEF Stash, Has, TypeOK
  <2>5. cmd'.name = cmd.name
    BY <2>1 DEF Stash, Passes, Goes
  <2>. QED BY <2>3, <2>4, <2>5 DEF AddDelivers, AtPlace, At
<1>3. CASE At("adopt")
  <2>1. (Adopt \/ AdoptFails) /\ Head(todo) = "adopt"
    BY <1>3 DEF Work, Put, Drop, Restore, RestoreFails, Publish, EditFails,
                Stash, StashFails, Unstash, UnstashFails, Delete, DeleteFails,
                Adopt, AdoptFails, Sync, Resolve, VisitKnown, VisitInstalled,
                Fetch, FetchFails, Replace, ReplaceFails, Resolved, Scripts,
                ScriptWrites, WriteLock, Seal, LockFails, Compare, Inspect,
                AtEntry, At
  <2>2. cmd.as = cmd.name /\ Tail(todo) = <<>>
    BY <1>1, <2>1 DEF OnCourse, Works, WorksFirst, WorksAgain, AtTail, Round
  <2>3. CASE Passes /\ UNCHANGED <<disk, draft, plan>>
    BY <1>1, <1>3, <2>2, <2>3 DEF Passes, Goes, disk, AddDelivers, AtPlace, At
  <2>4. CASE \E i \in Names \ {cmd.name} :
               cmd' = [cmd EXCEPT !.as = i, !.force = FALSE]
    <3>1. cmd'.as # cmd'.name
      BY <1>1, <2>4 DEF Commands
    <3>. QED BY <3>1
  <2>. QED BY <2>1, <2>3, <2>4 DEF Adopt, AdoptFails
<1>4. CASE ~At("stash") /\ ~At("adopt")
  <2>1. cmd' = cmd /\ cmd.as = cmd.name /\ cmd'.result = "ok"
    BY <1>1, <1>4, WorkFacts DEF Commands, Sealed
  <2>3. CASE AtPlace'
    <3>1. CASE Opens
      <4>1. /\ DOMAIN graph' = {} /\ queue' # <<>> /\ Head(queue') = Added
            /\ lib'[cmd.name] = None
        BY <1>1, <2>1, <3>1 DEF AddDelivers, Opens, At
      <4>. QED BY <2>1, <2>3, <4>1 DEF AddDelivers, AtPlace, At, Visited, Added
    <3>2. CASE Keeps
      BY <1>1, <2>1, <2>3, <3>2 DEF AddDelivers, AtPlace, At, Visited, Added, Keeps
    <3>3. CASE Clears
      <4>1. /\ cmd.name \in DOMAIN graph
            /\ lib[cmd.name] \in Delivered(cmd.spec)
        BY <1>1, <2>1, <3>3 DEF AddDelivers, AtPlace, At, Added, Clears
      <4>2. cmd.name \in DOMAIN graph' /\ lib'[cmd.name] = lib[cmd.name]
        BY <1>1, <3>3, <4>1 DEF Clears
      <4>. QED BY <2>1, <2>3, <4>1, <4>2 DEF AddDelivers, AtPlace, At
    <3>4. CASE Gains
      <4>1. /\ cmd.name \in DOMAIN graph'
            /\ lib'[cmd.name] \in Delivered(cmd.spec)
        <5>1. CASE Visited = Added /\ lib[cmd.name] = None
          BY <1>1, <3>4, <5>1, DeliveredFacts DEF Gains, Added
        <5>2. CASE /\ cmd.name \in DOMAIN graph
                   /\ lib[cmd.name] \in Delivered(cmd.spec)
          BY <1>1, <3>4, <5>2 DEF Gains
        <5>. QED BY <1>1, <2>1, <3>4, <5>1, <5>2 DEF AddDelivers, Gains
      <4>. QED BY <2>1, <2>3, <4>1 DEF AddDelivers, AtPlace, At
    <3>5. CASE Writes
      <4>1. AtPlace /\ queue = <<>>
        BY <3>5 DEF Writes, At, AtPlace, Resolving
      <4>2. cmd.name \in DOMAIN graph /\ lib[cmd.name] \in Delivered(cmd.spec)
        BY <1>1, <2>1, <4>1 DEF AddDelivers
      <4>3. cmd.name \in DOMAIN graph' /\ lib'[cmd.name] \in Delivered(cmd.spec)
        <5>1. /\ Builds[lib[cmd.name]] \subseteq Delivered(cmd.spec)
              /\ cmd.name \in Names
          BY <1>1, <4>2, DeliveredFacts
        <5>2. graph' = graph
          BY <3>5 DEF Writes
        <5>3. \/ lib'[cmd.name] = lib[cmd.name]
              \/ lib'[cmd.name] \in Builds[lib[cmd.name]]
          BY <3>5, <5>1 DEF Writes
        <5>. QED BY <4>2, <5>1, <5>2, <5>3
      <4>. QED BY <2>1, <2>3, <4>3 DEF AddDelivers, AtPlace, At
    <3>. QED BY <1>1, <2>1, <2>3, <3>1, <3>2, <3>3, <3>4, <3>5, GraphSteps
  <2>4. CASE todo' = <<>> \/ At("adopt")'
    <3>1. Seal
      <4>1. ~(Sync /\ manifest = <<>>)
        BY <1>1, <2>1 DEF Sync, AddDelivers
      <4>. QED BY <1>1, <1>4, <2>1, <2>4, <4>1, LastSteps
    <3>2. lib' = lib /\ queue = <<>> /\ AtPlace
      BY <3>1 DEF Seal, Resolving, At, AtPlace
    <3>. QED BY <1>1, <2>1, <2>4, <3>2 DEF AddDelivers, AtPlace, At
  <2>5. CASE ~AtPlace' /\ todo' # <<>> /\ ~At("adopt")'
    <3>1. Head(todo) \in {"put", "publish", "sync"}
      <4>1. Head(todo) \in {"put", "publish"} \cup Round
        BY <1>1, <1>4, <2>1 DEF OnCourse, Works, WorksFirst, AtTail, At
      <4>. QED BY <1>1, <2>1, <2>5, <4>1, LeavesRound
    <3>2. CASE Put
      <4>1. /\ manifest \in Seq(Entries) /\ Turns("publish") /\ "publish" \in Steps
            /\ draft' = With(manifest, cmd.name, cmd.spec)
            /\ lib' = lib /\ Head(todo) = "put"
        BY <1>1, <2>1, <3>2, AtFacts DEF Put, Unlinks, At, Steps
      <4>2. todo' # <<>> /\ Head(todo') = "publish"
        BY <1>1, <4>1, PassesFacts
      <4>3. cmd.name \in Names /\ cmd.spec \in Specs
        BY <1>1, <2>1 DEF Plan, OnCourse
      <4>4. draft' # <<>> /\ Head(draft') = Added
        <5>1. With(manifest, cmd.name, cmd.spec) # <<>>
          BY <4>1, <4>3, WithEntries
        <5>2. Head(With(manifest, cmd.name, cmd.spec)) = Added
          <6>1. Added = [name |-> cmd.name, spec |-> cmd.spec]
            BY DEF Added
          <6>. QED BY <4>1, <4>3, <6>1, WithHead
        <5>. QED BY <4>1, <5>1, <5>2
      <4>. QED BY <1>1, <2>1, <4>1, <4>2, <4>4
           DEF AddDelivers, AtPlace, At, Added
    <3>3. CASE Publish
      <4>1. /\ Head(todo) = "publish" /\ todo' = Tail(todo)
            /\ manifest' = draft /\ lib' = lib
        BY <3>3 DEF Publish, Passes, Goes, At
      <4>2. todo' \in {Sync1, SyncA}
        BY <1>1, <2>1, <4>1 DEF OnCourse, Works, WorksFirst, AtTail, Round
      <4>3. todo' # <<>> /\ Head(todo') = "sync"
        BY <4>2, ListFacts DEF Lists
      <4>. QED BY <1>1, <2>1, <4>1, <4>3 DEF AddDelivers, AtPlace, At, Added
    <3>4. CASE Sync
      <4>1. Head(todo) = "sync" /\ manifest' = manifest /\ lib' = lib
            /\ "resolve" \in Steps
        BY <3>4 DEF Sync, At, Steps
      <4>2. manifest # <<>> /\ Head(manifest) = Added /\ lib[cmd.name] = None
        BY <1>1, <2>1, <4>1 DEF AddDelivers, At
      <4>3. todo' # <<>> /\ Head(todo') = "resolve"
        BY <1>1, <3>4, <4>1, <4>2, PassesFacts DEF Sync
      <4>. QED BY <2>1, <4>1, <4>2, <4>3 DEF AddDelivers, AtPlace, At, Added
    <3>. QED BY <1>1, <2>1, <3>1, <3>2, <3>3, <3>4
         DEF Work, Put, Drop, Restore, RestoreFails, Publish, EditFails, Stash,
             StashFails, Unstash, UnstashFails, Delete, DeleteFails, Adopt,
             AdoptFails, Sync, Resolve, VisitKnown, VisitInstalled, Fetch,
             FetchFails, Replace, ReplaceFails, Resolved, Scripts,
             ScriptWrites, WriteLock, Seal, LockFails, Compare, Inspect,
             AtEntry, At
  <2>. QED BY <2>3, <2>4, <2>5
<1>. QED BY <1>2, <1>3, <1>4

\* and that of its second round, which starts with the installed package
\* under its new name.
LEMMA AdoptStep ==
  ASSUME TypeOK, Plan, Resolving, Sealed, AddDelivers, AdoptDelivers,
         Work, ~Finish
  PROVE  AdoptDelivers'
<1> SUFFICES ASSUME cmd'.kind = "add", cmd'.result \notin Undoing, cmd'.as # cmd'.name
             PROVE  AdoptDelivers'
  BY DEF AdoptDelivers
<1>1. /\ cmd # None /\ cmd \in Commands /\ OnCourse
      /\ cmd.kind = "add" /\ cmd.result \notin Undoing /\ todo # <<>>
      /\ cmd.kind \notin ReadOnly /\ cmd.name \in Names /\ cmd.spec \in Specs
      /\ cmd.as \in Names /\ \A rollback : ~FailsWith(rollback)
  BY WorkFacts, Busy, ResultFacts DEF Plan, ReadOnly, FailsWith
<1>3. CASE At("adopt")
  <2>1. (Adopt \/ AdoptFails) /\ Head(todo) = "adopt"
    BY <1>3 DEF Work, Put, Drop, Restore, RestoreFails, Publish, EditFails,
                Stash, StashFails, Unstash, UnstashFails, Delete, DeleteFails,
                Adopt, AdoptFails, Sync, Resolve, VisitKnown, VisitInstalled,
                Fetch, FetchFails, Replace, ReplaceFails, Resolved, Scripts,
                ScriptWrites, WriteLock, Seal, LockFails, Compare, Inspect,
                AtEntry, At
  <2>2. cmd.as = cmd.name
    BY <1>1, <2>1 DEF OnCourse, Works, WorksFirst, WorksAgain, AtTail, Round
  <2>3. PICK i \in Names \ {cmd.name} :
          /\ lib' = [lib EXCEPT ![i] = lib[cmd.name], ![cmd.name] = None]
          /\ cmd' = [cmd EXCEPT !.as = i, !.force = FALSE]
          /\ todo' = <<"drop", "put", "sync">>
    BY <2>1, <2>2 DEF Adopt, AdoptFails, Passes, Goes
  <2>4. lib'[i] \in Delivered(cmd.spec)
    BY <1>1, <1>3, <2>2, <2>3 DEF AddDelivers, TypeOK
  <2>5. cmd'.as = i /\ cmd'.spec = cmd.spec
    BY <1>1, <2>3 DEF Commands
  <2>6. todo' # <<>> /\ Head(todo') = "drop"
    BY <2>3, ProgramFacts, ProgramTails
  <2>. QED BY <2>4, <2>5, <2>6 DEF AdoptDelivers, AtPlace
<1>4. CASE ~At("adopt")
  <2>1. cmd' = cmd /\ cmd.as # cmd.name /\ cmd'.result = "ok"
    BY <1>1, <1>4, WorkFacts DEF Commands, Sealed
  <2>2. CASE AtPlace'
    <3>1. CASE Opens
      BY <1>1, <2>1, <2>2, <3>1 DEF AdoptDelivers, AtPlace, At, Opens
    <3>2. CASE Keeps
      <4>1. \/ lib'[cmd.as] \in Delivered(cmd.spec)
            \/ /\ cmd.as \in DOMAIN graph'
               /\ lib'[cmd.as] \in Delivered(graph'[cmd.as].spec)
        BY <1>1, <2>1, <3>2 DEF AdoptDelivers, Keeps
      <4>. QED BY <2>1, <2>2, <4>1 DEF AdoptDelivers, AtPlace
    <3>3. CASE Clears
      <4>1. \/ Visited.name = cmd.as
            \/ lib'[cmd.as] = lib[cmd.as]
        BY <1>1, <3>3 DEF Clears
      <4>2. /\ At("replace")' /\ graph' = graph /\ Visited' = Visited
        BY <3>3 DEF Clears, Visited
      <4>3. AtPlace
        BY <3>3 DEF Clears, AtPlace, At
      <4>. QED BY <1>1, <2>1, <2>2, <4>1, <4>2, <4>3 DEF AdoptDelivers, AtPlace
    <3>4. CASE Gains
      <4>1. CASE Visited.name = cmd.as
        <5>1. /\ cmd.as \in DOMAIN graph'
              /\ graph'[cmd.as].spec = Visited.spec
          BY <3>4, <4>1 DEF Gains
        <5>2. \/ lib'[cmd.as] \in Delivered(cmd.spec)
              \/ lib'[cmd.as] \in Delivered(Visited.spec)
          BY <1>1, <2>1, <3>4, <4>1, VisitedFacts, DeliveredFacts
             DEF Gains, AdoptDelivers
        <5>. QED BY <2>1, <2>2, <5>1, <5>2 DEF AdoptDelivers, AtPlace
      <4>2. CASE Visited.name # cmd.as
        <5>1. lib'[cmd.as] = lib[cmd.as]
          BY <1>1, <3>4, <4>2 DEF Gains
        <5>2. cmd.as \in DOMAIN graph =>
                cmd.as \in DOMAIN graph' /\ graph'[cmd.as] = graph[cmd.as]
          BY <3>4 DEF Gains
        <5>3. \/ lib[cmd.as] \in Delivered(cmd.spec)
              \/ /\ cmd.as \in DOMAIN graph
                 /\ lib[cmd.as] \in Delivered(graph[cmd.as].spec)
          BY <1>1, <2>1, <3>4, <4>2 DEF Gains, AdoptDelivers
        <5>. QED BY <2>1, <2>2, <5>1, <5>2, <5>3 DEF AdoptDelivers, AtPlace
      <4>. QED BY <4>1, <4>2
    <3>5. ~Writes
      BY <2>1 DEF Writes
    <3>. QED BY <1>1, <2>1, <2>2, <3>1, <3>2, <3>3, <3>4, <3>5, GraphSteps
  <2>3. CASE todo' = <<>> \/ At("adopt")'
    <3>0. ~At("adopt")'
      <4>1. At("adopt")' => OnCourse'
        BY <1>1, <2>1, NextTyped DEF Plan, Next
      <4>. QED BY <1>1, <2>1, <4>1
           DEF At, OnCourse, Works, WorksAgain, AtTail, Round
    <3>1. CASE Seal
      <4>1. lib' = lib /\ lock' = graph /\ AtPlace /\ ~At("replace")
        BY <3>1 DEF Seal, At, AtPlace
      <4>. QED BY <1>1, <2>1, <2>3, <3>0, <4>1 DEF AdoptDelivers, AtPlace
    <3>2. CASE Sync /\ manifest = <<>> /\ lock' = None
      BY <2>1, <2>3, <3>0, <3>2 DEF AdoptDelivers, AtPlace
    <3>. QED BY <1>1, <1>4, <2>1, <2>3, <3>1, <3>2, LastSteps
  <2>4. CASE ~AtPlace' /\ todo' # <<>> /\ ~At("adopt")'
    <3>1. Head(todo) \in {"drop", "put", "publish", "sync"}
      <4>1. Head(todo) \in {"drop", "put", "publish"} \cup Round
        BY <1>1, <1>4, <2>1 DEF OnCourse, Works, WorksAgain, AtTail, At
      <4>. QED BY <1>1, <2>1, <2>4, <4>1, LeavesRound
    <3>2. lib' = lib
      BY <1>1, <3>1
         DEF Work, Put, Drop, Restore, RestoreFails, Publish, EditFails, Stash,
             StashFails, Unstash, UnstashFails, Delete, DeleteFails, Adopt,
             AdoptFails, Sync, Resolve, VisitKnown, VisitInstalled, Fetch,
             FetchFails, Replace, ReplaceFails, Resolved, Scripts,
             ScriptWrites, WriteLock, Seal, LockFails, Compare, Inspect,
             AtEntry, At, Unlinks, disk
    <3>3. ~AtPlace
      BY <3>1 DEF AtPlace
    <3>. QED BY <1>1, <2>1, <2>4, <3>2, <3>3 DEF AdoptDelivers
  <2>. QED BY <2>2, <2>3, <2>4
<1>. QED BY <1>3, <1>4

\* In every reachable state an update and an add have brought, or are about
\* to bring, what the sources deliver.
THEOREM DeliversInvariant ==
  Spec => [](UpdateDelivers /\ AddDelivers /\ AdoptDelivers)
<1> DEFINE Inv == UpdateDelivers /\ AddDelivers /\ AdoptDelivers
<1>1. Init => Inv
  BY DEF Init, UpdateDelivers, AddDelivers, AdoptDelivers
<1>2. Typed /\ Resolving /\ Sealed /\ Inv /\ [Next]_vars => Inv'
  <2> SUFFICES ASSUME TypeOK, Plan, Resolving, Sealed, UpdateDelivers,
                      AddDelivers, AdoptDelivers, [Next]_vars
               PROVE  UpdateDelivers' /\ AddDelivers' /\ AdoptDelivers'
    BY DEF Typed
  <2>1. ASSUME NEW kind, NEW name, NEW spec, NEW force, NEW steps,
               Starts(kind, name, spec, force, steps),
               kind \in {"add", "update"} => steps # <<>>,
               kind = "update" => force = TRUE,
               kind = "add" => Head(steps) = "stash",
               steps # <<>> =>
                 Head(steps) \notin {"visit", "replace", "scripts", "lock",
                                     "seal", "compare"}
        PROVE  UpdateDelivers' /\ AddDelivers' /\ AdoptDelivers'
    <3>1. /\ cmd'.kind = kind /\ cmd'.as = cmd'.name /\ cmd'.force = force
          /\ todo' = steps
      BY <2>1 DEF Starts
    <3>. QED BY <2>1, <3>1
         DEF UpdateDelivers, AddDelivers, AdoptDelivers, AtPlace, At
  <2>2. CASE Begin
    <3>1. ASSUME NEW o \in Offers, Add(o)
          PROVE  UpdateDelivers' /\ AddDelivers' /\ AdoptDelivers'
      <4> DEFINE list == IF o.explicit THEN <<"stash", "put", "sync">>
                         ELSE <<"stash", "put", "sync", "adopt">>
      <4>1. list # <<>> /\ Head(list) = "stash"
        BY ProgramFacts, ProgramTails
      <4>2. Starts("add", o.name, o.spec, o.rebuild, list)
        BY <3>1 DEF Add
      <4> HIDE DEF list
      <4>. QED BY <2>1, <4>1, <4>2
    <3>2. ASSUME NEW n \in Names, NEW keepFiles \in BOOLEAN, Remove(n, keepFiles)
          PROVE  UpdateDelivers' /\ AddDelivers' /\ AdoptDelivers'
      <4> DEFINE list == IF keepFiles THEN <<"drop", "sync">>
                         ELSE <<"drop", "delete", "sync">>
      <4>1. list # <<>> /\ Head(list) = "drop"
        BY ProgramFacts, ProgramTails
      <4>2. Starts("remove", n, None, FALSE, list)
        BY <3>2 DEF Remove
      <4> HIDE DEF list
      <4>. QED BY <2>1, <4>1, <4>2
    <3>3. ASSUME NEW o \in Offers, Upgrade(o.name, o.spec)
          PROVE  UpdateDelivers' /\ AddDelivers' /\ AdoptDelivers'
      <4> DEFINE list == <<"put", "delete", "sync">>
      <4>1. list # <<>> /\ Head(list) = "put"
        BY ProgramFacts, ProgramTails
      <4>2. Starts("upgrade", o.name, o.spec, TRUE, list)
        BY <3>3 DEF Upgrade
      <4> HIDE DEF list
      <4>. QED BY <2>1, <4>1, <4>2
    <3>4. CASE Update
      <4> DEFINE list == <<"sync">>
      <4>1. list # <<>> /\ Head(list) = "sync"
        BY ProgramFacts, ProgramTails
      <4>2. Starts("update", None, None, TRUE, list)
        BY <3>4 DEF Update
      <4> HIDE DEF list
      <4>. QED BY <2>1, <4>1, <4>2
    <3>5. CASE Build \/ BuildLocked
      <4> DEFINE list == IF BuildLocked /\ manifest = <<>> THEN <<>>
                         ELSE <<"resolve">>
      <4>1. list # <<>> => Head(list) = "resolve"
        BY ProgramFacts, ProgramTails
      <4>2. \/ Starts("build", None, None, FALSE, list)
            \/ Starts("locked", None, None, FALSE, list)
        BY <3>5 DEF Build, BuildLocked
      <4> HIDE DEF list
      <4>. QED BY <2>1, <4>1, <4>2
    <3>6. CASE Verify
      <4> DEFINE list == <<"inspect">>
      <4>1. list # <<>> /\ Head(list) = "inspect"
        BY ProgramFacts, ProgramTails
      <4>2. Starts("verify", None, None, FALSE, list)
        BY <3>6 DEF Verify
      <4> HIDE DEF list
      <4>. QED BY <2>1, <4>1, <4>2
    <3>. QED BY <2>2, <3>1, <3>2, <3>3, <3>4, <3>5, <3>6 DEF Begin
  <2>3. CASE Work /\ ~Finish
    BY <2>3, UpdateStep, AddStep, AdoptStep
  <2>4. CASE Finish \/ Killed
    BY <2>4 DEF Finish, Killed, UpdateDelivers, AddDelivers, AdoptDelivers
  <2>5. CASE Checkout
    BY <2>5 DEF Checkout, UpdateDelivers, AddDelivers, AdoptDelivers
  <2>6. CASE UNCHANGED vars
    BY <2>6 DEF vars, UpdateDelivers, AddDelivers, AdoptDelivers, AtPlace, At,
                Visited, Added
  <2>. QED BY <2>2, <2>3, <2>4, <2>5, <2>6 DEF Next
<1>. QED BY <1>1, <1>2, TypedInvariant, ResolvingInvariant, SealedInvariant,
            PTL DEF Spec

\* After an update every package is as its source delivers it, and after an
\* add the package added.
THEOREM RepairedCorrect == Spec => []Repaired
<1>1. Init => Repaired
  BY DEF Init, Repaired, Succeeded
<1>2. /\ Typed /\ Sealed /\ UpdateDelivers /\ AddDelivers /\ AdoptDelivers
      /\ Repaired /\ [Next]_vars
      => Repaired'
  <2> SUFFICES ASSUME TypeOK, Plan, Sealed, UpdateDelivers, AddDelivers,
                      AdoptDelivers, Repaired, [Next]_vars
               PROVE  Repaired'
    BY DEF Typed
  <2>1. CASE outcome' = None
    BY <2>1 DEF Repaired, Succeeded
  <2>2. CASE Finish
    <3>1. /\ cmd # None /\ cmd \in Commands /\ todo = <<>>
          /\ UNCHANGED <<manifest, lock, lib>>
          /\ outcome' = [kind |-> cmd.kind, name |-> cmd.as, spec |-> cmd.spec,
                         ok |-> cmd.result \in {"ok", "unlocked"}]
      BY <2>2 DEF Finish, TypeOK, disk
    <3>2. /\ outcome'.kind = cmd.kind /\ outcome'.name = cmd.as
          /\ outcome'.spec = cmd.spec
          /\ outcome'.ok => cmd.result \notin Undoing
      BY <3>1
    <3>3. ASSUME Succeeded({"update"})', lock' # None
          PROVE  \A n \in DOMAIN lock' : lib'[n] \in Delivered(lock'[n].spec)
      BY <3>1, <3>2, <3>3 DEF Succeeded, UpdateDelivers
    <3>4. ASSUME Succeeded({"add"})', lock' # None, NEW n \in DOMAIN lock',
                 n = outcome'.name, lock'[n].spec = outcome'.spec
          PROVE  lib'[n] \in Delivered(outcome'.spec)
      BY <3>1, <3>2, <3>4 DEF Succeeded, AddDelivers, AdoptDelivers
    <3>. QED BY <3>3, <3>4 DEF Repaired
  <2>3. CASE UNCHANGED vars
    BY <2>3 DEF vars, Repaired, Succeeded
  <2>4. CASE Begin \/ (Work /\ ~Finish) \/ Killed \/ Checkout
    <3>1. CASE Begin
      BY <2>1, <3>1 DEF Begin, Add, Remove, Upgrade, Update, Build, BuildLocked,
                        Verify, Starts
    <3>2. CASE (Work /\ ~Finish) \/ Killed
      <4>1. cmd # None /\ outcome' = outcome
        BY <3>2, WorkFacts DEF Killed, seen
      <4>. QED BY <2>1, <4>1 DEF Sealed
    <3>3. CASE Checkout
      BY <2>1, <3>3 DEF Checkout
    <3>. QED BY <2>4, <3>1, <3>2, <3>3
  <2>. QED BY <2>2, <2>3, <2>4 DEF Next, Work
<1>. QED BY <1>1, <1>2, TypedInvariant, SealedInvariant, DeliversInvariant,
            PTL DEF Spec
=============================================================================
