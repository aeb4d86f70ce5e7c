---------------------------- MODULE ProjectStore ----------------------------
(***************************************************************************)
(* A project's runtime tree, between the launches that provision it and    *)
(* the verbs that take from it: `sbx gc` (collect), `sbx app rm --purge`   *)
(* (purge), `sbx projects rm <id>` (remove) and `sbx projects rm --dead`   *)
(* (sweep).  A launch is recorded as a session only once it has            *)
(* provisioned, so a verb that looked for a session and found none could   *)
(* take what a launch is putting in place: the project's store lock stands *)
(* between them (src/sandbox/projectstore.rs).                             *)
(*                                                                         *)
(* The lock is on a file inside the tree.  A lock is held on the file an   *)
(* actor opened (its node), whatever the name has led to since.            *)
(***************************************************************************)
EXTENDS Naturals, FiniteSets, FiniteSetsExt

CONSTANTS
  Projects,   \* the projects, by id: numbers, for their order
  Launches,   \* the launches that may come, each once
  Verbs,      \* the runs of a verb that may come, each once
  Kinds       \* which verbs they may be

ASSUME ProjectsAssumption == Projects \subseteq Nat /\ IsFiniteSet(Projects)
ASSUME ActorsAssumption == Launches \cap Verbs = {}
ASSUME KindsAssumption == Kinds \subseteq {"collect", "purge", "remove", "sweep"}

Actors == Launches \cup Verbs

VARIABLES
  exists,    \* whether each project's directory is there
  dir,       \* whether its runtime tree is
  parts,     \* what the tree holds beside its lock file
  node,      \* the file the lock's name leads to, 0 for none
  nodes,     \* how many such files were ever made
  st,        \* where each actor is
  kind,      \* which verb each verb is
  at,        \* the project an actor is busy with
  left,      \* the projects a verb has still to lock, or to judge
  fd,        \* the lock file each actor opened in each project
  held,      \* the locks held: who, of which project
  recorded,  \* the launches whose session is in the registry
  saw,       \* the projects a sweep read as live
  entries,   \* what a verb has still to take, in which project
  chosen     \* history: the projects each verb set out to lock

vars == <<exists, dir, parts, node, nodes, st, kind, at, left, fd, held,
          recorded, saw, entries, chosen>>
tree == <<dir, parts, node, nodes>>

(* The projects there are have been launched in before.                    *)
Init ==
  /\ exists \in [Projects -> BOOLEAN] /\ dir = exists
  /\ parts = [p \in Projects |-> IF dir[p] THEN {"marker", "provisioned"} ELSE {}]
  /\ node = [p \in Projects |-> IF dir[p] THEN 1 ELSE 0] /\ nodes = node
  /\ st = [a \in Actors |-> "idle"]
  /\ kind \in [Verbs -> Kinds]
  /\ at = [a \in Actors |-> 0]
  /\ left = [v \in Verbs |-> {}]
  /\ fd = [a \in Actors |-> [p \in Projects |-> 0]]
  /\ held = {} /\ recorded = {}
  /\ saw = [v \in Verbs |-> {}] /\ entries = [v \in Verbs |-> {}]
  /\ chosen = [v \in Verbs |-> {}]

Goes(a, to) == st' = [st EXCEPT ![a] = to]

(* Dropping the guard closes the file, which lets the lock go.             *)
LetsGo(a) == held' = {h \in held : h[1] # a}

(* Registry::list: the projects a session that is running was recorded in. *)
Live == {at[l] : l \in recorded}

-----------------------------------------------------------------------------
(* flock_at: a first attempt that does not wait, on a file opened for it,  *)
(* and a second one that does, on a file opened again.                     *)

(* open_lock_file: the tree and the file are made where they are missing.  *)
Open(a) ==
  LET p == at[a] IN
  /\ st[a] \in {"opening", "reopening"}
  /\ dir' = [dir EXCEPT ![p] = TRUE]
  /\ IF node[p] = 0
     THEN /\ nodes' = [nodes EXCEPT ![p] = @ + 1]
          /\ node' = [node EXCEPT ![p] = nodes'[p]]
     ELSE UNCHANGED <<node, nodes>>
  /\ fd' = [fd EXCEPT ![a][p] = node'[p]]
  /\ Goes(a, IF st[a] = "opening" THEN "trying" ELSE "blocked")
  /\ UNCHANGED <<exists, parts, kind, at, left, held, recorded, saw, entries, chosen>>

Exclusive(a) == a \in Verbs

(* An exclusive hold excludes every other hold of the same file.           *)
Grantable(a) ==
  \A b \in Actors \ {a} :
    (<<b, at[a]>> \in held /\ fd[b][at[a]] = fd[a][at[a]])
      => ~Exclusive(a) /\ ~Exclusive(b)

Busy(a) ==
  /\ st[a] = "trying" /\ ~Grantable(a) /\ Goes(a, "reopening")
  /\ UNCHANGED <<exists, tree, kind, at, left, fd, held, recorded, saw, entries, chosen>>

(* Faulty: a purge takes its locks in whatever order projects are listed.  *)
NextToLockUnsorted(ids) == ids

(* lock_app_projects takes its locks in id order.                          *)
NextToLock(ids) == {Min(ids)}

Granted(a) ==
  /\ st[a] \in {"trying", "blocked"} /\ Grantable(a)
  /\ held' = held \cup {<<a, at[a]>>}
  /\ IF a \in Launches
     THEN Goes(a, "building") /\ UNCHANGED at
     ELSE IF left[a] = {} THEN Goes(a, "locked") /\ UNCHANGED at
     ELSE Goes(a, "opening") /\ \E p \in NextToLock(left[a]) : at' = [at EXCEPT ![a] = p]
  /\ left' = IF a \in Verbs THEN [left EXCEPT ![a] = @ \ {at'[a]}] ELSE left
  /\ UNCHANGED <<exists, tree, kind, fd, recorded, saw, entries, chosen>>

-----------------------------------------------------------------------------
(* A launch (launch/build.rs `build`, launch/cage.rs `register`).          *)

Launch(l, p) ==
  /\ st[l] = "idle" /\ exists[p]
  /\ Goes(l, "opening") /\ at' = [at EXCEPT ![l] = p]
  /\ UNCHANGED <<exists, tree, kind, left, fd, held, recorded, saw, entries, chosen>>

(* write_marker, before anything is provisioned; it is not insisted on.    *)
Mark(l) ==
  /\ st[l] = "building" /\ Goes(l, "marked")
  /\ parts' = IF dir[at[l]] THEN [parts EXCEPT ![at[l]] = @ \cup {"marker"}] ELSE parts
  /\ UNCHANGED <<exists, dir, node, nodes, kind, at, left, fd, held, recorded, saw, entries,
                 chosen>>

(* The store is seeded and the app's directories are made.                 *)
Provision(l) ==
  /\ st[l] = "marked" /\ Goes(l, "provisioned")
  /\ dir' = [dir EXCEPT ![at[l]] = TRUE]
  /\ parts' = [parts EXCEPT ![at[l]] = @ \cup {"provisioned"}]
  /\ UNCHANGED <<exists, node, nodes, kind, at, left, fd, held, recorded, saw, entries, chosen>>

(* Faulty: the lock is let go before the record is written.                *)
LockAtRecordDropped(l) == LetsGo(l)

(* The lock is let go only once the record is written.                     *)
LockAtRecord(l) == UNCHANGED held

Record(l) ==
  /\ st[l] = "provisioned" /\ Goes(l, "recording") /\ LockAtRecord(l)
  /\ UNCHANGED <<exists, tree, kind, at, left, fd, recorded, saw, entries, chosen>>

(* A record that cannot be written never stops a launch: it is said, and   *)
(* the lock is let go all the same.                                        *)
Recorded(l, written) ==
  /\ st[l] = "recording" /\ Goes(l, "running") /\ LetsGo(l)
  /\ recorded' = IF written THEN recorded \cup {l} ELSE recorded
  /\ UNCHANGED <<exists, tree, kind, at, left, fd, saw, entries, chosen>>

(* A cage no session records (an `sbx upgrade` step) keeps the lock.       *)
RunUnderLock(l) ==
  /\ st[l] = "provisioned" /\ Goes(l, "running")
  /\ UNCHANGED <<exists, tree, kind, at, left, fd, held, recorded, saw, entries, chosen>>

(* The process ends, as a launch that fails or a session that is over: its *)
(* lock goes with it, and a record of it is read as stale from then on.    *)
End(l) ==
  /\ st[l] \notin {"idle", "ended"} /\ Goes(l, "ended")
  /\ LetsGo(l) /\ recorded' = recorded \ {l}
  /\ UNCHANGED <<exists, tree, kind, at, left, fd, saw, entries, chosen>>

-----------------------------------------------------------------------------
(* The verbs.                                                              *)

(* What a verb sets out to lock: the project it is given, or each project  *)
(* that has a tree of the app.                                             *)
Begin(v, p) ==
  /\ st[v] = "idle" /\ kind[v] # "sweep" /\ dir[p]
  /\ kind[v] = "purge" => "provisioned" \in parts[p]
  /\ LET all == IF kind[v] = "purge"
                THEN {q \in Projects : "provisioned" \in parts[q]} ELSE {p}
     IN /\ p \in NextToLock(all)
        /\ left' = [left EXCEPT ![v] = all \ {p}]
        /\ chosen' = [chosen EXCEPT ![v] = all]
  /\ Goes(v, "opening") /\ at' = [at EXCEPT ![v] = p]
  /\ UNCHANGED <<exists, tree, kind, fd, held, recorded, saw, entries>>

All(p) == {<<p, e>> : e \in parts[p] \cup (IF node[p] = 0 THEN {} ELSE {"lock"})}

(* The registry is read once the locks are held.  A collection and a       *)
(* removal ask for a session of their project, a purge for one of its app. *)
Refuses(v) == IF kind[v] = "purge" THEN recorded # {} ELSE at[v] \in Live

Taken(v) ==
  CASE kind[v] = "collect" -> {}
    [] kind[v] = "purge"   -> {<<p, "provisioned">> : p \in
                                 {q \in Projects : "provisioned" \in parts[q]}}
    [] OTHER               -> All(at[v])

ReadRegistry(v) ==
  /\ st[v] = "locked"
  /\ IF Refuses(v)
     THEN Goes(v, "done") /\ LetsGo(v) /\ UNCHANGED entries
     ELSE Goes(v, "working") /\ entries' = [entries EXCEPT ![v] = Taken(v)]
                             /\ UNCHANGED held
  /\ UNCHANGED <<exists, tree, kind, at, left, fd, recorded, saw, chosen>>

(* empty_dir: what was listed goes, one entry at a time.                   *)
TakeEntry(v, t) ==
  /\ st[v] = "working" /\ t \in entries[v]
  /\ entries' = [entries EXCEPT ![v] = @ \ {t}]
  /\ IF t[2] = "lock"
     THEN node' = [node EXCEPT ![t[1]] = 0] /\ UNCHANGED parts
     ELSE parts' = [parts EXCEPT ![t[1]] = @ \ {t[2]}] /\ UNCHANGED node
  /\ UNCHANGED <<exists, dir, nodes, st, kind, at, left, fd, held, recorded, saw, chosen>>

(* The tree goes if it is empty; anything put in it since makes the verb   *)
(* fail, with what is left where it is.                                    *)
Finish(v) ==
  LET p == at[v] IN
  /\ st[v] = "working" /\ entries[v] = {}
  /\ dir' = IF kind[v] \in {"remove", "sweep"} /\ parts[p] = {} /\ node[p] = 0
            THEN [dir EXCEPT ![p] = FALSE] ELSE dir
  /\ Goes(v, IF kind[v] = "sweep" THEN "sweeping" ELSE "done") /\ LetsGo(v)
  /\ UNCHANGED <<exists, parts, node, nodes, kind, at, left, fd, recorded, saw, entries, chosen>>

(* reap_dead_projects takes no lock, and goes by the registry as           *)
(* projects_rm read it when it began.                                      *)
BeginSweep(v) ==
  /\ st[v] = "idle" /\ kind[v] = "sweep" /\ Goes(v, "sweeping")
  /\ saw' = [saw EXCEPT ![v] = Live]
  /\ left' = [left EXCEPT ![v] = {p \in Projects : dir[p]}]
  /\ UNCHANGED <<exists, tree, kind, at, fd, held, recorded, entries, chosen>>

(* Gone, by its marker, and held by no session it read of.                 *)
Dead(v, p) == p \notin saw[v] /\ "marker" \in parts[p] /\ ~exists[p]

Judge(v, p) ==
  /\ st[v] = "sweeping" /\ p \in left[v]
  /\ left' = [left EXCEPT ![v] = @ \ {p}]
  /\ IF Dead(v, p)
     THEN /\ Goes(v, "working") /\ at' = [at EXCEPT ![v] = p]
          /\ entries' = [entries EXCEPT ![v] = All(p)]
     ELSE UNCHANGED <<st, at, entries>>
  /\ UNCHANGED <<exists, tree, kind, fd, held, recorded, saw, chosen>>

EndSweep(v) ==
  /\ st[v] = "sweeping" /\ left[v] = {} /\ Goes(v, "done")
  /\ UNCHANGED <<exists, tree, kind, at, left, fd, held, recorded, saw, entries, chosen>>

(* The user deletes a project's directory.                                 *)
DeleteProject(p) ==
  /\ exists[p] /\ exists' = [exists EXCEPT ![p] = FALSE]
  /\ UNCHANGED <<tree, st, kind, at, left, fd, held, recorded, saw, entries, chosen>>

-----------------------------------------------------------------------------
Takes == \E a \in Actors : Open(a) \/ Busy(a) \/ Granted(a)

LaunchSteps(l) ==
  \/ \E p \in Projects : Launch(l, p)
  \/ Mark(l) \/ Provision(l) \/ Record(l) \/ RunUnderLock(l) \/ End(l)
  \/ \E written \in BOOLEAN : Recorded(l, written)

VerbSteps(v) ==
  \/ \E p \in Projects : Begin(v, p) \/ Judge(v, p)
  \/ ReadRegistry(v) \/ Finish(v) \/ BeginSweep(v) \/ EndSweep(v)
  \/ \E t \in entries[v] : TakeEntry(v, t)

Next ==
  \/ Takes
  \/ \E l \in Launches : LaunchSteps(l)
  \/ \E v \in Verbs : VerbSteps(v)
  \/ \E p \in Projects : DeleteProject(p)

Spec == Init /\ [][Next]_vars

(* A process goes on until it ends; a lock that is free is granted to one  *)
(* that waits for it; a cage started without a record ends.                *)
Fairness ==
  /\ \A a \in Actors : WF_vars(Open(a) \/ Busy(a) \/ Granted(a))
  /\ \A l \in Launches : WF_vars(End(l))
  /\ \A v \in Verbs :
       /\ WF_vars(ReadRegistry(v) \/ Finish(v) \/ EndSweep(v))
       /\ WF_vars(\E t \in entries[v] : TakeEntry(v, t))
       /\ WF_vars(\E p \in Projects : Judge(v, p))

-----------------------------------------------------------------------------
Using(l, p) == at[l] = p /\ (<<l, p>> \in held \/ l \in recorded)

(* What a verb is busy taking from, whether it has the lock or not.        *)
TakesFrom(v, p) == st[v] = "working" /\ (at[v] = p \/ \E e \in entries[v] : e[1] = p)

TakesTrees == {v \in Verbs : kind[v] \in {"remove", "sweep"}}

(* Nothing is collected from, or purged out of, a tree the verb set out to *)
(* lock while a launch of that project is putting in place what it needs   *)
(* or a session recorded there runs on it: a verb that has started         *)
(* finishes before a launch goes on, and one that starts later waits for   *)
(* the launch or finds its session (projectstore.rs lock_project_store).   *)
(* A purge lists the trees again once it has its locks, and takes from the *)
(* ones that came meanwhile without their lock (gc.rs purge_app_homes says *)
(* so): of those nothing is said here.  A verb that takes a whole tree     *)
(* takes the lock's file with it, so this is so until one begins.          *)
NothingTakenInUse ==
  (\A v \in TakesTrees : st[v] = "idle") =>
    \A v \in Verbs, l \in Launches, p \in Projects :
      TakesFrom(v, p) /\ p \in chosen[v] => ~Using(l, p)

(* What the same lock is said to do for a removal: no tree is taken away   *)
(* under a launch or a session of its project.                             *)
NothingRemovedInUse ==
  \A v \in Verbs, l \in Launches :
    kind[v] = "remove" /\ TakesFrom(v, at[v]) => ~Using(l, at[v])

(* A verb that began comes to its end, whatever locks it and the others    *)
(* take: purges of two apps, which lock several projects each, never wait  *)
(* for one another for good.                                               *)
VerbsEnd == \A v \in Verbs : st[v] # "idle" ~> st[v] = "done"

(* One actor waits, without a timeout, for a lock another holds.           *)
WaitsFor(a, b) ==
  /\ st[a] = "blocked" /\ b # a /\ <<b, at[a]>> \in held
  /\ fd[b][at[a]] = fd[a][at[a]] /\ (Exclusive(a) \/ Exclusive(b))

(* No set of actors waits for locks its own members hold: of those that    *)
(* wait, one waits for somebody who goes on.                               *)
NoCircularWait ==
  \A D \in SUBSET Actors : (\A a \in D : \E b \in D : WaitsFor(a, b)) => D = {}

-----------------------------------------------------------------------------
(* The inductive invariant.                                                *)

Steps == {"idle", "opening", "trying", "reopening", "blocked", "building", "marked",
          "provisioned", "recording", "running", "ended", "locked", "working",
          "sweeping", "done"}
Parts == {"marker", "provisioned"}

TypeOK ==
  /\ exists \in [Projects -> BOOLEAN] /\ dir \in [Projects -> BOOLEAN]
  /\ parts \in [Projects -> SUBSET Parts]
  /\ node \in [Projects -> Nat] /\ nodes \in [Projects -> Nat]
  /\ st \in [Actors -> Steps] /\ kind \in [Verbs -> Kinds]
  /\ at \in [Actors -> Projects \cup {0}] /\ left \in [Verbs -> SUBSET Projects]
  /\ fd \in [Actors -> [Projects -> Nat]]
  /\ held \subseteq Actors \X Projects /\ recorded \subseteq Launches
  /\ saw \in [Verbs -> SUBSET (Projects \cup {0})]
  /\ entries \in [Verbs -> SUBSET (Projects \X (Parts \cup {"lock"}))]
  /\ chosen \in [Verbs -> SUBSET Projects]

(* An actor that is under way is busy with a project; the steps of a       *)
(* launch are a launch's and those of a verb a verb's.                     *)
AtAProject ==
  /\ \A a \in Actors : st[a] \notin {"idle", "sweeping", "done"} => at[a] \in Projects
  /\ \A a \in Actors :
       st[a] \in {"building", "marked", "provisioned", "recording", "running"} => a \in Launches
  /\ \A a \in Actors : st[a] \in {"locked", "working", "sweeping", "done"} => a \in Verbs

NoTreeTaken == \A v \in TakesTrees : st[v] = "idle"

(* A lock file stays where it is while no tree is taken: what an actor     *)
(* opened is what the next one opens.                                      *)
OneFileEach ==
  /\ \A a \in Actors, p \in Projects : fd[a][p] # 0 => fd[a][p] = node[p]
  /\ \A a \in Actors : st[a] \in {"trying", "blocked"} => fd[a][at[a]] # 0
  /\ \A h \in held : fd[h[1]][h[2]] # 0
  /\ \A v \in Verbs : kind[v] \notin {"remove", "sweep"} =>
       st[v] # "sweeping" /\ \A t \in entries[v] : t[2] = "provisioned"

(* A verb's hold is the only one of its project.                           *)
Excludes ==
  \A v \in Verbs, b \in Actors, p \in Projects :
    <<v, p>> \in held /\ <<b, p>> \in held => b = v

(* A launch has its lock until its session is recorded, and a verb has its *)
(* locks while it takes; a collection has one.                             *)
HoldsWhatItUses ==
  /\ \A a \in Actors : st[a] = "idle" => \A p \in Projects : <<a, p>> \notin held
  /\ \A l \in Launches :
       st[l] \in {"building", "marked", "provisioned", "recording"} => <<l, at[l]>> \in held
  /\ \A l \in recorded : st[l] = "running"
  /\ \A v \in Verbs : st[v] \in {"locked", "working"} => <<v, at[v]>> \in held
  /\ \A v \in Verbs : kind[v] = "collect" =>
       left[v] = {} /\ \A p \in Projects : <<v, p>> \in held => p = at[v]

(* What a verb takes from has no session: it read the registry with its    *)
(* locks held, and nobody records one without.                             *)
NoneRecorded ==
  \A v \in Verbs, l \in recorded : st[v] = "working" => <<v, at[l]>> \notin held

Safe == OneFileEach /\ Excludes /\ HoldsWhatItUses /\ NoneRecorded

Inv == TypeOK /\ AtAProject /\ (NoTreeTaken => Safe)

(* The order the locks are taken in, whatever trees are taken: an actor    *)
(* that takes a lock holds only locks of projects before that one, and has *)
(* only later ones still to take.                                          *)
Locking == {"opening", "trying", "reopening", "blocked"}

LocksInOrder ==
  /\ \A a \in Actors : st[a] = "idle" => \A p \in Projects : <<a, p>> \notin held
  /\ \A a \in Actors : st[a] \in Locking => \A p \in Projects : <<a, p>> \in held => p < at[a]
  /\ \A v \in Verbs : st[v] \in Locking => \A p \in left[v] : at[v] < p

(* A verb has the lock of every project it set out to lock before it reads *)
(* the registry, and until it ends; a sweep set out to lock none.          *)
HasLocks(v) ==
  /\ st[v] \in Locking => \A p \in chosen[v] : p = at[v] \/ p \in left[v] \/ <<v, p>> \in held
  /\ st[v] \in {"locked", "working"} => \A p \in chosen[v] : <<v, p>> \in held
  /\ kind[v] = "sweep" \/ st[v] = "sweeping" => chosen[v] = {}

HasItsLocks == \A v \in Verbs : HasLocks(v)
=============================================================================
