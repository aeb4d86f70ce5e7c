---------------------------- MODULE SessionStop -----------------------------
(***************************************************************************)
(* The session registry and `sbx session stop` (src/session.rs): records   *)
(* name a process by its number and its start time, a listing prunes the   *)
(* records of processes that ended, and a stop signals the recorded        *)
(* process and the members of its cage, which it looks for by number: the  *)
(* descendants of the launcher's number, and the scopes whose name ends on *)
(* it.  All the while processes exit, are reaped, and their numbers go to  *)
(* others; and any read of /proc, of a cgroup or of a record may fail.     *)
(*                                                                         *)
(* A process is its start time here, counted up; a descriptor of a process *)
(* refers to that process and does not hold its number.                    *)
(***************************************************************************)
EXTENDS Naturals, FiniteSets

CONSTANTS
  Pids,       \* the process numbers, without that of init
  MaxStarts   \* bound: processes ever started

PidsAssumption == IsFiniteSet(Pids) /\ Pids # {} /\ 0 \notin Pids
BoundsAssumption == MaxStarts \in Nat \ {0}

VARIABLES
  who,        \* the process each number names, 0 for none
  ppid,       \* the number of its parent, 0 for init
  zombies,    \* the ones that ended and nobody reaped
  launcher,   \* whose session each process is of: itself for a launcher, 0 for
              \* a stranger
  num,        \* the number it was started under
  born,       \* the processes started so far
  records,    \* the registry's files
  recorded,   \* the launchers that registered
  killed,     \* the processes sent SIGKILL, until they end
  hit,        \* the processes this stop signalled
  stop,       \* where the stop is
  target,     \* the record it stops
  pin,        \* the process its descriptor refers to
  edges,      \* what it read of /proc: a number, its parent's, its start time
  cage,       \* the members it found
  listed,     \* the numbers listed whose stat it has yet to read
  owed,       \* the processes its two lists named when they were made
  todo,       \* the members it has yet to signal
  member,     \* the one it is signalling, and the process pinned for it
  forced,     \* whether that is the SIGKILL sweep
  prune,      \* where the pruning walk is
  candidate,  \* the record it judges
  unread,     \* the processes whose stat or record could not be read, likewise
  freed,      \* history: the numbers given up while a stop looks for members
  slipped     \* history: one of these went to another process meanwhile

kernel == <<who, ppid, zombies, launcher, num, born>>
registry == <<records, recorded>>
stopper == <<hit, stop, target, pin, edges, cage, listed, owed, todo, member, forced>>
pruner == <<prune, candidate>>
reuse == <<freed, slipped>>
vars == <<kernel, registry, killed, stopper, pruner, unread, reuse>>

NoRecord == [pid |-> 0, start |-> 0]
NoJudged == [name |-> << >>, of |-> NoRecord]
NoMember == [pid |-> 0, start |-> 0, pin |-> 0]

Running(p) == who[p] # 0 /\ who[p] \notin zombies
Exists(s) == \E p \in Pids : who[p] = s
Member(p) == [pid |-> p, start |-> who[p]]

(* Faulty: a record is named by the number alone.                          *)
FileNameByPid(p, s) == <<p, 0>>

(* Session::file_name.                                                     *)
FileName(p, s) == <<p, s>>

Init ==
  /\ who = [p \in Pids |-> 0] /\ ppid = [p \in Pids |-> 0]
  /\ zombies = {} /\ launcher = << >> /\ num = << >> /\ born = 0
  /\ records = << >> /\ recorded = {}
  /\ killed = {} /\ hit = {}
  /\ stop = "idle" /\ target = NoRecord /\ pin = 0
  /\ edges = {} /\ cage = {} /\ listed = {} /\ owed = {} /\ todo = {} /\ member = NoMember
  /\ forced = FALSE
  /\ prune = "idle" /\ candidate = NoJudged
  /\ unread = {} /\ freed = {} /\ slipped = FALSE

-----------------------------------------------------------------------------
(* Processes: launchers, the members of their cages, and strangers, any of *)
(* which start others.                                                     *)

SessionOf(q) == IF q = 0 THEN 0 ELSE launcher[who[q]]

(* Whoever q names (init, for 0) starts a process, which may be reparented *)
(* to the user's manager at once, as the scope of a cage does.             *)
Fork(p, q, of) ==
  /\ who[p] = 0 /\ born < MaxStarts
  /\ q # 0 => Running(q)
  /\ of \in IF SessionOf(q) = 0 THEN {0, born + 1} ELSE {SessionOf(q)}
  /\ born' = born + 1
  /\ who' = [who EXCEPT ![p] = born']
  /\ \E above \in {0, q} : ppid' = [ppid EXCEPT ![p] = above]
  /\ launcher' = [s \in 1..born' |-> IF s = born' THEN of ELSE launcher[s]]
  /\ num' = [s \in 1..born' |-> IF s = born' THEN p ELSE num[s]]
  /\ slipped' = (slipped \/ p \in freed)
  /\ UNCHANGED <<zombies, registry, killed, stopper, pruner, unread, freed>>

(* Registry::register, by a rename.                                        *)
Register(p) ==
  /\ Running(p) /\ launcher[who[p]] = who[p] /\ who[p] \notin recorded
  /\ LET name == FileName(p, who[p]) IN
     records' = [n \in DOMAIN records \cup {name} |-> IF n = name THEN Member(p) ELSE records[n]]
  /\ recorded' = recorded \cup {who[p]}
  /\ UNCHANGED <<kernel, killed, stopper, pruner, unread, reuse>>

Without(name) == [n \in DOMAIN records \ {name} |-> records[n]]

(* An exit, with the RecordGuard's cleanup or without it; init takes over  *)
(* the children.                                                           *)
Exit(p) ==
  /\ Running(p)
  /\ zombies' = zombies \cup {who[p]}
  /\ ppid' = [q \in Pids |-> IF ppid[q] = p THEN 0 ELSE ppid[q]]
  /\ \/ UNCHANGED records
     \/ who[p] \in recorded /\ records' = Without(FileName(p, who[p]))
  /\ killed' = killed \ {who[p]} /\ unread' = unread \ {who[p]}
  /\ UNCHANGED <<who, launcher, num, born, recorded, stopper, pruner, reuse>>

Reap(p) ==
  /\ who[p] \in zombies
  /\ who' = [who EXCEPT ![p] = 0]
  /\ ppid' = [ppid EXCEPT ![p] = 0]
  /\ zombies' = zombies \ {who[p]}
  /\ freed' = IF stop \in {"subtree", "scope", "starts"} THEN freed \cup {p} ELSE freed
  /\ UNCHANGED <<launcher, num, born, registry, killed, stopper, pruner, unread, slipped>>

-----------------------------------------------------------------------------
(* Registry::scan with pruning, one record at a time.                      *)

(* parse_record; a record that cannot be read is removed like a dead one.  *)
Judge(name) ==
  /\ prune = "idle"
  /\ candidate' = [name |-> name, of |-> records[name]]
  /\ \/ prune' = "live" /\ UNCHANGED unread
     \/ prune' = "dead" /\ unread' = unread \cup {records[name].start}
  /\ UNCHANGED <<kernel, registry, killed, stopper, reuse>>

(* is_alive: pid_is_live, for which a zombie whose state cannot be read is *)
(* alive, then the start time.                                             *)
PidIsLive ==
  /\ prune = "live"
  /\ \/ who[candidate.of.pid] # 0 /\ prune' = "started"
     \/ ~Running(candidate.of.pid) /\ prune' = "dead"
  /\ UNCHANGED <<kernel, registry, killed, stopper, candidate, unread, reuse>>

StartMatches ==
  /\ prune = "started"
  /\ prune' = IF who[candidate.of.pid] = candidate.of.start THEN "idle" ELSE "dead"
  /\ candidate' = IF prune' = "idle" THEN NoJudged ELSE candidate
  /\ UNCHANGED <<kernel, registry, killed, stopper, unread, reuse>>

(* A start time that cannot be read is not the one recorded.               *)
StartUnread ==
  /\ prune = "started"
  /\ prune' = "dead" /\ unread' = unread \cup {candidate.of.start}
  /\ UNCHANGED <<kernel, registry, killed, stopper, candidate, reuse>>

Remove ==
  /\ prune = "dead"
  /\ records' = Without(candidate.name)
  /\ prune' = "idle" /\ candidate' = NoJudged
  /\ UNCHANGED <<kernel, recorded, killed, stopper, unread, reuse>>

-----------------------------------------------------------------------------
(* Session::stop: pin, confirm, find the members.                          *)

Choose(name) ==
  /\ stop = "idle"
  /\ target' = records[name] /\ stop' = "open"
  /\ UNCHANGED <<kernel, registry, killed, hit, pin, edges, cage, listed, owed, todo, member,
                 forced, pruner, unread, reuse>>

Ends == /\ stop' = "idle" /\ target' = NoRecord /\ pin' = 0 /\ hit' = {}
        /\ cage' = {} /\ owed' = {} /\ forced' = FALSE
        /\ freed' = {} /\ slipped' = FALSE

Open ==
  /\ stop = "open"
  /\ pin' = who[target.pid]
  /\ stop' = IF pin' = 0 THEN "forget" ELSE "confirm"
  /\ UNCHANGED <<kernel, registry, killed, hit, target, edges, cage, listed, owed, todo, member,
                 forced, pruner, unread, reuse>>

(* The host refuses a descriptor: nothing was signalled, the record stays. *)
OpenRefused ==
  /\ stop = "open"
  /\ Ends
  /\ UNCHANGED <<kernel, registry, killed, edges, listed, todo, member, pruner, unread>>

Confirm ==
  /\ stop = "confirm"
  /\ IF who[target.pid] = target.start
     THEN stop' = "subtree" /\ listed' = Pids
     ELSE stop' = "forget" /\ UNCHANGED listed
  /\ UNCHANGED <<kernel, registry, killed, hit, target, pin, edges, cage, owed, todo, member,
                 forced, pruner, unread, reuse>>

(* A start time that cannot be read counts as gone.                        *)
ConfirmUnread ==
  /\ stop = "confirm"
  /\ stop' = "forget" /\ unread' = unread \cup {target.start}
  /\ UNCHANGED <<kernel, registry, killed, hit, target, pin, edges, cage, listed, owed, todo,
                 member, forced, pruner, reuse>>

(* descendants reads /proc one number at a time; one that cannot be read   *)
(* is left out, and with it what is below it...                            *)
ReadStat(p) ==
  /\ stop = "subtree" /\ p \in listed
  /\ listed' = listed \ {p}
  /\ \/ UNCHANGED edges
     \/ /\ who[p] # 0
        /\ edges' = edges \cup {[pid |-> p, ppid |-> ppid[p], start |-> who[p]]}
  /\ UNCHANGED <<kernel, registry, killed, hit, stop, target, pin, cage, owed, todo, member,
                 forced, pruner, unread, reuse>>

(* ... and walks down from the launcher's number.                          *)
Closed(below) == \A e \in edges : e.ppid \in below => e.pid \in below

Descendants ==
  {e \in edges : e.pid # target.pid /\
     \A below \in SUBSET Pids : target.pid \in below /\ Closed(below) => e.pid \in below}

WalkDescendants ==
  /\ stop = "subtree" /\ listed = {}
  /\ cage' = {[pid |-> e.pid, start |-> e.start] : e \in Descendants}
  /\ owed' = cage' /\ edges' = {} /\ stop' = "scope"
  /\ UNCHANGED <<kernel, registry, killed, hit, target, pin, listed, todo, member, forced,
                 pruner, unread, reuse>>

(* The processes of the cages whose scope is named after a launcher's      *)
(* number: the name does not say which launcher.                           *)
InScopeOf(n) == {p \in Pids : Running(p) /\ launcher[who[p]] # 0 /\ num[launcher[who[p]]] = n}

(* scope_members lists the cgroups, of which some may be absent or not     *)
(* readable...                                                             *)
ListScope ==
  /\ stop = "scope"
  /\ listed' \in SUBSET InScopeOf(target.pid)
  /\ owed' = owed \cup {Member(p) : p \in listed'}
  /\ stop' = "starts"
  /\ UNCHANGED <<kernel, registry, killed, hit, target, pin, edges, cage, todo, member, forced,
                 pruner, unread, reuse>>

(* Faulty: a number that is in the list already is left out.               *)
UnionByPid(ms, m) == IF \E k \in ms : k.pid = m.pid THEN ms ELSE ms \cup {m}

(* union_cage_members: a member is the pair.                               *)
Union(ms, m) == ms \cup {m}

(* ... and then reads each start time...                                   *)
ReadStart(p) ==
  /\ stop = "starts" /\ p \in listed
  /\ listed' = listed \ {p}
  /\ cage' = IF who[p] = 0 THEN cage ELSE Union(cage, Member(p))
  /\ UNCHANGED <<kernel, registry, killed, hit, stop, target, pin, edges, owed, todo, member,
                 forced, pruner, unread, reuse>>

(* ... or cannot, and leaves the number out.                               *)
LeaveOut(p) ==
  /\ stop = "starts" /\ p \in listed
  /\ listed' = listed \ {p}
  /\ owed' = {m \in owed : m.pid # p \/ m \in cage}
  /\ UNCHANGED <<kernel, registry, killed, hit, stop, target, pin, edges, cage, todo, member,
                 forced, pruner, unread, reuse>>

-----------------------------------------------------------------------------
(* stop_pinned: SIGTERM to all, a wait, SIGKILL to all.                    *)

SigTerm ==
  /\ stop = "starts" /\ listed = {}
  /\ hit' = IF Exists(pin) THEN hit \cup {pin} ELSE hit
  /\ forced' = ~Exists(pin)
  /\ todo' = cage /\ stop' = "sweep" /\ freed' = {}
  /\ UNCHANGED <<kernel, registry, killed, target, pin, edges, cage, listed, owed, member, pruner,
                 unread, slipped>>

(* signal_if_match opens the member's descriptor...                        *)
OpenMember(m) ==
  /\ stop = "sweep" /\ member = NoMember /\ m \in todo
  /\ todo' = todo \ {m}
  /\ member' = IF who[m.pid] = 0 THEN NoMember
               ELSE [pid |-> m.pid, start |-> m.start, pin |-> who[m.pid]]
  /\ UNCHANGED <<kernel, registry, killed, hit, stop, target, pin, edges, cage, listed, owed,
                 forced, pruner, unread, reuse>>

(* ... or cannot, or cannot read the start time, and lets it be.           *)
MissMember(m) ==
  /\ stop = "sweep" /\ member = NoMember /\ m \in todo
  /\ todo' = todo \ {m}
  /\ owed' = IF forced THEN owed \ {m} ELSE owed
  /\ UNCHANGED <<kernel, registry, killed, hit, stop, target, pin, edges, cage, listed, member,
                 forced, pruner, unread, reuse>>

(* Faulty: the start time found while listing is not read again.           *)
MatchesBefore == TRUE

Matches == who[member.pid] = member.start

(* ... reads the start time and signals what the descriptor refers to.     *)
SignalMember ==
  /\ stop = "sweep" /\ member # NoMember
  /\ LET reached == {s \in {member.pin} : Matches /\ Exists(s)} IN
     /\ hit' = hit \cup reached
     /\ killed' = IF forced THEN killed \cup reached ELSE killed
  /\ member' = NoMember
  /\ UNCHANGED <<kernel, registry, stop, target, pin, edges, cage, listed, owed, todo, forced,
                 pruner, unread, reuse>>

(* The wait ends with the process or with the grace; then the sweep.       *)
ForceKill ==
  /\ stop = "sweep" /\ ~forced /\ todo = {} /\ member = NoMember
  /\ killed' = IF Exists(pin) /\ pin \notin zombies THEN killed \cup {pin} ELSE killed
  /\ forced' = TRUE /\ todo' = cage
  /\ UNCHANGED <<kernel, registry, hit, stop, target, pin, edges, cage, listed, owed, member,
                 pruner, unread, reuse>>

Swept ==
  /\ stop = "sweep" /\ forced /\ todo = {} /\ member = NoMember
  /\ stop' = "forget"
  /\ UNCHANGED <<kernel, registry, killed, hit, target, pin, edges, cage, listed, owed, todo,
                 member, forced, pruner, unread, reuse>>

(* Registry::reap, on every outcome but a refused descriptor.              *)
Forget ==
  /\ stop = "forget"
  /\ records' = Without(FileName(target.pid, target.start))
  /\ Ends
  /\ UNCHANGED <<kernel, recorded, killed, edges, listed, todo, member, pruner, unread>>

Next ==
  \/ \E p \in Pids :
       \/ Register(p) \/ Exit(p) \/ Reap(p) \/ ReadStat(p) \/ ReadStart(p) \/ LeaveOut(p)
       \/ \E q \in Pids \cup {0}, of \in 0 .. born + 1 : Fork(p, q, of)
  \/ \E name \in DOMAIN records : Judge(name) \/ Choose(name)
  \/ PidIsLive \/ StartMatches \/ StartUnread \/ Remove
  \/ Open \/ OpenRefused \/ Confirm \/ ConfirmUnread
  \/ WalkDescendants \/ ListScope \/ SigTerm
  \/ \E m \in todo : OpenMember(m) \/ MissMember(m)
  \/ SignalMember \/ ForceKill \/ Swept \/ Forget

Spec == Init /\ [][Next]_vars

-----------------------------------------------------------------------------
(* Properties.                                                             *)

(* A stop signals the session it was asked for and the members of its      *)
(* cage, and nobody else, whatever numbers were reused meanwhile: what     *)
(* session.rs says of a stop, and what looking for members by number does  *)
(* not keep.                                                               *)
SignalsItsOwn == \A s \in hit : launcher[s] = target.start

(* The cages of the launchers that had the number of the one to stop.      *)
UnderItsNumber(s) == launcher[s] # 0 /\ num[launcher[s]] = target.pid

(* What a stop does keep (Session::stop, signal_if_match): it signals its  *)
(* process and the very processes whose start time it read as it looked    *)
(* for members, never who has their number now; and these belong to a      *)
(* launcher of the number it stops, unless a number that was given up      *)
(* while it looked went to another process before it was done.             *)
SignalsWhatItFound ==
  \A s \in hit :
    /\ s = target.start \/ \E m \in cage : m.start = s
    /\ slipped \/ UnderItsNumber(s)

(* A session that runs and was not killed has its record, whatever numbers *)
(* were reused, unless its record, or its stat under /proc, could not be   *)
(* read: what a prune cannot read it judges dead (scan, is_alive), and so  *)
(* does the confirmation of a stop.                                        *)
RunningIsRecorded ==
  \A p \in Pids : Running(p) /\ who[p] \in (recorded \ killed) \ unread =>
    FileName(p, who[p]) \in DOMAIN records /\ records[FileName(p, who[p])] = Member(p)

(* A stop that ends has killed every process its two lists named, also     *)
(* where a number passed from one to another between them, unless the      *)
(* host refused a descriptor or a read of its start time (stop_pinned,     *)
(* union_cage_members).                                                    *)
MembersKilled ==
  stop = "forget" /\ forced =>
    \A m \in owed : who[m.pid] # m.start \/ m.start \in killed \cup zombies

-----------------------------------------------------------------------------
(* The inductive invariant.                                                *)

Processes == 1 .. born
Named == [pid : Pids, start : Processes]

TypeOK ==
  /\ born \in Nat /\ who \in [Pids -> 0 .. born] /\ ppid \in [Pids -> Pids \cup {0}]
  /\ launcher \in [Processes -> 0 .. born] /\ num \in [Processes -> Pids]
  /\ zombies \subseteq Processes /\ recorded \subseteq Processes /\ killed \subseteq Processes
  /\ \A n \in DOMAIN records : records[n] \in Named
  /\ hit \subseteq Processes /\ pin \in 0 .. born
  /\ stop \in {"idle", "open", "confirm", "subtree", "scope", "starts", "sweep", "forget"}
  /\ stop = "idle" \/ target \in Named
  /\ edges \subseteq [pid : Pids, ppid : Pids \cup {0}, start : Processes]
  /\ cage \subseteq Named /\ owed \subseteq Named /\ todo \subseteq Named
  /\ listed \subseteq Pids /\ forced \in BOOLEAN
  /\ member = NoMember \/ member \in [pid : Pids, start : Processes, pin : Processes]
  /\ prune \in {"idle", "live", "started", "dead"}
  /\ prune = "idle" \/ candidate \in [name : Pids \X Processes, of : Named]
  /\ unread \subseteq Processes /\ freed \subseteq Pids /\ slipped \in BOOLEAN

(* A number that no longer names the process, or names what is left of it: *)
(* no process has two numbers, and none comes back.                        *)
Gone(m) == who[m.pid] # m.start \/ m.start \in zombies

OneNumberEach ==
  \A p \in Pids : who[p] # 0 => num[who[p]] = p

(* A parent runs, and what it starts in a session is of that session.      *)
ParentsRun ==
  \A p \in Pids : ppid[p] # 0 =>
    /\ who[p] # 0 /\ Running(ppid[p])
    /\ launcher[who[ppid[p]]] # 0 => launcher[who[p]] = launcher[who[ppid[p]]]

(* A record is kept under the name of what it records, a launcher; only    *)
(* the record of a process that is gone, or of which something could not   *)
(* be read, is judged dead.                                                *)
RecordsAreNamed ==
  /\ \A n \in DOMAIN records : /\ n = FileName(records[n].pid, records[n].start)
                               /\ records[n].start \in recorded
                               /\ num[records[n].start] = records[n].pid
  /\ \A s \in recorded : launcher[s] = s
  /\ prune # "idle" => candidate.name = FileName(candidate.of.pid, candidate.of.start)
  /\ prune = "dead" => Gone(candidate.of) \/ candidate.of.start \in unread

(* What a descriptor refers to is the process recorded, once its start     *)
(* time was found to be the one recorded.                                  *)
PinnedIsNamed ==
  /\ stop # "idle" => target.start \in recorded /\ num[target.start] = target.pid
  /\ stop = "confirm" => pin = target.start \/ who[target.pid] # target.start
  /\ stop \in {"subtree", "scope", "starts", "sweep"} => pin = target.start
  /\ member # NoMember => member.pin = member.start \/ who[member.pid] # member.start

(* What a stop keeps it found in the steps before, and lets go of when it  *)
(* ends.                                                                   *)
InOrder ==
  /\ member # NoMember => stop = "sweep"
  /\ listed # {} => stop \in {"subtree", "starts"}
  /\ edges # {} => stop = "subtree"
  /\ stop # "sweep" => todo = {}
  /\ stop \notin {"sweep", "forget"} => hit = {} /\ ~forced
  /\ stop \in {"idle", "open", "confirm", "subtree"} => cage = {} /\ owed = {}
  /\ stop \notin {"subtree", "scope", "starts"} => freed = {}

(* No process listed is left out on the way from the lists to the sweep.   *)
NoneLeftOut ==
  /\ stop = "scope" => owed \subseteq cage
  /\ stop = "starts" => \A m \in owed : m.pid \in listed \/ m \in cage \/ Gone(m)
  /\ stop = "sweep" /\ ~forced => \A m \in owed : m \in cage \/ Gone(m)
  /\ stop = "sweep" /\ forced => \A m \in owed :
       \/ m \in todo \/ Gone(m) \/ m.start \in killed
       \/ member.pid = m.pid /\ member.start = m.start

(* The record a stop removes is that of a process it killed, or that is    *)
(* gone, or whose start time it could not read.                            *)
ForgetsTheDead ==
  stop = "forget" \/ (stop = "sweep" /\ forced) =>
    Gone(target) \/ target.start \in killed \cup unread

Inv ==
  /\ TypeOK /\ OneNumberEach /\ RecordsAreNamed /\ PinnedIsNamed
  /\ InOrder /\ NoneLeftOut /\ ForgetsTheDead
  /\ RunningIsRecorded /\ MembersKilled

(* The process a number was read for while the stop looks for members: it  *)
(* still has the number, or gave it up and nobody has it.                  *)
StillNames(p, s) == who[p] = s \/ (who[p] = 0 /\ p \in freed)

(* So what was read of /proc joins as one picture of the processes, though *)
(* it was read one number at a time...                                     *)
ReadAsOne ==
  stop = "subtree" =>
    /\ StillNames(target.pid, target.start)
    /\ \A e \in edges :
         /\ e.pid \notin listed /\ StillNames(e.pid, e.start)
         /\ e.ppid = target.pid => UnderItsNumber(e.start)
         /\ e.ppid # 0 => \/ who[e.ppid] = 0 /\ e.ppid \in freed
                          \/ /\ who[e.ppid] # 0
                             /\ UnderItsNumber(who[e.ppid]) => UnderItsNumber(e.start)
    /\ \A e, f \in edges :
         /\ e.pid = f.pid => e = f
         /\ e.ppid = f.pid /\ UnderItsNumber(f.start) => UnderItsNumber(e.start)

(* ... and the members found belong to a launcher of its number.           *)
MembersAreItsOwn ==
  /\ \A m \in cage \cup todo : UnderItsNumber(m.start)
  /\ member # NoMember => UnderItsNumber(member.start)
  /\ stop = "starts" => \A p \in listed :
       \/ who[p] = 0 /\ p \in freed
       \/ who[p] # 0 /\ UnderItsNumber(who[p])

(* What is signalled was found; and while no number given up went to       *)
(* another process, what was found is of the launcher's number.            *)
OnlyFound ==
  /\ todo \subseteq cage
  /\ member # NoMember => [pid |-> member.pid, start |-> member.start] \in cage

OwnInv ==
  /\ Inv /\ ParentsRun /\ OnlyFound
  /\ slipped \/ (ReadAsOne /\ MembersAreItsOwn)
  /\ SignalsWhatItFound
=============================================================================
