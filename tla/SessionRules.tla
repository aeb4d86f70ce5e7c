---------------------------- MODULE SessionRules ----------------------------
(***************************************************************************)
(* The `--session` rules an operator loads into a running launch           *)
(* (src/sandbox/control/mod.rs, ManualRules) and how they come into force: *)
(* the supervisor pushes the whole overlay under a version, notes it for   *)
(* its own judge first, and waits for the proxy to confirm it before it    *)
(* answers the operator (src/sandbox/proxy/link.rs, Supervisor::push,      *)
(* read_supervisor, read_proxy; link/judge.rs, Judge::sent).               *)
(*                                                                         *)
(* The proxy runs apart and may be compromised: one that is not honest     *)
(* confirms whatever it likes, and installs what it likes of what it was   *)
(* sent.                                                                   *)
(***************************************************************************)
EXTENDS Naturals, Sequences, FiniteSets

CONSTANTS
  Rules,   \* the rules an operator may load, with the list each goes to
  Ops,     \* the control connections, each carrying one command
  Nobody   \* the holder of a mutex nobody holds

ASSUME RulesAssumption == IsFiniteSet(Rules)
ASSUME NobodyAssumption == Nobody \notin Ops

VARIABLES
  nature,     \* whether the proxy installs what it confirms, or lies
  held,       \* ManualInner: the rules loaded
  version,    \* ManualInner: how many changes there were
  lock,       \* who holds ManualRules::proxy
  pc,         \* where each command is
  want,       \* the rules each command loads
  sent,       \* Heard: the last version sent, as far as it is believed
  installed,  \* Heard: the last version the proxy confirmed
  closed,     \* Heard: the supervisor's reader has ended
  judge,      \* the overlay the supervisor's judge decides with
  down,       \* the overlays on their way to the proxy
  up,         \* the confirmations on their way back
  proxy,      \* the overlay the proxy decides with
  shut        \* the socket was shut down, by either end

heardVars == <<sent, installed, closed>>
wireVars  == <<down, up, shut>>
vars == <<nature, held, version, lock, pc, want, heardVars, judge, proxy, wireVars>>

Overlays == [version : Nat, rules : SUBSET Rules]

Natures == {"honest", "lying"}

PCs == {"idle", "lock", "edit", "confirm", "sent", "note", "send", "await", "ok", "failed"}

Larger(m, n) == IF m >= n THEN m ELSE n
Smaller(m, n) == IF m <= n THEN m ELSE n

Init ==
  /\ nature \in Natures
  /\ held = {}
  /\ version = 0
  /\ lock = Nobody
  /\ pc = [o \in Ops |-> "idle"]
  /\ want = [o \in Ops |-> {}]
  /\ sent = 0
  /\ installed = 0
  /\ closed = FALSE
  /\ judge = [version |-> 0, rules |-> {}]
  /\ down = << >>
  /\ up = << >>
  /\ proxy = [version |-> 0, rules |-> {}]
  /\ shut = FALSE

Goto(o, next) == pc' = [pc EXCEPT ![o] = next]

-----------------------------------------------------------------------------
(* A command: ManualRules::change, holding the proxy's mutex to its end.   *)

(* remember_rule, remember_mute and remember load one rule, remember_all   *)
(* one for each destination parked.                                        *)
Change(o, R) ==
  /\ pc[o] = "idle"
  /\ want' = [want EXCEPT ![o] = R]
  /\ Goto(o, "lock")
  /\ UNCHANGED <<nature, held, version, lock, heardVars, judge, proxy, wireVars>>

Lock(o) ==
  /\ pc[o] = "lock"
  /\ lock = Nobody
  /\ lock' = o
  /\ Goto(o, "edit")
  /\ UNCHANGED <<nature, held, version, want, heardVars, judge, proxy, wireVars>>

(* Faulty: a command that changes nothing is reported done at once.        *)
EditShortCut(o) ==
  /\ pc[o] = "edit"
  /\ held' = held \cup want[o]
  /\ version' = IF want[o] \subseteq held THEN version ELSE version + 1
  /\ Goto(o, IF want[o] \subseteq held THEN "ok" ELSE "confirm")
  /\ lock' = IF want[o] \subseteq held THEN Nobody ELSE lock
  /\ UNCHANGED <<nature, want, heardVars, judge, proxy, wireVars>>

(* The edit dedupes; only one that adds a rule makes a new version.        *)
Edit(o) ==
  /\ pc[o] = "edit"
  /\ held' = held \cup want[o]
  /\ version' = IF want[o] \subseteq held THEN version ELSE version + 1
  /\ Goto(o, "confirm")
  /\ UNCHANGED <<nature, lock, want, heardVars, judge, proxy, wireVars>>

(* The command's reply, and the mutex given back with it.                  *)
Reply(o, answer) == Goto(o, answer) /\ lock' = Nobody

(* ManualRules::confirm: what the proxy confirmed is not sent again.       *)
Confirmed(o) ==
  /\ pc[o] = "confirm"
  /\ installed >= version
  /\ Reply(o, "ok")
  /\ UNCHANGED <<nature, held, version, want, heardVars, judge, proxy, wireVars>>

Unconfirmed(o) ==
  /\ pc[o] = "confirm"
  /\ installed < version
  /\ Goto(o, "sent")
  /\ UNCHANGED <<nature, held, version, lock, want, heardVars, judge, proxy, wireVars>>

(* Faulty: the judge is told after the proxy.                              *)
NotedAfterSent == [sent |-> "send", send |-> "note", note |-> "await"]

(* The order of Supervisor::push: what follows each of its steps.          *)
After == [sent |-> "note", note |-> "send", send |-> "await"]

(* Supervisor::push, one critical section or one send at a time.  Nobody   *)
(* else writes the rules while this command holds the mutex, so the        *)
(* overlay it read in confirm is the one held here.                        *)
CountAsSent(o) ==
  /\ pc[o] = "sent"
  /\ sent' = Larger(sent, version)
  /\ Goto(o, After.sent)
  /\ UNCHANGED <<nature, held, version, lock, want, installed, closed, judge, proxy, wireVars>>

Pushed == [version |-> version, rules |-> held]

NoteForJudge(o) ==
  /\ pc[o] = "note"
  /\ judge' = IF version > judge.version THEN Pushed ELSE judge
  /\ Goto(o, After.note)
  /\ UNCHANGED <<nature, held, version, lock, want, heardVars, proxy, wireVars>>

Send(o) ==
  /\ pc[o] = "send"
  /\ ~closed /\ ~shut
  /\ down' = Append(down, Pushed)
  /\ Goto(o, After.send)
  /\ UNCHANGED <<nature, held, version, lock, want, heardVars, judge, proxy, up, shut>>

(* The link has ended, or the proxy leaves no room within SEND_WAIT, which *)
(* ends it.                                                                *)
SendFails(o) ==
  /\ pc[o] = "send"
  /\ shut' = TRUE
  /\ Reply(o, "failed")
  /\ UNCHANGED <<nature, held, version, want, heardVars, judge, proxy, down, up>>

Awaited(o) ==
  /\ pc[o] = "await"
  /\ installed >= version
  /\ Reply(o, "ok")
  /\ UNCHANGED <<nature, held, version, want, heardVars, judge, proxy, wireVars>>

(* Faulty: the wait for a confirmation has no deadline.                    *)
AwaitFailsOnlyClosed(o) ==
  /\ pc[o] = "await"
  /\ closed
  /\ installed < version
  /\ Reply(o, "failed")
  /\ UNCHANGED <<nature, held, version, want, heardVars, judge, proxy, wireVars>>

(* The link ended, or CONFIRM_WAIT passed, which it may at any time.       *)
AwaitFails(o) ==
  /\ pc[o] = "await"
  /\ installed < version
  /\ Reply(o, "failed")
  /\ UNCHANGED <<nature, held, version, want, heardVars, judge, proxy, wireVars>>

-----------------------------------------------------------------------------
(* The proxy's reader: read_supervisor.                                    *)

(* A confirmation is lost when the link has been shut down.                *)
Say(v) == up' = IF shut THEN up ELSE Append(up, v)

(* A newer overlay is swapped in whole, and then the one in force is       *)
(* confirmed.                                                              *)
Install ==
  LET newest == IF Head(down).version > proxy.version THEN Head(down) ELSE proxy
  IN  /\ down # << >>
      /\ proxy' = newest
      /\ Say(newest.version)
      /\ down' = Tail(down)
      /\ UNCHANGED <<nature, held, version, lock, pc, want, heardVars, judge, shut>>

(* A proxy that is not honest confirms what it likes, and drops or delays  *)
(* what it was sent.                                                       *)
Claim(v) ==
  /\ nature = "lying"
  /\ up = << >>
  /\ Say(v)
  /\ UNCHANGED <<nature, held, version, lock, pc, want, heardVars, judge, proxy, down, shut>>

Ignore ==
  /\ nature = "lying"
  /\ down # << >>
  /\ down' = Tail(down)
  /\ UNCHANGED <<nature, held, version, lock, pc, want, heardVars, judge, proxy, up, shut>>

-----------------------------------------------------------------------------
(* The supervisor's reader: read_proxy.                                    *)

(* Faulty: a confirmation is believed for versions that were never sent.   *)
HearUnbounded ==
  /\ ~closed
  /\ up # << >>
  /\ installed' = Larger(installed, Head(up))
  /\ up' = Tail(up)
  /\ UNCHANGED <<nature, held, version, lock, pc, want, sent, closed, judge, proxy, down, shut>>

(* A confirmation is believed up to what was sent.                         *)
Hear ==
  /\ ~closed
  /\ up # << >>
  /\ installed' = Larger(installed, Smaller(Head(up), sent))
  /\ up' = Tail(up)
  /\ UNCHANGED <<nature, held, version, lock, pc, want, sent, closed, judge, proxy, down, shut>>

(* Supervisor::close, the proxy's exit, or a message that does not read.   *)
ShutDown ==
  /\ ~shut
  /\ shut' = TRUE
  /\ UNCHANGED <<nature, held, version, lock, pc, want, heardVars, judge, proxy, down, up>>

ReaderEnds ==
  /\ shut /\ ~closed
  /\ closed' = TRUE
  /\ UNCHANGED <<nature, held, version, lock, pc, want, sent, installed, judge, proxy, wireVars>>

-----------------------------------------------------------------------------
CommandStep(o) ==
  \/ Lock(o) \/ Edit(o) \/ Confirmed(o) \/ Unconfirmed(o) \/ CountAsSent(o)
  \/ NoteForJudge(o) \/ Send(o) \/ SendFails(o) \/ Awaited(o) \/ AwaitFails(o)

(* The versions a proxy may claim go past the last one there can be.       *)
Claimable == 0 .. (Cardinality(Rules) + 1)

LinkStep ==
  \/ Install \/ Ignore \/ Hear \/ ShutDown \/ ReaderEnds
  \/ \E v \in Claimable : Claim(v)

Finished ==
  /\ \A o \in Ops : pc[o] \in {"idle", "ok", "failed"}
  /\ UNCHANGED vars

Next ==
  \/ \E o \in Ops : CommandStep(o) \/ \E R \in SUBSET Rules \ {{}} : Change(o, R)
  \/ LinkStep
  \/ Finished

Spec == Init /\ [][Next]_vars

(* A command that is under way takes its next step, the wait for a         *)
(* confirmation ending by its deadline at the latest.  The proxy and the   *)
(* readers need not run at all.                                            *)
Fairness == \A o \in Ops : WF_vars(CommandStep(o))

-----------------------------------------------------------------------------
(* Properties.                                                             *)

(* Every variable has its type, and no count is ahead of the one it        *)
(* follows.                                                                *)
TypeOK ==
  /\ nature \in Natures
  /\ held \in SUBSET Rules
  /\ version \in Nat
  /\ lock \in Ops \cup {Nobody}
  /\ pc \in [Ops -> PCs]
  /\ want \in [Ops -> SUBSET Rules]
  /\ sent \in 0 .. version /\ installed \in 0 .. sent /\ closed \in BOOLEAN
  /\ judge \in Overlays /\ proxy \in Overlays
  /\ down \in Seq(Overlays) /\ up \in Seq(Nat)
  /\ shut \in BOOLEAN

(* The rules of a command that was answered `ok` are in force in an honest *)
(* proxy from then on: the next request is decided with them.  A rule      *)
(* loaded again after a push that failed included.                         *)
ConfirmedInForce ==
  nature = "honest" => \A o \in Ops : pc[o] = "ok" => want[o] \subseteq proxy.rules

(* ... and in the judge, whatever the proxy claims: a proxy that lies      *)
(* about what it installed cannot have the operator told of a rule nobody  *)
(* enforces.                                                               *)
ConfirmedIsJudged ==
  \A o \in Ops : pc[o] = "ok" => want[o] \subseteq judge.rules

(* The judge's copy of the overlay may be ahead of the proxy's, and is     *)
(* never behind it: a request an honest proxy lets through by a rule is    *)
(* judged with that rule.                                                  *)
JudgeNotBehind ==
  proxy.version <= judge.version /\ proxy.rules \subseteq judge.rules

(* What decides requests never loses a rule: a later overlay has every     *)
(* rule of the ones before, and an older one is not swapped in.            *)
NeverLosesARule ==
  [][/\ judge.rules \subseteq judge'.rules
     /\ proxy.rules \subseteq proxy'.rules]_vars

(* A command is answered, and the next one gets its turn, though the proxy *)
(* never reads its end of the link.                                        *)
CommandsEnd ==
  \A o \in Ops : pc[o] = "lock" ~> pc[o] \in {"ok", "failed"}

-----------------------------------------------------------------------------
(* Why they hold: an inductive invariant.                                  *)

(* Between two overlays, the one with the later version has every rule of  *)
(* the other.                                                              *)
Ordered(a, b) == /\ a.version <= b.version => a.rules \subseteq b.rules
                 /\ b.version <= a.version => b.rules \subseteq a.rules

(* The overlay of the newest version, the judge's, the proxy's and those   *)
(* on their way were all taken from one growing list; and none is ahead of *)
(* the judge's, nor that of the list.                                      *)
OneHistory ==
  /\ judge.version <= version /\ Ordered(judge, Pushed)
  /\ proxy.version <= judge.version
  /\ Ordered(proxy, judge) /\ Ordered(proxy, Pushed)
  /\ \A i \in 1 .. Len(down) :
       /\ down[i].version <= judge.version
       /\ Ordered(down[i], judge)
       /\ Ordered(down[i], proxy)
       /\ Ordered(down[i], Pushed)
       /\ \A j \in 1 .. Len(down) : Ordered(down[i], down[j])

Holding == {"edit", "confirm", "sent", "note", "send", "await"}

(* The mutex is held by the one command that is under way, and what it     *)
(* loads is in the list once it has edited it.                             *)
OneAtATime ==
  \A o \in Ops : /\ pc[o] \in Holding => lock = o
                 /\ pc[o] \in {"confirm", "sent", "note", "send", "await"} =>
                      want[o] \subseteq held

(* What was counted as sent, the judge was told of, but for a command that *)
(* is about to.                                                            *)
JudgeToldFirst ==
  /\ sent <= judge.version \/ \E o \in Ops : pc[o] = "note"
  /\ \A o \in Ops : pc[o] \in {"send", "await"} => judge.version = version

(* An honest proxy has installed what it confirmed.                        *)
ConfirmsWhatItHas ==
  nature = "honest" => /\ installed <= proxy.version
                       /\ \A i \in 1 .. Len(up) : up[i] <= proxy.version

Inv ==
  /\ TypeOK
  /\ OneHistory
  /\ OneAtATime
  /\ JudgeToldFirst
  /\ ConfirmsWhatItHas
  /\ ConfirmedIsJudged
  /\ ConfirmedInForce

(* The mutex is given back on every path: whoever holds it is at a step of *)
(* its own command, and each of those can be taken (ManualRules::change).  *)
MutexGivenBack == lock # Nobody => pc[lock] \in Holding
=============================================================================
