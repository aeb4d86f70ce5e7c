----------------------------- MODULE LogLinger ------------------------------
(***************************************************************************)
(* The end of a session and its `--follow` readers                         *)
(* (src/sandbox/control/mod.rs, LogRing::followed and LogRing::linger):    *)
(* the session remembers when each reader last read, how often it reads    *)
(* and how far it got, and as it ends waits for the ones that are behind   *)
(* and still polling (src/sandbox/egress.rs, Drop for Egress).             *)
(*                                                                         *)
(* Time is counted in ticks.  A reader that polls does so once its         *)
(* interval has passed and before the slack on top of it has; one that     *)
(* stopped never reads again.                                              *)
(***************************************************************************)
EXTENDS Naturals, FiniteSetsExt

CONSTANTS
  Readers,       \* the readers
  Amending,      \* the ones that ask for amendments
  Interval,      \* how often each polls
  Slack,         \* how late a poll may come (FOLLOW_SLACK)
  LingerMax,     \* the longest a session waits (LINGER_MAX)
  FollowersMax,  \* the readers remembered at once (FOLLOWERS_MAX)
  Horizon,       \* bound: ticks before the session ends
  MaxChanges     \* bound: changes to the ring

ReadersAssumption ==
  Amending \subseteq Readers /\ Interval \in [Readers -> Nat \ {0}]
BoundsAssumption ==
  /\ {Slack, FollowersMax} \subseteq Nat \ {0}
  /\ {LingerMax, Horizon, MaxChanges} \subseteq Nat

VARIABLES
  now,        \* the clock
  head,       \* the newest event
  amend,      \* the newest amendment
  followers,  \* LogRing::followers, as each reader's last read left it
  polls,      \* whether each reader still polls
  last,       \* when each reader last asked, 0 before it did
  serving,    \* what a reader's connection is to answer it with
  got,        \* what each reader was last answered with
  session,    \* "open", "lingering", "over" once linger returned, or "gone"
  lingerTo    \* when linger stops waiting

vars == <<now, head, amend, followers, polls, last, serving, got, session, lingerTo>>

Nothing == [head |-> 0, amend |-> 0]

Init ==
  /\ now = 1 /\ head = 0 /\ amend = 0
  /\ followers = << >>
  /\ polls = [r \in Readers |-> TRUE]
  /\ last = [r \in Readers |-> 0]
  /\ serving = << >>
  /\ got = [r \in Readers |-> Nothing]
  /\ session = "open" /\ lingerTo = 0

-----------------------------------------------------------------------------
(* The session while it runs.                                              *)

Change ==
  /\ session = "open" /\ head + amend < MaxChanges
  /\ \/ head' = head + 1 /\ UNCHANGED amend
     \/ amend' = amend + 1 /\ head > 0 /\ UNCHANGED head
  /\ UNCHANGED <<now, followers, polls, last, serving, got, session, lingerTo>>

(* A reader polls: its connection takes a snapshot of the ring.            *)
Due(r) == last[r] + Interval[r]

Poll(r) ==
  /\ polls[r] /\ session \in {"open", "lingering"}
  /\ r \notin DOMAIN serving
  /\ last[r] = 0 \/ now >= Due(r)
  /\ last' = [last EXCEPT ![r] = now]
  /\ serving' = [f \in DOMAIN serving \cup {r} |->
                   IF f = r THEN [head |-> head, amend |-> amend, noted |-> FALSE]
                            ELSE serving[f]]
  /\ UNCHANGED <<now, head, amend, followers, polls, got, session, lingerTo>>

(* Past the limit the reader heard from longest ago is forgotten.          *)
Kept(r) ==
  LET known == DOMAIN followers \ {r}
  IN  IF r \in DOMAIN followers \/ Cardinality(known) < FollowersMax THEN known
      ELSE known \ {CHOOSE o \in known : \A p \in known : followers[o].at <= followers[p].at}

(* LogRing::followed.                                                      *)
Followed(r) ==
  /\ r \in DOMAIN serving /\ ~serving[r].noted /\ session # "gone"
  /\ followers' = [f \in Kept(r) \cup {r} |->
                     IF f = r
                       THEN [at |-> now, head |-> serving[r].head, amend |-> serving[r].amend]
                       ELSE followers[f]]
  /\ serving' = [serving EXCEPT ![r].noted = TRUE]
  /\ UNCHANGED <<now, head, amend, polls, last, got, session, lingerTo>>

(* The answer is written after the read was noted.                         *)
Answer(r) ==
  /\ r \in DOMAIN serving /\ serving[r].noted /\ session # "gone"
  /\ got' = [got EXCEPT ![r] = [head |-> serving[r].head, amend |-> serving[r].amend]]
  /\ serving' = [f \in DOMAIN serving \ {r} |-> serving[f]]
  /\ UNCHANGED <<now, head, amend, followers, polls, last, session, lingerTo>>

StopPolling(r) ==
  /\ polls[r]
  /\ polls' = [polls EXCEPT ![r] = FALSE]
  /\ UNCHANGED <<now, head, amend, followers, last, serving, got, session, lingerTo>>

-----------------------------------------------------------------------------
(* The end: LogRing::linger.                                               *)

Begin ==
  /\ session = "open"
  /\ session' = "lingering"
  /\ lingerTo' = now + LingerMax
  /\ UNCHANGED <<now, head, amend, followers, polls, last, serving, got>>

Behind(r) ==
  \/ followers[r].head < head
  \/ r \in Amending /\ followers[r].amend < amend

(* Faulty: a reader is waited for up to its interval, without the slack.   *)
ReadDueSharp(r) == followers[r].at + Interval[r]

(* When a read is late enough for its reader to have stopped.              *)
ReadDue(r) == followers[r].at + Interval[r] + Slack

Awaited == {r \in DOMAIN followers :
              Behind(r) /\ ReadDue(r) > now /\ ReadDue(r) <= lingerTo}

(* Checked when linger begins, at each read noted, and once the last read  *)
(* it waits for was due.                                                   *)
Return ==
  /\ session = "lingering" /\ Awaited = {}
  /\ session' = "over"
  /\ UNCHANGED <<now, head, amend, followers, polls, last, serving, got, lingerTo>>

(* The process ends; a connection still answering ends with it.            *)
Exit ==
  /\ session = "over"
  /\ session' = "gone"
  /\ UNCHANGED <<now, head, amend, followers, polls, last, serving, got, lingerTo>>

(* A reader that polls is never a whole slack late, and its poll is noted  *)
(* within the tick; linger returns within the tick it may.                 *)
Tick ==
  /\ IF session = "lingering" THEN Awaited # {} ELSE session = "open" /\ now < Horizon
  /\ \A r \in Readers : polls[r] /\ last[r] # 0 => now + 1 < Due(r) + Slack
  /\ \A r \in DOMAIN serving : serving[r].noted
  /\ now' = now + 1
  /\ UNCHANGED <<head, amend, followers, polls, last, serving, got, session, lingerTo>>

Next ==
  \/ Change \/ Begin \/ Return \/ Exit \/ Tick
  \/ \E r \in Readers : Poll(r) \/ Followed(r) \/ Answer(r) \/ StopPolling(r)

Spec == Init /\ [][Next]_vars

-----------------------------------------------------------------------------
(* Properties.                                                             *)

TypeOK ==
  /\ {now, head, amend, lingerTo} \subseteq Nat
  /\ DOMAIN followers \subseteq Readers /\ Cardinality(DOMAIN followers) <= FollowersMax
  /\ polls \in [Readers -> BOOLEAN] /\ last \in [Readers -> Nat]
  /\ DOMAIN serving \subseteq Readers
  /\ got \in [Readers -> [head : Nat, amend : Nat]]
  /\ session \in {"open", "lingering", "over", "gone"}

(* A reader the session has to wait for: its last read was noted, it still *)
(* polls, and its next read falls within the longest wait.                 *)
Owed(r) == polls[r] /\ r \in DOMAIN followers /\ ReadDue(r) <= lingerTo

UpToDate(r, seen) == seen.head = head /\ (r \in Amending => seen.amend = amend)

(* When linger returns, every reader that still polls has had a read noted *)
(* since the last change, though readers stop, differ in pace and share a  *)
(* bounded table.                                                          *)
LastReadNoted ==
  [][session = "lingering" /\ session' = "over" =>
       \A r \in Readers : Owed(r) => UpToDate(r, followers[r])]_vars

-----------------------------------------------------------------------------
(* The inductive invariant.                                                *)

Kinds ==
  /\ TypeOK /\ IsFiniteSet(DOMAIN followers)
  /\ \A r \in DOMAIN followers : followers[r] \in [at : Nat, head : Nat, amend : Nat]
  /\ \A r \in DOMAIN serving : serving[r] \in [head : Nat, amend : Nat, noted : BOOLEAN]

(* Nobody was told of what has not happened.                               *)
ToldOfThePast ==
  /\ \A r \in Readers : last[r] <= now
  /\ \A r \in DOMAIN serving : serving[r].head <= head /\ serving[r].amend <= amend
  /\ \A r \in DOMAIN followers : followers[r].head <= head /\ followers[r].amend <= amend

(* A reader is in the table as of its last poll, unless that one is still  *)
(* to be noted.                                                            *)
NotedAtItsPoll ==
  /\ now # 0
  /\ \A r \in DOMAIN serving \cup DOMAIN followers : last[r] # 0
  /\ \A r \in DOMAIN followers :
       last[r] <= followers[r].at \/ (r \in DOMAIN serving /\ ~serving[r].noted)

(* A reader that still polls is not yet given up.                          *)
NotGivenUp ==
  \A r \in DOMAIN followers : polls[r] => now < ReadDue(r)

Inv == Kinds /\ ToldOfThePast /\ NotedAtItsPoll /\ NotGivenUp
=============================================================================
