---------------------------- MODULE UpstreamJudge ---------------------------
(***************************************************************************)
(* The supervisor's judge (src/sandbox/proxy/link/judge.rs): the proxy     *)
(* decides a request against its own policy, and has the supervisor check  *)
(* it and then connect it, each judged again against the supervisor's own  *)
(* copies; with the path a question takes through the link                 *)
(* (src/sandbox/proxy/link.rs, serve_question, write_answers, answer_park) *)
(* and the proxy's side of it (src/sandbox/proxy/mod.rs, decide_https,     *)
(* connect_upstream).                                                      *)
(*                                                                         *)
(* The rules the judge and the proxy hold only grow, and the proxy's are   *)
(* among the judge's: what module SessionRules shows of them is assumed    *)
(* here.  A proxy that is not Honest asks any question at any time.        *)
(***************************************************************************)
EXTENDS Naturals, FiniteSetsExt, SequencesExt

CONSTANTS
  Requests,        \* the proxy's requests; each is its check's id too
  Dests,           \* what a request asks for: host, port, path and method
  Endpoint,        \* the host and port of a destination
  Policy,          \* what the launch's policy says of a destination
  Loadable,        \* the `--session` rules an operator may load
  Cap,             \* the questions answered, and the checks kept, at once
  GrantCap,        \* the operator's allows waiting at once (ASK_PENDING_CAP)
  Honest,          \* whether the proxy is
  MayLapse,        \* whether GRANT_TTL passes
  ThreadsMayFail   \* whether the host may refuse a thread

Endpoints == {Endpoint[d] : d \in Dests}
Verdicts == {"Allow", "Deny"}

ASSUME CapsAssumption == Cap \in Nat \ {0} /\ GrantCap \in Nat \ {0}
ASSUME RequestsAssumption == IsFiniteSet(Requests)
ASSUME PolicyAssumption == Policy \in [Dests -> {"allow", "deny", "ask", "default"}]
ASSUME LoadableAssumption == Loadable \subseteq [verdict : Verdicts, at : Endpoints]
ASSUME FlagsAssumption == {Honest, MayLapse, ThreadsMayFail} \subseteq BOOLEAN

VARIABLES
  judged,   \* Judge::overlay: the rules the judge decides with
  inForce,  \* ProxySide::overlay: the rules the proxy decides with
  grants,   \* the operator's allows no check has taken, oldest first
  kept,     \* what recent checks found, oldest first
  serving,  \* the questions counted against the cap
  asks,     \* what each request asks for
  stage,    \* where each request is
  refusal,  \* why a request was refused, as last answered
  quest,    \* the question each request last asked
  qpc,      \* where the thread answering it is
  given,    \* how many requests to each endpoint an operator allowed
  used      \* how many checks took such an allow

overlayVars  == <<judged, inForce>>
requestVars  == <<asks, stage, refusal>>
questionVars == <<serving, quest, qpc>>
historyVars  == <<given, used>>
vars == <<overlayVars, grants, kept, requestVars, questionVars, historyVars>>

Stages == {"new", "parked", "noted", "cleared", "checked", "connected",
           "asking", "refused"}
QPCs == {"none", "decide", "take", "resolve", "keep", "lookup", "rule", "dial",
         "handed", "freed"}

Checks == [id : Requests, at : Endpoints, granted : BOOLEAN]

NoQuestion ==
  [kind |-> "none", id |-> 0, for |-> 0, found |-> FALSE, granted |-> FALSE,
   since |-> {}, answer |-> "none"]

Init ==
  /\ judged = {}
  /\ inForce = {}
  /\ grants = << >>
  /\ kept = << >>
  /\ serving = 0
  /\ asks \in [Requests -> Dests]
  /\ stage = [r \in Requests |-> "new"]
  /\ refusal = [r \in Requests |-> "none"]
  /\ quest = [r \in Requests |-> NoQuestion]
  /\ qpc = [r \in Requests |-> "none"]
  /\ given = [e \in Endpoints |-> 0]
  /\ used = [e \in Endpoints |-> 0]

-----------------------------------------------------------------------------
(* The decision both ends make: EgressPolicy::explain over the policy with *)
(* the overlay folded in (ctx.rs, folded).  A deny rule wins over an allow *)
(* rule, and either over the default action: ask, or "default", a refusal. *)

Says(rules, v, d) == [verdict |-> v, at |-> Endpoint[d]] \in rules

Denied(rules, d) == Policy[d] = "deny" \/ Says(rules, "Deny", d)
Allowed(rules, d) == Policy[d] = "allow" \/ Says(rules, "Allow", d)

Decision(rules, d) ==
  IF Denied(rules, d) THEN "deny"
  ELSE IF Allowed(rules, d) THEN "allow"
  ELSE IF Policy[d] = "ask" THEN "ask" ELSE "deny"

-----------------------------------------------------------------------------
(* The overlays.                                                           *)

(* Judge::sent, before the overlay goes out to the proxy.                  *)
Sent(rule) ==
  /\ rule \in Loadable \ judged
  /\ judged' = judged \cup {rule}
  /\ UNCHANGED <<inForce, grants, kept, requestVars, questionVars, historyVars>>

(* The proxy installs an overlay it was sent, some time later.             *)
Install(rules) ==
  /\ Honest
  /\ inForce \subseteq rules /\ rules \subseteq judged /\ rules # inForce
  /\ inForce' = rules
  /\ UNCHANGED <<judged, grants, kept, requestVars, questionVars, historyVars>>

-----------------------------------------------------------------------------
(* The request at the proxy: decide_https.                                 *)

Move(r, to) == stage' = [stage EXCEPT ![r] = to]

Clear(r) ==
  /\ Honest /\ stage[r] = "new"
  /\ Decision(inForce, asks[r]) = "allow"
  /\ Move(r, "cleared")
  /\ UNCHANGED <<overlayVars, grants, kept, asks, refusal, questionVars, historyVars>>

(* An undecided request is refused too where its transport may not wait    *)
(* (HTTP/2).                                                               *)
Refuse(r) ==
  /\ Honest /\ stage[r] = "new"
  /\ Decision(inForce, asks[r]) # "allow"
  /\ Move(r, "refused")
  /\ refusal' = [refusal EXCEPT ![r] = "policy"]
  /\ UNCHANGED <<overlayVars, grants, kept, asks, questionVars, historyVars>>

Park(r) ==
  /\ stage[r] = "new"
  /\ Honest => Decision(inForce, asks[r]) = "ask"
  /\ Move(r, "parked")
  /\ UNCHANGED <<overlayVars, grants, kept, asks, refusal, questionVars, historyVars>>

(* answer_park: an allow is noted for the judge before it is answered.     *)
AnswerDeny(r) ==
  /\ stage[r] = "parked"
  /\ Move(r, "refused")
  /\ refusal' = [refusal EXCEPT ![r] = "asked"]
  /\ UNCHANGED <<overlayVars, grants, kept, asks, questionVars, historyVars>>

(* Judge::grant lets go of the oldest past the cap.                        *)
NoteGrant(r) ==
  LET waiting == IF Len(grants) >= GrantCap THEN Tail(grants) ELSE grants
  IN  /\ stage[r] = "parked"
      /\ grants' = Append(waiting, Endpoint[asks[r]])
      /\ given' = [given EXCEPT ![Endpoint[asks[r]]] = @ + 1]
      /\ Move(r, "noted")
      /\ UNCHANGED <<overlayVars, kept, asks, refusal, questionVars, used>>

AnswerAllow(r) ==
  /\ stage[r] = "noted"
  /\ Move(r, "cleared")
  /\ UNCHANGED <<overlayVars, grants, kept, asks, refusal, questionVars, historyVars>>

-----------------------------------------------------------------------------
(* A question, from the reader that takes it in to the answer that is      *)
(* written: serve_question, on a thread of its own.                        *)

Free(r) == stage[r] \in {"new", "cleared", "checked", "connected", "refused"}

MayAsk(r, kind) ==
  IF Honest THEN stage[r] = (IF kind = "check" THEN "cleared" ELSE "checked")
  ELSE Free(r)

(* `id` is the id of a check, or the check a connection names; `for` is    *)
(* what the question is about.                                             *)
Question(r, kind, id, d) ==
  [kind |-> kind, id |-> id, for |-> d, found |-> FALSE, granted |-> FALSE,
   since |-> judged, answer |-> "none"]

(* Faulty: the cap is compared one too late.                               *)
AskOverCap(r, kind, id, d) ==
  /\ MayAsk(r, kind)
  /\ Honest => id = r /\ d = asks[r]
  /\ serving <= Cap
  /\ serving' = serving + 1
  /\ quest' = [quest EXCEPT ![r] = Question(r, kind, id, d)]
  /\ qpc' = [qpc EXCEPT ![r] = IF kind = "check" THEN "decide" ELSE "lookup"]
  /\ Move(r, "asking")
  /\ refusal' = [refusal EXCEPT ![r] = "none"]
  /\ UNCHANGED <<overlayVars, grants, kept, asks, historyVars>>

(* Judge::enter.                                                           *)
Ask(r, kind, id, d) ==
  /\ MayAsk(r, kind)
  /\ Honest => id = r /\ d = asks[r]
  /\ serving < Cap
  /\ serving' = serving + 1
  /\ quest' = [quest EXCEPT ![r] = Question(r, kind, id, d)]
  /\ qpc' = [qpc EXCEPT ![r] = IF kind = "check" THEN "decide" ELSE "lookup"]
  /\ Move(r, "asking")
  /\ refusal' = [refusal EXCEPT ![r] = "none"]
  /\ UNCHANGED <<overlayVars, grants, kept, asks, historyVars>>

AskBusy(r, kind) ==
  /\ MayAsk(r, kind)
  /\ serving >= Cap
  /\ Move(r, "refused")
  /\ refusal' = [refusal EXCEPT ![r] = "Busy"]
  /\ UNCHANGED <<overlayVars, grants, kept, asks, questionVars, historyVars>>

(* The thread cannot be started: its place goes with it.                   *)
NoThread(r) ==
  /\ ThreadsMayFail
  /\ qpc[r] \in {"decide", "lookup"}
  /\ serving' = serving - 1
  /\ qpc' = [qpc EXCEPT ![r] = "none"]
  /\ Move(r, "refused")
  /\ refusal' = [refusal EXCEPT ![r] = "Busy"]
  /\ UNCHANGED <<overlayVars, grants, kept, asks, quest, historyVars>>

Continue(r, next) == qpc' = [qpc EXCEPT ![r] = next]

(* The answer, handed to the answer thread with the question's place.      *)
Hand(r, answer) ==
  /\ Continue(r, "handed")
  /\ quest' = [quest EXCEPT ![r].answer = answer]

-----------------------------------------------------------------------------
(* Judge::check.                                                           *)

CheckDecide(r) ==
  LET decision == Decision(judged, quest[r].for)
  IN  /\ qpc[r] = "decide"
      /\ \/ decision = "allow" /\ Continue(r, "resolve") /\ UNCHANGED quest
         \/ decision = "ask" /\ Continue(r, "take") /\ UNCHANGED quest
         \/ decision = "deny" /\ Hand(r, "Supervisor")
      /\ UNCHANGED <<overlayVars, grants, kept, serving, requestVars, historyVars>>

Waiting(e) == {i \in DOMAIN grants : grants[i] = e}

(* Faulty: an allow is looked at and left where it is.                     *)
CheckTakeLeaving(r) ==
  LET e == Endpoint[quest[r].for]
  IN  /\ qpc[r] = "take"
      /\ Waiting(e) # {}
      /\ quest' = [quest EXCEPT ![r].granted = TRUE]
      /\ used' = [used EXCEPT ![e] = @ + 1]
      /\ Continue(r, "resolve")
      /\ UNCHANGED <<overlayVars, grants, kept, serving, requestVars, given>>

(* Judge::take_grant, for a request the policy leaves to an operator.      *)
CheckTake(r) ==
  LET e == Endpoint[quest[r].for]
  IN  /\ qpc[r] = "take"
      /\ Waiting(e) # {}
      /\ grants' = RemoveAt(grants, Min(Waiting(e)))
      /\ quest' = [quest EXCEPT ![r].granted = TRUE]
      /\ used' = [used EXCEPT ![e] = @ + 1]
      /\ Continue(r, "resolve")
      /\ UNCHANGED <<overlayVars, kept, serving, requestVars, given>>

CheckUngranted(r) ==
  /\ qpc[r] = "take"
  /\ Waiting(Endpoint[quest[r].for]) = {}
  /\ Hand(r, "Supervisor")
  /\ UNCHANGED <<overlayVars, grants, kept, serving, requestVars, historyVars>>

(* The name resolves to addresses the guard permits.                       *)
Resolve(r) ==
  /\ qpc[r] = "resolve"
  /\ Continue(r, IF quest[r].kind = "check" THEN "keep" ELSE "dial")
  /\ UNCHANGED <<overlayVars, grants, kept, serving, quest, requestVars, historyVars>>

(* Faulty: a resolver that panics takes the answer with it.                *)
ResolvePanics(r) ==
  /\ qpc[r] = "resolve"
  /\ serving' = serving - 1
  /\ Continue(r, "none")
  /\ UNCHANGED <<overlayVars, grants, kept, quest, requestVars, historyVars>>

(* It does not, or the guard refuses one, or the resolver panics.          *)
ResolveFails(r) ==
  /\ qpc[r] = "resolve"
  /\ Hand(r, "Upstream")
  /\ UNCHANGED <<overlayVars, grants, kept, serving, requestVars, historyVars>>

Ungranted == {i \in DOMAIN kept : ~kept[i].granted}

Found(r) == [id |-> quest[r].id, at |-> Endpoint[quest[r].for], granted |-> quest[r].granted]

(* Faulty: the oldest check is let go, whether or not it holds an allow.   *)
CheckKeepEvictingAny(r) ==
  LET room == IF Len(kept) >= Cap THEN Tail(kept) ELSE kept
  IN  /\ qpc[r] = "keep"
      /\ kept' = Append(room, Found(r))
      /\ Hand(r, "Checked")
      /\ UNCHANGED <<overlayVars, grants, serving, requestVars, historyVars>>

(* Faulty: room is made one record too late.                               *)
CheckKeepOneOver(r) ==
  LET room == IF Len(kept) > Cap /\ Ungranted # {}
              THEN RemoveAt(kept, Min(Ungranted)) ELSE kept
  IN  /\ qpc[r] = "keep"
      /\ kept' = Append(room, Found(r))
      /\ Hand(r, "Checked")
      /\ UNCHANGED <<overlayVars, grants, serving, requestVars, historyVars>>

(* The oldest check that holds no allow makes room.                        *)
CheckKeep(r) ==
  LET room == IF Len(kept) >= Cap /\ Ungranted # {}
              THEN RemoveAt(kept, Min(Ungranted)) ELSE kept
  IN  /\ qpc[r] = "keep"
      /\ kept' = Append(room, Found(r))
      /\ Hand(r, "Checked")
      /\ UNCHANGED <<overlayVars, grants, serving, requestVars, historyVars>>

-----------------------------------------------------------------------------
(* Judge::connect.                                                         *)

(* The checks the connection may be naming: `find` takes the oldest.       *)
Named(r) == {i \in DOMAIN kept : /\ kept[i].id = quest[r].id
                                 /\ kept[i].at = Endpoint[quest[r].for]}

ConnectLookup(r) ==
  /\ qpc[r] = "lookup"
  /\ quest' = [quest EXCEPT ![r].found = Named(r) # {},
                            ![r].granted = Named(r) # {} /\ kept[Min(Named(r))].granted]
  /\ Continue(r, "rule")
  /\ UNCHANGED <<overlayVars, grants, kept, serving, requestVars, historyVars>>

(* Faulty: a connection that names a check is not judged again.            *)
ConnectUnjudged(r) ==
  /\ qpc[r] = "rule"
  /\ Continue(r, "dial")
  /\ UNCHANGED <<overlayVars, grants, kept, serving, quest, requestVars, historyVars>>

(* Judged again; what the check did not keep is resolved again.            *)
ConnectDecide(r) ==
  LET decision == Decision(judged, quest[r].for)
      may == decision = "allow" \/ (decision = "ask" /\ quest[r].granted)
  IN  /\ qpc[r] = "rule"
      /\ \/ may /\ Continue(r, IF quest[r].found THEN "dial" ELSE "resolve")
             /\ UNCHANGED quest
         \/ ~may /\ Hand(r, "Supervisor")
      /\ UNCHANGED <<overlayVars, grants, kept, serving, requestVars, historyVars>>

(* The guard and the dial: some address answers, or none does.             *)
Dial(r) ==
  /\ qpc[r] = "dial"
  /\ \E answer \in {"Connected", "Upstream"} : Hand(r, answer)
  /\ UNCHANGED <<overlayVars, grants, kept, serving, requestVars, historyVars>>

-----------------------------------------------------------------------------
(* The answer thread: write_answers.                                       *)

(* Faulty: the place is not given back.                                    *)
GiveBackNot(r) ==
  /\ qpc[r] = "handed"
  /\ Continue(r, "freed")
  /\ UNCHANGED <<overlayVars, grants, kept, serving, quest, requestVars, historyVars>>

(* The place first: the proxy may ask again as soon as it is answered.     *)
GiveBack(r) ==
  /\ qpc[r] = "handed"
  /\ serving' = serving - 1
  /\ Continue(r, "freed")
  /\ UNCHANGED <<overlayVars, grants, kept, quest, requestVars, historyVars>>

Answered == [Checked |-> "checked", Connected |-> "connected",
             Supervisor |-> "refused", Upstream |-> "refused"]

Write(r) ==
  /\ qpc[r] = "freed"
  /\ Continue(r, "none")
  /\ Move(r, Answered[quest[r].answer])
  /\ refusal' = [refusal EXCEPT ![r] = IF quest[r].answer \in {"Supervisor", "Upstream"}
                                       THEN quest[r].answer ELSE @]
  /\ quest' = [quest EXCEPT ![r] = NoQuestion]
  /\ UNCHANGED <<overlayVars, grants, kept, asks, serving, historyVars>>

(* connect_upstream: the handshake failed, and there is another address.   *)
HandshakeFails(r) ==
  /\ Honest
  /\ stage[r] = "connected"
  /\ Move(r, "checked")
  /\ UNCHANGED <<overlayVars, grants, kept, asks, refusal, questionVars, historyVars>>

-----------------------------------------------------------------------------
(* GRANT_TTL: what has lapsed is skipped by every reader of the two lists, *)
(* and both are in the order their entries were made.                      *)

GrantLapses ==
  /\ MayLapse /\ grants # << >>
  /\ grants' = Tail(grants)
  /\ UNCHANGED <<overlayVars, kept, requestVars, questionVars, historyVars>>

CheckLapses ==
  /\ MayLapse /\ kept # << >>
  /\ kept' = Tail(kept)
  /\ UNCHANGED <<overlayVars, grants, requestVars, questionVars, historyVars>>

-----------------------------------------------------------------------------
ProxyStep(r) ==
  \/ Clear(r) \/ Refuse(r) \/ Park(r) \/ HandshakeFails(r)
  \/ \E kind \in {"check", "connect"} :
       \/ AskBusy(r, kind)
       \/ \E id \in Requests, d \in Dests : Ask(r, kind, id, d)

OperatorStep(r) == AnswerDeny(r) \/ NoteGrant(r)

JudgeStep(r) ==
  \/ NoThread(r) \/ CheckDecide(r) \/ CheckTake(r) \/ CheckUngranted(r)
  \/ Resolve(r) \/ ResolveFails(r) \/ CheckKeep(r)
  \/ ConnectLookup(r) \/ ConnectDecide(r) \/ Dial(r)
  \/ GiveBack(r) \/ Write(r)

OverlayStep ==
  \/ \E rule \in Loadable : Sent(rule)
  \/ \E rules \in SUBSET judged : Install(rules)

Finished ==
  /\ \A r \in Requests : stage[r] \in {"parked", "connected", "refused"}
  /\ UNCHANGED vars

Next ==
  \/ \E r \in Requests :
       ProxyStep(r) \/ OperatorStep(r) \/ AnswerAllow(r) \/ JudgeStep(r)
  \/ OverlayStep \/ GrantLapses \/ CheckLapses
  \/ Finished

Spec == Init /\ [][Next]_vars

(* The threads of the supervisor run, a lookup and a dial being bounded.   *)
Fairness == \A r \in Requests : WF_vars(JudgeStep(r))

-----------------------------------------------------------------------------
(* Properties.                                                             *)

(* Every variable has its type.                                            *)
TypeOK ==
  /\ judged \in SUBSET Loadable /\ inForce \in SUBSET Loadable
  /\ grants \in Seq(Endpoints)
  /\ kept \in Seq(Checks)
  /\ serving \in 0 .. Cap
  /\ asks \in [Requests -> Dests]
  /\ stage \in [Requests -> Stages]
  /\ refusal \in [Requests -> {"none", "policy", "asked", "Busy", "Supervisor", "Upstream"}]
  /\ qpc \in [Requests -> QPCs]
  /\ given \in [Endpoints -> Nat]
  /\ used \in [Endpoints -> Nat]

(* A question answered with a connection, until the answer is written.     *)
GotConnection(r) == quest[r].kind = "connect" /\ quest[r].answer = "Connected"

(* Whatever the proxy asks, a connection is to a destination no rule the   *)
(* judge held when the question came in denies, and one a rule allows or,  *)
(* where the policy leaves it to an operator, one whose host and port an   *)
(* operator allowed a request to.                                          *)
ConnectedIsPermitted ==
  \A r \in Requests : GotConnection(r) =>
    LET d == quest[r].for
    IN  /\ ~Denied(quest[r].since, d)
        /\ \/ Allowed(judged, d)
           \/ Policy[d] = "ask" /\ given[Endpoint[d]] > 0

(* An allow is one check's: no more checks than an operator allowed        *)
(* requests go through on one, the ones still waiting to be taken          *)
(* counted.                                                                *)
GrantsConserved ==
  \A e \in Endpoints : used[e] + Cardinality(Waiting(e)) <= given[e]

(* What is kept for a proxy that only ever asks is bounded: past the cap   *)
(* only checks that hold an operator's allow are kept.                     *)
KeptBounded == Cardinality(Ungranted) <= Cap

(* An honest proxy hears the verdict it reached itself: a request it       *)
(* cleared, an operator's one-shot allow included, is refused by the       *)
(* judge only over a deny that was loaded meanwhile.  As long as nothing   *)
(* lapses and GrantCap allows can wait.                                    *)
VerdictHeld ==
  (Honest /\ ~MayLapse /\ Cardinality(Requests) <= GrantCap) =>
    \A r \in Requests : refusal[r] = "Supervisor" => Decision(judged, asks[r]) = "deny"

(* A proxy that asks at most Cap questions at a time is never refused as   *)
(* too busy, however fast it asks again after an answer.                   *)
NeverBusy ==
  (Honest /\ ~ThreadsMayFail /\ Cardinality(Requests) <= Cap) =>
    \A r \in Requests : refusal[r] # "Busy"

(* Every question is answered.                                             *)
QuestionsAnswered == \A r \in Requests : stage[r] = "asking" ~> stage[r] # "asking"

-----------------------------------------------------------------------------
(* The inductive invariant.                                                *)

Kinds == {"check", "connect"}
Answers == {"none", "Checked", "Connected", "Supervisor", "Upstream"}

Questions ==
  [kind : Kinds, id : Requests, for : Dests, found : BOOLEAN, granted : BOOLEAN,
   since : SUBSET Loadable, answer : Answers]

(* A thread answers the question of a request that waits for the answer.   *)
InOrder(r) ==
  /\ IF quest[r].kind = "none" THEN quest[r] = NoQuestion ELSE quest[r] \in Questions
  /\ stage[r] = "asking" <=> qpc[r] # "none"
  /\ qpc[r] # "none" => quest[r].kind # "none"
  /\ qpc[r] \in {"decide", "take", "keep"} => quest[r].kind = "check"
  /\ qpc[r] \in {"lookup", "rule", "dial"} => quest[r].kind = "connect"
  /\ quest[r].answer # "none" <=> qpc[r] \in {"handed", "freed"}
  /\ quest[r].answer = "Connected" => quest[r].kind = "connect"
  /\ quest[r].answer = "Checked" => quest[r].kind = "check"

AskedInOrder == quest = [r \in Requests |-> quest[r]] /\ \A r \in Requests : InOrder(r)

(* The judge's rules hold those of the proxy, and those it held before.    *)
RulesGrow == inForce \subseteq judged /\ \A r \in Requests : quest[r].since \subseteq judged

(* An allow comes from an operator, wherever it is.                        *)
AllowsAreGiven ==
  /\ \A i \in DOMAIN grants : given[grants[i]] > 0
  /\ \A i \in DOMAIN kept : kept[i].granted => given[kept[i].at] > 0
  /\ \A r \in Requests : quest[r].granted => given[Endpoint[quest[r].for]] > 0

Permitted(r) ==
  LET d == quest[r].for
  IN  /\ ~Denied(quest[r].since, d)
      /\ \/ Allowed(judged, d)
         \/ Policy[d] = "ask" /\ given[Endpoint[d]] > 0

(* What Judge::connect goes on with is permitted.                          *)
JudgedAgain ==
  \A r \in Requests :
    /\ quest[r].kind = "connect"
    /\ qpc[r] \in {"resolve", "dial"} \/ quest[r].answer = "Connected"
    => Permitted(r)

Served == {r \in Requests : qpc[r] \notin {"none", "freed"}}

(* A question has its place until it is given back.                        *)
PlacesCounted == serving = Cardinality(Served)

Inv ==
  /\ TypeOK /\ AskedInOrder /\ RulesGrow /\ AllowsAreGiven /\ JudgedAgain
  /\ PlacesCounted /\ GrantsConserved /\ KeptBounded

-----------------------------------------------------------------------------
(* What holds besides of a proxy that is honest, while nothing lapses and  *)
(* an allow is never let go for another.                                   *)

Patient == Honest /\ ~MayLapse /\ Cardinality(Requests) <= GrantCap

(* A question is about what its request asks for, and so is a check.       *)
AsksItsOwn ==
  /\ \A r \in Requests :
       quest[r].kind # "none" => quest[r].id = r /\ quest[r].for = asks[r]
  /\ \A i \in DOMAIN kept : kept[i].at = Endpoint[asks[kept[i].id]]

(* The proxy goes on only with what a rule allows or the policy leaves to  *)
(* the operator.                                                           *)
GoesOnRightly ==
  \A r \in Requests : stage[r] \notin {"new", "refused"} =>
    Policy[asks[r]] = "ask" \/ Allowed(judged, asks[r])

(* The requests whose check needs an operator's allow that waits for it.   *)
Owed(e) ==
  {r \in Requests : /\ Endpoint[asks[r]] = e
                    /\ \/ stage[r] = "noted" \/ qpc[r] = "take"
                       \/ /\ stage[r] = "cleared" \/ qpc[r] = "decide"
                          /\ ~Allowed(judged, asks[r])}

Begun == {r \in Requests : stage[r] \notin {"new", "parked"}}

(* There is one for each, and none was let go.                             *)
OwedIsWaiting ==
  /\ \A e \in Endpoints : Cardinality(Owed(e)) <= Cardinality(Waiting(e))
  /\ Len(grants) <= Cardinality(Begun)

(* A request that no rule allows is checked under an allow, the check is   *)
(* kept, and a connection finds it.                                        *)
AllowIsCarried ==
  /\ \A r \in Requests :
       (quest[r].kind = "check" /\ qpc[r] \in {"resolve", "keep"}) \/ qpc[r] = "rule"
       => quest[r].granted \/ Allowed(judged, asks[r])
  /\ \A i \in DOMAIN kept : kept[i].granted \/ Allowed(judged, asks[kept[i].id])
  /\ \A r \in Requests :
       \/ stage[r] \in {"checked", "connected"} \/ quest[r].answer = "Checked"
       \/ stage[r] = "asking" /\ quest[r].kind = "connect"
       => Allowed(judged, asks[r]) \/ \E i \in DOMAIN kept : kept[i].id = r

(* The judge refuses what is denied.                                       *)
RefusedIsDenied ==
  \A r \in Requests :
    refusal[r] = "Supervisor" \/ quest[r].answer = "Supervisor" => Denied(judged, asks[r])

HonestInv ==
  AsksItsOwn /\ GoesOnRightly /\ OwedIsWaiting /\ AllowIsCarried /\ RefusedIsDenied
=============================================================================
