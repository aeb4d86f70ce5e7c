----------------------------- MODULE CredRefresh ----------------------------
(***************************************************************************)
(* Re-resolving the injected credentials when an upstream refuses the one  *)
(* it was given: the bounds the supervisor holds                           *)
(* (src/sandbox/proxy/inject.rs, CredentialRefresh), the thread that runs  *)
(* the re-resolutions (src/sandbox/proxy/link.rs, serve_refresh,           *)
(* run_refreshes), and the proxy's requests that ask for one and install   *)
(* the set they are handed (src/sandbox/proxy/ctx.rs, credential_refused). *)
(*                                                                         *)
(* A credential set is one model value: its injections and its needles are *)
(* replaced together.                                                      *)
(***************************************************************************)
EXTENDS Naturals, Sequences, FiniteSets

CONSTANTS
  Requests,  \* the requests that meet a `401`, each asking once
  Sets,      \* the credential sets the sources may resolve to
  First,     \* the set the launch started with
  Garbled,   \* the sets that do not survive being encoded and decoded
  TooMany,   \* the sets that are encoded and cannot be sent: they name more
             \* plugins than one message hands over
  NoSet      \* no set: an answer that hands over nothing

SetsAssumption ==
  /\ First \in Sets /\ NoSet \notin Sets
  /\ Garbled \subseteq Sets \ {First} /\ TooMany \subseteq Sets \ {First}

VARIABLES
  prompt,     \* whether a set is installed within the gap after it was resolved
  stopped,    \* RefreshState: given up for good
  running,    \* RefreshState: a re-resolution is under way
  recent,     \* RefreshState: the last attempt is within the gap
  threaded,   \* whether the refresh thread could be started
  jobs,       \* the admitted refreshes handed to it
  step,       \* where the refresh thread is
  job,        \* the refresh it is at
  resolved,   \* what its re-resolution returned
  super,      \* the supervisor's copy
  proxy,      \* the proxy's copy
  published,  \* the sets the notifier masks
  up,         \* the questions on their way to the supervisor
  down,       \* the answers on their way to the proxy
  shut,       \* the link has ended
  pc,         \* where each request is
  handed,     \* the set each request was handed
  runs,       \* how many re-resolutions began
  excused     \* how many of them changed the supervisor's copy, or panicked

boundVars  == <<stopped, running, recent>>
threadVars == <<threaded, jobs, step, job, resolved>>
copyVars   == <<super, proxy, published>>
linkVars   == <<up, down, shut>>
askVars    == <<pc, handed>>
countVars  == <<runs, excused>>
vars == <<prompt, boundVars, threadVars, copyVars, linkVars, askVars, countVars>>

Init ==
  /\ prompt \in BOOLEAN
  /\ stopped = FALSE /\ running = FALSE /\ recent = FALSE
  /\ threaded \in BOOLEAN
  /\ jobs = << >> /\ step = "idle" /\ job = NoSet /\ resolved = NoSet
  /\ super = First /\ proxy = First /\ published = {First}
  /\ up = << >> /\ down = << >> /\ shut = FALSE
  /\ pc = [r \in Requests |-> "ready"]
  /\ handed = [r \in Requests |-> NoSet]
  /\ runs = 0 /\ excused = 0

-----------------------------------------------------------------------------
(* A request at the proxy: note_final_status and credential_refused.       *)

Goto(r, to) == pc' = [pc EXCEPT ![r] = to]

(* A `401` to a request that carried a refreshable credential.             *)
Ask(r) ==
  /\ pc[r] = "ready"
  /\ IF shut THEN Goto(r, "done") /\ UNCHANGED up
             ELSE Goto(r, "asked") /\ up' = Append(up, r)
  /\ UNCHANGED <<prompt, boundVars, threadVars, copyVars, down, shut, handed, countVars>>

(* The proxy's reader hands the answer over.                               *)
Hear ==
  /\ down # << >>
  /\ down' = Tail(down)
  /\ LET r == Head(down).for IN
       /\ Goto(r, IF Head(down).set = NoSet THEN "done" ELSE "heard")
       /\ handed' = [handed EXCEPT ![r] = Head(down).set]
  /\ UNCHANGED <<prompt, boundVars, threadVars, copyVars, up, shut, countVars>>

(* The reader has ended and let the waiting go.                            *)
LetGo(r) ==
  /\ shut /\ down = << >> /\ pc[r] = "asked"
  /\ Goto(r, "done")
  /\ UNCHANGED <<prompt, boundVars, threadVars, copyVars, linkVars, handed, countVars>>

(* decode_over and replace; a set that does not decode is dropped.         *)
InstallHanded(r) ==
  /\ pc[r] = "heard"
  /\ proxy' = IF handed[r] \in Garbled THEN proxy ELSE handed[r]
  /\ Goto(r, "done")
  /\ UNCHANGED <<prompt, boundVars, threadVars, super, published, linkVars, handed, countVars>>

-----------------------------------------------------------------------------
(* The supervisor's reader: serve_refresh.                                 *)

(* An answer is lost where the link has ended; a set that names more       *)
(* plugins than a message hands over is answered by nothing instead.       *)
Answered(r, set) ==
  down' = IF shut THEN down
          ELSE Append(down, [for |-> r, set |-> IF set \in TooMany THEN NoSet ELSE set])

(* Faulty: a re-resolution under way does not refuse another.              *)
RefusesUnlessRunning == stopped \/ recent

(* CredentialRefresh::start refuses.                                       *)
Refuses == stopped \/ running \/ recent

Decline ==
  /\ up # << >> /\ Refuses
  /\ up' = Tail(up)
  /\ Answered(Head(up), NoSet)
  /\ UNCHANGED <<prompt, boundVars, threadVars, copyVars, shut, askVars, countVars>>

(* Admitted, and with nothing to run it its admission is dropped.          *)
AdmitUnqueued ==
  /\ up # << >> /\ ~Refuses /\ ~threaded
  /\ recent' = TRUE
  /\ up' = Tail(up)
  /\ Answered(Head(up), NoSet)
  /\ UNCHANGED <<prompt, stopped, running, threadVars, copyVars, shut, askVars, countVars>>

Admit ==
  /\ up # << >> /\ ~Refuses /\ threaded
  /\ recent' = TRUE /\ running' = TRUE
  /\ jobs' = Append(jobs, Head(up))
  /\ up' = Tail(up)
  /\ UNCHANGED <<prompt, stopped, threaded, step, job, resolved, copyVars, down, shut, askVars, countVars>>

-----------------------------------------------------------------------------
(* The refresh thread: run_refreshes and CredentialRefresh::finish.        *)

TakeJob ==
  /\ step = "idle" /\ jobs # << >>
  /\ job' = Head(jobs)
  /\ jobs' = Tail(jobs)
  /\ step' = "resolve"
  /\ runs' = runs + 1
  /\ UNCHANGED <<prompt, boundVars, threaded, resolved, copyVars, linkVars, askVars, excused>>

(* The end of finish, where its admission is dropped.                      *)
Finish(set) ==
  /\ resolved' = set
  /\ running' = FALSE
  /\ step' = "answer"

(* Faulty: the set the upstream refused is installed again.                *)
NeverUnchanging(set) == FALSE

(* same_values.                                                            *)
Unchanging(set) == set = super

(* The source fails, or resolves to what was refused: given up for good.   *)
ResolveInVain ==
  /\ step = "resolve"
  /\ stopped' = TRUE
  /\ Finish(NoSet)
  /\ UNCHANGED <<prompt, recent, threaded, jobs, job, copyVars, linkVars, askVars, countVars>>

(* Faulty: a re-resolution that panics ends the refresh thread.            *)
Uncaught == "ended"

(* Where the refresh thread is after its re-resolution panicked.           *)
Caught == "answer"

(* A panic drops the admission as it unwinds, and gives up nothing.        *)
ResolvePanics ==
  /\ step = "resolve"
  /\ excused' = excused + 1
  /\ resolved' = NoSet
  /\ running' = FALSE
  /\ step' = Caught
  /\ UNCHANGED <<prompt, stopped, recent, threaded, jobs, job, copyVars, linkVars, askVars, runs>>

ResolveAnew ==
  /\ step = "resolve"
  /\ \E set \in Sets : ~Unchanging(set) /\ resolved' = set
  /\ step' = "publish"
  /\ UNCHANGED <<prompt, boundVars, threaded, jobs, job, copyVars, linkVars, askVars, countVars>>

(* Faulty: a new set is not published to the notifier.                     *)
MasksAsBefore(set) == published

(* publish_needles adds to what is masked.                                 *)
Masks(set) == published \cup {set}

Publish ==
  /\ step = "publish"
  /\ published' = Masks(resolved)
  /\ step' = "cross"
  /\ UNCHANGED <<prompt, boundVars, threaded, jobs, job, resolved, super, proxy, linkVars, askVars, countVars>>

(* Faulty: a set is not tried on the crossing before it is installed.      *)
CrossesUntried(set) == TRUE

(* The set is tried on the crossing before it is installed.                *)
Crosses(set) == set \notin Garbled

CannotCross ==
  /\ step = "cross" /\ ~Crosses(resolved)
  /\ stopped' = TRUE
  /\ Finish(NoSet)
  /\ UNCHANGED <<prompt, recent, threaded, jobs, job, copyVars, linkVars, askVars, countVars>>

Replace ==
  /\ step = "cross" /\ Crosses(resolved)
  /\ super' = resolved
  /\ excused' = IF resolved = super THEN excused ELSE excused + 1
  /\ Finish(resolved)
  /\ UNCHANGED <<prompt, stopped, recent, threaded, jobs, job, proxy, published, linkVars, askVars, runs>>

Answer ==
  /\ step = "answer"
  /\ Answered(job, resolved)
  /\ step' = "idle"
  /\ resolved' = NoSet
  /\ UNCHANGED <<prompt, boundVars, threaded, jobs, job, copyVars, up, shut, askVars, countVars>>

-----------------------------------------------------------------------------
(* Time and the link.                                                      *)

(* A set resolved and not yet installed at the proxy.                      *)
Underway == running \/ step # "idle" \/ down # << >> \/ \E r \in Requests : pc[r] = "heard"

GapPasses ==
  /\ recent
  /\ prompt => ~Underway
  /\ recent' = FALSE
  /\ UNCHANGED <<prompt, stopped, running, threadVars, copyVars, linkVars, askVars, countVars>>

(* The supervisor's reader may read what was sent before, or not.          *)
LinkEnds ==
  /\ ~shut
  /\ shut' = TRUE
  /\ up' \in {up, << >>}
  /\ UNCHANGED <<prompt, boundVars, threadVars, copyVars, down, askVars, countVars>>

Reader == Decline \/ AdmitUnqueued \/ Admit

Thread ==
  \/ TakeJob \/ ResolveInVain \/ ResolvePanics \/ ResolveAnew
  \/ Publish \/ CannotCross \/ Replace \/ Answer

Request(r) == LetGo(r) \/ InstallHanded(r)

Next ==
  \/ \E r \in Requests : Ask(r) \/ Request(r)
  \/ Hear \/ Reader \/ Thread \/ GapPasses \/ LinkEnds

Spec == Init /\ [][Next]_vars

(* The readers and the refresh thread run on, and so does a request that   *)
(* was let go or handed a set; a re-resolution ends (its plugin is held to *)
(* a deadline).  Nothing makes a request meet a `401`, or the link end.    *)
Fairness ==
  /\ WF_vars(Hear) /\ WF_vars(Reader) /\ WF_vars(Thread)
  /\ \A r \in Requests : WF_vars(Request(r))

-----------------------------------------------------------------------------
(* Properties.                                                             *)

TypeOK ==
  /\ {prompt, stopped, running, recent, threaded, shut} \subseteq BOOLEAN
  /\ jobs \in Seq(Requests) /\ up \in Seq(Requests)
  /\ step \in {"idle", "resolve", "publish", "cross", "answer"}
  /\ job \in Requests \cup {NoSet} /\ resolved \in Sets \cup {NoSet}
  /\ super \in Sets /\ proxy \in Sets /\ published \subseteq Sets
  /\ down \in Seq([for : Requests, set : Sets \cup {NoSet}])
  /\ pc \in [Requests -> {"ready", "asked", "heard", "done"}]
  /\ handed \in [Requests -> Sets \cup {NoSet}]
  /\ runs \in Nat /\ excused \in Nat

(* An admission is held by exactly one re-resolution, queued or run, for   *)
(* as long as the state says one runs (Started and its Drop): none runs    *)
(* beside another, and no path leaves the mechanism refusing for good.     *)
AdmissionHeld ==
  (IF running THEN 1 ELSE 0)
    = Len(jobs) + (IF step \in {"resolve", "publish", "cross"} THEN 1 ELSE 0)

(* A hopeless credential does not spin: every re-resolution but the last   *)
(* changed the supervisor's copy, or panicked (the hard stops of finish).  *)
NoSpinning == runs <= excused + 1

(* No set is in use, at either end, that the notifier does not mask: it is *)
(* published before it is installed.                                       *)
InUseIsMasked == {super, proxy} \subseteq published

(* With nothing under way on a link that is up, both copies are the same,  *)
(* or the supervisor's is one that could not be sent: finish tries a set   *)
(* on its encoding and installs it, and its answer is sent after that.     *)
CopiesAgree == prompt /\ ~shut /\ ~Underway => super = proxy \/ super \in TooMany

(* What finish is said to do: a set that cannot cross is installed in      *)
(* neither copy (src/sandbox/proxy/inject.rs, lines 1325 and 1326).  It is *)
(* not what happens to a set that names too many plugins.                  *)
InstalledInBothOrNeither == prompt /\ ~shut /\ ~Underway => super = proxy

(* Every request that asked is answered or let go, however its             *)
(* re-resolution ends (catch_unwind in run_refreshes).                     *)
RefreshAnswered == \A r \in Requests : pc[r] = "asked" ~> pc[r] = "done"

-----------------------------------------------------------------------------
(* The inductive invariant.                                                *)

(* A re-resolution is under way.                                           *)
Resolving == step \in {"resolve", "publish", "cross"}

(* The questions with the reader, the thread and in the answers.           *)
Queued   == {up[i] : i \in DOMAIN up} \cup {jobs[i] : i \in DOMAIN jobs}
Worked   == IF step = "idle" THEN {} ELSE {job}
Returned == {down[i].for : i \in DOMAIN down}

(* A request's one question is in one place.                               *)
AskedOnce ==
  /\ \A i, j \in DOMAIN up : up[i] = up[j] => i = j
  /\ \A i \in DOMAIN up, j \in DOMAIN jobs : up[i] # jobs[j]
  /\ \A i, j \in DOMAIN jobs : jobs[i] = jobs[j] => i = j
  /\ \A i, j \in DOMAIN down : down[i].for = down[j].for => i = j
  /\ Queued \cap Worked = {} /\ Queued \cap Returned = {} /\ Worked \cap Returned = {}
  /\ \A r \in Queued \cup Worked \cup Returned : r \in Requests /\ pc[r] \in {"asked", "done"}

(* What is on its way to the proxy was published before, and can cross.    *)
MaskedBefore ==
  /\ step = "cross" => resolved \in published
  /\ step = "answer" => resolved \in (published \ Garbled) \cup {NoSet}
  /\ \A i \in DOMAIN down : down[i].set \in (published \ Garbled) \cup {NoSet}
  /\ \A r \in Requests : pc[r] = "heard" => handed[r] \in published \ Garbled

(* The set a re-resolution returned is one the supervisor has not.         *)
IsNew == step \in {"publish", "cross"} => resolved \in Sets \ {super}

(* The hard stops: a re-resolution is begun only while none was in vain.   *)
StopsHard ==
  /\ jobs # << >> \/ Resolving => ~stopped
  /\ ~stopped /\ ~Resolving => runs <= excused

(* A set on its way from the thread to the proxy's copy.                   *)
Carried ==
  \/ \E i \in DOMAIN down : down[i].set # NoSet
  \/ \E r \in Requests : pc[r] = "heard"

(* Where a set is installed within the gap, one is on its way at a time:   *)
(* the supervisor's, if the proxy has another.                             *)
OneAtATime ==
  prompt =>
    /\ running \/ step # "idle" \/ Carried => recent
    /\ running => step # "answer"
    /\ running \/ step = "answer" => ~Carried
    /\ step = "answer" => resolved \in {NoSet, super}
    /\ \A i \in DOMAIN down : down[i].set \in {NoSet, super}
    /\ \A r \in Requests : pc[r] = "heard" => handed[r] = super
    /\ ~shut /\ super \notin TooMany \cup {proxy} =>
         Carried \/ (step = "answer" /\ resolved = super)

Inv ==
  /\ TypeOK /\ AskedOnce /\ MaskedBefore /\ IsNew /\ StopsHard /\ OneAtATime
  /\ AdmissionHeld /\ NoSpinning /\ InUseIsMasked

-----------------------------------------------------------------------------
(* What becomes of a request that asked.                                   *)

(* On a link that is up its question is with the reader, the thread or in  *)
(* an answer: each of them passes it on (serve_refresh, run_refreshes).    *)
AskedIsKept ==
  \A r \in Requests : pc[r] = "asked" => shut \/ r \in Queued \cup Worked \cup Returned
=============================================================================
