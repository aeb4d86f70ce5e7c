------------------------- MODULE SessionRulesProofs -------------------------
(***************************************************************************)
(* Proofs about what operators tell a running launch: SessionRules, for    *)
(* any number of commands and rules, and for an honest proxy as for one    *)
(* that is not; then ExecAsk (as Exec), for any execs and operators, any   *)
(* cap and any timeouts.                                                   *)
(***************************************************************************)
EXTENDS MCOperator, TLAPS, FiniteSetTheorems, SequenceTheorems

USE DEF heardVars, wireVars

(* The rules start out empty everywhere.                                   *)
LEMMA InitInv == Init => Inv
<1>. SUFFICES ASSUME Init PROVE Inv
  OBVIOUS
<1>0. [version |-> 0, rules |-> {}] \in Overlays
  BY DEF Overlays
<1>1. TypeOK
  <2>1. pc \in [Ops -> PCs] /\ want \in [Ops -> SUBSET Rules] /\ held \in SUBSET Rules
    BY DEF Init, PCs
  <2>2. down \in Seq(Overlays) /\ up \in Seq(Nat)
    BY DEF Init
  <2>3. judge \in Overlays /\ proxy \in Overlays
    BY <1>0 DEF Init
  <2>4. /\ version \in Nat /\ sent \in 0 .. version /\ installed \in 0 .. sent
    BY DEF Init
  <2>5. lock \in Ops \cup {Nobody} /\ closed \in BOOLEAN /\ shut \in BOOLEAN /\ nature \in Natures
    BY DEF Init
  <2>. QED
    BY <2>1, <2>2, <2>3, <2>4, <2>5 DEF TypeOK
<1>2. OneHistory
  BY DEF Init, OneHistory, Ordered, Pushed
<1>3. OneAtATime /\ JudgeToldFirst /\ ConfirmsWhatItHas
  BY DEF Init, OneAtATime, JudgeToldFirst, ConfirmsWhatItHas, Holding
<1>4. ConfirmedIsJudged /\ ConfirmedInForce
  BY DEF Init, ConfirmedIsJudged, ConfirmedInForce
<1>. QED
  BY <1>1, <1>2, <1>3, <1>4 DEF Inv

(* An overlay is a version and the rules it has.                           *)
LEMMA OverlayParts ==
  ASSUME TypeOK
  PROVE  /\ Pushed.version = version /\ Pushed.rules = held /\ Pushed \in Overlays
         /\ judge.version \in Nat /\ proxy.version \in Nat
         /\ \A i \in 1 .. Len(down) : down[i].version \in Nat
<1>1. Pushed.version = version /\ Pushed.rules = held /\ Pushed \in Overlays
  BY DEF TypeOK, Overlays, Pushed
<1>2. \A x \in Overlays : x.version \in Nat
  BY DEF Overlays
<1>3. judge \in Overlays /\ proxy \in Overlays /\ down \in Seq(Overlays)
  BY DEF TypeOK
<1>4. \A i \in 1 .. Len(down) : down[i] \in Overlays
  BY <1>3
<1>. QED
  BY <1>1, <1>2, <1>3, <1>4

(* Overlays that are ordered with a list that grew stay so.                *)
LEMMA OrderedGrows ==
  ASSUME NEW a, NEW b, NEW c, a.version \in Nat, b.version \in Nat, c.version \in Nat,
         Ordered(a, b), a.version <= b.version,
         b.version <= c.version, b.rules \subseteq c.rules,
         c.version = b.version => c.rules = b.rules
  PROVE  Ordered(a, c)
<1>1. a.rules \subseteq c.rules
  BY DEF Ordered
<1>2. c.version <= a.version => c.rules \subseteq a.rules
  BY DEF Ordered
<1>. QED
  BY <1>1, <1>2 DEF Ordered

(* A command that waits for the mutex, or takes it, changes nothing else.  *)
LEMMA LockInv ==
  ASSUME Inv, NEW o \in Ops,
         Lock(o) \/ \E R \in SUBSET Rules \ {{}} : Change(o, R)
  PROVE  Inv'
<1>1. TypeOK'
  BY DEF Inv, TypeOK, Lock, Change, Goto, PCs
<1>2. OneHistory'
  BY DEF Inv, OneHistory, Lock, Change, Ordered, Pushed
<1>3. OneAtATime'
  BY NobodyAssumption DEF Inv, TypeOK, OneAtATime, Lock, Change, Goto, PCs, Holding
<1>4. JudgeToldFirst'
  BY DEF Inv, TypeOK, JudgeToldFirst, Lock, Change, Goto, PCs
<1>5. ConfirmsWhatItHas' /\ ConfirmedIsJudged' /\ ConfirmedInForce'
  BY DEF Inv, TypeOK, ConfirmsWhatItHas, ConfirmedIsJudged, ConfirmedInForce, Lock, Change,
         Goto, PCs
<1>. QED
  BY <1>1, <1>2, <1>3, <1>4, <1>5 DEF Inv

(* The list only grows, and its version with it.                           *)
LEMMA EditInv ==
  ASSUME Inv, NEW o \in Ops, Edit(o)
  PROVE  Inv'
<1>1. TypeOK'
  BY DEF Inv, TypeOK, Edit, Goto, PCs
<1>2. OneHistory'
  <2>1. /\ judge' = judge /\ proxy' = proxy /\ down' = down
        /\ held \subseteq held'
        /\ version' \in Nat /\ version <= version'
        /\ version' = version => held' = held
    BY DEF Inv, TypeOK, Edit
  <2>2. /\ Pushed.version = version /\ Pushed.rules = held
        /\ Pushed'.version = version' /\ Pushed'.rules = held'
        /\ version \in Nat /\ judge.version \in Nat /\ proxy.version \in Nat
        /\ \A i \in 1 .. Len(down) : down[i].version \in Nat
    BY <1>1, OverlayParts DEF Inv, TypeOK, Pushed
  <2>3. Ordered(judge, Pushed') /\ judge.version <= version'
    BY <2>1, <2>2, OrderedGrows DEF Inv, OneHistory
  <2>4. Ordered(proxy, Pushed')
    BY <2>1, <2>2, OrderedGrows DEF Inv, OneHistory
  <2>5. \A i \in 1 .. Len(down) : Ordered(down[i], Pushed')
    BY <2>1, <2>2, OrderedGrows DEF Inv, OneHistory
  <2>. QED
    BY <2>1, <2>3, <2>4, <2>5 DEF Inv, OneHistory, Ordered
<1>3. OneAtATime'
  BY DEF Inv, TypeOK, OneAtATime, Edit, Goto, PCs, Holding
<1>4. JudgeToldFirst'
  BY DEF Inv, TypeOK, OneAtATime, JudgeToldFirst, Edit, Goto, PCs, Holding
<1>5. ConfirmsWhatItHas' /\ ConfirmedIsJudged' /\ ConfirmedInForce'
  BY DEF Inv, TypeOK, ConfirmsWhatItHas, ConfirmedIsJudged, ConfirmedInForce, Edit,
         Goto, PCs
<1>. QED
  BY <1>1, <1>2, <1>3, <1>4, <1>5 DEF Inv

(* A command that is answered `ok` found its own version confirmed.        *)
LEMMA OkInv ==
  ASSUME Inv, NEW o \in Ops, Confirmed(o) \/ Awaited(o)
  PROVE  Inv'
<1>1. TypeOK'
  BY DEF Inv, TypeOK, Confirmed, Awaited, Reply, Goto, PCs
<1>2. OneHistory'
  BY DEF Inv, OneHistory, Confirmed, Awaited, Ordered, Pushed
<1>3. OneAtATime'
  BY NobodyAssumption DEF Inv, TypeOK, OneAtATime, Confirmed, Awaited, Reply, Goto, PCs, Holding
<1>4. JudgeToldFirst'
  BY DEF Inv, TypeOK, OneAtATime, JudgeToldFirst, Confirmed, Awaited, Reply, Goto, PCs, Holding
<1>5. ConfirmsWhatItHas'
  BY DEF Inv, ConfirmsWhatItHas, Confirmed, Awaited
<1>6. version <= judge.version /\ (nature = "honest" => version <= proxy.version)
  BY DEF Inv, TypeOK, Overlays, OneAtATime, JudgeToldFirst, ConfirmsWhatItHas, Confirmed, Awaited, Holding
<1>7. held \subseteq judge.rules /\ (nature = "honest" => held \subseteq proxy.rules)
  BY <1>6 DEF Inv, OneHistory, Ordered, Pushed
<1>8. want[o] \subseteq held
  BY DEF Inv, OneAtATime, Confirmed, Awaited
<1>9. ConfirmedIsJudged' /\ ConfirmedInForce'
  BY <1>7, <1>8 DEF Inv, TypeOK, ConfirmedIsJudged, ConfirmedInForce, Confirmed, Awaited, Reply, Goto
<1>. QED
  BY <1>1, <1>2, <1>3, <1>4, <1>5, <1>9 DEF Inv

(* The steps of a command that give no answer, or an error.                *)
LEMMA PushInv ==
  ASSUME Inv, NEW o \in Ops,
         Unconfirmed(o) \/ CountAsSent(o) \/ SendFails(o) \/ AwaitFails(o)
  PROVE  Inv'
<1>1. TypeOK'
  <2>1. CASE CountAsSent(o)
    <3>1. sent' \in 0 .. version' /\ installed' \in 0 .. sent'
      BY <2>1 DEF Inv, TypeOK, CountAsSent, Larger
    <3>2. pc' \in [Ops -> PCs]
      BY <2>1 DEF Inv, TypeOK, CountAsSent, After, Goto, PCs
    <3>. QED
      BY <2>1, <3>1, <3>2 DEF Inv, TypeOK, CountAsSent
  <2>2. CASE Unconfirmed(o) \/ SendFails(o) \/ AwaitFails(o)
    <3>1. pc' \in [Ops -> PCs]
      BY <2>2 DEF Inv, TypeOK, Unconfirmed, SendFails, AwaitFails, Reply, Goto, PCs
    <3>. QED
      BY <2>2, <3>1 DEF Inv, TypeOK, Unconfirmed, SendFails, AwaitFails, Reply
  <2>. QED
    BY <2>1, <2>2
<1>2. OneHistory'
  BY DEF Inv, OneHistory, Unconfirmed, CountAsSent, SendFails, AwaitFails, Ordered, Pushed
<1>3. OneAtATime'
  BY NobodyAssumption DEF Inv, TypeOK, OneAtATime, Unconfirmed, CountAsSent, After, SendFails,
     AwaitFails, Reply, Goto, PCs, Holding
<1>4. JudgeToldFirst'
  <2>1. CASE CountAsSent(o)
    BY <2>1 DEF Inv, TypeOK, OneAtATime, JudgeToldFirst, CountAsSent, After, Goto, Holding
  <2>2. CASE Unconfirmed(o) \/ SendFails(o) \/ AwaitFails(o)
    BY <2>2 DEF Inv, TypeOK, JudgeToldFirst, Unconfirmed, SendFails, AwaitFails, Reply, Goto, Holding
  <2>. QED
    BY <2>1, <2>2
<1>5. ConfirmsWhatItHas' /\ ConfirmedIsJudged' /\ ConfirmedInForce'
  BY DEF Inv, TypeOK, ConfirmsWhatItHas, ConfirmedIsJudged, ConfirmedInForce, Unconfirmed,
         CountAsSent, After, SendFails, AwaitFails, Reply, Goto, PCs
<1>. QED
  BY <1>1, <1>2, <1>3, <1>4, <1>5 DEF Inv

(* The judge is told before anything goes out.                             *)
LEMMA NoteInv ==
  ASSUME Inv, NEW o \in Ops, NoteForJudge(o)
  PROVE  Inv'
<1>0. /\ judge' \in Overlays
      /\ judge'.version = version /\ judge'.rules = held
      /\ judge.version <= judge'.version /\ judge.rules \subseteq judge'.rules
  <2>1. CASE version > judge.version
    BY <2>1, OverlayParts DEF Inv, OneHistory, Ordered, NoteForJudge
  <2>2. CASE ~(version > judge.version)
    <3>1. judge' = judge /\ judge \in Overlays
      BY <2>2 DEF Inv, TypeOK, NoteForJudge
    <3>2. version \in Nat /\ judge.version \in Nat /\ judge.version <= version
      BY OverlayParts DEF Inv, TypeOK, OneHistory
    <3>3. judge.version = version
      BY <2>2, <3>2
    <3>4. judge.rules \subseteq held /\ held \subseteq judge.rules
      BY <3>2, <3>3, OverlayParts DEF Inv, OneHistory, Ordered
    <3>. QED
      BY <3>1, <3>2, <3>3, <3>4
  <2>. QED
    BY <2>1, <2>2
<1>1. TypeOK'
  BY <1>0 DEF Inv, TypeOK, NoteForJudge, After, Goto, PCs
<1>2. OneHistory'
  <2>1. /\ version' = version /\ held' = held /\ proxy' = proxy /\ down' = down
        /\ Pushed' = Pushed
    BY DEF NoteForJudge, Pushed
  <2>2. Ordered(judge', Pushed) /\ judge'.version <= version
    BY <1>0, OverlayParts DEF Inv, TypeOK, Ordered
  <2>3. Ordered(proxy, judge') /\ proxy.version <= judge'.version
    BY <1>0, OverlayParts DEF Inv, TypeOK, OneHistory, Ordered
  <2>4. \A i \in 1 .. Len(down) : Ordered(down[i], judge') /\ down[i].version <= judge'.version
    BY <1>0, OverlayParts DEF Inv, TypeOK, OneHistory, Ordered
  <2>. QED
    BY <2>1, <2>2, <2>3, <2>4 DEF Inv, OneHistory
<1>3. OneAtATime'
  BY DEF Inv, TypeOK, OneAtATime, NoteForJudge, After, Goto, PCs, Holding
<1>4. JudgeToldFirst'
  BY <1>0 DEF Inv, TypeOK, OneAtATime, JudgeToldFirst, NoteForJudge, After, Goto, PCs, Holding
<1>5. ConfirmsWhatItHas' /\ ConfirmedIsJudged' /\ ConfirmedInForce'
  BY <1>0 DEF Inv, TypeOK, ConfirmsWhatItHas, ConfirmedIsJudged, ConfirmedInForce, NoteForJudge,
         After, Goto, PCs
<1>. QED
  BY <1>1, <1>2, <1>3, <1>4, <1>5 DEF Inv

(* What goes out is what the judge holds.                                  *)
LEMMA SendInv ==
  ASSUME Inv, NEW o \in Ops, Send(o)
  PROVE  Inv'
<1>0. Pushed \in Overlays /\ judge.version = version
  BY DEF Inv, TypeOK, Overlays, JudgeToldFirst, Send, Pushed
<1>1. TypeOK'
  BY <1>0 DEF Inv, TypeOK, Send, After, Goto, PCs
<1>2. OneHistory'
  <2>1. /\ down \in Seq(Overlays) /\ down' = Append(down, Pushed)
        /\ judge' = judge /\ proxy' = proxy /\ version' = version /\ held' = held
    BY DEF Inv, TypeOK, Send
  <2>2. Pushed.version <= judge.version /\ Ordered(Pushed, judge)
        /\ Ordered(Pushed, proxy) /\ Ordered(Pushed, Pushed)
    BY <1>0 DEF Inv, OneHistory, Ordered, Pushed
  <2>3. \A i \in 1 .. Len(down') : down'[i] = Pushed \/ (i \in 1 .. Len(down) /\ down'[i] = down[i])
    BY <1>0, <2>1
  <2>4. Pushed' = Pushed
    BY <2>1 DEF Pushed
  <2>5. \A i \in 1 .. Len(down) : Ordered(down[i], Pushed) /\ Ordered(Pushed, down[i])
    BY DEF Inv, OneHistory, Ordered
  <2>. QED
    BY <2>1, <2>2, <2>3, <2>4, <2>5 DEF Inv, OneHistory
<1>3. OneAtATime'
  BY DEF Inv, TypeOK, OneAtATime, Send, After, Goto, PCs, Holding
<1>4. JudgeToldFirst'
  BY <1>0 DEF Inv, TypeOK, OneAtATime, JudgeToldFirst, Send, After, Goto, PCs, Holding
<1>5. ConfirmsWhatItHas' /\ ConfirmedIsJudged' /\ ConfirmedInForce'
  BY DEF Inv, TypeOK, ConfirmsWhatItHas, ConfirmedIsJudged, ConfirmedInForce, Send,
         After, Goto, PCs
<1>. QED
  BY <1>1, <1>2, <1>3, <1>4, <1>5 DEF Inv

(* The proxy installs the newer of two overlays of one history, and says   *)
(* what it then has.                                                       *)
LEMMA InstallInv ==
  ASSUME Inv, Install
  PROVE  Inv'
<1>1. /\ down \in Seq(Overlays) /\ down # << >> /\ Len(down) \in Nat /\ 1 \in 1 .. Len(down)
      /\ Head(down) = down[1] /\ down[1] \in Overlays
  BY DEF Inv, TypeOK, Install
<1>2. /\ down' \in Seq(Overlays)
      /\ \A i \in 1 .. Len(down') : i + 1 \in 1 .. Len(down) /\ down'[i] = down[i + 1]
  BY <1>1 DEF Install
<1>3. proxy' = proxy \/ (proxy' = down[1] /\ down[1].version > proxy.version)
  BY <1>1 DEF Install
<1>4. proxy' \in Overlays
  BY <1>1, <1>3 DEF Inv, TypeOK
<1>5. /\ proxy.version \in Nat /\ proxy'.version \in Nat
      /\ proxy.version <= proxy'.version /\ proxy.rules \subseteq proxy'.rules
  <2>1. \A x \in Overlays : x.version \in Nat
    BY DEF Overlays
  <2>2. proxy.version \in Nat /\ proxy'.version \in Nat
    BY <1>4, <2>1, OverlayParts DEF Inv
  <2>3. Ordered(down[1], proxy)
    BY <1>1 DEF Inv, OneHistory
  <2>. QED
    BY <1>3, <2>2, <2>3 DEF Ordered
<1>6. up \in Seq(Nat) /\ up' \in Seq(Nat)
      /\ \A i \in 1 .. Len(up') : up'[i] = proxy'.version \/ (i \in 1 .. Len(up) /\ up'[i] = up[i])
  <2>1. up \in Seq(Nat)
    BY DEF Inv, TypeOK
  <2>2. up' = up \/ up' = Append(up, proxy'.version)
    BY DEF Install, Say
  <2>3. CASE up' = up
    BY <2>1, <2>3
  <2>4. CASE up' = Append(up, proxy'.version)
    BY <1>5, <2>1, <2>4
  <2>. QED
    BY <2>2, <2>3, <2>4
<1>7. /\ UNCHANGED <<nature, held, version, lock, pc, want, sent, installed, closed, judge, shut>>
      /\ Pushed' = Pushed
  BY DEF Install, Pushed
<1>8. TypeOK'
  BY <1>2, <1>4, <1>6, <1>7 DEF Inv, TypeOK
<1>9. OneHistory'
  <2>1. proxy'.version <= judge.version /\ Ordered(proxy', judge) /\ Ordered(proxy', Pushed)
    BY <1>1, <1>3 DEF Inv, OneHistory
  <2>2. \A i \in 1 .. Len(down) : Ordered(down[i], proxy')
    <3>1. CASE proxy' = proxy
      BY <3>1 DEF Inv, OneHistory
    <3>2. CASE proxy' = down[1]
      BY <1>1, <3>2 DEF Inv, OneHistory
    <3>. QED
      BY <1>3, <3>1, <3>2
  <2>. QED
    BY <1>2, <1>7, <2>1, <2>2 DEF Inv, OneHistory
<1>10. OneAtATime' /\ JudgeToldFirst'
  BY <1>7 DEF Inv, OneAtATime, JudgeToldFirst
<1>11. ConfirmsWhatItHas' /\ ConfirmedIsJudged' /\ ConfirmedInForce'
  <2>1. ConfirmedIsJudged' /\ ConfirmedInForce'
    BY <1>5, <1>7 DEF Inv, ConfirmedIsJudged, ConfirmedInForce
  <2>2. ASSUME nature' = "honest" PROVE installed' <= proxy'.version
    BY <1>5, <1>7, <2>2 DEF Inv, TypeOK, ConfirmsWhatItHas
  <2>3. ASSUME nature' = "honest", NEW i \in 1 .. Len(up') PROVE up'[i] <= proxy'.version
    <3>1. CASE up'[i] = proxy'.version
      BY <1>5, <3>1
    <3>2. CASE i \in 1 .. Len(up) /\ up'[i] = up[i]
      <4>1. up[i] \in Nat /\ up[i] <= proxy.version
        BY <1>6, <1>7, <2>3, <3>2 DEF Inv, ConfirmsWhatItHas
      <4>. QED
        BY <1>5, <3>2, <4>1
    <3>. QED
      BY <1>6, <3>1, <3>2
  <2>. QED
    BY <2>1, <2>2, <2>3 DEF ConfirmsWhatItHas
<1>. QED
  BY <1>8, <1>9, <1>10, <1>11 DEF Inv

(* A confirmation is taken in up to what was sent; a proxy that is not     *)
(* honest drops overlays and claims versions; the link ends.               *)
LEMMA LinkInv ==
  ASSUME Inv, Hear \/ Ignore \/ ShutDown \/ ReaderEnds \/ \E v \in Claimable : Claim(v)
  PROVE  Inv'
<1>1. CASE Hear
  <2>1. /\ up \in Seq(Nat) /\ up # << >> /\ 1 \in 1 .. Len(up) /\ Head(up) = up[1]
        /\ up[1] \in Nat /\ up' \in Seq(Nat)
        /\ \A i \in 1 .. Len(up') : i + 1 \in 1 .. Len(up) /\ up'[i] = up[i + 1]
    BY <1>1 DEF Inv, TypeOK, Hear
  <2>2. /\ installed' \in 0 .. sent
        /\ nature = "honest" => installed' <= proxy.version
    BY <1>1, <2>1 DEF Inv, TypeOK, Overlays, ConfirmsWhatItHas, Hear, Larger, Smaller
  <2>3. /\ UNCHANGED <<nature, held, version, lock, pc, want, sent, closed, judge, proxy, down, shut>>
        /\ Pushed' = Pushed
    BY <1>1 DEF Hear, Pushed
  <2>4. TypeOK' /\ ConfirmsWhatItHas'
    BY <2>1, <2>2, <2>3 DEF Inv, TypeOK, ConfirmsWhatItHas
  <2>5. OneHistory' /\ OneAtATime' /\ JudgeToldFirst' /\ ConfirmedIsJudged' /\ ConfirmedInForce'
    BY <2>3 DEF Inv, OneHistory, OneAtATime, JudgeToldFirst, ConfirmedIsJudged, ConfirmedInForce
  <2>. QED
    BY <2>4, <2>5 DEF Inv
<1>2. CASE Ignore
  <2>1. /\ down \in Seq(Overlays) /\ down' \in Seq(Overlays)
        /\ \A i \in 1 .. Len(down') : i + 1 \in 1 .. Len(down) /\ down'[i] = down[i + 1]
    BY <1>2 DEF Inv, TypeOK, Ignore
  <2>2. /\ UNCHANGED <<nature, held, version, lock, pc, want, sent, installed, closed, judge, proxy, up,
                       shut>>
        /\ Pushed' = Pushed
    BY <1>2 DEF Ignore, Pushed
  <2>3. TypeOK' /\ OneHistory'
    BY <2>1, <2>2 DEF Inv, TypeOK, OneHistory
  <2>4. OneAtATime' /\ JudgeToldFirst' /\ ConfirmsWhatItHas' /\ ConfirmedIsJudged' /\ ConfirmedInForce'
    BY <2>2 DEF Inv, OneAtATime, JudgeToldFirst, ConfirmsWhatItHas, ConfirmedIsJudged, ConfirmedInForce
  <2>. QED
    BY <2>3, <2>4 DEF Inv
<1>3. CASE ShutDown \/ ReaderEnds
  <2>1. /\ UNCHANGED <<nature, held, version, lock, pc, want, sent, installed, judge, proxy, down, up>>
        /\ Pushed' = Pushed
        /\ shut' \in BOOLEAN /\ closed' \in BOOLEAN
    BY <1>3 DEF Inv, TypeOK, ShutDown, ReaderEnds, Pushed
  <2>. QED
    BY <2>1 DEF Inv, TypeOK, OneHistory, OneAtATime, JudgeToldFirst, ConfirmsWhatItHas,
                ConfirmedIsJudged, ConfirmedInForce
<1>4. ASSUME NEW v \in Claimable, Claim(v)
      PROVE  Inv'
  <2>1. nature = "lying" /\ v \in Nat
    BY <1>4 DEF Claim, Claimable
  <2>2. up' \in Seq(Nat)
    BY <1>4, <2>1 DEF Inv, TypeOK, Claim, Say
  <2>3. /\ UNCHANGED <<nature, held, version, lock, pc, want, sent, installed, closed, judge, proxy, down,
                       shut>>
        /\ Pushed' = Pushed
    BY <1>4 DEF Claim, Pushed
  <2>. QED
    BY <2>1, <2>2, <2>3 DEF Inv, TypeOK, OneHistory, OneAtATime, JudgeToldFirst,
                ConfirmsWhatItHas, ConfirmedIsJudged, ConfirmedInForce
<1>. QED
  BY <1>1, <1>2, <1>3, <1>4

LEMMA NextInv == Inv /\ [Next]_vars => Inv'
<1>. SUFFICES ASSUME Inv, [Next]_vars PROVE Inv'
  OBVIOUS
<1>1. CASE UNCHANGED vars
  BY <1>1 DEF vars, Inv, TypeOK, OneHistory, OneAtATime, JudgeToldFirst, ConfirmsWhatItHas,
              ConfirmedIsJudged, ConfirmedInForce, Pushed, Ordered
<1>2. ASSUME NEW o \in Ops, CommandStep(o)
      PROVE  Inv'
  BY <1>2, LockInv, EditInv, OkInv, PushInv, NoteInv, SendInv DEF CommandStep
<1>3. ASSUME NEW o \in Ops, \E R \in SUBSET Rules \ {{}} : Change(o, R)
      PROVE  Inv'
  BY <1>3, LockInv
<1>4. CASE LinkStep
  BY <1>4, InstallInv, LinkInv DEF LinkStep
<1>. QED
  BY <1>1, <1>2, <1>3, <1>4 DEF Next, Finished

(* The invariant of every reachable state.                                 *)
THEOREM Invariance == Spec => []Inv
<1>. QED
  BY InitInv, NextInv, PTL DEF Spec

(* Type correctness: in particular a confirmation never counts for more    *)
(* than was sent, nor what was sent for more than there is.                *)
THEOREM TypeCorrect == Spec => []TypeOK
<1>1. Inv => TypeOK
  BY DEF Inv
<1>. QED
  BY <1>1, Invariance, PTL

(* ManualRules::change answers `ok` for rules an honest proxy decides      *)
(* with.                                                                   *)
THEOREM OkMeansInForce == Spec => []ConfirmedInForce
<1>1. Inv => ConfirmedInForce
  BY DEF Inv
<1>. QED
  BY <1>1, Invariance, PTL

(* ... and for rules the judge decides with, whatever the proxy does.      *)
THEOREM OkMeansJudged == Spec => []ConfirmedIsJudged
<1>1. Inv => ConfirmedIsJudged
  BY DEF Inv
<1>. QED
  BY <1>1, Invariance, PTL

(* The copy Judge::sent keeps is never behind the proxy's.                 *)
THEOREM JudgeAhead == Spec => []JudgeNotBehind
<1>1. Inv => JudgeNotBehind
  BY DEF Inv, OneHistory, Ordered, JudgeNotBehind
<1>. QED
  BY <1>1, Invariance, PTL

(* No step takes a rule out of the judge's overlay or the proxy's.         *)
THEOREM RulesStay == Spec => NeverLosesARule
<1>1. Inv /\ [Next]_vars => [/\ judge.rules \subseteq judge'.rules
                             /\ proxy.rules \subseteq proxy'.rules]_vars
  <2>. SUFFICES ASSUME Inv, Next
                PROVE  judge.rules \subseteq judge'.rules /\ proxy.rules \subseteq proxy'.rules
    OBVIOUS
  <2>1. ASSUME NEW o \in Ops, NoteForJudge(o)
        PROVE  judge.rules \subseteq judge'.rules /\ proxy' = proxy
    BY <2>1, OverlayParts DEF Inv, TypeOK, OneHistory, Ordered, NoteForJudge
  <2>2. CASE Install
    <3>1. down # << >> /\ Head(down) = down[1] /\ 1 \in 1 .. Len(down) /\ down[1].version \in Nat
      <4>1. down \in Seq(Overlays) /\ down # << >>
        BY <2>2 DEF Inv, TypeOK, Install
      <4>2. Head(down) = down[1] /\ 1 \in 1 .. Len(down)
        BY <4>1
      <4>. QED
        BY <4>1, <4>2, OverlayParts DEF Inv
    <3>2. proxy.rules \subseteq proxy'.rules /\ judge' = judge
      BY <2>2, <3>1, OverlayParts DEF Inv, OneHistory, Ordered, Install
    <3>. QED
      BY <3>2
  <2>3. CASE judge' = judge /\ proxy' = proxy
    BY <2>3
  <2>. QED
    BY <2>1, <2>2, <2>3
    DEF Next, CommandStep, LinkStep, Finished, vars, Lock, Change, Edit, Confirmed, Unconfirmed,
        CountAsSent, Send, SendFails, Awaited, AwaitFails, Hear, Ignore, ShutDown, ReaderEnds, Claim
<1>. QED
  BY <1>1, Invariance, PTL DEF Spec, NeverLosesARule
(* Whoever holds ManualRules::proxy is at a step of its own command: no    *)
(* reply, deadline or link that ended leaves the mutex held.               *)
THEOREM MutexIsGivenBack == Spec => []MutexGivenBack
<1>1. Init => MutexGivenBack
  BY DEF Init, MutexGivenBack
<1>2. Inv /\ MutexGivenBack /\ [Next]_vars => MutexGivenBack'
  <2>. SUFFICES ASSUME Inv, MutexGivenBack, [Next]_vars PROVE MutexGivenBack'
    OBVIOUS
  <2>1. CASE UNCHANGED vars \/ LinkStep \/ Finished
    <3>1. lock' = lock /\ pc' = pc
      BY <2>1 DEF vars, LinkStep, Finished, Install, Ignore, Hear, ShutDown, ReaderEnds, Claim
    <3>. QED
      BY <3>1 DEF MutexGivenBack
  <2>2. ASSUME NEW o \in Ops, CommandStep(o) \/ \E R \in SUBSET Rules \ {{}} : Change(o, R)
        PROVE  MutexGivenBack'
    <3>1. /\ pc \in [Ops -> PCs] /\ lock \in Ops \cup {Nobody}
          /\ \A p \in Ops : pc[p] \in Holding => lock = p
      BY DEF Inv, TypeOK, OneAtATime
    <3>2. CASE Lock(o)
      BY <3>1, <3>2 DEF Lock, Goto, MutexGivenBack, Holding
    <3>3. CASE \E R \in SUBSET Rules \ {{}} : Change(o, R)
      <4>1. lock' = lock /\ pc[o] = "idle" /\ pc' = [pc EXCEPT ![o] = "lock"]
        BY <3>3 DEF Change, Goto
      <4>. QED
        BY <3>1, <4>1 DEF MutexGivenBack, Holding
    <3>4. CASE Confirmed(o) \/ SendFails(o) \/ Awaited(o) \/ AwaitFails(o)
      BY <3>4 DEF Confirmed, SendFails, Awaited, AwaitFails, Reply, MutexGivenBack
    <3>5. CASE Edit(o) \/ Unconfirmed(o) \/ CountAsSent(o) \/ NoteForJudge(o) \/ Send(o)
      <4>1. /\ pc[o] \in Holding /\ lock' = lock
            /\ \E to \in Holding : pc' = [pc EXCEPT ![o] = to]
        BY <3>5 DEF Edit, Unconfirmed, CountAsSent, After, NoteForJudge, Send, Goto, Holding
      <4>2. pc'[o] \in Holding /\ lock = o
        BY <3>1, <4>1
      <4>. QED
        BY <4>1, <4>2 DEF MutexGivenBack
    <3>. QED
      BY <2>2, <3>2, <3>3, <3>4, <3>5 DEF CommandStep
  <2>. QED
    BY <2>1, <2>2 DEF Next
<1>. QED
  BY <1>1, <1>2, Invariance, PTL DEF Spec

-----------------------------------------------------------------------------
(* ExecAsk.                                                                *)

(* The instance counts as this module does.                                *)
LEMMA ExecCounts ==
  ASSUME NEW S
  PROVE  Exec!Cardinality(S) = Cardinality(S) /\ (Exec!IsFiniteSet(S) <=> IsFiniteSet(S))
<1>1. Exec!Cardinality(S) = Cardinality(S)
  BY DEF Exec!Cardinality, Cardinality
<1>2. Exec!IsFiniteSet(S) <=> IsFiniteSet(S)
  BY DEF Exec!IsFiniteSet, IsFiniteSet
<1>. QED
  BY <1>1, <1>2

Once(s) == \A i, j \in DOMAIN s : s[i] = s[j] => i = j

(* A queue without repetitions that grows, gives its first, or loses one.  *)
LEMMA OnceAppended ==
  ASSUME NEW S, NEW s \in Seq(S), Once(s), NEW x \in S, x \notin Exec!ToSet(s)
  PROVE  /\ Append(s, x) \in Seq(S) /\ Once(Append(s, x))
         /\ Exec!ToSet(Append(s, x)) = Exec!ToSet(s) \cup {x}
<1>. DEFINE r == Append(s, x)
<1>1. /\ r \in Seq(S) /\ DOMAIN r = 1 .. Len(s) + 1 /\ DOMAIN s = 1 .. Len(s) /\ Len(s) \in Nat
      /\ r[Len(s) + 1] = x /\ \A i \in 1 .. Len(s) : r[i] = s[i]
  OBVIOUS
<1>2. \A i \in DOMAIN r : i \in DOMAIN s \/ i = Len(s) + 1
  BY ONLY <1>1
<1>3. \A i \in DOMAIN s : s[i] # x
  BY DEF Exec!ToSet
<1>4. Once(r)
  BY <1>1, <1>2, <1>3 DEF Once
<1>5. Exec!ToSet(r) = Exec!ToSet(s) \cup {x}
  BY <1>1, <1>2 DEF Exec!ToSet
<1>. QED
  BY <1>1, <1>4, <1>5

LEMMA OnceTaken ==
  ASSUME NEW S, NEW s \in Seq(S), Once(s), s # << >>
  PROVE  /\ Head(s) \in S /\ Tail(s) \in Seq(S) /\ Once(Tail(s)) /\ Head(s) \in Exec!ToSet(s)
         /\ Exec!ToSet(Tail(s)) = Exec!ToSet(s) \ {Head(s)}
<1>. DEFINE r == Tail(s)
<1>1. /\ Head(s) \in S /\ Head(s) = s[1] /\ 1 \in DOMAIN s
      /\ r \in Seq(S) /\ DOMAIN r = 1 .. Len(s) - 1 /\ DOMAIN s = 1 .. Len(s) /\ Len(s) \in Nat
      /\ \A i \in DOMAIN r : r[i] = s[i + 1]
  OBVIOUS
<1>2. \A i \in DOMAIN r : i + 1 \in DOMAIN s /\ i + 1 # 1
  BY ONLY <1>1
<1>3. \A i \in DOMAIN s : i = 1 \/ (i - 1 \in DOMAIN r /\ r[i - 1] = s[i])
  BY ONLY <1>1
<1>4. Once(r)
  <2>. SUFFICES ASSUME NEW i \in DOMAIN r, NEW j \in DOMAIN r, r[i] = r[j]
                PROVE  i = j
    BY DEF Once
  <2>1. i + 1 = j + 1
    BY <1>1, <1>2 DEF Once
  <2>. QED
    BY <1>1, <2>1
<1>5. Exec!ToSet(r) = Exec!ToSet(s) \ {Head(s)}
  <2>1. ASSUME NEW i \in DOMAIN r PROVE r[i] \in Exec!ToSet(s) \ {Head(s)}
    BY <1>1, <1>2 DEF Once, Exec!ToSet
  <2>2. ASSUME NEW i \in DOMAIN s, s[i] # Head(s) PROVE s[i] \in Exec!ToSet(r)
    BY <1>1, <1>3, <2>2 DEF Exec!ToSet
  <2>. QED
    BY <2>1, <2>2 DEF Exec!ToSet
<1>. QED
  BY <1>1, <1>4, <1>5 DEF Exec!ToSet

LEMMA OnceRemoved ==
  ASSUME NEW S, NEW s \in Seq(S), Once(s), NEW k \in DOMAIN s
  PROVE  LET r == Exec!RemoveAt(s, k) IN
         r \in Seq(S) /\ Once(r) /\ Exec!ToSet(r) = Exec!ToSet(s) \ {s[k]}
<1>. DEFINE r == Exec!RemoveAt(s, k)
            At(i) == IF i < k THEN i ELSE i + 1
<1>1. DOMAIN s = 1 .. Len(s) /\ Len(s) \in Nat /\ k \in 1 .. Len(s)
  OBVIOUS
<1>2. /\ r \in Seq(S) /\ Len(r) = Len(s) - 1 /\ DOMAIN r = 1 .. Len(s) - 1
      /\ \A i \in 1 .. Len(s) - 1 : r[i] = s[At(i)]
  <2>. DEFINE a == SubSeq(s, 1, k - 1)
              b == SubSeq(s, k + 1, Len(s))
  <2>1. a \in Seq(S) /\ Len(a) = k - 1 /\ \A i \in 1 .. k - 1 : a[i] = s[i]
    BY <1>1
  <2>2. b \in Seq(S) /\ Len(b) = Len(s) - k /\ \A i \in 1 .. Len(s) - k : b[i] = s[k + i]
    BY <1>1
  <2>3. r = a \o b
    BY DEF Exec!RemoveAt
  <2>. HIDE DEF r, a, b
  <2>4. /\ r \in Seq(S) /\ Len(r) = Len(a) + Len(b)
        /\ \A i \in 1 .. Len(a) + Len(b) : r[i] = IF i <= Len(a) THEN a[i] ELSE b[i - Len(a)]
    BY <2>1, <2>2, <2>3, ConcatProperties
  <2>5. Len(r) = Len(s) - 1 /\ DOMAIN r = 1 .. Len(s) - 1
    BY <1>1, <2>1, <2>2, <2>4
  <2>6. ASSUME NEW i \in 1 .. Len(s) - 1 PROVE r[i] = s[At(i)]
    <3>1. CASE i < k
      <4>1. i \in 1 .. k - 1 /\ i \in 1 .. Len(a) + Len(b) /\ i <= Len(a)
        BY <1>1, <2>1, <2>2, <3>1
      <4>. QED
        BY <2>1, <2>4, <3>1, <4>1
    <3>2. CASE ~ (i < k)
      <4>1. /\ i - Len(a) \in 1 .. Len(s) - k /\ i \in 1 .. Len(a) + Len(b)
            /\ ~ (i <= Len(a)) /\ k + (i - Len(a)) = i + 1
        BY <1>1, <2>1, <2>2, <3>2
      <4>. QED
        BY <2>2, <2>4, <3>2, <4>1
    <3>. QED
      BY <3>1, <3>2
  <2>. QED
    BY <2>4, <2>5, <2>6
<1>. HIDE DEF r
<1>3. \A i \in DOMAIN r : At(i) \in DOMAIN s /\ At(i) # k
  BY ONLY <1>1, <1>2
<1>4. \A i, j \in DOMAIN r : At(i) = At(j) => i = j
  BY ONLY <1>1, <1>2
<1>5. \A i \in DOMAIN s \ {k} : \E j \in DOMAIN r : At(j) = i
  <2>. TAKE i \in DOMAIN s \ {k}
  <2>1. CASE i < k
    BY <1>1, <1>2, <2>1
  <2>2. CASE ~ (i < k)
    <3>1. i - 1 \in DOMAIN r /\ At(i - 1) = i
      BY <1>1, <1>2, <2>2
    <3>. QED
      BY <3>1
  <2>. QED
    BY <2>1, <2>2
<1>. HIDE DEF At
<1>6. Once(r)
  BY <1>2, <1>3, <1>4 DEF Once
<1>7. Exec!ToSet(r) = Exec!ToSet(s) \ {s[k]}
  <2>1. ASSUME NEW i \in DOMAIN r PROVE r[i] \in Exec!ToSet(s) \ {s[k]}
    BY <1>2, <1>3 DEF Once, Exec!ToSet
  <2>2. ASSUME NEW i \in DOMAIN s, s[i] # s[k] PROVE s[i] \in Exec!ToSet(r)
    BY <1>2, <1>5, <2>2 DEF Exec!ToSet
  <2>. QED
    BY <2>1, <2>2 DEF Exec!ToSet
<1>. QED
  BY <1>2, <1>6, <1>7 DEF r
LEMMA ExecUnqueued ==
  ASSUME Exec!Inv, NEW e \in Execs
  PROVE  /\ Exec!Unqueued(e) \in Seq(Execs) /\ Once(Exec!Unqueued(e))
         /\ Exec!ToSet(Exec!Unqueued(e)) = Exec!ToSet(queue) \ {e}
<1>1. queue \in Seq(Execs) /\ Once(queue)
  BY DEF Exec!Inv, Exec!TypeOK, Exec!QueuedOnce, Once
<1>2. CASE e \in Exec!ToSet(queue)
  <2>. DEFINE k == CHOOSE i \in DOMAIN queue : queue[i] = e
  <2>1. k \in DOMAIN queue /\ queue[k] = e
    BY <1>2 DEF Exec!ToSet
  <2>2. Exec!Unqueued(e) = Exec!RemoveAt(queue, k)
    BY <1>2 DEF Exec!Unqueued
  <2>. HIDE DEF k
  <2>. QED
    BY <1>1, <2>1, <2>2, OnceRemoved
<1>3. CASE e \notin Exec!ToSet(queue)
  <2>1. Exec!Unqueued(e) = queue
    BY <1>3 DEF Exec!Unqueued
  <2>. QED
    BY <1>1, <1>3, <2>1
<1>. QED
  BY <1>2, <1>3

(* The invariant, with what an action of ExecAsk speaks of set apart.      *)
ExecTypes ==
  /\ state \in [Execs -> {"none", "raised", "received", "ran", "refused", "dead", "enosys"}]
  /\ loop \in {"top", "poll", "closing", "draining", "closed"}
  /\ swept \in 0..SweepEvery /\ {stop, cage} \subseteq BOOLEAN
  /\ taken \in [Exec!Threads -> SUBSET Execs]
  /\ verdict \in [Ops -> {"none", "ran", "refused"}]
  /\ told \in [Execs -> {"none", "ran", "refused"}]

ExecQueue ==
  /\ queue \in Seq(Execs) /\ Once(queue)
  /\ Exec!ToSet(queue) = {e \in Execs : state[e] = "raised"}

ExecParked ==
  /\ DOMAIN parked \subseteq Execs /\ IsFiniteSet(DOMAIN parked)
  /\ Cardinality(DOMAIN parked) <= Cap
  /\ \A e \in DOMAIN parked : parked[e] \in 0..AskTimeout

LEMMA ExecParts ==
  Exec!Inv <=> /\ ExecTypes /\ ExecQueue /\ ExecParked
               /\ Exec!InOneHand /\ Exec!UntoldIfHeld /\ Exec!ToldIsDone
<1>1. /\ Exec!Cardinality(DOMAIN parked) = Cardinality(DOMAIN parked)
      /\ Exec!IsFiniteSet(DOMAIN parked) <=> IsFiniteSet(DOMAIN parked)
  BY ExecCounts
<1>2. Exec!QueuedOnce <=> Once(queue)
  BY DEF Exec!QueuedOnce, Once
<1>3. Exec!TypeOK /\ Exec!IsFiniteSet(DOMAIN parked) /\ Exec!QueuedOnce
        <=> ExecTypes /\ ExecQueue /\ ExecParked
  BY <1>1, <1>2, Zenon DEF Exec!TypeOK, ExecTypes, ExecQueue, ExecParked, Exec!Parked
<1>. QED
  BY <1>3, Zenon DEF Exec!Inv, Exec!Parked

LEMMA ExecInitInv == Exec!Init => Exec!Inv
<1>. SUFFICES ASSUME Exec!Init PROVE Exec!Inv
  OBVIOUS
<1>0. {Cap, AskTimeout, SweepEvery} \subseteq Nat \ {0}
  BY ExecBounds DEF Exec!BoundsAssumption
<1>1. DOMAIN parked = {} /\ IsFiniteSet({}) /\ Cardinality({}) = 0
  BY FS_EmptySet DEF Exec!Init
<1>2. ExecTypes
  <2>1. {stop, cage} \subseteq BOOLEAN
    BY Zenon DEF Exec!Init
  <2>2. taken \in [Exec!Threads -> SUBSET Execs]
    BY DEF Exec!Init
  <2>. QED
    BY <1>0, <2>1, <2>2 DEF Exec!Init, ExecTypes
<1>3. ExecQueue
  BY DEF Exec!Init, ExecQueue, Once, Exec!ToSet
<1>4. ExecParked
  BY <1>0, <1>1 DEF ExecParked
<1>5. Exec!InOneHand /\ Exec!UntoldIfHeld /\ Exec!ToldIsDone
  BY <1>1 DEF Exec!Init, Exec!InOneHand, Exec!UntoldIfHeld, Exec!ToldIsDone, Exec!Parked
<1>. QED
  BY <1>2, <1>3, <1>4, <1>5, ExecParts

(* Fewer entries are parked, each as old as a clock can tell.              *)
LEMMA ExecFewer ==
  ASSUME ExecParked, DOMAIN parked' \subseteq DOMAIN parked,
         \A e \in DOMAIN parked' : parked'[e] \in 0 .. AskTimeout
  PROVE  ExecParked'
<1>0. Cap \in Nat
  BY ExecBounds DEF Exec!BoundsAssumption
<1>1. /\ IsFiniteSet(DOMAIN parked')
      /\ Cardinality(DOMAIN parked') <= Cardinality(DOMAIN parked)
  BY FS_Subset DEF ExecParked
<1>2. Cardinality(DOMAIN parked') \in Nat /\ Cardinality(DOMAIN parked) \in Nat
  BY <1>1, FS_CardinalityType DEF ExecParked
<1>. QED
  BY <1>0, <1>1, <1>2 DEF ExecParked
(* ... and the invariant put together again after a step.                  *)
LEMMA ExecJoined ==
  ASSUME ExecTypes', ExecQueue', ExecParked', Exec!InOneHand', Exec!UntoldIfHeld',
         Exec!ToldIsDone'
  PROVE  Exec!Inv'
<1>1. /\ Exec!Cardinality(DOMAIN parked') = Cardinality(DOMAIN parked')
      /\ Exec!IsFiniteSet(DOMAIN parked') <=> IsFiniteSet(DOMAIN parked')
  BY ExecCounts
<1>2. Exec!TypeOK' /\ Exec!IsFiniteSet(Exec!Parked)' /\ Exec!QueuedOnce'
  BY <1>1, Zenon
     DEF Exec!TypeOK, ExecTypes, ExecQueue, ExecParked, Exec!Parked, Exec!QueuedOnce, Once
<1>. QED
  BY <1>2, Zenon DEF Exec!Inv

-----------------------------------------------------------------------------
(* The kernel.                                                             *)

LEMMA ExecRaiseInv ==
  ASSUME Exec!Inv, NEW e \in Execs, Exec!Raise(e)
  PROVE  Exec!Inv'
<1>1. ExecTypes /\ ExecQueue /\ ExecParked /\ Exec!InOneHand /\ Exec!UntoldIfHeld
      /\ Exec!ToldIsDone
  BY ExecParts
<1>2. /\ state' = [state EXCEPT ![e] = "raised"] /\ told' = [told EXCEPT ![e] = "none"]
      /\ queue' = Append(queue, e) /\ state[e] # "raised"
      /\ e \notin DOMAIN parked /\ \A t \in Exec!Threads : e \notin taken[t]
      /\ UNCHANGED <<parked, loop, swept, stop, cage, taken, verdict>>
  BY DEF Exec!Raise, Exec!Waiting, Exec!Parked
<1>3. ExecTypes'
  BY <1>1, <1>2 DEF ExecTypes
<1>4. ExecQueue'
  <2>1. queue \in Seq(Execs) /\ Once(queue) /\ e \notin Exec!ToSet(queue)
    BY <1>1, <1>2 DEF ExecQueue
  <2>2. queue' \in Seq(Execs) /\ Once(queue') /\ Exec!ToSet(queue') = Exec!ToSet(queue) \cup {e}
    BY <1>2, <2>1, OnceAppended
  <2>. QED
    BY <1>1, <1>2, <2>2 DEF ExecQueue, ExecTypes
<1>5. ExecParked'
  BY <1>1, <1>2 DEF ExecParked
<1>6. Exec!InOneHand' /\ Exec!UntoldIfHeld' /\ Exec!ToldIsDone'
  BY <1>1, <1>2 DEF ExecTypes, Exec!InOneHand, Exec!UntoldIfHeld, Exec!ToldIsDone, Exec!Parked
<1>. QED
  BY <1>3, <1>4, <1>5, <1>6, ExecJoined

(* A target that dies, and one that nobody can supervise any more.         *)
LEMMA ExecGoneInv ==
  ASSUME Exec!Inv, NEW e \in Execs, Exec!Die(e) \/ Exec!Unsupervised(e)
  PROVE  Exec!Inv'
<1>1. ExecTypes /\ ExecQueue /\ ExecParked /\ Exec!InOneHand /\ Exec!UntoldIfHeld
      /\ Exec!ToldIsDone
  BY ExecParts
<1>2. PICK x \in {"dead", "enosys"} :
        /\ state' = [state EXCEPT ![e] = x]
        /\ x = "enosys" => DOMAIN parked = {} /\ \A t \in Exec!Threads : taken[t] = {}
  BY DEF Exec!Die, Exec!Unsupervised, Exec!ListenerOpen, Exec!Parked
<1>3. /\ queue' = Exec!Unqueued(e) /\ state[e] \in {"raised", "received"}
      /\ UNCHANGED <<parked, loop, swept, stop, cage, taken, verdict, told>>
  BY DEF Exec!Die, Exec!Unsupervised, Exec!Waiting
<1>4. ExecTypes'
  BY <1>1, <1>2, <1>3 DEF ExecTypes
<1>5. ExecQueue'
  <2>1. /\ queue' \in Seq(Execs) /\ Once(queue')
        /\ Exec!ToSet(queue') = Exec!ToSet(queue) \ {e}
    BY <1>3, ExecUnqueued
  <2>. QED
    BY <1>1, <1>2, <2>1 DEF ExecQueue, ExecTypes
<1>6. ExecParked'
  BY <1>1, <1>3 DEF ExecParked
<1>7. Exec!InOneHand' /\ Exec!UntoldIfHeld' /\ Exec!ToldIsDone'
  BY <1>1, <1>2, <1>3 DEF ExecTypes, Exec!InOneHand, Exec!UntoldIfHeld, Exec!ToldIsDone,
                          Exec!Parked
<1>. QED
  BY <1>4, <1>5, <1>6, <1>7, ExecJoined

-----------------------------------------------------------------------------
(* The receive loop and the operators.                                     *)

(* A step that neither queues, answers, parks nor takes an exec.           *)
LEMMA ExecQuietInv ==
  ASSUME Exec!Inv,
         \/ Exec!CageEnds \/ Exec!SkipSweep \/ Exec!Idle \/ Exec!Stop \/ Exec!Stopped
         \/ Exec!Close \/ \E o \in Ops : Exec!Done(o)
  PROVE  Exec!Inv'
<1>1. ExecTypes /\ ExecQueue /\ ExecParked /\ Exec!InOneHand /\ Exec!UntoldIfHeld
      /\ Exec!ToldIsDone
  BY ExecParts
<1>2. UNCHANGED <<queue, state, parked, taken, told, swept>>
  BY DEF Exec!CageEnds, Exec!SkipSweep, Exec!Idle, Exec!Stop, Exec!Stopped, Exec!Close, Exec!Done
<1>3. ExecTypes'
  <2>1. {stop', cage'} \subseteq BOOLEAN
    BY <1>1, Zenon DEF ExecTypes, Exec!CageEnds, Exec!SkipSweep, Exec!Idle, Exec!Stop,
                Exec!Stopped, Exec!Close, Exec!Done
  <2>2. loop' \in {"top", "poll", "closing", "draining", "closed"}
    BY <1>1 DEF ExecTypes, Exec!CageEnds, Exec!SkipSweep, Exec!Idle, Exec!Stop,
                Exec!Stopped, Exec!Close, Exec!Done
  <2>3. verdict' \in [Ops -> {"none", "ran", "refused"}]
    BY <1>1 DEF ExecTypes, Exec!CageEnds, Exec!SkipSweep, Exec!Idle, Exec!Stop,
                Exec!Stopped, Exec!Close, Exec!Done
  <2>. QED
    BY <1>1, <1>2, <2>1, <2>2, <2>3 DEF ExecTypes
<1>4. ExecQueue' /\ ExecParked'
  BY <1>1, <1>2 DEF ExecQueue, ExecParked
<1>5. Exec!InOneHand' /\ Exec!UntoldIfHeld' /\ Exec!ToldIsDone'
  BY <1>1, <1>2 DEF Exec!InOneHand, Exec!UntoldIfHeld, Exec!ToldIsDone, Exec!Parked
<1>. QED
  BY <1>3, <1>4, <1>5, ExecJoined
(* Answers to execs somebody holds: none of them is in the queue.          *)
LEMMA ExecResponded ==
  ASSUME Exec!Inv, NEW es \in SUBSET Execs, NEW v \in {"none", "ran", "refused"},
         \A e \in es : e \in DOMAIN parked \/ \E t \in Exec!Threads : e \in taken[t],
         state' = Exec!Responded(es, v), queue' = queue
  PROVE  /\ state' \in [Execs -> {"none", "raised", "received", "ran", "refused", "dead", "enosys"}]
         /\ \A e \in Execs : state'[e] = IF e \in es /\ state[e] = "received" THEN v ELSE state[e]
         /\ ExecQueue'
<1>1. ExecTypes /\ ExecQueue /\ Exec!UntoldIfHeld
  BY ExecParts
<1>2. \A e \in es : state[e] \in {"received", "dead"}
  BY <1>1 DEF Exec!UntoldIfHeld, Exec!Parked
<1>3. /\ state' \in [Execs -> {"none", "raised", "received", "ran", "refused", "dead", "enosys"}]
      /\ \A e \in Execs : state'[e] = IF e \in es /\ state[e] = "received" THEN v ELSE state[e]
  BY <1>1, <1>2 DEF ExecTypes, Exec!Responded, Exec!Waiting
<1>4. {e \in Execs : state'[e] = "raised"} = {e \in Execs : state[e] = "raised"}
  BY <1>3
<1>. QED
  BY <1>1, <1>3, <1>4 DEF ExecQueue

LEMMA ExecSweepInv ==
  ASSUME Exec!Inv, Exec!Sweep
  PROVE  Exec!Inv'
<1>. DEFINE es == {e \in DOMAIN parked : parked[e] >= AskTimeout}
<1>1. ExecTypes /\ ExecQueue /\ ExecParked /\ Exec!InOneHand /\ Exec!UntoldIfHeld
      /\ Exec!ToldIsDone
  BY ExecParts
<1>2. /\ state' = Exec!Responded(es, "refused") /\ loop' = "poll" /\ swept' = 0
      /\ parked' = [e \in DOMAIN parked \ es |-> parked[e]]
      /\ UNCHANGED <<queue, stop, cage, taken, verdict, told>>
  BY DEF Exec!Sweep, Exec!Expired, Exec!KeptBySweep, Exec!Parked
<1>3. es \in SUBSET Execs /\ es \subseteq DOMAIN parked
  BY <1>1 DEF ExecParked
<1>. HIDE DEF es
<1>4. /\ state' \in [Execs -> {"none", "raised", "received", "ran", "refused", "dead", "enosys"}]
      /\ \A e \in Execs :
           state'[e] = IF e \in es /\ state[e] = "received" THEN "refused" ELSE state[e]
      /\ ExecQueue'
  BY <1>2, <1>3, ExecResponded
<1>5. ExecTypes'
  BY <1>1, <1>2, <1>4, ExecBounds DEF ExecTypes, Exec!BoundsAssumption
<1>6. ExecParked'
  BY <1>1, <1>2, ExecFewer DEF ExecParked
<1>7. Exec!InOneHand' /\ Exec!UntoldIfHeld' /\ Exec!ToldIsDone'
  BY <1>1, <1>2, <1>3, <1>4 DEF Exec!InOneHand, Exec!UntoldIfHeld, Exec!ToldIsDone, Exec!Parked
<1>. QED
  BY <1>4, <1>5, <1>6, <1>7, ExecJoined

(* An exec that was taken out is answered, by the thread that took it.     *)
LEMMA ExecAnswerInv ==
  ASSUME Exec!Inv, NEW t \in Exec!Threads, NEW e \in taken[t], NEW v \in {"none", "ran", "refused"},
         state' = Exec!Responded({e}, v), taken' = [taken EXCEPT ![t] = @ \ {e}],
         told' = told \/ told' = [told EXCEPT ![e] = v],
         UNCHANGED <<queue, parked, loop, swept, stop, cage, verdict>>
  PROVE  Exec!Inv'
<1>1. ExecTypes /\ ExecQueue /\ ExecParked /\ Exec!InOneHand /\ Exec!UntoldIfHeld
      /\ Exec!ToldIsDone
  BY ExecParts
<1>2. {e} \in SUBSET Execs /\ e \in Execs
  BY <1>1 DEF ExecTypes
<1>3. /\ state' \in [Execs -> {"none", "raised", "received", "ran", "refused", "dead", "enosys"}]
      /\ \A f \in Execs : state'[f] = IF f \in {e} /\ state[f] = "received" THEN v ELSE state[f]
      /\ ExecQueue'
  BY <1>2, ExecResponded
<1>4. /\ taken' \in [Exec!Threads -> SUBSET Execs]
      /\ \A u \in Exec!Threads : taken'[u] = IF u = t THEN taken[u] \ {e} ELSE taken[u]
  BY <1>1 DEF ExecTypes
<1>5. /\ told' \in [Execs -> {"none", "ran", "refused"}]
      /\ \A f \in Execs : told'[f] = told[f] \/ (f = e /\ told'[f] = v)
  BY <1>1, <1>2 DEF ExecTypes
<1>6. ExecTypes'
  BY <1>1, <1>3, <1>4, <1>5 DEF ExecTypes
<1>7. ExecParked'
  BY <1>1 DEF ExecParked
<1>8. /\ state[e] \in {"received", "dead"} /\ told[e] = "none" /\ e \notin DOMAIN parked
      /\ \A u \in Exec!Threads : e \in taken[u] => u = t
  BY <1>1, <1>2 DEF Exec!UntoldIfHeld, Exec!InOneHand, Exec!Parked
<1>9. Exec!InOneHand'
  BY <1>1, <1>4 DEF Exec!InOneHand, Exec!Parked
<1>10. Exec!UntoldIfHeld'
  <2>. SUFFICES ASSUME NEW f \in Execs,
                       f \in DOMAIN parked \/ \E u \in Exec!Threads : f \in taken'[u]
                PROVE  state'[f] \in {"received", "dead"} /\ told'[f] = "none"
    BY DEF Exec!UntoldIfHeld, Exec!Parked
  <2>1. f # e
    BY <1>4, <1>8
  <2>2. state[f] \in {"received", "dead"} /\ told[f] = "none"
    BY <1>1, <1>4 DEF Exec!UntoldIfHeld, Exec!Parked
  <2>. QED
    BY <1>3, <1>5, <2>1, <2>2
<1>11. Exec!ToldIsDone'
  BY <1>1, <1>2, <1>3, <1>5, <1>8 DEF Exec!ToldIsDone
<1>. QED
  BY <1>3, <1>6, <1>7, <1>9, <1>10, <1>11, ExecJoined

LEMMA ExecAnswersInv ==
  ASSUME Exec!Inv, NEW e \in Execs,
         Exec!DenyDrained(e) \/ \E o \in Ops : Exec!Answer(o, e)
  PROVE  Exec!Inv'
<1>1. CASE Exec!DenyDrained(e)
  <2>1. "loop" \in Exec!Threads
    BY DEF Exec!Threads
  <2>2. /\ e \in taken["loop"] /\ state' = Exec!Responded({e}, "refused")
        /\ taken' = [taken EXCEPT !["loop"] = @ \ {e}] /\ told' = told
        /\ UNCHANGED <<queue, parked, loop, swept, stop, cage, verdict>>
    BY <1>1 DEF Exec!DenyDrained
  <2>. QED
    BY <2>1, <2>2, ExecAnswerInv
<1>2. CASE \E o \in Ops : Exec!Answer(o, e)
  <2>1. PICK o \in Ops : Exec!Answer(o, e)
    BY <1>2
  <2>2. o \in Exec!Threads /\ verdict[o] \in {"none", "ran", "refused"}
    BY ExecParts DEF Exec!Threads, ExecTypes
  <2>3. /\ e \in taken[o] /\ state' = Exec!Responded({e}, verdict[o])
        /\ taken' = [taken EXCEPT ![o] = @ \ {e}] /\ told' = [told EXCEPT ![e] = verdict[o]]
        /\ UNCHANGED <<queue, parked, loop, swept, stop, cage, verdict>>
    BY <2>1 DEF Exec!Answer
  <2>. QED
    BY <2>2, <2>3, ExecAnswerInv
<1>. QED
  BY <1>1, <1>2
(* The first exec of the queue is decided or parked.                       *)
LEMMA ExecReceiveInv ==
  ASSUME Exec!Inv, Exec!Park \/ \E v \in {"ran", "refused"} : Exec!Decide(v)
  PROVE  Exec!Inv'
<1>. DEFINE e == Head(queue)
<1>1. ExecTypes /\ ExecQueue /\ ExecParked /\ Exec!InOneHand /\ Exec!UntoldIfHeld
      /\ Exec!ToldIsDone
  BY ExecParts
<1>2. PICK x \in {"ran", "refused", "received"} : state' = [state EXCEPT ![e] = x]
                                                  /\ (x = "received" <=> Exec!Park)
  <2>1. CASE Exec!Park
    BY <2>1 DEF Exec!Park
  <2>2. CASE ~Exec!Park
    BY <2>2 DEF Exec!Decide
  <2>. QED
    BY <2>1, <2>2
<1>3. /\ queue # << >> /\ queue' = Tail(queue) /\ loop' = "top"
      /\ UNCHANGED <<swept, stop, cage, taken, verdict, told>>
  BY DEF Exec!Park, Exec!Decide
<1>4. /\ e \in Execs /\ state[e] = "raised"
      /\ queue' \in Seq(Execs) /\ Once(queue')
      /\ Exec!ToSet(queue') = Exec!ToSet(queue) \ {e}
  BY <1>1, <1>3, OnceTaken DEF ExecQueue
<1>. HIDE DEF e
<1>5. ExecTypes'
  BY <1>1, <1>2, <1>3, <1>4 DEF ExecTypes
<1>6. ExecQueue'
  BY <1>1, <1>2, <1>4 DEF ExecQueue, ExecTypes
<1>7. \/ parked' = parked /\ x # "received"
      \/ /\ x = "received" /\ Cardinality(DOMAIN parked) < Cap
         /\ parked' = [f \in DOMAIN parked \cup {e} |-> IF f \in DOMAIN parked THEN parked[f] ELSE 0]
  BY <1>2, ExecCounts DEF Exec!Park, Exec!Decide, Exec!Room, Exec!Parked, e
<1>8. e \notin DOMAIN parked /\ \A t \in Exec!Threads : e \notin taken[t]
  BY <1>1, <1>4 DEF Exec!UntoldIfHeld, Exec!Parked
<1>9. ExecParked'
  <2>1. CASE parked' = parked
    BY <1>1, <2>1 DEF ExecParked
  <2>2. CASE /\ Cardinality(DOMAIN parked) < Cap
             /\ parked' = [f \in DOMAIN parked \cup {e} |-> IF f \in DOMAIN parked THEN parked[f] ELSE 0]
    <3>1. DOMAIN parked' = DOMAIN parked \cup {e}
      BY <2>2
    <3>2. /\ IsFiniteSet(DOMAIN parked') /\ Cardinality(DOMAIN parked') = Cardinality(DOMAIN parked) + 1
          /\ Cardinality(DOMAIN parked) \in Nat
      BY <1>1, <1>8, <3>1, FS_AddElement, FS_CardinalityType DEF ExecParked
    <3>3. Cap \in Nat /\ 0 \in 0 .. AskTimeout
      BY ExecBounds DEF Exec!BoundsAssumption
    <3>4. Cardinality(DOMAIN parked') <= Cap
      BY <2>2, <3>2, <3>3
    <3>5. \A f \in DOMAIN parked' : parked'[f] \in 0 .. AskTimeout
      BY <1>1, <2>2, <3>1, <3>3 DEF ExecParked
    <3>. QED
      BY <1>1, <1>4, <3>1, <3>2, <3>4, <3>5 DEF ExecParked
  <2>. QED
    BY <1>7, <2>1, <2>2
<1>10. DOMAIN parked' \subseteq DOMAIN parked \cup {e} /\ (e \in DOMAIN parked' => x = "received")
  BY <1>7, <1>8
<1>11. Exec!InOneHand'
  BY <1>1, <1>3, <1>8, <1>10 DEF Exec!InOneHand, Exec!Parked
<1>12. Exec!UntoldIfHeld' /\ Exec!ToldIsDone'
  BY <1>1, <1>2, <1>3, <1>4, <1>8, <1>10
     DEF ExecTypes, Exec!UntoldIfHeld, Exec!ToldIsDone, Exec!Parked
<1>. QED
  BY <1>5, <1>6, <1>9, <1>11, <1>12, ExecJoined

(* A thread takes entries out of the registry: all of them, or one.        *)
LEMMA ExecTakeInv ==
  ASSUME Exec!Inv,
         Exec!Drain \/ \E o \in Ops, es \in SUBSET Execs, v \in {"ran", "refused"} : Exec!Take(o, es, v)
  PROVE  Exec!Inv'
<1>1. ExecTypes /\ ExecQueue /\ ExecParked /\ Exec!InOneHand /\ Exec!UntoldIfHeld
      /\ Exec!ToldIsDone
  BY ExecParts
<1>2. PICK t \in Exec!Threads, es \in SUBSET DOMAIN parked :
        /\ taken' = [taken EXCEPT ![t] = es]
        /\ parked' = [e \in DOMAIN parked \ es |-> parked[e]]
  BY DEF Exec!Drain, Exec!Take, Exec!Without, Exec!Parked, Exec!Threads
<1>3. UNCHANGED <<queue, state, swept, stop, cage, told>>
  BY DEF Exec!Drain, Exec!Take
<1>4. es \in SUBSET Execs
  BY <1>1 DEF ExecParked
<1>5. /\ taken' \in [Exec!Threads -> SUBSET Execs]
      /\ \A u \in Exec!Threads : taken'[u] = IF u = t THEN es ELSE taken[u]
  BY <1>1, <1>2, <1>4 DEF ExecTypes
<1>6. ExecTypes'
  <2>1. loop' \in {"top", "poll", "closing", "draining", "closed"}
    BY <1>1 DEF ExecTypes, Exec!Drain, Exec!Take
  <2>2. verdict' \in [Ops -> {"none", "ran", "refused"}]
    BY <1>1 DEF ExecTypes, Exec!Drain, Exec!Take
  <2>. QED
    BY <1>1, <1>3, <1>5, <2>1, <2>2 DEF ExecTypes
<1>7. ExecQueue'
  BY <1>1, <1>3 DEF ExecQueue
<1>8. ExecParked'
  BY <1>1, <1>2, ExecFewer DEF ExecParked
<1>9. Exec!InOneHand'
  <2>1. \A u \in Exec!Threads : \A e \in taken'[u] :
          \/ u = t /\ e \in DOMAIN parked
          \/ u # t /\ e \in taken[u]
    BY <1>5
  <2>. QED
    BY <1>1, <1>2, <1>5, <2>1 DEF Exec!InOneHand, Exec!Parked
<1>10. Exec!UntoldIfHeld' /\ Exec!ToldIsDone'
  BY <1>1, <1>2, <1>3, <1>5 DEF Exec!UntoldIfHeld, Exec!ToldIsDone, Exec!Parked
<1>. QED
  BY <1>6, <1>7, <1>8, <1>9, <1>10, ExecJoined

LEMMA ExecTickInv ==
  ASSUME Exec!Inv, Exec!Tick
  PROVE  Exec!Inv'
<1>1. ExecTypes /\ ExecQueue /\ ExecParked /\ Exec!InOneHand /\ Exec!UntoldIfHeld
      /\ Exec!ToldIsDone
  BY ExecParts
<1>2. /\ parked' = [e \in DOMAIN parked |-> Exec!Older(parked[e], AskTimeout)]
      /\ swept' = Exec!Older(swept, SweepEvery)
      /\ UNCHANGED <<queue, state, loop, stop, cage, taken, verdict, told>>
  BY DEF Exec!Tick, Exec!Parked
<1>3. \A most \in Nat : \A age \in 0 .. most : Exec!Older(age, most) \in 0 .. most
  BY DEF Exec!Older
<1>4. AskTimeout \in Nat /\ SweepEvery \in Nat
  BY ExecBounds DEF Exec!BoundsAssumption
<1>5. ExecTypes'
  BY <1>1, <1>2, <1>3, <1>4 DEF ExecTypes
<1>6. ExecQueue'
  BY <1>1, <1>2 DEF ExecQueue
<1>7. DOMAIN parked' = DOMAIN parked
  BY <1>2
<1>8. ExecParked'
  BY <1>1, <1>2, <1>3, <1>4, ExecFewer DEF ExecParked
<1>9. Exec!InOneHand' /\ Exec!UntoldIfHeld' /\ Exec!ToldIsDone'
  BY <1>1, <1>2, <1>7 DEF Exec!InOneHand, Exec!UntoldIfHeld, Exec!ToldIsDone, Exec!Parked
<1>. QED
  BY <1>5, <1>6, <1>8, <1>9, ExecJoined

LEMMA ExecNextInv == Exec!Inv /\ [Exec!Next]_(Exec!vars) => Exec!Inv'
<1>. SUFFICES ASSUME Exec!Inv, [Exec!Next]_(Exec!vars) PROVE Exec!Inv'
  OBVIOUS
<1>1. CASE UNCHANGED Exec!vars
  <2>1. ExecTypes /\ ExecQueue /\ ExecParked /\ Exec!InOneHand /\ Exec!UntoldIfHeld
        /\ Exec!ToldIsDone
    BY ExecParts
  <2>. QED
    BY <1>1, <2>1, ExecJoined
       DEF Exec!vars, ExecTypes, ExecQueue, ExecParked, Exec!InOneHand, Exec!UntoldIfHeld,
           Exec!ToldIsDone, Exec!Parked
<1>2. CASE Exec!LoopStep
  BY <1>2, ExecSweepInv, ExecQuietInv, ExecReceiveInv, ExecTakeInv, ExecAnswersInv
     DEF Exec!LoopStep
<1>3. CASE Exec!Tick \/ Exec!Stop \/ Exec!CageEnds
  BY <1>3, ExecTickInv, ExecQuietInv
<1>4. ASSUME NEW e \in Execs, Exec!Raise(e) \/ Exec!Die(e) \/ Exec!Unsupervised(e)
      PROVE  Exec!Inv'
  BY <1>4, ExecRaiseInv, ExecGoneInv
<1>5. ASSUME NEW o \in Ops, Exec!OpStep(o) PROVE Exec!Inv'
  BY <1>5, ExecQuietInv, ExecAnswersInv DEF Exec!OpStep
<1>6. CASE \E o \in Ops, es \in SUBSET Execs, v \in {"ran", "refused"} : Exec!Take(o, es, v)
  BY <1>6, ExecTakeInv
<1>. QED
  BY <1>1, <1>2, <1>3, <1>4, <1>5, <1>6 DEF Exec!Next

(* What an operator was told of an exec is what became of it, or its       *)
(* target died: the sweep, another operator, the end of supervision and    *)
(* the kernel come in any order, and an entry is one thread's to answer    *)
(* from the moment it is out of the registry (PendingExec::answer,         *)
(* answer_all, sweep).  Nor are more execs parked than there are places.   *)
THEOREM OperatorsHearTheTruth == Exec!Spec => []ExecsAnsweredTruly
<1>1. Exec!Inv => ExecsAnsweredTruly
  BY DEF Exec!Inv, ExecsAnsweredTruly
<1>. QED
  BY <1>1, ExecInitInv, ExecNextInv, PTL DEF Exec!Spec

(* What StoppedIsInHand says, with the threads that answer set apart.      *)
ExecAnswering(t) ==
  taken[t] # {} => IF t = "loop" THEN loop = "draining" ELSE verdict[t] # "none"

LEMMA ExecHeld ==
  ASSUME Exec!StoppedIsInHand
  PROVE  /\ \A e \in Execs : state[e] = "received" =>
               e \in DOMAIN parked \/ \E t \in Exec!Threads : e \in taken[t]
         /\ loop \in {"draining", "closed"} => DOMAIN parked = {}
         /\ \A t \in Exec!Threads : ExecAnswering(t)
BY DEF Exec!StoppedIsInHand, Exec!Parked, ExecAnswering

LEMMA ExecHeldAfter ==
  ASSUME \A e \in Execs : state'[e] = "received" =>
           e \in DOMAIN parked' \/ \E t \in Exec!Threads : e \in taken'[t],
         loop' \in {"draining", "closed"} => DOMAIN parked' = {},
         \A t \in Exec!Threads : ExecAnswering(t)'
  PROVE  Exec!StoppedIsInHand'
BY DEF Exec!StoppedIsInHand, Exec!Parked, ExecAnswering

(* The kernel's steps and the clock's leave what is held where it is.      *)
LEMMA ExecOutsideHeld ==
  ASSUME Exec!Inv, Exec!StoppedIsInHand,
         \/ Exec!Tick \/ Exec!Stop \/ Exec!CageEnds
         \/ \E e \in Execs : Exec!Raise(e) \/ Exec!Die(e) \/ Exec!Unsupervised(e)
  PROVE  Exec!StoppedIsInHand'
<1>1. ExecTypes
  BY ExecParts
<1>2. UNCHANGED <<loop, taken, verdict>> /\ DOMAIN parked' = DOMAIN parked
  BY DEF Exec!Tick, Exec!Stop, Exec!CageEnds, Exec!Raise, Exec!Die, Exec!Unsupervised,
         Exec!Parked
<1>3. \A e \in Execs : state'[e] = "received" => state[e] = "received"
  BY <1>1 DEF ExecTypes, Exec!Tick, Exec!Stop, Exec!CageEnds, Exec!Raise, Exec!Die,
              Exec!Unsupervised
<1>. QED
  BY <1>2, <1>3 DEF Exec!StoppedIsInHand, Exec!Parked

(* The receive loop.                                                       *)
LEMMA ExecLoopHeld ==
  ASSUME Exec!Inv, Exec!StoppedIsInHand, Exec!LoopStep
  PROVE  Exec!StoppedIsInHand'
<1>1. ExecTypes /\ ExecQueue /\ ExecParked
  BY ExecParts
<1>2. /\ \A e \in Execs : state[e] = "received" =>
           e \in DOMAIN parked \/ \E t \in Exec!Threads : e \in taken[t]
      /\ loop \in {"draining", "closed"} => DOMAIN parked = {}
      /\ \A t \in Exec!Threads : ExecAnswering(t)
  BY ExecHeld
<1>3. /\ "loop" \in Exec!Threads /\ "loop" \notin Ops
      /\ taken["loop"] # {} => loop = "draining"
  BY <1>2, ExecBounds DEF Exec!LoopAssumption, Exec!Threads, ExecAnswering
<1>4. CASE Exec!Sweep
  <2>. DEFINE es == {e \in DOMAIN parked : parked[e] >= AskTimeout}
  <2>1. /\ state' = Exec!Responded(es, "refused") /\ loop = "top" /\ loop' = "poll"
        /\ parked' = [e \in DOMAIN parked \ es |-> parked[e]]
        /\ UNCHANGED <<taken, verdict>>
    BY <1>4 DEF Exec!Sweep, Exec!Expired, Exec!KeptBySweep, Exec!Parked
  <2>. HIDE DEF es
  <2>2. \A e \in Execs : state'[e] = "received" => e \notin es /\ state[e] = "received"
    BY <1>1, <2>1 DEF ExecTypes, Exec!Responded, Exec!Waiting
  <2>3. \A t \in Exec!Threads : ExecAnswering(t)'
    BY <1>2, <2>1 DEF ExecAnswering
  <2>. QED
    BY <1>2, <2>1, <2>2, <2>3, ExecHeldAfter
<1>5. CASE Exec!SkipSweep \/ Exec!Idle \/ Exec!Stopped
  <2>1. /\ UNCHANGED <<state, parked, taken, verdict>>
        /\ loop # "draining" /\ loop' \notin {"draining", "closed"}
    BY <1>5 DEF Exec!SkipSweep, Exec!Idle, Exec!Stopped
  <2>2. \A t \in Exec!Threads : ExecAnswering(t)'
    BY <1>2, <2>1 DEF ExecAnswering
  <2>. QED
    BY <1>2, <2>1, <2>2, ExecHeldAfter
<1>6. CASE Exec!Park \/ \E v \in {"ran", "refused"} : Exec!Decide(v)
  <2>. DEFINE h == Head(queue)
  <2>1. /\ loop = "poll" /\ loop' = "top" /\ UNCHANGED <<taken, verdict>>
        /\ DOMAIN parked \subseteq DOMAIN parked'
        /\ \/ \E v \in {"ran", "refused"} : state' = [state EXCEPT ![h] = v]
           \/ state' = [state EXCEPT ![h] = "received"] /\ h \in DOMAIN parked'
    BY <1>6 DEF Exec!Park, Exec!Decide, Exec!Parked
  <2>. HIDE DEF h
  <2>2. \A e \in Execs : state'[e] = "received" => state[e] = "received" \/ e \in DOMAIN parked'
    BY <1>1, <2>1 DEF ExecTypes
  <2>3. \A t \in Exec!Threads : ExecAnswering(t)'
    BY <1>2, <2>1 DEF ExecAnswering
  <2>. QED
    BY <1>2, <2>1, <2>2, <2>3, ExecHeldAfter
<1>7. CASE Exec!Drain
  <2>1. /\ loop = "closing" /\ loop' = "draining" /\ UNCHANGED <<state, verdict>>
        /\ taken' = [taken EXCEPT !["loop"] = DOMAIN parked]
        /\ DOMAIN parked' = {}
    BY <1>7 DEF Exec!Drain, Exec!Parked, Exec!Without
  <2>2. taken'["loop"] = DOMAIN parked /\ taken["loop"] = {}
    BY <1>1, <1>3, <2>1 DEF ExecTypes
  <2>3. \A t \in Exec!Threads : t # "loop" => taken'[t] = taken[t]
    BY <1>1, <2>1 DEF ExecTypes
  <2>4. \A t \in Exec!Threads : ExecAnswering(t)'
    BY <1>2, <2>1, <2>3 DEF ExecAnswering
  <2>5. \A e \in Execs : state'[e] = "received" => \E t \in Exec!Threads : e \in taken'[t]
    BY <1>2, <1>3, <2>1, <2>2, <2>3
  <2>. QED
    BY <2>1, <2>4, <2>5, ExecHeldAfter
<1>8. CASE Exec!Close
  <2>1. /\ loop = "draining" /\ loop' = "closed" /\ taken["loop"] = {}
        /\ UNCHANGED <<state, parked, taken, verdict>>
    BY <1>8 DEF Exec!Close
  <2>2. \A t \in Exec!Threads : ExecAnswering(t)'
    BY <1>2, <2>1 DEF ExecAnswering
  <2>. QED
    BY <1>2, <2>1, <2>2, ExecHeldAfter
<1>9. ASSUME NEW e \in Execs, Exec!DenyDrained(e)
      PROVE  Exec!StoppedIsInHand'
  <2>1. /\ loop = "draining" /\ loop' = loop /\ state' = Exec!Responded({e}, "refused")
        /\ taken' = [taken EXCEPT !["loop"] = taken["loop"] \ {e}]
        /\ UNCHANGED <<parked, verdict>>
    BY <1>9 DEF Exec!DenyDrained
  <2>2. \A f \in Execs : state'[f] = "received" => f # e /\ state[f] = "received"
    BY <1>1, <2>1 DEF ExecTypes, Exec!Responded, Exec!Waiting
  <2>3. \A t \in Exec!Threads : /\ \A f \in taken[t] : f # e => f \in taken'[t]
                                /\ t # "loop" => taken'[t] = taken[t]
    BY <1>1, <2>1 DEF ExecTypes
  <2>4. \A t \in Exec!Threads : ExecAnswering(t)'
    BY <1>2, <2>1, <2>3 DEF ExecAnswering
  <2>. QED
    BY <1>2, <2>1, <2>2, <2>3, <2>4, ExecHeldAfter
<1>. QED
  BY <1>4, <1>5, <1>6, <1>7, <1>8, <1>9 DEF Exec!LoopStep

(* The operators.                                                          *)
LEMMA ExecOpsHeld ==
  ASSUME Exec!Inv, Exec!StoppedIsInHand, NEW o \in Ops,
         \/ Exec!OpStep(o)
         \/ \E es \in SUBSET Execs, v \in {"ran", "refused"} : Exec!Take(o, es, v)
  PROVE  Exec!StoppedIsInHand'
<1>1. ExecTypes /\ ExecQueue /\ ExecParked
  BY ExecParts
<1>2. /\ \A e \in Execs : state[e] = "received" =>
           e \in DOMAIN parked \/ \E t \in Exec!Threads : e \in taken[t]
      /\ loop \in {"draining", "closed"} => DOMAIN parked = {}
      /\ \A t \in Exec!Threads : ExecAnswering(t)
  BY ExecHeld
<1>3. o \in Exec!Threads /\ o # "loop"
  BY ExecBounds DEF Exec!LoopAssumption, Exec!Threads
<1>4. CASE Exec!Done(o)
  <2>1. /\ taken[o] = {} /\ verdict' = [verdict EXCEPT ![o] = "none"]
        /\ UNCHANGED <<state, parked, loop, taken>>
    BY <1>4 DEF Exec!Done
  <2>2. \A t \in Exec!Threads : ExecAnswering(t)'
    <3>. SUFFICES ASSUME NEW t \in Exec!Threads PROVE ExecAnswering(t)'
      OBVIOUS
    <3>1. t = o \/ t = "loop" \/ verdict'[t] = verdict[t]
      BY <1>1, <2>1 DEF ExecTypes, Exec!Threads
    <3>. QED
      BY <1>2, <2>1, <3>1 DEF ExecAnswering
  <2>. QED
    BY <1>2, <2>1, <2>2, ExecHeldAfter
<1>5. ASSUME NEW e \in Execs, Exec!Answer(o, e)
      PROVE  Exec!StoppedIsInHand'
  <2>1. /\ state' = Exec!Responded({e}, verdict[o])
        /\ taken' = [taken EXCEPT ![o] = taken[o] \ {e}]
        /\ UNCHANGED <<parked, loop, verdict>>
    BY <1>5 DEF Exec!Answer
  <2>2. \A f \in Execs : state'[f] = "received" => f # e /\ state[f] = "received"
    BY <1>1, <2>1 DEF ExecTypes, Exec!Responded, Exec!Waiting
  <2>3. \A t \in Exec!Threads : /\ \A f \in taken[t] : f # e => f \in taken'[t]
                                /\ taken'[t] \subseteq taken[t]
    BY <1>1, <2>1 DEF ExecTypes
  <2>4. \A t \in Exec!Threads : ExecAnswering(t)'
    BY <1>2, <2>1, <2>3 DEF ExecAnswering
  <2>. QED
    BY <1>2, <2>1, <2>2, <2>3, <2>4, ExecHeldAfter
<1>6. ASSUME NEW es \in SUBSET Execs, NEW v \in {"ran", "refused"}, Exec!Take(o, es, v)
      PROVE  Exec!StoppedIsInHand'
  <2>1. /\ verdict[o] = "none" /\ verdict' = [verdict EXCEPT ![o] = v]
        /\ taken' = [taken EXCEPT ![o] = es]
        /\ DOMAIN parked' = DOMAIN parked \ es
        /\ UNCHANGED <<state, loop>>
    BY <1>6 DEF Exec!Take, Exec!Parked, Exec!Without
  <2>2. taken[o] = {} /\ taken'[o] = es
    BY <1>1, <1>2, <1>3, <2>1 DEF ExecAnswering, ExecTypes
  <2>3. \A t \in Exec!Threads : t # o => taken'[t] = taken[t]
    BY <1>1, <2>1 DEF ExecTypes
  <2>4. \A e \in Execs : state'[e] = "received" =>
          e \in DOMAIN parked' \/ \E t \in Exec!Threads : e \in taken'[t]
    BY <1>2, <1>3, <2>1, <2>2, <2>3
  <2>5. \A t \in Exec!Threads : ExecAnswering(t)'
    <3>. SUFFICES ASSUME NEW t \in Exec!Threads PROVE ExecAnswering(t)'
      OBVIOUS
    <3>1. CASE t = o
      <4>1. verdict'[o] # "none"
        BY <1>1, <2>1 DEF ExecTypes
      <4>. QED
        BY <1>3, <3>1, <4>1 DEF ExecAnswering
    <3>2. CASE t # o
      <4>1. t = "loop" \/ verdict'[t] = verdict[t]
        BY <1>1, <2>1, <3>2 DEF ExecTypes, Exec!Threads
      <4>. QED
        BY <1>2, <2>1, <2>3, <3>2, <4>1 DEF ExecAnswering
    <3>. QED
      BY <3>1, <3>2
  <2>. QED
    BY <1>2, <2>1, <2>4, <2>5, ExecHeldAfter
<1>. QED
  BY <1>4, <1>5, <1>6 DEF Exec!OpStep

(* A stopped exec the supervisor has read is parked, or in the hands of    *)
(* the thread that is about to answer it, and the end of supervision takes *)
(* what is parked with it: nobody is left for a sweep that never comes     *)
(* (PendingExec::answer_all, close_supervision).                           *)
THEOREM StoppedExecsAreInHand == Exec!Spec => []Exec!StoppedIsInHand
<1>1. Exec!Init => Exec!StoppedIsInHand
  BY DEF Exec!Init, Exec!StoppedIsInHand
<1>2. Exec!Inv /\ Exec!StoppedIsInHand /\ [Exec!Next]_(Exec!vars) => Exec!StoppedIsInHand'
  <2>. SUFFICES ASSUME Exec!Inv, Exec!StoppedIsInHand, [Exec!Next]_(Exec!vars)
                PROVE  Exec!StoppedIsInHand'
    OBVIOUS
  <2>1. CASE UNCHANGED Exec!vars
    BY <2>1 DEF Exec!vars, Exec!StoppedIsInHand, Exec!Parked
  <2>2. CASE Exec!LoopStep
    BY <2>2, ExecLoopHeld
  <2>3. CASE \/ Exec!Tick \/ Exec!Stop \/ Exec!CageEnds
             \/ \E e \in Execs : Exec!Raise(e) \/ Exec!Die(e) \/ Exec!Unsupervised(e)
    BY <2>3, ExecOutsideHeld
  <2>4. ASSUME NEW o \in Ops,
               \/ Exec!OpStep(o)
               \/ \E es \in SUBSET Execs, v \in {"ran", "refused"} : Exec!Take(o, es, v)
        PROVE  Exec!StoppedIsInHand'
    BY <2>4, ExecOpsHeld
  <2>. QED
    BY <2>1, <2>2, <2>3, <2>4 DEF Exec!Next
<1>. QED
  BY <1>1, <1>2, ExecInitInv, ExecNextInv, PTL DEF Exec!Spec
=============================================================================
