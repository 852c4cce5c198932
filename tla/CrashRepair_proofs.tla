------------------------- MODULE CrashRepair_proofs -------------------------
(***************************************************************************)
(* Proofs about CrashRepair, for any tool calls, any number of turns and   *)
(* steps, and any number of crashes.                                       *)
(*                                                                         *)
(* A first part proves what the two recursions over a log compute when one *)
(* event is appended: the position that validation keeps and the one that  *)
(* repair scans.  The second part is one inductive invariant:              *)
(*   TypeOK     the types;                                                 *)
(*   LogInv     every prefix of the log is good: validation accepts it,    *)
(*              repair reads the same position from it, and what it has    *)
(*              pending is what was asked for and not answered;            *)
(*   DriverInv  the driver's place agrees with that position, and in the   *)
(*              tools phase a first part of the calls is answered;         *)
(*   ActsInv    what left the process was stored before it left.           *)
(* Prefixes, because a crash leaves one: the crash and the repair that it  *)
(* cuts short are then no special cases.  The last part proves that the    *)
(* closers of a good log make a good log with nothing open.                *)
(***************************************************************************)
EXTENDS CrashRepair, SequenceLaws, FiniteSetTheorems

\* What a fork's log may hold besides the session's own events.
AnyEvent == Event \cup {FreeFact}

TraceT == [openTurn : 0..MaxTurns, openStep : 0..MaxSteps,
           nextTurn : Nat \ {0}, nextStep : Nat \ {0}, pending : SUBSET Calls]
Entry  == [call : Calls, turn : Turns, step : Steps, started : BOOLEAN]
ScanT  == [turn : 0..MaxTurns, step : 0..MaxSteps, pending : Seq(Entry)]

-----------------------------------------------------------------------------
(* The inductive invariant.                                                *)

\* What the log says of a call, or of a step, in its first n events.
CallLogged(l, n, c) == \E k \in 1..n : l[k].type = "tool/call" /\ l[k].call = c
StepLogged(l, n, r) == \E k \in 1..n : l[k] = StepStart(r[1], r[2])
UsedIn(l, c) ==
  \E k \in 1..Len(l) :
    l[k].type = "assistant/message" /\ \E i \in DOMAIN l[k].calls : l[k].calls[i] = c
Disowned(l, c) ==
  \E k \in 1..Len(l) :
    l[k].type = "tool/result" /\ l[k].call = c /\ l[k].outcome \in Disowning

CallsOf(pending) == [i \in DOMAIN pending |-> pending[i].call]
Distinct(s) == \A i, j \in DOMAIN s : s[i] = s[j] => i = j

\* Validation and recovery read the same position from a log, and what
\* recovery has pending is what has been asked for and not answered.
Agree(t, s) ==
  /\ s.turn = t.openTurn /\ s.step = t.openStep
  /\ t.openTurn = Closed => t.openStep = Closed
  /\ t.openStep = Closed => s.pending = <<>>
  /\ Distinct(CallsOf(s.pending))
  /\ \A i \in DOMAIN s.pending :
       /\ s.pending[i].turn = t.openTurn /\ s.pending[i].step = t.openStep
       /\ s.pending[i].started => s.pending[i].call \in t.pending
Marked(l, s) ==
  /\ \A i \in DOMAIN s.pending :
       /\ s.pending[i].started <=> CallLogged(l, Len(l), s.pending[i].call)
       /\ UsedIn(l, s.pending[i].call)
  /\ \A c \in Calls : CallLogged(l, Len(l), c) \/ Disowned(l, c) => UsedIn(l, c)
Good(l) ==
  /\ Valid(l)
  /\ Agree(TraceOf(l), Scanned(l))
  /\ Asks(l) = Answers(l) \o CallsOf(Scanned(l).pending)
  /\ Marked(l, Scanned(l))

\* Every log a crash may leave is good.
AllGood(l) == \A n \in 0..Len(l) : Good(SubSeq(l, 1, n))
LogInv == AllGood(log)

\* In the tools phase the first k calls are answered and the others pending.
AnsweredUpTo(k) ==
  /\ \A i \in 1..Len(asked) : stage[asked[i]] = "answered" <=> i <= k
  /\ CallsOf(Scanned(log).pending) = SubSeq(asked, k + 1, Len(asked))
  /\ \A i \in DOMAIN Scanned(log).pending :
       Scanned(log).pending[i].started <=> stage[asked[k + i]] # "none"
DriverInv ==
  /\ pc \in {"idle", "repair"} => Here.openStep = Closed
  /\ pc = "repair" => Here.openTurn = Closed
  /\ pc = "pre-step" =>
       Here.openTurn # Closed /\ Here.openStep = Closed /\ Here.nextStep <= MaxSteps
  /\ pc \in {"request", "response", "tools"} => Here.openStep # Closed
  /\ pc \in {"request", "response"} => Scanned(log).pending = <<>>
  /\ pc = "tools" => Distinct(asked) /\ \E k \in 0..Len(asked) : AnsweredUpTo(k)

\* What left the process was stored first.
InStep(c) == \E i \in DOMAIN asked : asked[i] = c
CallActs(c) ==
  /\ stage[c] # "none" => InStep(c)
  /\ InStep(c) /\ stage[c] # "answered" => ~Disowned(log, c)
  /\ stage[c] \in {"recorded", "flushing"} => c \notin effects
  /\ stage[c] = "flushing" => need[c] <= Len(log) /\ CallLogged(log, need[c], c)
  /\ stage[c] = "returned" /\ c \in effects => outcome[c] \notin Disowning
ActsInv ==
  /\ \A c \in effects : CallLogged(log, durable, c) /\ ~Disowned(log, c)
  /\ \A r \in sent : StepLogged(log, durable, r)
  /\ pc = "request" => barrier <= Len(log)
                         /\ StepLogged(log, barrier, <<Here.openTurn, Here.openStep>>)
  /\ pc = "tools" => \A c \in Calls : CallActs(c)

IInv == TypeOK /\ LogInv /\ DriverInv /\ ActsInv
-----------------------------------------------------------------------------
(* What the events are made of, and the two recursions over the log.       *)

LEMMA EventShapes ==
  ASSUME NEW e \in AnyEvent
  PROVE  /\ e.type = "turn/start" => e.turn \in Turns
         /\ e.type = "turn/end" => e.turn \in Turns
         /\ e.type = "step/start" => e.turn \in Turns /\ e.step \in Steps
         /\ e.type = "step/end" => e.turn \in Turns /\ e.step \in Steps
         /\ e.type = "assistant/message" =>
              e.turn \in Turns /\ e.step \in Steps /\ e.calls \in Seq(Calls)
         /\ e.type = "tool/call" => e.turn \in Turns /\ e.step \in Steps /\ e.call \in Calls
         /\ e.type = "tool/result" => e.turn \in Turns /\ e.step \in Steps /\ e.call \in Calls
         /\ e.type \in {"turn/start", "turn/end", "step/start", "step/end",
                        "assistant/message", "tool/call", "tool/result", "free/fact"}
<1> DEFINE Claims == Outcomes \cup {"not started", "unknown"}
<1> HIDE DEF Claims
<1>1. \/ e \in {TurnStart(t) : t \in Turns} \cup {TurnEnd(t) : t \in Turns} \cup {FreeFact}
      \/ e \in [type : {"step/start", "step/end"}, turn : Turns, step : Steps]
      \/ e \in [type : {"assistant/message"}, turn : Turns, step : Steps, calls : Seq(Calls)]
      \/ e \in [type : {"tool/call"}, turn : Turns, step : Steps, call : Calls]
      \/ e \in [type : {"tool/result"}, turn : Turns, step : Steps, call : Calls,
                notStarted : BOOLEAN, outcome : Claims]
  BY DEF AnyEvent, Event, Claims
<1>2. CASE e \in {TurnStart(t) : t \in Turns} \cup {TurnEnd(t) : t \in Turns} \cup {FreeFact}
  BY <1>2 DEF FreeFact, TurnStart, TurnEnd
<1>3. CASE e \in [type : {"step/start", "step/end"}, turn : Turns, step : Steps]
  BY <1>3
<1>4. CASE e \in [type : {"assistant/message"}, turn : Turns, step : Steps, calls : Seq(Calls)]
  BY <1>4
<1>5. CASE e \in [type : {"tool/call"}, turn : Turns, step : Steps, call : Calls]
  BY <1>5
<1>6. CASE e \in [type : {"tool/result"}, turn : Turns, step : Steps, call : Calls,
                 notStarted : BOOLEAN, outcome : Claims]
  BY <1>6
<1> QED BY <1>1, <1>2, <1>3, <1>4, <1>5, <1>6

\* The trace and the scan an event leads to are of their types.
LEMMA AdvanceType ==
  ASSUME NEW t \in TraceT, NEW e \in AnyEvent
  PROVE  Advance(t, e) \in TraceT
<1>1. /\ t = [openTurn |-> t.openTurn, openStep |-> t.openStep, nextTurn |-> t.nextTurn,
               nextStep |-> t.nextStep, pending |-> t.pending]
      /\ t.openTurn \in 0..MaxTurns /\ t.openStep \in 0..MaxSteps
      /\ t.nextTurn \in Nat \ {0} /\ t.nextStep \in Nat \ {0} /\ t.pending \in SUBSET Calls
  BY DEF TraceT
<1>2. 0 \in 0..MaxTurns /\ 0 \in 0..MaxSteps /\ 1 \in Nat \ {0}
  BY BoundsAssumption
<1>3. t.nextTurn + 1 \in Nat \ {0} /\ t.nextStep + 1 \in Nat \ {0}
  BY <1>1
<1>4. CASE e.type = "turn/start"
  <2>1. e.turn \in 0..MaxTurns
    BY <1>4, EventShapes DEF Turns
  <2> QED BY <1>1, <1>2, <1>4, <2>1 DEF TraceT, Advance
<1>5. CASE e.type = "turn/end"
  BY <1>1, <1>2, <1>3, <1>5 DEF TraceT, Advance, Closed
<1>6. CASE e.type = "step/start"
  <2>1. e.step \in 0..MaxSteps
    BY <1>6, EventShapes DEF Steps
  <2> QED BY <1>1, <1>6, <2>1 DEF TraceT, Advance
<1>7. CASE e.type = "step/end"
  BY <1>1, <1>2, <1>3, <1>7 DEF TraceT, Advance, Closed
<1>8. CASE e.type = "tool/call"
  <2>1. e.call \in Calls
    BY <1>8, EventShapes
  <2> QED BY <1>1, <1>8, <2>1 DEF TraceT, Advance
<1>9. CASE e.type = "tool/result"
  BY <1>1, <1>9 DEF TraceT, Advance
<1>10. CASE e.type \in {"assistant/message", "free/fact"}
  BY <1>10 DEF Advance
<1> QED BY <1>4, <1>5, <1>6, <1>7, <1>8, <1>9, <1>10, EventShapes

LEMMA DeleteType ==
  ASSUME NEW pending \in Seq(Entry), NEW e
  PROVE  Delete(pending, e) \in Seq(Entry)
<1> DEFINE hits == {i \in DOMAIN pending :
                      <<pending[i].call, pending[i].turn, pending[i].step>>
                        = <<e.call, e.turn, e.step>>}
<1>1. CASE hits = {}
  BY <1>1 DEF Delete
<1>2. CASE hits # {}
  <2> DEFINE i == CHOOSE i \in hits : TRUE
  <2>1. i \in hits
    BY <1>2
  <2>2. i \in 1..Len(pending)
    BY <2>1
  <2>3. Delete(pending, e) = SubSeq(pending, 1, i - 1) \o SubSeq(pending, i + 1, Len(pending))
    BY <1>2 DEF Delete, RemoveAt
  <2> HIDE DEF i, hits
  <2> QED BY <2>2, <2>3
<1> QED BY <1>1, <1>2

LEMMA RequestedType ==
  ASSUME NEW e \in AnyEvent, e.type = "assistant/message"
  PROVE  Requested(e) \in Seq(Entry) /\ Len(Requested(e)) = Len(e.calls)
<1>1. e.turn \in Turns /\ e.step \in Steps /\ e.calls \in Seq(Calls)
  BY EventShapes
<1>2. DOMAIN e.calls = 1..Len(e.calls) /\ Len(e.calls) \in Nat
  BY <1>1
<1>3. \A i \in 1..Len(e.calls) : e.calls[i] \in Calls
  BY <1>1
<1> QED BY <1>1, <1>2, <1>3, IsASeq DEF Requested, Entry

LEMMA ObserveCall ==
  ASSUME NEW s \in ScanT, NEW e, e.type = "tool/call"
  PROVE  Observe(s, e) = [s EXCEPT !.pending = [i \in DOMAIN s.pending |-> Start(s.pending[i], e)]]
BY DEF Observe

LEMMA StartType ==
  ASSUME NEW entry \in Entry, NEW e
  PROVE  /\ Start(entry, e) \in Entry
         /\ Start(entry, e).call = entry.call
         /\ Start(entry, e).turn = entry.turn /\ Start(entry, e).step = entry.step
         /\ Start(entry, e).started <=> entry.started \/ entry.call = e.call
<1>1. Start(entry, e) = [entry EXCEPT !.started = entry.started \/ entry.call = e.call]
  BY DEF Start
<1>2. (entry.started \/ entry.call = e.call) \in BOOLEAN
  OBVIOUS
<1> HIDE DEF Start
<1> QED BY <1>1, <1>2 DEF Entry

LEMMA ObserveType ==
  ASSUME NEW s \in ScanT, NEW e \in AnyEvent
  PROVE  Observe(s, e) \in ScanT
<1>1. /\ s = [turn |-> s.turn, step |-> s.step, pending |-> s.pending]
      /\ s.turn \in 0..MaxTurns /\ s.step \in 0..MaxSteps /\ s.pending \in Seq(Entry)
  BY DEF ScanT
<1>2. 0 \in 0..MaxTurns /\ 0 \in 0..MaxSteps /\ <<>> \in Seq(Entry)
  BY BoundsAssumption
<1>3. CASE e.type = "turn/start"
  <2>1. e.turn \in 0..MaxTurns
    BY <1>3, EventShapes DEF Turns
  <2> QED BY <1>2, <1>3, <2>1 DEF ScanT, Observe, Closed
<1>4. CASE e.type = "turn/end"
  BY <1>2, <1>4 DEF ScanT, Observe, FreshScan, Closed
<1>5. CASE e.type = "step/start"
  <2>1. e.step \in 0..MaxSteps
    BY <1>5, EventShapes DEF Steps
  <2> QED BY <1>1, <1>5, <2>1 DEF ScanT, Observe
<1>6. CASE e.type = "step/end"
  BY <1>1, <1>2, <1>6 DEF ScanT, Observe, Closed
<1>7. CASE e.type = "assistant/message"
  <2>1. s.pending \o Requested(e) \in Seq(Entry)
    BY <1>1, <1>7, RequestedType
  <2> QED BY <1>1, <1>7, <2>1 DEF ScanT, Observe
<1>8. CASE e.type = "tool/call"
  <2> DEFINE p == [i \in DOMAIN s.pending |-> Start(s.pending[i], e)]
  <2>1. DOMAIN s.pending = 1..Len(s.pending) /\ Len(s.pending) \in Nat
    BY <1>1
  <2>2. \A i \in 1..Len(s.pending) : Start(s.pending[i], e) \in Entry
    BY <1>1, StartType
  <2>3. p \in Seq(Entry)
    BY <2>1, <2>2, IsASeq
  <2>4. Observe(s, e) = [s EXCEPT !.pending = p]
    BY <1>8, ObserveCall
  <2> HIDE DEF p
  <2> QED BY <1>1, <2>3, <2>4 DEF ScanT
<1>9. CASE e.type = "tool/result"
  <2>1. Delete(s.pending, e) \in Seq(Entry)
    BY <1>1, DeleteType
  <2> QED BY <1>1, <1>9, <2>1 DEF ScanT, Observe
<1>10. CASE e.type = "free/fact"
  BY <1>10 DEF Observe
<1> QED BY <1>3, <1>4, <1>5, <1>6, <1>7, <1>8, <1>9, <1>10, EventShapes

TraceStep == [p \in TraceT \X AnyEvent |-> Advance(p[1], p[2])]
ScanStep  == [p \in ScanT \X AnyEvent |-> Observe(p[1], p[2])]
TraceRun(f, l) ==
  f = [n \in 0..Len(l) |-> IF n = 0 THEN FreshTrace ELSE Advance(f[n - 1], l[n])]
ScanRun(f, l) ==
  f = [n \in 0..Len(l) |-> IF n = 0 THEN FreshScan ELSE Observe(f[n - 1], l[n])]

LEMMA Starts ==
  /\ FreshTrace \in TraceT /\ FreshScan \in ScanT
  /\ IsStep(TraceStep, TraceT, AnyEvent)
  /\ IsStep(ScanStep, ScanT, AnyEvent)
<1>1. FreshTrace \in TraceT
  BY BoundsAssumption DEF FreshTrace, TraceT, Closed
<1>2. FreshScan \in ScanT
  BY BoundsAssumption DEF FreshScan, ScanT, Closed
<1>3. IsStep(TraceStep, TraceT, AnyEvent)
  BY AdvanceType DEF TraceStep, IsStep
<1>4. IsStep(ScanStep, ScanT, AnyEvent)
  BY ObserveType DEF ScanStep, IsStep
<1> QED BY <1>1, <1>2, <1>3, <1>4

LEMMA TraceRunAt ==
  ASSUME NEW f, NEW l, TraceRun(f, l), NEW n \in 0..Len(l)
  PROVE  f[n] = IF n = 0 THEN FreshTrace ELSE Advance(f[n - 1], l[n])
<1> DEFINE G == [k \in 0..Len(l) |-> IF k = 0 THEN FreshTrace ELSE Advance(f[k - 1], l[k])]
<1>1. G[n] = IF n = 0 THEN FreshTrace ELSE Advance(f[n - 1], l[n])
  OBVIOUS
<1>2. f = G
  BY Zenon DEF TraceRun
<1> HIDE DEF G
<1> QED BY <1>1, <1>2

LEMMA ScanRunAt ==
  ASSUME NEW f, NEW l, ScanRun(f, l), NEW n \in 0..Len(l)
  PROVE  f[n] = IF n = 0 THEN FreshScan ELSE Observe(f[n - 1], l[n])
<1> DEFINE G == [k \in 0..Len(l) |-> IF k = 0 THEN FreshScan ELSE Observe(f[k - 1], l[k])]
<1>1. G[n] = IF n = 0 THEN FreshScan ELSE Observe(f[n - 1], l[n])
  OBVIOUS
<1>2. f = G
  BY Zenon DEF ScanRun
<1> HIDE DEF G
<1> QED BY <1>1, <1>2

\* TraceOf is the end of a recursion along the log.
LEMMA TraceOfIs ==
  ASSUME NEW l \in Seq(AnyEvent)
  PROVE  \E g : Recurs(g, l, TraceT, FreshTrace, TraceStep) /\ TraceOf(l) = g[Len(l)]
<1> DEFINE c == CHOOSE f : TraceRun(f, l)
<1>1. PICK h \in [0..Len(l) -> TraceT] : Recurs(h, l, TraceT, FreshTrace, TraceStep)
  BY Starts, RecursExists
<1>2. TraceRun(h, l)
  <2> DEFINE R == [n \in 0..Len(l) |-> IF n = 0 THEN FreshTrace ELSE Advance(h[n - 1], l[n])]
  <2>1. ASSUME NEW n \in 0..Len(l) PROVE h[n] = R[n]
    <3>1. CASE n = 0
      BY <3>1, <1>1 DEF Recurs
    <3>2. CASE n # 0
      <4>1. n \in 1..Len(l) /\ n - 1 \in 0..Len(l) /\ l[n] \in AnyEvent /\ h[n - 1] \in TraceT
        BY <3>2
      <4>2. h[n] = TraceStep[<<h[n - 1], l[n]>>]
        BY <1>1, <4>1 DEF Recurs
      <4>3. TraceStep[<<h[n - 1], l[n]>>] = Advance(h[n - 1], l[n])
        BY <4>1 DEF TraceStep
      <4> QED BY <3>2, <4>2, <4>3
    <3> QED BY <3>1, <3>2
  <2>2. DOMAIN R = 0..Len(l) /\ R = [n \in DOMAIN R |-> R[n]]
    OBVIOUS
  <2>3. h = [n \in 0..Len(l) |-> h[n]]
    OBVIOUS
  <2>4. h = R
    <3> HIDE DEF R
    <3> QED BY <2>1, <2>2, <2>3
  <2> QED BY <2>4, Zenon DEF TraceRun
<1>3. TraceRun(c, l)
  BY <1>2
<1>4. TraceOf(l) = c[Len(l)]
  BY Zenon DEF TraceOf, TraceRun
<1> HIDE DEF c
<1>5. Recurs(c, l, TraceT, FreshTrace, TraceStep)
  <2>1. c[0] = FreshTrace
    <3>1. 0 \in 0..Len(l)
      OBVIOUS
    <3> QED BY <3>1, <1>3, TraceRunAt
  <2>2. ASSUME NEW n \in 1..Len(l), c[n - 1] \in TraceT
        PROVE  c[n] = TraceStep[<<c[n - 1], l[n]>>]
    <3>1. n \in 0..Len(l) /\ n # 0 /\ l[n] \in AnyEvent
      OBVIOUS
    <3>2. c[n] = Advance(c[n - 1], l[n])
      BY <1>3, <3>1, TraceRunAt
    <3> QED BY <2>2, <3>1, <3>2 DEF TraceStep
  <2> QED BY <2>1, <2>2 DEF Recurs
<1> QED BY <1>4, <1>5

\* Scanned is the end of a recursion along the log.
LEMMA ScannedIs ==
  ASSUME NEW l \in Seq(AnyEvent)
  PROVE  \E g : Recurs(g, l, ScanT, FreshScan, ScanStep) /\ Scanned(l) = g[Len(l)]
<1> DEFINE c == CHOOSE f : ScanRun(f, l)
<1>1. PICK h \in [0..Len(l) -> ScanT] : Recurs(h, l, ScanT, FreshScan, ScanStep)
  BY Starts, RecursExists
<1>2. ScanRun(h, l)
  <2> DEFINE R == [n \in 0..Len(l) |-> IF n = 0 THEN FreshScan ELSE Observe(h[n - 1], l[n])]
  <2>1. ASSUME NEW n \in 0..Len(l) PROVE h[n] = R[n]
    <3>1. CASE n = 0
      BY <3>1, <1>1 DEF Recurs
    <3>2. CASE n # 0
      <4>1. n \in 1..Len(l) /\ n - 1 \in 0..Len(l) /\ l[n] \in AnyEvent /\ h[n - 1] \in ScanT
        BY <3>2
      <4>2. h[n] = ScanStep[<<h[n - 1], l[n]>>]
        BY <1>1, <4>1 DEF Recurs
      <4>3. ScanStep[<<h[n - 1], l[n]>>] = Observe(h[n - 1], l[n])
        BY <4>1 DEF ScanStep
      <4> QED BY <3>2, <4>2, <4>3
    <3> QED BY <3>1, <3>2
  <2>2. DOMAIN R = 0..Len(l) /\ R = [n \in DOMAIN R |-> R[n]]
    OBVIOUS
  <2>3. h = [n \in 0..Len(l) |-> h[n]]
    OBVIOUS
  <2>4. h = R
    <3> HIDE DEF R
    <3> QED BY <2>1, <2>2, <2>3
  <2> QED BY <2>4, Zenon DEF ScanRun
<1>3. ScanRun(c, l)
  BY <1>2
<1>4. Scanned(l) = c[Len(l)]
  BY Zenon DEF Scanned, ScanRun
<1> HIDE DEF c
<1>5. Recurs(c, l, ScanT, FreshScan, ScanStep)
  <2>1. c[0] = FreshScan
    <3>1. 0 \in 0..Len(l)
      OBVIOUS
    <3> QED BY <3>1, <1>3, ScanRunAt
  <2>2. ASSUME NEW n \in 1..Len(l), c[n - 1] \in ScanT
        PROVE  c[n] = ScanStep[<<c[n - 1], l[n]>>]
    <3>1. n \in 0..Len(l) /\ n # 0 /\ l[n] \in AnyEvent
      OBVIOUS
    <3>2. c[n] = Observe(c[n - 1], l[n])
      BY <1>3, <3>1, ScanRunAt
    <3> QED BY <2>2, <3>1, <3>2 DEF ScanStep
  <2> QED BY <2>1, <2>2 DEF Recurs
<1> QED BY <1>4, <1>5

\* The laws of both: on the empty log, and on a log with one event more.
LEMMA RecursionLaws ==
  /\ TraceOf(<<>>) = FreshTrace /\ Scanned(<<>>) = FreshScan
  /\ \A l \in Seq(AnyEvent) : TraceOf(l) \in TraceT /\ Scanned(l) \in ScanT
<1>1. <<>> \in Seq(AnyEvent) /\ Len(<<>>) = 0
  OBVIOUS
<1>2. TraceOf(<<>>) = FreshTrace /\ Scanned(<<>>) = FreshScan
  <2>1. PICK g : Recurs(g, <<>>, TraceT, FreshTrace, TraceStep) /\ TraceOf(<<>>) = g[0]
    BY <1>1, TraceOfIs
  <2>2. PICK h : Recurs(h, <<>>, ScanT, FreshScan, ScanStep) /\ Scanned(<<>>) = h[0]
    BY <1>1, ScannedIs
  <2> QED BY <2>1, <2>2 DEF Recurs
<1>3. ASSUME NEW l \in Seq(AnyEvent) PROVE TraceOf(l) \in TraceT /\ Scanned(l) \in ScanT
  <2>1. PICK g : Recurs(g, l, TraceT, FreshTrace, TraceStep) /\ TraceOf(l) = g[Len(l)]
    BY TraceOfIs
  <2>2. PICK h : Recurs(h, l, ScanT, FreshScan, ScanStep) /\ Scanned(l) = h[Len(l)]
    BY ScannedIs
  <2>3. Len(l) \in 0..Len(l)
    OBVIOUS
  <2>4. \A n \in 0..Len(l) : g[n] \in TraceT
    BY <2>1, Starts, RecursType
  <2>5. \A n \in 0..Len(l) : h[n] \in ScanT
    BY <2>2, Starts, RecursType
  <2> QED BY <2>1, <2>2, <2>3, <2>4, <2>5
<1> QED BY <1>2, <1>3

LEMMA RecursionStep ==
  ASSUME NEW l \in Seq(AnyEvent), NEW e \in AnyEvent
  PROVE  /\ TraceOf(Append(l, e)) = Advance(TraceOf(l), e)
         /\ Scanned(Append(l, e)) = Observe(Scanned(l), e)
<1>1. Append(l, e) \in Seq(AnyEvent)
  OBVIOUS
<1>2. TraceOf(Append(l, e)) = Advance(TraceOf(l), e)
  <2>1. PICK g : Recurs(g, l, TraceT, FreshTrace, TraceStep) /\ TraceOf(l) = g[Len(l)]
    BY TraceOfIs
  <2>2. PICK h : /\ Recurs(h, Append(l, e), TraceT, FreshTrace, TraceStep)
                 /\ TraceOf(Append(l, e)) = h[Len(Append(l, e))]
    BY <1>1, TraceOfIs
  <2>3. g[Len(l)] \in TraceT /\ h[Len(Append(l, e))] = TraceStep[<<g[Len(l)], e>>]
    BY <2>1, <2>2, Starts, RecursAppend
  <2> QED BY <2>1, <2>2, <2>3 DEF TraceStep
<1>3. Scanned(Append(l, e)) = Observe(Scanned(l), e)
  <2>1. PICK g : Recurs(g, l, ScanT, FreshScan, ScanStep) /\ Scanned(l) = g[Len(l)]
    BY ScannedIs
  <2>2. PICK h : /\ Recurs(h, Append(l, e), ScanT, FreshScan, ScanStep)
                 /\ Scanned(Append(l, e)) = h[Len(Append(l, e))]
    BY <1>1, ScannedIs
  <2>3. g[Len(l)] \in ScanT /\ h[Len(Append(l, e))] = ScanStep[<<g[Len(l)], e>>]
    BY <2>1, <2>2, Starts, RecursAppend
  <2> QED BY <2>1, <2>2, <2>3 DEF ScanStep
<1> QED BY <1>2, <1>3
-----------------------------------------------------------------------------
(* One event more, for the scan.                                           *)

\* The events the agent and its repair add, beyond what validation asks.
FitsScan(s, e) ==
  /\ e.type = "assistant/message" => s.pending = <<>> /\ Distinct(e.calls)
  /\ e.type = "tool/call" => \E i \in DOMAIN s.pending : s.pending[i].call = e.call
  /\ e.type = "tool/result" => s.pending # <<>> /\ e.call = s.pending[1].call
  /\ e.type = "step/end" => s.pending = <<>>

LEMMA EntryFields ==
  ASSUME NEW p \in Seq(Entry)
  PROVE  /\ DOMAIN p = 1..Len(p) /\ Len(p) \in Nat
         /\ \A i \in DOMAIN p : /\ p[i] \in Entry /\ p[i].call \in Calls
                                /\ p[i].turn \in Turns /\ p[i].step \in Steps
                                /\ p[i].started \in BOOLEAN
<1>1. DOMAIN p = 1..Len(p) /\ Len(p) \in Nat
  OBVIOUS
<1>2. \A i \in 1..Len(p) : p[i] \in Entry
  OBVIOUS
<1> QED BY <1>1, <1>2 DEF Entry

LEMMA CallsOfType ==
  ASSUME NEW p \in Seq(Entry)
  PROVE  /\ CallsOf(p) \in Seq(Calls) /\ Len(CallsOf(p)) = Len(p)
         /\ \A i \in DOMAIN p : CallsOf(p)[i] = p[i].call
<1>1. CallsOf(p) = [i \in 1..Len(p) |-> p[i].call]
  BY EntryFields DEF CallsOf
<1>2. \A i \in 1..Len(p) : p[i].call \in Calls
  BY EntryFields
<1> QED BY <1>1, <1>2, EntryFields, IsASeq

\* A result that fits takes the first pending call out.
LEMMA DeleteFirst ==
  ASSUME NEW p \in Seq(Entry), p # <<>>, Distinct(CallsOf(p)), NEW e,
         e.call = p[1].call, e.turn = p[1].turn, e.step = p[1].step
  PROVE  Delete(p, e) = Tail(p)
<1> DEFINE hits == {i \in DOMAIN p : <<p[i].call, p[i].turn, p[i].step>>
                                       = <<e.call, e.turn, e.step>>}
<1>1. 1 \in DOMAIN p
  BY EntryFields
<1>2. 1 \in hits
  BY <1>1
<1>3. \A i \in hits : i = 1
  <2> SUFFICES ASSUME NEW i \in hits PROVE i = 1
    OBVIOUS
  <2>1. i \in DOMAIN p /\ p[i].call = p[1].call
    OBVIOUS
  <2>2. CallsOf(p)[i] = CallsOf(p)[1] /\ i \in DOMAIN CallsOf(p) /\ 1 \in DOMAIN CallsOf(p)
    BY <1>1, <2>1 DEF CallsOf
  <2> QED BY <2>2 DEF Distinct
<1>4. (CHOOSE i \in hits : TRUE) = 1
  BY <1>2, <1>3
<1>5. Delete(p, e) = SubSeq(p, 1, 1 - 1) \o SubSeq(p, 1 + 1, Len(p))
  <2>1. hits # {}
    BY <1>2
  <2>2. Delete(p, e) = RemoveAt(p, CHOOSE i \in hits : TRUE)
    BY <2>1 DEF Delete
  <2> HIDE DEF hits
  <2> QED BY <1>4, <2>2 DEF RemoveAt
<1>6. SubSeq(p, 1, 1 - 1) = <<>> /\ SubSeq(p, 1 + 1, Len(p)) = Tail(p) /\ Tail(p) \in Seq(Entry)
  OBVIOUS
<1> QED BY <1>5, <1>6, ConcatEmptySeq

\* What an event that is accepted and fits makes of the pending calls.
LEMMA PendingStep ==
  ASSUME NEW t \in TraceT, NEW s \in ScanT, NEW e \in AnyEvent,
         Agree(t, s), Accepts(t, e), FitsScan(s, e)
  PROVE  /\ e.type = "assistant/message" =>
              s.pending = <<>> /\ Observe(s, e).pending = Requested(e)
         /\ e.type = "tool/call" =>
              Observe(s, e).pending = [i \in DOMAIN s.pending |-> Start(s.pending[i], e)]
         /\ e.type = "tool/result" =>
              s.pending # <<>> /\ Observe(s, e).pending = Tail(s.pending)
         /\ e.type \notin {"assistant/message", "tool/call", "tool/result"} =>
              Observe(s, e).pending = s.pending
<1>1. /\ s = [turn |-> s.turn, step |-> s.step, pending |-> s.pending]
      /\ s.pending \in Seq(Entry)
  BY DEF ScanT
<1>2. CASE e.type = "turn/start"
  BY <1>2 DEF Agree, Accepts, Observe
<1>3. CASE e.type = "turn/end"
  BY <1>3 DEF Agree, Accepts, Observe, FreshScan
<1>4. CASE e.type = "step/start"
  BY <1>1, <1>4 DEF Observe
<1>5. CASE e.type = "step/end"
  BY <1>1, <1>5 DEF Observe, FitsScan
<1>6. CASE e.type = "assistant/message"
  <2>1. Requested(e) \in Seq(Entry)
    BY <1>6, RequestedType
  <2>2. Observe(s, e).pending = s.pending \o Requested(e)
    BY <1>1, <1>6 DEF Observe
  <2>3. s.pending = <<>>
    BY <1>6 DEF FitsScan
  <2> QED BY <1>6, <2>1, <2>2, <2>3, ConcatEmptySeq
<1>7. CASE e.type = "tool/call"
  <2>1. Observe(s, e) = [s EXCEPT !.pending = [i \in DOMAIN s.pending |-> Start(s.pending[i], e)]]
    BY <1>7, ObserveCall
  <2> QED BY <1>1, <1>7, <2>1
<1>8. CASE e.type = "tool/result"
  <2>1. Observe(s, e).pending = Delete(s.pending, e)
    BY <1>1, <1>8 DEF Observe
  <2>2. s.pending # <<>> /\ e.call = s.pending[1].call
    BY <1>8 DEF FitsScan
  <2>3. 1 \in DOMAIN s.pending
    BY <1>1, <2>2, EntryFields
  <2>4. e.turn = s.pending[1].turn /\ e.step = s.pending[1].step
    BY <1>8, <2>3 DEF Accepts, InOpenStep, Agree
  <2>5. Distinct(CallsOf(s.pending))
    BY DEF Agree
  <2>6. Delete(s.pending, e) = Tail(s.pending)
    BY <1>1, <2>2, <2>4, <2>5, DeleteFirst
  <2> QED BY <1>8, <2>1, <2>2, <2>6
<1>9. CASE e.type = "free/fact"
  BY <1>9 DEF Observe
<1> QED BY <1>2, <1>3, <1>4, <1>5, <1>6, <1>7, <1>8, <1>9, EventShapes

\* What it makes of their names.
LEMMA NamesStep ==
  ASSUME NEW t \in TraceT, NEW s \in ScanT, NEW e \in AnyEvent,
         Agree(t, s), Accepts(t, e), FitsScan(s, e)
  PROVE  /\ e.type = "assistant/message" =>
              CallsOf(s.pending) = <<>> /\ CallsOf(Observe(s, e).pending) = e.calls
         /\ e.type = "tool/result" =>
              /\ CallsOf(s.pending) # <<>> /\ e.call = CallsOf(s.pending)[1]
              /\ CallsOf(Observe(s, e).pending) = Tail(CallsOf(s.pending))
         /\ e.type \notin {"assistant/message", "tool/result"} =>
              CallsOf(Observe(s, e).pending) = CallsOf(s.pending)
<1>0. s.pending \in Seq(Entry)
  BY DEF ScanT
<1>1. CASE e.type = "assistant/message"
  <2>1. CallsOf(s.pending) = <<>>
    <3>1. s.pending = <<>>
      BY <1>1, PendingStep
    <3> QED BY <3>1 DEF CallsOf
  <2>2. Observe(s, e).pending = Requested(e)
    BY <1>1, PendingStep
  <2>3. e.calls \in Seq(Calls)
    BY <1>1, EventShapes
  <2>4. CallsOf(Requested(e)) = e.calls
    <3>1. \A i \in DOMAIN e.calls : Requested(e)[i].call = e.calls[i]
      BY DEF Requested
    <3>2. DOMAIN Requested(e) = DOMAIN e.calls
      BY DEF Requested
    <3>3. e.calls = [i \in DOMAIN e.calls |-> e.calls[i]]
      BY <2>3
    <3> QED BY <3>1, <3>2, <3>3 DEF CallsOf
  <2> QED BY <1>1, <2>1, <2>2, <2>4
<1>2. CASE e.type = "tool/result"
  <2>1. s.pending # <<>> /\ Observe(s, e).pending = Tail(s.pending)
    BY <1>2, PendingStep
  <2>2. Len(s.pending) \in Nat \ {0} /\ Tail(s.pending) \in Seq(Entry)
        /\ Len(Tail(s.pending)) = Len(s.pending) - 1 /\ 1 \in DOMAIN s.pending
    BY <1>0, <2>1
  <2> DEFINE q == CallsOf(s.pending)
  <2>3. q \in Seq(Calls) /\ Len(q) = Len(s.pending) /\ q[1] = s.pending[1].call
    BY <1>0, <2>2, CallsOfType
  <2>4. CallsOf(Tail(s.pending)) = Tail(q)
    <3>1. \A i \in 1..Len(Tail(s.pending)) : Tail(s.pending)[i] = s.pending[i + 1]
                                             /\ i + 1 \in DOMAIN s.pending
      BY <1>0, <2>1, <2>2
    <3>2. /\ CallsOf(Tail(s.pending)) \in Seq(Calls)
          /\ Len(CallsOf(Tail(s.pending))) = Len(Tail(s.pending))
          /\ \A i \in DOMAIN Tail(s.pending) : CallsOf(Tail(s.pending))[i] = Tail(s.pending)[i].call
      BY <2>2, CallsOfType
    <3>3. DOMAIN Tail(s.pending) = 1..Len(Tail(s.pending))
      BY <2>2
    <3>4. \A i \in DOMAIN s.pending : q[i] = s.pending[i].call
      BY <1>0, CallsOfType
    <3> HIDE DEF q
    <3>5. /\ Tail(q) \in Seq(Calls) /\ Len(Tail(q)) = Len(q) - 1
          /\ \A i \in 1..Len(Tail(q)) : Tail(q)[i] = q[i + 1]
      BY <2>2, <2>3
    <3>6. \A i \in 1..Len(Tail(q)) : CallsOf(Tail(s.pending))[i] = Tail(q)[i]
      BY <2>2, <2>3, <3>1, <3>2, <3>3, <3>4, <3>5
    <3> QED BY <2>2, <2>3, <3>2, <3>5, <3>6, SeqEqual
  <2>5. q # <<>>
    <3> HIDE DEF q
    <3> QED BY <2>2, <2>3
  <2>6. e.call = q[1]
    <3> HIDE DEF q
    <3> QED BY <1>2, <2>3 DEF FitsScan
  <2> HIDE DEF q
  <2>7. CallsOf(Observe(s, e).pending) = Tail(q)
    BY <2>1, <2>4
  <2> QED BY <1>2, <2>5, <2>6, <2>7 DEF q
<1>3. CASE e.type = "tool/call"
  <2> DEFINE p == [i \in DOMAIN s.pending |-> Start(s.pending[i], e)]
  <2>1. Observe(s, e).pending = p
    BY <1>3, PendingStep
  <2>2. DOMAIN p = DOMAIN s.pending
    OBVIOUS
  <2>3. \A i \in DOMAIN s.pending : p[i].call = s.pending[i].call
    BY <1>0, EntryFields, StartType
  <2>4. CallsOf(p) = CallsOf(s.pending)
    <3> HIDE DEF p
    <3> QED BY <2>2, <2>3 DEF CallsOf
  <2> HIDE DEF p
  <2> QED BY <1>3, <2>1, <2>4
<1>4. CASE e.type \notin {"assistant/message", "tool/call", "tool/result"}
  BY <1>4, PendingStep
<1> QED BY <1>1, <1>2, <1>3, <1>4

\* Validation and recovery stay at the same position.
LEMMA AgreeStep ==
  ASSUME NEW t \in TraceT, NEW s \in ScanT, NEW e \in AnyEvent,
         Agree(t, s), Accepts(t, e), FitsScan(s, e)
  PROVE  Agree(Advance(t, e), Observe(s, e))
<1> DEFINE u == Advance(t, e)
<1> DEFINE v == Observe(s, e)
<1>0. u \in TraceT /\ v \in ScanT
  BY AdvanceType, ObserveType
<1>a. s.pending \in Seq(Entry) /\ v.pending \in Seq(Entry)
  BY <1>0 DEF ScanT
<1>1. v.turn = u.openTurn /\ v.step = u.openStep
  <2>1. /\ t = [openTurn |-> t.openTurn, openStep |-> t.openStep, nextTurn |-> t.nextTurn,
                nextStep |-> t.nextStep, pending |-> t.pending]
        /\ s = [turn |-> s.turn, step |-> s.step, pending |-> s.pending]
    BY DEF TraceT, ScanT
  <2>2. s.turn = t.openTurn /\ s.step = t.openStep
        /\ (t.openTurn = Closed => t.openStep = Closed)
    BY DEF Agree
  <2>3. CASE e.type = "turn/start"
    BY <2>1, <2>2, <2>3 DEF Accepts, Advance, Observe
  <2>4. CASE e.type = "turn/end"
    BY <2>1, <2>2, <2>4 DEF Accepts, Advance, Observe, FreshScan
  <2>5. CASE e.type \in {"step/start", "step/end"}
    BY <2>1, <2>2, <2>5 DEF Advance, Observe
  <2>6. CASE e.type \in {"assistant/message", "tool/call", "tool/result", "free/fact"}
    BY <2>1, <2>2, <2>6 DEF Advance, Observe
  <2> QED BY <2>3, <2>4, <2>5, <2>6, EventShapes
<1>2. u.openTurn = Closed => u.openStep = Closed
  <2>1. t = [openTurn |-> t.openTurn, openStep |-> t.openStep, nextTurn |-> t.nextTurn,
             nextStep |-> t.nextStep, pending |-> t.pending]
    BY DEF TraceT
  <2>2. t.openTurn = Closed => t.openStep = Closed
    BY DEF Agree
  <2>3. CASE e.type = "turn/start"
    <3>1. e.turn # Closed
      BY <2>3, EventShapes DEF Turns, Closed
    <3> QED BY <2>1, <2>3, <3>1 DEF Advance
  <2>4. CASE e.type = "turn/end"
    BY <2>1, <2>4 DEF Accepts, Advance
  <2>5. CASE e.type = "step/start"
    <3>1. t.openTurn = e.turn /\ e.turn # Closed
      BY <2>5, EventShapes DEF Turns, Closed, Accepts
    <3> QED BY <2>1, <2>5, <3>1 DEF Advance
  <2>6. CASE e.type = "step/end"
    BY <2>1, <2>6 DEF Advance
  <2>7. CASE e.type \in {"assistant/message", "tool/call", "tool/result", "free/fact"}
    BY <2>1, <2>2, <2>7 DEF Advance
  <2> QED BY <2>3, <2>4, <2>5, <2>6, <2>7, EventShapes
<1>3. u.openStep = Closed => v.pending = <<>>
  <2>1. t = [openTurn |-> t.openTurn, openStep |-> t.openStep, nextTurn |-> t.nextTurn,
             nextStep |-> t.nextStep, pending |-> t.pending]
    BY DEF TraceT
  <2>2. t.openStep = Closed => s.pending = <<>>
    BY DEF Agree
  <2>3. CASE e.type \in {"turn/start", "turn/end"}
    BY <2>3 DEF Observe, FreshScan
  <2>4. CASE e.type = "step/start"
    <3>1. e.step # Closed
      BY <2>4, EventShapes DEF Steps, Closed
    <3> QED BY <2>1, <2>4, <3>1 DEF Advance
  <2>5. CASE e.type = "step/end"
    <3>1. v.pending = s.pending
      BY <2>5, PendingStep
    <3> QED BY <2>5, <3>1 DEF FitsScan
  <2>6. CASE e.type \in {"assistant/message", "tool/call", "tool/result"}
    <3>1. t.openStep = e.step /\ e.step # Closed
      BY <2>6, EventShapes DEF Steps, Closed, Accepts, InOpenStep
    <3>2. u.openStep = t.openStep
      BY <2>1, <2>6 DEF Advance
    <3> QED BY <3>1, <3>2
  <2>7. CASE e.type = "free/fact"
    BY <2>2, <2>7 DEF Advance, Observe
  <2> QED BY <2>3, <2>4, <2>5, <2>6, <2>7, EventShapes
<1>4. Distinct(CallsOf(v.pending))
  <2> DEFINE q == CallsOf(s.pending)
  <2>1. Distinct(q) /\ q \in Seq(Calls)
    BY <1>a, CallsOfType DEF Agree
  <2>2. CASE e.type = "assistant/message"
    BY <2>2, NamesStep DEF FitsScan
  <2>3. CASE e.type = "tool/result"
    <3>1. CallsOf(v.pending) = Tail(q) /\ q # <<>>
      BY <2>3, NamesStep
    <3> HIDE DEF q
    <3>2. /\ DOMAIN q = 1..Len(q) /\ DOMAIN Tail(q) = 1..Len(Tail(q)) /\ Len(q) \in Nat
          /\ Len(Tail(q)) = Len(q) - 1
          /\ \A i \in 1..Len(Tail(q)) : Tail(q)[i] = q[i + 1]
      BY <2>1, <3>1
    <3>3. ASSUME NEW i \in DOMAIN Tail(q), NEW j \in DOMAIN Tail(q), Tail(q)[i] = Tail(q)[j]
          PROVE  i = j
      <4>1. i + 1 \in DOMAIN q /\ j + 1 \in DOMAIN q /\ q[i + 1] = q[j + 1]
        BY <3>2, <3>3
      <4>2. i + 1 = j + 1
        BY <2>1, <4>1 DEF Distinct
      <4> QED BY <3>2, <4>2
    <3> QED BY <3>1, <3>3 DEF Distinct
  <2>4. CASE e.type \notin {"assistant/message", "tool/result"}
    BY <2>1, <2>4, NamesStep
  <2> QED BY <2>2, <2>3, <2>4
<1>5. ASSUME NEW i \in DOMAIN v.pending
      PROVE  /\ v.pending[i].turn = u.openTurn /\ v.pending[i].step = u.openStep
             /\ v.pending[i].started => v.pending[i].call \in u.pending
  <2>1. t = [openTurn |-> t.openTurn, openStep |-> t.openStep, nextTurn |-> t.nextTurn,
             nextStep |-> t.nextStep, pending |-> t.pending]
    BY DEF TraceT
  <2>2. \A j \in DOMAIN s.pending :
          /\ s.pending[j].turn = t.openTurn /\ s.pending[j].step = t.openStep
          /\ s.pending[j].started => s.pending[j].call \in t.pending
    BY DEF Agree
  <2>3. CASE e.type \in {"turn/start", "turn/end"}
    <3>1. v.pending = <<>>
      BY <2>3 DEF Observe, FreshScan
    <3> QED BY <1>5, <3>1
  <2>4. CASE e.type \in {"step/start", "step/end"}
    <3>1. v.pending = s.pending
      BY <2>4, PendingStep
    <3>2. s.pending = <<>>
      BY <2>4 DEF Agree, Accepts, FitsScan
    <3> QED BY <1>5, <3>1, <3>2
  <2>5. CASE e.type = "assistant/message"
    <3>1. v.pending = Requested(e)
      BY <2>5, PendingStep
    <3>2. Requested(e)[i] = [call |-> e.calls[i], turn |-> e.turn, step |-> e.step, started |-> FALSE]
      BY <1>5, <3>1 DEF Requested
    <3>3. e.turn = t.openTurn /\ e.step = t.openStep /\ u = t
      BY <2>5 DEF Accepts, InOpenStep, Advance
    <3> QED BY <3>1, <3>2, <3>3
  <2>6. CASE e.type = "tool/call"
    <3>1. v.pending = [j \in DOMAIN s.pending |-> Start(s.pending[j], e)]
      BY <2>6, PendingStep
    <3>2. i \in DOMAIN s.pending /\ v.pending[i] = Start(s.pending[i], e)
      BY <1>5, <3>1
    <3>3. s.pending[i] \in Entry
      BY <1>a, <3>2, EntryFields
    <3>4. /\ v.pending[i].turn = s.pending[i].turn /\ v.pending[i].step = s.pending[i].step
          /\ v.pending[i].call = s.pending[i].call
          /\ v.pending[i].started => s.pending[i].started \/ s.pending[i].call = e.call
      BY <3>2, <3>3, StartType
    <3>5. /\ u.openTurn = t.openTurn /\ u.openStep = t.openStep
          /\ u.pending = t.pending \cup {e.call}
      BY <2>1, <2>6 DEF Advance
    <3> QED BY <2>2, <3>2, <3>4, <3>5
  <2>7. CASE e.type = "tool/result"
    <3>1. s.pending # <<>> /\ v.pending = Tail(s.pending)
      BY <2>7, PendingStep
    <3>2. i + 1 \in DOMAIN s.pending /\ 1 \in DOMAIN s.pending /\ i + 1 # 1
          /\ v.pending[i] = s.pending[i + 1]
      BY <1>5, <1>a, <3>1
    <3>3. s.pending[i + 1].call # s.pending[1].call
      <4>1. Distinct(CallsOf(s.pending))
        BY DEF Agree
      <4>2. /\ i + 1 \in DOMAIN CallsOf(s.pending) /\ 1 \in DOMAIN CallsOf(s.pending)
            /\ CallsOf(s.pending)[i + 1] = s.pending[i + 1].call
            /\ CallsOf(s.pending)[1] = s.pending[1].call
        BY <3>2 DEF CallsOf
      <4>3. CallsOf(s.pending)[i + 1] # CallsOf(s.pending)[1]
        BY <3>2, <4>1, <4>2 DEF Distinct
      <4> QED BY <4>2, <4>3
    <3>4. e.call = s.pending[1].call
      BY <2>7 DEF FitsScan
    <3>5. /\ u.openTurn = t.openTurn /\ u.openStep = t.openStep
          /\ u.pending = t.pending \ {e.call}
      BY <2>1, <2>7 DEF Advance
    <3> QED BY <2>2, <3>2, <3>3, <3>4, <3>5
  <2>8. CASE e.type = "free/fact"
    <3>1. u = t /\ v = s
      BY <2>8 DEF Advance, Observe
    <3> QED BY <2>2, <1>5, <3>1
  <2> QED BY <2>3, <2>4, <2>5, <2>6, <2>7, <2>8, EventShapes
<1> HIDE DEF u, v
<1>6. Agree(u, v)
  BY <1>1, <1>2, <1>3, <1>4, <1>5 DEF Agree
<1> QED BY <1>6 DEF u, v

-----------------------------------------------------------------------------
(* One event more, for the log.                                            *)

AskedBy(e)    == IF e.type = "assistant/message" THEN e.calls ELSE <<>>
AnsweredBy(e) == IF e.type = "tool/result" THEN <<e.call>> ELSE <<>>

LEMMA AskedByType ==
  ASSUME NEW e \in AnyEvent
  PROVE  AskedBy(e) \in Seq(Calls) /\ AnsweredBy(e) \in Seq(Calls)
BY EventShapes DEF AskedBy, AnsweredBy

LEMMA AsksStep ==
  ASSUME NEW l \in Seq(AnyEvent), NEW e \in AnyEvent
  PROVE  /\ Asks(l) \in Seq(Calls) /\ Answers(l) \in Seq(Calls)
         /\ Asks(Append(l, e)) = Asks(l) \o AskedBy(e)
         /\ Answers(Append(l, e)) = Answers(l) \o AnsweredBy(e)
<1> DEFINE k == Append(l, e)
<1> DEFINE asks(m) == [n \in DOMAIN m |-> AskedBy(m[n])]
<1> DEFINE answers(m) == [n \in DOMAIN m |-> AnsweredBy(m[n])]
<1>1. /\ DOMAIN l = 1..Len(l) /\ DOMAIN k = 1..(Len(l) + 1) /\ Len(l) \in Nat
      /\ \A n \in 1..Len(l) : l[n] \in AnyEvent /\ k[n] = l[n]
      /\ k[Len(l) + 1] = e
  OBVIOUS
<1>2. \A m : Asks(m) = FlattenSeq(asks(m)) /\ Answers(m) = FlattenSeq(answers(m))
  BY DEF Asks, Answers, AskedBy, AnsweredBy
<1>0. ASSUME NEW m \in Seq(AnyEvent)
      PROVE  /\ asks(m) \in Seq(Seq(Calls)) /\ Len(asks(m)) = Len(m)
             /\ answers(m) \in Seq(Seq(Calls)) /\ Len(answers(m)) = Len(m)
  <2>1. DOMAIN m = 1..Len(m) /\ Len(m) \in Nat /\ \A n \in 1..Len(m) : m[n] \in AnyEvent
    OBVIOUS
  <2> QED BY <2>1, AskedByType, IsASeq
<1>3. asks(l) \in Seq(Seq(Calls)) /\ Len(asks(l)) = Len(l)
  BY <1>0
<1>4. answers(l) \in Seq(Seq(Calls)) /\ Len(answers(l)) = Len(l)
  BY <1>0
<1>5. asks(k) = Append(asks(l), AskedBy(e))
  <2>1. k \in Seq(AnyEvent) /\ Len(k) = Len(l) + 1 /\ \A n \in 1..Len(k) : k[n] \in AnyEvent
    BY <1>1
  <2>2. /\ \A n \in 1..Len(l) : asks(l)[n] = AskedBy(l[n])
        /\ \A n \in 1..Len(k) : asks(k)[n] = AskedBy(k[n])
    BY <1>1, <2>1
  <2> HIDE DEF k, asks
  <2>3. asks(k) \in Seq(Seq(Calls)) /\ Len(asks(k)) = Len(k)
    BY <1>0, <2>1
  <2>4. AskedBy(e) \in Seq(Calls)
    BY AskedByType
  <2>5. /\ Append(asks(l), AskedBy(e)) \in Seq(Seq(Calls))
        /\ Len(Append(asks(l), AskedBy(e))) = Len(l) + 1
        /\ \A n \in 1..Len(l) : Append(asks(l), AskedBy(e))[n] = asks(l)[n]
        /\ Append(asks(l), AskedBy(e))[Len(l) + 1] = AskedBy(e)
    BY <1>3, <2>4, AppendProperties
  <2>6. \A n \in 1..Len(asks(k)) : asks(k)[n] = Append(asks(l), AskedBy(e))[n]
    BY <1>1, <2>1, <2>2, <2>3, <2>5
  <2> QED BY <2>1, <2>3, <2>5, <2>6, SeqEqual
<1>6. answers(k) = Append(answers(l), AnsweredBy(e))
  <2>1. k \in Seq(AnyEvent) /\ Len(k) = Len(l) + 1 /\ \A n \in 1..Len(k) : k[n] \in AnyEvent
    BY <1>1
  <2>2. /\ \A n \in 1..Len(l) : answers(l)[n] = AnsweredBy(l[n])
        /\ \A n \in 1..Len(k) : answers(k)[n] = AnsweredBy(k[n])
    BY <1>1, <2>1
  <2> HIDE DEF k, answers
  <2>3. answers(k) \in Seq(Seq(Calls)) /\ Len(answers(k)) = Len(k)
    BY <1>0, <2>1
  <2>4. AnsweredBy(e) \in Seq(Calls)
    BY AskedByType
  <2>5. /\ Append(answers(l), AnsweredBy(e)) \in Seq(Seq(Calls))
        /\ Len(Append(answers(l), AnsweredBy(e))) = Len(l) + 1
        /\ \A n \in 1..Len(l) : Append(answers(l), AnsweredBy(e))[n] = answers(l)[n]
        /\ Append(answers(l), AnsweredBy(e))[Len(l) + 1] = AnsweredBy(e)
    BY <1>4, <2>4, AppendProperties
  <2>6. \A n \in 1..Len(answers(k)) : answers(k)[n] = Append(answers(l), AnsweredBy(e))[n]
    BY <1>1, <2>1, <2>2, <2>3, <2>5
  <2> QED BY <2>1, <2>3, <2>5, <2>6, SeqEqual
<1> HIDE DEF asks, answers, k
<1>7. FlattenSeq(asks(l)) \in Seq(Calls) /\ FlattenSeq(answers(l)) \in Seq(Calls)
  BY <1>3, <1>4, FlattenType
<1>8. /\ FlattenSeq(asks(k)) = FlattenSeq(asks(l)) \o AskedBy(e)
      /\ FlattenSeq(answers(k)) = FlattenSeq(answers(l)) \o AnsweredBy(e)
  <2>1. AskedBy(e) \in Seq(Calls) /\ AnsweredBy(e) \in Seq(Calls)
    BY AskedByType
  <2>2. FlattenSeq(asks(k)) = FlattenSeq(asks(l)) \o AskedBy(e)
    BY <1>3, <1>5, <2>1, FlattenAppend
  <2>3. FlattenSeq(answers(k)) = FlattenSeq(answers(l)) \o AnsweredBy(e)
    BY <1>4, <1>6, <2>1, FlattenAppend
  <2> QED BY <2>2, <2>3
<1> QED BY <1>2, <1>7, <1>8 DEF k

\* What the log says of a call or a step changes with the events about it only.
LEMMA SaidStep ==
  ASSUME NEW l \in Seq(AnyEvent), NEW e \in AnyEvent, NEW c
  PROVE  /\ CallLogged(Append(l, e), Len(Append(l, e)), c)
              <=> CallLogged(l, Len(l), c) \/ (e.type = "tool/call" /\ e.call = c)
         /\ UsedIn(Append(l, e), c)
              <=> \/ UsedIn(l, c)
                  \/ /\ e.type = "assistant/message"
                     /\ \E i \in DOMAIN e.calls : e.calls[i] = c
         /\ Disowned(Append(l, e), c)
              <=> \/ Disowned(l, c)
                  \/ e.type = "tool/result" /\ e.call = c /\ e.outcome \in Disowning
<1> DEFINE k == Append(l, e)
<1>1. /\ Len(l) \in Nat /\ Len(k) = Len(l) + 1
      /\ \A n \in 1..Len(l) : k[n] = l[n]
      /\ k[Len(l) + 1] = e
  OBVIOUS
<1>2. \A n : n \in 1..Len(k) <=> n \in 1..Len(l) \/ n = Len(l) + 1
  BY <1>1
<1> HIDE DEF k
<1>3. CallLogged(k, Len(k), c)
        <=> CallLogged(l, Len(l), c) \/ (e.type = "tool/call" /\ e.call = c)
  BY <1>1, <1>2 DEF CallLogged
<1>4. UsedIn(k, c)
        <=> \/ UsedIn(l, c)
            \/ /\ e.type = "assistant/message"
               /\ \E i \in DOMAIN e.calls : e.calls[i] = c
  BY <1>1, <1>2 DEF UsedIn
<1>5. Disowned(k, c)
        <=> \/ Disowned(l, c)
            \/ e.type = "tool/result" /\ e.call = c /\ e.outcome \in Disowning
  BY <1>1, <1>2 DEF Disowned
<1> QED BY <1>3, <1>4, <1>5 DEF k

LEMMA PrefixStep ==
  ASSUME NEW l \in Seq(AnyEvent), NEW e \in AnyEvent
  PROVE  /\ Append(l, e) \in Seq(AnyEvent) /\ Len(Append(l, e)) = Len(l) + 1
         /\ SubSeq(Append(l, e), 1, Len(l) + 1) = Append(l, e)
         /\ \A n \in 0..Len(l) : SubSeq(Append(l, e), 1, n) = SubSeq(l, 1, n)
<1>1. /\ Append(l, e) \in Seq(AnyEvent) /\ Len(Append(l, e)) = Len(l) + 1 /\ Len(l) \in Nat
      /\ \A n \in 1..Len(l) : Append(l, e)[n] = l[n]
  BY AppendProperties
<1>2. SubSeq(Append(l, e), 1, Len(Append(l, e))) = Append(l, e)
  BY <1>1, SubSeqFull
<1>3. ASSUME NEW n \in 0..Len(l) PROVE SubSeq(Append(l, e), 1, n) = SubSeq(l, 1, n)
  BY <1>1
<1> QED BY <1>1, <1>2, <1>3

LEMMA ValidStep ==
  ASSUME NEW l \in Seq(AnyEvent), NEW e \in AnyEvent, Valid(l), Accepts(TraceOf(l), e)
  PROVE  Valid(Append(l, e))
<1> SUFFICES ASSUME NEW n \in DOMAIN Append(l, e)
             PROVE  Accepts(TraceOf(SubSeq(Append(l, e), 1, n - 1)), Append(l, e)[n])
  BY DEF Valid
<1>1. n \in 1..(Len(l) + 1) /\ n - 1 \in 0..Len(l) /\ Len(l) \in Nat
  OBVIOUS
<1>2. SubSeq(Append(l, e), 1, n - 1) = SubSeq(l, 1, n - 1)
  BY <1>1, PrefixStep
<1>3. CASE n \in 1..Len(l)
  <2>1. Append(l, e)[n] = l[n] /\ n \in DOMAIN l
    BY <1>3
  <2>2. Accepts(TraceOf(SubSeq(l, 1, n - 1)), l[n])
    BY <2>1 DEF Valid
  <2> QED BY <1>2, <2>1, <2>2
<1>4. CASE n = Len(l) + 1
  <2>1. Append(l, e)[n] = e /\ n - 1 = Len(l) /\ SubSeq(l, 1, Len(l)) = l
    BY <1>4, SubSeqFull
  <2>2. SubSeq(Append(l, e), 1, n - 1) = l
    BY <1>2, <2>1
  <2> QED BY <2>1, <2>2
<1> QED BY <1>1, <1>3, <1>4

\* What the agent adds: calls are new.
Fits(l, e) ==
  /\ FitsScan(Scanned(l), e)
  /\ e.type = "assistant/message" => \A i \in DOMAIN e.calls : ~UsedIn(l, e.calls[i])

LEMMA MarkedStep ==
  ASSUME NEW l \in Seq(AnyEvent), NEW e \in AnyEvent, Good(l),
         Accepts(TraceOf(l), e), Fits(l, e)
  PROVE  Marked(Append(l, e), Scanned(Append(l, e)))
<1> DEFINE k == Append(l, e)
<1> DEFINE s == Scanned(l)
<1> DEFINE p == s.pending
<1> DEFINE v == Observe(s, e)
<1>0. /\ TraceOf(l) \in TraceT /\ s \in ScanT /\ Scanned(k) = v
      /\ Agree(TraceOf(l), s) /\ FitsScan(s, e)
  BY RecursionLaws, RecursionStep DEF Good, Fits
<1>1. /\ \A i \in DOMAIN p : /\ p[i].started <=> CallLogged(l, Len(l), p[i].call)
                             /\ UsedIn(l, p[i].call)
      /\ \A c \in Calls : CallLogged(l, Len(l), c) \/ Disowned(l, c) => UsedIn(l, c)
  BY DEF Good, Marked
<1>p. p \in Seq(Entry) /\ v.pending \in Seq(Entry)
  BY <1>0, ObserveType DEF ScanT
<1> HIDE DEF s, v
<1>2. /\ e.type = "assistant/message" => p = <<>> /\ v.pending = Requested(e)
      /\ e.type = "tool/call" => v.pending = [i \in DOMAIN p |-> Start(p[i], e)]
      /\ e.type = "tool/result" => p # <<>> /\ v.pending = Tail(p)
      /\ e.type \notin {"assistant/message", "tool/call", "tool/result"} => v.pending = p
  BY <1>0, PendingStep DEF v
<1>3. \A c : CallLogged(k, Len(k), c)
               <=> CallLogged(l, Len(l), c) \/ (e.type = "tool/call" /\ e.call = c)
  BY SaidStep
<1>4. \A c : UsedIn(k, c)
               <=> \/ UsedIn(l, c)
                   \/ /\ e.type = "assistant/message"
                      /\ \E i \in DOMAIN e.calls : e.calls[i] = c
  BY SaidStep
<1>5. \A c : Disowned(k, c)
               <=> \/ Disowned(l, c)
                   \/ e.type = "tool/result" /\ e.call = c /\ e.outcome \in Disowning
  BY SaidStep
<1> HIDE DEF k, p
<1>6. ASSUME NEW i \in DOMAIN v.pending
      PROVE  /\ v.pending[i].started <=> CallLogged(k, Len(k), v.pending[i].call)
             /\ UsedIn(k, v.pending[i].call)
  <2>1. CASE e.type = "assistant/message"
    <3>1. e.calls \in Seq(Calls)
      BY <2>1, EventShapes
    <3>a. v.pending = Requested(e)
      BY <1>2, <2>1
    <3>b. i \in DOMAIN e.calls
      BY <1>6, <3>a DEF Requested
    <3>2. /\ e.calls[i] \in Calls
          /\ v.pending[i] = [call |-> e.calls[i], turn |-> e.turn, step |-> e.step, started |-> FALSE]
      BY <3>1, <3>a, <3>b DEF Requested
    <3>3. ~UsedIn(l, e.calls[i])
      BY <2>1, <3>b DEF Fits
    <3>4. ~CallLogged(l, Len(l), e.calls[i])
      BY <1>1, <3>2, <3>3
    <3> QED BY <1>3, <1>4, <2>1, <3>b, <3>2, <3>4
  <2>2. CASE e.type = "tool/call"
    <3>1. i \in DOMAIN p /\ v.pending[i] = Start(p[i], e)
      BY <1>2, <1>6, <2>2
    <3>2. p[i] \in Entry
      BY <1>p, <3>1, EntryFields
    <3>3. /\ v.pending[i].call = p[i].call
          /\ v.pending[i].started <=> p[i].started \/ p[i].call = e.call
      BY <3>1, <3>2, StartType
    <3> QED BY <1>1, <1>3, <1>4, <2>2, <3>1, <3>3
  <2>3. CASE e.type = "tool/result"
    <3>1. p # <<>> /\ v.pending = Tail(p)
      BY <1>2, <2>3
    <3>2. i + 1 \in DOMAIN p /\ v.pending[i] = p[i + 1]
      BY <1>6, <1>p, <3>1
    <3> QED BY <1>1, <1>3, <1>4, <2>3, <3>2
  <2>4. CASE e.type \notin {"assistant/message", "tool/call", "tool/result"}
    <3>1. i \in DOMAIN p /\ v.pending[i] = p[i]
      BY <1>2, <1>6, <2>4
    <3> QED BY <1>1, <1>3, <1>4, <2>4, <3>1
  <2> QED BY <2>1, <2>2, <2>3, <2>4
<1>7. ASSUME NEW c \in Calls, CallLogged(k, Len(k), c) \/ Disowned(k, c)
      PROVE  UsedIn(k, c)
  <2>1. CASE CallLogged(l, Len(l), c) \/ Disowned(l, c)
    BY <1>1, <1>4, <2>1
  <2>2. CASE e.type = "tool/call" /\ e.call = c
    <3>1. PICK i \in DOMAIN p : p[i].call = c
      BY <1>0, <2>2 DEF FitsScan, p
    <3> QED BY <1>1, <1>4, <3>1
  <2>3. CASE e.type = "tool/result" /\ e.call = c
    <3>1. p # <<>> /\ p[1].call = c
      BY <1>0, <2>3 DEF FitsScan, p
    <3>2. 1 \in DOMAIN p
      BY <1>p, <3>1
    <3> QED BY <1>1, <1>4, <3>1, <3>2
  <2> QED BY <1>3, <1>5, <1>7, <2>1, <2>2, <2>3
<1>8. Marked(k, v)
  BY <1>6, <1>7 DEF Marked
<1> QED BY <1>0, <1>8 DEF k

\* A good log stays good.
LEMMA GoodStep ==
  ASSUME NEW l \in Seq(AnyEvent), NEW e \in AnyEvent, Good(l),
         Accepts(TraceOf(l), e), Fits(l, e)
  PROVE  Good(Append(l, e))
<1> DEFINE k == Append(l, e)
<1> DEFINE s == Scanned(l)
<1>0. /\ TraceOf(l) \in TraceT /\ s \in ScanT /\ Agree(TraceOf(l), s) /\ FitsScan(s, e)
      /\ TraceOf(k) = Advance(TraceOf(l), e) /\ Scanned(k) = Observe(s, e)
  BY RecursionLaws, RecursionStep DEF Good, Fits
<1> HIDE DEF s
<1>1. Valid(k)
  BY ValidStep DEF Good
<1>2. Agree(TraceOf(k), Scanned(k))
  BY <1>0, AgreeStep
<1>3. Marked(k, Scanned(k))
  BY MarkedStep
<1>4. Asks(k) = Answers(k) \o CallsOf(Scanned(k).pending)
  <2> DEFINE q == CallsOf(s.pending)
  <2> DEFINE r == CallsOf(Observe(s, e).pending)
  <2>1. s.pending \in Seq(Entry) /\ Observe(s, e).pending \in Seq(Entry)
    BY <1>0, ObserveType DEF ScanT
  <2>2. q \in Seq(Calls) /\ r \in Seq(Calls)
    BY <2>1, CallsOfType
  <2>3. Asks(l) = Answers(l) \o q
    BY DEF Good, s
  <2>4. /\ e.type = "assistant/message" => q = <<>> /\ r = e.calls
        /\ e.type = "tool/result" => q # <<>> /\ e.call = q[1] /\ r = Tail(q)
        /\ e.type \notin {"assistant/message", "tool/result"} => r = q
    BY <1>0, NamesStep
  <2>5. /\ Asks(l) \in Seq(Calls) /\ Answers(l) \in Seq(Calls)
        /\ Asks(k) = Asks(l) \o AskedBy(e) /\ Answers(k) = Answers(l) \o AnsweredBy(e)
    BY AsksStep
  <2> HIDE DEF q, r, k
  <2>6. Asks(k) = Answers(k) \o r
    <3>1. CASE e.type = "assistant/message"
      <4>1. AskedBy(e) = r /\ AnsweredBy(e) = <<>>
        BY <2>4, <3>1 DEF AskedBy, AnsweredBy
      <4>2. Answers(k) = Answers(l) /\ Asks(l) = Answers(l)
        BY <2>3, <2>4, <2>5, <3>1, <4>1, ConcatEmptySeq
      <4> QED BY <2>5, <4>1, <4>2
    <3>2. CASE e.type = "tool/result"
      <4>1. AskedBy(e) = <<>> /\ AnsweredBy(e) = <<q[1]>> /\ r = Tail(q) /\ q # <<>>
        BY <2>4, <3>2 DEF AskedBy, AnsweredBy
      <4>2. Asks(k) = Answers(l) \o q
        BY <2>3, <2>5, <4>1, ConcatEmptySeq
      <4>3. /\ q = <<q[1]>> \o Tail(q) /\ <<q[1]>> \in Seq(Calls) /\ Tail(q) \in Seq(Calls)
        BY <2>2, <4>1
      <4>4. Answers(l) \o (<<q[1]>> \o Tail(q)) = (Answers(l) \o <<q[1]>>) \o Tail(q)
        <5> DEFINE a == Answers(l)  b == <<q[1]>>  c == Tail(q)
        <5>1. a \in Seq(Calls) /\ b \in Seq(Calls) /\ c \in Seq(Calls)
          BY <2>5, <4>3
        <5> HIDE DEF a, b, c
        <5>2. a \o (b \o c) = (a \o b) \o c
          BY <5>1, ConcatAssociative
        <5> QED BY <5>2 DEF a, b, c
      <4> QED BY <2>5, <4>1, <4>2, <4>3, <4>4
    <3>3. CASE e.type \notin {"assistant/message", "tool/result"}
      <4>1. AskedBy(e) = <<>> /\ AnsweredBy(e) = <<>> /\ r = q
        BY <2>4, <3>3 DEF AskedBy, AnsweredBy
      <4>2. Asks(k) = Asks(l) /\ Answers(k) = Answers(l)
        BY <2>5, <4>1, ConcatEmptySeq
      <4> QED BY <2>3, <4>1, <4>2
    <3> QED BY <3>1, <3>2, <3>3
  <2> QED BY <1>0, <2>6 DEF r
<1> HIDE DEF k
<1>5. Good(k)
  BY <1>1, <1>2, <1>3, <1>4 DEF Good
<1> QED BY <1>5 DEF k

LEMMA AllGoodStep ==
  ASSUME NEW l \in Seq(AnyEvent), NEW e \in AnyEvent, AllGood(l),
         Accepts(TraceOf(l), e), Fits(l, e)
  PROVE  AllGood(Append(l, e)) /\ Good(l)
<1>1. Good(l)
  <2>1. Len(l) \in 0..Len(l) /\ SubSeq(l, 1, Len(l)) = l
    BY SubSeqFull
  <2>2. Good(SubSeq(l, 1, Len(l)))
    BY <2>1 DEF AllGood
  <2> QED BY <2>1, <2>2
<1>2. Good(Append(l, e))
  BY <1>1, GoodStep
<1>3. ASSUME NEW n \in 0..Len(Append(l, e)) PROVE Good(SubSeq(Append(l, e), 1, n))
  <2>1. CASE n \in 0..Len(l)
    <3>1. SubSeq(Append(l, e), 1, n) = SubSeq(l, 1, n)
      BY <2>1, PrefixStep
    <3>2. Good(SubSeq(l, 1, n))
      BY <2>1 DEF AllGood
    <3> QED BY <3>1, <3>2
  <2>2. CASE n = Len(l) + 1
    BY <1>2, <2>2, PrefixStep
  <2>3. n \in 0..Len(l) \/ n = Len(l) + 1
    BY <1>3, PrefixStep
  <2> QED BY <2>1, <2>2, <2>3
<1> QED BY <1>1, <1>3 DEF AllGood
-----------------------------------------------------------------------------
(* Repair.                                                                 *)

ClosersOf(s) ==
  IF s.turn = Closed THEN <<>>
  ELSE Results(s.pending)
         \o (IF s.step = Closed THEN <<>> ELSE <<StepEnd(s.turn, s.step)>>)
         \o <<TurnEnd(s.turn)>>
FirstCloser(s) ==
  IF s.pending # <<>> THEN Results(s.pending)[1]
  ELSE IF s.step # Closed THEN StepEnd(s.turn, s.step) ELSE TurnEnd(s.turn)

LEMMA ClosersIs == ASSUME NEW l PROVE Closers(l) = ClosersOf(Scanned(l))
BY DEF Closers, ClosersOf

LEMMA AnswerType ==
  ASSUME NEW t \in Turns, NEW s \in Steps, NEW c \in Calls,
         NEW o \in Outcomes \cup {"not started", "unknown"}
  PROVE  Answer(t, s, c, o) \in Event
<1>1. (o = "not started") \in BOOLEAN
  OBVIOUS
<1>2. Answer(t, s, c, o) \in
        [type : {"tool/result"}, turn : Turns, step : Steps, call : Calls,
         notStarted : BOOLEAN, outcome : Outcomes \cup {"not started", "unknown"}]
  BY <1>1 DEF Answer
<1> QED BY <1>2 DEF Event

\* What repair answers for a pending call.
Claim(b) == Answer(b.turn, b.step, b.call, IF b.started THEN "unknown" ELSE "not started")

LEMMA ResultsAre ==
  ASSUME NEW p \in Seq(Entry)
  PROVE  /\ Results(p) \in Seq(Event) /\ Len(Results(p)) = Len(p)
         /\ \A i \in 1..Len(p) : Results(p)[i] = Claim(p[i])
<1>1. \A i \in 1..Len(p) : Claim(p[i]) \in Event
  <2> TAKE i \in 1..Len(p)
  <2> DEFINE o == IF p[i].started THEN "unknown" ELSE "not started"
  <2>1. p[i].call \in Calls /\ p[i].turn \in Turns /\ p[i].step \in Steps
    BY EntryFields
  <2>2. o \in Outcomes \cup {"not started", "unknown"}
    OBVIOUS
  <2>3. Claim(p[i]) = Answer(p[i].turn, p[i].step, p[i].call, o)
    BY DEF Claim
  <2> HIDE DEF o
  <2>4. (o = "not started") \in BOOLEAN
    OBVIOUS
  <2> QED BY <2>1, <2>2, <2>3, <2>4, AnswerType
<1>2. DOMAIN p = 1..Len(p) /\ Len(p) \in Nat
  BY EntryFields
<1>3. Results(p) = [i \in 1..Len(p) |-> Claim(p[i])]
  BY <1>2 DEF Results, Claim
<1> QED BY <1>1, <1>2, <1>3, IsASeq

LEMMA ResultsFirst ==
  ASSUME NEW p \in Seq(Entry), p # <<>>
  PROVE  /\ Results(p)[1] \in Event /\ Results(Tail(p)) \in Seq(Event)
         /\ Results(p) = <<Results(p)[1]>> \o Results(Tail(p))
<1> DEFINE r == Results(p)
<1> DEFINE q == Results(Tail(p))
<1>1. /\ Tail(p) \in Seq(Entry) /\ Len(Tail(p)) = Len(p) - 1 /\ Len(p) \in Nat \ {0}
      /\ \A i \in 1..Len(Tail(p)) : Tail(p)[i] = p[i + 1] /\ i + 1 \in 1..Len(p)
  OBVIOUS
<1>2. r \in Seq(Event) /\ Len(r) = Len(p) /\ \A i \in 1..Len(p) : r[i] = Claim(p[i])
  BY ResultsAre
<1>3. /\ q \in Seq(Event) /\ Len(q) = Len(Tail(p))
      /\ \A i \in 1..Len(Tail(p)) : q[i] = Claim(Tail(p)[i])
  BY <1>1, ResultsAre
<1> HIDE DEF r, q
<1>4. \A i \in 1..Len(q) : q[i] = r[i + 1]
  BY <1>1, <1>2, <1>3
<1>5. r[1] \in Event /\ Len(q) \in Nat /\ Len(r) = Len(q) + 1
  BY <1>1, <1>2, <1>3
<1>6. /\ <<r[1]>> \o q \in Seq(Event) /\ Len(<<r[1]>> \o q) = Len(r)
      /\ \A i \in 1..Len(r) : r[i] = (<<r[1]>> \o q)[i]
  BY <1>3, <1>4, <1>5
<1>7. r = <<r[1]>> \o q
  BY <1>2, <1>6, SeqEqual
<1> QED BY <1>3, <1>5, <1>7 DEF r, q

LEMMA ClosersType ==
  ASSUME NEW t \in TraceT, NEW s \in ScanT, Agree(t, s)
  PROVE  /\ ClosersOf(s) \in Seq(Event)
         /\ s.turn # Closed => FirstCloser(s) \in Event
<1>1. /\ s.turn \in 0..MaxTurns /\ s.step \in 0..MaxSteps /\ s.pending \in Seq(Entry)
  BY DEF ScanT
<1>2. s.turn # Closed => s.turn \in Turns
  BY <1>1, BoundsAssumption DEF Turns, Closed
<1>3. s.step # Closed => s.step \in Steps
  BY <1>1, BoundsAssumption DEF Steps, Closed
<1>4. s.turn # Closed => TurnEnd(s.turn) \in Event
  BY <1>2 DEF Event
<1>5. s.turn # Closed /\ s.step # Closed => StepEnd(s.turn, s.step) \in Event
  BY <1>2, <1>3 DEF Event, StepEnd
<1>6. Results(s.pending) \in Seq(Event)
  BY <1>1, ResultsAre
<1>7. s.pending # <<>> => Results(s.pending)[1] \in Event
  BY <1>1, ResultsFirst
<1>8. s.turn # Closed => FirstCloser(s) \in Event
  BY <1>4, <1>5, <1>7 DEF FirstCloser
<1>9. ClosersOf(s) \in Seq(Event)
  <2>1. CASE s.turn = Closed
    BY <2>1 DEF ClosersOf
  <2>2. CASE s.turn # Closed
    <3>1. <<TurnEnd(s.turn)>> \in Seq(Event)
      BY <1>4, <2>2
    <3>2. (IF s.step = Closed THEN <<>> ELSE <<StepEnd(s.turn, s.step)>>) \in Seq(Event)
      BY <1>5, <2>2
    <3> QED BY <1>6, <2>2, <3>1, <3>2 DEF ClosersOf
  <2> QED BY <2>1, <2>2
<1> QED BY <1>8, <1>9

\* The first closer is accepted, and the others are what is still to close.
LEMMA CloserStep ==
  ASSUME NEW t \in TraceT, NEW s \in ScanT, Agree(t, s), s.turn # Closed
  PROVE  /\ Accepts(t, FirstCloser(s)) /\ FitsScan(s, FirstCloser(s))
         /\ FirstCloser(s).type \in {"tool/result", "step/end", "turn/end"}
         /\ FirstCloser(s).type = "tool/result" =>
              /\ s.pending # <<>> /\ FirstCloser(s).call = s.pending[1].call
              /\ FirstCloser(s).outcome \in Disowning => ~s.pending[1].started
         /\ ClosersOf(s) = <<FirstCloser(s)>> \o ClosersOf(Observe(s, FirstCloser(s)))
<1> DEFINE e == FirstCloser(s)
<1> DEFINE v == Observe(s, e)
<1>1. /\ s.turn \in 0..MaxTurns /\ s.step \in 0..MaxSteps /\ s.pending \in Seq(Entry)
      /\ s = [turn |-> s.turn, step |-> s.step, pending |-> s.pending]
      /\ e \in Event /\ e \in AnyEvent
  BY ClosersType DEF ScanT, AnyEvent
<1>2. /\ s.turn = t.openTurn /\ s.step = t.openStep
      /\ t.openStep = Closed => s.pending = <<>>
      /\ \A i \in DOMAIN s.pending :
           /\ s.pending[i].turn = t.openTurn /\ s.pending[i].step = t.openStep
           /\ s.pending[i].started => s.pending[i].call \in t.pending
  BY DEF Agree
<1>v. v \in ScanT /\ Agree(t, s)
  BY <1>1, ObserveType
<1>3. CASE s.pending # <<>>
  <2> DEFINE b == s.pending[1]
  <2>1. 1 \in DOMAIN s.pending /\ 1 \in 1..Len(s.pending)
    BY <1>1, <1>3
  <2>2. e = Answer(b.turn, b.step, b.call, IF b.started THEN "unknown" ELSE "not started")
    BY <1>1, <1>3, <2>1, ResultsAre DEF FirstCloser, Claim
  <2> HIDE DEF e
  <2>3. /\ e.type = "tool/result" /\ e.turn = b.turn /\ e.step = b.step /\ e.call = b.call
        /\ e.outcome = (IF b.started THEN "unknown" ELSE "not started")
        /\ e.notStarted <=> ~b.started
    BY <2>2 DEF Answer
  <2>4. Accepts(t, e)
    BY <1>2, <2>1, <2>3 DEF Accepts, InOpenStep
  <2>5. FitsScan(s, e)
    BY <1>3, <2>3 DEF FitsScan
  <2>6. e.outcome \in Disowning => ~b.started
    BY <2>3 DEF Disowning
  <2>7. v.pending = Tail(s.pending)
    BY <1>1, <1>v, <2>3, <2>4, <2>5, PendingStep DEF v
  <2>8. v.turn = s.turn /\ v.step = s.step
    BY <1>1, <2>3 DEF Observe
  <2>9. ClosersOf(s) = <<e>> \o ClosersOf(v)
    <3> DEFINE r == Results(Tail(s.pending))
    <3> DEFINE x == IF s.step = Closed THEN <<>> ELSE <<StepEnd(s.turn, s.step)>>
    <3> DEFINE y == <<TurnEnd(s.turn)>>
    <3> HIDE DEF v
    <3>1. Results(s.pending) = <<e>> \o r /\ r \in Seq(Event) /\ <<e>> \in Seq(Event)
      <4>1. e = Results(s.pending)[1]
        BY <1>3 DEF e, FirstCloser
      <4> QED BY <1>1, <1>3, <4>1, ResultsFirst
    <3>2. s.turn \in Turns
      BY <1>1, BoundsAssumption DEF Turns, Closed
    <3>3. s.step # Closed => s.step \in Steps
      BY <1>1, BoundsAssumption DEF Steps, Closed
    <3>4. x \in Seq(Event)
      <4>1. s.step # Closed => StepEnd(s.turn, s.step) \in Event
        BY <3>2, <3>3 DEF Event, StepEnd
      <4> QED BY <4>1
    <3>5. y \in Seq(Event)
      <4>1. TurnEnd(s.turn) \in Event
        BY <3>2 DEF Event
      <4> QED BY <4>1
    <3>6. ClosersOf(s) = (<<e>> \o r) \o x \o y
      BY <3>1 DEF ClosersOf
    <3>7. ClosersOf(v) = r \o x \o y
      BY <2>7, <2>8 DEF ClosersOf
    <3> HIDE DEF r, x, y
    <3>8. (<<e>> \o r) \o x = <<e>> \o (r \o x) /\ r \o x \in Seq(Event)
      BY <3>1, <3>4, ConcatAssociative
    <3>9. (<<e>> \o (r \o x)) \o y = <<e>> \o ((r \o x) \o y)
      BY <3>1, <3>5, <3>8, ConcatAssociative
    <3> QED BY <3>6, <3>7, <3>8, <3>9
  <2> QED BY <1>3, <2>3, <2>4, <2>5, <2>6, <2>9 DEF e
<1>4. CASE s.pending = <<>> /\ s.step # Closed
  <2>1. e = StepEnd(s.turn, s.step)
    BY <1>4 DEF FirstCloser
  <2> HIDE DEF e
  <2>2. e.type = "step/end" /\ e.turn = s.turn /\ e.step = s.step
    BY <2>1 DEF StepEnd
  <2>3. Accepts(t, e)
    BY <1>2, <2>2 DEF Accepts, InOpenStep
  <2>4. FitsScan(s, e)
    BY <1>4, <2>2 DEF FitsScan
  <2>5. v = [turn |-> s.turn, step |-> Closed, pending |-> <<>>]
    BY <1>1, <2>2 DEF Observe
  <2>6. ClosersOf(s) = <<e>> \o ClosersOf(v)
    <3>1. Results(<<>>) = <<>>
      BY DEF Results
    <3>a. <<>> \o <<e>> = <<e>> /\ <<>> \o <<TurnEnd(s.turn)>> = <<TurnEnd(s.turn)>>
          /\ <<>> \o <<>> = <<>>
      OBVIOUS
    <3>2. ClosersOf(v) = <<TurnEnd(s.turn)>>
      <4> HIDE DEF v
      <4>1. ClosersOf(v) = <<>> \o <<>> \o <<TurnEnd(s.turn)>>
        BY <2>5, <3>1 DEF ClosersOf
      <4> QED BY <4>1, <3>a, Zenon
    <3>3. ClosersOf(s) = <<e>> \o <<TurnEnd(s.turn)>>
      <4>1. ClosersOf(s) = <<>> \o <<e>> \o <<TurnEnd(s.turn)>>
        BY <1>4, <2>1, <3>1 DEF ClosersOf
      <4> QED BY <4>1, <3>a, Zenon
    <3> QED BY <3>2, <3>3
  <2> QED BY <2>2, <2>3, <2>4, <2>6 DEF e
<1>5. CASE s.pending = <<>> /\ s.step = Closed
  <2>1. e = TurnEnd(s.turn)
    BY <1>5 DEF FirstCloser
  <2> HIDE DEF e
  <2>2. e.type = "turn/end" /\ e.turn = s.turn
    BY <2>1 DEF TurnEnd
  <2>3. Accepts(t, e)
    BY <1>2, <1>5, <2>2 DEF Accepts
  <2>4. FitsScan(s, e)
    BY <1>5, <2>2 DEF FitsScan
  <2>5. v = FreshScan
    BY <2>2 DEF Observe
  <2>6. ClosersOf(s) = <<e>> \o ClosersOf(v)
    <3>1. Results(<<>>) = <<>>
      BY DEF Results
    <3>2. ClosersOf(v) = <<>>
      BY <2>5 DEF ClosersOf, FreshScan
    <3>a. <<>> \o <<e>> = <<e>> /\ <<>> \o <<>> = <<>> /\ <<e>> \o <<>> = <<e>>
      OBVIOUS
    <3>3. ClosersOf(s) = <<>> \o <<>> \o <<e>>
      BY <1>5, <2>1, <3>1 DEF ClosersOf
    <3>4. ClosersOf(s) = <<e>>
      BY <3>3, <3>a, Zenon
    <3> QED BY <3>2, <3>4, <3>a
  <2> QED BY <2>2, <2>3, <2>4, <2>6 DEF e
<1> QED BY <1>3, <1>4, <1>5

\* What a stage of repair has made of l when n closers are appended.
Partly(l, n) == l \o SubSeq(Closers(l), 1, n)
RepairedSoFar(l, n) ==
  /\ Partly(l, n) \in Seq(AnyEvent) /\ AllGood(Partly(l, n))
  /\ Len(l) <= Len(Partly(l, n)) /\ \A i \in 1..Len(l) : Partly(l, n)[i] = l[i]
  /\ Closers(Partly(l, n)) = SubSeq(Closers(l), n + 1, Len(Closers(l)))
  /\ \A c \in Calls : Disowned(Partly(l, n), c)
                        => Disowned(l, c) \/ ~CallLogged(l, Len(l), c)

LEMMA GoodOf ==
  ASSUME NEW l \in Seq(AnyEvent), AllGood(l)
  PROVE  Good(l)
<1>1. Len(l) \in 0..Len(l) /\ SubSeq(l, 1, Len(l)) = l
  BY SubSeqFull
<1>2. Good(SubSeq(l, 1, Len(l)))
  BY <1>1 DEF AllGood
<1> QED BY <1>1, <1>2

LEMMA ClosersOfGood ==
  ASSUME NEW l \in Seq(AnyEvent), Good(l)
  PROVE  Closers(l) \in Seq(Event) /\ Closers(l) \in Seq(AnyEvent)
<1>1. TraceOf(l) \in TraceT /\ Scanned(l) \in ScanT /\ Agree(TraceOf(l), Scanned(l))
  BY RecursionLaws DEF Good
<1>2. Closers(l) \in Seq(Event)
  BY <1>1, ClosersIs, ClosersType
<1> QED BY <1>2, SeqMonotonic DEF AnyEvent

LEMMA RepairStarts ==
  ASSUME NEW l \in Seq(AnyEvent), AllGood(l)
  PROVE  RepairedSoFar(l, 0)
<1>1. Closers(l) \in Seq(AnyEvent)
  BY GoodOf, ClosersOfGood
<1>2. SubSeq(Closers(l), 1, 0) = <<>> /\ SubSeq(Closers(l), 0 + 1, Len(Closers(l))) = Closers(l)
  BY <1>1, SubSeqFull
<1>3. Partly(l, 0) = l
  BY <1>2, ConcatEmptySeq DEF Partly
<1> QED BY <1>2, <1>3 DEF RepairedSoFar

LEMMA RepairGoesOn ==
  ASSUME NEW l \in Seq(AnyEvent), AllGood(l), NEW n \in Nat, n < Len(Closers(l)),
         RepairedSoFar(l, n)
  PROVE  RepairedSoFar(l, n + 1)
<1> DEFINE cs == Closers(l)
<1> DEFINE k == Partly(l, n)
<1> DEFINE s == Scanned(k)
<1> DEFINE t == TraceOf(k)
<1> DEFINE e == FirstCloser(s)
<1> DEFINE m == Len(cs)
<1>1. cs \in Seq(Event) /\ cs \in Seq(AnyEvent)
  BY GoodOf, ClosersOfGood
<1>2. /\ k \in Seq(AnyEvent) /\ AllGood(k) /\ Len(l) <= Len(k)
      /\ \A i \in 1..Len(l) : k[i] = l[i]
      /\ Closers(k) = SubSeq(cs, n + 1, m)
      /\ \A c \in Calls : Disowned(k, c) => Disowned(l, c) \/ ~CallLogged(l, Len(l), c)
  BY DEF RepairedSoFar
<1>3. t \in TraceT /\ s \in ScanT /\ Agree(t, s) /\ Good(k) /\ Closers(k) = ClosersOf(s)
  BY <1>2, GoodOf, RecursionLaws, ClosersIs DEF Good
<1>4. n + 1 \in 1..m /\ m \in (n + 1)..m /\ m \in Nat
  BY <1>1
<1>5. SubSeq(cs, n + 1, m) = <<cs[n + 1]>> \o SubSeq(cs, n + 2, m)
  <2>1. (n + 1) + 1 = n + 2
    OBVIOUS
  <2> HIDE DEF cs, m
  <2>2. SubSeq(cs, n + 1, m) = <<cs[n + 1]>> \o SubSeq(cs, (n + 1) + 1, m)
    BY <1>1, <1>4, SubSeqRecursiveFirst DEF m
  <2> QED BY <2>1, <2>2
<1>6. SubSeq(cs, n + 2, m) \in Seq(AnyEvent) /\ cs[n + 1] \in AnyEvent
  <2> HIDE DEF cs
  <2> QED BY <1>1, <1>4
<1>7. s.turn # Closed
  <2>1. SubSeq(cs, n + 1, m) # <<>>
    <3>1. \A x \in AnyEvent : \A q \in Seq(AnyEvent) : <<x>> \o q # <<>>
      OBVIOUS
    <3> HIDE DEF cs, m
    <3> QED BY <1>5, <1>6, <3>1, Zenon
  <2> HIDE DEF s, k, cs, m
  <2> QED BY <1>2, <1>3, <2>1 DEF ClosersOf
<1>8. e \in Event /\ e \in AnyEvent
  BY <1>3, <1>7, ClosersType DEF AnyEvent
<1>9. /\ Accepts(t, e) /\ FitsScan(s, e)
      /\ e.type \in {"tool/result", "step/end", "turn/end"}
      /\ e.type = "tool/result" => /\ s.pending # <<>> /\ e.call = s.pending[1].call
                                   /\ e.outcome \in Disowning => ~s.pending[1].started
      /\ ClosersOf(s) = <<e>> \o ClosersOf(Observe(s, e))
  <2> HIDE DEF s, t
  <2> QED BY <1>3, <1>7, CloserStep
<1>10. Fits(k, e)
  BY <1>9 DEF Fits
<1>11. AllGood(Append(k, e)) /\ Append(k, e) \in Seq(AnyEvent)
  <2> HIDE DEF k, e
  <2> QED BY <1>2, <1>8, <1>9, <1>10, AllGoodStep DEF t
<1>12. Scanned(Append(k, e)) = Observe(s, e)
  <2> HIDE DEF k, e
  <2> QED BY <1>2, <1>8, RecursionStep DEF s
<1>13. Closers(Append(k, e)) = ClosersOf(Observe(s, e))
  BY <1>12, ClosersIs
<1>14. ClosersOf(Observe(s, e)) \in Seq(AnyEvent)
  <2>1. Closers(Append(k, e)) \in Seq(AnyEvent)
    <3> HIDE DEF k, e
    <3> QED BY <1>11, GoodOf, ClosersOfGood
  <2> QED BY <1>13, <2>1
<1>15. e = cs[n + 1] /\ ClosersOf(Observe(s, e)) = SubSeq(cs, n + 2, m)
  <2> DEFINE r == ClosersOf(Observe(s, e))
  <2> DEFINE q == SubSeq(cs, n + 2, m)
  <2> DEFINE x == cs[n + 1]
  <2>1. <<e>> \o r = <<x>> \o q
    BY <1>2, <1>3, <1>5, <1>9
  <2>2. r \in Seq(AnyEvent) /\ q \in Seq(AnyEvent) /\ x \in AnyEvent /\ e \in AnyEvent
    BY <1>6, <1>8, <1>14
  <2> HIDE DEF r, q, x, e
  <2>3. /\ Head(<<e>> \o r) = e /\ Tail(<<e>> \o r) = r
        /\ Head(<<x>> \o q) = x /\ Tail(<<x>> \o q) = q
    BY <2>2
  <2>4. e = x /\ r = q
    BY <2>1, <2>3
  <2> QED BY <2>4 DEF r, q, x
<1>16. Partly(l, n + 1) = Append(k, e)
  <2>1. SubSeq(cs, 1, n + 1) = SubSeq(cs, 1, n) \o <<cs[n + 1]>>
    <3>1. 1 \in 1..Len(cs) /\ n + 1 \in 1..Len(cs) /\ (n + 1) - 1 = n
      BY <1>4
    <3> HIDE DEF cs
    <3>2. SubSeq(cs, 1, n + 1) = SubSeq(cs, 1, (n + 1) - 1) \o <<cs[n + 1]>>
      BY <1>1, <3>1, SubSeqRecursiveSecond
    <3> QED BY <3>1, <3>2
  <2>2. SubSeq(cs, 1, n) \in Seq(AnyEvent) /\ <<cs[n + 1]>> \in Seq(AnyEvent)
    <3> HIDE DEF cs
    <3> QED BY <1>1, <1>4, <1>6
  <2>3. l \o (SubSeq(cs, 1, n) \o <<cs[n + 1]>>) = (l \o SubSeq(cs, 1, n)) \o <<cs[n + 1]>>
    <3> HIDE DEF cs
    <3> QED BY <2>2, ConcatAssociative
  <2>4. Append(k, e) = k \o <<e>>
    <3> HIDE DEF k, e
    <3> QED BY <1>2, <1>8, AppendIsConcat
  <2>5. k = l \o SubSeq(cs, 1, n) /\ Partly(l, n + 1) = l \o SubSeq(cs, 1, n + 1)
    BY DEF Partly
  <2> HIDE DEF k, e, cs
  <2> QED BY <1>15, <2>1, <2>3, <2>4, <2>5
<1>17. (n + 1) + 1 = n + 2
  OBVIOUS
<1>18. ASSUME NEW c \in Calls, Disowned(Append(k, e), c)
       PROVE  Disowned(l, c) \/ ~CallLogged(l, Len(l), c)
  <2>1. CASE Disowned(k, c)
    BY <1>2, <2>1
  <2>2. CASE e.type = "tool/result" /\ e.call = c /\ e.outcome \in Disowning
    <3>1. s.pending # <<>> /\ s.pending[1].call = c /\ ~s.pending[1].started
      BY <1>9, <2>2
    <3>2. 1 \in DOMAIN s.pending
      <4> HIDE DEF s
      <4>1. s.pending \in Seq(Entry)
        BY <1>3 DEF ScanT
      <4> QED BY <3>1, <4>1
    <3>3. ~CallLogged(k, Len(k), c)
      <4>1. s.pending[1].started <=> CallLogged(k, Len(k), s.pending[1].call)
        BY <1>3, <3>2 DEF Good, Marked
      <4> QED BY <3>1, <4>1
    <3>4. CallLogged(l, Len(l), c) => CallLogged(k, Len(k), c)
      <4> HIDE DEF k
      <4> QED BY <1>2 DEF CallLogged
    <3> QED BY <3>3, <3>4
  <2>3. Disowned(k, c) \/ (e.type = "tool/result" /\ e.call = c /\ e.outcome \in Disowning)
    <3> HIDE DEF k, e
    <3> QED BY <1>2, <1>8, <1>18, SaidStep
  <2> QED BY <2>1, <2>2, <2>3
<1>19. Len(l) <= Len(Append(k, e)) /\ \A i \in 1..Len(l) : Append(k, e)[i] = l[i]
  <2> HIDE DEF k, e
  <2> QED BY <1>2, <1>8
<1> HIDE DEF k, e
<1>20. Closers(Append(k, e)) = SubSeq(Closers(l), (n + 1) + 1, Len(Closers(l)))
  BY <1>13, <1>15, <1>17
<1> QED BY <1>11, <1>16, <1>18, <1>19, <1>20 DEF RepairedSoFar

\* A repair that has been cut short anywhere goes on as if it had not been.
LEMMA RepairContinues ==
  ASSUME NEW l \in Seq(AnyEvent), AllGood(l), NEW n \in 0..Len(Closers(l))
  PROVE  RepairedSoFar(l, n)
<1> DEFINE N == Len(Closers(l))
<1> DEFINE S == {i \in Nat : i <= N => RepairedSoFar(l, i)}
<1>1. N \in Nat
  BY GoodOf, ClosersOfGood
<1>2. 0 \in S
  BY RepairStarts
<1>3. ASSUME NEW i \in S PROVE i + 1 \in S
  <2> SUFFICES ASSUME i + 1 <= N PROVE RepairedSoFar(l, i + 1)
    OBVIOUS
  <2>1. i \in Nat /\ i < N /\ RepairedSoFar(l, i)
    BY <1>1
  <2> QED BY <2>1, RepairGoesOn
<1> HIDE DEF S
<1>4. Nat \subseteq S
  BY <1>2, <1>3, NatSetInduction
<1>5. n \in Nat /\ n <= N
  BY <1>1
<1> QED BY <1>4, <1>5 DEF S

\* The repaired log: nothing is open and every call is answered.
LEMMA ResumedIs ==
  ASSUME NEW l \in Seq(AnyEvent), AllGood(l)
  PROVE  /\ Resumed(l) \in Seq(AnyEvent) /\ AllGood(Resumed(l)) /\ Good(Resumed(l))
         /\ Valid(Resumed(l)) /\ AllAnswered(Resumed(l))
         /\ TraceOf(Resumed(l)).openTurn = Closed /\ TraceOf(Resumed(l)).openStep = Closed
         /\ Len(l) <= Len(Resumed(l)) /\ \A i \in 1..Len(l) : Resumed(l)[i] = l[i]
         /\ \A c \in Calls : Disowned(Resumed(l), c)
                               => Disowned(l, c) \/ ~CallLogged(l, Len(l), c)
<1> DEFINE cs == Closers(l)
<1> DEFINE k == Resumed(l)
<1>1. cs \in Seq(AnyEvent) /\ Len(cs) \in Nat
  BY GoodOf, ClosersOfGood
<1>2. Partly(l, Len(cs)) = k
  <2>1. SubSeq(cs, 1, Len(cs)) = cs
    BY <1>1, SubSeqFull
  <2> QED BY <2>1 DEF Partly, Resumed
<1>3. RepairedSoFar(l, Len(cs))
  BY <1>1, RepairContinues
<1>4. SubSeq(cs, Len(cs) + 1, Len(cs)) = <<>>
  <2> HIDE DEF cs
  <2> QED BY <1>1
<1> HIDE DEF k
<1>5. /\ k \in Seq(AnyEvent) /\ AllGood(k) /\ Closers(k) = <<>>
      /\ Len(l) <= Len(k) /\ \A i \in 1..Len(l) : k[i] = l[i]
      /\ \A c \in Calls : Disowned(k, c) => Disowned(l, c) \/ ~CallLogged(l, Len(l), c)
  BY <1>2, <1>3, <1>4 DEF RepairedSoFar
<1>6. Good(k)
  BY <1>5, GoodOf
<1> DEFINE s == Scanned(k)
<1> DEFINE t == TraceOf(k)
<1>7. t \in TraceT /\ s \in ScanT /\ Agree(t, s)
  BY <1>5, <1>6, RecursionLaws DEF Good
<1>8. s.turn = Closed
  <2>1. ClosersOf(s) = <<>>
    BY <1>5, ClosersIs
  <2> HIDE DEF s, t
  <2> SUFFICES ASSUME s.turn # Closed PROVE FALSE
    OBVIOUS
  <2>2. ClosersOf(s) = <<FirstCloser(s)>> \o ClosersOf(Observe(s, FirstCloser(s)))
    BY <1>7, CloserStep
  <2>3. FirstCloser(s) \in AnyEvent
    BY <1>7, ClosersType DEF AnyEvent
  <2>4. Accepts(t, FirstCloser(s)) /\ FitsScan(s, FirstCloser(s))
    BY <1>7, CloserStep
  <2>5. Agree(Advance(t, FirstCloser(s)), Observe(s, FirstCloser(s)))
    BY <1>7, <2>3, <2>4, AgreeStep
  <2>6. ClosersOf(Observe(s, FirstCloser(s))) \in Seq(Event)
    BY <1>7, <2>3, <2>5, AdvanceType, ObserveType, ClosersType
  <2>7. FirstCloser(s) \in Event
    BY <1>7, ClosersType
  <2>8. Len(<<FirstCloser(s)>> \o ClosersOf(Observe(s, FirstCloser(s)))) # 0
    BY <2>6, <2>7
  <2> QED BY <2>1, <2>2, <2>8
<1>9. t.openTurn = Closed /\ t.openStep = Closed /\ s.pending = <<>>
  BY <1>7, <1>8 DEF Agree
<1>10. Asks(k) = Answers(k) \o CallsOf(<<>>)
  BY <1>6, <1>9 DEF Good
<1>11. CallsOf(<<>>) = <<>> /\ Answers(k) \in Seq(Calls)
  <2>1. FreeFact \in AnyEvent
    BY DEF AnyEvent
  <2> QED BY <1>5, <2>1, AsksStep DEF CallsOf
<1>12. Asks(k) = Answers(k)
  BY <1>10, <1>11, ConcatEmptySeq
<1> QED BY <1>5, <1>6, <1>9, <1>12 DEF k, Good, AllAnswered

\* A fork's mark keeps a log good.
LEMMA MarkedLog ==
  ASSUME NEW l \in Seq(AnyEvent), AllGood(l)
  PROVE  Append(l, FreeFact) \in Seq(AnyEvent) /\ AllGood(Append(l, FreeFact))
<1>1. FreeFact \in AnyEvent /\ FreeFact.type = "free/fact"
  BY DEF AnyEvent, FreeFact
<1>2. Accepts(TraceOf(l), FreeFact) /\ Fits(l, FreeFact)
  BY <1>1 DEF Accepts, Fits, FitsScan
<1> QED BY <1>1, <1>2, AllGoodStep

\* Repair is sound on every good log.
LEMMA GoodRepairs ==
  ASSUME NEW l \in Seq(AnyEvent), AllGood(l)
  PROVE  /\ \A seed \in {Resumed(l), ForkSeed(l)} :
              Valid(seed) /\ TraceOf(seed).openTurn = Closed /\ AllAnswered(seed)
         /\ \A n \in 0..Len(Closers(l)) :
              Closers(l \o SubSeq(Closers(l), 1, n))
                = SubSeq(Closers(l), n + 1, Len(Closers(l)))
<1>1. ForkSeed(l) = Resumed(Append(l, FreeFact))
  BY DEF ForkSeed, Resumed
<1>2. Valid(Resumed(l)) /\ TraceOf(Resumed(l)).openTurn = Closed /\ AllAnswered(Resumed(l))
  BY ResumedIs
<1>3. /\ Valid(ForkSeed(l)) /\ TraceOf(ForkSeed(l)).openTurn = Closed
      /\ AllAnswered(ForkSeed(l))
  <2> DEFINE marked == Append(l, FreeFact)
  <2>1. marked \in Seq(AnyEvent) /\ AllGood(marked)
    BY MarkedLog
  <2> HIDE DEF marked
  <2>2. /\ Valid(Resumed(marked)) /\ TraceOf(Resumed(marked)).openTurn = Closed
        /\ AllAnswered(Resumed(marked))
    BY <2>1, ResumedIs
  <2>3. ForkSeed(l) = Resumed(marked)
    BY <1>1 DEF marked
  <2> QED BY <2>2, <2>3
<1>4. \A n \in 0..Len(Closers(l)) :
        Closers(l \o SubSeq(Closers(l), 1, n))
          = SubSeq(Closers(l), n + 1, Len(Closers(l)))
  BY RepairContinues DEF RepairedSoFar, Partly
<1> QED BY <1>2, <1>3, <1>4
-----------------------------------------------------------------------------
(* The steps.                                                              *)

\* What the invariant says of the log and its position.
LEMMA Basics ==
  ASSUME TypeOK, LogInv
  PROVE  /\ log \in Seq(Event) /\ log \in Seq(AnyEvent) /\ Len(log) \in Nat
         /\ durable \in 0..Len(log)
         /\ AllGood(log) /\ Good(log)
         /\ Here \in TraceT /\ Scanned(log) \in ScanT /\ Agree(Here, Scanned(log))
         /\ Scanned(log).pending \in Seq(Entry)
         /\ Marked(log, Scanned(log))
<1>1. log \in Seq(Event) /\ durable \in 0..Len(log) /\ AllGood(log)
  BY DEF TypeOK, LogInv
<1>2. log \in Seq(AnyEvent) /\ Len(log) \in Nat
  BY <1>1, SeqMonotonic DEF AnyEvent
<1>3. Good(log)
  BY <1>1, <1>2, GoodOf
<1>4. Here \in TraceT /\ Scanned(log) \in ScanT
  BY <1>2, RecursionLaws DEF Here
<1>5. Scanned(log).pending \in Seq(Entry)
  BY <1>4 DEF ScanT
<1> QED BY <1>1, <1>2, <1>3, <1>4, <1>5 DEF Good, Here

\* Where the trace is: the numbers an event may name.
LEMMA PositionType ==
  ASSUME TypeOK, LogInv
  PROVE  /\ Here.openTurn # Closed => Here.openTurn \in Turns
         /\ Here.openStep # Closed => Here.openStep \in Steps /\ Here.openTurn # Closed
         /\ Here.nextTurn <= MaxTurns => Here.nextTurn \in Turns
         /\ Here.nextStep <= MaxSteps => Here.nextStep \in Steps
<1>1. Here \in TraceT /\ (Here.openTurn = Closed => Here.openStep = Closed)
  BY Basics DEF Agree
<1>2. /\ Here.openTurn \in 0..MaxTurns /\ Here.openStep \in 0..MaxSteps
      /\ Here.nextTurn \in Nat \ {0} /\ Here.nextStep \in Nat \ {0}
  BY <1>1 DEF TraceT
<1> QED BY <1>1, <1>2, BoundsAssumption DEF Turns, Steps, Closed

\* k goes on where l ends.
Extends(l, k) == Len(l) <= Len(k) /\ \A i \in 1..Len(l) : k[i] = l[i]

LEMMA SaidBefore ==
  ASSUME NEW l, NEW k, Extends(l, k), Len(l) \in Nat, Len(k) \in Nat, NEW n \in 0..Len(l), NEW c
  PROVE  /\ CallLogged(k, n, c) <=> CallLogged(l, n, c)
         /\ StepLogged(k, n, c) <=> StepLogged(l, n, c)
<1>1. \A i \in 1..n : i \in 1..Len(l) /\ k[i] = l[i]
  BY DEF Extends
<1> QED BY <1>1 DEF CallLogged, StepLogged

LEMMA SaidSince ==
  ASSUME NEW l, NEW m \in Int, NEW n \in Int, m <= n, NEW c
  PROVE  /\ CallLogged(l, m, c) => CallLogged(l, n, c)
         /\ StepLogged(l, m, c) => StepLogged(l, n, c)
<1>1. \A i \in 1..m : i \in 1..n
  OBVIOUS
<1> QED BY <1>1 DEF CallLogged, StepLogged

\* The log grown by an event that is accepted and fits.
LEMMA Grown ==
  ASSUME TypeOK, LogInv, NEW e \in Event, Accepts(Here, e), Fits(log, e)
  PROVE  /\ Append(log, e) \in Seq(Event) /\ AllGood(Append(log, e))
         /\ Len(Append(log, e)) = Len(log) + 1 /\ Len(log) \in Nat
         /\ durable \in 0..Len(Append(log, e))
         /\ Extends(log, Append(log, e))
         /\ TraceOf(Append(log, e)) = Advance(Here, e)
         /\ Scanned(Append(log, e)) = Observe(Scanned(log), e)
         /\ \A c : Disowned(Append(log, e), c)
                     <=> \/ Disowned(log, c)
                         \/ e.type = "tool/result" /\ e.call = c /\ e.outcome \in Disowning
<1>1. /\ log \in Seq(Event) /\ log \in Seq(AnyEvent) /\ AllGood(log) /\ Len(log) \in Nat
      /\ durable \in 0..Len(log)
  BY Basics
<1>2. e \in AnyEvent
  BY DEF AnyEvent
<1>3. /\ Append(log, e) \in Seq(Event) /\ Len(Append(log, e)) = Len(log) + 1
      /\ \A i \in 1..Len(log) : Append(log, e)[i] = log[i]
  BY <1>1, AppendProperties
<1>4. AllGood(Append(log, e))
  BY <1>1, <1>2, AllGoodStep DEF Here
<1>5. /\ TraceOf(Append(log, e)) = Advance(Here, e)
      /\ Scanned(Append(log, e)) = Observe(Scanned(log), e)
  BY <1>1, <1>2, RecursionStep DEF Here
<1>6. \A c : Disowned(Append(log, e), c)
               <=> \/ Disowned(log, c)
                   \/ e.type = "tool/result" /\ e.call = c /\ e.outcome \in Disowning
  BY <1>1, <1>2, SaidStep
<1>7. durable \in 0..Len(Append(log, e)) /\ Extends(log, Append(log, e))
  BY <1>1, <1>3 DEF Extends
<1> QED BY <1>1, <1>3, <1>4, <1>5, <1>6, <1>7

\* What is known of effects and requests survives while the log only grows.
LEMMA ActsKept ==
  ASSUME TypeOK, LogInv, ActsInv, log' \in Seq(Event), Extends(log, log'),
         durable' \in Nat, durable <= durable', effects' = effects, sent' = sent,
         \A c \in effects : Disowned(log', c) => Disowned(log, c)
  PROVE  /\ \A c \in effects' : CallLogged(log', durable', c) /\ ~Disowned(log', c)
         /\ \A r \in sent' : StepLogged(log', durable', r)
<1>1. Len(log) \in Nat /\ durable \in 0..Len(log) /\ Len(log') \in Nat
  BY Basics
<1>2. ASSUME NEW c \in effects PROVE CallLogged(log', durable', c) /\ ~Disowned(log', c)
  <2>1. CallLogged(log, durable, c) /\ ~Disowned(log, c)
    BY DEF ActsInv
  <2>2. CallLogged(log', durable, c)
    BY <1>1, <2>1, SaidBefore
  <2> QED BY <1>1, <2>1, <2>2, SaidSince
<1>3. ASSUME NEW r \in sent PROVE StepLogged(log', durable', r)
  <2>1. StepLogged(log, durable, r)
    BY DEF ActsInv
  <2>2. StepLogged(log', durable, r)
    BY <1>1, <2>1, SaidBefore
  <2>3. durable \in Int /\ durable' \in Int
    BY <1>1
  <2> QED BY <2>2, <2>3, SaidSince
<1> QED BY <1>2, <1>3

\* Steps out of the driver's sight of effects: nothing is being asked or run.
LEMMA ActsOutside ==
  ASSUME TypeOK, LogInv, ActsInv, log' \in Seq(Event), Extends(log, log'),
         durable' = durable, effects' = effects, sent' = sent,
         \A c \in effects : Disowned(log', c) => Disowned(log, c),
         pc' \notin {"request", "tools"}
  PROVE  ActsInv'
<1>1. durable' \in Nat /\ durable <= durable'
  BY Basics
<1>2. /\ \A c \in effects' : CallLogged(log', durable', c) /\ ~Disowned(log', c)
      /\ \A r \in sent' : StepLogged(log', durable', r)
  BY <1>1, ActsKept
<1> QED BY <1>2 DEF ActsInv

\* The type invariant where only the log and the driver's place change.
LEMMA TypesDriver ==
  ASSUME TypeOK, log' \in Seq(Event), durable' = durable, durable \in 0..Len(log'),
         pc' \in {"idle", "pre-step", "request", "response", "tools", "down", "repair"},
         barrier' \in Nat, UNCHANGED <<stepVars, effects, sent, crashes>>
  PROVE  TypeOK'
BY DEF TypeOK, stepVars

LEMMA StepOpenTurn ==
  ASSUME IInv, OpenTurn
  PROVE  IInv'
<1> DEFINE e == TurnStart(Here.nextTurn)
<1>0. TypeOK /\ LogInv /\ DriverInv /\ ActsInv
  BY DEF IInv
<1>1. Here \in TraceT /\ Here.openTurn = Closed /\ Here.openStep = Closed
  BY <1>0, Basics DEF OpenTurn, DriverInv
<1>2. Here.nextTurn \in Turns /\ Here.nextTurn # Closed
  BY <1>0, PositionType DEF OpenTurn, Turns, Closed
<1>3. e \in Event /\ e.type = "turn/start" /\ e.turn = Here.nextTurn
  BY <1>2 DEF Event, TurnStart
<1>4. log' = Append(log, e) /\ pc' = "pre-step" /\ barrier' = Len(log')
  BY DEF OpenTurn
<1> HIDE DEF e
<1>5. Accepts(Here, e) /\ Fits(log, e)
  BY <1>1, <1>3 DEF Accepts, Fits, FitsScan
<1>6. /\ log' \in Seq(Event) /\ AllGood(log') /\ Len(log') \in Nat
      /\ durable \in 0..Len(log') /\ Extends(log, log')
      /\ Here' = Advance(Here, e)
      /\ \A c : Disowned(log', c) => Disowned(log, c)
  BY <1>0, <1>3, <1>4, <1>5, Grown DEF Here
<1>7. TypeOK'
  BY <1>0, <1>4, <1>6, TypesDriver DEF OpenTurn
<1>8. DriverInv'
  <2>1. Here' = [Here EXCEPT !.openTurn = e.turn, !.nextStep = 1]
    BY <1>3, <1>6 DEF Advance
  <2>2. Here'.openTurn = e.turn /\ Here'.openStep = Closed /\ Here'.nextStep = 1
    BY <1>1, <2>1 DEF TraceT
  <2> QED BY <1>2, <1>3, <1>4, <2>2, BoundsAssumption DEF DriverInv
<1>9. ActsInv'
  BY <1>0, <1>4, <1>6, ActsOutside DEF OpenTurn
<1> QED BY <1>6, <1>7, <1>8, <1>9 DEF IInv, LogInv

LEMMA StepNextStep ==
  ASSUME IInv, NextStep
  PROVE  IInv'
<1>0. TypeOK /\ LogInv /\ DriverInv /\ ActsInv
  BY DEF IInv
<1>1. log' = log /\ Here' = Here /\ pc' = "pre-step" /\ barrier' = Len(log)
  BY DEF NextStep, Here
<1>2. log \in Seq(Event) /\ Len(log) \in Nat /\ durable \in 0..Len(log) /\ Extends(log, log)
  BY <1>0, Basics DEF Extends
<1>3. TypeOK'
  BY <1>0, <1>1, <1>2, TypesDriver DEF NextStep
<1>4. LogInv'
  BY <1>0, <1>1 DEF LogInv
<1>5. DriverInv'
  BY <1>0, <1>1 DEF DriverInv, NextStep
<1>6. ActsInv'
  BY <1>0, <1>1, <1>2, ActsOutside DEF NextStep
<1> QED BY <1>3, <1>4, <1>5, <1>6 DEF IInv

LEMMA StepCloseTurn ==
  ASSUME IInv, CloseTurn
  PROVE  IInv'
<1> DEFINE e == TurnEnd(Here.openTurn)
<1>0. TypeOK /\ LogInv /\ DriverInv /\ ActsInv
  BY DEF IInv
<1>1. Here \in TraceT /\ Here.openTurn # Closed /\ Here.openStep = Closed
  BY <1>0, Basics DEF CloseTurn, DriverInv
<1>2. Here.openTurn \in Turns
  BY <1>0, <1>1, PositionType
<1>3. e \in Event /\ e.type = "turn/end" /\ e.turn = Here.openTurn
  BY <1>2 DEF Event, TurnEnd
<1>4. log' = Append(log, e) /\ pc' = "idle"
  BY DEF CloseTurn
<1> HIDE DEF e
<1>5. Accepts(Here, e) /\ Fits(log, e)
  BY <1>1, <1>3 DEF Accepts, Fits, FitsScan
<1>6. /\ log' \in Seq(Event) /\ AllGood(log')
      /\ durable \in 0..Len(log') /\ Extends(log, log')
      /\ Here' = Advance(Here, e)
      /\ \A c : Disowned(log', c) => Disowned(log, c)
  BY <1>0, <1>3, <1>4, <1>5, Grown DEF Here
<1>7. TypeOK'
  <2>1. barrier' \in Nat
    BY <1>0 DEF CloseTurn, TypeOK
  <2> QED BY <1>0, <1>4, <1>6, <2>1, TypesDriver DEF CloseTurn
<1>8. DriverInv'
  <2>1. Here' = [Here EXCEPT !.openTurn = Closed, !.nextTurn = @ + 1]
    BY <1>3, <1>6 DEF Advance
  <2>2. Here'.openStep = Closed
    BY <1>1, <2>1 DEF TraceT
  <2> QED BY <1>4, <2>2 DEF DriverInv
<1>9. ActsInv'
  BY <1>0, <1>4, <1>6, ActsOutside DEF CloseTurn
<1> QED BY <1>6, <1>7, <1>8, <1>9 DEF IInv, LogInv

LEMMA StepOpenStep ==
  ASSUME IInv, OpenStep
  PROVE  IInv'
<1> DEFINE e == StepStart(Here.openTurn, Here.nextStep)
<1>0. TypeOK /\ LogInv /\ DriverInv /\ ActsInv
  BY DEF IInv
<1>1. /\ Here \in TraceT /\ Here.openTurn # Closed /\ Here.openStep = Closed
      /\ Here.nextStep <= MaxSteps /\ Scanned(log) \in ScanT /\ Scanned(log).pending = <<>>
  BY <1>0, Basics DEF OpenStep, DriverInv, Agree
<1>2. Here.openTurn \in Turns /\ Here.nextStep \in Steps /\ Here.nextStep # Closed
  BY <1>0, <1>1, PositionType DEF Steps, Closed
<1>3. e \in Event /\ e.type = "step/start" /\ e.turn = Here.openTurn /\ e.step = Here.nextStep
  BY <1>2 DEF Event, StepStart
<1>4. log' = Append(log, e) /\ pc' = "request" /\ barrier' = Len(log')
  BY DEF OpenStep
<1> HIDE DEF e
<1>5. Accepts(Here, e) /\ Fits(log, e)
  BY <1>1, <1>3 DEF Accepts, Fits, FitsScan
<1>6. /\ log' \in Seq(Event) /\ AllGood(log') /\ Len(log') = Len(log) + 1 /\ Len(log) \in Nat
      /\ durable \in 0..Len(log') /\ Extends(log, log')
      /\ Here' = Advance(Here, e) /\ Scanned(log)' = Observe(Scanned(log), e)
      /\ \A c : Disowned(log', c) => Disowned(log, c)
  BY <1>0, <1>3, <1>4, <1>5, Grown DEF Here
<1>7. TypeOK'
  BY <1>0, <1>4, <1>6, TypesDriver DEF OpenStep
<1>8. Here'.openTurn = e.turn /\ Here'.openStep = e.step
  <2>1. Here' = [Here EXCEPT !.openStep = e.step]
    BY <1>3, <1>6 DEF Advance
  <2> QED BY <1>1, <1>3, <2>1 DEF TraceT
<1>9. DriverInv'
  <2>1. Scanned(log)' = [Scanned(log) EXCEPT !.step = e.step]
    BY <1>3, <1>6 DEF Observe
  <2>2. Scanned(log)'.pending = <<>>
    BY <1>1, <2>1 DEF ScanT
  <2> QED BY <1>2, <1>3, <1>4, <1>8, <2>2 DEF DriverInv
<1>10. ActsInv'
  <2>1. /\ \A c \in effects' : CallLogged(log', durable', c) /\ ~Disowned(log', c)
        /\ \A r \in sent' : StepLogged(log', durable', r)
    <3>1. durable' \in Nat /\ durable <= durable' /\ effects' = effects /\ sent' = sent
      BY <1>0, Basics DEF OpenStep
    <3> QED BY <1>0, <1>6, <3>1, ActsKept
  <2>2. barrier' <= Len(log')
    BY <1>4, <1>6
  <2>3. StepLogged(log', barrier', <<Here'.openTurn, Here'.openStep>>)
    <3>1. log'[Len(log')] = e /\ Len(log') \in 1..barrier'
      BY <1>0, <1>3, <1>4, <1>6, Basics, AppendProperties
    <3>2. e = StepStart(Here'.openTurn, Here'.openStep)
      BY <1>3, <1>8 DEF e
    <3> QED BY <3>1, <3>2 DEF StepLogged
  <2> QED BY <1>4, <2>1, <2>2, <2>3 DEF ActsInv
<1> QED BY <1>6, <1>7, <1>9, <1>10 DEF IInv, LogInv

LEMMA StepRequest ==
  ASSUME IInv, Request
  PROVE  IInv'
<1>0. TypeOK /\ LogInv /\ DriverInv /\ ActsInv
  BY DEF IInv
<1> DEFINE r == <<Here.openTurn, Here.openStep>>
<1>1. /\ log' = log /\ Here' = Here /\ pc = "request" /\ pc' = "response" /\ durable' = durable
      /\ effects' = effects /\ sent' = sent \cup {r} /\ barrier <= durable
  BY <1>0, Basics DEF Request, Here, TypeOK
<1>2. r \in Turns \X Steps
  BY <1>0, <1>1, PositionType DEF DriverInv
<1>3. TypeOK'
  BY <1>0, <1>1, <1>2 DEF TypeOK, Request, stepVars
<1>4. LogInv'
  BY <1>0, <1>1 DEF LogInv
<1>5. DriverInv'
  BY <1>0, <1>1 DEF DriverInv
<1>6. ActsInv'
  <2>1. StepLogged(log, durable, r)
    <3>1. StepLogged(log, barrier, r) /\ barrier \in Int /\ durable \in Int
      BY <1>0, <1>1, Basics DEF ActsInv, TypeOK
    <3> QED BY <1>1, <3>1, SaidSince
  <2> HIDE DEF r
  <2>2. /\ \A c \in effects' : CallLogged(log', durable', c) /\ ~Disowned(log', c)
        /\ \A q \in sent' : StepLogged(log', durable', q)
    BY <1>0, <1>1, <2>1 DEF ActsInv
  <2> QED BY <1>1, <2>2 DEF ActsInv
<1> QED BY <1>3, <1>4, <1>5, <1>6 DEF IInv

LEMMA StepRespond ==
  ASSUME IInv, Respond
  PROVE  IInv'
<1>0. TypeOK /\ LogInv /\ DriverInv /\ ActsInv
  BY DEF IInv
<1>1. PICK k \in 0..Cardinality(Calls \ Used) : \E cs \in [1..k -> Calls \ Used] :
         /\ \A i, j \in 1..k : cs[i] = cs[j] => i = j
         /\ log' = Append(log, Assistant(Here.openTurn, Here.openStep, cs))
         /\ asked' = cs
  BY DEF Respond
<1>2. PICK cs \in [1..k -> Calls \ Used] :
         /\ \A i, j \in 1..k : cs[i] = cs[j] => i = j
         /\ log' = Append(log, Assistant(Here.openTurn, Here.openStep, cs))
         /\ asked' = cs
  BY <1>1
<1>3. k \in Nat
  <2>1. Cardinality(Calls \ Used) \in Nat
    BY BoundsAssumption, FS_Difference, FS_CardinalityType
  <2> QED BY <1>1, <2>1
<1>4. cs \in Seq(Calls) /\ DOMAIN cs = 1..k /\ Len(cs) = k /\ Distinct(cs)
  <2>1. \A i \in 1..k : cs[i] \in Calls
    OBVIOUS
  <2>2. cs = [i \in 1..k |-> cs[i]]
    OBVIOUS
  <2>3. cs \in Seq(Calls) /\ Len(cs) = k
    BY <1>3, <2>1, <2>2, IsASeq
  <2> QED BY <1>2, <2>3 DEF Distinct
<1>5. \A i \in DOMAIN cs : ~UsedIn(log, cs[i])
  <2> SUFFICES ASSUME NEW i \in DOMAIN cs, UsedIn(log, cs[i]) PROVE FALSE
    OBVIOUS
  <2>1. PICK n \in 1..Len(log) :
          log[n].type = "assistant/message" /\ \E j \in DOMAIN log[n].calls : log[n].calls[j] = cs[i]
    BY DEF UsedIn
  <2>2. n \in DOMAIN log
    BY <1>0, Basics
  <2> DEFINE N == {m \in DOMAIN log : log[m].type = "assistant/message"}
  <2>3. n \in N
    BY <2>1, <2>2
  <2>4. log[n] \in {log[m] : m \in N}
    BY <2>3
  <2>5. cs[i] \in {log[n].calls[j] : j \in DOMAIN log[n].calls}
    BY <2>1
  <2> DEFINE M == {log[m] : m \in N}
  <2>6. Used = UNION {{x.calls[j] : j \in DOMAIN x.calls} : x \in M}
    BY Zenon DEF Used
  <2> HIDE DEF M
  <2>7. cs[i] \in Used
    <3>1. log[n] \in M
      BY <2>4 DEF M
    <3>2. {log[n].calls[j] : j \in DOMAIN log[n].calls}
            \in {{x.calls[j] : j \in DOMAIN x.calls} : x \in M}
      BY <3>1
    <3> QED BY <2>5, <2>6, <3>2
  <2>8. cs[i] \notin Used
    BY <1>4
  <2> QED BY <2>7, <2>8
<1> DEFINE e == Assistant(Here.openTurn, Here.openStep, cs)
<1>6. /\ Here \in TraceT /\ Here.openStep # Closed /\ Scanned(log) \in ScanT
      /\ Scanned(log).pending = <<>> /\ pc' = "tools" /\ stage' = [c \in Calls |-> "none"]
      /\ log' = Append(log, e) /\ asked' = cs
      /\ UNCHANGED <<durable, barrier, need, outcome, effects, sent, crashes>>
  BY <1>0, <1>2, Basics DEF Respond, DriverInv
<1>7. Here.openTurn \in Turns /\ Here.openStep \in Steps
  BY <1>0, <1>6, PositionType
<1>8. /\ e \in Event /\ e.type = "assistant/message" /\ e.turn = Here.openTurn
      /\ e.step = Here.openStep /\ e.calls = cs
  BY <1>4, <1>7 DEF Event, Assistant
<1> HIDE DEF e
<1>9. Accepts(Here, e) /\ Fits(log, e)
  BY <1>4, <1>5, <1>6, <1>8 DEF Accepts, InOpenStep, Fits, FitsScan
<1>10. /\ log' \in Seq(Event) /\ AllGood(log')
       /\ durable \in 0..Len(log') /\ Extends(log, log')
       /\ Here' = Advance(Here, e) /\ Scanned(log)' = Observe(Scanned(log), e)
       /\ \A c : Disowned(log', c) => Disowned(log, c)
  BY <1>0, <1>6, <1>8, <1>9, Grown DEF Here
<1>11. TypeOK'
  BY <1>0, <1>4, <1>6, <1>10 DEF TypeOK
<1>12. e \in AnyEvent /\ Agree(Here, Scanned(log)) /\ FitsScan(Scanned(log), e)
  BY <1>0, <1>8, <1>9, Basics DEF AnyEvent, Fits
<1>13. DriverInv'
  <2>1. Here' = Here
    BY <1>8, <1>10 DEF Advance
  <2>2. Scanned(log)'.pending = Requested(e) /\ CallsOf(Scanned(log)'.pending) = cs
    <3>1. Observe(Scanned(log), e).pending = Requested(e)
      BY <1>6, <1>8, <1>9, <1>12, PendingStep
    <3>2. CallsOf(Observe(Scanned(log), e).pending) = e.calls
      BY <1>6, <1>8, <1>9, <1>12, NamesStep
    <3> QED BY <1>8, <1>10, <3>1, <3>2
  <2>3. AnsweredUpTo(0)'
    <3>1. \A i \in 1..Len(asked') : stage'[asked'[i]] = "none"
      BY <1>4, <1>6
    <3>2. SubSeq(cs, 0 + 1, Len(cs)) = cs
      BY <1>4, SubSeqFull
    <3>3. DOMAIN Requested(e) = 1..Len(cs)
      BY <1>4, <1>8 DEF Requested
    <3>4. \A i \in 1..Len(cs) : Requested(e)[i].started = FALSE /\ 0 + i = i
      BY <1>4, <1>8 DEF Requested
    <3>5. CallsOf(Scanned(log)'.pending) = SubSeq(asked', 0 + 1, Len(asked'))
      BY <1>6, <2>2, <3>2
    <3>6. \A i \in DOMAIN Scanned(log)'.pending :
            Scanned(log)'.pending[i].started <=> stage'[asked'[0 + i]] # "none"
      BY <1>6, <2>2, <3>1, <3>3, <3>4
    <3>7. \A i \in 1..Len(asked') : stage'[asked'[i]] = "answered" <=> i <= 0
      BY <3>1
    <3> QED BY <3>5, <3>6, <3>7 DEF AnsweredUpTo
  <2>4. 0 \in 0..Len(asked')
    BY <1>4, <1>6
  <2>5. Distinct(asked') /\ \E m \in 0..Len(asked') : AnsweredUpTo(m)'
    BY <1>4, <1>6, <2>3, <2>4
  <2> QED BY <1>6, <2>1, <2>5 DEF DriverInv
<1>14. ActsInv'
  <2>1. /\ \A c \in effects' : CallLogged(log', durable', c) /\ ~Disowned(log', c)
        /\ \A r \in sent' : StepLogged(log', durable', r)
    <3>1. durable' \in Nat /\ durable <= durable'
      BY <1>0, <1>6, Basics
    <3> QED BY <1>0, <1>6, <1>10, <3>1, ActsKept
  <2>2. \A c \in Calls : stage'[c] = "none"
    BY <1>6
  <2>3. ASSUME NEW c \in Calls, NEW i \in DOMAIN asked', asked'[i] = c PROVE ~Disowned(log', c)
    <3>1. ~UsedIn(log, c)
      BY <1>5, <1>6, <2>3
    <3>2. ~Disowned(log, c)
      BY <1>0, <3>1, Basics DEF Marked
    <3> QED BY <1>10, <3>2
  <2>4. ASSUME NEW c \in Calls PROVE CallActs(c)'
    BY <2>2, <2>3 DEF CallActs, InStep
  <2> QED BY <1>6, <2>1, <2>4 DEF ActsInv
<1> QED BY <1>10, <1>11, <1>13, <1>14 DEF IInv, LogInv

-----------------------------------------------------------------------------
(* The tools phase.                                                        *)

\* What is known of the calls of the step when k of them are answered.
LEMMA Queue ==
  ASSUME TypeOK, LogInv, NEW k \in 0..Len(asked), AnsweredUpTo(k)
  PROVE  /\ Len(asked) \in Nat /\ DOMAIN asked = 1..Len(asked)
         /\ \A i \in DOMAIN asked : asked[i] \in Calls
         /\ Len(Scanned(log).pending) = Len(asked) - k
         /\ \A i \in DOMAIN asked : i > k =>
              /\ i - k \in DOMAIN Scanned(log).pending
              /\ Scanned(log).pending[i - k].call = asked[i]
              /\ Scanned(log).pending[i - k].started <=> stage[asked[i]] # "none"
              /\ CallLogged(log, Len(log), asked[i]) <=> stage[asked[i]] # "none"
<1> DEFINE p == Scanned(log).pending
<1>1. asked \in Seq(Calls) /\ p \in Seq(Entry) /\ Marked(log, Scanned(log))
  BY Basics DEF TypeOK
<1>2. /\ CallsOf(p) = SubSeq(asked, k + 1, Len(asked))
      /\ \A i \in DOMAIN p : p[i].started <=> stage[asked[k + i]] # "none"
  BY DEF AnsweredUpTo
<1>m. \A i \in DOMAIN p : p[i].started <=> CallLogged(log, Len(log), p[i].call)
  BY <1>1 DEF Marked
<1> HIDE DEF p
<1>3. /\ Len(SubSeq(asked, k + 1, Len(asked))) = Len(asked) - k
      /\ \A i \in 1..(Len(asked) - k) : SubSeq(asked, k + 1, Len(asked))[i] = asked[k + i]
  BY <1>1
<1>4. /\ Len(p) = Len(asked) - k /\ DOMAIN p = 1..Len(p)
      /\ \A i \in DOMAIN p : p[i].call = asked[k + i]
  <2>1. Len(CallsOf(p)) = Len(p) /\ DOMAIN p = 1..Len(p) /\ \A i \in DOMAIN p : CallsOf(p)[i] = p[i].call
    BY <1>1, CallsOfType, EntryFields
  <2> QED BY <1>2, <1>3, <2>1
<1>5. Len(asked) \in Nat /\ DOMAIN asked = 1..Len(asked) /\ \A i \in DOMAIN asked : asked[i] \in Calls
  BY <1>1
<1>6. ASSUME NEW i \in DOMAIN asked, i > k
      PROVE  /\ i - k \in DOMAIN p /\ p[i - k].call = asked[i]
             /\ p[i - k].started <=> stage[asked[i]] # "none"
             /\ CallLogged(log, Len(log), asked[i]) <=> stage[asked[i]] # "none"
  <2>1. i - k \in DOMAIN p /\ k + (i - k) = i
    BY <1>4, <1>5, <1>6
  <2> QED BY <1>2, <1>4, <1>m, <2>1
<1> QED BY <1>4, <1>5, <1>6 DEF p

\* The tools phase: k answered.
LEMMA ToolsAt ==
  ASSUME IInv, pc = "tools"
  PROVE  /\ TypeOK /\ LogInv /\ DriverInv /\ ActsInv /\ Distinct(asked)
         /\ Here.openTurn \in Turns /\ Here.openStep \in Steps
         /\ \E k \in 0..Len(asked) : AnsweredUpTo(k)
<1>1. TypeOK /\ LogInv /\ DriverInv /\ ActsInv
  BY DEF IInv
<1> QED BY <1>1, PositionType DEF DriverInv

\* A step of the tools phase that is about call c.
LEMMA ActsTools ==
  ASSUME TypeOK, LogInv, ActsInv, pc = "tools", pc' = "tools",
         log' \in Seq(Event), Extends(log, log'), durable' = durable, asked' = asked,
         sent' = sent, NEW c \in Calls, effects' \subseteq effects \cup {c},
         \A d \in Calls : d # c =>
           /\ stage'[d] = stage[d] /\ need'[d] = need[d] /\ outcome'[d] = outcome[d]
           /\ Disowned(log', d) => Disowned(log, d),
         c \in effects' => CallLogged(log', durable, c) /\ ~Disowned(log', c),
         CallActs(c)'
  PROVE  ActsInv'
<1>1. Len(log) \in Nat /\ durable \in 0..Len(log) /\ Len(log') \in Nat
  BY Basics
<1>2. ASSUME NEW d \in effects' PROVE CallLogged(log', durable', d) /\ ~Disowned(log', d)
  <2>1. CASE d = c
    BY <1>2, <2>1
  <2>2. CASE d # c
    <3>1. d \in effects /\ d \in Calls
      BY <1>2, <2>2 DEF TypeOK
    <3>2. CallLogged(log, durable, d) /\ ~Disowned(log, d)
      BY <3>1 DEF ActsInv
    <3>3. CallLogged(log', durable, d)
      BY <1>1, <3>2, SaidBefore
    <3> QED BY <2>2, <3>1, <3>2, <3>3
  <2> QED BY <2>1, <2>2
<1>3. ASSUME NEW r \in sent' PROVE StepLogged(log', durable', r)
  <2>1. StepLogged(log, durable, r)
    BY <1>3 DEF ActsInv
  <2> QED BY <1>1, <2>1, SaidBefore
<1>4. ASSUME NEW d \in Calls PROVE CallActs(d)'
  <2>1. CASE d = c
    BY <2>1
  <2>2. CASE d # c
    <3>1. CallActs(d)
      BY DEF ActsInv
    <3>2. /\ stage'[d] = stage[d] /\ need'[d] = need[d] /\ outcome'[d] = outcome[d]
          /\ Disowned(log', d) => Disowned(log, d)
          /\ d \in effects' => d \in effects
          /\ InStep(d)' <=> InStep(d)
      BY <2>2 DEF InStep
    <3>3. stage[d] = "flushing" => need[d] <= Len(log') /\ CallLogged(log', need[d], d)
      <4> SUFFICES ASSUME stage[d] = "flushing"
                   PROVE  need[d] <= Len(log') /\ CallLogged(log', need[d], d)
        OBVIOUS
      <4>1. need[d] \in 0..Len(log) /\ CallLogged(log, need[d], d)
        BY <1>1, <3>1 DEF TypeOK, CallActs
      <4>2. need[d] <= Len(log')
        BY <1>1, <4>1 DEF Extends
      <4> QED BY <1>1, <4>1, <4>2, SaidBefore
    <3> QED BY <3>1, <3>2, <3>3 DEF CallActs
  <2> QED BY <2>1, <2>2
<1>5. pc' # "request"
  OBVIOUS
<1> QED BY <1>2, <1>3, <1>4, <1>5 DEF ActsInv

LEMMA StepStartCall ==
  ASSUME IInv, NEW i \in DOMAIN asked, StartCall(i)
  PROVE  IInv'
<1> DEFINE c == asked[i]
<1> DEFINE e == ToolCall(Here.openTurn, Here.openStep, c)
<1> DEFINE s == Scanned(log)
<1>0. /\ TypeOK /\ LogInv /\ DriverInv /\ ActsInv /\ Distinct(asked)
      /\ Here.openTurn \in Turns /\ Here.openStep \in Steps /\ pc = "tools"
  BY ToolsAt DEF StartCall
<1>1. PICK k \in 0..Len(asked) : AnsweredUpTo(k)
  BY ToolsAt DEF StartCall
<1>2. /\ Here \in TraceT /\ s \in ScanT /\ Agree(Here, s) /\ s.pending \in Seq(Entry)
      /\ asked \in Seq(Calls) /\ Len(asked) \in Nat /\ DOMAIN asked = 1..Len(asked) /\ c \in Calls
  BY <1>0, Basics DEF TypeOK
<1>3. /\ stage[c] = "none" /\ stage' = [stage EXCEPT ![c] = "recorded"]
      /\ log' = Append(log, e) /\ asked' = asked /\ pc' = "tools"
      /\ UNCHANGED <<durable, pc, barrier, asked, need, outcome, effects, sent, crashes>>
  BY <1>0 DEF StartCall
<1>4. i > k /\ i \in 1..Len(asked)
  <2>1. stage[c] # "answered" /\ i \in 1..Len(asked)
    BY <1>2, <1>3
  <2> QED BY <1>1, <1>2, <2>1 DEF AnsweredUpTo
<1>5. /\ i - k \in DOMAIN s.pending /\ s.pending[i - k].call = c
      /\ ~CallLogged(log, Len(log), c)
  BY <1>0, <1>1, <1>3, <1>4, Queue
<1>6. /\ e \in Event /\ e.type = "tool/call" /\ e.turn = Here.openTurn
      /\ e.step = Here.openStep /\ e.call = c
  BY <1>0, <1>2 DEF Event, ToolCall
<1> HIDE DEF e, c, s
<1>7. Accepts(Here, e) /\ FitsScan(s, e) /\ Fits(log, e)
  BY <1>5, <1>6 DEF Accepts, InOpenStep, Fits, FitsScan, s
<1>8. /\ log' \in Seq(Event) /\ AllGood(log') /\ Len(log') = Len(log) + 1 /\ Len(log) \in Nat
      /\ durable \in 0..Len(log') /\ Extends(log, log')
      /\ Here' = Advance(Here, e) /\ Scanned(log)' = Observe(s, e)
      /\ \A d : Disowned(log', d) => Disowned(log, d)
  BY <1>0, <1>3, <1>6, <1>7, Grown DEF Here, s
<1>9. \A d \in Calls : /\ d # c => stage'[d] = stage[d]
                       /\ stage'[c] = "recorded"
  BY <1>0, <1>2, <1>3 DEF TypeOK
<1>10. TypeOK'
  BY <1>0, <1>2, <1>3, <1>8 DEF TypeOK
<1>11. DriverInv'
  <2>1. Here'.openStep # Closed
    <3>1. Here' = [Here EXCEPT !.pending = @ \cup {e.call}]
      BY <1>6, <1>8 DEF Advance
    <3> QED BY <1>0, <1>2, <3>1 DEF TraceT, Steps, Closed
  <2>2. e \in AnyEvent
    BY <1>6 DEF AnyEvent
  <2>3. Scanned(log)'.pending = [j \in DOMAIN s.pending |-> Start(s.pending[j], e)]
    <3>1. Observe(s, e).pending = [j \in DOMAIN s.pending |-> Start(s.pending[j], e)]
      BY <1>2, <1>6, <1>7, <2>2, PendingStep
    <3> QED BY <1>8, <3>1
  <2>4. CallsOf(Scanned(log)'.pending) = CallsOf(s.pending)
    <3>1. CallsOf(Observe(s, e).pending) = CallsOf(s.pending)
      BY <1>2, <1>6, <1>7, <2>2, NamesStep
    <3> QED BY <1>8, <3>1
  <2>5. AnsweredUpTo(k)'
    <3>1. ASSUME NEW j \in 1..Len(asked) PROVE stage'[asked[j]] = "answered" <=> j <= k
      <4>1. asked[j] \in Calls /\ (stage[asked[j]] = "answered" <=> j <= k)
        BY <1>1, <1>2 DEF AnsweredUpTo
      <4>2. asked[j] = c => stage[asked[j]] = "none"
        BY <1>3
      <4> QED BY <1>9, <4>1, <4>2
    <3>2. CallsOf(Scanned(log)'.pending) = SubSeq(asked, k + 1, Len(asked))
      BY <1>1, <2>4 DEF AnsweredUpTo, s
    <3>3. ASSUME NEW j \in DOMAIN Scanned(log)'.pending
          PROVE  Scanned(log)'.pending[j].started <=> stage'[asked[k + j]] # "none"
      <4>1. /\ j \in DOMAIN s.pending /\ s.pending[j] \in Entry
            /\ Scanned(log)'.pending[j] = Start(s.pending[j], e)
        BY <1>2, <2>3, <3>3, EntryFields
      <4>2. Scanned(log)'.pending[j].started <=> s.pending[j].started \/ s.pending[j].call = c
        BY <1>6, <4>1, StartType
      <4>3. s.pending[j].started <=> stage[asked[k + j]] # "none"
        BY <1>1, <4>1 DEF AnsweredUpTo, s
      <4>4. j + k \in DOMAIN asked /\ j + k = k + j /\ s.pending[j].call = asked[k + j]
        <5>1. Len(s.pending) = Len(asked) - k /\ DOMAIN s.pending = 1..Len(s.pending)
          BY <1>0, <1>1, <1>2, Queue, EntryFields DEF s
        <5>2. j + k \in DOMAIN asked /\ j + k > k /\ (j + k) - k = j /\ j + k = k + j
          BY <1>2, <4>1, <5>1
        <5>3. s.pending[(j + k) - k].call = asked[j + k]
          BY <1>0, <1>1, <5>2, Queue DEF s
        <5> QED BY <5>2, <5>3
      <4>5. asked[k + j] \in Calls
        BY <1>2, <4>4
      <4> QED BY <1>9, <4>2, <4>3, <4>4, <4>5
    <3> QED BY <1>3, <3>1, <3>2, <3>3 DEF AnsweredUpTo
  <2>6. Distinct(asked') /\ \E m \in 0..Len(asked') : AnsweredUpTo(m)'
    BY <1>0, <1>3, <2>5
  <2> QED BY <1>3, <2>1, <2>6 DEF DriverInv
<1>12. ActsInv'
  <2>1. ~CallLogged(log, Len(log), c) => c \notin effects
    <3> SUFFICES ASSUME c \in effects PROVE CallLogged(log, Len(log), c)
      OBVIOUS
    <3>1. CallLogged(log, durable, c) /\ durable \in Int /\ Len(log) \in Int /\ durable <= Len(log)
      BY <1>0, Basics DEF ActsInv
    <3> QED BY <3>1, SaidSince
  <2>2. InStep(c) /\ ~Disowned(log, c)
    BY <1>0, <1>2, <1>3 DEF ActsInv, CallActs, InStep, c
  <2>3. PICK b \in Calls : b = c
    BY <1>2
  <2>4. CallActs(b)'
    BY <1>3, <1>5, <1>8, <1>9, <2>1, <2>2, <2>3 DEF CallActs, InStep
  <2>5. \A d \in Calls : d # b => /\ stage'[d] = stage[d] /\ need'[d] = need[d]
                                  /\ outcome'[d] = outcome[d]
                                  /\ Disowned(log', d) => Disowned(log, d)
    BY <1>3, <1>8, <1>9, <2>3
  <2>6. effects' \subseteq effects \cup {b} /\ b \notin effects'
    BY <1>3, <1>5, <2>1, <2>3
  <2> QED BY <1>0, <1>3, <1>8, <2>4, <2>5, <2>6, ActsTools
<1> QED BY <1>8, <1>10, <1>11, <1>12 DEF IInv, LogInv

\* A step of the tools phase that leaves the log and the answered calls alone.
LEMMA DriverTools ==
  ASSUME TypeOK, LogInv, DriverInv, pc = "tools", pc' = "tools", log' = log, asked' = asked,
         \A c \in Calls : /\ stage'[c] = "none" <=> stage[c] = "none"
                          /\ stage'[c] = "answered" <=> stage[c] = "answered"
  PROVE  LogInv' /\ DriverInv' /\ log' \in Seq(Event) /\ Extends(log, log')
<1>1. LogInv'
  BY DEF LogInv
<1>2. log \in Seq(Event) /\ Extends(log, log) /\ Here' = Here
  BY Basics DEF Extends, Here
<1>3. PICK k \in 0..Len(asked) : AnsweredUpTo(k)
  BY DEF DriverInv
<1>4. AnsweredUpTo(k)'
  <2>1. /\ Len(asked) \in Nat /\ DOMAIN asked = 1..Len(asked)
        /\ \A i \in DOMAIN asked : asked[i] \in Calls
        /\ Len(Scanned(log).pending) = Len(asked) - k
    BY <1>3, Queue
  <2>2. DOMAIN Scanned(log).pending = 1..Len(Scanned(log).pending)
    BY Basics, EntryFields
  <2>3. \A i \in 1..Len(asked) : stage'[asked[i]] = "answered" <=> i <= k
    BY <1>3, <2>1 DEF AnsweredUpTo
  <2>4. ASSUME NEW i \in DOMAIN Scanned(log).pending
        PROVE  Scanned(log).pending[i].started <=> stage'[asked[k + i]] # "none"
    <3>1. k + i \in DOMAIN asked
      <4>1. i \in 1..(Len(asked) - k) /\ k \in 0..Len(asked)
        BY <1>3, <2>1, <2>2
      <4>2. \A n \in Nat : \A m \in 0..n : \A j \in 1..(n - m) : m + j \in 1..n
        OBVIOUS
      <4> QED BY <2>1, <4>1, <4>2
    <3>2. asked[k + i] \in Calls
      BY <2>1, <3>1
    <3>3. Scanned(log).pending[i].started <=> stage[asked[k + i]] # "none"
      BY <1>3 DEF AnsweredUpTo
    <3> QED BY <3>2, <3>3
  <2>5. CallsOf(Scanned(log).pending) = SubSeq(asked, k + 1, Len(asked))
    BY <1>3 DEF AnsweredUpTo
  <2> QED BY <2>3, <2>4, <2>5 DEF AnsweredUpTo
<1>5. DriverInv'
  <2>1. \E m \in 0..Len(asked') : AnsweredUpTo(m)'
    BY <1>4
  <2> QED BY <1>2, <2>1 DEF DriverInv
<1> QED BY <1>1, <1>2, <1>5

LEMMA StepExecute ==
  ASSUME IInv, NEW c \in Calls, Execute(c)
  PROVE  IInv'
<1>0. /\ TypeOK /\ LogInv /\ DriverInv /\ ActsInv /\ Distinct(asked) /\ pc = "tools"
  BY ToolsAt DEF Execute
<1>1. /\ stage[c] = "recorded" /\ log' = log /\ asked' = asked /\ pc' = "tools"
      /\ stage' = [stage EXCEPT ![c] = "flushing"] /\ need' = [need EXCEPT ![c] = Len(log)]
      /\ UNCHANGED <<durable, barrier, outcome, effects, sent, crashes>>
  BY <1>0 DEF Execute
<1>2. /\ stage'[c] = "flushing" /\ need'[c] = Len(log) /\ Len(log) \in Nat
      /\ \A d \in Calls : d # c => stage'[d] = stage[d] /\ need'[d] = need[d]
  BY <1>0, <1>1, Basics DEF TypeOK
<1>3. TypeOK'
  BY <1>0, <1>1, <1>2 DEF TypeOK, Busy
<1>4. LogInv' /\ DriverInv' /\ log' \in Seq(Event) /\ Extends(log, log')
  BY <1>0, <1>1, <1>2, DriverTools
<1>5. CallLogged(log, Len(log), c)
  <2>1. PICK k \in 0..Len(asked) : AnsweredUpTo(k)
    BY <1>0 DEF DriverInv
  <2>2. PICK i \in DOMAIN asked : asked[i] = c
    BY <1>0, <1>1 DEF ActsInv, CallActs, InStep
  <2>3. i \in 1..Len(asked) /\ k \in Int /\ i > k
    <3>1. i \in 1..Len(asked) /\ k \in Int
      BY <1>0, <2>1, <2>2, Queue
    <3>2. stage[asked[i]] # "answered"
      BY <1>1, <2>2
    <3> QED BY <2>1, <3>1, <3>2 DEF AnsweredUpTo
  <2>4. CallLogged(log, Len(log), asked[i]) <=> stage[asked[i]] # "none"
    BY <1>0, <2>1, <2>3, <2>2, Queue
  <2> QED BY <1>1, <2>2, <2>4
<1>6. ActsInv'
  <2>1. CallActs(c) /\ (c \in effects => CallLogged(log, durable, c) /\ ~Disowned(log, c))
    BY <1>0 DEF ActsInv
  <2>2. CallActs(c)'
    BY <1>1, <1>2, <1>5, <2>1 DEF CallActs, InStep
  <2>3. \A d \in Calls : d # c => /\ stage'[d] = stage[d] /\ need'[d] = need[d]
                                  /\ outcome'[d] = outcome[d]
                                  /\ Disowned(log', d) => Disowned(log, d)
    BY <1>1, <1>2
  <2>4. effects' \subseteq effects \cup {c}
        /\ (c \in effects' => CallLogged(log', durable, c) /\ ~Disowned(log', c))
    BY <1>1, <2>1
  <2> QED BY <1>0, <1>1, <1>4, <2>2, <2>3, <2>4, ActsTools
<1> QED BY <1>3, <1>4, <1>6 DEF IInv

LEMMA StepRunBody ==
  ASSUME IInv, NEW c \in Calls, RunBody(c)
  PROVE  IInv'
<1>0. /\ TypeOK /\ LogInv /\ DriverInv /\ ActsInv /\ pc = "tools"
  BY ToolsAt DEF RunBody
<1>1. /\ stage[c] = "flushing" /\ need[c] <= durable /\ log' = log /\ asked' = asked /\ pc' = "tools"
      /\ stage' = [stage EXCEPT ![c] = "running"] /\ effects' = effects \cup {c}
      /\ UNCHANGED <<durable, barrier, need, outcome, sent, crashes>>
  BY <1>0, Basics DEF RunBody, TypeOK
<1>2. stage'[c] = "running" /\ \A d \in Calls : d # c => stage'[d] = stage[d]
  BY <1>0, <1>1 DEF TypeOK
<1>3. TypeOK'
  BY <1>0, <1>1, <1>2 DEF TypeOK, Busy
<1>4. LogInv' /\ DriverInv' /\ log' \in Seq(Event) /\ Extends(log, log')
  BY <1>0, <1>1, <1>2, DriverTools
<1>5. ActsInv'
  <2>1. CallActs(c)
    BY <1>0 DEF ActsInv
  <2>2. CallLogged(log, durable, c) /\ ~Disowned(log, c)
    <3>1. need[c] \in Int /\ durable \in Int /\ CallLogged(log, need[c], c)
      BY <1>0, <1>1, <2>1, Basics DEF TypeOK, CallActs
    <3>2. CallLogged(log, durable, c)
      BY <1>1, <3>1, SaidSince
    <3> QED BY <1>1, <2>1, <3>2 DEF CallActs
  <2>3. CallActs(c)'
    BY <1>1, <1>2, <2>1 DEF CallActs, InStep
  <2>4. \A d \in Calls : d # c => /\ stage'[d] = stage[d] /\ need'[d] = need[d]
                                  /\ outcome'[d] = outcome[d]
                                  /\ Disowned(log', d) => Disowned(log, d)
    BY <1>1, <1>2
  <2>5. effects' \subseteq effects \cup {c}
        /\ (c \in effects' => CallLogged(log', durable, c) /\ ~Disowned(log', c))
    BY <1>1, <2>2
  <2> QED BY <1>0, <1>1, <1>4, <2>3, <2>4, <2>5, ActsTools
<1> QED BY <1>3, <1>4, <1>5 DEF IInv

LEMMA StepReturn ==
  ASSUME IInv, NEW c \in Calls, NEW o \in Outcomes, Return(c, o)
  PROVE  IInv'
<1>0. /\ TypeOK /\ LogInv /\ DriverInv /\ ActsInv /\ pc = "tools"
  BY ToolsAt DEF Return
<1>1. /\ stage[c] \in {"recorded", "flushing", "running"}
      /\ stage[c] = "running" => o \in {"value", "error"}
      /\ o \in {"value", "error", "undispatched"}
      /\ log' = log /\ asked' = asked /\ pc' = "tools"
      /\ stage' = [stage EXCEPT ![c] = "returned"] /\ outcome' = [outcome EXCEPT ![c] = o]
      /\ UNCHANGED <<durable, barrier, need, effects, sent, crashes>>
  BY <1>0 DEF Return
<1>2. /\ stage'[c] = "returned" /\ outcome'[c] = o
      /\ \A d \in Calls : d # c => stage'[d] = stage[d] /\ outcome'[d] = outcome[d]
  BY <1>0, <1>1 DEF TypeOK
<1>3. TypeOK'
  BY <1>0, <1>1, <1>2 DEF TypeOK
<1>4. LogInv' /\ DriverInv' /\ log' \in Seq(Event) /\ Extends(log, log')
  BY <1>0, <1>1, <1>2, DriverTools
<1>5. ActsInv'
  <2>1. CallActs(c) /\ (c \in effects => CallLogged(log, durable, c) /\ ~Disowned(log, c))
    BY <1>0 DEF ActsInv
  <2>2. c \in effects => o \notin Disowning
    <3>1. c \in effects => stage[c] = "running"
      BY <1>1, <2>1 DEF CallActs
    <3> QED BY <1>1, <3>1 DEF Disowning
  <2>3. CallActs(c)'
    BY <1>1, <1>2, <2>1, <2>2 DEF CallActs, InStep
  <2>4. \A d \in Calls : d # c => /\ stage'[d] = stage[d] /\ need'[d] = need[d]
                                  /\ outcome'[d] = outcome[d]
                                  /\ Disowned(log', d) => Disowned(log, d)
    BY <1>1, <1>2
  <2>5. effects' \subseteq effects \cup {c}
        /\ (c \in effects' => CallLogged(log', durable, c) /\ ~Disowned(log', c))
    BY <1>1, <2>1
  <2> QED BY <1>0, <1>1, <1>4, <2>3, <2>4, <2>5, ActsTools
<1> QED BY <1>3, <1>4, <1>5 DEF IInv

\* The first call that is not answered, when its predecessors are.
LEMMA NextInLine ==
  ASSUME TypeOK, LogInv, NEW k \in 0..Len(asked), AnsweredUpTo(k),
         NEW i \in DOMAIN asked, Before(i), stage[asked[i]] # "answered"
  PROVE  /\ i = k + 1 /\ i \in 1..Len(asked) /\ Scanned(log).pending # <<>>
         /\ 1 \in DOMAIN Scanned(log).pending
         /\ Scanned(log).pending[1].call = asked[i]
         /\ Scanned(log).pending[1].started <=> stage[asked[i]] # "none"
         /\ CallLogged(log, Len(log), asked[i]) <=> stage[asked[i]] # "none"
<1>1. /\ Len(asked) \in Nat /\ DOMAIN asked = 1..Len(asked)
      /\ Len(Scanned(log).pending) = Len(asked) - k
  BY Queue
<1>a. \A n \in Nat : \A m \in 0..n : \A j \in 1..n :
        /\ ~(j <= m) => j > m
        /\ j > m /\ j # m + 1 => m + 1 \in 1..n /\ m + 1 \in 1..(j - 1) /\ ~(m + 1 <= m)
  OBVIOUS
<1>2. i \in 1..Len(asked) /\ i > k
  <2>1. i \in 1..Len(asked)
    BY <1>1
  <2>2. ~(i <= k)
    BY <2>1 DEF AnsweredUpTo
  <2> QED BY <1>1, <1>a, <2>1, <2>2
<1>3. i = k + 1
  <2> SUFFICES ASSUME i # k + 1 PROVE FALSE
    OBVIOUS
  <2>1. k + 1 \in 1..Len(asked) /\ k + 1 \in 1..(i - 1) /\ ~(k + 1 <= k)
    BY <1>1, <1>2, <1>a
  <2>2. stage[asked[k + 1]] = "answered"
    BY <2>1 DEF Before
  <2> QED BY <2>1, <2>2 DEF AnsweredUpTo
<1>b. \A n \in Nat : \A m \in 0..n : (m + 1) - m = 1
  OBVIOUS
<1>4. i - k = 1
  <2>1. (k + 1) - k = 1
    BY <1>1, <1>b
  <2> QED BY <1>3, <2>1, Zenon
<1>5. /\ 1 \in DOMAIN Scanned(log).pending /\ Scanned(log).pending[1].call = asked[i]
      /\ Scanned(log).pending[1].started <=> stage[asked[i]] # "none"
      /\ CallLogged(log, Len(log), asked[i]) <=> stage[asked[i]] # "none"
  <2>1. i \in DOMAIN asked /\ i > k
    BY <1>2
  <2>2. /\ i - k \in DOMAIN Scanned(log).pending
        /\ Scanned(log).pending[i - k].call = asked[i]
        /\ Scanned(log).pending[i - k].started <=> stage[asked[i]] # "none"
        /\ CallLogged(log, Len(log), asked[i]) <=> stage[asked[i]] # "none"
    BY <2>1, Queue
  <2> QED BY <1>4, <2>2, Zenon
<1> QED BY <1>2, <1>3, <1>5

\* The call answered is the next one; the others keep their place.
LEMMA OneMore ==
  ASSUME TypeOK, LogInv, Distinct(asked), NEW k \in 0..Len(asked), AnsweredUpTo(k),
         k + 1 \in DOMAIN asked, log' \in Seq(Event), asked' = asked,
         stage'[asked[k + 1]] = "answered",
         \A d \in Calls : d # asked[k + 1] => stage'[d] = stage[d],
         Scanned(log)'.pending = Tail(Scanned(log).pending)
  PROVE  AnsweredUpTo(k + 1)'
<1> DEFINE p == Scanned(log).pending
<1>1. /\ Len(asked) \in Nat /\ DOMAIN asked = 1..Len(asked)
      /\ \A i \in DOMAIN asked : asked[i] \in Calls
      /\ Len(p) = Len(asked) - k
  BY Queue
<1>2. p \in Seq(Entry) /\ asked \in Seq(Calls)
  BY Basics DEF TypeOK
<1>a. /\ CallsOf(p) = SubSeq(asked, k + 1, Len(asked))
      /\ \A i \in DOMAIN p : p[i].started <=> stage[asked[k + i]] # "none"
      /\ \A i \in 1..Len(asked) : stage[asked[i]] = "answered" <=> i <= k
  BY DEF AnsweredUpTo
<1> HIDE DEF p
<1>3. k \in Int /\ k + 1 \in 1..Len(asked) /\ p # <<>>
  BY <1>1, <1>2
<1>4. /\ Tail(p) \in Seq(Entry) /\ Len(Tail(p)) = Len(p) - 1
      /\ \A i \in 1..(Len(p) - 1) : Tail(p)[i] = p[i + 1]
  BY <1>2, <1>3
<1>5. \A i \in 1..Len(asked) : stage'[asked[i]] = "answered" <=> i <= k + 1
  <2> TAKE i \in 1..Len(asked)
  <2>1. CASE i = k + 1
    BY <1>3, <2>1
  <2>2. CASE i # k + 1
    <3>1. asked[i] # asked[k + 1] /\ asked[i] \in Calls
      BY <1>1, <2>2 DEF Distinct
    <3>2. stage'[asked[i]] = stage[asked[i]] /\ (i <= k + 1 <=> i <= k)
      BY <1>3, <2>2, <3>1
    <3> QED BY <1>a, <3>2
  <2> QED BY <2>1, <2>2
<1>6. CallsOf(Tail(p)) = SubSeq(asked, (k + 1) + 1, Len(asked))
  <2>1. CallsOf(Tail(p)) = Tail(CallsOf(p))
    <3>1. /\ CallsOf(p) \in Seq(Calls) /\ Len(CallsOf(p)) = Len(p)
          /\ \A i \in DOMAIN p : CallsOf(p)[i] = p[i].call
      BY <1>2, CallsOfType
    <3>2. /\ CallsOf(Tail(p)) \in Seq(Calls) /\ Len(CallsOf(Tail(p))) = Len(Tail(p))
          /\ \A i \in DOMAIN Tail(p) : CallsOf(Tail(p))[i] = Tail(p)[i].call
      BY <1>4, CallsOfType
    <3>3. DOMAIN p = 1..Len(p) /\ DOMAIN Tail(p) = 1..Len(Tail(p)) /\ Len(p) \in Nat /\ Len(p) > 0
      BY <1>2, <1>3, <1>4, EntryFields
    <3>4. CallsOf(p) # <<>>
      BY <3>1, <3>3
    <3> DEFINE a == CallsOf(p)
    <3> DEFINE b == CallsOf(Tail(p))
    <3> HIDE DEF a, b
    <3>5. Tail(a) \in Seq(Calls) /\ Len(Tail(a)) = Len(a) - 1
          /\ \A i \in 1..(Len(a) - 1) : Tail(a)[i] = a[i + 1]
      BY <3>1, <3>4 DEF a
    <3>6. \A i \in 1..Len(b) : b[i] = Tail(a)[i]
      <4> TAKE i \in 1..Len(b)
      <4>1. i \in DOMAIN Tail(p) /\ i \in 1..(Len(p) - 1) /\ i + 1 \in DOMAIN p
        BY <1>4, <3>2, <3>3 DEF b
      <4>2. b[i] = Tail(p)[i].call /\ Tail(p)[i] = p[i + 1]
        BY <1>4, <3>2, <4>1 DEF b
      <4>3. Tail(a)[i] = a[i + 1] /\ a[i + 1] = p[i + 1].call
        BY <3>1, <3>5, <4>1 DEF a
      <4> QED BY <4>2, <4>3
    <3>7. b \in Seq(Calls) /\ Len(b) = Len(Tail(a))
      BY <1>4, <3>1, <3>2, <3>5 DEF a, b
    <3>8. b = Tail(a)
      BY <3>5, <3>6, <3>7, SeqEqual
    <3> QED BY <3>8 DEF a, b
  <2>2. Tail(SubSeq(asked, k + 1, Len(asked))) = SubSeq(asked, (k + 1) + 1, Len(asked))
    <3>1. k + 1 \in 1..Len(asked) /\ Len(asked) \in (k + 1)..Len(asked)
      BY <1>1, <1>3
    <3>2. SubSeq(asked, k + 1, Len(asked))
            = <<asked[k + 1]>> \o SubSeq(asked, (k + 1) + 1, Len(asked))
      BY <1>1, <1>2, <3>1, SubSeqRecursiveFirst
    <3>3. SubSeq(asked, (k + 1) + 1, Len(asked)) \in Seq(Calls) /\ asked[k + 1] \in Calls
      BY <1>1, <1>2, <1>3
    <3> DEFINE r == SubSeq(asked, (k + 1) + 1, Len(asked))
    <3> HIDE DEF r
    <3>4. Tail(<<asked[k + 1]>> \o r) = r
      BY <3>3 DEF r
    <3> QED BY <3>2, <3>4 DEF r
  <2> QED BY <1>a, <2>1, <2>2
<1>7. \A i \in DOMAIN Tail(p) : Tail(p)[i].started <=> stage'[asked[(k + 1) + i]] # "none"
  <2> TAKE i \in DOMAIN Tail(p)
  <2>1. i \in 1..(Len(p) - 1) /\ i + 1 \in DOMAIN p
    BY <1>2, <1>4, EntryFields
  <2>2. (k + 1) + i \in 1..Len(asked) /\ k + (i + 1) = (k + 1) + i /\ (k + 1) + i # k + 1
    <3>1. \A n \in Nat : \A m \in 0..n : \A j \in 1..((n - m) - 1) :
            (m + 1) + j \in 1..n /\ m + (j + 1) = (m + 1) + j /\ (m + 1) + j # m + 1
      OBVIOUS
    <3> QED BY <1>1, <2>1, <3>1
  <2>3. asked[(k + 1) + i] # asked[k + 1] /\ asked[(k + 1) + i] \in Calls
    BY <1>1, <1>3, <2>2 DEF Distinct
  <2>4. p[i + 1].started <=> stage[asked[(k + 1) + i]] # "none"
    BY <1>a, <2>1, <2>2
  <2> QED BY <1>4, <2>1, <2>3, <2>4
<1> QED BY <1>5, <1>6, <1>7 DEF AnsweredUpTo, p

LEMMA StepCommit ==
  ASSUME IInv, NEW i \in DOMAIN asked, Commit(i)
  PROVE  IInv'
<1> DEFINE c == asked[i]
<1> DEFINE e == Answer(Here.openTurn, Here.openStep, c, outcome[c])
<1> DEFINE s == Scanned(log)
<1>0. /\ TypeOK /\ LogInv /\ DriverInv /\ ActsInv /\ Distinct(asked)
      /\ Here.openTurn \in Turns /\ Here.openStep \in Steps /\ pc = "tools"
  BY ToolsAt DEF Commit
<1>1. PICK k \in 0..Len(asked) : AnsweredUpTo(k)
  BY ToolsAt DEF Commit
<1>2. /\ Here \in TraceT /\ s \in ScanT /\ Agree(Here, s) /\ s.pending \in Seq(Entry)
      /\ asked \in Seq(Calls) /\ Len(asked) \in Nat /\ DOMAIN asked = 1..Len(asked)
      /\ c \in Calls /\ outcome[c] \in Outcomes
  BY <1>0, Basics DEF TypeOK
<1>3. /\ stage[c] = "returned" /\ stage' = [stage EXCEPT ![c] = "answered"] /\ Before(i)
      /\ log' = Append(log, e) /\ asked' = asked /\ pc' = "tools"
      /\ UNCHANGED <<durable, barrier, need, outcome, effects, sent, crashes>>
  BY <1>0 DEF Commit
<1>4. /\ i = k + 1 /\ s.pending # <<>> /\ 1 \in DOMAIN s.pending /\ s.pending[1].call = c
      /\ s.pending[1].started /\ CallLogged(log, Len(log), c)
  BY <1>0, <1>1, <1>3, NextInLine
<1>5. /\ e \in Event /\ e.type = "tool/result" /\ e.turn = Here.openTurn
      /\ e.step = Here.openStep /\ e.call = c /\ e.outcome = outcome[c]
  BY <1>0, <1>2, AnswerType DEF Answer
<1> HIDE DEF e, c, s
<1>6. Accepts(Here, e) /\ FitsScan(s, e) /\ Fits(log, e)
  <2>1. c \in Here.pending
    BY <1>2, <1>4 DEF Agree
  <2> QED BY <1>4, <1>5, <2>1 DEF Accepts, InOpenStep, Fits, FitsScan, s
<1>7. /\ log' \in Seq(Event) /\ AllGood(log') /\ Len(log') = Len(log) + 1 /\ Len(log) \in Nat
      /\ durable \in 0..Len(log') /\ Extends(log, log')
      /\ Here' = Advance(Here, e) /\ Scanned(log)' = Observe(s, e)
      /\ \A d : Disowned(log', d) <=> Disowned(log, d) \/ (c = d /\ outcome[c] \in Disowning)
  BY <1>0, <1>3, <1>5, <1>6, Grown DEF Here, s
<1>8. \A d \in Calls : /\ d # c => stage'[d] = stage[d]
                       /\ stage'[c] = "answered"
  BY <1>0, <1>2, <1>3 DEF TypeOK
<1>9. TypeOK'
  BY <1>0, <1>2, <1>3, <1>7 DEF TypeOK
<1>10. DriverInv'
  <2>1. Here'.openStep # Closed
    <3>1. Here' = [Here EXCEPT !.pending = @ \ {e.call}]
      BY <1>5, <1>7 DEF Advance
    <3> QED BY <1>0, <1>2, <3>1 DEF TraceT, Steps, Closed
  <2>2. e \in AnyEvent
    BY <1>5 DEF AnyEvent
  <2>3. Scanned(log)'.pending = Tail(s.pending)
    <3>1. Observe(s, e).pending = Tail(s.pending)
      BY <1>2, <1>5, <1>6, <2>2, PendingStep
    <3> QED BY <1>7, <3>1
  <2>4. AnsweredUpTo(k + 1)'
    <3>1. stage'[asked[k + 1]] = "answered" /\ k + 1 \in DOMAIN asked
      BY <1>2, <1>4, <1>8 DEF c
    <3>2. \A d \in Calls : d # asked[k + 1] => stage'[d] = stage[d]
      BY <1>4, <1>8 DEF c
    <3> QED BY <1>0, <1>1, <1>3, <1>7, <2>3, <3>1, <3>2, OneMore DEF s
  <2>5. k + 1 \in 0..Len(asked')
    BY <1>2, <1>3, <1>4
  <2>6. Distinct(asked') /\ \E m \in 0..Len(asked') : AnsweredUpTo(m)'
    BY <1>0, <1>3, <2>4, <2>5
  <2> QED BY <1>3, <2>1, <2>6 DEF DriverInv
<1>11. ActsInv'
  <2>1. CallActs(c) /\ (c \in effects => CallLogged(log, durable, c) /\ ~Disowned(log, c))
    BY <1>0, <1>2 DEF ActsInv
  <2>2. PICK b \in Calls : b = c
    BY <1>2
  <2>3. CallActs(b)'
    BY <1>2, <1>3, <1>8, <2>1, <2>2 DEF CallActs, InStep
  <2>4. \A d \in Calls : d # b => /\ stage'[d] = stage[d] /\ need'[d] = need[d]
                                  /\ outcome'[d] = outcome[d]
                                  /\ Disowned(log', d) => Disowned(log, d)
    BY <1>3, <1>7, <1>8, <2>2
  <2>5. effects' \subseteq effects \cup {b}
    BY <1>3
  <2>6. b \in effects' => CallLogged(log', durable, b) /\ ~Disowned(log', b)
    <3> SUFFICES ASSUME b \in effects PROVE CallLogged(log', durable, b) /\ ~Disowned(log', b)
      BY <1>3
    <3>1. CallLogged(log, durable, b) /\ ~Disowned(log, b) /\ outcome[c] \notin Disowning
      BY <1>3, <2>1, <2>2 DEF CallActs
    <3>2. durable \in 0..Len(log) /\ Len(log') \in Nat
      BY <1>0, <1>7, Basics
    <3>3. CallLogged(log', durable, b)
      BY <1>7, <3>1, <3>2, SaidBefore
    <3> QED BY <1>7, <3>1, <3>3
  <2> QED BY <1>0, <1>3, <1>7, <2>3, <2>4, <2>5, <2>6, ActsTools
<1> QED BY <1>7, <1>9, <1>10, <1>11 DEF IInv, LogInv

\* A tool/call says nothing of the entries of other calls.
LEMMA StartOther ==
  ASSUME NEW entry \in Entry, NEW e, entry.call # e.call
  PROVE  Start(entry, e) = entry
<1>1. entry.started \in BOOLEAN /\ entry = [entry EXCEPT !.started = entry.started]
  BY DEF Entry
<1>2. (entry.started \/ entry.call = e.call) = entry.started
  BY <1>1
<1>3. Start(entry, e) = [entry EXCEPT !.started = entry.started \/ entry.call = e.call]
  BY DEF Start
<1> QED BY <1>1, <1>2, <1>3, Zenon

LEMMA StepSkip ==
  ASSUME IInv, NEW i \in DOMAIN asked, Skip(i)
  PROVE  IInv'
<1> DEFINE c == asked[i]
<1> DEFINE e == ToolCall(Here.openTurn, Here.openStep, c)
<1> DEFINE a == Answer(Here.openTurn, Here.openStep, c, "undispatched")
<1> DEFINE s == Scanned(log)
<1> DEFINE l == Append(log, e)
<1>0. /\ TypeOK /\ LogInv /\ DriverInv /\ ActsInv /\ Distinct(asked)
      /\ Here.openTurn \in Turns /\ Here.openStep \in Steps /\ pc = "tools"
  BY ToolsAt DEF Skip
<1>1. PICK k \in 0..Len(asked) : AnsweredUpTo(k)
  BY ToolsAt DEF Skip
<1>2. /\ Here \in TraceT /\ s \in ScanT /\ Agree(Here, s) /\ s.pending \in Seq(Entry)
      /\ asked \in Seq(Calls) /\ Len(asked) \in Nat /\ DOMAIN asked = 1..Len(asked)
      /\ c \in Calls /\ log \in Seq(Event)
  BY <1>0, Basics DEF TypeOK
<1>3. /\ stage[c] = "none" /\ stage' = [stage EXCEPT ![c] = "answered"] /\ Before(i)
      /\ log' = log \o <<e, a>> /\ asked' = asked /\ pc' = "tools"
      /\ UNCHANGED <<durable, barrier, need, outcome, effects, sent, crashes>>
  BY <1>0 DEF Skip
<1>4. /\ i = k + 1 /\ s.pending # <<>> /\ 1 \in DOMAIN s.pending /\ s.pending[1].call = c
      /\ ~CallLogged(log, Len(log), c)
  BY <1>0, <1>1, <1>3, NextInLine
<1>5. /\ e \in Event /\ e.type = "tool/call" /\ e.turn = Here.openTurn
      /\ e.step = Here.openStep /\ e.call = c
  BY <1>0, <1>2 DEF Event, ToolCall
<1>6. /\ a \in Event /\ a.type = "tool/result" /\ a.turn = Here.openTurn
      /\ a.step = Here.openStep /\ a.call = c /\ a.outcome \in Disowning
  <2>1. "undispatched" \in Outcomes \cup {"not started", "unknown"}
    BY DEF Outcomes
  <2>2. a \in Event
    BY <1>0, <1>2, <2>1, AnswerType
  <2> QED BY <2>2 DEF Answer, Disowning
<1>7. log' = Append(l, a)
  <2> HIDE DEF e, a
  <2> QED BY <1>2, <1>3, <1>5, <1>6
<1> HIDE DEF e, a, c, s
<1>8. Accepts(Here, e) /\ FitsScan(s, e) /\ Fits(log, e)
  BY <1>4, <1>5 DEF Accepts, InOpenStep, Fits, FitsScan, s
<1>9. /\ l \in Seq(Event) /\ AllGood(l) /\ Len(l) = Len(log) + 1 /\ Len(log) \in Nat
      /\ Extends(log, l) /\ durable \in 0..Len(l)
      /\ TraceOf(l) = Advance(Here, e) /\ Scanned(l) = Observe(s, e)
      /\ \A d : Disowned(l, d) <=> Disowned(log, d)
  BY <1>0, <1>5, <1>8, Grown DEF s
<1>10. l \in Seq(AnyEvent) /\ e \in AnyEvent /\ a \in AnyEvent
  BY <1>5, <1>6, <1>9, SeqMonotonic DEF AnyEvent
<1> HIDE DEF l
<1>11. /\ TraceOf(l) \in TraceT /\ Scanned(l) \in ScanT /\ Agree(TraceOf(l), Scanned(l))
  BY <1>9, <1>10, GoodOf, RecursionLaws DEF Good
<1>12. /\ TraceOf(l).openTurn = Here.openTurn /\ TraceOf(l).openStep = Here.openStep
       /\ TraceOf(l).pending = Here.pending \cup {c}
  <2>1. TraceOf(l) = [Here EXCEPT !.pending = @ \cup {c}]
    BY <1>5, <1>9 DEF Advance
  <2> QED BY <1>2, <2>1 DEF TraceT
<1>13. Scanned(l).pending = [j \in DOMAIN s.pending |-> Start(s.pending[j], e)]
  <2>1. e.type = "tool/call" =>
          Observe(s, e).pending = [j \in DOMAIN s.pending |-> Start(s.pending[j], e)]
    BY <1>2, <1>8, <1>10, PendingStep
  <2>2. Observe(s, e).pending = [j \in DOMAIN s.pending |-> Start(s.pending[j], e)]
    BY <1>5, <2>1, Zenon
  <2> QED BY <1>9, <2>2, Zenon
<1>14. /\ DOMAIN s.pending = 1..Len(s.pending) /\ Len(s.pending) \in Nat
       /\ \A j \in DOMAIN s.pending : s.pending[j] \in Entry
       /\ Scanned(l).pending \in Seq(Entry) /\ Len(Scanned(l).pending) = Len(s.pending)
       /\ Scanned(l).pending # <<>> /\ Scanned(l).pending[1].call = c
  <2>1. /\ DOMAIN s.pending = 1..Len(s.pending) /\ Len(s.pending) \in Nat
        /\ \A j \in DOMAIN s.pending : s.pending[j] \in Entry
    BY <1>2, EntryFields
  <2>2. Scanned(l).pending \in Seq(Entry)
    BY <1>11 DEF ScanT
  <2>3. DOMAIN Scanned(l).pending = DOMAIN s.pending
    BY <1>13
  <2>4. Len(Scanned(l).pending) = Len(s.pending) /\ Scanned(l).pending # <<>>
    BY <1>4, <2>1, <2>2, <2>3
  <2>5. Scanned(l).pending[1] = Start(s.pending[1], e)
    BY <1>4, <1>13
  <2>6. Start(s.pending[1], e).call = s.pending[1].call
    BY <1>4, <2>1, StartType
  <2> QED BY <1>4, <2>1, <2>2, <2>4, <2>5, <2>6
<1>15. Accepts(TraceOf(l), a) /\ FitsScan(Scanned(l), a) /\ Fits(l, a)
  BY <1>6, <1>12, <1>14 DEF Accepts, InOpenStep, Fits, FitsScan
<1>16. /\ log' \in Seq(Event) /\ AllGood(log') /\ Len(log') = Len(log) + 2
       /\ Extends(log, log') /\ durable \in 0..Len(log')
  <2>1. AllGood(log')
    BY <1>7, <1>9, <1>10, <1>15, AllGoodStep
  <2>2. log' \in Seq(Event) /\ Len(log') = Len(l) + 1 /\ \A j \in 1..Len(l) : log'[j] = l[j]
    BY <1>6, <1>7, <1>9, AppendProperties
  <2>3. Extends(log, log') /\ Len(log') = Len(log) + 2 /\ durable \in 0..Len(log')
    BY <1>9, <2>2 DEF Extends
  <2> QED BY <2>1, <2>2, <2>3
<1>17. TraceOf(log') = Advance(TraceOf(l), a) /\ Scanned(log') = Observe(Scanned(l), a)
  BY <1>7, <1>10, RecursionStep
<1>18. \A d : Disowned(log', d) <=> Disowned(log, d) \/ c = d
  BY <1>6, <1>7, <1>9, <1>10, SaidStep
<1>19. \A d \in Calls : /\ d # c => stage'[d] = stage[d]
                        /\ stage'[c] = "answered"
  BY <1>0, <1>2, <1>3 DEF TypeOK
<1>20. TypeOK'
  BY <1>0, <1>2, <1>3, <1>16 DEF TypeOK
<1>21. Here' = TraceOf(log') /\ Scanned(log)' = Scanned(log')
  BY DEF Here
<1>22. DriverInv'
  <2>1. Here'.openStep # Closed
    <3>1. TraceOf(log') = [TraceOf(l) EXCEPT !.pending = @ \ {a.call}]
      BY <1>6, <1>17 DEF Advance
    <3>2. TraceOf(log').openStep = Here.openStep
      BY <1>11, <1>12, <3>1 DEF TraceT
    <3> QED BY <1>0, <1>21, <3>2 DEF Steps, Closed
  <2>2. Scanned(log').pending = Tail(Scanned(l).pending)
    <3>1. Observe(Scanned(l), a).pending = Tail(Scanned(l).pending)
      BY <1>6, <1>10, <1>11, <1>15, PendingStep
    <3> QED BY <1>17, <3>1
  <2>3. Tail(Scanned(l).pending) = Tail(s.pending)
    <3> DEFINE p == s.pending
    <3> DEFINE q == Scanned(l).pending
    <3>1. /\ p \in Seq(Entry) /\ q \in Seq(Entry) /\ p # <<>> /\ q # <<>> /\ Len(q) = Len(p)
          /\ DOMAIN p = 1..Len(p) /\ Len(p) \in Nat /\ \A j \in DOMAIN p : p[j] \in Entry
      BY <1>2, <1>4, <1>14
    <3>2. \A j \in DOMAIN p : j # 1 => q[j] = p[j]
      <4> SUFFICES ASSUME NEW j \in DOMAIN p, j # 1 PROVE q[j] = p[j]
        OBVIOUS
      <4>1. q[j] = Start(p[j], e)
        BY <1>13
      <4>2. p[j].call # p[1].call
        <5>1. Distinct(CallsOf(p))
          BY <1>2 DEF Agree
        <5>2. CallsOf(p)[j] = p[j].call /\ CallsOf(p)[1] = p[1].call
          BY <1>4, <3>1, CallsOfType
        <5>3. j \in DOMAIN CallsOf(p) /\ 1 \in DOMAIN CallsOf(p)
          BY <1>4 DEF CallsOf
        <5> QED BY <5>1, <5>2, <5>3 DEF Distinct
      <4>3. p[j].call # e.call
        BY <1>4, <1>5, <4>2
      <4> QED BY <3>1, <4>1, <4>3, StartOther
    <3> HIDE DEF p, q
    <3>3. /\ Tail(p) \in Seq(Entry) /\ Tail(q) \in Seq(Entry) /\ Len(Tail(p)) = Len(Tail(q))
          /\ \A j \in 1..Len(Tail(p)) :
               /\ Tail(p)[j] = p[j + 1] /\ Tail(q)[j] = q[j + 1]
               /\ j + 1 \in DOMAIN p /\ j + 1 # 1
      BY <3>1
    <3>4. \A j \in 1..Len(Tail(p)) : Tail(q)[j] = Tail(p)[j]
      BY <3>2, <3>3
    <3>5. Tail(q) = Tail(p)
      BY <3>3, <3>4, SeqEqual
    <3> QED BY <3>5 DEF p, q
  <2>4. AnsweredUpTo(k + 1)'
    <3>1. stage'[asked[k + 1]] = "answered" /\ k + 1 \in DOMAIN asked
      BY <1>2, <1>4, <1>19 DEF c
    <3>2. \A d \in Calls : d # asked[k + 1] => stage'[d] = stage[d]
      BY <1>4, <1>19 DEF c
    <3>3. Scanned(log)'.pending = Tail(Scanned(log).pending)
      BY <1>21, <2>2, <2>3 DEF s
    <3> QED BY <1>0, <1>1, <1>3, <1>16, <3>1, <3>2, <3>3, OneMore
  <2>5. k + 1 \in 0..Len(asked')
    BY <1>2, <1>3, <1>4
  <2>6. Distinct(asked') /\ \E m \in 0..Len(asked') : AnsweredUpTo(m)'
    BY <1>0, <1>3, <2>4, <2>5
  <2> QED BY <1>3, <2>1, <2>6 DEF DriverInv
<1>23. ActsInv'
  <2>1. c \notin effects
    <3> SUFFICES ASSUME c \in effects PROVE CallLogged(log, Len(log), c)
      BY <1>4
    <3>1. CallLogged(log, durable, c) /\ durable \in Int /\ Len(log) \in Int /\ durable <= Len(log)
      BY <1>0, Basics DEF ActsInv
    <3> QED BY <3>1, SaidSince
  <2>2. PICK b \in Calls : b = c
    BY <1>2
  <2>3. CallActs(b)'
    <3>1. stage'[b] = "answered" /\ InStep(b)'
      BY <1>2, <1>3, <1>19, <2>2 DEF InStep, c
    <3> QED BY <3>1 DEF CallActs
  <2>4. \A d \in Calls : d # b => /\ stage'[d] = stage[d] /\ need'[d] = need[d]
                                  /\ outcome'[d] = outcome[d]
                                  /\ Disowned(log', d) => Disowned(log, d)
    BY <1>3, <1>18, <1>19, <2>2
  <2>5. effects' \subseteq effects \cup {b} /\ b \notin effects'
    BY <1>3, <2>1, <2>2
  <2> QED BY <1>0, <1>3, <1>16, <2>3, <2>4, <2>5, ActsTools
<1> QED BY <1>16, <1>20, <1>22, <1>23 DEF IInv, LogInv

LEMMA StepCloseStep ==
  ASSUME IInv, CloseStep
  PROVE  IInv'
<1> DEFINE e == StepEnd(Here.openTurn, Here.openStep)
<1> DEFINE s == Scanned(log)
<1>0. /\ TypeOK /\ LogInv /\ DriverInv /\ ActsInv
      /\ Here.openTurn \in Turns /\ Here.openStep \in Steps /\ pc = "tools"
  BY ToolsAt DEF CloseStep
<1>1. PICK k \in 0..Len(asked) : AnsweredUpTo(k)
  BY ToolsAt DEF CloseStep
<1>2. Here \in TraceT /\ s \in ScanT /\ s.pending \in Seq(Entry)
  BY <1>0, Basics
<1>3. s.pending = <<>>
  <2>1. Len(asked) \in Nat /\ Len(s.pending) = Len(asked) - k
    BY <1>0, <1>1, Queue
  <2>2. \A i \in 1..Len(asked) : i <= k
    <3>1. \A i \in 1..((Len(asked) + 1) - 1) : stage[asked[i]] = "answered"
      BY DEF CloseStep, Before
    <3>2. (Len(asked) + 1) - 1 = Len(asked)
      BY <2>1
    <3> QED BY <1>1, <3>1, <3>2 DEF AnsweredUpTo
  <2>3. k = Len(asked)
    <3>1. \A n \in Nat : \A m \in 0..n : (\A i \in 1..n : i <= m) => m = n
      <4> SUFFICES ASSUME NEW n \in Nat, NEW m \in 0..n, \A i \in 1..n : i <= m, m # n
                   PROVE  FALSE
        OBVIOUS
      <4>1. n \in 1..n /\ ~(n <= m)
        OBVIOUS
      <4> QED BY <4>1
    <3> QED BY <1>1, <2>1, <2>2, <3>1
  <2> HIDE DEF s
  <2>4. Len(s.pending) = 0
    BY <2>1, <2>3
  <2> QED BY <1>2, <2>4
<1>4. /\ e \in Event /\ e.type = "step/end" /\ e.turn = Here.openTurn /\ e.step = Here.openStep
  BY <1>0 DEF Event, StepEnd
<1>5. log' = Append(log, e) /\ pc' = "idle"
  BY DEF CloseStep
<1> HIDE DEF e
<1>6. Accepts(Here, e) /\ Fits(log, e)
  BY <1>3, <1>4 DEF Accepts, InOpenStep, Fits, FitsScan
<1>7. /\ log' \in Seq(Event) /\ AllGood(log')
      /\ durable \in 0..Len(log') /\ Extends(log, log')
      /\ Here' = Advance(Here, e)
      /\ \A c : Disowned(log', c) => Disowned(log, c)
  BY <1>0, <1>4, <1>5, <1>6, Grown DEF Here
<1>8. TypeOK'
  <2>1. barrier' \in Nat
    BY <1>0 DEF CloseStep, TypeOK
  <2> QED BY <1>0, <1>5, <1>7, <2>1, TypesDriver DEF CloseStep
<1>9. DriverInv'
  <2>1. Here' = [Here EXCEPT !.openStep = Closed, !.nextStep = @ + 1, !.pending = {}]
    BY <1>4, <1>7 DEF Advance
  <2>2. Here'.openStep = Closed
    BY <1>2, <2>1 DEF TraceT
  <2> QED BY <1>5, <2>2 DEF DriverInv
<1>10. ActsInv'
  BY <1>0, <1>5, <1>7, ActsOutside DEF CloseStep
<1> QED BY <1>7, <1>8, <1>9, <1>10 DEF IInv, LogInv
-----------------------------------------------------------------------------
(* Repair, persistence and crash.                                          *)

\* The session's own log, repaired.
LEMMA RepairedLog ==
  ASSUME TypeOK, LogInv, ActsInv
  PROVE  /\ Resumed(log) \in Seq(Event) /\ AllGood(Resumed(log))
         /\ durable \in 0..Len(Resumed(log)) /\ Extends(log, Resumed(log))
         /\ TraceOf(Resumed(log)).openTurn = Closed /\ TraceOf(Resumed(log)).openStep = Closed
         /\ \A c \in effects : Disowned(Resumed(log), c) => Disowned(log, c)
<1>1. /\ log \in Seq(Event) /\ log \in Seq(AnyEvent) /\ AllGood(log) /\ Good(log)
      /\ Len(log) \in Nat /\ durable \in 0..Len(log)
  BY Basics
<1>2. Closers(log) \in Seq(Event)
  BY <1>1, ClosersOfGood
<1>3. Resumed(log) \in Seq(Event)
  BY <1>1, <1>2 DEF Resumed
<1>4. /\ AllGood(Resumed(log))
      /\ TraceOf(Resumed(log)).openTurn = Closed /\ TraceOf(Resumed(log)).openStep = Closed
      /\ Len(log) <= Len(Resumed(log)) /\ \A i \in 1..Len(log) : Resumed(log)[i] = log[i]
      /\ \A c \in Calls : Disowned(Resumed(log), c)
                            => Disowned(log, c) \/ ~CallLogged(log, Len(log), c)
  BY <1>1, ResumedIs
<1>5. ASSUME NEW c \in effects, Disowned(Resumed(log), c) PROVE Disowned(log, c)
  <2>1. c \in Calls
    BY DEF TypeOK
  <2>2. CallLogged(log, durable, c) /\ durable \in Int /\ Len(log) \in Int /\ durable <= Len(log)
    BY <1>1 DEF ActsInv
  <2>3. CallLogged(log, Len(log), c)
    BY <2>2, SaidSince
  <2> QED BY <1>4, <1>5, <2>1, <2>3
<1>6. Len(Resumed(log)) \in Nat
  BY <1>3
<1> HIDE DEF Resumed
<1>7. Extends(log, Resumed(log)) /\ durable \in 0..Len(Resumed(log))
  BY <1>1, <1>4, <1>6 DEF Extends
<1> QED BY <1>3, <1>4, <1>5, <1>7

LEMMA StepStepFails ==
  ASSUME IInv, StepFails
  PROVE  IInv'
<1>0. TypeOK /\ LogInv /\ DriverInv /\ ActsInv
  BY DEF IInv
<1>1. log' = Resumed(log) /\ pc' = "idle" /\ barrier' = barrier
  BY DEF StepFails
<1>2. /\ log' \in Seq(Event) /\ AllGood(log') /\ durable \in 0..Len(log') /\ Extends(log, log')
      /\ Here'.openTurn = Closed /\ Here'.openStep = Closed
      /\ \A c \in effects : Disowned(log', c) => Disowned(log, c)
  BY <1>0, <1>1, RepairedLog DEF Here
<1>3. TypeOK'
  <2>1. barrier' \in Nat
    BY <1>0, <1>1 DEF TypeOK
  <2> QED BY <1>0, <1>1, <1>2, <2>1, TypesDriver DEF StepFails
<1>4. DriverInv'
  BY <1>1, <1>2 DEF DriverInv
<1>5. ActsInv'
  BY <1>0, <1>1, <1>2, ActsOutside DEF StepFails
<1> QED BY <1>2, <1>3, <1>4, <1>5 DEF IInv, LogInv

LEMMA StepResume ==
  ASSUME IInv, Resume
  PROVE  IInv'
<1>0. TypeOK /\ LogInv /\ DriverInv /\ ActsInv
  BY DEF IInv
<1>1. log' = Resumed(log) /\ pc' \in {"idle", "repair"} /\ barrier' \in {barrier, Len(log')}
  BY DEF Resume
<1>2. /\ log' \in Seq(Event) /\ AllGood(log') /\ durable \in 0..Len(log') /\ Extends(log, log')
      /\ Here'.openTurn = Closed /\ Here'.openStep = Closed
      /\ \A c \in effects : Disowned(log', c) => Disowned(log, c)
  BY <1>0, <1>1, RepairedLog DEF Here
<1>3. TypeOK'
  <2>1. Len(log') \in Nat
    BY <1>2
  <2>2. barrier' \in Nat
    BY <1>0, <1>1, <2>1 DEF TypeOK
  <2> QED BY <1>0, <1>1, <1>2, <2>2, TypesDriver DEF Resume
<1>4. DriverInv'
  BY <1>1, <1>2 DEF DriverInv
<1>5. ActsInv'
  BY <1>0, <1>1, <1>2, ActsOutside DEF Resume
<1> QED BY <1>2, <1>3, <1>4, <1>5 DEF IInv, LogInv

LEMMA StepRepaired ==
  ASSUME IInv, Repaired
  PROVE  IInv'
<1>0. TypeOK /\ LogInv /\ DriverInv /\ ActsInv
  BY DEF IInv
<1>1. log' = log /\ Here' = Here /\ pc = "repair" /\ pc' = "idle"
  BY DEF Repaired, Here
<1>2. log \in Seq(Event) /\ durable \in 0..Len(log) /\ Extends(log, log)
  BY <1>0, Basics DEF Extends
<1>3. TypeOK'
  <2>1. barrier' \in Nat
    BY <1>0 DEF Repaired, TypeOK
  <2> QED BY <1>0, <1>1, <1>2, <2>1, TypesDriver DEF Repaired
<1>4. LogInv'
  BY <1>0, <1>1 DEF LogInv
<1>5. DriverInv'
  BY <1>0, <1>1 DEF DriverInv
<1>6. ActsInv'
  BY <1>0, <1>1, <1>2, ActsOutside DEF Repaired
<1> QED BY <1>3, <1>4, <1>5, <1>6 DEF IInv

LEMMA StepPersist ==
  ASSUME IInv, Persist
  PROVE  IInv'
<1>0. TypeOK /\ LogInv /\ DriverInv /\ ActsInv
  BY DEF IInv
<1>1. /\ log' = log /\ Here' = Here /\ durable' \in (durable + 1)..Len(log)
      /\ UNCHANGED <<pc, barrier, asked, stage, need, outcome, effects, sent, crashes>>
  BY DEF Persist, Here, stepVars
<1>2. log \in Seq(Event) /\ Len(log) \in Nat /\ durable \in 0..Len(log) /\ Extends(log, log)
  BY <1>0, Basics DEF Extends
<1>3. durable' \in 0..Len(log) /\ durable' \in Nat /\ durable <= durable'
  BY <1>1, <1>2
<1>4. TypeOK'
  BY <1>0, <1>1, <1>3 DEF TypeOK
<1>5. LogInv'
  BY <1>0, <1>1 DEF LogInv
<1>6. DriverInv'
  <2>1. \A k : AnsweredUpTo(k)' <=> AnsweredUpTo(k)
    BY <1>1 DEF AnsweredUpTo
  <2> QED BY <1>0, <1>1, <2>1 DEF DriverInv
<1>7. ActsInv'
  <2>1. /\ \A c \in effects' : CallLogged(log', durable', c) /\ ~Disowned(log', c)
        /\ \A r \in sent' : StepLogged(log', durable', r)
    BY <1>0, <1>1, <1>2, <1>3, ActsKept
  <2>2. \A c \in Calls : CallActs(c)' <=> CallActs(c)
    BY <1>1 DEF CallActs, InStep
  <2> QED BY <1>0, <1>1, <2>1, <2>2 DEF ActsInv
<1> QED BY <1>4, <1>5, <1>6, <1>7 DEF IInv

LEMMA StepCrash ==
  ASSUME IInv, Crash
  PROVE  IInv'
<1>0. TypeOK /\ LogInv /\ DriverInv /\ ActsInv
  BY DEF IInv
<1>1. PICK n \in durable..Len(log) : log' = SubSeq(log, 1, n)
  BY DEF Crash
<1>2. log \in Seq(Event) /\ Len(log) \in Nat /\ durable \in 0..Len(log) /\ AllGood(log)
  BY <1>0, Basics
<1>3. n \in 0..Len(log) /\ durable \in 0..n /\ n \in Nat
  BY <1>2
<1>4. log' \in Seq(Event) /\ Len(log') = n /\ \A i \in 1..n : log'[i] = log[i]
  BY <1>1, <1>2, <1>3
<1>5. TypeOK'
  <2>1. durable' \in 0..Len(log')
    BY <1>3, <1>4 DEF Crash
  <2>2. asked' \in Seq(Calls)
    BY DEF Crash
  <2>3. stage' \in [Calls -> {"none", "recorded", "returned", "answered"} \cup Busy]
        /\ need' \in [Calls -> Nat] /\ outcome' \in [Calls -> Outcomes]
    BY DEF Crash, Outcomes
  <2>4. crashes' \in 0..MaxCrashes
    BY <1>0, BoundsAssumption DEF Crash, TypeOK
  <2>5. pc' = "down" /\ barrier' = 0 /\ UNCHANGED <<effects, sent>>
    BY DEF Crash
  <2> QED BY <1>0, <1>4, <2>1, <2>2, <2>3, <2>4, <2>5 DEF TypeOK
<1>6. LogInv'
  <2> SUFFICES ASSUME NEW m \in 0..n PROVE Good(SubSeq(log', 1, m))
    BY <1>4 DEF LogInv, AllGood
  <2>1. SubSeq(log', 1, m) = SubSeq(log, 1, m)
    <3>1. PICK l : l = log'
      OBVIOUS
    <3>2. /\ l \in Seq(Event) /\ Len(l) = n /\ \A i \in 1..n : l[i] = log[i]
      BY <1>4, <3>1
    <3>3. m \in 0..n /\ m <= Len(log) /\ m \in Nat
      BY <1>3
    <3>4. /\ SubSeq(l, 1, m) \in Seq(Event) /\ Len(SubSeq(l, 1, m)) = m
          /\ \A i \in 1..m : SubSeq(l, 1, m)[i] = l[i]
      BY <3>2, <3>3
    <3>5. /\ SubSeq(log, 1, m) \in Seq(Event) /\ Len(SubSeq(log, 1, m)) = m
          /\ \A i \in 1..m : SubSeq(log, 1, m)[i] = log[i]
      BY <1>2, <3>3
    <3>6. \A i \in 1..m : SubSeq(l, 1, m)[i] = SubSeq(log, 1, m)[i]
      BY <1>3, <3>2, <3>3, <3>4, <3>5
    <3> QED BY <3>1, <3>4, <3>5, <3>6, SeqEqual
  <2>2. Good(SubSeq(log, 1, m))
    BY <1>2, <1>3 DEF AllGood
  <2> QED BY <2>1, <2>2
<1>7. DriverInv'
  BY DEF Crash, DriverInv
<1>8. ActsInv'
  <2>1. Extends(log', log)
    BY <1>3, <1>4 DEF Extends
  <2>2. durable \in 0..Len(log')
    BY <1>3, <1>4
  <2>3. effects' = effects /\ sent' = sent /\ durable' = durable /\ pc' = "down"
    BY DEF Crash
  <2>4. ASSUME NEW c \in effects' PROVE CallLogged(log', durable', c) /\ ~Disowned(log', c)
    <3>1. CallLogged(log, durable, c) /\ ~Disowned(log, c)
      BY <1>0, <2>3 DEF ActsInv
    <3>2. CallLogged(log', durable, c)
      BY <1>2, <1>4, <1>3, <2>1, <2>2, <3>1, SaidBefore
    <3>3. Disowned(log', c) => Disowned(log, c)
      <4>1. \A i \in 1..Len(log') : i \in 1..Len(log) /\ log'[i] = log[i]
        BY <1>2, <1>3, <1>4
      <4> QED BY <4>1 DEF Disowned
    <3> QED BY <2>3, <3>1, <3>2, <3>3
  <2>5. ASSUME NEW r \in sent' PROVE StepLogged(log', durable', r)
    <3>1. StepLogged(log, durable, r)
      BY <1>0, <2>3 DEF ActsInv
    <3>2. StepLogged(log', durable, r)
      BY <1>2, <1>3, <1>4, <2>1, <2>2, <3>1, SaidBefore
    <3> QED BY <2>3, <3>2
  <2> QED BY <2>3, <2>4, <2>5 DEF ActsInv
<1> QED BY <1>5, <1>6, <1>7, <1>8 DEF IInv

LEMMA StepTool ==
  ASSUME IInv, Tool
  PROVE  IInv'
<1>1. CASE \E i \in DOMAIN asked : StartCall(i) \/ Commit(i) \/ Skip(i)
  BY <1>1, StepStartCall, StepCommit, StepSkip
<1>2. CASE \E c \in Calls : Execute(c) \/ RunBody(c) \/ \E o \in Outcomes : Return(c, o)
  BY <1>2, StepExecute, StepRunBody, StepReturn
<1> QED BY <1>1, <1>2 DEF Tool

LEMMA StepStutters ==
  ASSUME IInv, UNCHANGED vars
  PROVE  IInv'
<1> USE DEF vars, stepVars
<1>1. TypeOK' /\ LogInv'
  BY DEF IInv, TypeOK, LogInv
<1>2. DriverInv'
  <2>1. Here' = Here /\ \A k : AnsweredUpTo(k)' <=> AnsweredUpTo(k)
    BY DEF Here, AnsweredUpTo
  <2> QED BY <2>1 DEF IInv, DriverInv
<1>3. ActsInv'
  <2>1. Here' = Here /\ \A c \in Calls : CallActs(c)' <=> CallActs(c)
    BY DEF Here, CallActs, InStep
  <2> QED BY <2>1 DEF IInv, ActsInv
<1> QED BY <1>1, <1>2, <1>3 DEF IInv

LEMMA Starting == Init => IInv
<1> SUFFICES ASSUME Init PROVE IInv
  OBVIOUS
<1>1. log = <<>> /\ durable = 0 /\ pc = "idle" /\ effects = {} /\ sent = {} /\ Len(log) = 0
  BY DEF Init
<1>2. TypeOK
  BY BoundsAssumption DEF Init, TypeOK, Outcomes
<1>3. Good(<<>>)
  <2>1. TraceOf(<<>>) = FreshTrace /\ Scanned(<<>>) = FreshScan
    BY RecursionLaws
  <2>2. Valid(<<>>)
    BY DEF Valid
  <2>3. CallsOf(<<>>) = <<>> /\ Distinct(<<>>)
    BY DEF CallsOf, Distinct
  <2>4. Agree(FreshTrace, FreshScan)
    BY <2>3 DEF Agree, FreshTrace, FreshScan
  <2>5. Asks(<<>>) = <<>> /\ Answers(<<>>) = <<>>
    <3>1. \A f : [n \in DOMAIN <<>> |-> f[n]] = <<>>
      OBVIOUS
    <3>2. [n \in DOMAIN <<>> |-> IF <<>>[n].type = "assistant/message" THEN <<>>[n].calls ELSE <<>>]
            = <<>>
      OBVIOUS
    <3>3. [n \in DOMAIN <<>> |-> IF <<>>[n].type = "tool/result" THEN <<<<>>[n].call>> ELSE <<>>]
            = <<>>
      OBVIOUS
    <3> QED BY <3>2, <3>3, FlattenEmpty DEF Asks, Answers
  <2>6. Asks(<<>>) = Answers(<<>>) \o CallsOf(FreshScan.pending)
    <3>1. FreshScan.pending = <<>> /\ <<>> \o <<>> = <<>>
      BY DEF FreshScan
    <3> QED BY <2>3, <2>5, <3>1, Zenon
  <2>7. Marked(<<>>, FreshScan)
    <3>1. \A c : ~CallLogged(<<>>, Len(<<>>), c) /\ ~Disowned(<<>>, c)
      BY DEF CallLogged, Disowned
    <3> QED BY <3>1 DEF Marked, FreshScan
  <2> QED BY <2>1, <2>2, <2>4, <2>6, <2>7 DEF Good
<1>4. LogInv
  <2>1. \A n \in 0..Len(<<>>) : SubSeq(<<>>, 1, n) = <<>>
    OBVIOUS
  <2> QED BY <1>1, <1>3, <2>1 DEF LogInv, AllGood
<1>5. DriverInv
  <2>1. Here = FreshTrace
    BY <1>1, RecursionLaws DEF Here
  <2> QED BY <1>1, <2>1 DEF DriverInv, FreshTrace
<1>6. ActsInv
  BY <1>1 DEF ActsInv
<1> QED BY <1>2, <1>4, <1>5, <1>6 DEF IInv
-----------------------------------------------------------------------------
(* The theorems.                                                           *)

\* The inductive invariant holds in every reachable state: each prefix of the
\* log is accepted, validation and repair read the same position from it, and
\* what left the process was stored before it left.
THEOREM Inductive == Spec => []IInv
<1>1. ASSUME IInv, [Next]_vars PROVE IInv'
  <2>1. CASE UNCHANGED vars
    BY <1>1, <2>1, StepStutters
  <2>2. CASE OpenTurn \/ NextStep \/ CloseTurn \/ OpenStep \/ Request \/ Respond
    BY <1>1, <2>2, StepOpenTurn, StepNextStep, StepCloseTurn, StepOpenStep, StepRequest,
       StepRespond
  <2>3. CASE Tool \/ CloseStep \/ StepFails
    BY <1>1, <2>3, StepTool, StepCloseStep, StepStepFails
  <2>4. CASE Persist \/ Crash \/ Resume \/ Repaired
    BY <1>1, <2>4, StepPersist, StepCrash, StepResume, StepRepaired
  <2> QED BY <1>1, <2>1, <2>2, <2>3, <2>4 DEF Next
<1> QED BY <1>1, Starting, PTL DEF Spec

\* TypeOK of the session across crashes, for any calls, turns, steps and crashes.
THEOREM RepairTypeOK == Spec => []TypeOK
<1>1. IInv => TypeOK
  BY DEF IInv
<1> QED BY <1>1, Inductive, PTL

\* RepairSound: wherever the log was cut, by a crash, by a crash in a repair, by
\* a failing step or by a fork, openTurnClosers make a log that validation
\* accepts, with no turn open and every call answered once and in order, and a
\* repair cut short goes on where it stopped.
THEOREM RepairIsSound == Spec => []RepairSound
<1>1. IInv => RepairSound
  <2> SUFFICES ASSUME TypeOK, LogInv PROVE RepairSound
    BY DEF IInv
  <2>1. log \in Seq(AnyEvent) /\ AllGood(log)
    BY Basics
  <2> QED BY <2>1, GoodRepairs DEF RepairSound
<1> QED BY <1>1, Inductive, PTL

\* ActsRemembered: the log that a resume reads has the tool/call of every tool
\* that ran in any life of the process, no result of it says that it did not
\* run, and the step of every request that was sent is there.
THEOREM ActsAreRemembered == Spec => []ActsRemembered
<1>1. IInv => ActsRemembered
  <2> SUFFICES ASSUME TypeOK, LogInv, ActsInv PROVE ActsRemembered
    BY DEF IInv
  <2>1. /\ durable \in 0..Len(log) /\ Len(log) \in Nat /\ DOMAIN log = 1..Len(log)
        /\ \A n \in 1..durable : n \in DOMAIN log
    BY Basics
  <2>2. ASSUME NEW c \in effects
        PROVE  /\ \E n \in DOMAIN log : log[n].type = "tool/call" /\ log[n].call = c
               /\ \A n \in DOMAIN log : log[n].type = "tool/result" /\ log[n].call = c
                    => log[n].outcome \notin Disowning
    <3>1. CallLogged(log, durable, c) /\ ~Disowned(log, c)
      BY DEF ActsInv
    <3> QED BY <2>1, <3>1 DEF CallLogged, Disowned
  <2>3. ASSUME NEW r \in sent PROVE \E n \in DOMAIN log : log[n] = StepStart(r[1], r[2])
    <3>1. StepLogged(log, durable, r)
      BY DEF ActsInv
    <3> QED BY <2>1, <3>1 DEF StepLogged
  <2> QED BY <2>2, <2>3 DEF ActsRemembered
<1> QED BY <1>1, Inductive, PTL
=============================================================================
