------------------------- MODULE JsonlHandle_proofs -------------------------
(***************************************************************************)
(* Proofs about JsonlHandle, for any flushers, any number of events,       *)
(* faults and crashes, and logs of compressed frames as well as of lines.  *)
(*                                                                         *)
(* A first part proves what the file operators compute: what a reader      *)
(* makes of a file whose frames are whole but for the last, and that a cut *)
(* leaves such a file with a part of its events.  The second part is one   *)
(* inductive invariant over the handle:                                    *)
(*   Types     the types, of the operations and the files too;             *)
(*   LogInv    events are numbered, incarnations are counted;              *)
(*   ChainInv  whose operations the chain holds, each of them once;        *)
(*   BatchInv  what is running, what is buffered and the log agree;        *)
(*   DrainInv  a drain that is queued or running has something to store;   *)
(*   DiskInv   what the file and its durable part hold at each await, as   *)
(*             long as no append was written behind a failed one's rest;   *)
(*   FlushInv  what a flush answers for has been stored before it is told; *)
(*   LeaseInv  the lock is held while the file is touched;                 *)
(*   SeenInv   what close saw is stored, or being stored.                  *)
(* There is a lemma for each action, in three groups: the steps that only  *)
(* ask for a drain, the session's events, and the turns of the chain,      *)
(* those first without and then with the disk.  The last part draws the    *)
(* theorems from it.                                                       *)
(***************************************************************************)
EXTENDS JsonlHandle, SequenceLaws

FrameT == [events : Seq(Event), whole : BOOLEAN]

\* All frames but the last are whole; all are.
Intact(fs) == \A i \in 1..(Len(fs) - 1) : fs[i].whole
Whole(fs)  == \A i \in 1..Len(fs) : fs[i].whole

\* s is where t begins.
Begins(s, t) == Len(s) <= Len(t) /\ \A i \in 1..Len(s) : s[i] = t[i]

LEMMA BeginsConcat ==
  ASSUME NEW S, NEW s \in Seq(S), NEW t \in Seq(S)
  PROVE  Begins(s, s \o t)
BY DEF Begins

LEMMA BeginsTransitive ==
  ASSUME NEW S, NEW s \in Seq(S), NEW t \in Seq(S), NEW u \in Seq(S),
         Begins(s, t), Begins(t, u)
  PROVE  Begins(s, u)
BY DEF Begins

LEMMA BeginsUnder ==
  ASSUME NEW S, NEW s \in Seq(S), NEW t \in Seq(S), NEW u \in Seq(S), Begins(t, u)
  PROVE  Begins(s \o t, s \o u)
BY DEF Begins

LEMMA BeginsSubSeq ==
  ASSUME NEW S, NEW s \in Seq(S), NEW n \in 0..Len(s)
  PROVE  /\ SubSeq(s, 1, n) \in Seq(S) /\ Len(SubSeq(s, 1, n)) = n
         /\ Begins(SubSeq(s, 1, n), s)
BY DEF Begins

LEMMA BeginsIsSubSeq ==
  ASSUME NEW S, NEW s \in Seq(S), NEW t \in Seq(S), Begins(s, t)
  PROVE  s = SubSeq(t, 1, Len(s)) /\ IsPrefix(s, t)
<1>1. s = SubSeq(t, 1, Len(s))
  BY SeqEqual, BeginsSubSeq DEF Begins
<1> QED BY <1>1 DEF Begins, IsPrefix

LEMMA IsPrefixBegins ==
  ASSUME NEW S, NEW s \in Seq(S), NEW t \in Seq(S), IsPrefix(s, t)
  PROVE  Begins(s, t)
<1>1. Len(s) <= Len(t) /\ SubSeq(s, 1, Len(s)) = SubSeq(t, 1, Len(s))
  BY DEF IsPrefix
<1>2. SubSeq(s, 1, Len(s)) = s
  BY SubSeqFull
<1>3. Len(s) \in 0..Len(t)
  BY <1>1
<1>4. Begins(SubSeq(t, 1, Len(s)), t)
  BY <1>3, BeginsSubSeq
<1> QED BY <1>1, <1>2, <1>4

LEMMA Behind ==
  ASSUME NEW S, NEW s \in Seq(S), NEW n \in 0..Len(s)
  PROVE  /\ SubSeq(s, n + 1, Len(s)) \in Seq(S) /\ Len(SubSeq(s, n + 1, Len(s))) = Len(s) - n
         /\ \A i \in 1..(Len(s) - n) : SubSeq(s, n + 1, Len(s))[i] = s[n + i]
OBVIOUS

LEMMA FrontAndLast ==
  ASSUME NEW S, NEW s \in Seq(S), Len(s) > 0
  PROVE  /\ SubSeq(s, 1, Len(s) - 1) \in Seq(S) /\ s[Len(s)] \in S
         /\ Len(SubSeq(s, 1, Len(s) - 1)) = Len(s) - 1
         /\ \A i \in 1..(Len(s) - 1) : SubSeq(s, 1, Len(s) - 1)[i] = s[i]
         /\ s = Append(SubSeq(s, 1, Len(s) - 1), s[Len(s)])
<1> DEFINE n == Len(s) - 1
<1> DEFINE a == SubSeq(s, 1, n)
<1>1. n \in Nat /\ Len(s) = n + 1 /\ s[n + 1] \in S
  OBVIOUS
<1> HIDE DEF n
<1>2. a \in Seq(S) /\ Len(a) = n /\ \A i \in 1..n : a[i] = s[i]
  BY <1>1
<1> HIDE DEF a
<1>3. Append(a, s[n + 1]) \in Seq(S) /\ Len(Append(a, s[n + 1])) = n + 1
  BY <1>1, <1>2
<1>4. \A i \in 1..(n + 1) : Append(a, s[n + 1])[i] = s[i]
  BY <1>1, <1>2
<1>5. s = Append(a, s[n + 1])
  BY <1>1, <1>3, <1>4, SeqEqual
<1> QED BY <1>1, <1>2, <1>5 DEF a, n

LEMMA RestBehind ==
  ASSUME NEW S, NEW s \in Seq(S), NEW t \in Seq(S), Begins(s, t), NEW q \in Seq(S),
         Len(q) = Len(t) - Len(s), \A i \in 1..Len(q) : q[i] = t[Len(s) + i]
  PROVE  s \o q = t
<1>1. s \o q \in Seq(S) /\ Len(s \o q) = Len(t)
  OBVIOUS
<1>2. ASSUME NEW i \in 1..Len(t) PROVE (s \o q)[i] = t[i]
  <2>1. CASE i <= Len(s)
    BY <2>1 DEF Begins
  <2>2. CASE ~(i <= Len(s))
    <3>1. i - Len(s) \in 1..Len(q) /\ (s \o q)[i] = q[i - Len(s)]
      BY <2>2
    <3>2. q[i - Len(s)] = t[Len(s) + (i - Len(s))]
      BY <3>1
    <3> QED BY <3>1, <3>2
  <2> QED BY <2>1, <2>2
<1> QED BY <1>1, <1>2, SeqEqual

\* A sequence is where it begins and the rest.
Rest(s, t) == SubSeq(t, Len(s) + 1, Len(t))

LEMMA BeginsAndRest ==
  ASSUME NEW S, NEW s \in Seq(S), NEW t \in Seq(S), Begins(s, t)
  PROVE  /\ Rest(s, t) \in Seq(S) /\ Len(Rest(s, t)) = Len(t) - Len(s)
         /\ \A i \in 1..Len(Rest(s, t)) : Rest(s, t)[i] = t[Len(s) + i]
         /\ s \o Rest(s, t) = t
<1>1. /\ Rest(s, t) \in Seq(S) /\ Len(Rest(s, t)) = Len(t) - Len(s)
      /\ \A i \in 1..Len(Rest(s, t)) : Rest(s, t)[i] = t[Len(s) + i]
  BY DEF Begins, Rest
<1>2. s \o Rest(s, t) = t
  BY <1>1, RestBehind
<1> QED BY <1>1, <1>2

(* --------------------------- The log file ----------------------------- *)

Contents(fs) == [i \in DOMAIN fs |-> fs[i].events]

LEMMA FrameFields == \A f \in FrameT : f.events \in Seq(Event) /\ f.whole \in BOOLEAN
BY DEF FrameT

LEMMA ContentsType ==
  ASSUME NEW fs \in Seq(FrameT)
  PROVE  Contents(fs) \in Seq(Seq(Event)) /\ Len(Contents(fs)) = Len(fs)
<1> DEFINE n == Len(fs)
<1>1. n \in Nat /\ DOMAIN fs = 1..n /\ \A i \in 1..n : fs[i].events \in Seq(Event)
  BY FrameFields, ElementOfSeq
<1>2. Contents(fs) \in [1..n -> Seq(Event)]
  BY <1>1 DEF Contents
<1> HIDE DEF n
<1>3. Contents(fs) \in Seq(Seq(Event)) /\ Len(Contents(fs)) = n
  BY <1>1, <1>2, SeqDef
<1> QED BY <1>3 DEF n

LEMMA EventsIs == \A fs : Events(fs) = FlattenSeq(Contents(fs))
BY Zenon DEF Events, Contents

LEMMA EventsEmpty == Events(<<>>) = <<>>
<1>1. Contents(<<>>) = <<>>
  BY DEF Contents
<1> QED BY <1>1, EventsIs, FlattenEmpty

LEMMA EventsType ==
  ASSUME NEW fs \in Seq(FrameT)
  PROVE  Events(fs) \in Seq(Event)
BY ContentsType, EventsIs, FlattenType

LEMMA EventsAppend ==
  ASSUME NEW fs \in Seq(FrameT), NEW f \in FrameT
  PROVE  Events(Append(fs, f)) = Events(fs) \o f.events
<1>1. f.events \in Seq(Event)
  BY DEF FrameT
<1>2. Contents(Append(fs, f)) = Append(Contents(fs), f.events)
  <2>1. Contents(Append(fs, f)) \in Seq(Seq(Event)) /\ Len(Contents(Append(fs, f))) = Len(fs) + 1
    BY ContentsType, AppendProperties
  <2>2. /\ Append(Contents(fs), f.events) \in Seq(Seq(Event))
        /\ Len(Append(Contents(fs), f.events)) = Len(fs) + 1
    BY <1>1, ContentsType, AppendProperties
  <2>3. \A i \in 1..(Len(fs) + 1) : Contents(Append(fs, f))[i] = Append(Contents(fs), f.events)[i]
    BY <1>1, ContentsType DEF Contents
  <2> QED BY <2>1, <2>2, <2>3, SeqEqual
<1> QED BY <1>1, <1>2, ContentsType, EventsIs, FlattenAppend

LEMMA EventsAssociative == \A a, b, c \in Seq(Event) : (a \o b) \o c = a \o (b \o c)
BY ConcatAssociative

LEMMA EventsConcat ==
  ASSUME NEW fs \in Seq(FrameT), NEW gs \in Seq(FrameT)
  PROVE  Events(fs \o gs) = Events(fs) \o Events(gs)
<1> DEFINE g(n) == SubSeq(gs, 1, n)
<1> DEFINE T == {n \in Nat : n <= Len(gs) => Events(fs \o g(n)) = Events(fs) \o Events(g(n))}
<1>0. Events(fs) \in Seq(Event)
  BY EventsType
<1>1. 0 \in T
  <2>1. g(0) = <<>> /\ fs \o <<>> = fs /\ Events(fs) \o <<>> = Events(fs)
    BY <1>0, SubSeqEmpty, ConcatEmptySeq
  <2> QED BY <2>1, EventsEmpty
<1>2. ASSUME NEW n \in T PROVE n + 1 \in T
  <2> SUFFICES ASSUME n + 1 <= Len(gs)
               PROVE  Events(fs \o g(n + 1)) = Events(fs) \o Events(g(n + 1))
    OBVIOUS
  <2> DEFINE f == gs[n + 1]
  <2>1. n \in Nat /\ f \in FrameT /\ g(n) \in Seq(FrameT) /\ fs \o g(n) \in Seq(FrameT)
    OBVIOUS
  <2>2. g(n + 1) = Append(g(n), f)
    OBVIOUS
  <2>3. fs \o g(n + 1) = Append(fs \o g(n), f)
    BY <2>1, <2>2
  <2>4. Events(fs \o g(n)) = Events(fs) \o Events(g(n))
    OBVIOUS
  <2> HIDE DEF g, f
  <2>5. /\ Events(fs \o g(n + 1)) = (Events(fs) \o Events(g(n))) \o f.events
        /\ Events(g(n + 1)) = Events(g(n)) \o f.events
    BY <2>1, <2>2, <2>3, <2>4, EventsAppend
  <2>6. Events(g(n)) \in Seq(Event) /\ f.events \in Seq(Event)
    BY <2>1, EventsType DEF FrameT
  <2>8. (Events(fs) \o Events(g(n))) \o f.events = Events(fs) \o (Events(g(n)) \o f.events)
    BY <1>0, <2>6, EventsAssociative, Zenon
  <2> QED BY <2>5, <2>8, Zenon
<1>3. Nat \subseteq T
  <2> HIDE DEF T
  <2> QED BY <1>1, <1>2, NatSetInduction
<1>4. g(Len(gs)) = gs /\ Len(gs) \in Nat
  BY SubSeqFull
<1>5. Len(gs) \in T
  BY <1>3, <1>4
<1> HIDE DEF g
<1> QED BY <1>4, <1>5

\* What is written of a batch is the batch.
LEMMA EncodeIs ==
  ASSUME NEW es \in Seq(Event)
  PROVE  Encode(es) \in Seq(FrameT) /\ Whole(Encode(es)) /\ Events(Encode(es)) = es
<1>1. CASE Framed
  <2>1. Frame(es) \in FrameT /\ Frame(es).events = es /\ Frame(es).whole
    BY DEF Frame, FrameT
  <2>2. Encode(es) = Append(<<>>, Frame(es)) /\ Encode(es) = <<Frame(es)>>
    BY <1>1 DEF Encode
  <2>3. <<>> \in Seq(FrameT)
    BY EmptySeq
  <2> HIDE DEF FrameT
  <2>4. Events(Encode(es)) = Events(<<>>) \o es
    BY <2>1, <2>2, <2>3, EventsAppend
  <2>5. Events(Encode(es)) = es
    BY <2>4, EventsEmpty, ConcatEmptySeq
  <2>6. Encode(es) \in Seq(FrameT) /\ Len(Encode(es)) = 1 /\ Encode(es)[1] = Frame(es)
    BY <2>1, <2>2
  <2> QED BY <2>1, <2>5, <2>6 DEF Whole
<1>2. CASE ~Framed
  <2> DEFINE n == Len(es)
  <2> DEFINE E == [i \in 1..n |-> Frame(<<es[i]>>)]
  <2>1. n \in Nat /\ Encode(es) = E
    BY <1>2 DEF Encode
  <2>2. \A i \in 1..n : Frame(<<es[i]>>) \in FrameT /\ Frame(<<es[i]>>).whole /\ Frame(<<es[i]>>).events = <<es[i]>>
    BY DEF Frame, FrameT
  <2>3. E \in [1..n -> FrameT] /\ \A i \in 1..n : E[i].whole /\ E[i].events = <<es[i]>>
    BY <2>2
  <2> HIDE DEF E
  <2>4. E \in Seq(FrameT) /\ Len(E) = n /\ Whole(E)
    BY <2>1, <2>3, SeqDef DEF Whole
  <2> DEFINE T == {m \in Nat : m <= n => Events(SubSeq(E, 1, m)) = SubSeq(es, 1, m)}
  <2>5. 0 \in T
    <3>1. SubSeq(E, 1, 0) = <<>> /\ SubSeq(es, 1, 0) = <<>>
      BY SubSeqEmpty
    <3> QED BY <3>1, EventsEmpty
  <2>6. ASSUME NEW m \in T PROVE m + 1 \in T
    <3> SUFFICES ASSUME m + 1 <= n PROVE Events(SubSeq(E, 1, m + 1)) = SubSeq(es, 1, m + 1)
      OBVIOUS
    <3>1. /\ SubSeq(E, 1, m + 1) = Append(SubSeq(E, 1, m), E[m + 1])
          /\ SubSeq(E, 1, m) \in Seq(FrameT) /\ E[m + 1] \in FrameT
      BY <2>4
    <3>2. SubSeq(es, 1, m + 1) = SubSeq(es, 1, m) \o <<es[m + 1]>>
      OBVIOUS
    <3>3. E[m + 1].events = <<es[m + 1]>>
      BY <2>3
    <3>4. Events(SubSeq(E, 1, m)) = SubSeq(es, 1, m)
      OBVIOUS
    <3> QED BY <3>1, <3>2, <3>3, <3>4, EventsAppend
  <2>7. Nat \subseteq T
    <3> HIDE DEF T
    <3> QED BY <2>5, <2>6, NatSetInduction
  <2>8. SubSeq(E, 1, n) = E /\ SubSeq(es, 1, n) = es
    BY <2>4, SubSeqFull
  <2>9. Events(SubSeq(E, 1, n)) = SubSeq(es, 1, n)
    BY <2>1, <2>7
  <2> QED BY <2>1, <2>4, <2>8, <2>9
<1> QED BY <1>1, <1>2

\* The first frames of a file hold its first events.
LEMMA EventsOfPart ==
  ASSUME NEW q \in Seq(FrameT), NEW k \in 0..Len(q)
  PROVE  /\ SubSeq(q, 1, k) \in Seq(FrameT) /\ Len(SubSeq(q, 1, k)) = k
         /\ \A i \in 1..k : SubSeq(q, 1, k)[i] = q[i]
         /\ Begins(Events(SubSeq(q, 1, k)), Events(q))
<1> DEFINE a == SubSeq(q, 1, k)
<1> DEFINE b == SubSeq(q, k + 1, Len(q))
<1>1. a \in Seq(FrameT) /\ Len(a) = k /\ (\A i \in 1..k : a[i] = q[i]) /\ b \in Seq(FrameT)
  OBVIOUS
<1>2. a \o b = q
  <2>1. 1 \in 1..(Len(q) + 1) /\ k \in (1 - 1)..Len(q) /\ Len(q) \in k..Len(q)
    OBVIOUS
  <2>2. a \o b = SubSeq(q, 1, Len(q))
    BY <2>1, ConcatAdjacentSubSeq
  <2> QED BY <2>2, SubSeqFull
<1> HIDE DEF a, b
<1>3. Events(q) = Events(a) \o Events(b)
  BY <1>1, <1>2, EventsConcat
<1>4. Begins(Events(a), Events(q))
  BY <1>1, <1>3, EventsType, BeginsConcat
<1> QED BY <1>1, <1>4 DEF a

\* A cut file holds a part of what was there, and stays intact.
LEMMA PartialsBegin ==
  ASSUME NEW q \in Seq(FrameT), NEW p \in Partials(q)
  PROVE  p \in Seq(FrameT) /\ (Intact(q) => Intact(p)) /\ Begins(Events(p), Events(q))
<1>1. ASSUME NEW k \in 0..Len(q)
      PROVE  /\ SubSeq(q, 1, k) \in Seq(FrameT) /\ Len(SubSeq(q, 1, k)) = k
             /\ \A i \in 1..k : SubSeq(q, 1, k)[i] = q[i]
             /\ Begins(Events(SubSeq(q, 1, k)), Events(q))
  BY EventsOfPart
<1>2. CASE p \in {SubSeq(q, 1, k) : k \in 0..Len(q)}
  <2>1. PICK k \in 0..Len(q) : p = SubSeq(q, 1, k)
    BY <1>2
  <2>2. Intact(q) => Intact(p)
    BY <1>1, <2>1 DEF Intact
  <2> QED BY <1>1, <2>1, <2>2
<1>3. CASE p \in UNION {{Append(SubSeq(q, 1, k - 1), t) : t \in Torn(q[k])} : k \in DOMAIN q}
  <2>0. PICK k \in 1..Len(q) : \E t \in Torn(q[k]) : p = Append(SubSeq(q, 1, k - 1), t)
    <3>1. \E k \in DOMAIN q : p \in {Append(SubSeq(q, 1, k - 1), t) : t \in Torn(q[k])}
      BY <1>3, Zenon
    <3> QED BY <3>1
  <2>1. PICK t \in Torn(q[k]) : p = Append(SubSeq(q, 1, k - 1), t)
    BY <2>0
  <2> DEFINE a == SubSeq(q, 1, k - 1)
  <2>2. /\ k - 1 \in 0..Len(q) /\ q[k] \in FrameT /\ SubSeq(q, 1, k) = Append(a, q[k])
        /\ q[k].events \in Seq(Event)
    BY FrameFields
  <2>3. PICK j \in 0..Len(q[k].events) : t = [events |-> SubSeq(q[k].events, 1, j), whole |-> FALSE]
    <3>1. \E j \in (IF Framed THEN 0..Len(q[k].events) ELSE {0}) :
            t = [events |-> SubSeq(q[k].events, 1, j), whole |-> FALSE]
      BY <2>1, Zenon DEF Torn
    <3>2. (IF Framed THEN 0..Len(q[k].events) ELSE {0}) \subseteq 0..Len(q[k].events)
      BY <2>2
    <3> QED BY <3>1, <3>2, Zenon
  <2>4. t.events = SubSeq(q[k].events, 1, j) /\ t.events \in Seq(Event) /\ t \in FrameT
    BY <2>2, <2>3 DEF FrameT
  <2>5. a \in Seq(FrameT) /\ Len(a) = k - 1 /\ \A i \in 1..(k - 1) : a[i] = q[i]
    BY <1>1, <2>2
  <2> HIDE DEF a
  <2>6. Events(p) = Events(a) \o t.events /\ Events(SubSeq(q, 1, k)) = Events(a) \o q[k].events
    BY <2>1, <2>2, <2>4, <2>5, EventsAppend DEF a
  <2>7. Begins(Events(p), Events(SubSeq(q, 1, k)))
    <3>1. Begins(t.events, q[k].events)
      BY <2>2, <2>3, <2>4, BeginsSubSeq
    <3> QED BY <2>2, <2>4, <2>5, <2>6, <3>1, EventsType, BeginsUnder
  <2>8. p \in Seq(FrameT) /\ Len(p) = k /\ \A i \in 1..(k - 1) : p[i] = q[i]
    BY <2>1, <2>4, <2>5 DEF a
  <2>9. Intact(q) => Intact(p)
    BY <2>8 DEF Intact
  <2>10. Begins(Events(p), Events(q))
    <3>1. Begins(Events(SubSeq(q, 1, k)), Events(q)) /\ SubSeq(q, 1, k) \in Seq(FrameT)
      BY <1>1, <2>2
    <3> QED BY <2>7, <2>8, <3>1, EventsType, BeginsTransitive
  <2> QED BY <2>8, <2>9, <2>10
<1> QED BY <1>2, <1>3 DEF Partials

\* A file that is cut behind its safe frames stays intact and keeps their events.
LEMMA CutBehind ==
  ASSUME NEW d \in Seq(FrameT), NEW g \in Seq(FrameT), Begins(d, g), Intact(d), Intact(g),
         NEW q \in Seq(FrameT), Len(q) = Len(g) - Len(d), d \o q = g,
         \A i \in 1..Len(q) : q[i] = g[Len(d) + i], NEW p \in Partials(q)
  PROVE  /\ d \o p \in Seq(FrameT) /\ Intact(d \o p)
         /\ Begins(Events(d \o p), Events(g))
         /\ p # <<>> => Whole(d)
<1>2. Intact(q)
  <2>1. ASSUME NEW i \in 1..(Len(q) - 1) PROVE q[i].whole
    <3>1. Len(d) + i \in 1..(Len(g) - 1) /\ q[i] = g[Len(d) + i]
      OBVIOUS
    <3> QED BY <3>1 DEF Intact
  <2> QED BY <2>1 DEF Intact
<1>3. p \in Seq(FrameT) /\ Intact(p) /\ Begins(Events(p), Events(q))
  BY <1>2, PartialsBegin
<1>4. d \o p \in Seq(FrameT)
  BY <1>3
<1>5. Events(d \o p) = Events(d) \o Events(p) /\ Events(g) = Events(d) \o Events(q)
  BY <1>3, EventsConcat
<1>6. /\ Events(d) \in Seq(Event) /\ Events(p) \in Seq(Event)
      /\ Events(q) \in Seq(Event) /\ Events(g) \in Seq(Event)
  BY <1>3, EventsType
<1>7. Begins(Events(d \o p), Events(g))
  BY <1>3, <1>5, <1>6, BeginsUnder
<1>8. CASE p = <<>>
  <2>1. d \o p = d
    BY <1>8, ConcatEmptySeq
  <2> QED BY <1>4, <1>7, <1>8, <2>1
<1>9. CASE p # <<>>
  <2>1. q # <<>>
    <3>1. \A k \in 0..Len(<<>>) : SubSeq(<<>>, 1, k) = <<>>
      BY SubSeqEmpty
    <3>2. DOMAIN <<>> = {}
      OBVIOUS
    <3>3. \A x \in Partials(<<>>) : x = <<>>
      <4>1. ASSUME NEW x \in UNION {{Append(SubSeq(<<>>, 1, k - 1), t) : t \in Torn(<<>>[k])} : k \in {}}
            PROVE  FALSE
        BY <4>1, Zenon
      <4> QED BY <3>1, <3>2, <4>1, Zenon DEF Partials
    <3> QED BY <1>9, <3>3
  <2>2. Len(q) > 0
    BY <2>1
  <2>3. Whole(d)
    BY <2>2 DEF Begins, Intact, Whole
  <2>4. Intact(d \o p)
    BY <1>3, <2>3 DEF Intact, Whole
  <2> QED BY <1>4, <1>7, <2>3, <2>4
<1> QED BY <1>8, <1>9

\* The frames of a file without a torn last one.
Firm(fs) == IF Len(fs) > 0 /\ ~fs[Len(fs)].whole THEN SubSeq(fs, 1, Len(fs) - 1) ELSE fs

LEMMA FirmIs ==
  ASSUME NEW fs \in Seq(FrameT), Intact(fs)
  PROVE  /\ Firm(fs) \in Seq(FrameT) /\ Whole(Firm(fs)) /\ Begins(Events(Firm(fs)), Events(fs))
         /\ Whole(fs) => Firm(fs) = fs
         /\ ~Whole(fs) =>
              /\ Len(fs) > 0 /\ ~fs[Len(fs)].whole /\ Firm(fs) = SubSeq(fs, 1, Len(fs) - 1)
              /\ Len(Firm(fs)) = Len(fs) - 1 /\ \A i \in 1..(Len(fs) - 1) : Firm(fs)[i] = fs[i]
              /\ fs[Len(fs)].events \in Seq(Event)
              /\ Events(fs) = Events(Firm(fs)) \o fs[Len(fs)].events
<1>1. CASE Whole(fs)
  <2>1. Firm(fs) = fs
    BY <1>1 DEF Whole, Firm
  <2>2. Begins(Events(fs), Events(fs))
    BY EventsType DEF Begins
  <2> QED BY <1>1, <2>1, <2>2
<1>2. CASE ~Whole(fs)
  <2>1. Len(fs) > 0 /\ ~fs[Len(fs)].whole
    BY <1>2 DEF Whole, Intact
  <2>2. Firm(fs) = SubSeq(fs, 1, Len(fs) - 1)
    BY <2>1 DEF Firm
  <2>3. /\ SubSeq(fs, 1, Len(fs) - 1) \in Seq(FrameT) /\ fs[Len(fs)] \in FrameT
        /\ Len(SubSeq(fs, 1, Len(fs) - 1)) = Len(fs) - 1
        /\ \A i \in 1..(Len(fs) - 1) : SubSeq(fs, 1, Len(fs) - 1)[i] = fs[i]
        /\ fs = Append(SubSeq(fs, 1, Len(fs) - 1), fs[Len(fs)])
    BY <2>1, FrontAndLast
  <2>4. Whole(Firm(fs))
    BY <2>2, <2>3 DEF Whole, Intact
  <2>5. fs[Len(fs)].events \in Seq(Event)
    BY <2>3, FrameFields
  <2>6. Events(fs) = Events(Firm(fs)) \o fs[Len(fs)].events
    BY <2>2, <2>3, EventsAppend
  <2>7. Begins(Events(Firm(fs)), Events(fs))
    BY <2>2, <2>3, <2>5, <2>6, EventsType, BeginsConcat
  <2> QED BY <1>2, <2>1, <2>2, <2>3, <2>4, <2>5, <2>6, <2>7
<1> QED BY <1>1, <1>2

LEMMA EventsBegin ==
  ASSUME NEW d \in Seq(FrameT), NEW g \in Seq(FrameT), Begins(d, g)
  PROVE  Begins(Events(d), Events(g)) /\ Len(Events(d)) <= Len(Events(g))
<1>1. d = SubSeq(g, 1, Len(d)) /\ Len(d) \in 0..Len(g)
  BY BeginsIsSubSeq DEF Begins
<1>2. Begins(Events(SubSeq(g, 1, Len(d))), Events(g))
  BY <1>1, EventsOfPart
<1> QED BY <1>1, <1>2 DEF Begins

\* Whole frames stay when a torn tail goes.
LEMMA FirmKeeps ==
  ASSUME NEW d \in Seq(FrameT), NEW g \in Seq(FrameT), Begins(d, g), Whole(d), Intact(g)
  PROVE  Len(Events(d)) <= Len(Events(Firm(g)))
<1>1. Begins(d, Firm(g))
  <2>1. CASE Whole(g)
    BY <2>1, FirmIs
  <2>2. CASE ~Whole(g)
    <3>1. /\ Len(g) > 0 /\ ~g[Len(g)].whole /\ Len(Firm(g)) = Len(g) - 1
          /\ \A i \in 1..(Len(g) - 1) : Firm(g)[i] = g[i]
      BY <2>2, FirmIs
    <3>2. Len(d) < Len(g)
      BY <3>1 DEF Begins, Whole
    <3> QED BY <3>1, <3>2 DEF Begins
  <2> QED BY <2>1, <2>2
<1> QED BY <1>1, FirmIs, EventsBegin

LEMMA IntactBehind ==
  ASSUME NEW d \in Seq(FrameT), Whole(d), NEW p \in Seq(FrameT), Intact(p)
  PROVE  Intact(d \o p) /\ (Whole(p) => Whole(d \o p))
<1>1. /\ Len(d \o p) = Len(d) + Len(p)
      /\ \A i \in 1..Len(d) : (d \o p)[i] = d[i]
      /\ \A i \in 1..Len(p) : (d \o p)[Len(d) + i] = p[i]
  OBVIOUS
<1>2. ASSUME NEW i \in 1..(Len(d \o p) - 1) PROVE (d \o p)[i].whole
  <2>1. CASE i <= Len(d)
    BY <1>1, <2>1 DEF Whole
  <2>2. CASE ~(i <= Len(d))
    <3>1. i - Len(d) \in 1..(Len(p) - 1) /\ (d \o p)[Len(d) + (i - Len(d))] = p[i - Len(d)]
          /\ Len(d) + (i - Len(d)) = i
      BY <1>1, <2>2
    <3> QED BY <3>1 DEF Intact
  <2> QED BY <2>1, <2>2
<1>3. ASSUME Whole(p), NEW i \in 1..Len(d \o p) PROVE (d \o p)[i].whole
  <2>1. CASE i <= Len(d)
    BY <1>1, <2>1 DEF Whole
  <2>2. CASE ~(i <= Len(d))
    <3>1. i - Len(d) \in 1..Len(p) /\ (d \o p)[Len(d) + (i - Len(d))] = p[i - Len(d)]
          /\ Len(d) + (i - Len(d)) = i
      BY <1>1, <2>2
    <3> QED BY <1>3, <3>1 DEF Whole
  <2> QED BY <2>1, <2>2
<1> QED BY <1>2, <1>3 DEF Intact, Whole

LEMMA MaxIs ==
  ASSUME NEW S, S \subseteq Int, NEW m \in S, \A x \in S : x <= m
  PROVE  Max(S) = m
<1>1. \A y \in S : (\A x \in S : y >= x) <=> y = m
  OBVIOUS
<1> QED BY <1>1, Zenon DEF Max

LEMMA ContinuesBegins ==
  ASSUME NEW s, NEW t, NEW n, s \in Seq(Event), t \in Seq(Event), Begins(s, t), Continues(t, n)
  PROVE  Continues(s, n)
BY DEF Begins, Continues

LEMMA MaxExists ==
  ASSUME NEW n \in Nat, NEW S \in SUBSET (0..n), S # {}
  PROVE  Max(S) \in S /\ \A x \in S : x <= Max(S)
<1> DEFINE Tops == {k \in Nat : \A X \in SUBSET (0..k) : X # {} => \E m \in X : \A x \in X : x <= m}
<1>1. 0 \in Tops
  <2>1. ASSUME NEW X \in SUBSET (0..0), X # {} PROVE \E m \in X : \A x \in X : x <= m
    <3>1. PICK x \in X : TRUE
      BY <2>1
    <3>2. \A y \in X : y = 0
      BY <2>1
    <3> QED BY <3>1, <3>2
  <2> QED BY <2>1
<1>2. ASSUME NEW k \in Tops, k \in Nat PROVE k + 1 \in Tops
  <2> SUFFICES ASSUME NEW X \in SUBSET (0..(k + 1)), X # {}
               PROVE  \E m \in X : \A x \in X : x <= m
    BY <1>2
  <2>1. CASE k + 1 \in X
    <3>1. \A x \in X : x <= k + 1
      OBVIOUS
    <3> QED BY <2>1, <3>1
  <2>2. CASE k + 1 \notin X
    <3>1. X \in SUBSET (0..k)
      BY <1>2, <2>2
    <3> QED BY <3>1
  <2> QED BY <2>1, <2>2
<1>3. Nat \subseteq Tops
  <2> HIDE DEF Tops
  <2> QED BY <1>1, <1>2, NatSetInduction
<1>4. PICK m \in S : \A x \in S : x <= m
  <2>1. n \in Tops
    BY <1>3
  <2> QED BY <2>1
<1>5. S \subseteq Int
  OBVIOUS
<1> HIDE DEF Tops
<1> QED BY <1>4, <1>5, MaxIs

\* Any file: a reader accepts its leading frames up to the first that does not fit.
LEMMA SoundIs ==
  ASSUME NEW fs \in Seq(FrameT)
  PROVE  Sound(fs) \in 0..Len(fs) /\ Continues(Events(SubSeq(fs, 1, Sound(fs))), 0)
<1> DEFINE K == {k \in 0..Len(fs) : /\ \A i \in 1..k : fs[i].whole
                                    /\ Continues(Events(SubSeq(fs, 1, k)), 0)}
<1>1. Sound(fs) = Max(K)
  BY Zenon DEF Sound
<1>2. 0 \in K
  <2>1. SubSeq(fs, 1, 0) = <<>>
    BY SubSeqEmpty
  <2>2. Continues(<<>>, 0)
    BY DEF Continues
  <2>3. Continues(Events(SubSeq(fs, 1, 0)), 0)
    BY <2>1, <2>2, EventsEmpty, Zenon
  <2> QED BY <2>3
<1>3. Len(fs) \in Nat /\ K \in SUBSET (0..Len(fs))
  OBVIOUS
<1>4. \A k \in K : k \in 0..Len(fs) /\ Continues(Events(SubSeq(fs, 1, k)), 0)
  OBVIOUS
<1> HIDE DEF K
<1>5. Max(K) \in K
  BY <1>2, <1>3, MaxExists
<1> QED BY <1>1, <1>4, <1>5

LEMMA ContinuingIs ==
  ASSUME NEW es \in Seq(Event), NEW n \in Nat
  PROVE  /\ Continuing(es, n) \in Seq(Event) /\ Continues(Continuing(es, n), n)
         /\ Continues(es, n) => Continuing(es, n) = es
<1> DEFINE K == {k \in 0..Len(es) : Continues(SubSeq(es, 1, k), n)}
<1>1. Continuing(es, n) = SubSeq(es, 1, Max(K))
  BY Zenon DEF Continuing
<1>2. 0 \in K
  <2>1. SubSeq(es, 1, 0) = <<>>
    BY SubSeqEmpty
  <2>2. Continues(<<>>, n)
    BY DEF Continues
  <2>3. Continues(SubSeq(es, 1, 0), n)
    BY <2>1, <2>2, Zenon
  <2> QED BY <2>3
<1>3. Len(es) \in Nat /\ K \in SUBSET (0..Len(es)) /\ \A k \in K : Continues(SubSeq(es, 1, k), n)
  OBVIOUS
<1>4. Continues(es, n) => Len(es) \in K
  <2>1. SubSeq(es, 1, Len(es)) = es
    BY SubSeqFull
  <2>2. Continues(es, n) => Continues(SubSeq(es, 1, Len(es)), n)
    BY <2>1, Zenon
  <2> QED BY <1>3, <2>2
<1> HIDE DEF K
<1>5. Max(K) \in K /\ \A k \in K : k <= Max(K)
  BY <1>2, <1>3, MaxExists
<1>6. Continuing(es, n) \in Seq(Event) /\ Continues(Continuing(es, n), n)
  <2>1. Max(K) \in 0..Len(es) /\ Continues(SubSeq(es, 1, Max(K)), n)
    BY <1>3, <1>5
  <2>2. SubSeq(es, 1, Max(K)) \in Seq(Event)
    BY <2>1
  <2> QED BY <1>1, <2>1, <2>2, Zenon
<1>7. ASSUME Continues(es, n) PROVE Continuing(es, n) = es
  <2>1. Max(K) \in 0..Len(es) /\ Len(es) <= Max(K)
    BY <1>3, <1>4, <1>5, <1>7
  <2>2. Max(K) = Len(es)
    BY <1>3, <2>1
  <2> QED BY <1>1, <2>2, SubSeqFull
<1> QED BY <1>6, <1>7

LEMMA ContinuesConcat ==
  ASSUME NEW s \in Seq(Event), NEW t \in Seq(Event)
  PROVE  Continues(s \o t, 0) <=> Continues(s, 0) /\ Continues(t, Len(s))
<1>1. /\ s \o t \in Seq(Event) /\ Len(s \o t) = Len(s) + Len(t)
      /\ \A i \in 1..Len(s) : (s \o t)[i] = s[i]
      /\ \A i \in 1..Len(t) : (s \o t)[Len(s) + i] = t[i]
      /\ Len(s) \in Nat /\ Len(t) \in Nat
      /\ DOMAIN (s \o t) = 1..(Len(s) + Len(t)) /\ DOMAIN s = 1..Len(s) /\ DOMAIN t = 1..Len(t)
  OBVIOUS
<1> DEFINE u == s \o t
<1> HIDE DEF u
<1>2. \A i \in 1..Len(u) : i \in 1..Len(s) \/ (i - Len(s) \in 1..Len(t) /\ i = Len(s) + (i - Len(s)))
  BY <1>1 DEF u
<1>3. ASSUME Continues(u, 0) PROVE Continues(s, 0) /\ Continues(t, Len(s))
  <2>1. \A i \in 1..Len(t) : Len(s) + i \in 1..(Len(s) + Len(t))
    BY <1>1
  <2>2. \A i \in 1..Len(u) : u[i].seq = i
    BY <1>1, <1>3 DEF Continues, u
  <2>3. \A i \in 1..Len(s) : s[i].seq = i
    BY <1>1, <2>2 DEF u
  <2>4. \A i \in 1..Len(t) : t[i].seq = Len(s) + i
    BY <1>1, <2>1, <2>2 DEF u
  <2> QED BY <1>1, <2>3, <2>4 DEF Continues
<1>4. ASSUME Continues(s, 0), Continues(t, Len(s)) PROVE Continues(u, 0)
  BY <1>1, <1>2, <1>4 DEF Continues, u
<1> QED BY <1>3, <1>4 DEF u

LEMMA RecoverableIs ==
  ASSUME NEW fs \in Seq(FrameT)
  PROVE  /\ Recoverable(fs) \in Seq(Event)
         /\ Continues(Recoverable(fs), Len(Events(SubSeq(fs, 1, Sound(fs)))))
<1> DEFINE n == Len(Events(SubSeq(fs, 1, Sound(fs))))
<1>1. Sound(fs) \in 0..Len(fs)
  BY SoundIs
<1>2. n \in Nat
  BY <1>1, EventsOfPart, EventsType, LenProperties
<1> HIDE DEF n
<1>3. CASE Sound(fs) < Len(fs) /\ ~fs[Sound(fs) + 1].whole
  <2>1. fs[Sound(fs) + 1] \in FrameT
    BY <1>1, <1>3
  <2>2. fs[Sound(fs) + 1].events \in Seq(Event)
    BY <2>1, FrameFields
  <2>3. Recoverable(fs) = Continuing(fs[Sound(fs) + 1].events, n)
    BY <1>3 DEF Recoverable, n
  <2> QED BY <1>2, <2>2, <2>3, ContinuingIs DEF n
<1>4. CASE ~(Sound(fs) < Len(fs) /\ ~fs[Sound(fs) + 1].whole)
  <2>1. Recoverable(fs) = <<>>
    BY <1>4 DEF Recoverable
  <2> QED BY <2>1 DEF Continues
<1> QED BY <1>3, <1>4

\* An intact file of numbered events is read whole: what a torn last frame
\* holds is recovered.
LEMMA ScanIntact ==
  ASSUME NEW fs \in Seq(FrameT), Intact(fs), Continues(Events(fs), 0)
  PROVE  /\ Sound(fs) = IF Whole(fs) THEN Len(fs) ELSE Len(fs) - 1
         /\ Whole(fs) => Recoverable(fs) = <<>>
         /\ ~Whole(fs) => Len(fs) > 0 /\ ~fs[Len(fs)].whole /\ Recoverable(fs) = fs[Len(fs)].events
         /\ ~Damaged(fs)
         /\ Scan([there |-> TRUE, frames |-> fs]) = Events(fs)
<1> DEFINE K == {k \in 0..Len(fs) : /\ \A i \in 1..k : fs[i].whole
                                    /\ Continues(Events(SubSeq(fs, 1, k)), 0)}
<1>1. \A k \in 0..Len(fs) : k \in K <=> \A i \in 1..k : fs[i].whole
  <2> SUFFICES ASSUME NEW k \in 0..Len(fs) PROVE Continues(Events(SubSeq(fs, 1, k)), 0)
    OBVIOUS
  <2> QED BY EventsOfPart, EventsType, ContinuesBegins
<1>2. Sound(fs) = Max(K)
  BY Zenon DEF Sound
<1>3. K \subseteq Int /\ Len(fs) \in Nat
  OBVIOUS
<1> HIDE DEF K
<1>4. CASE Whole(fs)
  <2>1. Len(fs) \in K /\ \A k \in K : k <= Len(fs)
    BY <1>1, <1>3, <1>4 DEF Whole, K
  <2>2. Sound(fs) = Len(fs)
    BY <1>2, <1>3, <2>1, MaxIs
  <2>3. ~(Sound(fs) < Len(fs))
    BY <1>3, <2>2
  <2>4. Recoverable(fs) = <<>> /\ ~Damaged(fs)
    BY <2>3 DEF Recoverable, Damaged
  <2>5. SubSeq(fs, 1, Len(fs)) = fs /\ Events(fs) \o <<>> = Events(fs)
    BY SubSeqFull, EventsType, ConcatEmptySeq
  <2> QED BY <1>4, <2>2, <2>4, <2>5 DEF Scan
<1>5. CASE ~Whole(fs)
  <2>1. Len(fs) > 0 /\ ~fs[Len(fs)].whole
    BY <1>3, <1>5 DEF Whole, Intact
  <2> DEFINE n == Len(fs) - 1
  <2>2. n \in K /\ \A k \in K : k <= n
    <3>1. n \in K
      BY <1>1, <1>3, <2>1 DEF Intact
    <3>2. ASSUME NEW k \in K PROVE k <= n
      <4>1. k \in 0..Len(fs) /\ \A i \in 1..k : fs[i].whole
        BY <3>2 DEF K
      <4> QED BY <1>3, <2>1, <4>1
    <3> QED BY <3>1, <3>2
  <2>3. Sound(fs) = n
    BY <1>2, <1>3, <2>2, MaxIs
  <2>4. Sound(fs) < Len(fs) /\ Sound(fs) + 1 = Len(fs)
    BY <1>3, <2>3
  <2> DEFINE a == SubSeq(fs, 1, n)
  <2>5a. /\ a \in Seq(FrameT) /\ fs[Len(fs)] \in FrameT /\ fs = Append(a, fs[Len(fs)])
         /\ Events(a) \in Seq(Event) /\ fs[Len(fs)].events \in Seq(Event)
    <3>1. a \in Seq(FrameT) /\ fs[Len(fs)] \in FrameT /\ fs = Append(a, fs[Len(fs)])
      BY <2>1, FrontAndLast
    <3> QED BY <3>1, EventsType, FrameFields
  <2>5b. Continues(fs[Len(fs)].events, Len(Events(a)))
    <3>1. Events(fs) = Events(a) \o fs[Len(fs)].events
      BY <2>5a, EventsAppend
    <3> HIDE DEF a
    <3>2. Continues(Events(a) \o fs[Len(fs)].events, 0)
      BY <3>1, Zenon
    <3>3. \A u, v \in Seq(Event) : Continues(u \o v, 0) => Continues(v, Len(u))
      BY ContinuesConcat
    <3> QED BY <2>5a, <3>2, <3>3, Zenon
  <2>5c. Continuing(fs[Len(fs)].events, Len(Events(a))) = fs[Len(fs)].events
    <3> HIDE DEF a
    <3>1. Len(Events(a)) \in Nat
      BY <2>5a, LenProperties
    <3> QED BY <2>5a, <2>5b, <3>1, ContinuingIs
  <2>5. Recoverable(fs) = fs[Len(fs)].events /\ ~Damaged(fs)
    BY <2>1, <2>3, <2>4, <2>5c DEF Recoverable, Damaged
  <2>6. Events(SubSeq(fs, 1, n)) \o fs[Len(fs)].events = Events(fs)
    <3>1. SubSeq(fs, 1, n) \in Seq(FrameT) /\ fs[Len(fs)] \in FrameT
          /\ fs = Append(SubSeq(fs, 1, n), fs[Len(fs)])
      BY <1>3, <2>1
    <3> QED BY <3>1, EventsAppend
  <2> QED BY <1>5, <2>1, <2>3, <2>5, <2>6 DEF Scan
<1> QED BY <1>4, <1>5

(* ----------------------- The inductive invariant ----------------------- *)

HandleState ==
  [cursor : Nat, materialized : BOOLEAN, torn : {NoTear} \cup Nat, recovered : Seq(Event)]
Operation ==
  [kind : {"drain", "append", "header"}, upTo : 0..MaxEvents, who : Flushers \cup {"drain", "setup"}]
FlushState ==
  [at : {"idle", "drain", "drained", "barrier", "done"}, asked : 0..MaxEvents,
   excuse : {"none", "late", "tail"}]
FileState  == [there : BOOLEAN, frames : Seq(FrameT)]

Types ==
  /\ TypeOK
  /\ state \in HandleState /\ chain \in Seq(Operation) /\ flush \in [Flushers -> FlushState]

LogInv ==
  /\ \A i \in 1..Len(log) : log[i].seq = i
  /\ epoch = IF life = "down" THEN crashes ELSE crashes + 1

Running(kind) == at # "idle" /\ Head(chain).kind = kind

Owned(op) ==
  \/ op.kind = "drain" /\ op.who = "drain" /\ draining = "queued" /\ life = "live"
  \/ /\ op.kind = "append" /\ op.who = "setup" /\ life = "setup"
     /\ state.cursor <= op.upTo /\ op.upTo <= Len(log)
  \/ op.kind = "header" /\ op.who \in Flushers /\ flush[op.who].at = "barrier"

ChainInv ==
  /\ \A i \in 1..Len(chain) : Owned(chain[i])
  /\ \A i, j \in 1..Len(chain) :
       chain[i].kind = chain[j].kind /\ chain[i].who = chain[j].who => i = j
  /\ draining = "queued" => \E i \in 1..Len(chain) : chain[i].kind = "drain"
  /\ life = "down" => chain = <<>>

\* s is the part of the log behind its first n events.
Follows(s, n) == n + Len(s) <= Len(log) /\ \A i \in 1..Len(s) : s[i] = log[n + i]

\* What the events of a drain continue: events that were never routed are in none.
Given == state.cursor + unrouted

BatchInv ==
  /\ state.cursor <= Len(log)
  /\ at = "idle" => batch = <<>>
  /\ life # "live" => buffered = <<>> /\ unrouted = 0
  /\ at # "idle" => Follows(batch, Given)
  /\ at \notin {"idle", "lease"} => unrouted = 0 \/ batch = <<>>
  /\ Running("append") => state.cursor + Len(batch) = Head(chain).upTo
  /\ Running("header") => batch = <<>>
  /\ life = "live" => /\ Follows(buffered, Given + Len(batch))
                      /\ Given + Len(batch) + Len(buffered) = Len(log)

\* A drain is never for nothing.
DrainInv ==
  /\ Running("drain") => batch # <<>>
  /\ draining = "queued" /\ ~Running("drain") => buffered # <<>>

\* What holds of the file and the awaits whatever is in the file.
FileInv ==
  /\ \A f \in {file, durable} : f.there \/ f.frames = <<>>
  /\ durable.there \/ state.materialized \/ at = "dirsync" => file.there
  /\ at \in {"truncate", "write", "sync", "rollback"} => state.materialized
  /\ at \in {"link", "dirsync"} => ~state.materialized
  /\ at \in {"sync", "rollback"} => before.there
  /\ ~state.materialized => state.torn = NoTear /\ state.recovered = <<>>
  /\ state.torn # NoTear => at \in {"idle", "lease", "truncate"} /\ state.torn <= Len(file.frames)
  /\ Len(state.recovered) <= state.cursor
  /\ life = "down" => file = durable /\ at = "idle" /\ Scan(file) = log /\ state.cursor = 0

Readable(f) ==
  \/ f = Absent
  \/ f.there /\ Intact(f.frames) /\ Begins(Events(f.frames), log)

\* The whole frames of f hold the first n events.
Holds(f, n) == f.there /\ n <= Len(Events(Firm(f.frames)))

Covers(f) == promised >= 0 => Holds(f, promised)

Unborn ==
  /\ ~state.materialized
  /\ state.cursor = 0 /\ promised = -1
  /\ at \in {"idle", "lease", "link", "dirsync"}
  /\ file.there => Whole(file.frames)
  /\ at = "dirsync" => Events(file.frames) = batch

Stored ==
  /\ state.materialized /\ state.torn = NoTear
  /\ durable.there /\ Whole(durable.frames) /\ Len(Events(durable.frames)) = Base
  /\ Follows(state.recovered, Base)
  /\ \/ at \in {"idle", "lease", "write"} /\ file = durable
     \/ /\ at \in {"sync", "rollback"} /\ before = durable
        /\ \E p \in Partials(Encode(Payload)) : file.frames = durable.frames \o p
        /\ at = "sync" => file.frames = durable.frames \o Encode(Payload)

\* The frames of f that stay when the torn tail goes.
Kept(f) ==
  /\ f.there /\ state.torn <= Len(f.frames)
  /\ Whole(SubSeq(f.frames, 1, state.torn)) /\ Len(Events(SubSeq(f.frames, 1, state.torn))) = Base

TornTail ==
  /\ state.materialized /\ state.torn # NoTear
  /\ at \in {"idle", "lease", "truncate"}
  /\ Follows(state.recovered, Base)
  /\ Kept(file) /\ Kept(durable)

\* A failed append has left events at the end of the file.
LeftOver ==
  /\ state.materialized /\ state.torn = NoTear
  /\ at \in {"idle", "lease", "write"}
  /\ Holds(file, Base) /\ Holds(durable, Base)

Sane ==
  /\ Readable(file) /\ Readable(durable)
  /\ life = "down" => Covers(file) /\ residue = "none"
  /\ life # "down" =>
       /\ promised <= Base
       /\ IF residue = "left" THEN LeftOver ELSE Unborn \/ Stored \/ TornTail

DiskInv == FileInv /\ (residue # "buried" => Sane)

FlushInv ==
  \A f \in Flushers :
    /\ flush[f].asked <= Len(log)
    /\ flush[f].at = "drain" => draining # "none"
    /\ flush[f].excuse = "none" =>
         /\ flush[f].at = "drain" /\ draining = "spent" => flush[f].asked <= state.cursor
         /\ flush[f].at \in {"drained", "barrier"} => flush[f].asked <= state.cursor
         /\ flush[f].at = "done" => flush[f].asked <= promised
    /\ life = "down" => flush[f].at = "idle"

LeaseInv ==
  /\ closing \notin {"release", "closed"} => lease # "released"
  /\ Writing => lease # "none"

\* What close saw is stored, or the drain that stores it is among what close awaits.
SeenInv ==
  \/ seen <= Base
  \/ /\ Running("drain") /\ closing = "settle" /\ ahead > 0
     /\ seen <= Given + Len(batch)

IInv ==
  Types /\ LogInv /\ ChainInv /\ BatchInv /\ DrainInv /\ DiskInv /\ FlushInv /\ LeaseInv /\ SeenInv

(* ------------------------------- Files --------------------------------- *)

LEMMA MaxOfTwo ==
  ASSUME NEW a \in Int, NEW b \in Int
  PROVE  Max({a, b}) = IF a >= b THEN a ELSE b
<1>1. CASE a >= b
  <2>1. {a, b} \subseteq Int /\ a \in {a, b} /\ \A x \in {a, b} : x <= a
    BY <1>1
  <2> QED BY <1>1, <2>1, MaxIs
<1>2. CASE ~(a >= b)
  <2>1. {a, b} \subseteq Int /\ b \in {a, b} /\ \A x \in {a, b} : x <= b
    BY <1>2
  <2> QED BY <1>2, <2>1, MaxIs
<1> QED BY <1>1, <1>2

LEMMA LogContinues ==
  ASSUME log \in Seq(Event), LogInv, NEW es \in Seq(Event), Begins(es, log)
  PROVE  Continues(es, 0)
BY DEF LogInv, Begins, Continues

\* What a reader gets of any file is numbered without a gap.
LEMMA ScanIs ==
  ASSUME NEW f \in FileState
  PROVE  /\ Scan(f) \in Seq(Event) /\ Continues(Scan(f), 0) /\ Len(Scan(f)) <= MaxEvents
         /\ f.there /\ ~Damaged(f.frames) => Len(Recoverable(f.frames)) <= Len(Scan(f))
<1> DEFINE fs == f.frames
<1> DEFINE a == Events(SubSeq(fs, 1, Sound(fs)))
<1> DEFINE r == Recoverable(fs)
<1>1. fs \in Seq(FrameT)
  BY DEF FileState
<1>2. a \in Seq(Event) /\ Continues(a, 0)
  BY <1>1, SoundIs, EventsOfPart, EventsType
<1>3. r \in Seq(Event) /\ Continues(r, Len(a))
  BY <1>1, RecoverableIs
<1>4. Scan(f) = IF f.there /\ ~Damaged(fs) THEN a \o r ELSE <<>>
  BY DEF Scan
<1> HIDE DEF a, r, fs
<1>5. a \o r \in Seq(Event) /\ Continues(a \o r, 0) /\ Len(r) <= Len(a \o r)
  BY <1>2, <1>3, ContinuesConcat
<1>6. Scan(f) \in Seq(Event) /\ Continues(Scan(f), 0)
  BY <1>4, <1>5 DEF Continues
<1>7. Len(Scan(f)) <= MaxEvents
  <2> DEFINE s == Scan(f)
  <2>0. s \in Seq(Event) /\ Continues(s, 0)
    BY <1>6
  <2> HIDE DEF s
  <2>1. CASE Len(s) > 0
    <3>1. s[Len(s)].seq = Len(s) /\ s[Len(s)] \in Event
      BY <2>0, <2>1 DEF Continues
    <3> QED BY <3>1, BoundsAssumption DEF Event, s
  <2>2. CASE ~(Len(s) > 0)
    BY <2>0, <2>2, BoundsAssumption DEF s
  <2> QED BY <2>1, <2>2
<1>8. f.there /\ ~Damaged(f.frames) => Len(Recoverable(f.frames)) <= Len(Scan(f))
  BY <1>4, <1>5 DEF fs, r
<1> QED BY <1>6, <1>7, <1>8

\* What a reader makes of a readable file is a beginning of the log.
LEMMA ReadableScan ==
  ASSUME log \in Seq(Event), LogInv, NEW f \in FileState, Readable(f)
  PROVE  /\ Scan(f) \in Seq(Event) /\ Begins(Scan(f), log)
         /\ ~Damaged(f.frames)
         /\ f.there => Scan(f) = Events(f.frames)
         /\ ~f.there => Scan(f) = <<>>
<1>1. f.frames \in Seq(FrameT) /\ f.there \in BOOLEAN /\ f = [there |-> f.there, frames |-> f.frames]
  BY DEF FileState
<1>2. CASE f = Absent
  <2>1. f.frames = <<>> /\ ~f.there
    BY <1>2 DEF Absent
  <2>2. Begins(<<>>, log) /\ <<>> \in Seq(Event)
    BY DEF Begins
  <2>3. Events(<<>>) = <<>> /\ Continues(<<>>, 0) /\ <<>> \in Seq(FrameT) /\ Intact(<<>>)
    BY EventsEmpty DEF Continues, Intact
  <2>4. ~Damaged(<<>>)
    BY <2>3, ScanIntact
  <2> QED BY <2>1, <2>2, <2>4 DEF Scan
<1>3. CASE f.there /\ Intact(f.frames) /\ Begins(Events(f.frames), log)
  <2>1. Events(f.frames) \in Seq(Event) /\ Continues(Events(f.frames), 0)
    BY <1>1, <1>3, EventsType, LogContinues
  <2>2. ~Damaged(f.frames) /\ Scan([there |-> TRUE, frames |-> f.frames]) = Events(f.frames)
    BY <1>1, <1>3, <2>1, ScanIntact
  <2>3. f = [there |-> TRUE, frames |-> f.frames]
    BY <1>1, <1>3
  <2> QED BY <1>3, <2>1, <2>2, <2>3
<1> QED BY <1>2, <1>3 DEF Readable

\* Outside a crash, and when nothing is buried, the file and its durable part hold
\* every event that is not to be written again.
LEMMA BothHold ==
  ASSUME Types, FileInv, Readable(file), Readable(durable), Stored \/ TornTail \/ LeftOver
  PROVE  Holds(file, Base) /\ Holds(durable, Base)
<1>1. /\ file \in FileState /\ durable \in FileState
      /\ state.recovered \in Seq(Event) /\ state.cursor \in Nat /\ state.torn \in Int
  BY DEF Types, TypeOK, FileState, FrameT, HandleState, NoTear
<1> DEFINE d == durable.frames
<1> DEFINE g == file.frames
<1>2. d \in Seq(FrameT) /\ g \in Seq(FrameT)
  BY <1>1 DEF FileState
<1>3. Intact(d) /\ Intact(g)
  BY DEF Readable, Absent, Intact
<1>4. CASE Stored
  <2>1. durable.there /\ Whole(d) /\ Base = Len(Events(d)) /\ file.there
    BY <1>4 DEF Stored, FileInv
  <2>2. Begins(d, g)
    <3>1. CASE file = durable
      BY <1>2, <2>1, <3>1 DEF Begins
    <3>2. CASE file # durable
      <4>2. PICK q \in Partials(Encode(Payload)) : g = d \o q
        BY <1>4, <3>2 DEF Stored
      <4>3. Payload \in Seq(Event)
        BY <1>1 DEF Payload, Types, TypeOK
      <4>4. q \in Seq(FrameT)
        <5>1. Encode(Payload) \in Seq(FrameT)
          BY <4>3, EncodeIs
        <5> QED BY <4>2, <5>1, PartialsBegin
      <4> QED BY <1>2, <4>2, <4>4, BeginsConcat
    <3> QED BY <3>1, <3>2
  <2>3. Firm(d) = d
    BY <1>2, <1>3, <2>1, FirmIs
  <2>4. Len(Events(d)) <= Len(Events(Firm(g))) /\ Len(Events(d)) \in Nat
    BY <1>2, <1>3, <2>1, <2>2, FirmKeeps, EventsType, LenProperties
  <2> QED BY <2>1, <2>3, <2>4 DEF Holds
<1>5. CASE TornTail
  <2>1. ASSUME NEW f \in FileState, Kept(f), Intact(f.frames) PROVE Holds(f, Base)
    <3> DEFINE c == SubSeq(f.frames, 1, state.torn)
    <3>1. f.frames \in Seq(FrameT) /\ state.torn \in 0..Len(f.frames)
      BY <1>1, <1>5, <2>1 DEF FileState, Kept, TornTail, Types, HandleState
    <3>2. c \in Seq(FrameT) /\ Begins(c, f.frames)
      BY <3>1, BeginsSubSeq
    <3>3. Whole(c) /\ Len(Events(c)) = Base /\ f.there
      BY <2>1 DEF Kept
    <3> HIDE DEF c
    <3>4. Len(Events(c)) <= Len(Events(Firm(f.frames)))
      BY <2>1, <3>1, <3>2, <3>3, FirmKeeps
    <3> QED BY <3>3, <3>4 DEF Holds
  <2> QED BY <1>1, <1>3, <1>5, <2>1 DEF TornTail
<1>6. CASE LeftOver
  BY <1>6 DEF LeftOver
<1> QED BY <1>4, <1>5, <1>6

LEMMA HoldsLess ==
  ASSUME NEW f \in FileState, Intact(f.frames), NEW n \in Int, NEW m \in Int, Holds(f, n), m <= n
  PROVE  Holds(f, m)
<1>1. Len(Events(Firm(f.frames))) \in Nat
  BY FirmIs, EventsType, LenProperties DEF FileState
<1> QED BY <1>1 DEF Holds

\* The file and its durable part hold what was promised.
LEMMA BothCover ==
  ASSUME Types, DiskInv, residue # "buried"
  PROVE  Covers(file) /\ Covers(durable)
<1>1. FileInv /\ Sane
  BY DEF DiskInv
<1>2. CASE life = "down"
  BY <1>1, <1>2 DEF Sane, FileInv
<1>3. CASE life # "down" /\ Unborn
  BY <1>3 DEF Unborn, Covers
<1>4. CASE life # "down" /\ (Stored \/ TornTail \/ LeftOver)
  <2>1. Readable(file) /\ Readable(durable) /\ promised <= Base
    BY <1>1, <1>4 DEF Sane
  <2>2. Holds(file, Base) /\ Holds(durable, Base)
    BY <1>1, <1>4, <2>1, BothHold
  <2>3. Intact(file.frames) /\ Intact(durable.frames)
    BY <2>1 DEF Readable, Absent, Intact
  <2>4. file \in FileState /\ durable \in FileState /\ promised \in Int /\ Base \in Int
    <3>1. file \in FileState /\ durable \in FileState
      BY DEF Types, TypeOK, FileState, FrameT
    <3>2. promised \in Int /\ state.cursor \in Int /\ Len(state.recovered) \in Nat
      BY DEF Types, TypeOK, HandleState
    <3> QED BY <3>1, <3>2 DEF Base
  <2> QED BY <2>1, <2>2, <2>3, <2>4, HoldsLess DEF Covers
<1> QED BY <1>1, <1>2, <1>3, <1>4 DEF Sane

\* What a crash leaves is a file, whatever was in it.
LEMMA SurvivorsAre ==
  ASSUME Types, FileInv, NEW s \in Survivors
  PROVE  /\ s \in FileState /\ (s.there \/ s.frames = <<>>)
         /\ \/ s \in {durable, file}
            \/ /\ durable.there /\ file.there /\ s.there
               /\ Begins(durable.frames, file.frames)
               /\ \E p \in Partials(Rest(durable.frames, file.frames)) :
                    p \in Seq(FrameT) /\ s.frames = durable.frames \o p
<1>1. file \in FileState /\ durable \in FileState
  BY DEF Types, TypeOK, FileState, FrameT
<1>2. CASE s \in {durable, file}
  BY <1>1, <1>2 DEF FileInv
<1>3. CASE s \notin {durable, file}
  <2> DEFINE d == durable.frames
  <2> DEFINE g == file.frames
  <2>1. durable.there /\ IsPrefix(d, g)
        /\ \E p \in Partials(Rest(d, g)) : s = [file EXCEPT !.frames = d \o p]
    BY <1>3 DEF Survivors, Rest
  <2>2. PICK p \in Partials(Rest(d, g)) : s = [file EXCEPT !.frames = d \o p]
    BY <2>1
  <2>3. d \in Seq(FrameT) /\ g \in Seq(FrameT)
    BY <1>1 DEF FileState
  <2>4. file.there
    BY <2>1 DEF FileInv
  <2>5. Begins(d, g)
    BY <2>1, <2>3, IsPrefixBegins
  <2>6. Rest(d, g) \in Seq(FrameT)
    BY <2>3, <2>5, BeginsAndRest
  <2>7. p \in Seq(FrameT)
    BY <2>2, <2>6, PartialsBegin
  <2>8. s.frames = d \o p /\ s.there /\ s \in FileState
    <3>1. d \o p \in Seq(FrameT)
      BY <2>3, <2>7
    <3> HIDE DEF d
    <3> QED BY <1>1, <2>2, <2>4, <3>1 DEF FileState
  <2> QED BY <2>1, <2>2, <2>4, <2>5, <2>7, <2>8
<1> QED BY <1>2, <1>3

\* A crash leaves a readable file, with all that was promised.
LEMMA SurvivorsReadable ==
  ASSUME Types, DiskInv, residue # "buried", NEW s \in Survivors
  PROVE  s \in FileState /\ Readable(s) /\ Covers(s)
<1>1. file \in FileState /\ durable \in FileState /\ log \in Seq(Event) /\ promised \in Int
  BY DEF Types, TypeOK, FileState, FrameT
<1>2. CASE s \in {durable, file}
  BY <1>1, <1>2, BothCover DEF DiskInv, Sane
<1>3. CASE s \notin {durable, file}
  <2> DEFINE d == durable.frames
  <2> DEFINE g == file.frames
  <2> DEFINE q == Rest(d, g)
  <2>1. /\ durable.there /\ file.there /\ s.there /\ Begins(d, g) /\ s \in FileState
        /\ \E p \in Partials(q) : p \in Seq(FrameT) /\ s.frames = d \o p
    BY <1>3, SurvivorsAre DEF DiskInv
  <2>2. PICK p \in Partials(q) : p \in Seq(FrameT) /\ s.frames = d \o p
    BY <2>1
  <2>3. d \in Seq(FrameT) /\ g \in Seq(FrameT)
    BY <1>1 DEF FileState
  <2>5. Intact(g) /\ Begins(Events(g), log) /\ Intact(d)
    BY <2>1 DEF DiskInv, Sane, Readable, Absent
  <2>6. promised >= 0 => promised <= Len(Events(Firm(d)))
    BY BothCover DEF Covers, Holds
  <2> HIDE DEF d, g, q
  <2>8a. /\ q \in Seq(FrameT) /\ Len(q) = Len(g) - Len(d) /\ d \o q = g
         /\ \A i \in 1..Len(q) : q[i] = g[Len(d) + i]
    BY <2>1, <2>3, BeginsAndRest DEF q
  <2>8. /\ d \o p \in Seq(FrameT) /\ Intact(d \o p) /\ Begins(Events(d \o p), Events(g))
        /\ p # <<>> => Whole(d)
    BY <2>1, <2>3, <2>5, <2>8a, CutBehind
  <2>10. Begins(Events(d \o p), log)
    BY <1>1, <2>3, <2>5, <2>8, EventsType, BeginsTransitive
  <2>11. promised >= 0 => promised <= Len(Events(Firm(d \o p)))
    <3>1. CASE p = <<>>
      BY <2>3, <2>6, <3>1, ConcatEmptySeq
    <3>2. CASE p # <<>>
      <4>1. p \in Seq(FrameT) /\ Whole(d)
        BY <2>2, <2>8, <3>2
      <4>2. Begins(d, d \o p)
        BY <2>3, <4>1, BeginsConcat
      <4>3. Len(Events(d)) <= Len(Events(Firm(d \o p))) /\ Firm(d) = d
        BY <2>3, <2>5, <2>8, <4>1, <4>2, FirmKeeps, FirmIs
      <4>4. Len(Events(d)) \in Nat /\ Len(Events(Firm(d \o p))) \in Nat
        BY <2>3, <2>8, FirmIs, EventsType, LenProperties
      <4> QED BY <1>1, <2>6, <4>3, <4>4
    <3> QED BY <3>1, <3>2
  <2> QED BY <2>1, <2>2, <2>8, <2>10, <2>11 DEF Readable, Covers, Holds
<1> QED BY <1>2, <1>3

(* ------------------------------ The steps ------------------------------ *)

\* What the turns of the chain do to everything but the disk and the lock.
StartAppend ==
  /\ NextIs("append") /\ closing = "no"
  /\ Starts(SubSeq(log, state.cursor + 1, Head(chain).upTo)) /\ UNCHANGED buffered

StartHeader == NextIs("header") /\ closing = "no" /\ Starts(<<>>) /\ UNCHANGED buffered

HeaderHeld ==
  /\ NextIs("header") /\ closing = "no" /\ state.materialized
  /\ Flushed(Head(chain).who) /\ UNCHANGED <<log, epoch, state, crashes>>

Failing == chain # <<>> /\ OpFails /\ UNCHANGED <<log, epoch, state, crashes>>

Going ==
  /\ at # "idle" /\ at' \in Awaits \ {"lease"}
  /\ at = "lease" => Continues(batch, state.cursor)
  /\ state' \in {state, [state EXCEPT !.torn = NoTear], [state EXCEPT !.recovered = <<>>]}
  /\ UNCHANGED <<log, epoch, crashes, life, unrouted, bufferVars, chain, batch, closeVars, flush,
                 promised>>

Succeeding ==
  /\ at \notin {"idle", "lease"} /\ state.recovered = <<>>
  /\ OpSucceeds /\ UNCHANGED <<log, epoch, crashes>>

LEMMA TurnIs ==
  ASSUME Types, FileInv, Turn
  PROVE  \/ TakeDrain \/ StartAppend \/ StartHeader \/ HeaderHeld
         \/ Failing \/ Going \/ Succeeding
<1>0. (at # "idle" => chain # <<>>) /\ at \in {"idle"} \cup Awaits
  BY DEF Types, TypeOK
<1>1. CASE TakeDrain
  BY <1>1
<1>2. CASE TakeAppend
  <2>1. CASE closing = "no"
    BY <1>2, <2>1 DEF TakeAppend, StartAppend
  <2>2. CASE closing # "no"
    BY <1>2, <2>2 DEF TakeAppend, Failing, NextIs, limitVars
  <2> QED BY <2>1, <2>2
<1>3. CASE TakeHeader
  <2>1. CASE closing # "no"
    BY <1>3, <2>1 DEF TakeHeader, Failing, NextIs, limitVars
  <2>2. CASE closing = "no" /\ state.materialized
    BY <1>3, <2>2 DEF TakeHeader, HeaderHeld, limitVars
  <2>3. CASE closing = "no" /\ ~state.materialized
    BY <1>3, <2>3 DEF TakeHeader, StartHeader
  <2> QED BY <2>1, <2>2, <2>3
<1>4. CASE AcquireLease
  <2>1. CASE OpFails
    BY <1>0, <1>4, <2>1 DEF AcquireLease, Failing
  <2>2. CASE ~OpFails
    BY <1>0, <1>4, <2>2 DEF AcquireLease, Going, Goes, Awaits
  <2> QED BY <2>1, <2>2
<1>5. CASE TruncateTail
  <2>1. CASE OpFails
    BY <1>0, <1>5, <2>1 DEF TruncateTail, Failing, Going, Goes, Awaits
  <2>2. CASE ~OpFails
    BY <1>0, <1>5, <2>2 DEF TruncateTail, Going, Goes, Awaits
  <2> QED BY <2>1, <2>2
<1>6. CASE WriteBatch
  BY <1>0, <1>6 DEF WriteBatch, Going, Goes, Awaits
<1>7. CASE SyncBatch
  BY <1>0, <1>7 DEF SyncBatch, Going, Goes, Awaits, Succeeding, Failing
<1>8. CASE Rollback
  BY <1>0, <1>8 DEF Rollback, Failing
<1>9. CASE LinkLog
  <2>1. CASE OpFails
    BY <1>0, <1>9, <2>1 DEF LinkLog, Failing
  <2>2. CASE ~OpFails
    BY <1>0, <1>9, <2>2 DEF LinkLog, Going, Goes, Awaits
  <2> QED BY <2>1, <2>2
<1>10. CASE SyncDirectory
  <2>1. state.recovered = <<>>
    BY <1>10 DEF SyncDirectory, FileInv
  <2> QED BY <1>0, <1>10, <2>1 DEF SyncDirectory, Failing, Succeeding
<1> QED BY <1>1, <1>2, <1>3, <1>4, <1>5, <1>6, <1>7, <1>8, <1>9, <1>10 DEF Turn


(* ------------------------------- Types --------------------------------- *)

SessionTypes ==
  /\ log \in Seq(Event) /\ Len(log) <= MaxEvents
  /\ epoch \in 1..(MaxCrashes + 1) /\ crashes \in 0..MaxCrashes
  /\ life \in {"setup", "live", "failed", "down"} /\ unrouted \in 0..MaxEvents
  /\ promised \in -1..MaxEvents

StateTypes == state \in HandleState /\ state.cursor <= MaxEvents

BufferTypes ==
  /\ buffered \in Seq(Event) /\ timer \in BOOLEAN /\ paused \in BOOLEAN
  /\ draining \in {"none", "queued", "spent", "failed"}

ChainTypes ==
  /\ chain \in Seq(Operation)
  /\ at \in {"idle"} \cup Awaits /\ (at # "idle" => chain # <<>>)
  /\ batch \in Seq(Event)

CloseTypes ==
  closing \in Phases /\ ahead \in Nat /\ closeFailed \in BOOLEAN /\ seen \in 0..MaxEvents

FlushTypes == flush \in [Flushers -> FlushState]

HandleTypes ==
  SessionTypes /\ StateTypes /\ BufferTypes /\ ChainTypes /\ CloseTypes /\ FlushTypes

DiskTypes ==
  /\ lease \in {"none", "held", "released"}
  /\ file \in FileState /\ durable \in FileState /\ before \in FileState
  /\ residue \in {"none", "left", "buried"}
  /\ faults \in 0..MaxFaults

LEMMA TypesAre == Types <=> HandleTypes /\ DiskTypes
<1> USE DEF HandleTypes, SessionTypes, StateTypes, BufferTypes, ChainTypes, CloseTypes, FlushTypes
<1>1. ASSUME Types PROVE HandleTypes /\ DiskTypes
  <2>1. SessionTypes /\ StateTypes /\ BufferTypes
    BY <1>1 DEF Types, TypeOK
  <2>2. ChainTypes /\ CloseTypes /\ FlushTypes
    BY <1>1 DEF Types, TypeOK
  <2>3. DiskTypes
    BY <1>1 DEF Types, TypeOK, DiskTypes, FileState, FrameT
  <2> QED BY <2>1, <2>2, <2>3
<1>2. ASSUME HandleTypes, DiskTypes PROVE Types
  <2>1. \A i \in DOMAIN chain : chain[i].kind \in {"drain", "append", "header"}
    <3>1. \A op \in Operation : op.kind \in {"drain", "append", "header"}
      BY DEF Operation
    <3>2. \A i \in DOMAIN chain : chain[i] \in Operation
      BY <1>2, ElementOfSeq
    <3> QED BY <3>1, <3>2
  <2>2. \A f \in Flushers : /\ flush[f].at \in {"idle", "drain", "drained", "barrier", "done"}
                            /\ flush[f].asked \in 0..MaxEvents
                            /\ flush[f].excuse \in {"none", "late", "tail"}
    BY <1>2 DEF FlushState
  <2>3. /\ state.cursor \in 0..MaxEvents /\ state.materialized \in BOOLEAN
        /\ state.torn \in {NoTear} \cup Nat /\ state.recovered \in Seq(Event)
    BY <1>2, BoundsAssumption DEF HandleState
  <2>4. {file, durable, before} \subseteq [there : BOOLEAN, frames : Seq([events : Seq(Event), whole : BOOLEAN])]
    BY <1>2 DEF DiskTypes, FileState, FrameT
  <2>5. /\ SessionTypes /\ BufferTypes /\ CloseTypes /\ lease \in {"none", "held", "released"}
        /\ faults \in 0..MaxFaults /\ residue \in {"none", "left", "buried"}
    BY <1>2 DEF DiskTypes
  <2>6. at \in {"idle"} \cup Awaits /\ (at # "idle" => chain # <<>>) /\ batch \in Seq(Event)
    BY <1>2
  <2>7. TypeOK
    BY <2>1, <2>2, <2>3, <2>4, <2>5, <2>6 DEF TypeOK
  <2> QED BY <1>2, <2>7 DEF Types
<1> QED BY <1>1, <1>2

LEMMA HeadOfChain ==
  ASSUME HandleTypes, chain # <<>>
  PROVE  /\ Head(chain) \in Operation /\ Head(chain) = chain[1] /\ Len(chain) > 0
         /\ Tail(chain) \in Seq(Operation) /\ Len(Tail(chain)) = Len(chain) - 1
         /\ \A i \in 1..(Len(chain) - 1) : Tail(chain)[i] = chain[i + 1]
BY DEF HandleTypes, ChainTypes

\* What an operation that ends leaves of the chain.
LEMMA LeavesTypes ==
  ASSUME HandleTypes, NEW rest \in Seq(Operation), Leaves(rest), seen' \in {seen, 0}
  PROVE  ChainTypes' /\ CloseTypes' /\ timer' \in BOOLEAN
<1>1. Max({0, ahead - 1}) \in Nat
  BY MaxOfTwo DEF HandleTypes, CloseTypes
<1>2. CloseTypes'
  BY <1>1, BoundsAssumption DEF HandleTypes, CloseTypes, Leaves
<1>3. ChainTypes'
  BY DEF ChainTypes, Leaves
<1> QED BY <1>2, <1>3 DEF HandleTypes, BufferTypes, Leaves

LEMMA BaseType ==
  ASSUME HandleTypes, FileInv
  PROVE  Base \in 0..MaxEvents /\ Base <= state.cursor /\ state.cursor \in Nat
<1>1. state.cursor \in Nat /\ state.cursor <= MaxEvents /\ Len(state.recovered) \in Nat
  BY DEF HandleTypes, StateTypes, HandleState
<1> QED BY <1>1, BoundsAssumption DEF Base, FileInv

LEMMA PromiseTypes ==
  ASSUME HandleTypes, FileInv
  PROVE  Max({promised, Base}) \in -1..MaxEvents
<1>1. Base \in 0..MaxEvents
  BY BaseType
<1>2. promised \in -1..MaxEvents
  BY DEF HandleTypes, SessionTypes
<1> QED BY <1>1, <1>2, MaxOfTwo, BoundsAssumption

\* The operations of the chain are the handle's own; nothing is queued when the
\* process is down.
LEMMA RunningLives ==
  ASSUME HandleTypes, ChainInv, chain # <<>>
  PROVE  life # "down" /\ Owned(Head(chain))
BY HeadOfChain DEF ChainInv


(* ----------------- The steps that only ask for a drain ------------------ *)

\* Timers, flushes and closes that begin or go on ask for a drain or a barrier:
\* they may queue an operation, and leave what is stored and buffered alone.
Quiet ==
  /\ UNCHANGED <<sessionVars, state, buffered, opVars, diskVars, promised, crashes>>
  /\ chain' = chain \/ \E op : chain' = Append(chain, op)

Unhurried ==
  \/ TimerFires \/ DrainSettles \/ CloseLoop \/ ReleaseLease \/ ReleaseHandle
  \/ (\E f \in Flushers : FlushCall(f)) \/ (\E f \in Flushers : FlushBarrier(f))
  \/ BeginClose \/ UNCHANGED vars

LEMMA DrainLiveIs ==
  ASSUME DrainLive
  PROVE  chain' = chain \/ chain' = Append(chain, Op("drain", 0, "drain"))
BY DEF DrainLive

LEMMA UnhurriedIsQuiet ==
  ASSUME Unhurried
  PROVE  Quiet
<1> USE DEF Quiet, limitVars
<1>1. CASE TimerFires
  BY <1>1, DrainLiveIs DEF TimerFires
<1>2. CASE DrainSettles
  BY <1>2 DEF DrainSettles
<1>3. CASE CloseLoop
  BY <1>3, DrainLiveIs DEF CloseLoop
<1>4. CASE ReleaseLease
  BY <1>4 DEF ReleaseLease, bufferVars
<1>5. CASE ReleaseHandle
  BY <1>5 DEF ReleaseHandle, bufferVars
<1>6. ASSUME NEW f \in Flushers, FlushCall(f) PROVE Quiet
  BY <1>6, DrainLiveIs DEF FlushCall
<1>7. ASSUME NEW f \in Flushers, FlushBarrier(f) PROVE Quiet
  BY <1>7 DEF FlushBarrier, bufferVars
<1>8. CASE BeginClose
  BY <1>8, DrainLiveIs DEF BeginClose
<1>9. CASE UNCHANGED vars
  BY <1>9 DEF vars, bufferVars
<1> QED BY <1>1, <1>2, <1>3, <1>4, <1>5, <1>6, <1>7, <1>8, <1>9 DEF Unhurried

LEMMA QuietKeeps ==
  ASSUME HandleTypes, LogInv, BatchInv, DiskInv, Quiet
  PROVE  SessionTypes' /\ StateTypes' /\ LogInv' /\ BatchInv' /\ DiskInv'
<1>0. UNCHANGED <<log, epoch, life, unrouted, state, buffered, at, batch, before, file, durable,
                 residue, promised, crashes>>
  BY DEF Quiet, sessionVars, opVars, diskVars
<1>1. SessionTypes' /\ StateTypes'
  BY <1>0 DEF HandleTypes, SessionTypes, StateTypes
<1>2. LogInv'
  BY <1>0 DEF LogInv
<1>3. BatchInv'
  <2>1. at # "idle" => Head(chain') = Head(chain)
    BY DEF HandleTypes, ChainTypes, Quiet
  <2>3. /\ Follows(batch, Given)' = Follows(batch, Given) /\ Given' = Given
        /\ Follows(buffered, Given + Len(batch))' = Follows(buffered, Given + Len(batch))
    BY <1>0 DEF Follows, Given
  <2>4. \A k : Running(k)' = Running(k)
    BY <1>0, <2>1 DEF Running
  <2> QED BY <1>0, <2>1, <2>3, <2>4 DEF BatchInv, Running
<1>4. DiskInv'
  <2>1. FileInv' = FileInv
    BY <1>0 DEF FileInv
  <2>2. /\ Readable(file)' = Readable(file) /\ Readable(durable)' = Readable(durable)
        /\ Covers(file)' = Covers(file) /\ Base' = Base
    BY <1>0 DEF Readable, Covers, Base
  <2>3. /\ Follows(state.recovered, Base)' = Follows(state.recovered, Base)
        /\ Kept(file)' = Kept(file) /\ Kept(durable)' = Kept(durable) /\ Payload' = Payload
    BY <1>0, <2>2 DEF Follows, Kept, Payload
  <2>4. Unborn' = Unborn /\ Stored' = Stored
    BY <1>0, <2>2, <2>3 DEF Unborn, Stored
  <2>5. TornTail' = TornTail /\ LeftOver' = LeftOver
    BY <1>0, <2>2, <2>3 DEF TornTail, LeftOver
  <2>6. Sane' = Sane
    BY <1>0, <2>2, <2>4, <2>5 DEF Sane
  <2> QED BY <1>0, <2>1, <2>6 DEF DiskInv
<1> QED BY <1>1, <1>2, <1>3, <1>4


LEMMA AppendToChain ==
  ASSUME HandleTypes, NEW op \in Operation
  PROVE  /\ Append(chain, op) \in Seq(Operation) /\ Append(chain, op) # <<>>
         /\ Len(Append(chain, op)) = Len(chain) + 1
         /\ Append(chain, op)[Len(chain) + 1] = op
         /\ \A i \in 1..Len(chain) : Append(chain, op)[i] = chain[i]
BY DEF HandleTypes, ChainTypes

\* An operation that the chain does not hold yet may be queued.
LEMMA ChainGrows ==
  ASSUME HandleTypes, ChainInv, NEW op \in Operation, chain' = Append(chain, op), Owned(op)',
         \A o \in Operation : Owned(o) => Owned(o)',
         \A i \in 1..Len(chain) : ~(chain[i].kind = op.kind /\ chain[i].who = op.who),
         life' # "down", draining' = "queued" => draining = "queued" \/ op.kind = "drain"
  PROVE  ChainInv'
<1> DEFINE c == Append(chain, op)
<1>1. /\ c \in Seq(Operation) /\ Len(c) = Len(chain) + 1 /\ Len(chain) \in Nat
      /\ c[Len(chain) + 1] = op /\ \A i \in 1..Len(chain) : c[i] = chain[i]
  BY AppendToChain DEF HandleTypes, ChainTypes
<1> HIDE DEF c
<1>2. \A i \in 1..Len(c) : i = Len(chain) + 1 \/ i \in 1..Len(chain)
  BY <1>1
<1>3. ASSUME NEW i \in 1..Len(c) PROVE Owned(chain[i])'
  <2>1. CASE i \in 1..Len(chain)
    <3>1. c[i] = chain[i] /\ Owned(chain[i]) /\ chain[i] \in Operation
      BY <1>1, <2>1, ElementOfSeq DEF ChainInv, HandleTypes, ChainTypes
    <3>2. chain'[i] = chain[i]
      BY <3>1 DEF c
    <3> QED BY <3>1, <3>2
  <2>2. CASE i = Len(chain) + 1
    <3>1. chain'[i] = op
      BY <1>1, <2>2 DEF c
    <3> QED BY <3>1
  <2> QED BY <1>2, <2>1, <2>2
<1>4. \A i, j \in 1..Len(c) : c[i].kind = c[j].kind /\ c[i].who = c[j].who => i = j
  BY <1>1, <1>2 DEF ChainInv
<1>5. draining' = "queued" => \E i \in 1..Len(c) : c[i].kind = "drain"
  BY <1>1 DEF ChainInv
<1>6. chain' = c
  BY DEF c
<1> QED BY <1>3, <1>4, <1>5, <1>6, Zenon DEF ChainInv

LEMMA ChainStays ==
  ASSUME HandleTypes, ChainInv, UNCHANGED chain, \A o \in Operation : Owned(o) => Owned(o)',
         draining' = "queued" => draining = "queued", life' = life \/ life' # "down"
  PROVE  ChainInv'
<1>1. ASSUME NEW i \in 1..Len(chain) PROVE Owned(chain[i])'
  <2>1. chain[i] \in Operation
    BY DEF HandleTypes, ChainTypes
  <2>2. Owned(chain[i]) /\ chain'[i] = chain[i]
    BY DEF ChainInv
  <2> QED BY <2>1, <2>2
<1> QED BY <1>1 DEF ChainInv

\* A drain that is asked for is queued once, behind what is there.
LEMMA DrainLiveKeeps ==
  ASSUME HandleTypes, ChainInv, BatchInv, DrainLive, UNCHANGED <<life, log, state, buffered>>,
         \A f \in Flushers : flush[f].at = "barrier" => flush'[f].at = "barrier"
  PROVE  /\ timer' \in BOOLEAN /\ paused' \in BOOLEAN
         /\ draining' \in {"none", "queued", "spent", "failed"} /\ BufferTypes'
         /\ chain' \in Seq(Operation) /\ (chain # <<>> => chain' # <<>>)
         /\ draining' # "none" /\ ChainInv'
         /\ \/ draining' = draining
            \/ draining = "none" /\ IF buffered = <<>> THEN draining' = "spent" ELSE draining' = "queued"
<1> USE DEF HandleTypes, BufferTypes
<1>1. Op("drain", 0, "drain") \in Operation
  BY BoundsAssumption DEF Op, Operation
<1>2. CASE draining = "none"
  <2>1. \A o \in Operation : Owned(o) => Owned(o)'
    BY <1>2 DEF Owned
  <2>2. CASE buffered = <<>>
    <3>1. UNCHANGED chain /\ draining' = "spent" /\ timer' = FALSE /\ paused' = FALSE
      BY <1>2, <2>2 DEF DrainLive
    <3>2. ChainInv'
      BY <2>1, <3>1, ChainStays
    <3> QED BY <1>2, <2>2, <3>1, <3>2 DEF ChainTypes
  <2>3. CASE buffered # <<>>
    <3>1. /\ chain' = Append(chain, Op("drain", 0, "drain")) /\ draining' = "queued"
          /\ timer' = FALSE /\ paused' = FALSE
      BY <1>2, <2>3 DEF DrainLive
    <3>2. life = "live"
      BY <2>3 DEF BatchInv
    <3>3. Owned(Op("drain", 0, "drain"))' /\ Op("drain", 0, "drain").kind = "drain"
      BY <3>1, <3>2 DEF Owned, Op
    <3>4. \A i \in 1..Len(chain) : chain[i].kind # "drain"
      BY <1>2 DEF ChainInv, Owned
    <3>5. ChainInv'
      BY <1>1, <2>1, <3>1, <3>2, <3>3, <3>4, ChainGrows
    <3>6. chain' \in Seq(Operation) /\ chain' # <<>>
      BY <1>1, <3>1, AppendToChain
    <3> QED BY <1>2, <2>3, <3>1, <3>5, <3>6
  <2> QED BY <2>2, <2>3
<1>3. CASE draining # "none"
  <2>1. UNCHANGED <<timer, paused, draining, chain>>
    BY <1>3 DEF DrainLive
  <2>2. \A o \in Operation : Owned(o) => Owned(o)'
    BY <2>1 DEF Owned
  <2>3. ChainInv'
    BY <2>1, <2>2, ChainStays
  <2> QED BY <1>3, <2>1, <2>3 DEF ChainTypes
<1> QED BY <1>2, <1>3


LEMMA QuietDrains ==
  ASSUME HandleTypes, DrainInv, Quiet,
         draining' = "queued" => draining = "queued" \/ buffered # <<>>
  PROVE  DrainInv'
<1>0. UNCHANGED <<at, batch, buffered>>
  BY DEF Quiet, opVars
<1>1. at # "idle" => Head(chain') = Head(chain)
  BY DEF HandleTypes, ChainTypes, Quiet
<1>2. Running("drain")' = Running("drain")
  BY <1>0, <1>1 DEF Running
<1> QED BY <1>0, <1>2 DEF DrainInv

LEMMA QuietSees ==
  ASSUME HandleTypes, SeenInv, Quiet, UNCHANGED seen,
         closing = "settle" /\ ahead > 0 => UNCHANGED <<closing, ahead>>
  PROVE  SeenInv'
<1>0. UNCHANGED <<state, unrouted, at, batch>>
  BY DEF Quiet, opVars, sessionVars
<1>1. at # "idle" => Head(chain') = Head(chain)
  BY DEF HandleTypes, ChainTypes, Quiet
<1>2. Running("drain")' = Running("drain")
  BY <1>0, <1>1 DEF Running
<1>3. Base' = Base /\ Given' = Given
  BY <1>0 DEF Base, Given
<1> QED BY <1>0, <1>2, <1>3 DEF SeenInv

\* Nothing of the disk but the lock, and the lock only to be given up.
LEMMA QuietDisk ==
  ASSUME DiskTypes, LeaseInv, Quiet, UNCHANGED <<lease, faults>>,
         closing' \in {"release", "closed"} \/ closing \notin {"release", "closed"}
  PROVE  DiskTypes' /\ LeaseInv'
BY DEF DiskTypes, LeaseInv, Quiet, diskVars, opVars, Writing

LEMMA TimerFiresKeeps ==
  ASSUME IInv, TimerFires
  PROVE  IInv'
<1>0. HandleTypes /\ DiskTypes /\ Quiet
  BY TypesAre, UnhurriedIsQuiet DEF IInv, Unhurried
<1>1. SessionTypes' /\ StateTypes' /\ LogInv' /\ BatchInv' /\ DiskInv'
  BY <1>0, QuietKeeps DEF IInv
<1>2. DiskTypes' /\ LeaseInv'
  BY <1>0, QuietDisk DEF IInv, TimerFires, closeVars, limitVars
<1>3. UNCHANGED <<log, epoch, life, state, lease, buffered, at, batch, closing, ahead, closeFailed,
                 seen, flush, promised>>
  BY DEF TimerFires, sessionVars, opVars, closeVars
<1>4. CloseTypes' /\ FlushTypes'
  BY <1>0, <1>3 DEF HandleTypes, CloseTypes, FlushTypes
<1>5. BufferTypes' /\ ChainTypes' /\ ChainInv'
      /\ \/ draining' = draining
         \/ draining = "none" /\ IF buffered = <<>> THEN draining' = "spent" ELSE draining' = "queued"
  <2>1. CASE draining = "none"
    <3>1. DrainLive
      BY <2>1 DEF TimerFires
    <3> QED BY <1>0, <1>3, <2>1, <3>1, DrainLiveKeeps DEF IInv, HandleTypes, ChainTypes
  <2>2. CASE draining # "none"
    <3>1. timer' = FALSE /\ UNCHANGED <<paused, draining, chain>>
      BY <2>2 DEF TimerFires
    <3>2. \A o \in Operation : Owned(o) => Owned(o)'
      BY <1>3, <3>1 DEF Owned
    <3>3. ChainInv'
      BY <1>0, <1>3, <3>1, <3>2, ChainStays DEF IInv
    <3> QED BY <1>0, <1>3, <3>1, <3>3 DEF HandleTypes, BufferTypes, ChainTypes
  <2> QED BY <2>1, <2>2
<1>6. FlushInv'
  BY <1>3, <1>5 DEF IInv, FlushInv
<1>7. DrainInv' /\ SeenInv'
  BY <1>0, <1>3, <1>5, QuietDrains, QuietSees DEF IInv
<1> QED BY <1>1, <1>2, <1>4, <1>5, <1>6, <1>7, TypesAre, PTL DEF IInv, HandleTypes


LEMMA DrainSettlesKeeps ==
  ASSUME IInv, DrainSettles
  PROVE  IInv'
<1>0. HandleTypes /\ DiskTypes /\ Quiet
  BY TypesAre, UnhurriedIsQuiet DEF IInv, Unhurried
<1>1. SessionTypes' /\ StateTypes' /\ LogInv' /\ BatchInv' /\ DiskInv'
  BY <1>0, QuietKeeps DEF IInv
<1>2. DiskTypes' /\ LeaseInv'
  BY <1>0, QuietDisk DEF IInv, DrainSettles, closeVars, limitVars
<1>3. /\ UNCHANGED <<log, life, state, buffered, timer, paused, chain, at, batch>>
      /\ draining \in {"spent", "failed"} /\ draining' = "none"
  BY DEF DrainSettles, sessionVars, opVars
<1>4. BufferTypes' /\ ChainTypes'
  BY <1>0, <1>3 DEF HandleTypes, BufferTypes, ChainTypes
<1>5. CloseTypes'
  <2>1. CASE closing = "drain"
    <3>0. UNCHANGED seen
      BY <2>1 DEF DrainSettles
    <3>1. closing' \in {"chain", "settle"} /\ closeFailed' \in BOOLEAN /\ ahead' = Len(chain)
      BY <2>1 DEF DrainSettles
    <3> QED BY <1>0, <3>0, <3>1 DEF HandleTypes, ChainTypes, CloseTypes, Phases
  <2>2. CASE closing # "drain"
    BY <1>0, <2>2 DEF DrainSettles, HandleTypes, CloseTypes, closeVars
  <2> QED BY <2>1, <2>2
<1>6. /\ flush' \in [Flushers -> FlushState]
      /\ \A f \in Flushers :
           \/ flush'[f] = flush[f] /\ flush[f].at # "drain"
           \/ /\ flush[f].at = "drain" /\ draining = "spent"
              /\ flush'[f].at = "drained" /\ flush'[f].asked = flush[f].asked
              /\ flush'[f].excuse = flush[f].excuse
           \/ flush[f].at = "drain" /\ flush'[f] = NotFlushing
  BY <1>0, BoundsAssumption DEF DrainSettles, HandleTypes, FlushTypes, FlushState, NotFlushing
<1>7. ChainInv'
  <2>1. \A o \in Operation : Owned(o) => Owned(o)'
    BY <1>3, <1>6 DEF Owned
  <2> QED BY <1>0, <1>3, <2>1, ChainStays DEF IInv
<1>8. FlushInv'
  <2> SUFFICES ASSUME NEW f \in Flushers
               PROVE  /\ flush'[f].asked <= Len(log) /\ flush'[f].at # "drain"
                      /\ flush'[f].excuse = "none" =>
                           /\ flush'[f].at \in {"drained", "barrier"} => flush'[f].asked <= state.cursor
                           /\ flush'[f].at = "done" => flush'[f].asked <= promised
                      /\ life = "down" => flush'[f].at = "idle"
    BY <1>3, Zenon DEF FlushInv, DrainSettles
  <2>1. /\ flush[f].asked <= Len(log)
        /\ flush[f].excuse = "none" =>
             /\ flush[f].at = "drain" /\ draining = "spent" => flush[f].asked <= state.cursor
             /\ flush[f].at \in {"drained", "barrier"} => flush[f].asked <= state.cursor
             /\ flush[f].at = "done" => flush[f].asked <= promised
        /\ life = "down" => flush[f].at = "idle"
    BY DEF IInv, FlushInv
  <2>2. NotFlushing.at = "idle" /\ NotFlushing.asked = 0 /\ 0 <= Len(log)
    BY <1>0 DEF NotFlushing, HandleTypes, SessionTypes
  <2>3. CASE flush'[f] = flush[f] /\ flush[f].at # "drain"
    BY <2>1, <2>3
  <2>4. CASE /\ flush[f].at = "drain" /\ draining = "spent"
             /\ flush'[f].at = "drained" /\ flush'[f].asked = flush[f].asked
             /\ flush'[f].excuse = flush[f].excuse
    BY <2>1, <2>4
  <2>5. CASE flush[f].at = "drain" /\ flush'[f] = NotFlushing
    BY <2>2, <2>5
  <2> QED BY <1>6, <2>3, <2>4, <2>5
<1>9. FlushTypes'
  BY <1>6 DEF FlushTypes
<1>10. DrainInv' /\ SeenInv'
  <2>1. UNCHANGED seen /\ (closing = "settle" => UNCHANGED <<closing, ahead>>)
    BY DEF DrainSettles, closeVars
  <2> QED BY <1>0, <1>3, <2>1, QuietDrains, QuietSees DEF IInv
<1> QED BY <1>1, <1>2, <1>4, <1>5, <1>7, <1>8, <1>9, <1>10, TypesAre, PTL DEF IInv, HandleTypes

\* The steps of close that ask for a drain.
LEMMA CloseDrainsKeeps ==
  ASSUME IInv, DrainLive, UNCHANGED <<sessionVars, state, lease, buffered, opVars, flush, faults>>,
         Quiet, CloseTypes', closing' \notin {"release", "closed"}, closing \in {"no", "chain"},
         UNCHANGED seen
  PROVE  IInv'
<1>0. HandleTypes /\ DiskTypes
  BY TypesAre DEF IInv
<1>1. SessionTypes' /\ StateTypes' /\ LogInv' /\ BatchInv' /\ DiskInv'
  BY <1>0, QuietKeeps DEF IInv
<1>2. DiskTypes' /\ LeaseInv'
  BY <1>0, QuietDisk DEF IInv
<1>3. UNCHANGED <<log, life, state, buffered, at, batch, flush>>
  BY DEF sessionVars, opVars
<1>4. /\ BufferTypes' /\ ChainTypes' /\ ChainInv'
      /\ \/ draining' = draining
         \/ draining = "none" /\ IF buffered = <<>> THEN draining' = "spent" ELSE draining' = "queued"
  BY <1>0, <1>3, DrainLiveKeeps DEF IInv, HandleTypes, ChainTypes
<1>5. FlushTypes'
  BY <1>0, <1>3 DEF HandleTypes, FlushTypes
<1>6. FlushInv'
  BY <1>1, <1>3, <1>4 DEF IInv, FlushInv, Quiet
<1>7. DrainInv' /\ SeenInv'
  BY <1>0, <1>4, QuietDrains, QuietSees DEF IInv
<1> QED BY <1>1, <1>2, <1>4, <1>5, <1>6, <1>7, TypesAre, PTL DEF IInv, HandleTypes

\* The steps of close that ask for nothing.
LEMMA CloseRestsKeeps ==
  ASSUME IInv, UNCHANGED <<sessionVars, state, buffered, timer, paused, draining, chain, opVars, flush>>,
         Quiet, CloseTypes', DiskTypes', LeaseInv', SeenInv'
  PROVE  IInv'
<1>0. HandleTypes
  BY TypesAre DEF IInv
<1>1. SessionTypes' /\ StateTypes' /\ LogInv' /\ BatchInv' /\ DiskInv'
  BY <1>0, QuietKeeps DEF IInv
<1>3. UNCHANGED <<log, life, state, buffered, at, batch, flush>>
  BY DEF sessionVars, opVars
<1>4. BufferTypes' /\ ChainTypes' /\ FlushTypes'
  BY <1>0, <1>3 DEF HandleTypes, BufferTypes, ChainTypes, FlushTypes
<1>5. ChainInv'
  <2>1. \A o \in Operation : Owned(o) => Owned(o)'
    BY <1>3 DEF Owned
  <2> QED BY <1>0, <1>3, <2>1, ChainStays DEF IInv
<1>6. FlushInv'
  BY <1>3 DEF IInv, FlushInv, Quiet
<1>7. DrainInv'
  BY <1>0, QuietDrains DEF IInv
<1> QED BY <1>1, <1>4, <1>5, <1>6, <1>7, TypesAre, PTL DEF IInv, HandleTypes

LEMMA ClosingKeeps ==
  ASSUME IInv, BeginClose \/ CloseStep
  PROVE  IInv'
<1>0. HandleTypes /\ DiskTypes /\ Quiet /\ LeaseInv
  BY TypesAre, UnhurriedIsQuiet DEF IInv, Unhurried, CloseStep
<1> USE DEF bufferVars, limitVars
<1>1. CASE BeginClose
  <2>1. CloseTypes'
    BY <1>0, <1>1 DEF BeginClose, HandleTypes, CloseTypes, Phases
  <2> QED BY <1>0, <1>1, <2>1, CloseDrainsKeeps DEF BeginClose
<1>2. CASE CloseLoop
  <2>1. Len(log) \in 0..MaxEvents /\ Base \in 0..MaxEvents
    BY <1>0, BaseType, BoundsAssumption DEF IInv, DiskInv, HandleTypes, SessionTypes
  <2>2. CloseTypes'
    BY <1>0, <1>2, <2>1 DEF CloseLoop, HandleTypes, CloseTypes, ChainTypes, Phases
  <2>3. CASE buffered = <<>>
    <3>1. DiskTypes' /\ LeaseInv'
      BY <1>0, <1>2, <2>3, QuietDisk DEF CloseLoop
    <3>2. /\ closing' = "settle" /\ ahead' = Len(chain) /\ UNCHANGED <<state, unrouted, at, batch, chain>>
          /\ seen' = IF Taken = <<>> THEN Base ELSE Len(log)
      BY <1>2, <2>3 DEF CloseLoop, sessionVars, opVars
    <3>3. Base' = Base /\ Given' = Given /\ Running("drain")' = Running("drain")
      BY <3>2 DEF Base, Given, Running
    <3>4. SeenInv'
      <4>1. CASE Taken = <<>>
        BY <2>1, <3>2, <3>3, <4>1 DEF SeenInv
      <4>2. CASE Taken # <<>>
        <5>1. Running("drain") /\ chain # <<>>
          BY <1>0, <4>2 DEF Taken, Running, HandleTypes, ChainTypes
        <5>2. life = "live"
          BY <1>0, <5>1, RunningLives DEF IInv, Running, Owned
        <5>3. Given + Len(batch) + Len(buffered) = Len(log) /\ Len(buffered) = 0
          BY <2>3, <5>2 DEF IInv, BatchInv
        <5>4. Given + Len(batch) = Len(log)
          BY <1>0, <5>3 DEF Given, HandleTypes, StateTypes, HandleState, SessionTypes, ChainTypes
        <5>5. Len(chain) > 0
          BY <1>0, <5>1, HeadOfChain
        <5> QED BY <2>1, <3>2, <3>3, <4>2, <5>1, <5>4, <5>5 DEF SeenInv
      <4> QED BY <4>1, <4>2
    <3> QED BY <1>0, <1>2, <2>2, <2>3, <3>1, <3>4, CloseRestsKeeps DEF CloseLoop
  <2>4. CASE buffered # <<>>
    BY <1>0, <1>2, <2>2, <2>4, CloseDrainsKeeps DEF CloseLoop
  <2> QED BY <2>3, <2>4
<1>3. CASE ReleaseLease
  <2>1. CloseTypes'
    BY <1>0, <1>3 DEF ReleaseLease, HandleTypes, CloseTypes, Phases
  <2>2. LeaseInv'
    BY <1>0, <1>3 DEF ReleaseLease, LeaseInv, Writing, opVars
  <2>3. DiskTypes'
    BY <1>0, <1>3, BoundsAssumption DEF ReleaseLease, DiskTypes, diskVars, opVars, Fault
  <2>4. SeenInv'
    BY <1>0, <1>3, QuietSees DEF ReleaseLease, IInv
  <2> QED BY <1>0, <1>3, <2>1, <2>2, <2>3, <2>4, CloseRestsKeeps DEF ReleaseLease
<1>4. CASE ReleaseHandle
  <2>1. CloseTypes'
    BY <1>0, <1>4 DEF ReleaseHandle, HandleTypes, CloseTypes, Phases
  <2>2. DiskTypes' /\ LeaseInv'
    BY <1>0, <1>4, QuietDisk DEF ReleaseHandle
  <2>3. SeenInv'
    BY <1>0, <1>4, QuietSees DEF ReleaseHandle, IInv
  <2> QED BY <1>0, <1>4, <2>1, <2>2, <2>3, CloseRestsKeeps DEF ReleaseHandle
<1> QED BY <1>1, <1>2, <1>3, <1>4 DEF CloseStep

LEMMA FlushCallKeeps ==
  ASSUME IInv, NEW f \in Flushers, FlushCall(f)
  PROVE  IInv'
<1>0. HandleTypes /\ DiskTypes /\ Quiet
  BY TypesAre, UnhurriedIsQuiet DEF IInv, Unhurried
<1>1. SessionTypes' /\ StateTypes' /\ LogInv' /\ BatchInv' /\ DiskInv'
  BY <1>0, QuietKeeps DEF IInv
<1>2. DiskTypes' /\ LeaseInv'
  BY <1>0, QuietDisk DEF IInv, FlushCall, closeVars, limitVars
<1>3. /\ UNCHANGED <<log, life, state, buffered, at, batch, closing, ahead, closeFailed, seen, promised>>
      /\ life \in {"setup", "live"} /\ flush[f].at \in {"idle", "done"}
  BY DEF FlushCall, sessionVars, opVars, closeVars
<1> DEFINE n == Handed
<1> DEFINE x == IF draining = "spent" /\ buffered # <<>> THEN "late" ELSE "none"
<1>5. /\ n \in 0..MaxEvents /\ n <= Len(log)
      /\ draining # "queued" /\ buffered = <<>> => n <= state.cursor
  <2>1. Len(log) \in 0..MaxEvents /\ state.cursor \in 0..MaxEvents /\ state.cursor <= Len(log)
    BY <1>0, BoundsAssumption DEF IInv, HandleTypes, SessionTypes, StateTypes, HandleState, BatchInv
  <2>2. draining # "queued" /\ buffered = <<>> => Taken \o buffered = <<>>
    <3>1. Running("drain") => draining = "queued"
      BY <1>0, RunningLives DEF IInv, Running, Owned, HandleTypes, ChainTypes
    <3>2. draining # "queued" => Taken = <<>>
      BY <3>1 DEF Taken, Running
    <3>3. <<>> \o <<>> = <<>>
      OBVIOUS
    <3> QED BY <3>2, <3>3
  <2> QED BY <2>1, <2>2 DEF Handed
<1>6. /\ flush' \in [Flushers -> FlushState]
      /\ flush'[f].at = "drain" /\ flush'[f].asked = n /\ flush'[f].excuse = x
      /\ \A g \in Flushers : g # f => flush'[g] = flush[g]
  <2>1. flush' = [flush EXCEPT ![f] = [at |-> "drain", asked |-> n, excuse |-> x]]
    BY DEF FlushCall
  <2>2. [at |-> "drain", asked |-> n, excuse |-> x] \in FlushState
    BY <1>5 DEF FlushState
  <2> HIDE DEF n, x
  <2> QED BY <1>0, <2>1, <2>2 DEF HandleTypes, FlushTypes
<1> HIDE DEF n
<1>7. DrainLive
  BY DEF FlushCall
<1>8. /\ BufferTypes' /\ ChainTypes' /\ ChainInv' /\ draining' # "none"
      /\ \/ draining' = draining
         \/ draining = "none" /\ IF buffered = <<>> THEN draining' = "spent" ELSE draining' = "queued"
  <2>1. \A g \in Flushers : flush[g].at = "barrier" => flush'[g].at = "barrier"
    BY <1>3, <1>6
  <2> QED BY <1>0, <1>3, <1>7, <2>1, DrainLiveKeeps DEF IInv, HandleTypes, ChainTypes
<1>9. CloseTypes' /\ FlushTypes'
  BY <1>0, <1>3, <1>6 DEF HandleTypes, CloseTypes, FlushTypes
<1>10. FlushInv'
  <2> SUFFICES ASSUME NEW g \in Flushers
               PROVE  /\ flush'[g].asked <= Len(log)
                      /\ flush'[g].excuse = "none" =>
                           /\ flush'[g].at = "drain" /\ draining' = "spent" => flush'[g].asked <= state.cursor
                           /\ flush'[g].at \in {"drained", "barrier"} => flush'[g].asked <= state.cursor
                           /\ flush'[g].at = "done" => flush'[g].asked <= promised
    BY <1>3, <1>8 DEF FlushInv
  <2>1. CASE g = f
    BY <1>5, <1>6, <1>8, <2>1 DEF x
  <2>2. CASE g # f
    <3>1. /\ flush[g].asked <= Len(log) /\ (flush[g].at = "drain" => draining # "none")
          /\ flush[g].excuse = "none" =>
               /\ flush[g].at = "drain" /\ draining = "spent" => flush[g].asked <= state.cursor
               /\ flush[g].at \in {"drained", "barrier"} => flush[g].asked <= state.cursor
               /\ flush[g].at = "done" => flush[g].asked <= promised
      BY DEF IInv, FlushInv
    <3> QED BY <1>6, <1>8, <2>2, <3>1
  <2> QED BY <2>1, <2>2
<1>11. DrainInv' /\ SeenInv'
  BY <1>0, <1>3, <1>8, QuietDrains, QuietSees DEF IInv
<1> QED BY <1>1, <1>2, <1>8, <1>9, <1>10, <1>11, TypesAre, PTL DEF IInv, HandleTypes

LEMMA FlushBarrierKeeps ==
  ASSUME IInv, NEW f \in Flushers, FlushBarrier(f)
  PROVE  IInv'
<1>0. HandleTypes /\ DiskTypes /\ Quiet
  BY TypesAre, UnhurriedIsQuiet DEF IInv, Unhurried
<1>1. SessionTypes' /\ StateTypes' /\ LogInv' /\ BatchInv' /\ DiskInv'
  BY <1>0, QuietKeeps DEF IInv
<1>2. DiskTypes' /\ LeaseInv'
  BY <1>0, QuietDisk DEF IInv, FlushBarrier, closeVars, limitVars
<1>3. /\ UNCHANGED <<log, life, state, buffered, timer, paused, draining, at, batch, closing, ahead, closeFailed,
                     seen, promised>>
      /\ flush[f].at = "drained" /\ life # "down"
  BY DEF FlushBarrier, sessionVars, opVars, closeVars, bufferVars, IInv, FlushInv
<1>4. \A o \in Operation : Owned(o) => ~(o.kind = "header" /\ o.who = f)
  BY <1>3 DEF Owned
<1>5. /\ flush' \in [Flushers -> FlushState]
      /\ \A g \in Flushers : g # f => flush'[g] = flush[g]
      /\ flush'[f].at \in {"idle", "barrier"} /\ (flush'[f].at = "barrier" => flush'[f].asked = flush[f].asked /\ flush'[f].excuse = flush[f].excuse)
      /\ (flush'[f].at = "idle" => flush'[f].asked = 0)
  BY <1>0, BoundsAssumption DEF FlushBarrier, HandleTypes, FlushTypes, FlushState, NotFlushing
<1>6. \A o \in Operation : Owned(o) => Owned(o)'
  BY <1>3, <1>4, <1>5 DEF Owned
<1>7. ChainTypes' /\ ChainInv'
  <2>1. CASE closing = "no"
    <3> DEFINE op == Op("header", 0, f)
    <3>1. op \in Operation /\ op.kind = "header" /\ op.who = f
      BY BoundsAssumption DEF Op, Operation
    <3>2. chain' = Append(chain, op) /\ flush'[f].at = "barrier"
      BY <1>0, <2>1 DEF FlushBarrier, HandleTypes, FlushTypes, FlushState
    <3> HIDE DEF op
    <3>3. Owned(op)'
      BY <3>1, <3>2 DEF Owned, op, Op
    <3>4. \A i \in 1..Len(chain) : ~(chain[i].kind = op.kind /\ chain[i].who = op.who)
      <4> SUFFICES ASSUME NEW i \in 1..Len(chain) PROVE ~(chain[i].kind = op.kind /\ chain[i].who = op.who)
        OBVIOUS
      <4>1. chain[i] \in Operation /\ Owned(chain[i])
        BY <1>0 DEF IInv, ChainInv, HandleTypes, ChainTypes
      <4> QED BY <1>4, <3>1, <4>1
    <3>5. ChainInv'
      BY <1>0, <1>3, <1>6, <3>1, <3>2, <3>3, <3>4, ChainGrows DEF IInv
    <3> QED BY <1>0, <1>3, <3>1, <3>2, <3>5, AppendToChain DEF HandleTypes, ChainTypes
  <2>2. CASE closing # "no"
    <3>1. UNCHANGED chain
      BY <2>2 DEF FlushBarrier
    <3>2. ChainInv'
      BY <1>0, <1>3, <1>6, <3>1, ChainStays DEF IInv
    <3> QED BY <1>0, <1>3, <3>1, <3>2 DEF HandleTypes, ChainTypes
  <2> QED BY <2>1, <2>2
<1>8. BufferTypes' /\ CloseTypes' /\ FlushTypes'
  BY <1>0, <1>3, <1>5 DEF HandleTypes, BufferTypes, CloseTypes, FlushTypes
<1>9. FlushInv'
  <2> SUFFICES ASSUME NEW g \in Flushers
               PROVE  /\ flush'[g].asked <= Len(log) /\ (flush'[g].at = "drain" => draining # "none")
                      /\ flush'[g].excuse = "none" =>
                           /\ flush'[g].at = "drain" /\ draining = "spent" => flush'[g].asked <= state.cursor
                           /\ flush'[g].at \in {"drained", "barrier"} => flush'[g].asked <= state.cursor
                           /\ flush'[g].at = "done" => flush'[g].asked <= promised
    BY <1>3 DEF FlushInv
  <2>0. 0 <= Len(log)
    BY <1>0 DEF HandleTypes, SessionTypes
  <2>1. /\ flush[g].asked <= Len(log) /\ (flush[g].at = "drain" => draining # "none")
        /\ flush[g].excuse = "none" =>
             /\ flush[g].at = "drain" /\ draining = "spent" => flush[g].asked <= state.cursor
             /\ flush[g].at \in {"drained", "barrier"} => flush[g].asked <= state.cursor
             /\ flush[g].at = "done" => flush[g].asked <= promised
    BY DEF IInv, FlushInv
  <2> QED BY <1>3, <1>5, <2>0, <2>1
<1>10. DrainInv' /\ SeenInv'
  BY <1>0, <1>3, QuietDrains, QuietSees DEF IInv
<1> QED BY <1>1, <1>2, <1>7, <1>8, <1>9, <1>10, TypesAre, PTL DEF IInv, HandleTypes


(* ------------------------ The session's events ------------------------- *)

LEMMA FollowsGrows ==
  ASSUME log \in Seq(Event), log' \in Seq(Event), Begins(log, log')
  PROVE  /\ \A s \in Seq(Event), n \in Nat : Follows(s, n) => Follows(s, n)'
         /\ \A s \in Seq(Event) : Begins(s, log) => Begins(s, log')
<1>1. ASSUME NEW s \in Seq(Event), NEW n \in Nat, Follows(s, n)
      PROVE  Follows(s, n)'
  BY <1>1 DEF Follows, Begins
<1>2. ASSUME NEW s \in Seq(Event), Begins(s, log)
      PROVE  Begins(s, log')
  BY <1>2 DEF Begins
<1> QED BY <1>1, <1>2

LEMMA LogGrows ==
  ASSUME HandleTypes, DiskTypes, LogInv, DiskInv, life # "down", NEW e \in Event,
         Len(log) < MaxEvents, e.seq = Len(log) + 1, log' = Append(log, e),
         UNCHANGED <<epoch, crashes, life, unrouted, promised, state, opVars, diskVars>>
  PROVE  SessionTypes' /\ StateTypes' /\ LogInv' /\ DiskInv' /\ Begins(log, log') /\ Len(log') = Len(log) + 1
<1>0. UNCHANGED <<epoch, crashes, life, unrouted, promised, state, at, batch, before, file, durable,
                 residue>>
  BY DEF opVars, diskVars
<1>1. log \in Seq(Event) /\ log' \in Seq(Event) /\ Len(log') = Len(log) + 1 /\ Begins(log, log')
  BY DEF HandleTypes, SessionTypes, Begins
<1>2. SessionTypes' /\ StateTypes'
  BY <1>0, <1>1, BoundsAssumption DEF HandleTypes, SessionTypes, StateTypes
<1>3. LogInv'
  <2>1. \A i \in 1..Len(log') : log'[i].seq = i
    BY <1>1 DEF LogInv
  <2> QED BY <1>0, <2>1 DEF LogInv
<1>4. DiskInv'
  <2>1. /\ \A s \in Seq(Event), n \in Nat : Follows(s, n) => Follows(s, n)'
        /\ \A s \in Seq(Event) : Begins(s, log) => Begins(s, log')
    BY <1>1, FollowsGrows
  <2>2. Events(file.frames) \in Seq(Event) /\ Events(durable.frames) \in Seq(Event)
    BY EventsType DEF DiskTypes, FileState
  <2>3. FileInv'
    BY <1>0 DEF DiskInv, FileInv
  <2>4. ASSUME Sane PROVE Sane'
    <3>1. Readable(file)' /\ Readable(durable)'
      BY <1>0, <2>1, <2>2, <2>4 DEF Sane, Readable
    <3>2. /\ Base' = Base /\ Unborn' = Unborn /\ Kept(file)' = Kept(file) /\ Kept(durable)' = Kept(durable)
          /\ LeftOver' = LeftOver /\ Payload' = Payload
      BY <1>0 DEF Base, Unborn, Kept, LeftOver, Payload
    <3>3. Follows(state.recovered, Base) => Follows(state.recovered, Base)'
      <4>1. state.recovered \in Seq(Event) /\ Base \in Nat
        BY BaseType DEF DiskInv, HandleTypes, StateTypes, HandleState
      <4> QED BY <1>0, <2>1, <4>1 DEF Follows, Base
    <3>4. (Stored => Stored') /\ (TornTail => TornTail')
      BY <1>0, <3>2, <3>3 DEF Stored, TornTail
    <3> QED BY <1>0, <2>4, <3>1, <3>2, <3>4 DEF Sane
  <2> QED BY <1>0, <2>3, <2>4 DEF DiskInv
<1> QED BY <1>1, <1>2, <1>3, <1>4

LEMMA SetupAppendKeeps ==
  ASSUME IInv, SetupAppend
  PROVE  IInv'
<1>0. /\ HandleTypes /\ DiskTypes /\ LogInv /\ ChainInv /\ BatchInv /\ DrainInv /\ DiskInv
      /\ FlushInv /\ LeaseInv /\ SeenInv
  BY TypesAre DEF IInv
<1>1. /\ UNCHANGED <<epoch, life, unrouted, state, lease, buffered, timer, paused, draining, chain, at,
                     batch, before, closing, ahead, closeFailed, seen, flush, file, durable, residue,
                     promised, faults, crashes>>
      /\ life = "setup" /\ Len(log) < MaxEvents
  BY DEF SetupAppend, bufferVars, opVars, closeVars, diskVars, limitVars
<1>2. PICK e \in Event : e.seq = Len(log) + 1 /\ log' = Append(log, e)
  <2>1. [seq |-> Len(log) + 1, epoch |-> epoch] \in Event
    BY <1>0, <1>1, BoundsAssumption DEF HandleTypes, SessionTypes, Event
  <2> QED BY <2>1 DEF SetupAppend
<1>3. SessionTypes' /\ StateTypes' /\ LogInv' /\ DiskInv' /\ Begins(log, log') /\ Len(log') = Len(log) + 1
  BY <1>0, <1>1, <1>2, LogGrows DEF opVars, diskVars
<1>4. BufferTypes' /\ ChainTypes' /\ CloseTypes' /\ FlushTypes'
  BY <1>0, <1>1 DEF HandleTypes, BufferTypes, ChainTypes, CloseTypes, FlushTypes
<1>5. DiskTypes' /\ LeaseInv'
  BY <1>0, <1>1 DEF DiskTypes, LeaseInv, Writing
<1>7. ChainInv'
  <2>1. \A o \in Operation : Owned(o) => Owned(o)'
    BY <1>0, <1>1, <1>3 DEF Owned, Operation, HandleTypes, SessionTypes
  <2> QED BY <1>0, <1>1, <2>1, ChainStays
<1>8. BatchInv'
  <2>0. Given' = Given /\ \A k : Running(k)' = Running(k)
    BY <1>1 DEF Given, Running
  <2>1. at # "idle" => Follows(batch, Given)'
    <3>1. at # "idle" => Follows(batch, Given)
      BY <1>0 DEF BatchInv
    <3>2. log \in Seq(Event) /\ log' \in Seq(Event) /\ batch \in Seq(Event) /\ Given \in Nat
      BY <1>0, <1>3 DEF HandleTypes, SessionTypes, ChainTypes, StateTypes, HandleState, Given
    <3> QED BY <1>1, <1>3, <2>0, <3>1, <3>2, FollowsGrows DEF Follows
  <2>2. state.cursor <= Len(log')
    BY <1>0, <1>3 DEF BatchInv, HandleTypes, SessionTypes, StateTypes, HandleState
  <2> QED BY <1>0, <1>1, <2>0, <2>1, <2>2 DEF BatchInv
<1>9. FlushInv'
  BY <1>0, <1>1, <1>3 DEF FlushInv, HandleTypes, SessionTypes, FlushTypes, FlushState
<1>10. DrainInv' /\ SeenInv'
  BY <1>0, <1>1 DEF DrainInv, SeenInv, Running, Base, Given
<1> QED BY <1>3, <1>4, <1>5, <1>7, <1>8, <1>9, <1>10, TypesAre, PTL DEF IInv, HandleTypes

LEMMA LiveAppendKeeps ==
  ASSUME IInv, LiveAppend
  PROVE  IInv'
<1>0. /\ HandleTypes /\ DiskTypes /\ LogInv /\ ChainInv /\ BatchInv /\ DrainInv /\ DiskInv
      /\ FlushInv /\ LeaseInv /\ SeenInv
  BY TypesAre DEF IInv
<1>1. /\ UNCHANGED <<epoch, life, unrouted, state, lease, paused, draining, chain, at, batch,
                     before, closing, ahead, closeFailed, seen, flush, file, durable, residue, promised,
                     faults, crashes>>
      /\ life = "live" /\ Len(log) < MaxEvents /\ timer' = (timer \/ ~paused)
  BY DEF LiveAppend, opVars, closeVars, diskVars, limitVars
<1>2. PICK e \in Event : e.seq = Len(log) + 1 /\ log' = Append(log, e) /\ buffered' = Append(buffered, e)
  <2>1. [seq |-> Len(log) + 1, epoch |-> epoch] \in Event
    BY <1>0, <1>1, BoundsAssumption DEF HandleTypes, SessionTypes, Event
  <2> QED BY <2>1 DEF LiveAppend
<1>3. SessionTypes' /\ StateTypes' /\ LogInv' /\ DiskInv' /\ Begins(log, log') /\ Len(log') = Len(log) + 1
  BY <1>0, <1>1, <1>2, LogGrows DEF opVars, diskVars
<1>4. BufferTypes' /\ ChainTypes' /\ CloseTypes' /\ FlushTypes'
  BY <1>0, <1>1, <1>2 DEF HandleTypes, BufferTypes, ChainTypes, CloseTypes, FlushTypes
<1>5. DiskTypes' /\ LeaseInv'
  BY <1>0, <1>1 DEF DiskTypes, LeaseInv, Writing
<1>6. ChainInv'
  <2>1. \A o \in Operation : Owned(o) => Owned(o)'
    BY <1>0, <1>1, <1>3 DEF Owned, Operation, HandleTypes, SessionTypes
  <2> QED BY <1>0, <1>1, <2>1, ChainStays
<1>7. BatchInv'
  <2>0. Given' = Given /\ \A k : Running(k)' = Running(k)
    BY <1>1 DEF Given, Running
  <2>1. /\ log \in Seq(Event) /\ log' \in Seq(Event) /\ batch \in Seq(Event) /\ Given \in Nat
        /\ state.cursor \in Nat /\ buffered \in Seq(Event)
    BY <1>0, <1>3 DEF HandleTypes, SessionTypes, ChainTypes, StateTypes, HandleState, BufferTypes, Given
  <2>2. at # "idle" => Follows(batch, Given)'
    <3>1. at # "idle" => Follows(batch, Given)
      BY <1>0 DEF BatchInv
    <3> QED BY <1>1, <1>3, <2>0, <2>1, <3>1, FollowsGrows DEF Follows
  <2>3. state.cursor <= Len(log')
    BY <1>0, <1>3, <2>1 DEF BatchInv
  <2>4. Given + Len(batch) + Len(buffered') = Len(log') /\ Follows(buffered, Given + Len(batch))'
    <3> DEFINE n == Given + Len(batch)
    <3>1. n + Len(buffered) = Len(log) /\ Follows(buffered, n)
      BY <1>0, <1>1 DEF BatchInv
    <3>3. n \in Nat /\ n + Len(buffered) = Len(log) /\ \A i \in 1..Len(buffered) : buffered[i] = log[n + i]
      BY <2>1, <3>1 DEF Follows
    <3>4. n' = n
      BY <1>1, <2>0
    <3> HIDE DEF n
    <3>5. Len(buffered') = Len(buffered) + 1 /\ Len(log') = Len(log) + 1
      BY <1>2, <2>1
    <3>6. ASSUME NEW i \in 1..Len(buffered') PROVE buffered'[i] = log'[n + i]
      <4>1. CASE i \in 1..Len(buffered)
        BY <1>2, <2>1, <3>3, <4>1
      <4>2. CASE i = Len(buffered) + 1
        BY <1>2, <2>1, <3>3, <4>2
      <4> QED BY <2>1, <3>5, <4>1, <4>2
    <3>7. n + Len(buffered') = Len(log')
      BY <2>1, <3>3, <3>5
    <3>8. Follows(buffered, n)'
      BY <3>4, <3>6, <3>7 DEF Follows
    <3> QED BY <1>1, <3>7, <3>8 DEF n
  <2> QED BY <1>0, <1>1, <2>0, <2>2, <2>3, <2>4 DEF BatchInv
<1>8. FlushInv'
  BY <1>0, <1>1, <1>3 DEF FlushInv, HandleTypes, SessionTypes, FlushTypes, FlushState
<1>9. DrainInv' /\ SeenInv'
  <2>1. buffered' # <<>>
    BY <1>0, <1>2 DEF HandleTypes, BufferTypes
  <2> QED BY <1>0, <1>1, <2>1 DEF DrainInv, SeenInv, Running, Base, Given
<1> QED BY <1>3, <1>4, <1>5, <1>6, <1>7, <1>8, <1>9, TypesAre, PTL DEF IInv, HandleTypes

LEMMA StoreSuffixKeeps ==
  ASSUME IInv, StoreSuffix
  PROVE  IInv'
<1>0. /\ HandleTypes /\ DiskTypes /\ LogInv /\ ChainInv /\ BatchInv /\ DrainInv /\ DiskInv
      /\ FlushInv /\ LeaseInv /\ SeenInv
  BY TypesAre DEF IInv
<1>1. /\ UNCHANGED <<log, epoch, unrouted, state, lease, buffered, timer, paused, draining, at, batch,
                     before, closing, ahead, closeFailed, seen, flush, file, durable, residue, promised,
                     faults, crashes>>
      /\ life = "setup" /\ ~Storing /\ life' \in {"setup", "live"}
  BY DEF StoreSuffix, bufferVars, opVars, closeVars, diskVars, limitVars
<1>2. SessionTypes' /\ StateTypes' /\ BufferTypes' /\ CloseTypes' /\ FlushTypes' /\ DiskTypes'
  BY <1>0, <1>1 DEF HandleTypes, SessionTypes, StateTypes, BufferTypes, CloseTypes, FlushTypes, DiskTypes
<1>3. LogInv' /\ FlushInv' /\ LeaseInv'
  BY <1>0, <1>1 DEF LogInv, FlushInv, LeaseInv, Writing
<1>4. DiskInv'
  <2>1. /\ Readable(file)' = Readable(file) /\ Readable(durable)' = Readable(durable)
        /\ Covers(file)' = Covers(file) /\ Base' = Base
    BY <1>1 DEF Readable, Covers, Base
  <2>2. /\ Unborn' = Unborn /\ LeftOver' = LeftOver /\ Kept(file)' = Kept(file)
        /\ Kept(durable)' = Kept(durable) /\ Payload' = Payload
        /\ Follows(state.recovered, Base)' = Follows(state.recovered, Base)
    BY <1>1, <2>1 DEF Unborn, LeftOver, Kept, Payload, Follows
  <2>3. Stored' = Stored /\ TornTail' = TornTail
    BY <1>1, <2>1, <2>2 DEF Stored, TornTail
  <2>4. FileInv' /\ (Sane => Sane')
    BY <1>0, <1>1, <2>1, <2>2, <2>3 DEF DiskInv, FileInv, Sane
  <2> QED BY <1>0, <1>1, <2>4 DEF DiskInv
<1>5. \A i \in 1..Len(chain) : chain[i].kind # "append"
  BY <1>0, <1>1 DEF Storing, HandleTypes, ChainTypes
<1>6. /\ state.cursor \in Nat /\ Len(log) \in 0..MaxEvents /\ state.cursor <= Len(log)
      /\ batch \in Seq(Event) /\ buffered = <<>> /\ unrouted = 0 /\ Given = state.cursor
  BY <1>0, <1>1, BoundsAssumption
  DEF HandleTypes, SessionTypes, StateTypes, ChainTypes, HandleState, BatchInv, Given
<1>7. CASE state.cursor < Len(log)
  <2>1. PICK n \in 0..MaxEvents : n = Len(log)
    BY <1>6
  <2> DEFINE op == Op("append", n, "setup")
  <2>2. op \in Operation /\ op.kind = "append"
    BY DEF Op, Operation
  <2>3. chain' = Append(chain, op) /\ life' = life
    BY <1>7, <2>1 DEF StoreSuffix
  <2>4. Owned(op)' /\ \A o \in Operation : Owned(o) => Owned(o)'
    BY <1>1, <1>6, <2>1, <2>3 DEF Owned, Op
  <2> HIDE DEF op
  <2>5. ChainInv'
    BY <1>0, <1>1, <1>5, <2>2, <2>3, <2>4, ChainGrows
  <2>6. ChainTypes'
    BY <1>0, <1>1, <2>2, <2>3, AppendToChain DEF HandleTypes, ChainTypes
  <2>7. BatchInv'
    <3>1. at # "idle" => Head(chain') = Head(chain)
      BY <1>0, <2>2, <2>3 DEF HandleTypes, ChainTypes
    <3>2. Follows(batch, Given)' = Follows(batch, Given) /\ Given' = Given
      BY <1>1 DEF Follows, Given
    <3> QED BY <1>0, <1>1, <2>3, <3>1, <3>2 DEF BatchInv, Running
  <2>8. DrainInv' /\ SeenInv'
    <3>1. at # "idle" => Head(chain') = Head(chain)
      BY <1>0, <2>2, <2>3 DEF HandleTypes, ChainTypes
    <3>2. Running("drain")' = Running("drain") /\ Base' = Base /\ Given' = Given
      BY <1>1, <3>1 DEF Running, Base, Given
    <3> QED BY <1>0, <1>1, <3>2 DEF DrainInv, SeenInv
  <2> QED BY <1>2, <1>3, <1>4, <2>5, <2>6, <2>7, <2>8, TypesAre, PTL DEF IInv, HandleTypes
<1>8. CASE ~(state.cursor < Len(log))
  <2>1. chain' = chain /\ life' = "live"
    BY <1>8 DEF StoreSuffix
  <2>2. ChainTypes'
    BY <1>0, <1>1, <2>1 DEF HandleTypes, ChainTypes
  <2>3. ChainInv'
    <3>1. ASSUME NEW i \in 1..Len(chain) PROVE Owned(chain[i])'
      BY <1>0, <1>1, <1>5, <2>1 DEF ChainInv, Owned
    <3> QED BY <1>0, <1>1, <2>1, <3>1 DEF ChainInv
  <2>4. BatchInv'
    <3>1. Len(batch) = 0 /\ state.cursor = Len(log)
      <4>1. at = "idle" \/ Follows(batch, Given)
        BY <1>0 DEF BatchInv
      <4>2. at = "idle" => batch = <<>>
        BY <1>0 DEF BatchInv
      <4> QED BY <1>6, <1>8, <4>1, <4>2 DEF Follows
    <3>2. /\ Follows(batch, Given)' /\ Follows(buffered, Given + Len(batch))'
          /\ Given' = Given /\ Given + Len(batch) + Len(buffered) = Len(log)
      BY <1>1, <1>6, <3>1 DEF Follows, Given
    <3> QED BY <1>0, <1>1, <1>6, <2>1, <3>2 DEF BatchInv, Running
  <2>5. DrainInv' /\ SeenInv'
    BY <1>0, <1>1, <2>1 DEF DrainInv, SeenInv, Running, Base, Given
  <2> QED BY <1>2, <1>3, <1>4, <2>2, <2>3, <2>4, <2>5, TypesAre, PTL DEF IInv, HandleTypes
<1> QED BY <1>7, <1>8


(* ------------------------ Crash and reopening --------------------------- *)

LEMMA CrashKeeps ==
  ASSUME IInv, Crash
  PROVE  IInv'
<1>0. Types /\ HandleTypes /\ DiskTypes /\ LogInv /\ DiskInv
  BY TypesAre DEF IInv
<1>1. PICK s \in Survivors : file' = s /\ durable' = s /\ log' = Scan(s)
  BY DEF Crash
<1>2. /\ life # "down" /\ life' = "down" /\ crashes' = crashes + 1 /\ crashes < MaxCrashes
      /\ state' = Fresh(0) /\ lease' = "none" /\ buffered' = <<>> /\ timer' = FALSE
      /\ paused' = FALSE /\ draining' = "none" /\ chain' = <<>> /\ at' = "idle"
      /\ batch' = <<>> /\ before' = Absent /\ closing' = "no" /\ ahead' = 0
      /\ closeFailed' = FALSE /\ seen' = 0 /\ flush' = [f \in Flushers |-> NotFlushing]
      /\ unrouted' = 0 /\ residue' = IF residue = "buried" THEN "buried" ELSE "none"
      /\ UNCHANGED <<epoch, promised, faults>>
  BY DEF Crash
<1>3. s \in FileState /\ (s.there \/ s.frames = <<>>)
  BY <1>0, SurvivorsAre DEF DiskInv
<1>4. log \in Seq(Event)
  BY <1>0 DEF HandleTypes, SessionTypes
<1>5. log' \in Seq(Event) /\ Continues(log', 0) /\ Len(log') <= MaxEvents
  BY <1>1, <1>3, ScanIs
<1>6. SessionTypes'
  BY <1>0, <1>2, <1>5, BoundsAssumption DEF HandleTypes, SessionTypes
<1>7. StateTypes'
  <2>1. <<>> \in Seq(Event)
    OBVIOUS
  <2>2. Fresh(0) \in HandleState /\ Fresh(0).cursor = 0
    BY <2>1 DEF HandleState, Fresh
  <2> QED BY <1>2, <2>2, BoundsAssumption DEF StateTypes
<1>8. BufferTypes' /\ ChainTypes' /\ CloseTypes'
  <2>1. <<>> \in Seq(Event) /\ <<>> \in Seq(Operation)
    OBVIOUS
  <2>2. BufferTypes'
    BY <1>2, <2>1 DEF BufferTypes
  <2>3. ChainTypes'
    BY <1>2, <2>1 DEF ChainTypes
  <2>4. CloseTypes'
    <3>1. 0 \in 0..MaxEvents /\ 0 \in Nat /\ FALSE \in BOOLEAN /\ "no" \in Phases
      BY BoundsAssumption DEF Phases
    <3> QED BY <1>2, <3>1, Zenon DEF CloseTypes
  <2> QED BY <2>2, <2>3, <2>4
<1>9. FlushTypes'
  BY <1>2, BoundsAssumption DEF FlushTypes, FlushState, NotFlushing
<1>10. DiskTypes'
  BY <1>0, <1>1, <1>2, <1>3 DEF DiskTypes, FileState, Absent
<1>11. LogInv'
  <2>1. \A i \in 1..Len(log') : log'[i].seq = i
    BY <1>5 DEF Continues
  <2> QED BY <1>0, <1>2, <2>1 DEF LogInv
<1>12. ChainInv' /\ LeaseInv'
  BY <1>2 DEF ChainInv, LeaseInv, Writing, Awaits
<1>13. BatchInv'
  BY <1>2, <1>5 DEF BatchInv, Running, Fresh
<1>14. DiskInv'
  <2>1. FileInv'
    <3>1. Fresh(0).cursor = 0 /\ ~Fresh(0).materialized /\ Fresh(0).torn = NoTear /\ Fresh(0).recovered = <<>>
      BY DEF Fresh
    <3> QED BY <1>1, <1>2, <1>3, <3>1 DEF FileInv
  <2>2. ASSUME residue' # "buried" PROVE Sane'
    <3>0. residue # "buried" /\ residue' = "none"
      BY <1>2, <2>2
    <3>1. Readable(s) /\ Covers(s)
      BY <1>0, <3>0, SurvivorsReadable
    <3>2. /\ s.there => log' = Events(s.frames)
          /\ ~s.there => log' = <<>>
      BY <1>0, <1>1, <1>3, <1>4, <3>1, ReadableScan
    <3>3. Readable(file)' /\ Readable(durable)'
      <4>1. CASE s = Absent
        BY <1>1, <4>1 DEF Readable
      <4>2. CASE s # Absent
        <5>1. s.there /\ Intact(s.frames)
          BY <3>1, <4>2 DEF Readable
        <5>2. Begins(log', log')
          BY <1>5 DEF Begins
        <5> QED BY <1>1, <3>2, <5>1, <5>2 DEF Readable
      <4> QED BY <4>1, <4>2
    <3>4. Covers(file)'
      BY <1>1, <1>2, <3>1 DEF Covers
    <3> QED BY <1>2, <3>0, <3>3, <3>4 DEF Sane
  <2> QED BY <2>1, <2>2 DEF DiskInv
<1>15. FlushInv'
  BY <1>2, <1>5 DEF FlushInv, NotFlushing
<1>16. DrainInv' /\ SeenInv'
  <2>1. Base' = 0
    BY <1>2 DEF Base, Fresh
  <2> QED BY <1>2, <2>1 DEF DrainInv, SeenInv, Running
<1> QED BY <1>6, <1>7, <1>8, <1>9, <1>10, <1>11, <1>12, <1>13, <1>14, <1>15, <1>16, TypesAre, PTL
        DEF IInv, HandleTypes

LEMMA ReopenKeeps ==
  ASSUME IInv, Reopen
  PROVE  IInv'
<1>0. /\ Types /\ HandleTypes /\ DiskTypes /\ LogInv /\ ChainInv /\ BatchInv /\ DiskInv /\ FlushInv
      /\ SeenInv /\ FileInv
  BY TypesAre DEF IInv, DiskInv
<1> DEFINE fs == file.frames
<1>1. /\ life = "down" /\ life' = "setup" /\ epoch' = epoch + 1 /\ ~Damaged(fs)
      /\ lease' = IF file.there THEN "held" ELSE "none"
      /\ state' = [cursor |-> Len(log), materialized |-> file.there,
                   torn |-> IF Sound(fs) < Len(fs) THEN Sound(fs) ELSE NoTear,
                   recovered |-> Recoverable(fs)]
      /\ UNCHANGED <<log, unrouted, buffered, timer, paused, draining, chain, at, batch, before, closing,
                     ahead, closeFailed, seen, flush, file, durable, residue, promised, faults, crashes>>
  BY DEF Reopen, bufferVars, opVars, closeVars, diskVars, limitVars
<1>2. /\ file = durable /\ at = "idle" /\ Scan(file) = log /\ (file.there \/ fs = <<>>)
      /\ chain = <<>> /\ buffered = <<>> /\ batch = <<>> /\ unrouted = 0 /\ state.cursor = 0
  BY <1>0, <1>1 DEF FileInv, ChainInv, BatchInv
<1>3. log \in Seq(Event) /\ Len(log) \in 0..MaxEvents /\ promised \in -1..MaxEvents
  BY <1>0, BoundsAssumption DEF HandleTypes, SessionTypes
<1>4. fs \in Seq(FrameT) /\ file \in FileState /\ Len(fs) \in Nat
  BY <1>0 DEF DiskTypes, FileState
<1>5. Sound(fs) \in 0..Len(fs) /\ Recoverable(fs) \in Seq(Event)
  BY <1>4, SoundIs, RecoverableIs
<1>6. /\ Len(Recoverable(fs)) <= Len(log)
      /\ ~file.there => Recoverable(fs) = <<>> /\ ~(Sound(fs) < Len(fs))
  <2>1. CASE file.there
    BY <1>1, <1>2, <1>4, <2>1, ScanIs
  <2>2. CASE ~file.there
    <3>1. Len(fs) = 0
      BY <1>2, <2>2
    <3>2. ~(Sound(fs) < Len(fs))
      BY <1>5, <3>1
    <3>3. Recoverable(fs) = <<>>
      BY <3>2 DEF Recoverable
    <3> QED BY <1>3, <2>2, <3>2, <3>3
  <2> QED BY <2>1, <2>2
<1> HIDE DEF fs
<1>8. /\ state'.cursor = Len(log) /\ state'.materialized = file.there
      /\ state'.recovered = Recoverable(fs)
      /\ state'.torn = IF Sound(fs) < Len(fs) THEN Sound(fs) ELSE NoTear
      /\ state' \in HandleState
  BY <1>1, <1>3, <1>4, <1>5 DEF HandleState, FileState, NoTear
<1>9. SessionTypes' /\ LogInv'
  BY <1>0, <1>1, BoundsAssumption DEF HandleTypes, SessionTypes, LogInv
<1>10. StateTypes'
  BY <1>3, <1>8 DEF StateTypes
<1>11. BufferTypes' /\ ChainTypes' /\ CloseTypes' /\ FlushTypes' /\ DiskTypes'
  BY <1>0, <1>1 DEF HandleTypes, BufferTypes, ChainTypes, CloseTypes, FlushTypes, DiskTypes
<1>12. ChainInv' /\ LeaseInv'
  <2>1. draining # "queued"
    BY <1>0, <1>2 DEF ChainInv
  <2> QED BY <1>1, <1>2, <2>1 DEF ChainInv, LeaseInv, Writing, Awaits
<1>13. BatchInv'
  BY <1>1, <1>2, <1>3, <1>8 DEF BatchInv, Running
<1>14. FlushInv'
  BY <1>0, <1>1 DEF FlushInv
<1>15. FileInv'
  BY <1>0, <1>1, <1>2, <1>3, <1>4, <1>5, <1>6, <1>8 DEF FileInv, fs
<1>16. ASSUME residue # "buried" PROVE Sane'
  <2>0. Readable(file) /\ Covers(file) /\ residue = "none" /\ residue' = "none"
    BY <1>0, <1>1, <1>16 DEF DiskInv, Sane
  <2>1. Readable(file)' /\ Readable(durable)'
    BY <1>1, <1>2, <2>0 DEF Readable
  <2>2. promised <= Base' /\ (Unborn' \/ Stored' \/ TornTail')
    <3>1. CASE ~file.there
      <4>1. promised = -1
        BY <1>3, <2>0, <3>1 DEF Covers, Holds
      <4>2. Len(log) = 0 /\ Len(Recoverable(fs)) = 0
        <5>1. Scan(file) = <<>>
          BY <3>1 DEF Scan
        <5> QED BY <1>2, <1>6, <3>1, <5>1
      <4> QED BY <1>1, <1>2, <1>6, <1>8, <3>1, <4>1, <4>2 DEF Base, Unborn
    <3>2. CASE file.there
      <4>1. /\ Intact(fs) /\ Continues(Events(fs), 0) /\ log = Events(fs) /\ Events(fs) \in Seq(Event)
        <5>1. Intact(fs) /\ Begins(Events(fs), log)
          BY <2>0, <3>2 DEF Readable, Absent, fs
        <5>2. log = Events(fs)
          BY <1>0, <1>2, <1>3, <1>4, <2>0, <3>2, ReadableScan DEF fs
        <5> QED BY <1>0, <1>3, <5>1, <5>2, LogContinues
      <4>2. /\ Sound(fs) = IF Whole(fs) THEN Len(fs) ELSE Len(fs) - 1
            /\ Whole(fs) => Recoverable(fs) = <<>>
            /\ ~Whole(fs) => Len(fs) > 0 /\ ~fs[Len(fs)].whole /\ Recoverable(fs) = fs[Len(fs)].events
        BY <1>4, <4>1, ScanIntact
      <4>3. /\ Firm(fs) \in Seq(FrameT) /\ Whole(Firm(fs)) /\ (Whole(fs) => Firm(fs) = fs)
            /\ ~Whole(fs) => /\ fs[Len(fs)].events \in Seq(Event)
                             /\ Firm(fs) = SubSeq(fs, 1, Len(fs) - 1)
                             /\ Events(fs) = Events(Firm(fs)) \o fs[Len(fs)].events
        BY <1>4, <4>1, FirmIs
      <4>4. CASE Whole(fs)
        <5>1. promised <= Len(log)
          BY <1>3, <2>0, <4>1, <4>3, <4>4 DEF Covers, Holds, fs
        <5>2. Base' = Len(log) /\ state'.torn = NoTear /\ state'.recovered = <<>>
          BY <1>3, <1>4, <1>8, <4>2, <4>4 DEF Base
        <5>3. Stored'
          BY <1>1, <1>2, <1>3, <1>8, <3>2, <4>1, <4>4, <5>2 DEF Stored, Follows, fs
        <5> QED BY <5>1, <5>2, <5>3
      <4>5. CASE ~Whole(fs)
        <5>1. /\ state'.torn = Len(fs) - 1 /\ state'.torn \in Nat /\ state'.torn # NoTear
              /\ state'.recovered = fs[Len(fs)].events
          BY <1>4, <1>8, <4>2, <4>5 DEF NoTear
        <5>2. Events(Firm(fs)) \in Seq(Event)
          BY <4>3, EventsType
        <5>3. /\ log = Events(Firm(fs)) \o state'.recovered /\ state'.recovered \in Seq(Event)
          BY <4>1, <4>3, <4>5, <5>1
        <5>4. Base' = Len(Events(Firm(fs))) /\ Base' \in Nat
          BY <1>8, <5>2, <5>3 DEF Base
        <5>5. promised <= Base'
          BY <1>3, <2>0, <5>2, <5>4 DEF Covers, Holds, fs
        <5>6. Follows(state.recovered, Base)'
          <6>1. /\ Len(log) = Len(Events(Firm(fs))) + Len(state'.recovered)
                /\ \A i \in 1..Len(state'.recovered) : log[Len(Events(Firm(fs))) + i] = state'.recovered[i]
            BY <5>2, <5>3
          <6> QED BY <1>1, <5>4, <6>1 DEF Follows
        <5>7. Kept(file)'
          <6>1. /\ state'.torn <= Len(fs) /\ SubSeq(fs, 1, state'.torn) = Firm(fs)
            BY <1>4, <4>3, <4>5, <5>1
          <6>2. Whole(SubSeq(fs, 1, state'.torn)) /\ Len(Events(SubSeq(fs, 1, state'.torn))) = Base'
            BY <4>3, <5>4, <6>1
          <6> QED BY <1>1, <3>2, <6>1, <6>2 DEF Kept, fs
        <5>8. TornTail'
          BY <1>1, <1>2, <1>8, <3>2, <5>1, <5>6, <5>7 DEF TornTail, Kept
        <5> QED BY <5>5, <5>8
      <4> QED BY <4>4, <4>5
    <3> QED BY <3>1, <3>2
  <2> QED BY <1>1, <2>0, <2>1, <2>2 DEF Sane
<1>17. DrainInv' /\ SeenInv'
  <2>1. draining # "queued"
    BY <1>0, <1>2 DEF ChainInv
  <2>2. seen <= 0
    BY <1>0, <1>2 DEF SeenInv, Running, Base, HandleTypes, CloseTypes, StateTypes, HandleState
  <2>3. Base' >= 0
    BY <1>3, <1>5, <1>6, <1>8 DEF Base
  <2>4. Base' \in Int /\ seen \in Int
    BY <1>0, <1>3, <1>5, <1>8 DEF Base, HandleTypes, CloseTypes
  <2> QED BY <1>1, <1>2, <2>1, <2>2, <2>3, <2>4 DEF DrainInv, SeenInv, Running
<1>18. DiskInv'
  BY <1>1, <1>15, <1>16 DEF DiskInv
<1> QED BY <1>9, <1>10, <1>11, <1>12, <1>13, <1>14, <1>17, <1>18, TypesAre, PTL DEF IInv, HandleTypes


(* ---------------------- The turns, but for the disk --------------------- *)

\* The parts of the invariant that do not speak of the disk or the lock.
HandleInv ==
  HandleTypes /\ LogInv /\ ChainInv /\ BatchInv /\ DrainInv /\ FlushInv /\ SeenInv

Starting == TakeDrain \/ StartAppend \/ StartHeader

\* The operation whose turn has come takes its batch.
LEMMA StartingKeeps ==
  ASSUME HandleInv, Starting
  PROVE  HandleInv'
<1>0. HandleTypes /\ LogInv /\ ChainInv /\ BatchInv /\ DrainInv /\ FlushInv /\ SeenInv
  BY DEF HandleInv
<1>1. /\ at = "idle" /\ chain # <<>> /\ at' = "lease"
      /\ UNCHANGED <<log, epoch, life, unrouted, state, timer, paused, draining, chain, closing, ahead,
                     closeFailed, seen, flush, promised, crashes>>
  BY DEF Starting, TakeDrain, StartAppend, StartHeader, NextIs, Starts, sessionVars, closeVars, limitVars
<1>2. Head(chain) \in Operation /\ Owned(Head(chain))
  BY <1>0, <1>1, HeadOfChain, RunningLives
<1>3. batch = <<>> /\ Len(batch) = 0 /\ state.cursor <= Len(log)
  BY <1>0, <1>1 DEF BatchInv
<1>4. /\ log \in Seq(Event) /\ Len(log) \in Nat /\ state.cursor \in Nat /\ buffered \in Seq(Event)
      /\ Given \in Nat /\ Given' = Given
  BY <1>0, <1>1, BoundsAssumption
  DEF HandleTypes, SessionTypes, StateTypes, HandleState, BufferTypes, Given
<1>5. SessionTypes' /\ StateTypes' /\ CloseTypes' /\ FlushTypes' /\ LogInv' /\ FlushInv' /\ SeenInv'
  <2>1. SessionTypes' /\ StateTypes' /\ CloseTypes' /\ FlushTypes' /\ LogInv' /\ FlushInv'
    BY <1>0, <1>1 DEF HandleTypes, SessionTypes, StateTypes, CloseTypes, FlushTypes, LogInv, FlushInv
  <2>2. SeenInv'
    BY <1>0, <1>1 DEF SeenInv, Running, Base
  <2> QED BY <2>1, <2>2
<1>6. ChainInv'
  <2>1. \A o \in Operation : Owned(o) => Owned(o)'
    BY <1>1 DEF Owned
  <2> QED BY <1>0, <1>1, <2>1, ChainStays
<1>7. CASE TakeDrain
  <2>1. Head(chain).kind = "drain" /\ batch' = buffered /\ buffered' = <<>>
    BY <1>7 DEF TakeDrain, NextIs, Starts
  <2>2. life = "live" /\ draining = "queued"
    BY <1>2, <2>1 DEF Owned
  <2>3. Follows(buffered, Given) /\ Given + Len(buffered) = Len(log) /\ buffered # <<>>
    BY <1>0, <1>1, <1>3, <1>4, <2>2 DEF BatchInv, DrainInv, Running
  <2>4. BufferTypes' /\ ChainTypes'
    <3>1. <<>> \in Seq(Event)
      OBVIOUS
    <3> QED BY <1>0, <1>1, <1>4, <2>1, <3>1 DEF HandleTypes, BufferTypes, ChainTypes, Awaits
  <2>5. BatchInv' /\ DrainInv'
    <3>1. Follows(batch, Given)'
      BY <1>1, <1>4, <2>1, <2>3 DEF Follows
    <3>2. /\ Follows(buffered, Given + Len(batch))'
          /\ Given' + Len(batch') + Len(buffered') = Len(log)
      BY <1>1, <1>4, <2>1, <2>3 DEF Follows
    <3> QED BY <1>0, <1>1, <1>3, <2>1, <2>2, <2>3, <3>1, <3>2 DEF BatchInv, DrainInv, Running
  <2> QED BY <1>5, <1>6, <2>4, <2>5, PTL DEF HandleInv, HandleTypes
<1>8. CASE StartAppend
  <2>1. /\ Head(chain).kind = "append" /\ buffered' = buffered
        /\ batch' = SubSeq(log, state.cursor + 1, Head(chain).upTo)
    BY <1>8 DEF StartAppend, NextIs, Starts
  <2> DEFINE n == Head(chain).upTo
  <2>2. life = "setup" /\ n \in 0..Len(log) /\ state.cursor \in 0..n
    BY <1>2, <1>4, <2>1 DEF Owned, Operation
  <2>2a. unrouted = 0 /\ Given = state.cursor
    BY <1>0, <1>4, <2>2 DEF BatchInv, Given
  <2>3. /\ batch' \in Seq(Event) /\ Len(batch') = n - state.cursor
        /\ \A i \in 1..Len(batch') : batch'[i] = log[state.cursor + i]
    <3> DEFINE r == SubSeq(log, state.cursor + 1, n)
    <3>1. r \in Seq(Event) /\ Len(r) = n - state.cursor /\ \A i \in 1..(n - state.cursor) : r[i] = log[state.cursor + i]
      <4>1. state.cursor + 1 \in 1..(Len(log) + 1) /\ n \in (state.cursor)..Len(log)
        BY <1>4, <2>2
      <4> HIDE DEF n
      <4> QED BY <1>4, <2>2, <4>1
    <3>2. batch' = r
      BY <2>1
    <3> HIDE DEF r, n
    <3> QED BY <3>1, <3>2
  <2>4. BufferTypes' /\ ChainTypes'
    BY <1>0, <1>1, <2>1, <2>3 DEF HandleTypes, BufferTypes, ChainTypes, Awaits
  <2>5. BatchInv' /\ DrainInv'
    <3>0. n \in Nat
      BY <2>2
    <3> HIDE DEF n
    <3>1. Follows(batch, Given)' /\ state.cursor + Len(batch') = n
      <4>1. Given' = state.cursor /\ log' = log /\ state.cursor \in Nat /\ Len(log) \in Nat
        BY <1>1, <1>3, <1>4, <2>2a
      <4>2. state.cursor + Len(batch') = n
        BY <2>3, <4>1, <3>0
      <4> QED BY <2>2, <2>3, <4>1, <4>2 DEF Follows
    <3>2. Head(chain').upTo = n /\ Head(chain').kind = "append"
      BY <1>1, <2>1 DEF n
    <3> QED BY <1>0, <1>1, <1>3, <2>1, <2>2, <3>1, <3>2 DEF BatchInv, DrainInv, Running
  <2> QED BY <1>5, <1>6, <2>4, <2>5, PTL DEF HandleInv, HandleTypes
<1>9. CASE StartHeader
  <2>1. Head(chain).kind = "header" /\ buffered' = buffered /\ batch' = <<>>
    BY <1>9 DEF StartHeader, NextIs, Starts
  <2>2. BufferTypes' /\ ChainTypes'
    <3>1. <<>> \in Seq(Event)
      OBVIOUS
    <3> QED BY <1>0, <1>1, <2>1, <3>1 DEF HandleTypes, BufferTypes, ChainTypes, Awaits
  <2>3. BatchInv' /\ DrainInv'
    <3>1. Follows(batch, Given)'
      <4>1. Given <= Len(log)
        <5>1. CASE life = "live"
          BY <1>0, <1>3, <1>4, <5>1 DEF BatchInv
        <5>2. CASE life # "live"
          BY <1>0, <1>3, <1>4, <5>2 DEF BatchInv, Given
        <5> QED BY <5>1, <5>2
      <4> QED BY <1>1, <1>3, <1>4, <2>1, <4>1 DEF Follows
    <3>2. Follows(buffered, Given + Len(batch))' <=> Follows(buffered, Given + Len(batch))
      BY <1>1, <1>3, <1>4, <2>1 DEF Follows
    <3> QED BY <1>0, <1>1, <1>3, <1>4, <2>1, <3>1, <3>2 DEF BatchInv, DrainInv, Running
  <2> QED BY <1>5, <1>6, <2>2, <2>3, PTL DEF HandleInv, HandleTypes
<1> QED BY <1>7, <1>8, <1>9 DEF Starting

\* The running operation goes on; beyond the lock, nothing that was never routed
\* lies between the cursor and its batch.
LEMMA GoingKeeps ==
  ASSUME HandleInv, FileInv, Going
  PROVE  HandleInv' /\ state'.cursor = state.cursor
<1>0. HandleTypes /\ LogInv /\ ChainInv /\ BatchInv /\ DrainInv /\ FlushInv /\ SeenInv
  BY DEF HandleInv
<1>1. /\ at # "idle" /\ at' # "idle" /\ at' \in Awaits
      /\ UNCHANGED <<log, epoch, life, unrouted, buffered, timer, paused, draining, chain, batch, closing, ahead,
                     closeFailed, seen, flush, promised, crashes>>
  BY DEF Going, bufferVars, closeVars, Awaits
<1>2. /\ state' \in HandleState /\ state'.cursor = state.cursor
      /\ state'.recovered \in {state.recovered, <<>>}
  <2>1. state \in HandleState /\ <<>> \in Seq(Event)
    BY <1>0 DEF HandleTypes, StateTypes
  <2>2. LET s == [state EXCEPT !.torn = NoTear] IN
        s \in HandleState /\ s.cursor = state.cursor /\ s.recovered = state.recovered
    BY <2>1 DEF HandleState
  <2>3. LET s == [state EXCEPT !.recovered = <<>>] IN
        s \in HandleState /\ s.cursor = state.cursor /\ s.recovered = <<>>
    BY <2>1 DEF HandleState
  <2> QED BY <2>1, <2>2, <2>3 DEF Going
<1>3. /\ SessionTypes' /\ StateTypes' /\ BufferTypes' /\ ChainTypes' /\ CloseTypes' /\ FlushTypes'
      /\ LogInv' /\ FlushInv'
  <2>1. SessionTypes' /\ StateTypes' /\ BufferTypes'
    BY <1>0, <1>1, <1>2 DEF HandleTypes, SessionTypes, StateTypes, BufferTypes
  <2>2. ChainTypes' /\ CloseTypes' /\ FlushTypes'
    BY <1>0, <1>1 DEF HandleTypes, ChainTypes, CloseTypes, FlushTypes
  <2>3. LogInv' /\ FlushInv'
    BY <1>0, <1>1, <1>2 DEF LogInv, FlushInv
  <2> QED BY <2>1, <2>2, <2>3
<1>4. ChainInv'
  <2>1. \A o \in Operation : Owned(o) => Owned(o)'
    BY <1>1, <1>2 DEF Owned
  <2> QED BY <1>0, <1>1, <2>1, ChainStays
<1>5. BatchInv' /\ DrainInv'
  <2>1. /\ Follows(batch, Given)' = Follows(batch, Given) /\ Given' = Given
        /\ Follows(buffered, Given + Len(batch))' = Follows(buffered, Given + Len(batch))
    BY <1>1, <1>2 DEF Follows, Given
  <2>2. unrouted = 0 \/ batch = <<>>
    <3>1. CASE at # "lease"
      BY <1>0, <1>1, <3>1 DEF BatchInv
    <3>2. CASE at = "lease" /\ batch # <<>>
      <4>1. Continues(batch, state.cursor) /\ Follows(batch, Given)
        BY <1>0, <1>1, <3>2 DEF Going, BatchInv
      <4>2. /\ batch \in Seq(Event) /\ log \in Seq(Event) /\ state.cursor \in Nat /\ unrouted \in Nat
            /\ Len(log) \in Nat
        BY <1>0, BoundsAssumption DEF HandleTypes, ChainTypes, SessionTypes, StateTypes, HandleState
      <4>3. Len(batch) > 0 /\ 1 \in 1..Len(batch) /\ 1 \in DOMAIN batch
        BY <3>2, <4>2
      <4>4. batch[1].seq = state.cursor + 1 /\ batch[1] = log[Given + 1] /\ Given + 1 \in 1..Len(log)
        BY <4>1, <4>2, <4>3 DEF Continues, Follows, Given
      <4>5. log[Given + 1].seq = Given + 1
        BY <1>0, <4>4 DEF LogInv
      <4> QED BY <4>2, <4>4, <4>5 DEF Given
    <3> QED BY <3>1, <3>2
  <2> QED BY <1>0, <1>1, <1>2, <2>1, <2>2 DEF BatchInv, DrainInv, Running
<1>6. SeenInv'
  <2>1. Given' = Given /\ Running("drain")' = Running("drain")
    BY <1>1, <1>2 DEF Given, Running
  <2>2. Base' >= Base /\ Base \in Int /\ Base' \in Int
    <3>1. Base \in Nat /\ Base <= state.cursor /\ state.cursor \in Nat
      BY <1>0, BaseType
    <3>2. Base' \in {Base, state.cursor}
      BY <1>2, <3>1 DEF Base
    <3> QED BY <3>1, <3>2
  <2>3. seen \in Nat
    BY <1>0 DEF HandleTypes, CloseTypes
  <2> QED BY <1>0, <1>1, <2>1, <2>2, <2>3 DEF SeenInv
<1> QED BY <1>2, <1>3, <1>4, <1>5, <1>6, PTL DEF HandleInv, HandleTypes


\* The head of the chain ends: the other operations are still owned.
LEMMA ChainLeaves ==
  ASSUME HandleTypes, ChainInv, chain # <<>>, chain' = Tail(chain), life' # "down",
         \A o \in Operation :
           Owned(o) /\ ~(o.kind = Head(chain).kind /\ o.who = Head(chain).who) => Owned(o)',
         draining' = "queued" => draining = "queued" /\ Head(chain).kind # "drain"
  PROVE  ChainInv'
<1>1. /\ Head(chain) = chain[1] /\ Len(chain) \in Nat /\ Len(chain) > 0
      /\ Len(chain') = Len(chain) - 1
      /\ \A i \in 1..(Len(chain) - 1) : chain'[i] = chain[i + 1]
  BY HeadOfChain DEF HandleTypes, ChainTypes
<1>2. \A i \in 1..Len(chain) : chain[i] \in Operation /\ Owned(chain[i])
  BY DEF ChainInv, HandleTypes, ChainTypes
<1>3. \A i, j \in 1..Len(chain) : chain[i].kind = chain[j].kind /\ chain[i].who = chain[j].who => i = j
  BY DEF ChainInv
<1>4. ASSUME NEW i \in 1..Len(chain') PROVE Owned(chain[i])'
  <2>1. i + 1 \in 1..Len(chain) /\ 1 \in 1..Len(chain) /\ i + 1 # 1 /\ chain'[i] = chain[i + 1]
    BY <1>1
  <2>2. ~(chain[i + 1].kind = Head(chain).kind /\ chain[i + 1].who = Head(chain).who)
    BY <1>1, <1>3, <2>1
  <2>3. PICK o \in Operation : o = chain[i + 1]
    BY <1>2, <2>1
  <2>4. Owned(o)'
    BY <1>2, <2>1, <2>2, <2>3
  <2> QED BY <2>1, <2>3, <2>4
<1>5. \A i, j \in 1..Len(chain') :
        chain'[i].kind = chain'[j].kind /\ chain'[i].who = chain'[j].who => i = j
  <2> SUFFICES ASSUME NEW i \in 1..Len(chain'), NEW j \in 1..Len(chain'),
                      chain'[i].kind = chain'[j].kind, chain'[i].who = chain'[j].who
               PROVE  i = j
    OBVIOUS
  <2>1. i + 1 \in 1..Len(chain) /\ j + 1 \in 1..Len(chain) /\ chain'[i] = chain[i + 1] /\ chain'[j] = chain[j + 1]
    BY <1>1
  <2>2. i + 1 = j + 1
    BY <1>3, <2>1
  <2> QED BY <1>1, <2>2
<1>6. draining' = "queued" => \E i \in 1..Len(chain') : chain'[i].kind = "drain"
  <2> SUFFICES ASSUME draining' = "queued" PROVE \E i \in 1..Len(chain') : chain'[i].kind = "drain"
    OBVIOUS
  <2>1. PICK i \in 1..Len(chain) : chain[i].kind = "drain"
    BY DEF ChainInv
  <2>2. i # 1
    BY <1>1, <2>1
  <2>3. i - 1 \in 1..Len(chain') /\ chain'[i - 1] = chain[(i - 1) + 1] /\ (i - 1) + 1 = i
    BY <1>1, <2>2
  <2> QED BY <2>1, <2>3
<1> QED BY <1>4, <1>5, <1>6 DEF ChainInv

\* The head of the chain goes behind the others.
LEMMA ChainRotates ==
  ASSUME HandleTypes, ChainInv, chain # <<>>, chain' = Append(Tail(chain), Head(chain)),
         life' # "down", UNCHANGED draining, \A o \in Operation : Owned(o) => Owned(o)'
  PROVE  ChainInv' /\ chain' \in Seq(Operation) /\ chain' # <<>>
<1> DEFINE n == Len(chain)
<1> DEFINE from(i) == IF i = n THEN 1 ELSE i + 1
<1>1. /\ Head(chain) = chain[1] /\ n \in Nat /\ n > 0 /\ Len(chain') = n
      /\ \A i \in 1..(n - 1) : chain'[i] = chain[i + 1]
      /\ chain'[n] = chain[1] /\ chain' \in Seq(Operation)
  BY HeadOfChain DEF HandleTypes, ChainTypes
<1> HIDE DEF n
<1>2. \A i \in 1..n : chain[i] \in Operation /\ Owned(chain[i])
  BY DEF ChainInv, HandleTypes, ChainTypes, n
<1>3. \A i, j \in 1..n : chain[i].kind = chain[j].kind /\ chain[i].who = chain[j].who => i = j
  BY DEF ChainInv, n
<1>4. \A i \in 1..n : from(i) \in 1..n /\ chain'[i] = chain[from(i)]
  BY <1>1
<1>5. \A i, j \in 1..n : from(i) = from(j) => i = j
  BY <1>1
<1> HIDE DEF from
<1>6. ASSUME NEW i \in 1..n PROVE Owned(chain[i])'
  <2>1. PICK o \in Operation : o = chain[from(i)] /\ Owned(o)
    BY <1>2, <1>4
  <2> QED BY <1>4, <2>1
<1>7. \A i, j \in 1..n : chain'[i].kind = chain'[j].kind /\ chain'[i].who = chain'[j].who => i = j
  <2> SUFFICES ASSUME NEW i \in 1..n, NEW j \in 1..n,
                      chain'[i].kind = chain'[j].kind, chain'[i].who = chain'[j].who
               PROVE  i = j
    OBVIOUS
  <2>1. from(i) \in 1..n /\ from(j) \in 1..n /\ chain'[i] = chain[from(i)] /\ chain'[j] = chain[from(j)]
    BY <1>4
  <2>2. from(i) = from(j)
    BY <1>3, <2>1
  <2> QED BY <1>5, <2>2
<1>8. draining' = "queued" => \E i \in 1..n : chain'[i].kind = "drain"
  <2> SUFFICES ASSUME draining = "queued" PROVE \E i \in 1..n : chain'[i].kind = "drain"
    OBVIOUS
  <2>1. PICK i \in 1..n : chain[i].kind = "drain"
    BY DEF ChainInv, n
  <2>2. CASE i = 1
    BY <1>1, <2>1, <2>2
  <2>3. CASE i # 1
    <3>1. i - 1 \in 1..(n - 1) /\ (i - 1) + 1 = i /\ i - 1 \in 1..n
      BY <1>1, <2>3
    <3> QED BY <1>1, <2>1, <3>1
  <2> QED BY <2>2, <2>3
<1> QED BY <1>1, <1>6, <1>7, <1>8 DEF ChainInv

\* A flush that resolves.
LEMMA FlushedIs ==
  ASSUME HandleTypes, NEW f \in Flushers, Flushed(f)
  PROVE  /\ FlushTypes'
         /\ flush'[f] = [at |-> "done", asked |-> flush[f].asked,
                         excuse |-> IF state.recovered # <<>> THEN "tail" ELSE flush[f].excuse]
         /\ \A g \in Flushers : g # f => flush'[g] = flush[g]
<1> DEFINE why == IF state.recovered # <<>> THEN "tail" ELSE flush[f].excuse
<1>0. flush' = [flush EXCEPT ![f].at = "done",
                             ![f].excuse = IF state.recovered # <<>> THEN "tail" ELSE @]
  BY DEF Flushed
<1>1. flush \in [Flushers -> FlushState] /\ flush[f] \in FlushState
  BY DEF HandleTypes, FlushTypes
<1> DEFINE new == [at |-> "done", asked |-> flush[f].asked, excuse |-> why]
<1>2. new \in FlushState
  BY <1>1 DEF FlushState
<1>3. flush' = [flush EXCEPT ![f] = new]
  <2>1. flush' = [flush EXCEPT ![f] = [[flush[f] EXCEPT !.at = "done"] EXCEPT !.excuse = why]]
    BY <1>0, <1>1
  <2>2. [[flush[f] EXCEPT !.at = "done"] EXCEPT !.excuse = why] = new
    <3>0. \A o \in FlushState :
            [o EXCEPT !.at = "done"] = [at |-> "done", asked |-> o.asked, excuse |-> o.excuse]
      BY DEF FlushState
    <3>1. [flush[f] EXCEPT !.at = "done"] = [at |-> "done", asked |-> flush[f].asked, excuse |-> flush[f].excuse]
      BY <1>1, <3>0
    <3> HIDE DEF why
    <3>2. [[at |-> "done", asked |-> flush[f].asked, excuse |-> flush[f].excuse] EXCEPT !.excuse = why]
            = [at |-> "done", asked |-> flush[f].asked, excuse |-> why]
      OBVIOUS
    <3> QED BY <3>1, <3>2
  <2> QED BY <2>1, <2>2
<1> HIDE DEF new
<1>4. /\ flush' \in [Flushers -> FlushState] /\ flush'[f] = new
      /\ \A g \in Flushers : g # f => flush'[g] = flush[g]
  BY <1>1, <1>2, <1>3
<1> QED BY <1>4 DEF FlushTypes, new

\* A flush that finds the log made answers for what it covers.
LEMMA HeaderHeldKeeps ==
  ASSUME HandleInv, FileInv, HeaderHeld
  PROVE  /\ HandleInv' /\ Base' = Base /\ (promised <= Base => promised' <= Base)
         /\ at = "idle" /\ at' = "idle"
<1>0. HandleTypes /\ LogInv /\ ChainInv /\ BatchInv /\ DrainInv /\ FlushInv /\ SeenInv
  BY DEF HandleInv
<1> DEFINE f == Head(chain).who
<1> DEFINE why == IF state.recovered # <<>> THEN "tail" ELSE flush[f].excuse
<1>1. /\ at = "idle" /\ chain # <<>> /\ Head(chain).kind = "header"
      /\ Leaves(Tail(chain)) /\ promised' = Max({promised, Base}) /\ Flushed(f)
      /\ UNCHANGED <<log, epoch, life, unrouted, state, buffered, paused, draining, seen, crashes>>
  BY DEF HeaderHeld, NextIs, Flushed
<1>2. /\ Head(chain) \in Operation /\ Owned(Head(chain)) /\ life # "down"
      /\ Tail(chain) \in Seq(Operation)
  BY <1>0, <1>1, HeadOfChain, RunningLives
<1>3. f \in Flushers /\ flush[f].at = "barrier"
  BY <1>1, <1>2 DEF Owned
<1>4. ChainTypes' /\ CloseTypes' /\ BufferTypes'
  BY <1>0, <1>1, <1>2, LeavesTypes DEF HandleTypes, BufferTypes
<1>5. SessionTypes' /\ StateTypes'
  BY <1>0, <1>1, <1>2, PromiseTypes DEF HandleTypes, SessionTypes, StateTypes
<1>6. /\ FlushTypes' /\ flush'[f] = [at |-> "done", asked |-> flush[f].asked, excuse |-> why]
      /\ \A g \in Flushers : g # f => flush'[g] = flush[g]
  BY <1>0, <1>1, <1>3, FlushedIs
<1>7. LogInv'
  BY <1>0, <1>1 DEF LogInv
<1>8. /\ Base' = Base /\ Base \in Nat /\ promised \in Int /\ state.cursor \in Nat
      /\ state.recovered = <<>> => Base = state.cursor
  <2>1. Base \in Nat /\ state.cursor \in Nat
    BY <1>0, BaseType
  <2> QED BY <1>0, <1>1, <2>1 DEF Base, HandleTypes, SessionTypes
<1>9. promised' = IF promised >= Base THEN promised ELSE Base
  BY <1>1, <1>8, MaxOfTwo
<1>10. FlushInv'
  <2> SUFFICES ASSUME NEW g \in Flushers
               PROVE  /\ flush'[g].asked <= Len(log) /\ (flush'[g].at = "drain" => draining # "none")
                      /\ flush'[g].excuse = "none" =>
                           /\ flush'[g].at = "drain" /\ draining = "spent" => flush'[g].asked <= state.cursor
                           /\ flush'[g].at \in {"drained", "barrier"} => flush'[g].asked <= state.cursor
                           /\ flush'[g].at = "done" => flush'[g].asked <= promised'
    BY <1>1, <1>2 DEF FlushInv
  <2>1. /\ flush[g].asked <= Len(log) /\ (flush[g].at = "drain" => draining # "none")
        /\ flush[g].excuse = "none" =>
             /\ flush[g].at = "drain" /\ draining = "spent" => flush[g].asked <= state.cursor
             /\ flush[g].at \in {"drained", "barrier"} => flush[g].asked <= state.cursor
             /\ flush[g].at = "done" => flush[g].asked <= promised
    BY <1>0 DEF FlushInv
  <2>2. flush[g].asked \in Nat
    BY <1>0, BoundsAssumption DEF HandleTypes, FlushTypes, FlushState
  <2>3. CASE g # f
    BY <1>6, <1>8, <1>9, <2>1, <2>2, <2>3
  <2>4. CASE g = f
    <3>1. flush'[g].at = "done" /\ flush'[g].asked = flush[g].asked /\ flush'[g].excuse = why
      BY <1>6, <2>4
    <3>2. why = "none" => Base = state.cursor /\ flush[g].asked <= state.cursor
      BY <1>3, <1>8, <2>1, <2>4
    <3> QED BY <1>8, <1>9, <2>1, <2>2, <3>1, <3>2
  <2> QED BY <2>3, <2>4
<1>11. ChainInv'
  <2>1. \A o \in Operation : Owned(o) /\ ~(o.kind = "header" /\ o.who = f) => Owned(o)'
    BY <1>1, <1>6 DEF Owned
  <2>2. chain' = Tail(chain)
    BY <1>1 DEF Leaves
  <2> QED BY <1>0, <1>1, <1>2, <2>1, <2>2, ChainLeaves DEF f
<1>12. BatchInv' /\ DrainInv'
  <2>1. batch' = <<>> /\ batch = <<>> /\ at' = "idle" /\ Given' = Given
    BY <1>0, <1>1 DEF BatchInv, Leaves, Given
  <2>2. Follows(buffered, Given + Len(batch))' <=> Follows(buffered, Given + Len(batch))
    BY <1>1, <2>1 DEF Follows
  <2> QED BY <1>0, <1>1, <2>1, <2>2 DEF BatchInv, DrainInv, Running
<1>13. SeenInv'
  BY <1>0, <1>1, <1>8 DEF SeenInv, Running
<1>14. at' = "idle"
  BY <1>1 DEF Leaves
<1>15. promised <= Base => promised' <= Base
  BY <1>8, <1>9
<1> HIDE DEF f, why
<1> QED BY <1>1, <1>4, <1>5, <1>6, <1>7, <1>8, <1>10, <1>11, <1>12, <1>13, <1>14, <1>15, PTL
        DEF HandleInv, HandleTypes


\* An operation that fails gives a drained batch back, and fails the set-up or
\* the flush that asked for it.
LEMMA FailingKeeps ==
  ASSUME HandleInv, FileInv, Failing
  PROVE  HandleInv' /\ at' = "idle" /\ batch' = <<>> /\ life # "down" /\ life' # "down"
         /\ before' = Absent /\ UNCHANGED <<promised, state>>
<1>0. HandleTypes /\ LogInv /\ ChainInv /\ BatchInv /\ DrainInv /\ FlushInv /\ SeenInv
  BY DEF HandleInv
<1> DEFINE op == Head(chain)
<1>1. /\ chain # <<>> /\ Leaves(Tail(chain))
      /\ UNCHANGED <<log, epoch, unrouted, state, crashes, promised>>
      /\ IF op.kind = "drain"
         THEN buffered' = batch \o buffered /\ paused' = TRUE /\ draining' = "failed" /\ seen' = 0
         ELSE UNCHANGED <<buffered, paused, draining, seen>>
      /\ life' = IF op.kind = "append" THEN "failed" ELSE life
      /\ flush' = IF op.kind = "header" THEN [flush EXCEPT ![op.who] = NotFlushing] ELSE flush
  BY DEF Failing, OpFails
<1>2. op \in Operation /\ Owned(op) /\ life # "down" /\ Tail(chain) \in Seq(Operation)
  BY <1>0, <1>1, HeadOfChain, RunningLives
<1> HIDE DEF op
<1>3. /\ log \in Seq(Event) /\ Len(log) \in Nat /\ Given \in Nat /\ Given' = Given
      /\ buffered \in Seq(Event) /\ batch \in Seq(Event) /\ seen \in Nat
  BY <1>0, <1>1, BoundsAssumption
  DEF HandleTypes, SessionTypes, StateTypes, HandleState, BufferTypes, ChainTypes, CloseTypes, Given
<1>4. ChainTypes' /\ CloseTypes' /\ timer' \in BOOLEAN
  BY <1>0, <1>1, <1>2, LeavesTypes
<1>5. at' = "idle" /\ batch' = <<>> /\ chain' = Tail(chain) /\ before' = Absent
  BY <1>1 DEF Leaves
<1>5a. life' # "down"
  BY <1>1, <1>2
<1>6. SessionTypes' /\ StateTypes' /\ LogInv'
  <2>1. life' \in {"setup", "live", "failed", "down"}
    BY <1>0, <1>1, <1>2 DEF HandleTypes, SessionTypes
  <2> QED BY <1>0, <1>1, <1>2, <1>5a, <2>1 DEF HandleTypes, SessionTypes, StateTypes, LogInv
<1>7. BufferTypes'
  <2>1. batch \o buffered \in Seq(Event)
    BY <1>3
  <2> QED BY <1>0, <1>1, <1>4, <2>1 DEF HandleTypes, BufferTypes
<1>7a. Base' = Base /\ Base \in Nat
  BY <1>0, <1>1, BaseType DEF Base
<1>8. CASE op.kind = "drain"
  <2>1. life = "live" /\ draining = "queued" /\ op.who = "drain"
    BY <1>2, <1>8 DEF Owned
  <2>2. /\ buffered' = batch \o buffered /\ draining' = "failed" /\ life' = life /\ flush' = flush
        /\ seen' = 0
    BY <1>1, <1>8
  <2>3. FlushTypes' /\ FlushInv'
    BY <1>0, <1>1, <2>1, <2>2 DEF HandleTypes, FlushTypes, FlushInv
  <2>4. ChainInv'
    <3>1. \A o \in Operation : Owned(o) /\ ~(o.kind = op.kind /\ o.who = op.who) => Owned(o)'
      BY <1>1, <1>8, <2>1, <2>2 DEF Owned
    <3> QED BY <1>0, <1>1, <1>2, <1>5, <2>2, <3>1, ChainLeaves DEF op
  <2>5. BatchInv'
    <3>1. /\ Follows(batch, Given) \/ batch = <<>>
          /\ Follows(buffered, Given + Len(batch))
          /\ Given + Len(batch) + Len(buffered) = Len(log)
      BY <1>0, <2>1 DEF BatchInv
    <3>2. Len(buffered') = Len(batch) + Len(buffered)
      BY <1>3, <2>2
    <3>3. ASSUME NEW i \in 1..Len(buffered') PROVE buffered'[i] = log[Given + i]
      <4>1. CASE i <= Len(batch)
        BY <1>3, <2>2, <3>1, <3>2, <4>1 DEF Follows
      <4>2. CASE ~(i <= Len(batch))
        <5>1. i - Len(batch) \in 1..Len(buffered) /\ buffered'[i] = buffered[i - Len(batch)]
          BY <1>3, <2>2, <3>2, <4>2
        <5>2. buffered[i - Len(batch)] = log[(Given + Len(batch)) + (i - Len(batch))]
          BY <3>1, <5>1 DEF Follows
        <5>3. (Given + Len(batch)) + (i - Len(batch)) = Given + i
          BY <1>3
        <5> QED BY <5>1, <5>2, <5>3
      <4> QED BY <4>1, <4>2
    <3>4. Given' + Len(batch') = Given /\ Given' + Len(batch') + Len(buffered') = Len(log)
      BY <1>3, <1>5, <3>1, <3>2
    <3>5. Follows(buffered, Given + Len(batch))'
      BY <1>1, <1>3, <3>1, <3>2, <3>3, <3>4 DEF Follows
    <3> QED BY <1>0, <1>1, <1>5, <2>1, <2>2, <3>4, <3>5 DEF BatchInv, Running
  <2>6. DrainInv' /\ SeenInv'
    BY <1>5, <1>7a, <2>2 DEF DrainInv, SeenInv, Running
  <2>7. HandleInv'
    BY <1>4, <1>6, <1>7, <2>3, <2>4, <2>5, <2>6, PTL DEF HandleInv, HandleTypes
  <2> QED BY <1>1, <1>2, <1>5, <1>5a, <2>7
<1>9. CASE op.kind # "drain"
  <2>1. UNCHANGED <<buffered, draining, seen>>
    BY <1>1, <1>9
  <2>2. /\ flush' \in [Flushers -> FlushState]
        /\ \A g \in Flushers : g # op.who \/ op.kind # "header" => flush'[g] = flush[g]
        /\ \A g \in Flushers : g = op.who /\ op.kind = "header" => flush'[g] = NotFlushing
    <3>1. flush \in [Flushers -> FlushState] /\ NotFlushing \in FlushState
      BY <1>0, BoundsAssumption DEF HandleTypes, FlushTypes, FlushState, NotFlushing
    <3>2. CASE op.kind = "header"
      <4>1. flush' = [flush EXCEPT ![op.who] = NotFlushing]
        BY <1>1, <3>2
      <4> QED BY <3>1, <3>2, <4>1
    <3>3. CASE op.kind # "header"
      BY <1>1, <3>1, <3>3
    <3> QED BY <3>2, <3>3
  <2>3. FlushTypes' /\ FlushInv'
    <3>1. ASSUME NEW g \in Flushers PROVE flush'[g] = flush[g] \/ flush'[g] = NotFlushing
      BY <2>2
    <3>2. NotFlushing.at = "idle" /\ NotFlushing.asked = 0 /\ 0 <= Len(log)
      BY <1>3 DEF NotFlushing
    <3> QED BY <1>0, <1>1, <2>1, <2>2, <3>1, <3>2, <1>5a, <1>2 DEF FlushTypes, FlushInv
  <2>4. ChainInv'
    <3>1. \A o \in Operation : Owned(o) /\ ~(o.kind = op.kind /\ o.who = op.who) => Owned(o)'
      BY <1>1, <1>2, <1>9, <2>1, <2>2 DEF Owned
    <3> QED BY <1>0, <1>1, <1>2, <1>5, <1>5a, <1>9, <2>1, <3>1, ChainLeaves DEF op
  <2>5. BatchInv'
    <3>1. life' = "live" => life = "live" /\ batch = <<>>
      <4>1. CASE op.kind = "append"
        BY <1>1, <4>1
      <4>2. CASE op.kind = "header"
        BY <1>0, <1>1, <4>2 DEF BatchInv, Running, op
      <4> QED BY <1>2, <1>9, <4>1, <4>2 DEF Operation
    <3>2. Follows(buffered, Given + Len(batch))' <=> Follows(buffered, Given + Len(batch'))
      BY <1>1, <1>3, <2>1 DEF Follows
    <3>3. life' # "live" => buffered = <<>> /\ unrouted = 0
      BY <1>0, <1>1, <1>2 DEF BatchInv, Owned
    <3> QED BY <1>0, <1>1, <1>3, <1>5, <2>1, <3>1, <3>2, <3>3 DEF BatchInv, Running
  <2>6. DrainInv' /\ SeenInv'
    <3>1. ~Running("drain")
      BY <1>9 DEF Running, op
    <3> QED BY <1>0, <1>5, <1>7a, <2>1, <3>1 DEF DrainInv, SeenInv, Running
  <2>7. HandleInv'
    BY <1>4, <1>6, <1>7, <2>3, <2>4, <2>5, <2>6, PTL DEF HandleInv, HandleTypes
  <2> QED BY <1>1, <1>2, <1>5, <1>5a, <2>7
<1> QED BY <1>8, <1>9


\* An operation that succeeds has stored its batch; what it answers for is below
\* the cursor.
LEMMA SucceedingKeeps ==
  ASSUME HandleInv, FileInv, Succeeding
  PROVE  /\ HandleInv' /\ (promised <= Base => promised' <= Base') /\ at' = "idle" /\ batch' = <<>>
         /\ life # "down" /\ life' # "down" /\ before' = Absent
         /\ Base' = Base + Len(batch)
         /\ state' = [state EXCEPT !.cursor = @ + Len(batch), !.materialized = TRUE]
         /\ state'.cursor = state.cursor + Len(batch) /\ state'.materialized
         /\ state'.torn = state.torn /\ state'.recovered = <<>> /\ state' \in HandleState
<1>0. /\ HandleTypes /\ LogInv /\ ChainInv /\ BatchInv /\ DrainInv /\ FlushInv /\ SeenInv
      /\ state.recovered = <<>>
  BY DEF HandleInv, Succeeding
<1> DEFINE op == Head(chain)
<1>1. /\ at \notin {"idle", "lease"} /\ chain # <<>> /\ UNCHANGED <<log, epoch, crashes>>
      /\ state' = [state EXCEPT !.cursor = @ + Len(batch), !.materialized = TRUE]
      /\ op.kind = "drain" => DrainSucceeds
      /\ op.kind = "append" => AppendSucceeds
      /\ op.kind = "header" => Flushed(op.who)
  BY <1>0 DEF Succeeding, OpSucceeds, HandleTypes, ChainTypes
<1>2. op \in Operation /\ Owned(op) /\ life # "down" /\ Tail(chain) \in Seq(Operation)
  BY <1>0, <1>1, HeadOfChain, RunningLives
<1>3. /\ log \in Seq(Event) /\ Len(log) \in 0..MaxEvents /\ state.cursor \in Nat
      /\ buffered \in Seq(Event) /\ batch \in Seq(Event) /\ Len(batch) \in Nat
      /\ promised \in -1..MaxEvents
      /\ Given = state.cursor + unrouted /\ unrouted \in Nat
      /\ Given + Len(batch) <= Len(log) /\ seen \in Nat
  <2>1. /\ log \in Seq(Event) /\ Len(log) \in 0..MaxEvents /\ state.cursor \in Nat
        /\ promised \in -1..MaxEvents /\ unrouted \in Nat
    BY <1>0, BoundsAssumption DEF HandleTypes, SessionTypes, StateTypes, HandleState
  <2>2. buffered \in Seq(Event) /\ batch \in Seq(Event) /\ seen \in Nat
    BY <1>0, BoundsAssumption DEF HandleTypes, BufferTypes, ChainTypes, CloseTypes
  <2>3. Follows(batch, Given)
    BY <1>0, <1>1 DEF BatchInv
  <2> QED BY <2>1, <2>2, <2>3 DEF Follows, Given
<1>3a. Base = state.cursor
  <2>1. Len(state.recovered) = 0
    BY <1>0
  <2> QED BY <1>3, <2>1 DEF Base
<1>4. /\ state'.cursor = state.cursor + Len(batch) /\ state'.materialized
      /\ state'.torn = state.torn /\ state'.recovered = <<>> /\ StateTypes'
      /\ state' \in HandleState
  <2>1. state \in HandleState
    BY <1>0 DEF HandleTypes, StateTypes
  <2>2. /\ state'.cursor = state.cursor + Len(batch) /\ state'.materialized
        /\ state'.torn = state.torn /\ state'.recovered = <<>> /\ state' \in HandleState
    <3>1. state' = [cursor |-> state.cursor + Len(batch), materialized |-> TRUE,
                    torn |-> state.torn, recovered |-> state.recovered]
      BY <1>1, <2>1 DEF HandleState
    <3>2. state.torn \in {NoTear} \cup Nat /\ state.recovered \in Seq(Event)
      BY <2>1 DEF HandleState
    <3>3. state.cursor + Len(batch) \in Nat
      BY <1>3
    <3> QED BY <1>0, <3>1, <3>2, <3>3 DEF HandleState
  <2>3. state.cursor + Len(batch) <= MaxEvents
    BY <1>3, BoundsAssumption
  <2> QED BY <2>2, <2>3 DEF StateTypes
<1>4a. Base' = state'.cursor /\ Base' = Base + Len(batch)
  <2>1. Len(state'.recovered) = 0 /\ state'.cursor \in Int
    BY <1>3, <1>4
  <2>2. Base' = state'.cursor
    BY <2>1 DEF Base
  <2> QED BY <1>3, <1>3a, <1>4, <2>2
<1> HIDE DEF op
<1>5. ASSUME Leaves(Tail(chain)), promised' \in -1..MaxEvents, promised <= state.cursor => promised' <= state'.cursor,
             FlushTypes', UNCHANGED <<buffered, paused, seen>>,
             draining' \in {"none", "queued", "spent", "failed"},
             draining' = "queued" => draining = "queued" /\ op.kind # "drain",
             life' \in {"setup", "live", "failed"}, FlushInv',
             \A o \in Operation : Owned(o) /\ ~(o.kind = op.kind /\ o.who = op.who) => Owned(o)',
             unrouted' \in 0..MaxEvents,
             life' = "live" => /\ state'.cursor + unrouted' + Len(buffered) = Len(log)
                               /\ \A i \in 1..Len(buffered) : buffered[i] = log[state'.cursor + unrouted' + i],
             life' # "live" => buffered = <<>> /\ unrouted' = 0,
             seen <= state'.cursor
      PROVE  /\ HandleInv' /\ (promised <= Base => promised' <= Base') /\ at' = "idle" /\ batch' = <<>>
             /\ before' = Absent /\ life' # "down"
  <2>1. /\ ChainTypes' /\ CloseTypes' /\ BufferTypes' /\ at' = "idle" /\ batch' = <<>>
        /\ chain' = Tail(chain) /\ before' = Absent
    BY <1>0, <1>2, <1>5, LeavesTypes DEF HandleTypes, BufferTypes, Leaves
  <2>2. SessionTypes' /\ LogInv'
    BY <1>0, <1>1, <1>2, <1>5 DEF HandleTypes, SessionTypes, LogInv
  <2>3. ChainInv'
    BY <1>0, <1>1, <1>5, <2>1, ChainLeaves DEF op
  <2>4. BatchInv'
    <3>1. Len(batch') = 0 /\ state'.cursor \in Nat /\ state'.cursor <= Len(log') /\ unrouted' \in Nat
          /\ Given' = state'.cursor + unrouted'
      <4>1. unrouted' \in Nat
        BY <1>5, BoundsAssumption
      <4>2. state'.cursor = state.cursor + Len(batch) /\ log' = log
        BY <1>1, <1>4
      <4>3. Len(batch') = 0
        BY <2>1
      <4> QED BY <1>3, <4>1, <4>2, <4>3 DEF Given
    <3>2. log' = log /\ buffered' = buffered /\ Len(buffered) \in Nat /\ Len(log) \in Nat
      BY <1>1, <1>3, <1>5
    <3>3. life' = "live" => /\ Follows(buffered, Given + Len(batch))'
                            /\ Given' + Len(batch') + Len(buffered') = Len(log')
      <4> SUFFICES ASSUME life' = "live"
                   PROVE  /\ Follows(buffered, Given + Len(batch))'
                          /\ Given' + Len(batch') + Len(buffered') = Len(log')
        OBVIOUS
      <4>1. /\ Given' + Len(buffered) = Len(log)
            /\ \A i \in 1..Len(buffered) : buffered[i] = log[Given' + i]
        BY <1>5, <3>1
      <4>2. Given' + Len(batch') = Given' /\ Given' \in Nat
        BY <3>1
      <4> HIDE DEF Given
      <4> QED BY <3>2, <4>1, <4>2 DEF Follows
    <3> QED BY <1>1, <1>3, <1>5, <2>1, <3>1, <3>3 DEF BatchInv, Running
  <2>5. DrainInv'
    <3>1. draining' = "queued" => buffered # <<>>
      BY <1>0, <1>5 DEF DrainInv, Running, op
    <3> QED BY <1>5, <2>1, <3>1 DEF DrainInv, Running
  <2>6. SeenInv'
    BY <1>4a, <1>5 DEF SeenInv
  <2>7. HandleInv'
    BY <1>4, <1>5, <2>1, <2>2, <2>3, <2>4, <2>5, <2>6, PTL DEF HandleInv, HandleTypes
  <2> QED BY <1>3a, <1>4a, <1>5, <2>1, <2>7
<1>6. op.kind # "drain" => seen <= state'.cursor
  <2>1. op.kind # "drain" => seen <= Base
    BY <1>0 DEF SeenInv, Running, op
  <2> QED BY <1>3, <1>3a, <1>4, <2>1
<1>7. CASE op.kind = "drain"
  <2>1. DrainSucceeds /\ life = "live" /\ op.who = "drain" /\ draining = "queued"
    BY <1>1, <1>2, <1>7 DEF Owned
  <2>2. UNCHANGED <<buffered, paused, life, unrouted, seen, flush, promised>>
    BY <2>1 DEF DrainSucceeds
  <2>3. FlushTypes'
    BY <1>0, <2>2 DEF HandleTypes, FlushTypes
  <2>4. \A g \in Flushers : flush[g].asked \in Nat
    BY <1>0, BoundsAssumption DEF HandleTypes, FlushTypes, FlushState
  <2>4a. unrouted = 0 /\ batch # <<>> /\ Given = state.cursor
    <3>1. batch # <<>>
      BY <1>0, <1>1, <1>7 DEF DrainInv, Running, op
    <3> QED BY <1>0, <1>1, <1>3, <3>1 DEF BatchInv
  <2>4b. /\ state'.cursor + Len(buffered) = Len(log) /\ state'.cursor \in Nat
         /\ \A i \in 1..Len(buffered) : buffered[i] = log[state'.cursor + i]
    BY <1>0, <1>3, <1>4, <2>1, <2>4a DEF BatchInv, Follows
  <2>4c. seen <= state'.cursor
    BY <1>0, <1>3, <1>3a, <1>4, <2>4a DEF SeenInv
  <2>5. CASE buffered = <<>>
    <3>1. Leaves(Tail(chain)) /\ draining' = "spent"
      BY <2>1, <2>5 DEF DrainSucceeds
    <3>2. state'.cursor = Len(log)
      BY <1>3, <2>4b, <2>5
    <3>3. FlushInv'
      BY <1>0, <1>1, <1>3, <1>4, <2>1, <2>2, <2>4, <3>1, <3>2 DEF FlushInv
    <3>4. \A o \in Operation : Owned(o) /\ ~(o.kind = op.kind /\ o.who = op.who) => Owned(o)'
      BY <1>1, <1>7, <2>1, <2>2 DEF Owned
    <3>5. promised <= state.cursor => promised' <= state'.cursor
      BY <1>3, <1>4, <2>2
    <3>6. /\ unrouted' \in 0..MaxEvents /\ promised' \in -1..MaxEvents
          /\ UNCHANGED <<buffered, paused, seen>> /\ life' \in {"setup", "live", "failed"}
          /\ life' # "live" => buffered = <<>> /\ unrouted' = 0
      BY <1>3, <2>1, <2>2, <2>4a, BoundsAssumption
    <3>7. state'.cursor + unrouted' = state'.cursor
      BY <2>2, <2>4a, <2>4b
    <3>8. /\ state'.cursor + unrouted' + Len(buffered) = Len(log)
          /\ \A i \in 1..Len(buffered) : buffered[i] = log[state'.cursor + unrouted' + i]
      BY <2>4b, <3>7
    <3>9. /\ draining' \in {"none", "queued", "spent", "failed"}
          /\ draining' = "queued" => draining = "queued" /\ op.kind # "drain"
      BY <3>1
    <3>10. /\ HandleInv' /\ (promised <= Base => promised' <= Base') /\ at' = "idle" /\ batch' = <<>>
           /\ before' = Absent /\ life' # "down"
      BY <1>5, <2>3, <2>4c, <3>1, <3>3, <3>4, <3>5, <3>6, <3>8, <3>9
    <3> QED BY <1>1, <1>2, <1>4, <1>4a, <3>10
  <2>6. CASE buffered # <<>>
    <3>1. Leaves(Append(Tail(chain), op)) /\ draining' = draining
      BY <2>1, <2>6 DEF DrainSucceeds, op
    <3>2. /\ chain' = Append(Tail(chain), Head(chain)) /\ at' = "idle" /\ batch' = <<>> /\ before' = Absent
      BY <3>1 DEF Leaves, op
    <3>3. \A o \in Operation : Owned(o) => Owned(o)'
      BY <1>1, <2>1, <2>2, <3>1 DEF Owned
    <3>4. ChainInv' /\ chain' \in Seq(Operation) /\ chain' # <<>>
      BY <1>0, <1>1, <2>1, <2>2, <3>1, <3>2, <3>3, ChainRotates
    <3>5. ChainTypes' /\ CloseTypes' /\ BufferTypes'
      BY <1>0, <2>2, <3>1, <3>2, <3>4, LeavesTypes DEF HandleTypes, BufferTypes, op
    <3>6. SessionTypes' /\ LogInv'
      BY <1>0, <1>1, <2>2 DEF HandleTypes, SessionTypes, LogInv
    <3>7. FlushInv'
      BY <1>0, <1>1, <1>3, <1>4, <2>1, <2>2, <2>4, <3>1 DEF FlushInv
    <3>8. BatchInv'
      <4>1. Len(batch') = 0 /\ state'.cursor \in Nat /\ unrouted' = 0 /\ Given' = state'.cursor
            /\ state'.cursor <= Len(log)
        BY <1>3, <1>4, <2>2, <2>4a, <2>4b, <3>2 DEF Given
      <4>3. /\ Follows(buffered, Given + Len(batch))'
            /\ Given' + Len(batch') + Len(buffered') = Len(log')
        BY <1>1, <1>3, <2>2, <2>4b, <4>1 DEF Follows
      <4> QED BY <1>1, <1>3, <1>4, <2>1, <2>2, <3>2, <4>1, <4>3 DEF BatchInv, Running
    <3>9. DrainInv' /\ SeenInv'
      BY <1>4a, <2>2, <2>4c, <2>6, <3>2 DEF DrainInv, SeenInv, Running
    <3>10. HandleInv'
      BY <1>4, <2>3, <3>4, <3>5, <3>6, <3>7, <3>8, <3>9, PTL DEF HandleInv, HandleTypes
    <3>11. promised <= Base => promised' <= Base'
      BY <1>3, <1>3a, <1>4, <1>4a, <2>2
    <3> QED BY <1>1, <1>2, <1>4, <1>4a, <2>1, <2>2, <3>2, <3>10, <3>11
  <2> QED BY <2>5, <2>6
<1>8. CASE op.kind = "append"
  <2> DEFINE n == op.upTo
  <2>1. /\ AppendSucceeds /\ life = "setup" /\ op.who = "setup" /\ n \in 0..Len(log)
    BY <1>1, <1>2, <1>8 DEF Owned, Operation
  <2>2. /\ Leaves(Tail(chain)) /\ promised' = Max({promised, n})
        /\ UNCHANGED <<buffered, paused, draining, seen, flush>>
        /\ \/ life' = life /\ unrouted' = unrouted
           \/ life' = "live" /\ unrouted' = Len(log) - n
    BY <2>1 DEF AppendSucceeds, op
  <2>3. state'.cursor = n
    BY <1>0, <1>1, <1>4, <1>8 DEF BatchInv, Running, op
  <2> HIDE DEF n
  <2>4. promised' \in -1..MaxEvents /\ (promised <= state.cursor => promised' <= state'.cursor)
        /\ promised' >= promised
    <3>1. promised' = IF promised >= n THEN promised ELSE n
      <4>1. promised \in Int /\ n \in Int
        BY <1>3, <2>1
      <4> QED BY <2>2, <4>1, MaxOfTwo
    <3> QED BY <1>3, <1>4, <2>1, <2>3, <3>1, BoundsAssumption
  <2>5. FlushTypes' /\ FlushInv'
    <3>1. \A g \in Flushers : flush[g].asked \in Nat
      BY <1>0, BoundsAssumption DEF HandleTypes, FlushTypes, FlushState
    <3>2. promised \in Int /\ promised' \in Int /\ state'.cursor \in Nat /\ state'.cursor >= state.cursor
      BY <1>3, <1>4, <2>4
    <3>3. FlushTypes'
      BY <1>0, <2>2 DEF HandleTypes, FlushTypes
    <3>4. ASSUME NEW g \in Flushers
          PROVE  /\ flush[g].asked <= Len(log) /\ (flush[g].at = "drain" => draining # "none")
                 /\ flush[g].excuse = "none" =>
                      /\ flush[g].at = "drain" /\ draining = "spent" => flush[g].asked <= state'.cursor
                      /\ flush[g].at \in {"drained", "barrier"} => flush[g].asked <= state'.cursor
                      /\ flush[g].at = "done" => flush[g].asked <= promised'
      <4>1. /\ flush[g].asked <= Len(log) /\ (flush[g].at = "drain" => draining # "none")
            /\ flush[g].excuse = "none" =>
                 /\ flush[g].at = "drain" /\ draining = "spent" => flush[g].asked <= state.cursor
                 /\ flush[g].at \in {"drained", "barrier"} => flush[g].asked <= state.cursor
                 /\ flush[g].at = "done" => flush[g].asked <= promised
        BY <1>0 DEF FlushInv
      <4> QED BY <1>3, <2>4, <3>1, <3>2, <4>1
    <3>5. FlushInv'
      BY <1>1, <2>1, <2>2, <3>4 DEF FlushInv
    <3> QED BY <3>3, <3>5
  <2>6. \A o \in Operation : Owned(o) /\ ~(o.kind = op.kind /\ o.who = op.who) => Owned(o)'
    BY <1>8, <2>1, <2>2 DEF Owned
  <2>7. buffered = <<>> /\ unrouted = 0 /\ draining \in {"none", "queued", "spent", "failed"}
        /\ Len(buffered) = 0
    BY <1>0, <2>1 DEF BatchInv, HandleTypes, BufferTypes
  <2>8. unrouted' \in 0..MaxEvents /\ life' \in {"setup", "live"}
        /\ (life' # "live" => unrouted' = 0)
        /\ (life' = "live" => state'.cursor + unrouted' + Len(buffered) = Len(log))
    <3>1. Len(log) \in 0..MaxEvents /\ n \in 0..Len(log) /\ Len(log) - n \in 0..MaxEvents /\ MaxEvents \in Nat
      BY <1>3, <2>1, BoundsAssumption
    <3>2. CASE life' = life /\ unrouted' = unrouted
      BY <2>1, <2>7, <3>1, <3>2
    <3>3. CASE life' = "live" /\ unrouted' = Len(log) - n
      BY <2>3, <2>7, <3>1, <3>3
    <3> QED BY <2>2, <3>2, <3>3
  <2>9. \A i \in 1..Len(buffered) : buffered[i] = log[state'.cursor + unrouted' + i]
    BY <2>7
  <2>10. /\ draining' \in {"none", "queued", "spent", "failed"} /\ seen <= state'.cursor
         /\ draining' = "queued" => draining = "queued" /\ op.kind # "drain"
         /\ UNCHANGED <<buffered, paused, seen>> /\ life' \in {"setup", "live", "failed"}
         /\ (life' # "live" => buffered = <<>> /\ unrouted' = 0)
    BY <1>6, <1>8, <2>2, <2>7, <2>8
  <2>11. /\ HandleInv' /\ (promised <= Base => promised' <= Base') /\ at' = "idle" /\ batch' = <<>>
         /\ before' = Absent /\ life' # "down"
    BY <1>5, <2>2, <2>4, <2>5, <2>6, <2>8, <2>9, <2>10
  <2> QED BY <1>1, <1>2, <1>4, <1>4a, <2>11
<1>9. CASE op.kind = "header"
  <2>1. Flushed(op.who) /\ op.who \in Flushers /\ flush[op.who].at = "barrier"
    BY <1>1, <1>2, <1>9 DEF Owned
  <2>2. /\ Leaves(Tail(chain)) /\ promised' = Max({promised, Base})
        /\ UNCHANGED <<buffered, paused, draining, life, unrouted, seen>>
    BY <2>1 DEF Flushed
  <2>3. batch = <<>> /\ state'.cursor = state.cursor
    <3>1. batch = <<>>
      BY <1>0, <1>1, <1>9 DEF BatchInv, Running, op
    <3> QED BY <1>3, <1>4, <3>1
  <2>4. /\ promised' \in -1..MaxEvents /\ (promised <= state.cursor => promised' <= state'.cursor)
        /\ promised' >= promised /\ promised' >= state.cursor
    <3>1. promised' = IF promised >= state.cursor THEN promised ELSE state.cursor
      <4>1. state.cursor \in Int /\ promised \in Int
        BY <1>3
      <4> QED BY <1>3a, <2>2, <4>1, MaxOfTwo
    <3> QED BY <1>3, <2>3, <3>1, BoundsAssumption
  <2>5. /\ FlushTypes' /\ flush'[op.who].at = "done" /\ flush'[op.who].asked = flush[op.who].asked
        /\ flush'[op.who].excuse = flush[op.who].excuse
        /\ \A g \in Flushers : g # op.who => flush'[g] = flush[g]
    <3>1. /\ FlushTypes'
          /\ flush'[op.who] = [at |-> "done", asked |-> flush[op.who].asked,
                               excuse |-> IF state.recovered # <<>> THEN "tail" ELSE flush[op.who].excuse]
          /\ \A g \in Flushers : g # op.who => flush'[g] = flush[g]
      BY <1>0, <2>1, FlushedIs
    <3> QED BY <1>0, <3>1
  <2>6. FlushInv'
    <3> SUFFICES ASSUME NEW g \in Flushers
                 PROVE  /\ flush'[g].asked <= Len(log) /\ (flush'[g].at = "drain" => draining # "none")
                        /\ flush'[g].excuse = "none" =>
                             /\ flush'[g].at = "drain" /\ draining = "spent" => flush'[g].asked <= state.cursor
                             /\ flush'[g].at \in {"drained", "barrier"} => flush'[g].asked <= state.cursor
                             /\ flush'[g].at = "done" => flush'[g].asked <= promised'
      BY <1>1, <1>2, <2>2, <2>3 DEF FlushInv
    <3>1. /\ flush[g].asked <= Len(log) /\ (flush[g].at = "drain" => draining # "none")
          /\ flush[g].excuse = "none" =>
               /\ flush[g].at = "drain" /\ draining = "spent" => flush[g].asked <= state.cursor
               /\ flush[g].at \in {"drained", "barrier"} => flush[g].asked <= state.cursor
               /\ flush[g].at = "done" => flush[g].asked <= promised
      BY <1>0 DEF FlushInv
    <3>2. flush[g].asked \in Nat /\ promised' \in Int
      BY <1>0, <2>4, BoundsAssumption DEF HandleTypes, FlushTypes, FlushState
    <3>3. CASE g # op.who
      BY <1>3, <2>4, <2>5, <3>1, <3>2, <3>3
    <3>4. CASE g = op.who
      <4>1. /\ flush'[g].at = "done" /\ flush'[g].asked = flush[g].asked
            /\ flush'[g].excuse = flush[g].excuse /\ flush[g].at = "barrier"
        BY <2>1, <2>5, <3>4
      <4> QED BY <1>3, <2>4, <3>1, <3>2, <4>1
    <3> QED BY <3>3, <3>4
  <2>7. \A o \in Operation : Owned(o) /\ ~(o.kind = op.kind /\ o.who = op.who) => Owned(o)'
    BY <1>1, <1>9, <2>2, <2>3, <2>5 DEF Owned
  <2>8. /\ draining \in {"none", "queued", "spent", "failed"} /\ life \in {"setup", "live", "failed"}
        /\ life # "live" => buffered = <<>> /\ unrouted = 0
        /\ unrouted \in 0..MaxEvents
    BY <1>0, <1>2 DEF BatchInv, HandleTypes, BufferTypes, SessionTypes
  <2>9. life = "live" => /\ state'.cursor + unrouted + Len(buffered) = Len(log)
                         /\ \A i \in 1..Len(buffered) : buffered[i] = log[state'.cursor + unrouted + i]
    <3>1. Len(batch) = 0
      BY <2>3
    <3> QED BY <1>0, <1>3, <2>3, <3>1 DEF BatchInv, Follows
  <2>10. /\ draining' \in {"none", "queued", "spent", "failed"} /\ seen <= state'.cursor
         /\ draining' = "queued" => draining = "queued" /\ op.kind # "drain"
         /\ UNCHANGED <<buffered, paused, seen>> /\ life' \in {"setup", "live", "failed"}
         /\ (life' # "live" => buffered = <<>> /\ unrouted' = 0) /\ unrouted' \in 0..MaxEvents
         /\ unrouted' = unrouted /\ life' = life
    BY <1>6, <1>9, <2>2, <2>8
  <2>11. life' = "live" => /\ state'.cursor + unrouted' + Len(buffered) = Len(log)
                           /\ \A i \in 1..Len(buffered) : buffered[i] = log[state'.cursor + unrouted' + i]
    BY <2>9, <2>10
  <2>12. /\ HandleInv' /\ (promised <= Base => promised' <= Base') /\ at' = "idle" /\ batch' = <<>>
         /\ before' = Absent /\ life' # "down"
    BY <1>5, <2>2, <2>4, <2>5, <2>6, <2>7, <2>10, <2>11
  <2> QED BY <1>1, <1>2, <1>4, <1>4a, <2>12
<1> QED BY <1>1, <1>2, <1>4, <1>4a, <1>7, <1>8, <1>9 DEF Operation


(* -------------------- The turns, on the disk ----------------------------- *)

\* An operation that waits, or ends before it has touched anything, leaves the
\* disk as it was.
LEMMA DiskRests ==
  ASSUME DiskInv, life # "down", life' # "down", at \in {"idle", "lease"}, at' \in {"idle", "lease"},
         UNCHANGED <<log, state, file, durable, residue>>, promised <= Base => promised' <= Base,
         state.materialized \/ UNCHANGED promised
  PROVE  DiskInv'
<1>1. FileInv'
  BY DEF DiskInv, FileInv
<1>2. ASSUME residue' # "buried" PROVE Sane'
  <2>1. Sane /\ Base' = Base /\ promised' <= Base'
    BY <1>2 DEF DiskInv, Sane, Base
  <2>2. Readable(file)' /\ Readable(durable)'
    BY <2>1 DEF Sane, Readable
  <2>3. Unborn => Unborn'
    BY DEF Unborn
  <2>4. Stored => Stored'
    BY <2>1 DEF Stored, Follows
  <2>5. TornTail => TornTail'
    BY <2>1 DEF TornTail, Follows, Kept
  <2>6. LeftOver => LeftOver'
    BY <2>1 DEF LeftOver, Holds
  <2> QED BY <2>1, <2>2, <2>3, <2>4, <2>5, <2>6 DEF Sane
<1> QED BY <1>1, <1>2 DEF DiskInv

LEMMA FileFields ==
  ASSUME NEW f \in FileState, NEW fs
  PROVE  /\ [f EXCEPT !.frames = fs] = [there |-> f.there, frames |-> fs]
         /\ [f EXCEPT !.frames = fs].frames = fs /\ [f EXCEPT !.frames = fs].there = f.there
         /\ fs \in Seq(FrameT) => [f EXCEPT !.frames = fs] \in FileState
BY DEF FileState

\* The file without its torn tail: what the handle expects before it adds to it.
Cut == [file EXCEPT !.frames = SubSeq(@, 1, state.torn)]

LEMMA CutIs ==
  ASSUME HandleTypes, DiskTypes, FileInv, at = "truncate", state.torn # NoTear
  PROVE  /\ Cut \in FileState /\ Cut.there /\ Len(Cut.frames) = state.torn /\ file.there
         /\ Cut.frames = SubSeq(file.frames, 1, state.torn)
         /\ SubSeq(Cut.frames, 1, state.torn) = Cut.frames
<1>1. /\ file \in FileState /\ file.frames \in Seq(FrameT) /\ file.there
      /\ state.torn \in 0..Len(file.frames)
  BY DEF HandleTypes, StateTypes, HandleState, DiskTypes, FileState, FileInv
<1> DEFINE fs == SubSeq(file.frames, 1, state.torn)
<1>2. fs \in Seq(FrameT) /\ Len(fs) = state.torn
  BY <1>1, BeginsSubSeq
<1>3. Cut = [there |-> file.there, frames |-> fs] /\ Cut.frames = fs /\ Cut.there = file.there /\ Cut \in FileState
  BY <1>1, <1>2, FileFields DEF Cut
<1>4. SubSeq(fs, 1, Len(fs)) = fs
  <2> HIDE DEF fs
  <2> QED BY <1>2, SubSeqFull
<1> QED BY <1>1, <1>2, <1>3, <1>4

LEMMA TornIs ==
  ASSUME HandleTypes, DiskTypes, FileInv, Readable(file), TornTail, at = "truncate"
  PROVE  /\ Whole(Cut.frames) /\ Len(Events(Cut.frames)) = Base
         /\ Intact(Cut.frames) /\ Begins(Events(Cut.frames), log)
<1>1. state.torn # NoTear
  BY DEF TornTail
<1>2. /\ Cut.frames = SubSeq(file.frames, 1, state.torn) /\ file.there
      /\ file.frames \in Seq(FrameT) /\ state.torn \in 0..Len(file.frames) /\ log \in Seq(Event)
      /\ Cut \in FileState
  BY <1>1, CutIs DEF HandleTypes, SessionTypes, StateTypes, HandleState, DiskTypes, FileState, FileInv
<1>3. Whole(Cut.frames) /\ Len(Events(Cut.frames)) = Base
  BY <1>2 DEF TornTail, Kept
<1>4. Begins(Events(Cut.frames), Events(file.frames)) /\ Begins(Events(file.frames), log)
  BY <1>2, EventsOfPart DEF Readable, Absent
<1>5. Cut.frames \in Seq(FrameT)
  BY <1>2 DEF FileState
<1>6. Begins(Events(Cut.frames), log)
  BY <1>2, <1>4, <1>5, EventsType, BeginsTransitive
<1> QED BY <1>3, <1>6 DEF Whole, Intact

\* What an append has brought to the file, all or a part of its records, goes on
\* with the log.
LEMMA WrittenIs ==
  ASSUME HandleTypes, DiskTypes, BatchInv, Readable(durable), Stored, at \notin {"idle", "lease"},
         NEW p \in Partials(Encode(Payload))
  PROVE  /\ durable.frames \o p \in Seq(FrameT)
         /\ Intact(durable.frames \o p) /\ Begins(Events(durable.frames \o p), log)
         /\ p = Encode(Payload) => /\ Whole(durable.frames \o p)
                                   /\ Len(Events(durable.frames \o p)) = Base + Len(Payload)
<1> DEFINE d == durable.frames
<1>1. /\ durable \in FileState /\ d \in Seq(FrameT) /\ log \in Seq(Event)
      /\ state.cursor \in Nat /\ state.recovered \in Seq(Event) /\ batch \in Seq(Event)
      /\ unrouted \in Nat
  BY BoundsAssumption
  DEF HandleTypes, SessionTypes, StateTypes, HandleState, ChainTypes, DiskTypes, FileState
<1>2. /\ durable.there /\ Whole(d) /\ Len(Events(d)) = Base /\ Follows(state.recovered, Base)
      /\ Begins(Events(d), log)
  BY DEF Stored, Readable, Absent
<1>3. Payload \in Seq(Event) /\ Follows(Payload, Base)
  <2>1. CASE state.recovered # <<>>
    BY <1>1, <1>2, <2>1 DEF Payload
  <2>2. CASE state.recovered = <<>>
    <3>1. Base = state.cursor
      BY <1>1, <2>2 DEF Base
    <3>2. Follows(batch, state.cursor)
      <4>1. CASE unrouted = 0
        <5>1. Given = state.cursor
          BY <1>1, <4>1 DEF Given
        <5> QED BY <5>1 DEF BatchInv
      <4>2. CASE batch = <<>>
        <5>1. state.cursor <= Len(log) /\ Len(batch) = 0
          BY <4>2 DEF BatchInv
        <5> QED BY <1>1, <5>1 DEF Follows
      <4> QED BY <4>1, <4>2 DEF BatchInv
    <3> QED BY <1>1, <2>2, <3>1, <3>2 DEF Payload
  <2> QED BY <2>1, <2>2
<1>4. Encode(Payload) \in Seq(FrameT) /\ Whole(Encode(Payload)) /\ Events(Encode(Payload)) = Payload
  BY <1>3, EncodeIs
<1>5. p \in Seq(FrameT) /\ Intact(p) /\ Begins(Events(p), Payload)
  <2>1. Intact(Encode(Payload))
    BY <1>4 DEF Whole, Intact
  <2> QED BY <1>4, <2>1, PartialsBegin
<1> HIDE DEF d
<1>6. Events(d \o p) = Events(d) \o Events(p) /\ Events(d) \in Seq(Event) /\ Events(p) \in Seq(Event)
  BY <1>1, <1>5, EventsConcat, EventsType
<1>7. Begins(Events(d \o p), log)
  <2>1. \A i \in 1..Len(Events(p)) : Events(p)[i] = log[Base + i]
    BY <1>1, <1>2, <1>3, <1>5, <1>6 DEF Begins, Follows
  <2>2. Base + Len(Events(p)) <= Len(log) /\ Base = Len(Events(d)) /\ Base \in Nat
    BY <1>1, <1>2, <1>3, <1>5, <1>6 DEF Begins, Follows
  <2>3. Len(Events(d) \o Events(p)) = Base + Len(Events(p))
    BY <1>6, <2>2
  <2>4. ASSUME NEW i \in 1..(Base + Len(Events(p))) PROVE (Events(d) \o Events(p))[i] = log[i]
    <3>1. CASE i <= Base
      BY <1>2, <1>6, <2>2, <3>1 DEF Begins
    <3>2. CASE ~(i <= Base)
      <4>1. i - Base \in 1..Len(Events(p)) /\ (Events(d) \o Events(p))[i] = Events(p)[i - Base] /\ Base + (i - Base) = i
        BY <1>6, <2>2, <3>2
      <4> QED BY <2>1, <4>1
    <3> QED BY <3>1, <3>2
  <2> QED BY <1>1, <1>6, <2>2, <2>3, <2>4 DEF Begins
<1>8. d \o p \in Seq(FrameT) /\ Intact(d \o p)
  <2>1. d \o p \in Seq(FrameT)
    BY <1>1, <1>5
  <2>2. Intact(d \o p)
    BY <1>1, <1>2, <1>5, IntactBehind
  <2> QED BY <2>1, <2>2
<1>10. p = Encode(Payload) => Whole(d \o p) /\ Len(Events(d \o p)) = Base + Len(Payload)
  <2> SUFFICES ASSUME p = Encode(Payload) PROVE Whole(d \o p) /\ Len(Events(d \o p)) = Base + Len(Payload)
    OBVIOUS
  <2>1. Whole(d \o p)
    BY <1>1, <1>2, <1>4, <1>5, IntactBehind
  <2>2. Len(Events(d) \o Events(p)) = Len(Events(d)) + Len(Events(p))
    BY <1>6, ConcatProperties
  <2>3. Events(p) = Payload
    BY <1>4
  <2> QED BY <1>2, <1>6, <2>1, <2>2, <2>3
<1> QED BY <1>7, <1>8, <1>10 DEF d


\* The invariant, by what has to be shown of a turn.
LEMMA Parts == IInv <=> HandleInv /\ DiskTypes /\ DiskInv /\ LeaseInv
BY TypesAre DEF IInv, HandleInv

LEMMA PartsOf ==
  ASSUME IInv
  PROVE  /\ HandleInv /\ HandleTypes /\ DiskTypes /\ DiskInv /\ FileInv /\ ChainInv /\ LeaseInv /\ BatchInv
         /\ Types /\ (at # "idle" => chain # <<>>)
BY Parts DEF IInv, HandleInv, HandleTypes, ChainTypes, DiskInv

\* What every operation that fails leaves alone.
LEMMA FailingDone ==
  ASSUME IInv, Failing
  PROVE  /\ HandleInv' /\ life # "down" /\ life' # "down" /\ at' = "idle" /\ batch' = <<>>
         /\ before' \in FileState
         /\ UNCHANGED <<log, state, closing, promised>> /\ Base' = Base
<1>1. HandleInv /\ HandleTypes /\ ChainInv /\ FileInv
  BY PartsOf
<1>2. <<>> \in Seq(FrameT)
  OBVIOUS
<1>3. /\ HandleInv' /\ at' = "idle" /\ batch' = <<>> /\ life # "down" /\ life' # "down"
      /\ before' = Absent /\ UNCHANGED <<promised, state>>
  BY <1>1, FailingKeeps
<1>4. UNCHANGED <<log, closing>>
  BY DEF Failing, OpFails, Leaves
<1> QED BY <1>2, <1>3, <1>4 DEF Absent, FileState, Base

\* What every operation that succeeds leaves behind.
LEMMA SucceedingDone ==
  ASSUME IInv, Succeeding
  PROVE  /\ HandleInv' /\ life # "down" /\ life' # "down" /\ at' = "idle"
         /\ before' \in FileState /\ UNCHANGED <<log, closing>>
         /\ (promised <= Base => promised' <= Base')
         /\ Base' = Base + Len(batch) /\ Base \in Nat /\ Base = state.cursor
         /\ state'.cursor = state.cursor + Len(batch) /\ state'.materialized
         /\ state'.torn = state.torn /\ state'.recovered = <<>>
         /\ state'.cursor <= Len(log) /\ state'.cursor \in Nat
<1>1. HandleInv /\ HandleTypes /\ ChainInv /\ FileInv
  BY PartsOf
<1>2. <<>> \in Seq(FrameT)
  OBVIOUS
<1>3. /\ HandleInv' /\ (promised <= Base => promised' <= Base') /\ at' = "idle"
      /\ life # "down" /\ life' # "down" /\ before' = Absent
      /\ Base' = Base + Len(batch)
      /\ state'.cursor = state.cursor + Len(batch) /\ state'.materialized
      /\ state'.torn = state.torn /\ state'.recovered = <<>> /\ state' \in HandleState
  BY <1>1, SucceedingKeeps
<1>4. log' = log /\ Head(chain).kind \in {"drain", "append", "header"}
      /\ OpSucceeds /\ state.recovered = <<>>
  <2>1. chain # <<>>
    BY <1>1 DEF Succeeding, HandleTypes, ChainTypes
  <2> QED BY <1>1, <2>1, HeadOfChain DEF Succeeding, Operation
<1>5. closing' = closing
  <2>1. DrainSucceeds \/ AppendSucceeds \/ Flushed(Head(chain).who)
    BY <1>4 DEF OpSucceeds
  <2>2. CASE DrainSucceeds
    BY <2>2 DEF DrainSucceeds, Leaves
  <2>3. CASE AppendSucceeds
    BY <2>3 DEF AppendSucceeds, Leaves
  <2>4. CASE Flushed(Head(chain).who)
    BY <2>4 DEF Flushed, Leaves
  <2> QED BY <2>1, <2>2, <2>3, <2>4
<1>6. Base \in Nat /\ Base = state.cursor
  <2>1. state.cursor \in Nat /\ Len(state.recovered) = 0
    BY <1>1, <1>4 DEF HandleTypes, StateTypes, HandleState
  <2> QED BY <2>1 DEF Base
<1>7. state'.cursor <= Len(log) /\ state'.cursor \in Nat
  BY <1>3, <1>4 DEF HandleInv, BatchInv, HandleState
<1> QED BY <1>2, <1>3, <1>4, <1>5, <1>6, <1>7 DEF Absent, FileState

LEMMA FaultTypes ==
  ASSUME faults \in 0..MaxFaults, Fault \/ UNCHANGED faults
  PROVE  faults' \in 0..MaxFaults
BY BoundsAssumption DEF Fault

\* A step of an operation that leaves the disk as it was.
LEMMA RestsKeeps ==
  ASSUME IInv, HandleInv', life # "down", life' # "down",
         at \in {"idle", "lease"}, at' \in {"idle", "lease"}, before' \in FileState,
         UNCHANGED <<log, state, file, durable, residue, closing>>,
         promised <= Base => promised' <= Base, state.materialized \/ UNCHANGED promised,
         faults' \in 0..MaxFaults, lease' \in {lease, "held"}
  PROVE  IInv'
<1>1. DiskTypes /\ DiskInv /\ LeaseInv
  BY PartsOf
<1>2. DiskInv'
  BY <1>1, DiskRests
<1>3. DiskTypes' /\ LeaseInv'
  BY <1>1 DEF DiskTypes, LeaseInv, Writing, Awaits
<1> QED BY <1>2, <1>3, Parts, PTL

LEMMA TakeKeeps ==
  ASSUME IInv, TakeDrain \/ TakeAppend \/ TakeHeader
  PROVE  IInv'
<1>1. HandleInv /\ HandleTypes /\ DiskTypes /\ FileInv /\ ChainInv /\ at = "idle" /\ chain # <<>>
  BY PartsOf DEF TakeDrain, TakeAppend, TakeHeader, NextIs
<1>2. life # "down"
  BY <1>1, RunningLives
<1>3. <<>> \in Seq(FrameT)
  OBVIOUS
<1>5. CASE Starting
  <2>1. HandleInv'
    BY <1>1, <1>5, StartingKeeps
  <2>2. /\ UNCHANGED <<log, life, state, before, file, durable, residue, lease, promised, closing, faults>>
        /\ at' = "lease"
    BY <1>5 DEF Starting, TakeDrain, StartAppend, StartHeader, Starts, sessionVars, diskVars, closeVars, limitVars
  <2>3. promised <= Base => promised' <= Base'
    BY <2>2 DEF Base
  <2>4. before' \in FileState /\ faults' \in 0..MaxFaults
    BY <1>1, <2>2 DEF DiskTypes
  <2> QED BY <1>1, <1>2, <2>1, <2>2, <2>3, <2>4, RestsKeeps
<1>6. CASE (TakeAppend \/ TakeHeader) /\ closing # "no"
  <2>1. Failing /\ UNCHANGED <<lease, file, durable, residue, faults>>
    BY <1>1, <1>6 DEF TakeAppend, TakeHeader, Failing, diskVars, limitVars
  <2>2. /\ HandleInv' /\ life' # "down" /\ at' = "idle" /\ before' \in FileState
        /\ UNCHANGED <<log, state, closing, promised>> /\ Base' = Base
    BY <2>1, FailingDone
  <2>3. faults' \in 0..MaxFaults
    BY <1>1, <2>1 DEF DiskTypes
  <2> QED BY <1>1, <1>2, <2>1, <2>2, <2>3, RestsKeeps
<1>8. CASE TakeHeader /\ closing = "no" /\ state.materialized
  <2>1. HeaderHeld /\ UNCHANGED <<lease, file, durable, residue, faults>>
    BY <1>8 DEF TakeHeader, HeaderHeld, diskVars, limitVars
  <2>2. HandleInv' /\ Base' = Base /\ (promised <= Base => promised' <= Base')
    BY <1>1, <2>1, HeaderHeldKeeps
  <2>3. /\ life' # "down" /\ at' = "idle" /\ before' = Absent
        /\ UNCHANGED <<log, state, closing>>
    BY <1>2, <2>1 DEF HeaderHeld, Flushed, Leaves
  <2>4. before' \in FileState /\ faults' \in 0..MaxFaults
    BY <1>1, <1>3, <2>1, <2>3 DEF DiskTypes, Absent, FileState
  <2> QED BY <1>1, <1>2, <1>8, <2>1, <2>2, <2>3, <2>4, RestsKeeps
<1>9. Starting \/ ((TakeAppend \/ TakeHeader) /\ closing # "no")
      \/ (TakeHeader /\ closing = "no" /\ state.materialized)
  <2>1. CASE TakeAppend /\ closing = "no"
    BY <2>1 DEF TakeAppend, StartAppend, Starting
  <2>2. CASE TakeHeader /\ closing = "no" /\ ~state.materialized
    BY <2>2 DEF TakeHeader, StartHeader, Starting
  <2> QED BY <2>1, <2>2 DEF Starting
<1> QED BY <1>5, <1>6, <1>8, <1>9

LEMMA AcquireLeaseKeeps ==
  ASSUME IInv, AcquireLease
  PROVE  IInv'
<1>1. /\ HandleInv /\ HandleTypes /\ DiskTypes /\ DiskInv /\ FileInv /\ ChainInv /\ LeaseInv
      /\ at = "lease" /\ chain # <<>>
  BY PartsOf DEF AcquireLease
<1>2. life # "down"
  BY <1>1, RunningLives
<1>3. /\ UNCHANGED <<log, epoch, state, file, durable, residue, crashes>>
      /\ lease' \in {lease, "held"} /\ faults' \in 0..MaxFaults
  <2>1. Fault \/ UNCHANGED faults
    BY DEF AcquireLease
  <2>2. faults' \in 0..MaxFaults
    BY <1>1, <2>1, FaultTypes DEF DiskTypes
  <2> QED BY <2>2 DEF AcquireLease, diskVars
<1>4. CASE OpFails
  <2>1. Failing
    BY <1>1, <1>3, <1>4 DEF Failing
  <2>2. /\ HandleInv' /\ life' # "down" /\ at' = "idle" /\ before' \in FileState
        /\ UNCHANGED <<log, state, closing, promised>> /\ Base' = Base
    BY <2>1, FailingDone
  <2> QED BY <1>1, <1>2, <1>3, <2>2, RestsKeeps
<1>5. CASE ~OpFails
  <2>1. /\ Goes(CASE state.torn # NoTear -> "truncate"
                  [] state.torn = NoTear /\ state.materialized -> "write"
                  [] OTHER -> "link")
        /\ Continues(batch, state.cursor)
        /\ lease' # "none" /\ UNCHANGED before
        /\ lease' = IF lease = "none" THEN "held" ELSE lease
    BY <1>5 DEF AcquireLease
  <2>2. at' = IF state.torn # NoTear THEN "truncate" ELSE IF state.materialized THEN "write" ELSE "link"
    BY <2>1 DEF Goes
  <2>3. Going
    BY <1>1, <1>3, <2>1, <2>2 DEF Going, Goes, Awaits
  <2>4. HandleInv' /\ UNCHANGED <<life, closing, promised, batch>>
    BY <1>1, <2>3, GoingKeeps DEF Going, closeVars
  <2>5. DiskTypes' /\ LeaseInv'
    BY <1>1, <1>3, <2>1, <2>4 DEF DiskTypes, LeaseInv
  <2>6. FileInv'
    BY <1>1, <1>2, <1>3, <2>2, <2>4 DEF FileInv
  <2>7. ASSUME residue' # "buried" PROVE Sane'
    <3>1. Sane /\ Base' = Base
      BY <1>1, <1>3, <2>7 DEF DiskInv, Base
    <3>2. Unborn => Unborn'
      BY <1>1, <1>3, <2>2, <2>4, <3>1 DEF Unborn, FileInv
    <3>3. Stored => Stored'
      BY <1>1, <1>3, <2>2, <2>4, <3>1 DEF Stored, Follows
    <3>4. TornTail => TornTail'
      BY <1>1, <1>3, <2>2, <2>4, <3>1 DEF TornTail, Follows, Kept
    <3>5. LeftOver => LeftOver'
      BY <1>1, <1>3, <2>2, <2>4, <3>1 DEF LeftOver, Holds
    <3>6. Readable(file)' /\ Readable(durable)'
      BY <1>3, <3>1 DEF Sane, Readable
    <3> QED BY <1>2, <1>3, <2>4, <3>1, <3>2, <3>3, <3>4, <3>5, <3>6 DEF Sane
  <2>8. DiskInv'
    BY <2>6, <2>7 DEF DiskInv
  <2> QED BY <2>4, <2>5, <2>8, Parts, PTL
<1> QED BY <1>4, <1>5

LEMMA TruncateTailKeeps ==
  ASSUME IInv, TruncateTail
  PROVE  IInv'
<1>1. /\ HandleInv /\ HandleTypes /\ DiskTypes /\ DiskInv /\ FileInv /\ ChainInv /\ LeaseInv
      /\ at = "truncate" /\ chain # <<>>
  BY PartsOf DEF TruncateTail
<1>2. life # "down"
  BY <1>1, RunningLives
<1>3. residue # "buried" => /\ Sane /\ TornTail /\ Whole(Cut.frames) /\ Len(Events(Cut.frames)) = Base
                            /\ Intact(Cut.frames) /\ Begins(Events(Cut.frames), log)
  <2> SUFFICES ASSUME residue # "buried"
               PROVE  Sane /\ TornTail /\ Whole(Cut.frames) /\ Len(Events(Cut.frames)) = Base
                      /\ Intact(Cut.frames) /\ Begins(Events(Cut.frames), log)
    OBVIOUS
  <2>1. Sane
    BY <1>1 DEF DiskInv
  <2>2. TornTail /\ Readable(file)
    BY <1>1, <1>2, <2>1 DEF Sane, LeftOver, Unborn, Stored
  <2> QED BY <1>1, <2>1, <2>2, TornIs
<1>4. file.there /\ file \in FileState /\ durable \in FileState /\ state.materialized
  BY <1>1 DEF DiskTypes, FileInv
<1>5. /\ Cut \in FileState /\ Cut.there
      /\ state.torn # NoTear => /\ Len(Cut.frames) = state.torn
                                /\ SubSeq(Cut.frames, 1, state.torn) = Cut.frames
  <2>1. CASE state.torn # NoTear
    BY <1>1, <2>1, CutIs
  <2>2. CASE state.torn = NoTear
    <3>1. SubSeq(file.frames, 1, state.torn) = <<>> /\ <<>> \in Seq(FrameT)
      BY <1>4, <2>2 DEF FileState, NoTear
    <3> QED BY <1>4, <2>2, <3>1, FileFields DEF Cut
  <2> QED BY <2>1, <2>2
<1>6. UNCHANGED <<log, epoch, lease, residue, crashes>> /\ faults' \in 0..MaxFaults
  <2>1. Fault \/ UNCHANGED faults
    BY DEF TruncateTail
  <2>2. faults' \in 0..MaxFaults
    BY <1>1, <2>1, FaultTypes DEF DiskTypes
  <2> QED BY <2>2 DEF TruncateTail
<1>7. CASE /\ OpFails /\ UNCHANGED state
           /\ file' \in {file, Cut} /\ durable' \in {durable, Cut}
  <2>1. Failing
    BY <1>1, <1>6, <1>7 DEF Failing
  <2>2. /\ HandleInv' /\ life' # "down" /\ at' = "idle" /\ before' \in FileState
        /\ UNCHANGED <<log, state, closing, promised>> /\ Base' = Base
    BY <2>1, FailingDone
  <2>3. DiskTypes' /\ LeaseInv'
    BY <1>1, <1>4, <1>5, <1>6, <1>7, <2>2 DEF DiskTypes, LeaseInv, Writing, Awaits
  <2>4. FileInv'
    <3>1. state.torn # NoTear => state.torn <= Len(file'.frames)
      BY <1>1, <1>5, <1>7 DEF FileInv, HandleTypes, StateTypes, HandleState
    <3> QED BY <1>1, <1>4, <1>5, <1>7, <2>2, <3>1 DEF FileInv
  <2>5. ASSUME residue' # "buried" PROVE Sane'
    <3>1. Sane /\ TornTail /\ Whole(Cut.frames) /\ Len(Events(Cut.frames)) = Base
          /\ Intact(Cut.frames) /\ Begins(Events(Cut.frames), log)
      BY <1>3, <1>6, <2>5
    <3>2. /\ state.torn # NoTear /\ Kept(file) /\ Kept(durable) /\ Follows(state.recovered, Base)
          /\ residue # "left" /\ Readable(file) /\ Readable(durable) /\ promised <= Base
      BY <1>1, <1>2, <3>1 DEF TornTail, Sane, LeftOver
    <3>3. Kept(Cut) /\ Readable(Cut)
      <4>1. state.torn <= Len(Cut.frames)
        BY <1>5, <3>2 DEF HandleTypes
      <4> QED BY <1>5, <3>1, <3>2, <4>1 DEF Kept, Readable
    <3>4. Kept(file') /\ Kept(durable') /\ Readable(file') /\ Readable(durable')
      BY <1>7, <3>2, <3>3
    <3>5. TornTail'
      BY <1>4, <1>7, <2>2, <3>2, <3>4 DEF TornTail, Kept, Follows
    <3>6. Readable(file)' /\ Readable(durable)'
      BY <1>6, <3>4 DEF Readable
    <3> QED BY <1>6, <2>2, <3>2, <3>5, <3>6 DEF Sane
  <2>6. DiskInv'
    BY <2>4, <2>5 DEF DiskInv
  <2> QED BY <2>2, <2>3, <2>6, Parts, PTL
<1>8. CASE /\ file' = Cut /\ durable' = Cut /\ Goes("write")
           /\ state' = [state EXCEPT !.torn = NoTear] /\ UNCHANGED <<before, faults>>
  <2>1. Going /\ at' = "write"
    BY <1>1, <1>6, <1>8 DEF Going, Goes, Awaits
  <2>2. HandleInv' /\ UNCHANGED <<life, closing, promised>>
    BY <1>1, <2>1, GoingKeeps DEF Going, closeVars
  <2>3. DiskTypes' /\ LeaseInv'
    BY <1>1, <1>5, <1>6, <1>8, <2>1, <2>2 DEF DiskTypes, LeaseInv, Writing, Awaits
  <2>4. /\ state'.cursor = state.cursor /\ state'.materialized = state.materialized
        /\ state'.recovered = state.recovered /\ state'.torn = NoTear /\ Base' = Base
    <3>1. state \in HandleState
      BY <1>1 DEF HandleTypes, StateTypes
    <3> QED BY <1>8, <3>1 DEF HandleState, Base
  <2>5. FileInv'
    BY <1>1, <1>2, <1>4, <1>5, <1>8, <2>1, <2>2, <2>4 DEF FileInv
  <2>6. ASSUME residue' # "buried" PROVE Sane'
    <3>1. Sane /\ TornTail /\ Whole(Cut.frames) /\ Len(Events(Cut.frames)) = Base
          /\ Intact(Cut.frames) /\ Begins(Events(Cut.frames), log)
      BY <1>3, <1>6, <2>6
    <3>2. Follows(state.recovered, Base) /\ residue # "left" /\ promised <= Base
      BY <1>1, <1>2, <3>1 DEF TornTail, Sane, LeftOver
    <3>3. Readable(file)' /\ Readable(durable)'
      BY <1>5, <1>6, <1>8, <3>1 DEF Readable
    <3>4. Follows(state.recovered, Base)'
      BY <1>6, <2>4, <3>2 DEF Follows
    <3>5. Stored'
      BY <1>4, <1>5, <1>8, <2>1, <2>4, <3>1, <3>4 DEF Stored
    <3> QED BY <1>2, <1>6, <2>2, <2>4, <3>2, <3>3, <3>5 DEF Sane
  <2>7. DiskInv'
    BY <2>5, <2>6 DEF DiskInv
  <2> QED BY <2>2, <2>3, <2>7, Parts, PTL
<1> QED BY <1>7, <1>8 DEF TruncateTail, Cut

LEMMA AllOfItIsAPart ==
  ASSUME NEW es \in Seq(Event)
  PROVE  Encode(es) \in Partials(Encode(es))
<1>1. Encode(es) \in Seq(FrameT)
  BY EncodeIs
<1> DEFINE fs == Encode(es)
<1> HIDE DEF fs
<1>2. fs = SubSeq(fs, 1, Len(fs)) /\ Len(fs) \in 0..Len(fs)
  BY <1>1, SubSeqFull, LenProperties DEF fs
<1>3. fs \in {SubSeq(fs, 1, k) : k \in 0..Len(fs)}
  BY <1>2
<1> QED BY <1>3 DEF Partials, fs

\* What is being written keeps its form on its way.
LEMMA PayloadType ==
  ASSUME HandleTypes
  PROVE  /\ Payload \in Seq(Event) /\ Encode(Payload) \in Seq(FrameT)
         /\ \A p \in Partials(Encode(Payload)) : p \in Seq(FrameT)
<1>1. Payload \in Seq(Event)
  BY DEF Payload, HandleTypes, StateTypes, HandleState, ChainTypes
<1>2. Encode(Payload) \in Seq(FrameT)
  BY <1>1, EncodeIs
<1> QED BY <1>1, <1>2, PartialsBegin

LEMMA WriteBatchKeeps ==
  ASSUME IInv, WriteBatch
  PROVE  IInv'
<1>1. /\ HandleInv /\ HandleTypes /\ DiskTypes /\ DiskInv /\ FileInv /\ ChainInv /\ LeaseInv
      /\ BatchInv /\ at = "write" /\ chain # <<>>
  BY PartsOf DEF WriteBatch
<1>2. life # "down"
  BY <1>1, RunningLives
<1>3. Payload \in Seq(Event)
  BY <1>1, PayloadType
<1>4. \E p \in Partials(Encode(Payload)) :
        /\ file' = [file EXCEPT !.frames = @ \o p]
        /\ (Goes("sync") /\ p = Encode(Payload)) \/ Goes("rollback")
  <2>1. CASE Goes("sync")
    BY <1>3, <2>1, AllOfItIsAPart DEF WriteBatch, Goes
  <2>2. CASE ~Goes("sync")
    BY <2>2 DEF WriteBatch
  <2> QED BY <2>1, <2>2
<1>5. PICK p \in Partials(Encode(Payload)) :
        /\ file' = [file EXCEPT !.frames = @ \o p]
        /\ (Goes("sync") /\ p = Encode(Payload)) \/ Goes("rollback")
  BY <1>4
<1>6. /\ before' = file /\ UNCHANGED <<log, epoch, state, lease, durable, crashes>>
      /\ residue' = (IF residue = "left" THEN "buried" ELSE residue)
      /\ faults' \in 0..MaxFaults
  <2>1. Fault \/ UNCHANGED faults
    BY DEF WriteBatch
  <2>2. faults' \in 0..MaxFaults
    BY <1>1, <2>1, FaultTypes DEF DiskTypes
  <2> QED BY <2>2 DEF WriteBatch
<1>7. /\ Going /\ at' \in {"sync", "rollback"} /\ (at' = "sync" => p = Encode(Payload))
      /\ UNCHANGED <<life, closing, promised, batch>>
  BY <1>1, <1>5, <1>6 DEF Going, Goes, Awaits, closeVars
<1>8. HandleInv'
  BY <1>1, <1>7, GoingKeeps
<1>9. /\ file.there /\ file' \in FileState /\ file'.there /\ file'.frames = file.frames \o p
      /\ state.materialized
  <2>1. file \in FileState /\ file.there /\ file.frames \in Seq(FrameT) /\ p \in Seq(FrameT)
        /\ state.materialized
    BY <1>1, PayloadType DEF DiskTypes, FileInv, FileState
  <2>2. file.frames \o p \in Seq(FrameT)
    BY <2>1
  <2>3. file' = [file EXCEPT !.frames = file.frames \o p]
    BY <1>5
  <2> QED BY <2>1, <2>2, <2>3, FileFields
<1>10. DiskTypes' /\ LeaseInv'
  BY <1>1, <1>6, <1>7, <1>9 DEF DiskTypes, LeaseInv, Writing, Awaits
<1>11. FileInv'
  BY <1>1, <1>2, <1>6, <1>7, <1>9 DEF FileInv
<1>12. ASSUME residue' # "buried" PROVE Sane'
  <2>1. residue # "left" /\ residue # "buried" /\ Sane /\ Base' = Base
    BY <1>1, <1>6, <1>12 DEF DiskInv, Base
  <2>2. Stored /\ file = durable /\ Readable(durable) /\ promised <= Base
    BY <1>1, <1>2, <2>1 DEF Sane, Unborn, Stored, TornTail
  <2>3. Intact(durable.frames \o p) /\ Begins(Events(durable.frames \o p), log)
    BY <1>1, <2>2, WrittenIs
  <2>4. Readable(file)' /\ Readable(durable)'
    BY <1>6, <1>9, <2>2, <2>3 DEF Readable
  <2>5. Payload' = Payload /\ Follows(state.recovered, Base)'
    BY <1>6, <1>7, <2>1, <2>2 DEF Payload, Follows, Stored
  <2>6. durable.there /\ Whole(durable.frames) /\ Len(Events(durable.frames)) = Base /\ state.materialized /\ state.torn = NoTear
    BY <2>2 DEF Stored
  <2>7. /\ \E q \in Partials(Encode(Payload')) : file'.frames = durable'.frames \o q
        /\ at' = "sync" => file'.frames = durable'.frames \o Encode(Payload')
    BY <1>6, <1>7, <1>9, <2>2, <2>5
  <2>8. Stored'
    BY <1>6, <1>7, <2>1, <2>2, <2>5, <2>6, <2>7 DEF Stored
  <2> QED BY <1>2, <1>6, <1>7, <2>1, <2>2, <2>4, <2>8 DEF Sane
<1>13. DiskInv'
  BY <1>11, <1>12 DEF DiskInv
<1> QED BY <1>8, <1>10, <1>13, Parts, PTL

LEMMA RollbackKeeps ==
  ASSUME IInv, Rollback
  PROVE  IInv'
<1>1. /\ HandleInv /\ HandleTypes /\ DiskTypes /\ DiskInv /\ FileInv /\ ChainInv /\ LeaseInv
      /\ Types /\ at = "rollback" /\ chain # <<>>
  BY PartsOf DEF Rollback
<1>2. life # "down" /\ before.there /\ file.there /\ state.materialized
  BY <1>1, RunningLives DEF FileInv
<1>3. /\ Failing /\ UNCHANGED lease /\ faults' \in 0..MaxFaults
      /\ \/ file' = before /\ durable' = before /\ residue' = residue
         \/ /\ UNCHANGED <<file, durable>>
            /\ residue' = IF file = before THEN residue ELSE Remains
  <2>1. Fault \/ UNCHANGED faults
    BY DEF Rollback
  <2>2. faults' \in 0..MaxFaults
    BY <1>1, <2>1, FaultTypes DEF DiskTypes
  <2> QED BY <1>1, <2>2 DEF Rollback, Failing
<1>4. /\ HandleInv' /\ life' # "down" /\ at' = "idle" /\ before' \in FileState
      /\ UNCHANGED <<log, state, closing, promised>> /\ Base' = Base
  BY <1>3, FailingDone
<1>5. DiskTypes' /\ LeaseInv'
  BY <1>1, <1>3, <1>4 DEF DiskTypes, LeaseInv, Writing, Awaits, Remains
<1>6. FileInv'
  BY <1>1, <1>2, <1>3, <1>4 DEF FileInv
<1>7. ASSUME residue' # "buried" PROVE Sane'
  <2>1. Sane /\ residue # "buried"
    BY <1>1, <1>3, <1>7 DEF DiskInv, Remains
  <2>2. /\ Stored /\ before = durable /\ Readable(file) /\ Readable(durable) /\ promised <= Base
        /\ residue = "none"
    BY <1>1, <1>2, <2>1 DEF Sane, Unborn, Stored, TornTail, LeftOver, DiskTypes
  <2>3. Readable(file)' /\ Readable(durable)'
    BY <1>3, <1>4, <2>2 DEF Readable
  <2>4. CASE file' = durable /\ durable' = durable /\ residue' = "none"
    <3>1. Stored'
      BY <1>4, <2>2, <2>4 DEF Stored, Follows
    <3> QED BY <1>4, <2>2, <2>3, <2>4, <3>1 DEF Sane
  <2>5. CASE UNCHANGED <<file, durable>> /\ residue' = "left"
    <3>1. Holds(file, Base) /\ Holds(durable, Base)
      BY <1>1, <2>2, BothHold
    <3>2. LeftOver'
      BY <1>4, <2>2, <2>5, <3>1 DEF LeftOver, Stored, Holds
    <3> QED BY <1>4, <2>2, <2>3, <2>5, <3>2 DEF Sane
  <2> QED BY <1>3, <2>2, <2>4, <2>5 DEF Remains
<1>8. DiskInv'
  BY <1>6, <1>7 DEF DiskInv
<1> QED BY <1>4, <1>5, <1>8, Parts, PTL

LEMMA SyncBatchKeeps ==
  ASSUME IInv, SyncBatch
  PROVE  IInv'
<1>1. /\ HandleInv /\ HandleTypes /\ DiskTypes /\ DiskInv /\ FileInv /\ ChainInv /\ LeaseInv
      /\ BatchInv /\ Types /\ at = "sync" /\ chain # <<>>
  BY PartsOf DEF SyncBatch
<1>2. life # "down" /\ file.there /\ before.there /\ state.materialized /\ state.torn = NoTear
  BY <1>1, RunningLives DEF FileInv
<1>3. /\ Payload \in Seq(Event) /\ state \in HandleState /\ batch \in Seq(Event)
      /\ state.cursor \in Nat /\ state.recovered \in Seq(Event) /\ promised \in Int
  BY <1>1, PayloadType DEF HandleTypes, StateTypes, HandleState, ChainTypes, SessionTypes
<1>4. residue # "buried" =>
        /\ Sane /\ Stored /\ before = durable /\ Readable(file) /\ Readable(durable) /\ promised <= Base
        /\ residue = "none" /\ file.frames = durable.frames \o Encode(Payload)
        /\ Whole(file.frames) /\ Len(Events(file.frames)) = Base + Len(Payload)
  <2> SUFFICES ASSUME residue # "buried"
               PROVE  /\ Sane /\ Stored /\ before = durable /\ Readable(file) /\ Readable(durable)
                      /\ promised <= Base
                      /\ residue = "none" /\ file.frames = durable.frames \o Encode(Payload)
                      /\ Whole(file.frames) /\ Len(Events(file.frames)) = Base + Len(Payload)
    OBVIOUS
  <2>1. Sane
    BY <1>1 DEF DiskInv
  <2>2. /\ Stored /\ before = durable /\ Readable(file) /\ Readable(durable) /\ promised <= Base
        /\ residue = "none" /\ file.frames = durable.frames \o Encode(Payload)
    BY <1>1, <1>2, <2>1 DEF Sane, Unborn, Stored, TornTail, LeftOver, DiskTypes
  <2>3. Encode(Payload) \in Partials(Encode(Payload))
    BY <1>3, AllOfItIsAPart
  <2>4. Whole(file.frames) /\ Len(Events(file.frames)) = Base + Len(Payload)
    BY <1>1, <2>2, <2>3, WrittenIs
  <2> QED BY <2>1, <2>2, <2>4
<1>5. UNCHANGED <<log, epoch, lease, file, crashes>> /\ faults' \in 0..MaxFaults
  <2>1. Fault \/ UNCHANGED faults
    BY DEF SyncBatch
  <2>2. faults' \in 0..MaxFaults
    BY <1>1, <2>1, FaultTypes DEF DiskTypes
  <2> QED BY <2>2 DEF SyncBatch
<1>6. CASE UNCHANGED <<durable, residue, state, before>> /\ Goes("rollback")
  <2>1. Going /\ UNCHANGED <<life, closing, promised, batch>> /\ at' = "rollback"
    BY <1>1, <1>5, <1>6 DEF Going, Goes, Awaits, closeVars
  <2>2. HandleInv'
    BY <1>1, <2>1, GoingKeeps
  <2>3. DiskTypes' /\ LeaseInv' /\ FileInv'
    BY <1>1, <1>2, <1>5, <1>6, <2>1 DEF DiskTypes, LeaseInv, Writing, Awaits, FileInv
  <2>4. ASSUME residue' # "buried" PROVE Sane'
    <3>1. /\ Stored /\ before = durable /\ Readable(file) /\ Readable(durable) /\ promised <= Base
          /\ residue = "none" /\ file.frames = durable.frames \o Encode(Payload)
      BY <1>4, <1>6, <2>4
    <3>2. Readable(file)' /\ Readable(durable)' /\ Base' = Base
      BY <1>5, <1>6, <3>1 DEF Readable, Base
    <3>3. Payload' = Payload /\ Follows(state.recovered, Base)'
      BY <1>5, <1>6, <2>1, <3>1, <3>2 DEF Payload, Follows, Stored
    <3>4. Encode(Payload) \in Partials(Encode(Payload))
      BY <1>3, AllOfItIsAPart
    <3>5. \E q \in Partials(Encode(Payload')) : file'.frames = durable'.frames \o q
      BY <1>5, <1>6, <3>1, <3>3, <3>4
    <3>6. durable.there /\ Whole(durable.frames) /\ Len(Events(durable.frames)) = Base
      BY <3>1 DEF Stored
    <3>7. Stored'
      BY <1>2, <1>5, <1>6, <2>1, <3>1, <3>2, <3>3, <3>5, <3>6 DEF Stored
    <3> QED BY <1>2, <1>6, <2>1, <3>1, <3>2, <3>7 DEF Sane
  <2>5. DiskInv'
    BY <2>3, <2>4 DEF DiskInv
  <2> QED BY <2>2, <2>3, <2>5, Parts, PTL
<1>7. CASE durable' = file /\ state.recovered # <<>> /\ state' = [state EXCEPT !.recovered = <<>>]
           /\ Goes("write") /\ UNCHANGED <<before, residue>>
  <2>1. Going /\ UNCHANGED <<life, closing, promised, batch>> /\ at' = "write"
    BY <1>1, <1>5, <1>7 DEF Going, Goes, Awaits, closeVars
  <2>2. HandleInv'
    BY <1>1, <2>1, GoingKeeps
  <2>3. /\ state'.cursor = state.cursor /\ state'.materialized = state.materialized
        /\ state'.recovered = <<>> /\ state'.torn = state.torn
    BY <1>3, <1>7 DEF HandleState
  <2>4. DiskTypes' /\ LeaseInv' /\ FileInv'
    <3>1. Len(state'.recovered) <= state'.cursor
      BY <1>3, <2>3
    <3> QED BY <1>1, <1>2, <1>5, <1>7, <2>1, <2>3, <3>1 DEF DiskTypes, LeaseInv, Writing, Awaits, FileInv
  <2>5. Base' = Base + Len(Payload) /\ (promised <= Base => promised <= Base') /\ Base' = state.cursor
    <3>1. Base' = state.cursor
      BY <1>3, <2>3 DEF Base
    <3>2. state.cursor = Base + Len(Payload) /\ Base \in Int /\ Len(Payload) \in Nat
      BY <1>3, <1>7 DEF Base, Payload
    <3> QED BY <1>3, <3>1, <3>2
  <2>6. ASSUME residue' # "buried" PROVE Sane'
    <3>1. /\ Readable(file) /\ promised <= Base /\ residue = "none"
          /\ Whole(file.frames) /\ Len(Events(file.frames)) = Base + Len(Payload)
      BY <1>4, <1>7, <2>6
    <3>2. Readable(file)' /\ Readable(durable)'
      BY <1>5, <1>7, <3>1 DEF Readable
    <3>3. Follows(state.recovered, Base)'
      BY <1>1, <1>3, <1>5, <2>3, <2>5 DEF Follows, BatchInv
    <3>4. durable'.there /\ Whole(durable'.frames) /\ Len(Events(durable'.frames)) = Base'
      BY <1>2, <1>7, <2>5, <3>1
    <3>5. Stored'
      BY <1>2, <1>5, <1>7, <2>1, <2>3, <3>3, <3>4 DEF Stored
    <3> QED BY <1>2, <1>7, <2>1, <2>5, <3>1, <3>2, <3>5 DEF Sane
  <2>7. DiskInv'
    BY <2>4, <2>6 DEF DiskInv
  <2> QED BY <2>2, <2>4, <2>7, Parts, PTL
<1>8. CASE durable' = file /\ state.recovered = <<>> /\ OpSucceeds /\ UNCHANGED residue
  <2>1. Succeeding
    BY <1>1, <1>5, <1>8 DEF Succeeding
  <2>2. /\ HandleInv' /\ at' = "idle" /\ (promised <= Base => promised' <= Base')
        /\ life' # "down" /\ before' \in FileState /\ UNCHANGED <<log, closing>>
        /\ Base' = Base + Len(batch) /\ Base = state.cursor
        /\ state'.cursor = state.cursor + Len(batch) /\ state'.materialized
        /\ state'.torn = state.torn /\ state'.recovered = <<>>
        /\ state'.cursor <= Len(log) /\ state'.cursor \in Nat
    BY <2>1, SucceedingDone
  <2>3. DiskTypes' /\ LeaseInv' /\ FileInv'
    <3>1. Len(state'.recovered) <= state'.cursor
      BY <2>2
    <3> QED BY <1>1, <1>2, <1>5, <1>8, <2>2, <3>1 DEF DiskTypes, LeaseInv, Writing, Awaits, FileInv
  <2>4. ASSUME residue' # "buried" PROVE Sane'
    <3>1. /\ Readable(file) /\ promised <= Base /\ residue = "none"
          /\ Whole(file.frames) /\ Len(Events(file.frames)) = Base + Len(Payload)
      BY <1>4, <1>8, <2>4
    <3>2. Readable(file)' /\ Readable(durable)'
      BY <1>5, <1>8, <2>2, <3>1 DEF Readable
    <3>3. Follows(state.recovered, Base)'
      BY <1>3, <1>8, <2>2 DEF Follows
    <3>4. durable'.there /\ Whole(durable'.frames) /\ Len(Events(durable'.frames)) = Base'
      BY <1>2, <1>8, <2>2, <3>1 DEF Payload
    <3>5. Stored'
      BY <1>2, <1>5, <1>8, <2>2, <3>3, <3>4 DEF Stored
    <3> QED BY <1>8, <2>2, <3>1, <3>2, <3>5 DEF Sane
  <2>5. DiskInv'
    BY <2>3, <2>4 DEF DiskInv
  <2> QED BY <2>2, <2>3, <2>5, Parts, PTL
<1>9. CASE durable' = file /\ residue' = Remains /\ OpFails /\ UNCHANGED state
  <2>1. Failing
    BY <1>1, <1>5, <1>9 DEF Failing
  <2>2. /\ HandleInv' /\ life' # "down" /\ at' = "idle" /\ before' \in FileState
        /\ UNCHANGED <<log, state, closing, promised>> /\ Base' = Base
    BY <2>1, FailingDone
  <2>3. DiskTypes' /\ LeaseInv' /\ FileInv'
    BY <1>1, <1>2, <1>5, <1>9, <2>2 DEF DiskTypes, LeaseInv, Writing, Awaits, FileInv, Remains
  <2>4. ASSUME residue' # "buried" PROVE Sane'
    <3>1. /\ Readable(file) /\ Readable(durable) /\ Stored /\ promised <= Base
          /\ residue = "none" /\ residue' = "left"
      BY <1>4, <1>9, <2>4 DEF Remains
    <3>2. Holds(file, Base)
      BY <1>1, <3>1, BothHold
    <3>3. Readable(file)' /\ Readable(durable)'
      BY <1>5, <1>9, <2>2, <3>1 DEF Readable
    <3>4. LeftOver'
      BY <1>2, <1>5, <1>9, <2>2, <3>2 DEF LeftOver, Holds
    <3> QED BY <2>2, <3>1, <3>3, <3>4 DEF Sane
  <2>5. DiskInv'
    BY <2>3, <2>4 DEF DiskInv
  <2> QED BY <2>2, <2>3, <2>5, Parts, PTL
<1> QED BY <1>6, <1>7, <1>8, <1>9 DEF SyncBatch

\* The first batch has no log file to add to.
LEMMA LinkLogKeeps ==
  ASSUME IInv, LinkLog
  PROVE  IInv'
<1>1. /\ HandleInv /\ HandleTypes /\ DiskTypes /\ DiskInv /\ FileInv /\ ChainInv /\ LeaseInv
      /\ BatchInv /\ at = "link" /\ chain # <<>>
  BY PartsOf DEF LinkLog
<1>2. life # "down" /\ ~state.materialized /\ state.torn = NoTear /\ state.recovered = <<>>
  BY <1>1, RunningLives DEF FileInv
<1>3. UNCHANGED <<log, epoch, state, lease, durable, residue, crashes>> /\ faults' \in 0..MaxFaults
  <2>1. Fault \/ UNCHANGED faults
    BY DEF LinkLog
  <2>2. faults' \in 0..MaxFaults
    BY <1>1, <2>1, FaultTypes DEF DiskTypes
  <2> QED BY <2>2 DEF LinkLog
<1>4. residue # "buried" =>
        Sane /\ Unborn /\ residue # "left" /\ Readable(file) /\ Readable(durable) /\ promised <= Base
  BY <1>1, <1>2 DEF DiskInv, Sane, Stored, TornTail, LeftOver
<1>5. CASE OpFails
  <2>1. Failing /\ UNCHANGED file
    <3>1. ~Goes("dirsync")
      BY <1>1, <1>5 DEF OpFails, Leaves, Goes
    <3> QED BY <1>1, <1>3, <1>5, <3>1 DEF Failing, LinkLog
  <2>2. /\ HandleInv' /\ life' # "down" /\ at' = "idle" /\ before' \in FileState
        /\ UNCHANGED <<log, state, closing, promised>> /\ Base' = Base
    BY <2>1, FailingDone
  <2>3. DiskTypes' /\ LeaseInv' /\ FileInv'
    BY <1>1, <1>2, <1>3, <2>1, <2>2 DEF DiskTypes, LeaseInv, Writing, Awaits, FileInv
  <2>4. ASSUME residue' # "buried" PROVE Sane'
    <3>1. Unborn'
      BY <1>3, <1>4, <2>1, <2>2, <2>4 DEF Unborn
    <3>2. Readable(file)' /\ Readable(durable)'
      BY <1>3, <1>4, <2>1, <2>4 DEF Readable
    <3> QED BY <1>3, <1>4, <2>2, <2>4, <3>1, <3>2 DEF Sane
  <2>5. DiskInv'
    BY <2>3, <2>4 DEF DiskInv
  <2> QED BY <2>2, <2>3, <2>5, Parts, PTL
<1>6. CASE ~OpFails
  <2> DEFINE fs == IF batch = <<>> THEN <<>> ELSE Encode(batch)
  <2>1. file' = [there |-> TRUE, frames |-> fs] /\ Goes("dirsync") /\ UNCHANGED <<faults, before>>
    BY <1>6 DEF LinkLog
  <2>2. Going /\ UNCHANGED <<life, closing, promised, batch>> /\ at' = "dirsync"
    BY <1>1, <1>3, <2>1 DEF Going, Goes, Awaits, closeVars
  <2>3. HandleInv'
    BY <1>1, <2>2, GoingKeeps
  <2>4. batch \in Seq(Event) /\ log \in Seq(Event) /\ unrouted \in Nat /\ state.cursor \in Nat
    BY <1>1, BoundsAssumption DEF HandleTypes, ChainTypes, SessionTypes, StateTypes, HandleState
  <2>5. fs \in Seq(FrameT) /\ Whole(fs) /\ Events(fs) = batch
    <3>1. CASE batch = <<>>
      <4>1. <<>> \in Seq(FrameT) /\ Whole(<<>>)
        BY DEF Whole
      <4> QED BY <3>1, <4>1, EventsEmpty
    <3>2. CASE batch # <<>>
      BY <2>4, <3>2, EncodeIs
    <3> QED BY <3>1, <3>2
  <2> HIDE DEF fs
  <2>6. DiskTypes' /\ LeaseInv' /\ FileInv'
    <3>1. DiskTypes' /\ LeaseInv'
      BY <1>1, <1>3, <2>1, <2>2, <2>5 DEF DiskTypes, LeaseInv, Writing, Awaits, FileState
    <3>2. FileInv'
      BY <1>1, <1>2, <1>3, <2>1, <2>2 DEF FileInv
    <3> QED BY <3>1, <3>2
  <2>7. ASSUME residue' # "buried" PROVE Sane'
    <3>1. Begins(batch, log)
      <4>1. CASE unrouted = 0
        <5>1. Follows(batch, 0)
          BY <1>1, <1>3, <1>4, <2>4, <2>7, <4>1 DEF BatchInv, Unborn, Given
        <5> QED BY <2>4, <5>1 DEF Follows, Begins
      <4>2. CASE batch = <<>>
        BY <2>4, <4>2 DEF Begins
      <4> QED BY <1>1, <4>1, <4>2 DEF BatchInv
    <3>2. Intact(fs) /\ Begins(Events(fs), log)
      BY <2>5, <3>1 DEF Whole, Intact
    <3>3. Readable(file)' /\ Readable(durable)'
      BY <1>3, <1>4, <2>1, <2>7, <3>2 DEF Readable
    <3>4. Unborn'
      BY <1>3, <1>4, <2>1, <2>2, <2>5, <2>7 DEF Unborn
    <3> QED BY <1>2, <1>3, <1>4, <2>2, <2>7, <3>3, <3>4 DEF Sane, Base
  <2>8. DiskInv'
    BY <2>6, <2>7 DEF DiskInv
  <2> QED BY <2>3, <2>6, <2>8, Parts, PTL
<1> QED BY <1>5, <1>6

LEMMA SyncDirectoryKeeps ==
  ASSUME IInv, SyncDirectory
  PROVE  IInv'
<1>1. /\ HandleInv /\ HandleTypes /\ DiskTypes /\ DiskInv /\ FileInv /\ ChainInv /\ LeaseInv
      /\ BatchInv /\ at = "dirsync" /\ chain # <<>>
  BY PartsOf DEF SyncDirectory
<1>2. /\ life # "down" /\ ~state.materialized /\ state.torn = NoTear /\ state.recovered = <<>>
      /\ file.there
  BY <1>1, RunningLives DEF FileInv
<1>3. UNCHANGED <<log, epoch, lease, file, residue, crashes>> /\ faults' \in 0..MaxFaults
  <2>1. Fault \/ UNCHANGED faults
    BY DEF SyncDirectory
  <2>2. faults' \in 0..MaxFaults
    BY <1>1, <2>1, FaultTypes DEF DiskTypes
  <2> QED BY <2>2 DEF SyncDirectory
<1>4. residue # "buried" =>
        Sane /\ Unborn /\ residue # "left" /\ Readable(file) /\ Readable(durable) /\ promised <= Base
  BY <1>1, <1>2 DEF DiskInv, Sane, Stored, TornTail, LeftOver
<1>5. CASE OpFails /\ durable' \in {durable, file} /\ UNCHANGED state
  <2>1. Failing
    BY <1>1, <1>3, <1>5 DEF Failing
  <2>2. /\ HandleInv' /\ life' # "down" /\ at' = "idle" /\ before' \in FileState
        /\ UNCHANGED <<log, state, closing, promised>> /\ Base' = Base
    BY <2>1, FailingDone
  <2>3. DiskTypes' /\ LeaseInv' /\ FileInv'
    BY <1>1, <1>2, <1>3, <1>5, <2>2 DEF DiskTypes, LeaseInv, Writing, Awaits, FileInv
  <2>4. ASSUME residue' # "buried" PROVE Sane'
    <3>1. Unborn'
      BY <1>3, <1>4, <2>2, <2>4 DEF Unborn
    <3>2. Readable(file)' /\ Readable(durable)'
      BY <1>3, <1>4, <1>5, <2>2, <2>4 DEF Readable
    <3> QED BY <1>3, <1>4, <2>2, <2>4, <3>1, <3>2 DEF Sane
  <2>5. DiskInv'
    BY <2>3, <2>4 DEF DiskInv
  <2> QED BY <2>2, <2>3, <2>5, Parts, PTL
<1>6. CASE durable' = file /\ OpSucceeds
  <2>1. Succeeding
    BY <1>1, <1>2, <1>3, <1>6 DEF Succeeding
  <2>2. /\ HandleInv' /\ at' = "idle" /\ (promised <= Base => promised' <= Base')
        /\ life' # "down" /\ before' \in FileState /\ UNCHANGED <<log, closing>>
        /\ Base' = Base + Len(batch) /\ Base = state.cursor
        /\ state'.cursor = state.cursor + Len(batch) /\ state'.materialized
        /\ state'.torn = state.torn /\ state'.recovered = <<>>
        /\ state'.cursor <= Len(log) /\ state'.cursor \in Nat
    BY <2>1, SucceedingDone
  <2>3. DiskTypes' /\ LeaseInv' /\ FileInv'
    <3>1. Len(state'.recovered) <= state'.cursor
      BY <2>2
    <3> QED BY <1>1, <1>2, <1>3, <1>6, <2>2, <3>1 DEF DiskTypes, LeaseInv, Writing, Awaits, FileInv
  <2>4. ASSUME residue' # "buried" PROVE Sane'
    <3>1. /\ Readable(file) /\ promised <= Base /\ residue # "left" /\ state.cursor = 0
          /\ Whole(file.frames) /\ Events(file.frames) = batch
      BY <1>1, <1>2, <1>3, <1>4, <2>4 DEF Unborn
    <3>2. Readable(file)' /\ Readable(durable)'
      BY <1>3, <1>6, <2>2, <3>1 DEF Readable
    <3>3. Follows(state.recovered, Base)' /\ Base' = Len(batch)
      <4>1. Base' = Len(batch) /\ Base' = state'.cursor
        <5>1. batch \in Seq(Event)
          BY <1>1 DEF HandleTypes, ChainTypes
        <5> QED BY <2>2, <3>1, <5>1
      <4> QED BY <2>2, <4>1 DEF Follows
    <3>4. durable'.there /\ Whole(durable'.frames) /\ Len(Events(durable'.frames)) = Base'
      BY <1>2, <1>6, <3>1, <3>3
    <3>5. Stored'
      BY <1>2, <1>3, <1>6, <2>2, <3>3, <3>4 DEF Stored
    <3> QED BY <1>3, <2>2, <3>1, <3>2, <3>5 DEF Sane
  <2>5. DiskInv'
    BY <2>3, <2>4 DEF DiskInv
  <2> QED BY <2>2, <2>3, <2>5, Parts, PTL
<1> QED BY <1>5, <1>6 DEF SyncDirectory


(* ------------------------- What is established -------------------------- *)

LEMMA InitHolds ==
  ASSUME Init
  PROVE  IInv
<1>1. <<>> \in Seq(Event) /\ <<>> \in Seq(FrameT) /\ <<>> \in Seq(Operation)
  OBVIOUS
<1>2. SessionTypes
  BY <1>1, BoundsAssumption DEF Init, SessionTypes
<1>3. StateTypes
  BY <1>1, BoundsAssumption DEF Init, StateTypes, HandleState, Fresh, NoTear
<1>4. BufferTypes /\ ChainTypes /\ CloseTypes
  <2>1. BufferTypes
    BY <1>1 DEF Init, BufferTypes
  <2>2. ChainTypes
    BY <1>1 DEF Init, ChainTypes, Awaits
  <2>3. CloseTypes
    <3>1. 0 \in 0..MaxEvents /\ 0 \in Nat
      BY BoundsAssumption
    <3> QED BY <3>1 DEF Init, CloseTypes, Phases
  <2> QED BY <2>1, <2>2, <2>3
<1>5. FlushTypes
  BY BoundsAssumption DEF Init, FlushTypes, FlushState, NotFlushing
<1>6. DiskTypes
  BY <1>1, BoundsAssumption DEF Init, DiskTypes, FileState, Absent
<1>7. LogInv /\ ChainInv /\ FlushInv /\ LeaseInv
  BY DEF Init, LogInv, ChainInv, FlushInv, LeaseInv, NotFlushing, Writing, Awaits
<1>8. BatchInv
  BY DEF Init, BatchInv, Fresh, Running
<1>9. DrainInv /\ SeenInv
  BY DEF Init, DrainInv, SeenInv, Running, Fresh, Base
<1>10. DiskInv
  <2>1. FileInv
    BY DEF Init, FileInv, Fresh, Absent, NoTear
  <2>2. Sane
    BY DEF Init, Sane, Readable, Unborn, Fresh, Absent, NoTear, Base
  <2> QED BY <2>1, <2>2 DEF DiskInv
<1> QED BY <1>2, <1>3, <1>4, <1>5, <1>6, <1>7, <1>8, <1>9, <1>10, Parts DEF HandleInv, HandleTypes

LEMMA TurnKeeps ==
  ASSUME IInv, Turn
  PROVE  IInv'
BY TakeKeeps, AcquireLeaseKeeps, TruncateTailKeeps, WriteBatchKeeps, SyncBatchKeeps,
   RollbackKeeps, LinkLogKeeps, SyncDirectoryKeeps DEF Turn

LEMMA StutterKeeps ==
  ASSUME IInv, UNCHANGED vars
  PROVE  IInv'
<1>1. UNCHANGED <<log, epoch, life, unrouted, state, lease, buffered, timer, paused, draining, chain, at,
                  batch, before, closing, ahead, closeFailed, seen, flush, file, durable, residue,
                  promised, faults, crashes>>
  BY DEF vars, sessionVars, bufferVars, opVars, closeVars, diskVars, limitVars
<1>2. /\ HandleTypes /\ DiskTypes /\ LogInv /\ ChainInv /\ BatchInv /\ DrainInv /\ FlushInv /\ SeenInv
      /\ DiskInv /\ LeaseInv
  BY Parts DEF HandleInv
<1>3. HandleTypes'
  BY <1>1, <1>2 DEF HandleTypes, SessionTypes, StateTypes, BufferTypes, ChainTypes, CloseTypes, FlushTypes
<1>4. DiskTypes' /\ LogInv' /\ LeaseInv' /\ FlushInv'
  BY <1>1, <1>2 DEF DiskTypes, LogInv, LeaseInv, Writing, FlushInv
<1>5. ChainInv'
  <2>1. \A o \in Operation : Owned(o) => Owned(o)'
    BY <1>1 DEF Owned
  <2> QED BY <1>1, <1>2, <2>1, ChainStays
<1>6. BatchInv' /\ DrainInv' /\ SeenInv'
  BY <1>1, <1>2 DEF BatchInv, DrainInv, SeenInv, Running, Follows, Given, Base
<1>7. DiskInv'
  <2>1. FileInv'
    BY <1>1, <1>2 DEF DiskInv, FileInv
  <2>2. Sane => Sane'
    BY <1>1 DEF Sane, Readable, Covers, Holds, Unborn, Stored, TornTail, LeftOver, Kept, Base, Follows, Payload
  <2> QED BY <1>1, <1>2, <2>1, <2>2 DEF DiskInv
<1> QED BY <1>3, <1>4, <1>5, <1>6, <1>7, Parts, PTL DEF HandleInv

LEMMA StepKeeps ==
  ASSUME IInv, [Next]_vars
  PROVE  IInv'
<1>1. CASE Turn
  BY <1>1, TurnKeeps
<1>2. CASE TimerFires \/ DrainSettles \/ CloseStep \/ BeginClose
  BY <1>2, TimerFiresKeeps, DrainSettlesKeeps, ClosingKeeps
<1>3. CASE \E f \in Flushers : FlushCall(f) \/ FlushBarrier(f)
  BY <1>3, FlushCallKeeps, FlushBarrierKeeps
<1>4. CASE SetupAppend \/ StoreSuffix \/ LiveAppend
  BY <1>4, SetupAppendKeeps, StoreSuffixKeeps, LiveAppendKeeps
<1>5. CASE Crash \/ Reopen
  BY <1>5, CrashKeeps, ReopenKeeps
<1>6. CASE UNCHANGED vars
  BY <1>6, StutterKeeps
<1> QED BY <1>1, <1>2, <1>3, <1>4, <1>5, <1>6 DEF Next

\* The inductive invariant of the handle holds through every failure and crash:
\* its chain, buffer, file and lock agree at each await.
THEOREM Inductive == Spec => []IInv
<1>1. Init => IInv
  BY InitHolds
<1>2. IInv /\ [Next]_vars => IInv'
  BY StepKeeps
<1> QED BY <1>1, <1>2, PTL DEF Spec

\* What the handle, its files and its queues hold always has its type.
THEOREM HandleTypeOK == Spec => []TypeOK
<1>1. IInv => TypeOK
  BY DEF IInv, Types
<1> QED BY <1>1, Inductive, PTL

(* ------------------------ The log is conserved -------------------------- *)

\* No turn of the chain is taken by a process that is down.
LEMMA TurnLives ==
  ASSUME IInv, Turn
  PROVE  life # "down" /\ life' # "down" /\ UNCHANGED closing
<1>1. HandleInv /\ HandleTypes /\ ChainInv /\ Types /\ FileInv /\ (at # "idle" => chain # <<>>)
  BY PartsOf
<1>2. CASE Starting
  <2>1. chain # <<>> /\ UNCHANGED <<life, closing>>
    BY <1>2 DEF Starting, TakeDrain, StartAppend, StartHeader, NextIs, Starts, sessionVars, closeVars
  <2> QED BY <1>1, <2>1, RunningLives
<1>3. CASE HeaderHeld
  <2>1. chain # <<>> /\ UNCHANGED <<life, closing>>
    BY <1>3 DEF HeaderHeld, NextIs, Flushed, Leaves
  <2> QED BY <1>1, <2>1, RunningLives
<1>4. CASE Failing
  BY <1>4, FailingDone
<1>5. CASE Going
  <2>1. chain # <<>> /\ UNCHANGED <<life, closing>>
    BY <1>1, <1>5 DEF Going, closeVars
  <2> QED BY <1>1, <2>1, RunningLives
<1>6. CASE Succeeding
  BY <1>1, <1>6, SucceedingDone
<1> QED BY <1>1, <1>2, <1>3, <1>4, <1>5, <1>6, TurnIs DEF Starting

\* A handle whose process is down has no log file of its own.
Resting == life = "down" => ~state.materialized

LEMMA RestingKeeps ==
  ASSUME IInv, Resting, [Next]_vars
  PROVE  Resting'
<1>1. CASE Crash
  BY <1>1 DEF Crash, Fresh, Resting
<1>2. CASE Turn
  BY <1>2, TurnLives DEF Resting
<1>3. CASE Unhurried
  <2>1. UNCHANGED <<life, state>>
    BY <1>3, UnhurriedIsQuiet DEF Quiet, sessionVars
  <2> QED BY <2>1 DEF Resting
<1>4. CASE SetupAppend \/ StoreSuffix \/ LiveAppend
  BY <1>4 DEF SetupAppend, StoreSuffix, LiveAppend, Resting
<1>5. CASE Reopen
  BY <1>5 DEF Reopen, Resting
<1> QED BY <1>1, <1>2, <1>3, <1>4, <1>5 DEF Next, CloseStep, Unhurried

\* Between the log's first n events and the rest, nothing is left out.
LEMMA FollowsIs ==
  ASSUME NEW s \in Seq(Event), NEW n \in Nat, log \in Seq(Event), Follows(s, n), n + Len(s) = Len(log)
  PROVE  s = SubSeq(log, n + 1, Len(log))
<1>1. n \in 0..Len(log) /\ Len(log) - n = Len(s)
  OBVIOUS
<1> DEFINE r == SubSeq(log, n + 1, Len(log))
<1>2. r \in Seq(Event) /\ Len(r) = Len(s) /\ \A i \in 1..Len(s) : r[i] = log[n + i]
  BY <1>1, Behind
<1> HIDE DEF r
<1>3. \A i \in 1..Len(s) : s[i] = r[i]
  BY <1>2 DEF Follows
<1>4. s = r
  BY <1>2, <1>3, SeqEqual
<1> QED BY <1>4 DEF r

LEMMA FollowsConcat ==
  ASSUME NEW s \in Seq(Event), NEW t \in Seq(Event), NEW n \in Nat, log \in Seq(Event),
         Follows(s, n), Follows(t, n + Len(s))
  PROVE  Follows(s \o t, n) /\ Len(s \o t) = Len(s) + Len(t) /\ s \o t \in Seq(Event)
<1>1. s \o t \in Seq(Event) /\ Len(s \o t) = Len(s) + Len(t)
  OBVIOUS
<1>2. ASSUME NEW i \in 1..Len(s \o t) PROVE (s \o t)[i] = log[n + i]
  <2>1. CASE i <= Len(s)
    BY <1>1, <2>1 DEF Follows
  <2>2. CASE ~(i <= Len(s))
    <3>1. i - Len(s) \in 1..Len(t) /\ (s \o t)[i] = t[i - Len(s)] /\ (n + Len(s)) + (i - Len(s)) = n + i
      BY <1>1, <2>2
    <3> QED BY <3>1 DEF Follows
  <2> QED BY <2>1, <2>2
<1> QED BY <1>1, <1>2 DEF Follows

LEMMA Conserved ==
  ASSUME IInv, Resting
  PROVE  LogConserved
<1>1. HandleTypes /\ DiskTypes /\ LogInv /\ ChainInv /\ BatchInv /\ DiskInv
  BY Parts DEF HandleInv
<1>2. /\ log \in Seq(Event) /\ state.cursor \in Nat /\ batch \in Seq(Event) /\ buffered \in Seq(Event)
      /\ Given \in Nat /\ file \in FileState /\ durable \in FileState
  BY <1>1, BoundsAssumption
  DEF HandleTypes, SessionTypes, StateTypes, HandleState, ChainTypes, BufferTypes, DiskTypes, Given
<1>3. ASSUME life = "live" PROVE Taken \o buffered = SubSeq(log, state.cursor + unrouted + 1, Len(log))
  <2>1. Taken = batch /\ Follows(batch, Given)
    <3>1. CASE at = "idle"
      <4>1. Taken = <<>> /\ batch = <<>> /\ Len(batch) = 0
        BY <1>1, <3>1 DEF BatchInv, Taken
      <4>2. Given <= Len(log)
        BY <1>1, <1>2, <1>3, <4>1 DEF BatchInv
      <4> QED BY <1>2, <4>1, <4>2 DEF Follows
    <3>2. CASE at # "idle"
      <4>1. chain # <<>>
        BY <1>1, <3>2 DEF HandleTypes, ChainTypes
      <4>2. Owned(Head(chain)) /\ Head(chain) \in Operation
        BY <1>1, <4>1, HeadOfChain, RunningLives
      <4>3. Head(chain).kind = "drain" \/ Head(chain).kind = "header"
        BY <1>3, <4>2 DEF Owned
      <4> QED BY <1>1, <3>2, <4>3 DEF BatchInv, Taken, Running
    <3> QED BY <3>1, <3>2
  <2>2. /\ Follows(buffered, Given + Len(batch))
        /\ Given + Len(batch) + Len(buffered) = Len(log)
    BY <1>1, <1>3 DEF BatchInv
  <2>3. /\ Follows(batch \o buffered, Given) /\ batch \o buffered \in Seq(Event)
        /\ Len(batch \o buffered) = Len(batch) + Len(buffered)
    BY <1>2, <2>1, <2>2, FollowsConcat
  <2>4. Given + Len(batch \o buffered) = Len(log)
    BY <1>2, <2>2, <2>3
  <2>5. Taken \o buffered = SubSeq(log, Given + 1, Len(log))
    BY <1>2, <2>1, <2>3, <2>4, FollowsIs
  <2> QED BY <2>5 DEF Given
<1>4. ASSUME at = "idle", residue = "none", state.materialized, state.torn = NoTear, state.recovered = <<>>
      PROVE  /\ durable = file /\ Scan(file) = SubSeq(log, 1, state.cursor)
             /\ \A i \in DOMAIN file.frames : file.frames[i].whole
  <2>1. life # "down" /\ Stored /\ Readable(file)
    BY <1>1, <1>4 DEF Resting, DiskInv, Sane, Unborn, TornTail
  <2>2. file = durable /\ file.there /\ Whole(file.frames) /\ Len(Events(file.frames)) = Base
    BY <1>4, <2>1 DEF Stored
  <2>3. Base = state.cursor
    BY <1>2, <1>4 DEF Base
  <2>4. Scan(file) \in Seq(Event) /\ Begins(Scan(file), log) /\ Scan(file) = Events(file.frames)
    BY <1>1, <1>2, <2>1, <2>2, ReadableScan
  <2>5. Scan(file) = SubSeq(log, 1, state.cursor)
    BY <1>2, <2>2, <2>3, <2>4, BeginsIsSubSeq
  <2>6. DOMAIN file.frames = 1..Len(file.frames)
    BY <1>2 DEF FileState
  <2> QED BY <2>2, <2>5, <2>6 DEF Whole
<1> QED BY <1>3, <1>4 DEF LogConserved

\* No event that the handle was given is lost, doubled or overtaken between the
\* running drain and the buffer, whatever fails; and between two operations the
\* synced file is what the cursor says, as long as no failed append has left
\* something in it.
THEOREM HandleConserves == Spec => []LogConserved
<1>1. Init => Resting
  BY DEF Init, Resting
<1>2. IInv /\ Resting /\ [Next]_vars => Resting'
  BY RestingKeeps
<1>3. IInv /\ Resting => LogConserved
  BY Conserved
<1> QED BY <1>1, <1>2, <1>3, Inductive, PTL DEF Spec

(* --------------------- What was promised survives ----------------------- *)

\* What a readable file holds, a reader gets.
LEMMA HeldIsRead ==
  ASSUME log \in Seq(Event), LogInv, NEW f \in FileState, Readable(f), NEW n \in Int, Holds(f, n)
  PROVE  n <= Len(Scan(f))
<1>1. Scan(f) \in Seq(Event) /\ (f.there => Scan(f) = Events(f.frames))
  BY ReadableScan
<1>2. f.there /\ n <= Len(Events(Firm(f.frames)))
  BY DEF Holds
<1>3. f.frames \in Seq(FrameT) /\ Intact(f.frames)
  BY <1>2 DEF FileState, Readable, Absent
<1>4. Begins(Events(Firm(f.frames)), Events(f.frames)) /\ Firm(f.frames) \in Seq(FrameT)
  BY <1>3, FirmIs
<1>5. Len(Events(Firm(f.frames))) <= Len(Events(f.frames))
  BY <1>4 DEF Begins
<1>6. Len(Events(Firm(f.frames))) \in Nat /\ Len(Events(f.frames)) \in Nat
  BY <1>3, <1>4, EventsType, LenProperties
<1> QED BY <1>1, <1>2, <1>5, <1>6

LEMMA LogIsRead ==
  ASSUME log \in Seq(Event), LogInv, NEW f \in FileState, Readable(f), NEW n \in Nat, n <= Len(Scan(f))
  PROVE  IsPrefix(SubSeq(log, 1, n), Scan(f))
<1>1. Scan(f) \in Seq(Event) /\ Begins(Scan(f), log)
  BY ReadableScan
<1>2. n \in 0..Len(log) /\ n \in 0..Len(Scan(f))
  BY <1>1 DEF Begins
<1> DEFINE p == SubSeq(log, 1, n)
<1>3. p \in Seq(Event) /\ Len(p) = n /\ Begins(p, log)
  BY <1>2, BeginsSubSeq
<1> HIDE DEF p
<1>4. Begins(p, Scan(f))
  BY <1>1, <1>2, <1>3 DEF Begins
<1>5. IsPrefix(p, Scan(f))
  BY <1>1, <1>3, <1>4, BeginsIsSubSeq
<1> QED BY <1>5 DEF p

LEMMA SurvivorKeepsPromise ==
  ASSUME IInv, residue # "buried", NEW s \in Survivors
  PROVE  /\ s \in FileState /\ Readable(s) /\ promised <= Len(Scan(s))
         /\ promised >= 0 => s.there
<1>1. Types /\ HandleTypes /\ DiskInv /\ LogInv
  BY Parts DEF HandleInv, IInv
<1>2. log \in Seq(Event) /\ promised \in Int
  BY <1>1 DEF HandleTypes, SessionTypes
<1>3. s \in FileState /\ Readable(s) /\ Covers(s)
  BY <1>1, SurvivorsReadable
<1>4. CASE promised >= 0
  BY <1>1, <1>2, <1>3, <1>4, HeldIsRead DEF Covers, Holds
<1>5. CASE ~(promised >= 0)
  <2>1. Len(Scan(s)) \in Nat
    BY <1>1, <1>2, <1>3, ReadableScan, LenProperties
  <2> QED BY <1>2, <1>3, <1>5, <2>1
<1> QED BY <1>4, <1>5

LEMMA Survives ==
  ASSUME IInv
  PROVE  PromisedSurvives
<1> SUFFICES ASSUME residue # "buried", NEW s \in Survivors, promised >= 0
             PROVE  s.there /\ IsPrefix(SubSeq(log, 1, promised), Scan(s))
  BY DEF PromisedSurvives
<1>1. log \in Seq(Event) /\ promised \in Nat /\ LogInv
  BY Parts DEF HandleInv, HandleTypes, SessionTypes
<1>2. s.there /\ s \in FileState /\ Readable(s) /\ promised <= Len(Scan(s))
  BY SurvivorKeepsPromise
<1> QED BY <1>1, <1>2, LogIsRead

\* Whatever part of the unsynced file a crash leaves, every event that an answered
\* flush or a stored suffix promised is read back, whatever failed before: the one
\* exception is a file in which an append was written behind the rest of a failed one.
THEOREM PromisesSurvive == Spec => []PromisedSurvives
<1>1. IInv => PromisedSurvives
  BY Survives
<1> QED BY <1>1, Inductive, PTL

\* A flush that is answered without an excuse has made durable what it was called for.
THEOREM FlushesCover == Spec => []FlushCovers
<1>1. IInv => FlushCovers
  <2> SUFFICES ASSUME IInv PROVE FlushCovers
    OBVIOUS
  <2>1. FlushInv
    BY DEF IInv
  <2> QED BY <2>1 DEF FlushInv, FlushCovers
<1> QED BY <1>1, Inductive, PTL

(* --------------------- The handle is a durable log ---------------------- *)

LEMMA PromiseGrows ==
  ASSUME IInv, IInv', HeaderHeld \/ Succeeding, (residue' = "buried") = (residue = "buried")
  PROVE  UNCHANGED log /\ (promised' = promised \/ Durable!Promise)
<1>1. /\ HandleTypes /\ HandleTypes' /\ ChainInv /\ BatchInv /\ FileInv /\ chain # <<>> /\ UNCHANGED log
  <2>1. HandleInv' /\ HandleTypes /\ ChainInv /\ BatchInv /\ FileInv
    BY Parts, PartsOf, PTL
  <2> QED BY <2>1 DEF HandleInv, HeaderHeld, NextIs, Succeeding, HandleTypes, ChainTypes
<1>2. Head(chain) \in Operation /\ Owned(Head(chain))
  BY <1>1, HeadOfChain, RunningLives
<1>3. /\ promised \in Int /\ log \in Seq(Event) /\ state.cursor \in Nat /\ state.recovered \in Seq(Event)
      /\ Head(chain).upTo \in Int
  BY <1>1, <1>2, BoundsAssumption DEF HandleTypes, SessionTypes, StateTypes, HandleState, Operation
<1>4. Base \in Int /\ Base <= Len(log)
  <2>1. state.cursor <= Len(log) /\ Len(state.recovered) \in Nat
    BY <1>1, <1>3 DEF BatchInv
  <2> QED BY <1>3, <2>1 DEF Base
<1>5. \/ promised' = promised
      \/ promised' = Max({promised, Base})
      \/ promised' = Max({promised, Head(chain).upTo}) /\ Head(chain).upTo <= Len(log)
  <2>1. Head(chain).kind \in {"drain", "append", "header"}
    BY <1>2 DEF Operation
  <2>2. CASE HeaderHeld
    BY <2>2 DEF HeaderHeld, Flushed
  <2>3. CASE Succeeding /\ Head(chain).kind = "drain"
    BY <2>3 DEF Succeeding, OpSucceeds, DrainSucceeds
  <2>4. CASE Succeeding /\ Head(chain).kind = "append"
    BY <1>2, <2>4 DEF Succeeding, OpSucceeds, AppendSucceeds, Owned
  <2>5. CASE Succeeding /\ Head(chain).kind = "header"
    BY <2>5 DEF Succeeding, OpSucceeds, Flushed
  <2> QED BY <2>1, <2>2, <2>3, <2>4, <2>5
<1>6. \A n \in Int : n <= Len(log) /\ promised' = Max({promised, n})
                       => promised' = promised \/ promised' \in (promised + 1)..Len(log)
  BY <1>3, MaxOfTwo
<1>7. promised' = promised \/ promised' \in (promised + 1)..Len(log)
  BY <1>3, <1>4, <1>5, <1>6
<1> QED BY <1>1, <1>7 DEF Durable!Promise

\* Nothing is buried but by an append that begins to write.
LEMMA BuriedIs ==
  ASSUME IInv, Turn
  PROVE  \/ (residue' = "buried") = (residue = "buried")
         \/ residue' = "buried" /\ WriteBatch
<1>1. CASE TakeDrain \/ TakeAppend \/ TakeHeader
  BY <1>1 DEF TakeDrain, TakeAppend, TakeHeader, Starts, diskVars
<1>2. CASE AcquireLease \/ TruncateTail \/ LinkLog \/ SyncDirectory
  BY <1>2 DEF AcquireLease, TruncateTail, LinkLog, SyncDirectory, diskVars
<1>3. CASE SyncBatch \/ Rollback
  BY <1>3 DEF SyncBatch, Rollback, Remains
<1>4. CASE WriteBatch
  BY <1>4 DEF WriteBatch
<1> QED BY <1>1, <1>2, <1>3, <1>4 DEF Turn

LEMMA StepOfDurableLog ==
  ASSUME IInv, IInv', [Next]_vars
  PROVE  [Durable!Next]_(Durable!vars)
<1> USE DEF Durable!Next, Durable!vars
<1>1. HandleTypes /\ LogInv /\ Types /\ FileInv
  BY Parts, PartsOf DEF HandleInv
<1>2. CASE Turn /\ (residue' = "buried") = (residue = "buried")
  <2>1. CASE HeaderHeld \/ Succeeding
    BY <1>2, <2>1, PromiseGrows
  <2>2. CASE Starting
    BY <1>2, <2>2 DEF Starting, TakeDrain, StartAppend, StartHeader, Starts, sessionVars
  <2>3. CASE Failing
    BY <1>2, <2>3, FailingDone
  <2>4. CASE Going
    BY <1>2, <2>4 DEF Going
  <2> QED BY <1>1, <1>2, <2>1, <2>2, <2>3, <2>4, TurnIs DEF Starting
<1>3. CASE WriteBatch /\ residue' = "buried"
  BY <1>3 DEF WriteBatch, Goes, Durable!Bury
<1>4. CASE Unhurried
  <2>1. UNCHANGED <<log, promised, residue>>
    BY <1>4, UnhurriedIsQuiet DEF Quiet, sessionVars, diskVars
  <2> QED BY <2>1
<1>5. CASE SetupAppend \/ LiveAppend
  <2>1. [seq |-> Len(log) + 1, epoch |-> epoch] \in Event
    BY <1>1, <1>5, BoundsAssumption DEF SetupAppend, LiveAppend, HandleTypes, SessionTypes, Event
  <2> QED BY <1>5, <2>1 DEF SetupAppend, LiveAppend, Durable!Extend, diskVars
<1>6. CASE StoreSuffix \/ Reopen \/ UNCHANGED vars
  BY <1>6 DEF StoreSuffix, Reopen, vars, diskVars, sessionVars
<1>7. CASE Crash
  <2>1. PICK s \in Survivors : log' = Scan(s)
    BY <1>7 DEF Crash
  <2>2. log \in Seq(Event) /\ UNCHANGED promised /\ (residue' = "buried") = (residue = "buried")
    BY <1>1, <1>7 DEF Crash, HandleTypes, SessionTypes
  <2>3. CASE residue = "buried"
    <3>1. Scan(s) \in Seq(Event)
      BY <1>1, SurvivorsAre, ScanIs
    <3> QED BY <2>1, <2>2, <2>3, <3>1 DEF Durable!Crash
  <2>4. CASE residue # "buried"
    <3>1. s \in FileState /\ Readable(s) /\ promised <= Len(Scan(s))
      BY <2>4, SurvivorKeepsPromise
    <3>2. Scan(s) \in Seq(Event) /\ Begins(Scan(s), log)
      BY <1>1, <2>2, <3>1, ReadableScan
    <3>3. Scan(s) = SubSeq(log, 1, Len(Scan(s))) /\ Len(Scan(s)) \in 0..Len(log)
      BY <2>2, <3>2, BeginsIsSubSeq DEF Begins
    <3> QED BY <2>1, <2>2, <3>1, <3>3, <1>1 DEF Durable!Crash, HandleTypes, SessionTypes
  <2> QED BY <2>3, <2>4
<1> QED BY <1>2, <1>3, <1>4, <1>5, <1>6, <1>7, BuriedIs DEF Next, CloseStep, Unhurried

\* The handle, its file and its crashes implement a log that only grows, except
\* that a crash may take back what was never promised, and anything of a log with
\* the rest of a failed append in its middle.
THEOREM HandleIsDurableLog == Spec => ImplementsDurableLog
<1>1. Init => Durable!Init
  BY DEF Init, Durable!Init
<1>2. IInv /\ IInv' /\ [Next]_vars => [Durable!Next]_(Durable!vars)
  BY StepOfDurableLog
<1> QED BY <1>1, <1>2, Inductive, PTL DEF Spec, ImplementsDurableLog, Durable!Spec


(* ------------------- A close leaves nothing behind ---------------------- *)

LEMMA Outlives ==
  ASSUME IInv
  PROVE  LockOutlivesWrites
<1>1. /\ Types /\ HandleTypes /\ DiskTypes /\ DiskInv /\ FileInv /\ LogInv /\ BatchInv /\ LeaseInv /\ SeenInv
  BY Parts, PartsOf DEF HandleInv
<1>2. /\ log \in Seq(Event) /\ batch \in Seq(Event) /\ state.cursor \in Nat /\ state.recovered \in Seq(Event)
      /\ unrouted \in Nat /\ seen \in Nat /\ closing \in Phases
      /\ file \in FileState /\ durable \in FileState /\ lease \in {"none", "held", "released"}
  BY <1>1, BoundsAssumption
  DEF HandleTypes, SessionTypes, ChainTypes, StateTypes, HandleState, CloseTypes, DiskTypes
<1>3. Base \in Int /\ Base <= state.cursor /\ Base <= Given /\ Given \in Nat
  <2>1. Len(state.recovered) \in Nat
    BY <1>2
  <2> QED BY <1>2, <2>1 DEF Base, Given
<1>4. closing # "settle" => seen <= Base
  BY <1>1 DEF SeenInv
<1>5. ASSUME Writing, lease # "held"
      PROVE  closing \in {"release", "closed"} /\ \A i \in DOMAIN batch : batch[i].seq > seen
  <2>1. closing \in {"release", "closed"} /\ at # "idle"
    BY <1>1, <1>2, <1>5 DEF LeaseInv, Writing, Awaits
  <2>2. seen <= Given
    BY <1>2, <1>3, <1>4, <2>1
  <2>3. ASSUME NEW i \in 1..Len(batch) PROVE batch[i].seq > seen
    <3>1. Given + i \in 1..Len(log) /\ batch[i] = log[Given + i]
      BY <1>1, <1>2, <1>3, <2>1 DEF BatchInv, Follows
    <3>2. batch[i].seq = Given + i
      BY <1>1, <3>1 DEF LogInv
    <3> QED BY <1>2, <1>3, <2>2, <3>2
  <2> QED BY <1>2, <2>1, <2>3
<1>6. ASSUME closing = "closed", residue # "buried"
      PROVE  IsPrefix(SubSeq(log, 1, seen), Scan(durable))
  <2>1. Sane /\ Readable(durable) /\ Readable(file)
    BY <1>1, <1>6 DEF DiskInv, Sane
  <2>2. CASE life = "down" \/ Unborn
    <3>1. state.cursor = 0
      BY <1>1, <2>2 DEF FileInv, Unborn
    <3>2. seen = 0
      BY <1>2, <1>3, <1>4, <1>6, <3>1
    <3>3. Len(Scan(durable)) \in Nat
      BY <1>1, <1>2, <2>1, ReadableScan, LenProperties
    <3> QED BY <1>1, <1>2, <2>1, <3>2, <3>3, LogIsRead
  <2>3. CASE life # "down" /\ (Stored \/ TornTail \/ LeftOver)
    <3>1. Holds(durable, Base)
      BY <1>1, <2>1, <2>3, BothHold
    <3>2. Base <= Len(Scan(durable))
      BY <1>1, <1>2, <1>3, <2>1, <3>1, HeldIsRead
    <3>3. Len(Scan(durable)) \in Nat
      BY <1>1, <1>2, <2>1, ReadableScan, LenProperties
    <3>4. seen <= Len(Scan(durable))
      BY <1>2, <1>3, <1>4, <1>6, <3>2, <3>3
    <3> QED BY <1>1, <1>2, <2>1, <3>4, LogIsRead
  <2> QED BY <2>1, <2>2, <2>3 DEF Sane
<1> QED BY <1>5, <1>6 DEF LockOutlivesWrites

\* Until close gives the lock up nothing is written without it, and afterwards only
\* events that came after its last look at the buffer; what that look found stored
\* is on stable storage when the handle is gone.
THEOREM LockOutlives == Spec => []LockOutlivesWrites
<1>1. IInv => LockOutlivesWrites
  BY Outlives
<1> QED BY <1>1, Inductive, PTL
=============================================================================
