-------------------------- MODULE NetSession_proofs --------------------------
(***************************************************************************)
(* Proofs that the two maps of a session agree through registration and      *)
(* close, that no closed session stays behind, that the callbacks come once  *)
(* and in order and that a session is read by one chain of reads, for every  *)
(* number of sessions, of arrivals and of orders.                            *)
(***************************************************************************)
EXTENDS NetSession, FiniteSetTheorems, SequenceTheorems, TLAPS

\* A queue has a handler of the set S; has at most one; has those of A before
\* those of B.
In(q, S) == \E i \in 1..Len(q) : q[i] \in S
Once(q, S) == \A i, j \in 1..Len(q) : q[i] \in S /\ q[j] \in S => i = j
Before(q, A, B) == \A i, j \in 1..Len(q) : q[i] \in A /\ q[j] \in B => i < j

Reads == {"readOk", "readErr"}
Entry(s) == {<<"accepted", s>>, <<"connected", s>>}
End(s) == {<<"closed", s>>, <<"remove", s>>}

\* The session has no connection yet.
Fresh(s) == IF s \in Accepts THEN s \notin named \/ accepting = s ELSE conn[s] \notin {"up", "failed"}

\* Nothing is known of a session without a connection.
FreshInv(s) ==
    Fresh(s) => /\ netQ[s] = <<>>
                /\ ~In(mainQ, Entry(s)) /\ ~In(mainQ, End(s))
                /\ s \notin t_mapSession /\ s \notin m_mapSession
                /\ s \notin m_timerSessionAlive
                /\ sock[s] = "none"

\* A session of our own that came up at the second attempt stays unknown.
UnnamedInv(s) ==
    s \in Connects /\ s \notin named =>
        /\ s \notin t_mapSession /\ s \notin m_mapSession
        /\ ~In(netQ[s], {"register"}) /\ ~In(netQ[s], {"erase"})
        /\ ~In(mainQ, Entry(s))

\* Registration on the session's thread comes before all else there.
RegisterInv(s) ==
    /\ Once(netQ[s], {"register"})
    /\ In(netQ[s], {"register"}) =>
           /\ Head(netQ[s]) = "register"
           /\ ~In(netQ[s], {"erase"})
           /\ s \notin t_mapSession /\ s \notin m_mapSession
           /\ ~In(mainQ, Entry(s)) /\ ~In(mainQ, End(s))
           /\ sock[s] = "open"
           /\ s \in Connects => connectCalls[s] = 0

\* Registration on the main loop comes once, after the one on the thread and
\* before the end of the session.
EntryInv(s) ==
    /\ Once(mainQ, Entry(s))
    /\ Before(mainQ, Entry(s), End(s))
    /\ In(mainQ, Entry(s)) =>
           /\ s \in t_mapSession /\ s \notin m_mapSession
           /\ ~In(netQ[s], {"erase"})
           /\ sock[s] = "closed" => In(mainQ, {<<"remove", s>>})
           /\ s \in Connects => connectCalls[s] = 0

MapInv(s) ==
    /\ s \in m_mapSession => s \in t_mapSession
    /\ s \in t_mapSession /\ s \notin m_mapSession => In(netQ[s], {"erase"}) \/ In(mainQ, Entry(s))
    /\ In(netQ[s], {"erase"}) => s \notin m_mapSession
    /\ s \in m_mapSession /\ sock[s] = "closed" => In(mainQ, {<<"remove", s>>})
    /\ ~In(netQ[s], {"clear"})

CallInv(s) ==
    /\ s \in Connects /\ s \in named =>
           In(netQ[s], {"register"}) \/ In(mainQ, Entry(s)) \/ connectCalls[s] = 1
    /\ s \in m_funSessionClose => closeCalls[s] = 0 /\ ~In(mainQ, {<<"closed", s>>})
    /\ In(mainQ, {<<"closed", s>>}) => closeCalls[s] = 0
    /\ Once(mainQ, {<<"closed", s>>})

KindInv(s) ==
    /\ s \in Accepts => /\ ~In(mainQ, {<<"connected", s>>})
                        /\ ~In(mainQ, {<<"connect", s>>})
    /\ s \in Connects => ~In(mainQ, {<<"accepted", s>>})
    /\ Once(mainQ, {<<"connect", s>>})
    /\ In(mainQ, {<<"connect", s>>}) => conn[s] = "posted"

\* An accepted session is not read before the main loop knows it.
FirstReadInv(s) ==
    s \in Accepts /\ (In(netQ[s], {"register"}) \/ In(mainQ, Entry(s))) =>
        s \notin reading /\ ~In(netQ[s], Reads)

RunInv(s) ==
    /\ FreshInv(s)
    /\ UnnamedInv(s)
    /\ RegisterInv(s)
    /\ EntryInv(s)
    /\ MapInv(s)
    /\ CallInv(s)
    /\ KindInv(s)
    /\ FirstReadInv(s)

\* What also holds while the server stops.
ChainInv(s) ==
    /\ Fresh(s) => s \notin reading /\ ~In(netQ[s], Reads)
    /\ Once(netQ[s], Reads)
    /\ s \in reading => ~In(netQ[s], Reads)

OpeningInv(s) ==
    s \in Connects =>
        /\ conn[s] \notin {"up", "failed"} =>
               closeCalls[s] = 0 /\ connectCalls[s] = 0 /\ s \notin named
        /\ connectCalls[s] <= 1
        /\ closeCalls[s] <= 1
        /\ closeCalls[s] = 1 /\ s \in named => connectCalls[s] = 1

\* The invariant of one session.
SInv(s) == ChainInv(s) /\ OpeningInv(s) /\ (stage = "run" => RunInv(s))

IInv ==
    /\ TypeOK
    /\ accepting # NoSession => accepting \in named
    /\ \A s \in Sessions : SInv(s)
-----------------------------------------------------------------------------
(* Queues                                                                  *)

\* What a queue holds once others are posted behind it, and in what order.
LEMMA ConcatFacts ==
    ASSUME NEW T, NEW q \in Seq(T), NEW p \in Seq(T)
    PROVE  /\ q \o p \in Seq(T)
           /\ \A S : In(q \o p, S) <=> In(q, S) \/ In(p, S)
           /\ \A S : Once(q, S) /\ Once(p, S) /\ ~(In(q, S) /\ In(p, S)) => Once(q \o p, S)
           /\ \A A, B : Before(q, A, B) /\ Before(p, A, B) /\ ~(In(q, B) /\ In(p, A))
                            => Before(q \o p, A, B)
<1>1. /\ q \o p \in Seq(T) /\ Len(q \o p) = Len(q) + Len(p)
      /\ \A i \in 1..(Len(q) + Len(p)) :
             (q \o p)[i] = IF i <= Len(q) THEN q[i] ELSE p[i - Len(q)]
  BY ConcatProperties
<1>2. Len(q) \in Nat /\ Len(p) \in Nat
  OBVIOUS
<1>3. \A i \in 1..Len(q) : i \in 1..(Len(q) + Len(p)) /\ (q \o p)[i] = q[i]
  BY <1>1, <1>2
<1>4. \A i \in 1..Len(p) : /\ Len(q) + i \in 1..(Len(q) + Len(p))
                           /\ (q \o p)[Len(q) + i] = p[i]
  <2> SUFFICES ASSUME NEW i \in 1..Len(p)
               PROVE  /\ Len(q) + i \in 1..(Len(q) + Len(p))
                      /\ (q \o p)[Len(q) + i] = p[i]
    OBVIOUS
  <2>1. Len(q) + i \in 1..(Len(q) + Len(p)) /\ ~(Len(q) + i <= Len(q)) /\ Len(q) + i - Len(q) = i
    BY <1>2
  <2> QED
    BY <1>1, <2>1
<1>5. \A i \in 1..Len(q \o p) : \/ i \in 1..Len(q) /\ (q \o p)[i] = q[i]
                                \/ /\ i > Len(q) /\ i - Len(q) \in 1..Len(p)
                                   /\ (q \o p)[i] = p[i - Len(q)]
  BY <1>1, <1>2
<1>6. ASSUME NEW S PROVE In(q \o p, S) <=> In(q, S) \/ In(p, S)
  BY <1>1, <1>3, <1>4, <1>5 DEF In
<1>7. ASSUME NEW S, Once(q, S), Once(p, S), ~(In(q, S) /\ In(p, S))
      PROVE  Once(q \o p, S)
  <2> SUFFICES ASSUME NEW i \in 1..Len(q \o p), NEW j \in 1..Len(q \o p),
                      (q \o p)[i] \in S, (q \o p)[j] \in S
               PROVE  i = j
    BY DEF Once
  <2>1. CASE i \in 1..Len(q) /\ j \in 1..Len(q)
    BY <1>3, <1>7, <2>1 DEF Once
  <2>2. CASE i \in 1..Len(q) /\ j \notin 1..Len(q)
    BY <1>3, <1>5, <1>7, <2>2 DEF In
  <2>3. CASE i \notin 1..Len(q) /\ j \in 1..Len(q)
    BY <1>3, <1>5, <1>7, <2>3 DEF In
  <2>4. CASE i \notin 1..Len(q) /\ j \notin 1..Len(q)
    <3>1. i - Len(q) \in 1..Len(p) /\ p[i - Len(q)] \in S
      BY <1>5, <2>4
    <3>2. j - Len(q) \in 1..Len(p) /\ p[j - Len(q)] \in S
      BY <1>5, <2>4
    <3>3. i - Len(q) = j - Len(q)
      BY <1>7, <3>1, <3>2 DEF Once
    <3> QED
      BY <1>2, <1>1, <3>3
  <2> QED
    BY <2>1, <2>2, <2>3, <2>4
<1>8. ASSUME NEW A, NEW B, Before(q, A, B), Before(p, A, B), ~(In(q, B) /\ In(p, A))
      PROVE  Before(q \o p, A, B)
  <2> SUFFICES ASSUME NEW i \in 1..Len(q \o p), NEW j \in 1..Len(q \o p),
                      (q \o p)[i] \in A, (q \o p)[j] \in B
               PROVE  i < j
    BY DEF Before
  <2>1. CASE i \in 1..Len(q) /\ j \in 1..Len(q)
    BY <1>3, <1>8, <2>1 DEF Before
  <2>2. CASE i \in 1..Len(q) /\ j \notin 1..Len(q)
    BY <1>1, <1>2, <2>2
  <2>3. CASE i \notin 1..Len(q) /\ j \in 1..Len(q)
    BY <1>3, <1>5, <1>8, <2>3 DEF In
  <2>4. CASE i \notin 1..Len(q) /\ j \notin 1..Len(q)
    <3>1. i - Len(q) \in 1..Len(p) /\ p[i - Len(q)] \in A
      BY <1>5, <2>4
    <3>2. j - Len(q) \in 1..Len(p) /\ p[j - Len(q)] \in B
      BY <1>5, <2>4
    <3>3. i - Len(q) < j - Len(q)
      BY <1>8, <3>1, <3>2 DEF Before
    <3> QED
      BY <1>2, <1>1, <3>3
  <2> QED
    BY <2>1, <2>2, <2>3, <2>4
<1> QED
  BY <1>1, <1>6, <1>7, <1>8

\* The queues that one handler posts.
LEMMA ShortFacts ==
    ASSUME NEW T, NEW x \in T, NEW y \in T
    PROVE  /\ << >> \in Seq(T) /\ <<x>> \in Seq(T) /\ <<x, y>> \in Seq(T)
           /\ \A S : ~In(<< >>, S) /\ (In(<<x>>, S) <=> x \in S)
                     /\ (In(<<x, y>>, S) <=> x \in S \/ y \in S)
           /\ \A S : Once(<< >>, S) /\ Once(<<x>>, S) /\ (~(x \in S /\ y \in S) => Once(<<x, y>>, S))
           /\ \A A, B : /\ Before(<< >>, A, B)
                        /\ ~(x \in A /\ x \in B) => Before(<<x>>, A, B)
                        /\ x \notin A /\ y \notin A => Before(<<x, y>>, A, B)
<1>1. << >> \in Seq(T) /\ <<x>> \in Seq(T) /\ <<x, y>> \in Seq(T)
  OBVIOUS
<1>2. Len(<< >>) = 0 /\ Len(<<x>>) = 1 /\ Len(<<x, y>>) = 2
  OBVIOUS
<1>3. <<x>>[1] = x /\ <<x, y>>[1] = x /\ <<x, y>>[2] = y
  OBVIOUS
<1>4. \A i \in 1..0 : FALSE
  OBVIOUS
<1>5. 1..1 = {1} /\ 1..2 = {1, 2}
  OBVIOUS
<1>6. ASSUME NEW S
      PROVE  /\ ~In(<< >>, S) /\ (In(<<x>>, S) <=> x \in S)
             /\ (In(<<x, y>>, S) <=> x \in S \/ y \in S)
             /\ Once(<< >>, S) /\ Once(<<x>>, S) /\ (~(x \in S /\ y \in S) => Once(<<x, y>>, S))
  <2>1. ~In(<< >>, S) /\ Once(<< >>, S)
    BY <1>2, <1>4 DEF In, Once
  <2>2. (In(<<x>>, S) <=> x \in S) /\ Once(<<x>>, S)
    BY <1>2, <1>3, <1>5 DEF In, Once
  <2>3. In(<<x, y>>, S) <=> x \in S \/ y \in S
    BY <1>2, <1>3, <1>5 DEF In
  <2>4. ~(x \in S /\ y \in S) => Once(<<x, y>>, S)
    BY <1>2, <1>3, <1>5 DEF Once
  <2> QED
    BY <2>1, <2>2, <2>3, <2>4
<1>7. ASSUME NEW A, NEW B
      PROVE  /\ Before(<< >>, A, B)
             /\ ~(x \in A /\ x \in B) => Before(<<x>>, A, B)
             /\ x \notin A /\ y \notin A => Before(<<x, y>>, A, B)
  <2>1. Before(<< >>, A, B)
    BY <1>2, <1>4 DEF Before
  <2>2. ~(x \in A /\ x \in B) => Before(<<x>>, A, B)
    BY <1>2, <1>3, <1>5 DEF Before
  <2>3. x \notin A /\ y \notin A => Before(<<x, y>>, A, B)
    BY <1>2, <1>3, <1>5 DEF Before
  <2> QED
    BY <2>1, <2>2, <2>3
<1> QED
  BY <1>1, <1>6, <1>7

\* What one handler posts, in up to two parts.
LEMMA ShortConcat ==
    ASSUME NEW x \in NetOps, NEW y \in NetOps
    PROVE  /\ << >> \o << >> = << >> /\ << >> \o <<y>> = <<y>>
           /\ <<x>> \o << >> = <<x>> /\ <<x>> \o <<y>> = <<x, y>>
<1>1. << >> \in Seq(NetOps) /\ <<x>> \in Seq(NetOps) /\ <<y>> \in Seq(NetOps) /\ <<x, y>> \in Seq(NetOps)
  BY ShortFacts
<1>2. /\ <<x>> \o <<y>> \in Seq(NetOps) /\ Len(<<x>> \o <<y>>) = 2
      /\ (<<x>> \o <<y>>)[1] = x /\ (<<x>> \o <<y>>)[2] = y
  BY <1>1, ConcatProperties
<1>3. <<x>> \o <<y>> = <<x, y>>
  <2>1. PICK p \in Seq(NetOps) : p = <<x>> \o <<y>>
    BY <1>2
  <2>2. PICK q \in Seq(NetOps) : q = <<x, y>>
    BY <1>1, Zenon
  <2>3. Len(p) = 2 /\ Len(q) = 2 /\ p[1] = x /\ p[2] = y /\ q[1] = x /\ q[2] = y
    BY <1>2, <2>1, <2>2
  <2>4. p = q
    <3> HIDE <2>1, <2>2
    <3>1. \A i \in 1..Len(p) : p[i] = q[i]
      BY <2>3
    <3> QED
      BY <2>3, <3>1, SeqEqual
  <2> QED
    BY <2>1, <2>2, <2>4
<1> QED
  BY <1>1, <1>3, ConcatEmptySeq

\* What a queue holds when its head has been taken.
LEMMA TailFacts ==
    ASSUME NEW T, NEW q \in Seq(T), q # << >>
    PROVE  /\ Tail(q) \in Seq(T) /\ Head(q) \in T
           /\ \A S : In(q, S) <=> Head(q) \in S \/ In(Tail(q), S)
           /\ \A S : Once(q, S) => Once(Tail(q), S)
           /\ \A S : Once(q, S) /\ Head(q) \in S => ~In(Tail(q), S)
           /\ \A A, B : Before(q, A, B) => Before(Tail(q), A, B)
           /\ \A A, B : Before(q, A, B) /\ Head(q) \in B => ~In(Tail(q), A)
<1>1. /\ Len(q) \in Nat /\ Len(q) > 0 /\ Head(q) = q[1] /\ Head(q) \in T
      /\ Tail(q) \in Seq(T) /\ Len(Tail(q)) = Len(q) - 1
      /\ \A i \in 1..(Len(q) - 1) : Tail(q)[i] = q[i + 1]
  BY HeadTailProperties, EmptySeq, ElementOfSeq
<1>2. \A i \in 1..Len(Tail(q)) : i + 1 \in 1..Len(q) /\ Tail(q)[i] = q[i + 1]
  BY <1>1
<1>3. \A i \in 1..Len(q) : i = 1 \/ (i - 1 \in 1..Len(Tail(q)) /\ Tail(q)[i - 1] = q[i])
  BY <1>1
<1>4. 1 \in 1..Len(q)
  BY <1>1
<1>5. ASSUME NEW S PROVE In(q, S) <=> Head(q) \in S \/ In(Tail(q), S)
  <2>1. In(q, S) => Head(q) \in S \/ In(Tail(q), S)
    BY <1>1, <1>3 DEF In
  <2>2. Head(q) \in S => In(q, S)
    BY <1>1, <1>4 DEF In
  <2>3. In(Tail(q), S) => In(q, S)
    BY <1>2 DEF In
  <2> QED
    BY <2>1, <2>2, <2>3
<1>6. ASSUME NEW S, Once(q, S) PROVE Once(Tail(q), S) /\ (Head(q) \in S => ~In(Tail(q), S))
  <2>1. Once(Tail(q), S)
    <3> SUFFICES ASSUME NEW i \in 1..Len(Tail(q)), NEW j \in 1..Len(Tail(q)),
                        Tail(q)[i] \in S, Tail(q)[j] \in S
                 PROVE  i = j
      BY DEF Once
    <3>1. i + 1 = j + 1
      BY <1>2, <1>6 DEF Once
    <3> QED
      BY <1>1, <3>1
  <2>2. ASSUME Head(q) \in S, In(Tail(q), S) PROVE FALSE
    <3>1. PICK i \in 1..Len(Tail(q)) : Tail(q)[i] \in S
      BY <2>2 DEF In
    <3>2. i + 1 \in 1..Len(q) /\ q[i + 1] \in S /\ q[1] \in S
      BY <1>1, <1>2, <2>2, <3>1
    <3>3. i + 1 = 1
      BY <1>4, <1>6, <3>2 DEF Once
    <3> QED
      BY <1>1, <3>3
  <2> QED
    BY <2>1, <2>2
<1>7. ASSUME NEW A, NEW B, Before(q, A, B)
      PROVE  Before(Tail(q), A, B) /\ (Head(q) \in B => ~In(Tail(q), A))
  <2>1. Before(Tail(q), A, B)
    <3> SUFFICES ASSUME NEW i \in 1..Len(Tail(q)), NEW j \in 1..Len(Tail(q)),
                        Tail(q)[i] \in A, Tail(q)[j] \in B
                 PROVE  i < j
      BY DEF Before
    <3>1. i + 1 < j + 1
      BY <1>2, <1>7 DEF Before
    <3> QED
      BY <1>1, <3>1
  <2>2. ASSUME Head(q) \in B, In(Tail(q), A) PROVE FALSE
    <3>1. PICK i \in 1..Len(Tail(q)) : Tail(q)[i] \in A
      BY <2>2 DEF In
    <3>2. i + 1 \in 1..Len(q) /\ q[i + 1] \in A /\ q[1] \in B
      BY <1>1, <1>2, <2>2, <3>1
    <3>3. i + 1 < 1
      BY <1>4, <1>7, <3>2 DEF Before
    <3> QED
      BY <1>1, <3>3
  <2> QED
    BY <2>1, <2>2
<1> QED
  BY <1>1, <1>5, <1>6, <1>7

\* Posting one handler, and posting two.
LEMMA PostOne ==
    ASSUME NEW T, NEW q \in Seq(T), NEW a \in T
    PROVE  /\ q \o <<a>> \in Seq(T)
           /\ \A S : In(q \o <<a>>, S) <=> In(q, S) \/ a \in S
           /\ \A S : Once(q, S) /\ ~(In(q, S) /\ a \in S) => Once(q \o <<a>>, S)
           /\ \A A, B : Before(q, A, B) /\ ~(In(q, B) /\ a \in A) /\ ~(a \in A /\ a \in B)
                            => Before(q \o <<a>>, A, B)
<1>0. <<a>> \in Seq(T)
  BY ShortFacts
<1>1. PICK p \in Seq(T) : p = <<a>>
  BY <1>0, Zenon
<1>2. \A S : (In(p, S) <=> a \in S) /\ Once(p, S)
  BY <1>1, ShortFacts
<1>3. \A A, B : ~(a \in A /\ a \in B) => Before(p, A, B)
  BY <1>1, ShortFacts
<1> HIDE <1>1
<1>4. /\ q \o p \in Seq(T)
      /\ \A S : In(q \o p, S) <=> In(q, S) \/ In(p, S)
      /\ \A S : Once(q, S) /\ Once(p, S) /\ ~(In(q, S) /\ In(p, S)) => Once(q \o p, S)
      /\ \A A, B : Before(q, A, B) /\ Before(p, A, B) /\ ~(In(q, B) /\ In(p, A)) => Before(q \o p, A, B)
  BY ConcatFacts
<1>5. /\ q \o p \in Seq(T)
      /\ \A S : In(q \o p, S) <=> In(q, S) \/ a \in S
      /\ \A S : Once(q, S) /\ ~(In(q, S) /\ a \in S) => Once(q \o p, S)
      /\ \A A, B : Before(q, A, B) /\ ~(In(q, B) /\ a \in A) /\ ~(a \in A /\ a \in B) => Before(q \o p, A, B)
  BY <1>2, <1>3, <1>4
<1> QED
  BY <1>1, <1>5

\* What a queue holds when two handlers are posted behind it.
LEMMA PostTwo ==
    ASSUME NEW T, NEW q \in Seq(T), NEW a \in T, NEW b \in T
    PROVE  /\ q \o <<a, b>> \in Seq(T)
           /\ \A S : In(q \o <<a, b>>, S) <=> In(q, S) \/ a \in S \/ b \in S
           /\ \A S : Once(q, S) /\ ~(In(q, S) /\ a \in S) /\ b \notin S => Once(q \o <<a, b>>, S)
           /\ \A A, B : Before(q, A, B) /\ a \notin A /\ b \notin A => Before(q \o <<a, b>>, A, B)
<1>0. <<a, b>> \in Seq(T)
  BY ShortFacts
<1>1. PICK p \in Seq(T) : p = <<a, b>>
  BY <1>0, Zenon
<1>2. \A S : (In(p, S) <=> a \in S \/ b \in S) /\ (~(a \in S /\ b \in S) => Once(p, S))
  BY <1>1, ShortFacts
<1>3. \A A, B : a \notin A /\ b \notin A => Before(p, A, B)
  BY <1>1, ShortFacts
<1> HIDE <1>1
<1>4. /\ q \o p \in Seq(T)
      /\ \A S : In(q \o p, S) <=> In(q, S) \/ In(p, S)
      /\ \A S : Once(q, S) /\ Once(p, S) /\ ~(In(q, S) /\ In(p, S)) => Once(q \o p, S)
      /\ \A A, B : Before(q, A, B) /\ Before(p, A, B) /\ ~(In(q, B) /\ In(p, A)) => Before(q \o p, A, B)
  BY ConcatFacts
<1>5. /\ q \o p \in Seq(T)
      /\ \A S : In(q \o p, S) <=> In(q, S) \/ a \in S \/ b \in S
      /\ \A S : Once(q, S) /\ ~(In(q, S) /\ a \in S) /\ b \notin S => Once(q \o p, S)
      /\ \A A, B : Before(q, A, B) /\ a \notin A /\ b \notin A => Before(q \o p, A, B)
  BY <1>2, <1>3, <1>4
<1> QED
  BY <1>1, <1>5

-----------------------------------------------------------------------------
(* What a step that is about other sessions leaves alone                   *)

\* What the main loop's queue holds of session r is as before.
SameOnMain(r) ==
    /\ \A S \in {Entry(r), End(r)} \cup {{<<op, r>>} : op \in MainOps} :
           (In(mainQ', S) <=> In(mainQ, S)) /\ (Once(mainQ, S) => Once(mainQ', S))
    /\ Before(mainQ, Entry(r), End(r)) => Before(mainQ', Entry(r), End(r))

\* So is all else.
Same(r) ==
    /\ netQ'[r] = netQ[r]
    /\ sock'[r] = sock[r]
    /\ conn'[r] = conn[r]
    /\ connectCalls'[r] = connectCalls[r]
    /\ closeCalls'[r] = closeCalls[r]
    /\ (r \in reading') <=> (r \in reading)
    /\ (r \in m_timerSessionAlive') <=> (r \in m_timerSessionAlive)
    /\ (r \in t_mapSession') <=> (r \in t_mapSession)
    /\ (r \in m_mapSession') <=> (r \in m_mapSession)
    /\ (r \in m_funSessionClose') <=> (r \in m_funSessionClose)
    /\ r \in Connects => (r \in named' <=> r \in named)
    /\ Fresh(r)' <=> Fresh(r)

\* The sets of handlers the invariant asks about are of one session each.
LEMMA MainSets ==
    ASSUME NEW r
    PROVE  /\ Entry(r) \in {Entry(r), End(r)} \cup {{<<op, r>>} : op \in MainOps}
           /\ End(r) \in {Entry(r), End(r)} \cup {{<<op, r>>} : op \in MainOps}
           /\ \A op \in MainOps : {<<op, r>>} \in {Entry(r), End(r)} \cup {{<<o, r>>} : o \in MainOps}
           /\ \A S \in {Entry(r), End(r)} \cup {{<<op, r>>} : op \in MainOps} :
                  \A e \in S : \E op \in MainOps : e = <<op, r>>
BY DEF Entry, End, MainOps

\* A session of which a step changes nothing keeps its invariant.
LEMMA Frame ==
    ASSUME NEW r \in Sessions, SInv(r), Same(r), SameOnMain(r), stage' = "run" => stage = "run"
    PROVE  SInv(r)'
<1>0. /\ In(mainQ', Entry(r)) <=> In(mainQ, Entry(r))
      /\ In(mainQ', End(r)) <=> In(mainQ, End(r))
      /\ Once(mainQ, Entry(r)) => Once(mainQ', Entry(r))
      /\ Before(mainQ, Entry(r), End(r)) => Before(mainQ', Entry(r), End(r))
  BY MainSets DEF SameOnMain
<1>a. \A op \in MainOps : /\ In(mainQ', {<<op, r>>}) <=> In(mainQ, {<<op, r>>})
                          /\ Once(mainQ, {<<op, r>>}) => Once(mainQ', {<<op, r>>})
  BY MainSets DEF SameOnMain
<1>b. /\ In(mainQ', {<<"accepted", r>>}) <=> In(mainQ, {<<"accepted", r>>})
      /\ In(mainQ', {<<"connect", r>>}) <=> In(mainQ, {<<"connect", r>>})
      /\ In(mainQ', {<<"connected", r>>}) <=> In(mainQ, {<<"connected", r>>})
      /\ In(mainQ', {<<"closed", r>>}) <=> In(mainQ, {<<"closed", r>>})
      /\ In(mainQ', {<<"remove", r>>}) <=> In(mainQ, {<<"remove", r>>})
      /\ Once(mainQ, {<<"connect", r>>}) => Once(mainQ', {<<"connect", r>>})
      /\ Once(mainQ, {<<"closed", r>>}) => Once(mainQ', {<<"closed", r>>})
  BY <1>a DEF MainOps
<1>1. ChainInv(r)'
  BY DEF SInv, ChainInv, Same
<1>2. OpeningInv(r)'
  BY DEF SInv, OpeningInv, Same
<1>3. ASSUME stage' = "run" PROVE RunInv(r)'
  <2>0. RunInv(r)
    BY <1>3 DEF SInv
  <2>1. FreshInv(r)' /\ UnnamedInv(r)'
    BY <2>0, <1>0 DEF RunInv, FreshInv, UnnamedInv, Same
  <2>2. RegisterInv(r)'
    BY <2>0, <1>0 DEF RunInv, RegisterInv, Same
  <2>3. EntryInv(r)'
    BY <2>0, <1>0, <1>b DEF RunInv, EntryInv, Same
  <2>4. MapInv(r)'
    BY <2>0, <1>0, <1>b DEF RunInv, MapInv, Same
  <2>5. CallInv(r)'
    BY <2>0, <1>0, <1>b DEF RunInv, CallInv, Same
  <2>6. KindInv(r)'
    BY <2>0, <1>b DEF RunInv, KindInv, Same
  <2>7. FirstReadInv(r)'
    BY <2>0, <1>0 DEF RunInv, FirstReadInv, Same
  <2> QED
    BY <2>1, <2>2, <2>3, <2>4, <2>5, <2>6, <2>7 DEF RunInv
<1> QED
  BY <1>1, <1>2, <1>3 DEF SInv

\* A step that leaves the main loop's queue alone leaves what it holds of r.
LEMMA SameOnMainUnchanged ==
    ASSUME mainQ' = mainQ, NEW r PROVE SameOnMain(r)
BY DEF SameOnMain

\* Elements of the main queue.
LEMMA MainQType ==
    ASSUME TypeOK PROVE mainQ \in Seq(MainOps \X Sessions)
BY DEF TypeOK

\* Taking a handler of another session leaves what the queue holds of r.
LEMMA SameOnMainPop ==
    ASSUME TypeOK, NEW s \in Sessions, NEW op, AtMain(s, op), MainDone, NEW r \in Sessions, r # s
    PROVE  SameOnMain(r)
<1>1. mainQ # << >> /\ Head(mainQ) = <<op, s>> /\ mainQ' = Tail(mainQ) /\ mainQ \in Seq(MainOps \X Sessions)
  BY MainQType DEF AtMain, MainDone
<1>2. \A S \in {Entry(r), End(r)} \cup {{<<o, r>>} : o \in MainOps} : <<op, s>> \notin S
  BY MainSets
<1>3. /\ \A S : In(mainQ, S) <=> Head(mainQ) \in S \/ In(Tail(mainQ), S)
      /\ \A S : Once(mainQ, S) => Once(Tail(mainQ), S)
      /\ \A A, B : Before(mainQ, A, B) => Before(Tail(mainQ), A, B)
  BY <1>1, TailFacts
<1> QED
  BY <1>1, <1>2, <1>3, ZenonT(60) DEF SameOnMain

\* PostMain appends one or two handlers.
LEMMA PostMainForm ==
    ASSUME NEW s \in Sessions, NEW x \in MainOps, NEW y \in MainOps
    PROVE  /\ PostMain(s, <<x>>) => mainQ' = mainQ \o <<<<x, s>>>>
           /\ PostMain(s, <<x, y>>) => mainQ' = mainQ \o <<<<x, s>>, <<y, s>>>>
<1>1. [i \in 1..Len(<<x>>) |-> <<(<<x>>)[i], s>>] = <<<<x, s>>>>
  OBVIOUS
<1>2. [i \in 1..Len(<<x, y>>) |-> <<(<<x, y>>)[i], s>>] = <<<<x, s>>, <<y, s>>>>
  OBVIOUS
<1> QED
  BY <1>1, <1>2 DEF PostMain

\* Posting handlers of another session leaves what the queue holds of r.
LEMMA SameOnMainPost ==
    ASSUME TypeOK, NEW s \in Sessions, NEW x \in MainOps, NEW y \in MainOps,
           PostMain(s, <<x>>) \/ PostMain(s, <<x, y>>), NEW r \in Sessions, r # s
    PROVE  SameOnMain(r)
<1>0. PICK T : T = MainOps \X Sessions
  OBVIOUS
<1> PICK a \in T, b \in T : a = <<x, s>> /\ b = <<y, s>>
  BY <1>0
<1>1. PICK p \in {<<a>>, <<a, b>>} : mainQ' = mainQ \o p
  BY PostMainForm
<1>2. \A S \in {Entry(r), End(r)} \cup {{<<o, r>>} : o \in MainOps} : a \notin S /\ b \notin S
  BY MainSets
<1>a. /\ <<a>> \in Seq(T) /\ <<a, b>> \in Seq(T)
  BY ShortFacts
<1>b. \A S : (In(<<a>>, S) <=> a \in S) /\ (In(<<a, b>>, S) <=> a \in S \/ b \in S)
  BY ShortFacts, SMTT(60)
<1>c. \A S : Once(<<a>>, S) /\ (~(a \in S /\ b \in S) => Once(<<a, b>>, S))
  BY ShortFacts, SMTT(60)
<1>d. \A A, B : /\ ~(a \in A /\ a \in B) => Before(<<a>>, A, B)
                /\ a \notin A /\ b \notin A => Before(<<a, b>>, A, B)
  BY ShortFacts, SMTT(60)
<1>3. p \in Seq(MainOps \X Sessions)
  BY <1>0, <1>1, <1>a
<1>4. \A S \in {Entry(r), End(r)} \cup {{<<o, r>>} : o \in MainOps} : ~In(p, S) /\ Once(p, S)
  <2> SUFFICES ASSUME NEW S \in {Entry(r), End(r)} \cup {{<<o, r>>} : o \in MainOps}
               PROVE  ~In(p, S) /\ Once(p, S)
    OBVIOUS
  <2>1. a \notin S /\ b \notin S
    BY <1>2
  <2> QED
    BY <1>1, <1>b, <1>c, <2>1
<1>5. Before(p, Entry(r), End(r))
  <2>1. a \notin Entry(r) /\ b \notin Entry(r)
    BY <1>2, MainSets
  <2> QED
    BY <1>1, <1>d, <2>1
<1>6. ~In(p, Entry(r))
  BY <1>4, MainSets
<1>7. /\ \A S : In(mainQ \o p, S) <=> In(mainQ, S) \/ In(p, S)
      /\ \A S : Once(mainQ, S) /\ Once(p, S) /\ ~(In(mainQ, S) /\ In(p, S)) => Once(mainQ \o p, S)
      /\ \A A, B : Before(mainQ, A, B) /\ Before(p, A, B) /\ ~(In(mainQ, B) /\ In(p, A))
                            => Before(mainQ \o p, A, B)
  <2>1. mainQ \in Seq(MainOps \X Sessions)
    BY MainQType
  <2> QED
    BY <1>3, <2>1, ConcatFacts
<1> QED
  BY <1>1, <1>4, <1>5, <1>6, <1>7 DEF SameOnMain

-----------------------------------------------------------------------------
(* What a step does to the queues of its own session                       *)

\* Posting a handler to a session's thread.
LEMMA NetPush ==
    ASSUME TypeOK, NEW s \in Sessions, NEW op \in NetOps, PostNet(s, op)
    PROVE  /\ netQ' \in [Sessions -> Seq(NetOps)]
           /\ \A r \in Sessions : r # s => netQ'[r] = netQ[r]
           /\ \A X : In(netQ'[s], X) <=> In(netQ[s], X) \/ op \in X
           /\ \A X : Once(netQ[s], X) /\ ~(In(netQ[s], X) /\ op \in X) => Once(netQ'[s], X)
           /\ netQ[s] # << >> => Head(netQ'[s]) = Head(netQ[s])
           /\ netQ[s] = << >> => Head(netQ'[s]) = op
<1>1. PICK q \in Seq(NetOps) : q = netQ[s]
  BY DEF TypeOK
<1>2. /\ netQ' \in [Sessions -> Seq(NetOps)] /\ netQ'[s] = Append(q, op)
      /\ \A r \in Sessions : r # s => netQ'[r] = netQ[r]
  BY <1>1 DEF TypeOK, PostNet
<1>3. Append(q, op) = q \o <<op>>
  BY AppendIsConcat
<1>4. /\ \A X : In(q \o <<op>>, X) <=> In(q, X) \/ In(<<op>>, X)
      /\ \A X : Once(q, X) /\ Once(<<op>>, X) /\ ~(In(q, X) /\ In(<<op>>, X)) => Once(q \o <<op>>, X)
  BY ConcatFacts, <<op>> \in Seq(NetOps)
<1>5. \A X : (In(<<op>>, X) <=> op \in X)
  BY ShortFacts
<1>6. \A X : Once(<<op>>, X)
  BY ShortFacts
<1>7. /\ q # << >> => Head(Append(q, op)) = Head(q)
      /\ q = << >> => Head(Append(q, op)) = op
  BY AppendProperties, HeadTailProperties, EmptySeq
<1> QED
  BY <1>1, <1>2, <1>3, <1>4, <1>5, <1>6, <1>7

\* Running the head of a session's queue, which may post others.
LEMMA NetPop ==
    ASSUME TypeOK, NEW s \in Sessions, NEW op, AtNet(s, op), NEW ops \in Seq(NetOps), NetDone(s, ops)
    PROVE  /\ netQ' \in [Sessions -> Seq(NetOps)]
           /\ \A r \in Sessions : r # s => netQ'[r] = netQ[r]
           /\ \A X : In(netQ[s], X) <=> op \in X \/ In(Tail(netQ[s]), X)
           /\ \A X : In(netQ'[s], X) <=> In(Tail(netQ[s]), X) \/ In(ops, X)
           /\ \A X : Once(netQ[s], X) /\ Once(ops, X) /\ ~(In(Tail(netQ[s]), X) /\ In(ops, X))
                         => Once(netQ'[s], X)
           /\ \A X : Once(netQ[s], X) /\ op \in X => ~In(Tail(netQ[s]), X)
<1>1. PICK q \in Seq(NetOps) : q = netQ[s]
  BY DEF TypeOK
<1>2. q # << >> /\ Head(q) = op
  BY <1>1 DEF AtNet
<1>3. /\ Tail(q) \in Seq(NetOps)
      /\ \A X : In(q, X) <=> op \in X \/ In(Tail(q), X)
      /\ \A X : Once(q, X) => Once(Tail(q), X)
      /\ \A X : Once(q, X) /\ op \in X => ~In(Tail(q), X)
  BY <1>2, TailFacts
<1>4. /\ netQ' \in [Sessions -> Seq(NetOps)] /\ netQ'[s] = Tail(q) \o ops
      /\ \A r \in Sessions : r # s => netQ'[r] = netQ[r]
  <2>1. Tail(q) \o ops \in Seq(NetOps)
    BY <1>3
  <2> QED
    BY <1>1, <2>1 DEF TypeOK, NetDone
<1>5. /\ \A X : In(Tail(q) \o ops, X) <=> In(Tail(q), X) \/ In(ops, X)
      /\ \A X : Once(Tail(q), X) /\ Once(ops, X) /\ ~(In(Tail(q), X) /\ In(ops, X))
                    => Once(Tail(q) \o ops, X)
  BY <1>3, ConcatFacts
<1> QED
  BY <1>1, <1>3, <1>4, <1>5

\* What a handler of the session's thread posts to its own thread.
QuietOps == {<< >>, <<"close">>, <<"readErr">>, <<"close", "readErr">>}

\* The handlers that have no part in registration, reads and the erase.
LEMMA QuietOpsFacts ==
    ASSUME NEW ops \in QuietOps
    PROVE  /\ ops \in Seq(NetOps)
           /\ ~In(ops, {"register"}) /\ ~In(ops, {"erase"}) /\ ~In(ops, {"clear"})
           /\ Once(ops, Reads)
           /\ In(ops, Reads) <=> ops \in {<<"readErr">>, <<"close", "readErr">>}
           /\ Once(ops, {"register"})
<1>1. PICK a \in NetOps, b \in NetOps : a = "close" /\ b = "readErr"
  BY DEF NetOps
<1>2. /\ << >> \in Seq(NetOps) /\ <<a>> \in Seq(NetOps) /\ <<b>> \in Seq(NetOps)
      /\ <<a, b>> \in Seq(NetOps)
  OBVIOUS
<1>3. \A X : (In(<<a>>, X) <=> a \in X) /\ (In(<<a, b>>, X) <=> a \in X \/ b \in X)
  BY ShortFacts
<1>4. \A X : (In(<<b>>, X) <=> b \in X) /\ ~In(<< >>, X)
  BY ShortFacts
<1>5. \A X : Once(<<a>>, X) /\ (~(a \in X /\ b \in X) => Once(<<a, b>>, X))
  BY ShortFacts
<1>6. \A X : Once(<<b>>, X) /\ Once(<< >>, X)
  BY ShortFacts
<1>7. ops \in {<< >>, <<a>>, <<b>>, <<a, b>>}
  BY <1>1 DEF QuietOps
<1>8. \A op \in {"register", "erase", "clear"} : a \notin {op} /\ b \notin {op}
  BY <1>1
<1>9. \A op \in {"register", "erase", "clear"} : ~In(ops, {op}) /\ Once(ops, {op})
  BY <1>3, <1>4, <1>5, <1>6, <1>7, <1>8
<1>10. a \notin Reads /\ b \in Reads
  BY <1>1 DEF Reads
<1>11. Once(ops, Reads)
  BY <1>5, <1>6, <1>7, <1>10
<1>12. In(ops, Reads) <=> ops \in {<<b>>, <<a, b>>}
  <2>1. << >> \notin {<<b>>, <<a, b>>} /\ <<a>> \notin {<<b>>, <<a, b>>}
    BY <1>1
  <2> QED
    BY <1>3, <1>4, <1>7, <1>10, <2>1
<1> QED
  BY <1>1, <1>2, <1>7, <1>9, <1>11, <1>12

\* Taking a handler off the main loop's queue.
LEMMA MainPop ==
    ASSUME TypeOK, NEW s \in Sessions, NEW op, AtMain(s, op), MainDone
    PROVE  /\ mainQ' \in Seq(MainOps \X Sessions)
           /\ stage = "run"
           /\ \A X : In(mainQ, X) <=> <<op, s>> \in X \/ In(mainQ', X)
           /\ \A X : Once(mainQ, X) => Once(mainQ', X)
           /\ \A X : Once(mainQ, X) /\ <<op, s>> \in X => ~In(mainQ', X)
           /\ \A A, B : Before(mainQ, A, B) => Before(mainQ', A, B)
           /\ \A A, B : Before(mainQ, A, B) /\ <<op, s>> \in B => ~In(mainQ', A)
<1>1. /\ mainQ # << >> /\ Head(mainQ) = <<op, s>> /\ mainQ' = Tail(mainQ) /\ stage = "run"
  BY DEF AtMain, MainDone
<1>2. /\ Tail(mainQ) \in Seq(MainOps \X Sessions)
      /\ \A X : In(mainQ, X) <=> Head(mainQ) \in X \/ In(Tail(mainQ), X)
      /\ \A X : Once(mainQ, X) => Once(Tail(mainQ), X)
      /\ \A X : Once(mainQ, X) /\ Head(mainQ) \in X => ~In(Tail(mainQ), X)
      /\ \A A, B : Before(mainQ, A, B) => Before(Tail(mainQ), A, B)
      /\ \A A, B : Before(mainQ, A, B) /\ Head(mainQ) \in B => ~In(Tail(mainQ), A)
  <2>1. PICK T : T = MainOps \X Sessions
    OBVIOUS
  <2>2. mainQ \in Seq(T) /\ mainQ # << >>
    BY <1>1, <2>1, MainQType
  <2> QED
    BY <2>1, <2>2, TailFacts
<1> QED
  BY <1>1, <1>2

\* Posting a handler to the main loop.
LEMMA MainPost ==
    ASSUME TypeOK, NEW s \in Sessions, NEW x \in MainOps, PostMain(s, <<x>>)
    PROVE  /\ mainQ' \in Seq(MainOps \X Sessions)
           /\ \A X : In(mainQ', X) <=> In(mainQ, X) \/ <<x, s>> \in X
           /\ \A X : Once(mainQ, X) /\ ~(In(mainQ, X) /\ <<x, s>> \in X) => Once(mainQ', X)
           /\ \A A, B : Before(mainQ, A, B) /\ ~(In(mainQ, B) /\ <<x, s>> \in A) /\ ~(<<x, s>> \in A /\ <<x, s>> \in B)
                            => Before(mainQ', A, B)
<1>1. mainQ' = mainQ \o <<<<x, s>>>>
  BY PostMainForm
<1>2. PICK T : T = MainOps \X Sessions
  OBVIOUS
<1>3. mainQ \in Seq(T) /\ <<x, s>> \in T
  BY <1>2, MainQType
<1>4. \A a \in T :
          /\ mainQ \o <<a>> \in Seq(T)
          /\ \A X : In(mainQ \o <<a>>, X) <=> In(mainQ, X) \/ a \in X
          /\ \A X : Once(mainQ, X) /\ ~(In(mainQ, X) /\ a \in X) => Once(mainQ \o <<a>>, X)
          /\ \A A, B : Before(mainQ, A, B) /\ ~(In(mainQ, B) /\ a \in A) /\ ~(a \in A /\ a \in B)
                            => Before(mainQ \o <<a>>, A, B)
  BY <1>3, PostOne
<1> QED
  BY <1>1, <1>2, <1>3, <1>4

\* NetClose posts the callback and the removal, or the removal alone.
LEMMA MainPostEnd ==
    ASSUME TypeOK, NEW s \in Sessions, PostMain(s, <<"closed", "remove">>)
    PROVE  /\ mainQ' \in Seq(MainOps \X Sessions)
           /\ \A X : In(mainQ', X) <=> In(mainQ, X) \/ <<"closed", s>> \in X \/ <<"remove", s>> \in X
           /\ \A X : Once(mainQ, X) /\ ~(In(mainQ, X) /\ <<"closed", s>> \in X) /\ <<"remove", s>> \notin X
                         => Once(mainQ', X)
           /\ \A A, B : Before(mainQ, A, B) /\ <<"closed", s>> \notin A /\ <<"remove", s>> \notin A
                            => Before(mainQ', A, B)
<1>1. mainQ' = mainQ \o <<<<"closed", s>>, <<"remove", s>>>>
  BY PostMainForm DEF MainOps
<1>2. PICK T : T = MainOps \X Sessions
  OBVIOUS
<1>3. mainQ \in Seq(T) /\ <<"closed", s>> \in T /\ <<"remove", s>> \in T
  BY <1>2, MainQType DEF MainOps
<1>4. \A a \in T, b \in T :
          /\ mainQ \o <<a, b>> \in Seq(T)
          /\ \A X : In(mainQ \o <<a, b>>, X) <=> In(mainQ, X) \/ a \in X \/ b \in X
          /\ \A X : Once(mainQ, X) /\ ~(In(mainQ, X) /\ a \in X) /\ b \notin X => Once(mainQ \o <<a, b>>, X)
          /\ \A A, B : Before(mainQ, A, B) /\ a \notin A /\ b \notin A => Before(mainQ \o <<a, b>>, A, B)
  BY <1>3, PostTwo
<1> QED
  BY <1>1, <1>2, <1>3, <1>4

-----------------------------------------------------------------------------
(* The parts of the type invariant                                         *)

\* The types of the variables the steps write to.
LEMMA TypeFacts ==
    ASSUME TypeOK
    PROVE  /\ sock \in [Sessions -> {"none", "open", "closed"}]
           /\ netQ \in [Sessions -> Seq(NetOps)]
           /\ conn \in [Sessions -> ConnStates]
           /\ connectCalls \in [Sessions -> Nat]
           /\ closeCalls \in [Sessions -> Nat]
           /\ reads \in [Sessions -> Nat]
BY DEF TypeOK

\* In the initial state nothing has happened.
LEMMA InitIInv == Init => IInv
<1> SUFFICES ASSUME Init PROVE IInv
  OBVIOUS
<1> USE DEF Init
<1>1. TypeOK
  <2>1. PICK b \in Budgets :
            /\ reads = [s \in Sessions |-> b.reads]
            /\ orders = b.orders
            /\ stops = b.stops
            /\ conn = [s \in Sessions |-> IF s \in b.connects THEN "none" ELSE "unused"]
    OBVIOUS
  <2>2. b.reads \in Nat /\ b.orders \in Nat /\ b.stops \in 0..1
    BY SessionBounds
  <2>3. netQ \in [Sessions -> Seq(NetOps)] /\ mainQ \in Seq(MainOps \X Sessions)
    OBVIOUS
  <2> QED
    BY <2>1, <2>2, <2>3 DEF TypeOK, ConnStates, Stages
<1>2. SUFFICES ASSUME NEW s \in Sessions PROVE SInv(s)
  BY <1>1 DEF IInv
<1>3. netQ[s] = << >> /\ mainQ = << >>
  OBVIOUS
<1>4. \A X : ~In(netQ[s], X) /\ ~In(mainQ, X) /\ Once(netQ[s], X) /\ Once(mainQ, X)
  BY <1>3 DEF In, Once
<1>5. Before(mainQ, Entry(s), End(s))
  BY <1>3 DEF Before
<1>6. ChainInv(s)
  BY <1>4 DEF ChainInv
<1>7. OpeningInv(s)
  BY DEF OpeningInv
<1>8. FreshInv(s) /\ UnnamedInv(s) /\ RegisterInv(s) /\ EntryInv(s)
  BY <1>3, <1>4, <1>5 DEF FreshInv, UnnamedInv, RegisterInv, EntryInv
<1>9. MapInv(s) /\ CallInv(s) /\ KindInv(s) /\ FirstReadInv(s)
  BY <1>4 DEF MapInv, CallInv, KindInv, FirstReadInv
<1> QED
  BY <1>6, <1>7, <1>8, <1>9 DEF SInv, RunInv

\* A step that changes the stage alone.
LEMMA StageOnly ==
    ASSUME IInv, UNCHANGED <<maps, io, queues, calls, opening, bounds>>,
           stage' = stage \/ (stage' \in Stages /\ stage' # "run")
    PROVE  IInv'
<1> USE DEF maps, io, queues, calls, opening, bounds
<1>1. TypeOK'
  BY DEF IInv, TypeOK
<1>2. ASSUME NEW r \in Sessions PROVE SInv(r)'
  <2>1. Same(r)
    BY DEF Same, Fresh
  <2>2. SameOnMain(r)
    BY SameOnMainUnchanged
  <2>3. SInv(r)
    BY DEF IInv
  <2> QED
    BY <2>1, <2>2, <2>3, Frame
<1> QED
  BY <1>1, <1>2 DEF IInv

\* The threads' maps are posted to be cleared, and nothing is read for it.
LEMMA StopBeginIInv == IInv /\ StopBegin => IInv'
<1> SUFFICES ASSUME IInv, StopBegin PROVE IInv'
  OBVIOUS
<1> USE DEF maps, io, queues, calls, opening, bounds
<1>0. /\ stage' = "stopping"
      /\ netQ' = [s \in Sessions |-> netQ[s] \o (IF s \in m_mapSession THEN <<"close">> ELSE <<>>)
                                             \o <<"clear">>]
      /\ UNCHANGED <<maps, io, calls, opening, bounds, mainQ>>
  BY DEF StopBegin
<1>1. ASSUME NEW s \in Sessions
      PROVE  /\ netQ'[s] \in Seq(NetOps)
             /\ In(netQ'[s], Reads) <=> In(netQ[s], Reads)
             /\ Once(netQ[s], Reads) => Once(netQ'[s], Reads)
  <2>1. PICK q \in Seq(NetOps) : q = netQ[s]
    BY TypeFacts DEF IInv
  <2>2. "close" \in NetOps /\ "clear" \in NetOps /\ "close" \notin Reads /\ "clear" \notin Reads
    BY DEF NetOps, Reads
  <2>3. PICK p : p = q \o (IF s \in m_mapSession THEN <<"close">> ELSE <<>>)
    OBVIOUS
  <2>4. /\ p \in Seq(NetOps)
        /\ In(p, Reads) <=> In(q, Reads)
        /\ Once(q, Reads) => Once(p, Reads)
    <3>1. CASE s \in m_mapSession
      <4>1. p = q \o <<"close">>
        BY <2>3, <3>1
      <4> QED
        BY <2>2, <4>1, PostOne
    <3>2. CASE s \notin m_mapSession
      BY <2>3, <3>2, ConcatProperties
    <3> QED
      BY <3>1, <3>2
  <2>5. netQ'[s] = p \o <<"clear">>
    BY <1>0, <2>1, <2>3
  <2>6. /\ p \o <<"clear">> \in Seq(NetOps)
        /\ In(p \o <<"clear">>, Reads) <=> In(p, Reads)
        /\ Once(p, Reads) => Once(p \o <<"clear">>, Reads)
    BY <2>2, <2>4, PostOne
  <2> QED
    BY <2>1, <2>4, <2>5, <2>6
<1>2. netQ' \in [Sessions -> Seq(NetOps)]
  <2> DEFINE f(s) == netQ[s] \o (IF s \in m_mapSession THEN <<"close">> ELSE <<>>) \o <<"clear">>
  <2>1. netQ' = [s \in Sessions |-> f(s)]
    BY <1>0
  <2>2. \A s \in Sessions : netQ'[s] = f(s)
    BY <1>0
  <2>3. \A s \in Sessions : f(s) \in Seq(NetOps)
    BY <1>1, <2>2
  <2> HIDE DEF f
  <2> QED
    BY <2>1, <2>3
<1>3. TypeOK'
  BY <1>0, <1>2 DEF IInv, TypeOK, Stages
<1>4. ASSUME NEW r \in Sessions PROVE SInv(r)'
  <2>1. ChainInv(r) /\ OpeningInv(r)
    BY DEF IInv, SInv
  <2>2. Fresh(r)' <=> Fresh(r)
    BY <1>0 DEF Fresh
  <2>3. ChainInv(r)'
    BY <1>0, <1>1, <2>1, <2>2 DEF ChainInv
  <2>4. OpeningInv(r)'
    BY <1>0, <2>1 DEF OpeningInv
  <2> QED
    BY <1>0, <2>3, <2>4 DEF SInv
<1> QED
  BY <1>0, <1>3, <1>4 DEF IInv

-----------------------------------------------------------------------------
(* The listen loop                                                         *)

\* The next session was unknown, and stays without a connection.
LEMMA AcceptNextFresh ==
    ASSUME IInv, AcceptNext, conn' = conn
    PROVE  /\ named' \subseteq Sessions /\ accepting' \in Accepts \cup {NoSession}
           /\ accepting' # NoSession => accepting' \in named'
           /\ \A r \in Connects : r \in named' <=> r \in named
           /\ \A r \in Sessions : r # accepting => (Fresh(r)' <=> Fresh(r))
           /\ \A r \in Accepts : r = accepting => ~Fresh(r)'
<1>1. named \subseteq Sessions /\ (accepting # NoSession => accepting \in named) /\ accepting \in Accepts \cup {NoSession}
  BY DEF IInv, TypeOK
<1>2. CASE \E s \in Accepts : s \notin named /\ accepting' = s /\ named' = named \cup {s}
  <2>1. PICK s \in Accepts : s \notin named /\ accepting' = s /\ named' = named \cup {s}
    BY <1>2
  <2>2. s # NoSession /\ s \in Sessions /\ s \notin Connects /\ s # accepting
    BY <1>1, <2>1, SessionAssumption DEF Sessions
  <2>3. \A r \in Sessions : r # accepting => (Fresh(r)' <=> Fresh(r))
    BY <2>1, <2>2 DEF Fresh
  <2>4. \A r \in Accepts : r = accepting => ~Fresh(r)'
    <3> SUFFICES ASSUME NEW r \in Accepts, r = accepting PROVE ~Fresh(r)'
      OBVIOUS
    <3>1. r \in named' /\ r # accepting'
      BY <1>1, <2>1, <2>2, SessionAssumption
    <3> QED
      BY <3>1 DEF Fresh
  <2> QED
    BY <1>1, <2>1, <2>2, <2>3, <2>4
<1>3. CASE Accepts \subseteq named /\ accepting' = NoSession /\ UNCHANGED named
  <2>1. \A r \in Sessions : r # accepting => (Fresh(r)' <=> Fresh(r))
    BY <1>3, SessionAssumption DEF Fresh, Sessions
  <2>2. \A r \in Accepts : r = accepting => ~Fresh(r)'
    BY <1>1, <1>3, SessionAssumption DEF Fresh
  <2> QED
    BY <1>1, <1>3, <2>1, <2>2
<1> QED
  BY <1>2, <1>3 DEF AcceptNext

\* Listen waits for the first connection, with a session nobody knows.
LEMMA ListenIInv == IInv /\ Listen => IInv'
<1> SUFFICES ASSUME IInv, Listen PROVE IInv'
  OBVIOUS
<1> USE DEF maps, io, queues, calls, bounds
<1>0. /\ accepting = NoSession /\ AcceptNext
      /\ UNCHANGED <<maps, io, queues, calls, bounds, conn, stage>>
  BY DEF Listen
<1>1. TypeOK'
  BY <1>0, AcceptNextFresh DEF IInv, TypeOK
<1>2. ASSUME NEW r \in Sessions PROVE SInv(r)'
  <2>0. r # accepting
    BY <1>0, SessionAssumption DEF Sessions
  <2>1. Same(r)
    BY <1>0, <2>0, AcceptNextFresh DEF Same
  <2>2. SameOnMain(r)
    BY <1>0, SameOnMainUnchanged
  <2>3. SInv(r)
    BY DEF IInv
  <2> QED
    BY <1>0, <2>1, <2>2, <2>3, Frame
<1> QED
  BY <1>0, <1>1, <1>2, AcceptNextFresh DEF IInv

\* The accepted session is unknown but for the handler that registers it.
LEMMA AcceptDoneIInv ==
    ASSUME IInv, NEW s \in Accepts, AcceptDone(s)
    PROVE  IInv'
<1> USE DEF maps, io, queues, calls, bounds
<1>0. /\ accepting = s /\ AcceptNext /\ s \in Sessions /\ s # NoSession /\ s \notin Connects
      /\ UNCHANGED <<maps, calls, bounds, reading, m_timerSessionAlive, mainQ, conn, stage>>
  BY SessionAssumption DEF AcceptDone, Sessions
<1>1. \/ sock' = [sock EXCEPT ![s] = "open"] /\ PostNet(s, "register")
      \/ UNCHANGED <<sock, netQ>>
  BY DEF AcceptDone
<1>2. /\ TypeOK /\ "register" \in NetOps
      /\ \A r \in Sessions : SInv(r)
  BY DEF IInv, NetOps
<1>3. /\ netQ' \in [Sessions -> Seq(NetOps)] /\ sock' \in [Sessions -> {"none", "open", "closed"}]
      /\ \A r \in Sessions : r # s => netQ'[r] = netQ[r] /\ sock'[r] = sock[r]
  BY <1>0, <1>1, <1>2, NetPush, TypeFacts, ZenonT(60)
<1>4. TypeOK'
  BY <1>0, <1>2, <1>3, AcceptNextFresh DEF TypeOK
<1>5. ASSUME NEW r \in Sessions, r # s PROVE SInv(r)'
  <2>1. Same(r)
    BY <1>0, <1>3, <1>5, AcceptNextFresh DEF Same
  <2>2. SameOnMain(r)
    BY <1>0, SameOnMainUnchanged
  <2> QED
    BY <1>0, <1>2, <2>1, <2>2, Frame
<1>6. SInv(s)'
  <2>0. ~Fresh(s)' /\ Fresh(s) /\ SInv(s)
    BY <1>0, <1>2, AcceptNextFresh DEF Fresh
  <2>1. /\ s \notin reading' /\ ~In(netQ[s], Reads)
    BY <1>0, <2>0 DEF SInv, ChainInv
  <2>2. ~In(netQ'[s], Reads) /\ Once(netQ'[s], Reads)
    <3>1. CASE UNCHANGED <<sock, netQ>>
      BY <2>0, <2>1, <3>1 DEF SInv, ChainInv
    <3>2. CASE PostNet(s, "register")
      <4>1. "register" \notin Reads
        BY DEF Reads
      <4>2. Once(netQ[s], Reads)
        BY <2>0 DEF SInv, ChainInv
      <4> QED
        BY <1>0, <1>2, <2>1, <3>2, <4>1, <4>2, NetPush
    <3> QED
      BY <1>1, <3>1, <3>2
  <2>3. ChainInv(s)'
    BY <2>0, <2>1, <2>2 DEF ChainInv
  <2>4. OpeningInv(s)'
    BY <1>0 DEF OpeningInv
  <2>5. ASSUME stage' = "run" PROVE RunInv(s)'
    <3>0. RunInv(s) /\ FreshInv(s)
      BY <1>0, <2>0, <2>5 DEF SInv, RunInv
    <3>a. /\ netQ[s] = << >> /\ ~In(mainQ, Entry(s)) /\ ~In(mainQ, End(s))
          /\ s \notin t_mapSession /\ s \notin m_mapSession /\ sock[s] = "none"
      BY <2>0, <3>0 DEF FreshInv
    <3>b. \A X : ~In(netQ[s], X) /\ Once(netQ[s], X)
      BY <3>a DEF In, Once
    <3>1. CASE UNCHANGED <<sock, netQ>>
      <4>1. FreshInv(s)' /\ UnnamedInv(s)' /\ FirstReadInv(s)'
        BY <1>0, <2>0, <2>1, <2>2 DEF FreshInv, UnnamedInv, FirstReadInv
      <4>2. RegisterInv(s)' /\ EntryInv(s)'
        BY <1>0, <3>0, <3>1 DEF RunInv, RegisterInv, EntryInv
      <4>3. MapInv(s)' /\ CallInv(s)' /\ KindInv(s)'
        BY <1>0, <3>0, <3>1 DEF RunInv, MapInv, CallInv, KindInv
      <4> QED
        BY <4>1, <4>2, <4>3 DEF RunInv
    <3>2. CASE sock' = [sock EXCEPT ![s] = "open"] /\ PostNet(s, "register")
      <4>0. sock'[s] = "open"
        BY <1>0, <1>2, <3>2, TypeFacts
      <4>a. \A X : (In(netQ'[s], X) <=> "register" \in X)
        BY <1>0, <1>2, <3>2, <3>b, NetPush
      <4>b. Once(netQ'[s], {"register"}) /\ Head(netQ'[s]) = "register"
        BY <1>0, <1>2, <3>2, <3>a, <3>b, NetPush
      <4>c. ~In(netQ'[s], {"erase"}) /\ ~In(netQ'[s], {"clear"})
        BY <4>a
      <4>d. Once(mainQ, Entry(s)) /\ Before(mainQ, Entry(s), End(s)) /\ KindInv(s)
        BY <3>0 DEF RunInv, EntryInv
      <4>1. FreshInv(s)' /\ UnnamedInv(s)' /\ FirstReadInv(s)'
        BY <1>0, <2>0, <2>1, <2>2 DEF FreshInv, UnnamedInv, FirstReadInv
      <4>2. RegisterInv(s)'
        BY <1>0, <3>a, <4>0, <4>b, <4>c DEF RegisterInv
      <4>3. EntryInv(s)'
        BY <1>0, <3>a, <4>d DEF EntryInv
      <4>4. MapInv(s)'
        BY <1>0, <3>a, <4>c DEF MapInv
      <4>5. CallInv(s)' /\ KindInv(s)'
        BY <1>0, <3>0, <4>d DEF RunInv, CallInv, KindInv
      <4> QED
        BY <4>1, <4>2, <4>3, <4>4, <4>5 DEF RunInv
    <3> QED
      BY <1>1, <3>1, <3>2
  <2> QED
    BY <2>3, <2>4, <2>5 DEF SInv
<1> QED
  BY <1>0, <1>4, <1>5, <1>6, AcceptNextFresh DEF IInv

-----------------------------------------------------------------------------
(* Steps of a session's thread, of its socket and its timer                *)

\* The chain of reads of session s goes on or ends.
ChainKept(s) ==
    /\ s \in reading' \/ In(netQ'[s], Reads) => s \in reading \/ In(netQ[s], Reads)
    /\ Once(netQ'[s], Reads)
    /\ s \in reading' => ~In(netQ'[s], Reads)

\* Registration and removal of session s are as far as they were.
RegistrationKept(s) ==
    /\ ~Fresh(s)
    /\ \A op \in {"register", "erase", "clear"} : In(netQ'[s], {op}) <=> In(netQ[s], {op})
    /\ Once(netQ'[s], {"register"})
    /\ In(netQ'[s], {"register"}) => Head(netQ'[s]) = "register"

\* A step that is about a session's thread alone.
LEMMA NetOnly ==
    ASSUME IInv, NEW s \in Sessions, TypeOK',
           UNCHANGED <<maps, calls, opening, sock, mainQ, stage>>,
           \A r \in Sessions : r # s => /\ netQ'[r] = netQ[r]
                                        /\ r \in reading' <=> r \in reading
                                        /\ r \in m_timerSessionAlive' <=> r \in m_timerSessionAlive,
           ChainKept(s), stage = "run" => RegistrationKept(s)
    PROVE  IInv'
<1> USE DEF maps, calls, opening
<1>0. \A r \in Sessions : SInv(r) /\ (Fresh(r)' <=> Fresh(r))
  BY DEF IInv, Fresh
<1>1. ASSUME NEW r \in Sessions, r # s PROVE SInv(r)'
  <2>1. Same(r)
    BY <1>0, <1>1 DEF Same
  <2>2. SameOnMain(r)
    BY SameOnMainUnchanged
  <2> QED
    BY <1>0, <2>1, <2>2, Frame
<1>2. SInv(s)'
  <2>1. ChainInv(s)'
    BY <1>0 DEF ChainKept, ChainInv, SInv
  <2>2. OpeningInv(s)'
    BY <1>0 DEF OpeningInv, SInv
  <2>3. ASSUME stage' = "run" PROVE RunInv(s)'
    <3>0. RunInv(s) /\ RegistrationKept(s)
      BY <1>0, <2>3 DEF SInv
    <3>1. /\ ~Fresh(s)'
          /\ In(netQ'[s], {"register"}) <=> In(netQ[s], {"register"})
          /\ In(netQ'[s], {"erase"}) <=> In(netQ[s], {"erase"})
          /\ In(netQ'[s], {"clear"}) <=> In(netQ[s], {"clear"})
          /\ Once(netQ'[s], {"register"})
          /\ In(netQ'[s], {"register"}) => Head(netQ'[s]) = "register"
      BY <1>0, <3>0 DEF RegistrationKept
    <3>2. FreshInv(s)' /\ UnnamedInv(s)'
      BY <3>0, <3>1 DEF RunInv, FreshInv, UnnamedInv
    <3>3. RegisterInv(s)'
      BY <3>0, <3>1 DEF RunInv, RegisterInv
    <3>4. EntryInv(s)' /\ MapInv(s)'
      BY <3>0, <3>1 DEF RunInv, EntryInv, MapInv
    <3>5. CallInv(s)' /\ KindInv(s)'
      BY <3>0, <3>1 DEF RunInv, CallInv, KindInv
    <3>6. FirstReadInv(s)'
      BY <3>0, <3>1 DEF RunInv, FirstReadInv, ChainKept
    <3> QED
      BY <3>2, <3>3, <3>4, <3>5, <3>6 DEF RunInv
  <2> QED
    BY <2>1, <2>2, <2>3 DEF SInv
<1> QED
  BY <1>1, <1>2 DEF IInv

\* A handler of the thread that does not register or remove.
LEMMA QuietPop ==
    ASSUME IInv, NEW s \in Sessions, NEW op \in {"readOk", "readErr", "timeout", "send"},
           AtNet(s, op), NEW ops \in QuietOps, NetDone(s, ops)
    PROVE  /\ netQ' \in [Sessions -> Seq(NetOps)]
           /\ \A r \in Sessions : r # s => netQ'[r] = netQ[r]
           /\ stage = "run" => RegistrationKept(s)
           /\ op \in Reads => ~In(Tail(netQ[s]), Reads)
           /\ In(netQ'[s], Reads) <=> In(Tail(netQ[s]), Reads) \/ In(ops, Reads)
           /\ In(netQ[s], Reads) <=> op \in Reads \/ In(Tail(netQ[s]), Reads)
           /\ ~(In(Tail(netQ[s]), Reads) /\ In(ops, Reads)) => Once(netQ'[s], Reads)
<1>0. TypeOK /\ SInv(s) /\ ops \in Seq(NetOps) /\ Once(ops, Reads)
  BY QuietOpsFacts DEF IInv
<1>1. /\ netQ' \in [Sessions -> Seq(NetOps)]
      /\ \A r \in Sessions : r # s => netQ'[r] = netQ[r]
      /\ \A X : In(netQ[s], X) <=> op \in X \/ In(Tail(netQ[s]), X)
      /\ \A X : In(netQ'[s], X) <=> In(Tail(netQ[s]), X) \/ In(ops, X)
      /\ \A X : Once(netQ[s], X) /\ Once(ops, X) /\ ~(In(Tail(netQ[s]), X) /\ In(ops, X))
                         => Once(netQ'[s], X)
      /\ \A X : Once(netQ[s], X) /\ op \in X => ~In(Tail(netQ[s]), X)
  BY <1>0, NetPop
<1>2. Once(netQ[s], Reads)
  BY <1>0 DEF SInv, ChainInv
<1>3. ASSUME stage = "run" PROVE RegistrationKept(s)
  <2>0. RunInv(s) /\ Once(netQ[s], {"register"})
    BY <1>0, <1>3 DEF SInv, RunInv, RegisterInv
  <2>1. ~Fresh(s)
    BY <2>0 DEF RunInv, FreshInv, AtNet
  <2>2. ~In(netQ[s], {"register"})
    <3>1. Head(netQ[s]) # "register"
      BY DEF AtNet
    <3> QED
      BY <2>0, <3>1 DEF RunInv, RegisterInv
  <2>3. ~In(ops, {"register"}) /\ ~In(ops, {"erase"}) /\ ~In(ops, {"clear"}) /\ Once(ops, {"register"})
    BY QuietOpsFacts
  <2>4. op \notin {"register"} /\ op \notin {"erase"} /\ op \notin {"clear"}
    OBVIOUS
  <2>5. \A X \in {{"register"}, {"erase"}, {"clear"}} : In(netQ'[s], X) <=> In(netQ[s], X)
    BY <1>1, <2>3, <2>4
  <2>6. Once(netQ'[s], {"register"})
    BY <1>1, <2>0, <2>3
  <2>7. ~In(netQ'[s], {"register"})
    BY <2>2, <2>5
  <2>8. \A o \in {"register", "erase", "clear"} : In(netQ'[s], {o}) <=> In(netQ[s], {o})
    BY <2>5
  <2> QED
    BY <2>1, <2>6, <2>7, <2>8 DEF RegistrationKept
<1> QED
  BY <1>0, <1>1, <1>2, <1>3

\* A handler becomes ready that does not register or remove.
LEMMA QuietPush ==
    ASSUME IInv, NEW s \in Sessions, NEW op \in {"readOk", "readErr", "timeout", "send", "close"},
           PostNet(s, op), stage = "run" => ~Fresh(s)
    PROVE  /\ netQ' \in [Sessions -> Seq(NetOps)]
           /\ \A r \in Sessions : r # s => netQ'[r] = netQ[r]
           /\ stage = "run" => RegistrationKept(s)
           /\ In(netQ'[s], Reads) <=> In(netQ[s], Reads) \/ op \in Reads
           /\ ~(In(netQ[s], Reads) /\ op \in Reads) => Once(netQ'[s], Reads)
<1>0. TypeOK /\ SInv(s) /\ op \in NetOps
  BY DEF IInv, NetOps
<1>1. /\ netQ' \in [Sessions -> Seq(NetOps)]
      /\ \A r \in Sessions : r # s => netQ'[r] = netQ[r]
      /\ \A X : In(netQ'[s], X) <=> In(netQ[s], X) \/ op \in X
      /\ \A X : Once(netQ[s], X) /\ ~(In(netQ[s], X) /\ op \in X) => Once(netQ'[s], X)
      /\ netQ[s] # << >> => Head(netQ'[s]) = Head(netQ[s])
  BY <1>0, NetPush
<1>2. Once(netQ[s], Reads)
  BY <1>0 DEF SInv, ChainInv
<1>3. ASSUME stage = "run" PROVE RegistrationKept(s)
  <2>0. RunInv(s) /\ Once(netQ[s], {"register"})
    BY <1>0, <1>3 DEF SInv, RunInv, RegisterInv
  <2>1. op \notin {"register"} /\ op \notin {"erase"} /\ op \notin {"clear"}
    OBVIOUS
  <2>2. \A X \in {{"register"}, {"erase"}, {"clear"}} : In(netQ'[s], X) <=> In(netQ[s], X)
    BY <1>1, <2>1
  <2>3. \A o \in {"register", "erase", "clear"} : In(netQ'[s], {o}) <=> In(netQ[s], {o})
    BY <2>2
  <2>4. Once(netQ'[s], {"register"})
    BY <1>1, <2>0, <2>1
  <2>5. ASSUME In(netQ[s], {"register"}) PROVE Head(netQ'[s]) = "register"
    <3>1. netQ[s] # << >>
      BY <2>5 DEF In
    <3> QED
      BY <1>1, <2>0, <2>5, <3>1 DEF RunInv, RegisterInv
  <2> QED
    BY <1>3, <2>3, <2>4, <2>5 DEF RegistrationKept
<1> QED
  BY <1>0, <1>1, <1>2, <1>3

\* SocketReadable and TimerExpires, SendPacket and CloseInMainLoop make a handler
\* ready.
LEMMA PushIInv ==
    ASSUME IInv, NEW s \in Sessions,
           SocketReadable(s) \/ TimerExpires(s) \/ SendPacket(s) \/ CloseInMainLoop(s)
    PROVE  IInv'
<1> USE DEF maps, io, calls, opening
<1>0. TypeOK /\ SInv(s)
  BY DEF IInv
<1>1. CASE SocketReadable(s)
  <2>0. /\ s \in reading /\ reading' = reading \ {s}
        /\ UNCHANGED <<maps, calls, opening, sock, m_timerSessionAlive, mainQ, stage, orders, stops>>
        /\ reads' \in [Sessions -> Nat]
    <3>1. CASE reads' = [reads EXCEPT ![s] = @ - 1] /\ reads[s] > 0
      <4>1. reads[s] - 1 \in Nat
        BY <1>0, <3>1, TypeFacts
      <4> QED
        BY <1>0, <1>1, <3>1, <4>1, TypeFacts DEF SocketReadable
    <3> QED
      BY <1>0, <1>1, <3>1, TypeFacts DEF SocketReadable
  <2>1. PICK op \in {"readOk", "readErr"} : PostNet(s, op)
    BY <1>1 DEF SocketReadable
  <2>2. ~In(netQ[s], Reads) /\ ~Fresh(s)
    BY <1>0, <2>0 DEF SInv, ChainInv
  <2>3. /\ netQ' \in [Sessions -> Seq(NetOps)]
        /\ \A r \in Sessions : r # s => netQ'[r] = netQ[r]
        /\ stage = "run" => RegistrationKept(s)
        /\ Once(netQ'[s], Reads)
    BY <2>1, <2>2, QuietPush
  <2>4. ChainKept(s)
    BY <2>0, <2>3 DEF ChainKept
  <2>5. TypeOK'
    BY <1>0, <2>0, <2>3 DEF TypeOK
  <2> QED
    BY <2>0, <2>3, <2>4, <2>5, NetOnly
<1>2. CASE TimerExpires(s)
  <2>0. /\ s \in m_timerSessionAlive /\ m_timerSessionAlive' = m_timerSessionAlive \ {s}
        /\ PostNet(s, "timeout")
        /\ UNCHANGED <<maps, calls, opening, bounds, sock, reading, mainQ, stage>>
    BY <1>2 DEF TimerExpires
  <2>1. stage = "run" => ~Fresh(s)
    BY <1>0, <2>0 DEF SInv, RunInv, FreshInv
  <2>2. "timeout" \notin Reads
    BY DEF Reads
  <2>3. /\ netQ' \in [Sessions -> Seq(NetOps)]
        /\ \A r \in Sessions : r # s => netQ'[r] = netQ[r]
        /\ stage = "run" => RegistrationKept(s)
        /\ In(netQ'[s], Reads) <=> In(netQ[s], Reads)
        /\ Once(netQ'[s], Reads)
    BY <2>0, <2>1, <2>2, QuietPush
  <2>4. ChainKept(s)
    BY <1>0, <2>0, <2>3 DEF ChainKept, SInv, ChainInv
  <2>5. TypeOK'
    BY <1>0, <2>0, <2>3 DEF TypeOK, bounds
  <2> QED
    BY <2>0, <2>3, <2>4, <2>5, NetOnly
<1>3. CASE SendPacket(s) \/ CloseInMainLoop(s)
  <2>0. /\ stage = "run" /\ orders > 0 /\ orders' = orders - 1 /\ s \in m_mapSession
        /\ UNCHANGED <<maps, io, calls, opening, mainQ, stage, reads, stops>>
    BY <1>3 DEF SendPacket, CloseInMainLoop
  <2>1. PICK op \in {"send", "close"} : PostNet(s, op)
    BY <1>3 DEF SendPacket, CloseInMainLoop
  <2>2. ~Fresh(s)
    BY <1>0, <2>0 DEF SInv, RunInv, FreshInv
  <2>3. op \notin Reads
    BY <2>1 DEF Reads
  <2>4. /\ netQ' \in [Sessions -> Seq(NetOps)]
        /\ \A r \in Sessions : r # s => netQ'[r] = netQ[r]
        /\ stage = "run" => RegistrationKept(s)
        /\ In(netQ'[s], Reads) <=> In(netQ[s], Reads)
        /\ Once(netQ'[s], Reads)
    BY <2>1, <2>2, <2>3, QuietPush
  <2>5. ChainKept(s)
    BY <1>0, <2>0, <2>4 DEF ChainKept, SInv, ChainInv
  <2>6. TypeOK'
    BY <1>0, <2>0, <2>4 DEF TypeOK
  <2> QED
    BY <2>0, <2>4, <2>5, <2>6, NetOnly
<1> QED
  BY <1>1, <1>2, <1>3

\* A handler of the thread that leaves the session as it was: NetReadErr,
\* NetTimeout and NetSend.
LEMMA QuietHandlerIInv ==
    ASSUME IInv, NEW s \in Sessions, NetReadErr(s) \/ NetTimeout(s) \/ NetSend(s)
    PROVE  IInv'
<1> USE DEF maps, io, calls, opening, bounds
<1>0. TypeOK /\ SInv(s)
  BY DEF IInv
<1>1. UNCHANGED <<maps, io, calls, opening, bounds, mainQ, stage>>
  BY DEF NetReadErr, NetTimeout, NetSend
<1>2. PICK op \in {"readErr", "timeout", "send"}, ops \in {<< >>, <<"close">>} : AtNet(s, op) /\ NetDone(s, ops)
  BY DEF NetReadErr, NetTimeout, NetSend
<1>3. ops \in QuietOps /\ ops \notin {<<"readErr">>, <<"close", "readErr">>}
  BY <1>2 DEF QuietOps
<1>4. ~In(ops, Reads)
  BY <1>3, QuietOpsFacts
<1>5. /\ netQ' \in [Sessions -> Seq(NetOps)]
      /\ \A r \in Sessions : r # s => netQ'[r] = netQ[r]
      /\ stage = "run" => RegistrationKept(s)
      /\ In(netQ'[s], Reads) => In(netQ[s], Reads)
      /\ Once(netQ'[s], Reads)
  BY <1>2, <1>3, <1>4, QuietPop
<1>6. ChainKept(s)
  BY <1>0, <1>1, <1>5 DEF ChainKept, SInv, ChainInv
<1>7. TypeOK'
  BY <1>0, <1>1, <1>5 DEF TypeOK
<1> QED
  BY <1>1, <1>5, <1>6, <1>7, NetOnly

\* The read that is handled is the only one, and the next one takes its place.
LEMMA NetReadOkIInv ==
    ASSUME IInv, NEW s \in Sessions, NetReadOk(s)
    PROVE  IInv'
<1> USE DEF maps, calls, opening, bounds
<1>0. TypeOK /\ SInv(s)
  BY DEF IInv
<1>1. /\ AtNet(s, "readOk") /\ DoSessionRead(s)
      /\ UNCHANGED <<maps, calls, opening, bounds, sock, mainQ, stage>>
      /\ m_timerSessionAlive' \subseteq Accepts
      /\ \A r \in Sessions : r # s => (r \in m_timerSessionAlive' <=> r \in m_timerSessionAlive)
  BY <1>0 DEF NetReadOk, TypeOK
<1>2. PICK ops \in QuietOps :
          NetDone(s, ops) /\ (In(ops, Reads) <=> sock[s] # "open")
  <2>1. /\ << >> \o << >> = << >> /\ << >> \o <<"readErr">> = <<"readErr">>
        /\ <<"close">> \o << >> = <<"close">> /\ <<"close">> \o <<"readErr">> = <<"close", "readErr">>
    BY ShortConcat DEF NetOps
  <2>2. PICK close \in {<< >>, <<"close">>} : NetDone(s, close \o ReadOps(s))
    BY <2>1 DEF NetReadOk, ReadOps
  <2>3. CASE sock[s] = "open"
    <3>1. close \o ReadOps(s) \in {<< >>, <<"close">>}
      BY <2>1, <2>2, <2>3 DEF ReadOps
    <3>2. \A ops \in {<< >>, <<"close">>} : ops \in QuietOps /\ ops \notin {<<"readErr">>, <<"close", "readErr">>}
      BY DEF QuietOps
    <3>3. PICK ops \in {<< >>, <<"close">>} : ops = close \o ReadOps(s)
      BY <3>1
    <3>4. ~In(ops, Reads)
      BY <3>2, QuietOpsFacts
    <3> QED
      BY <2>2, <2>3, <3>2, <3>3, <3>4
  <2>4. CASE sock[s] # "open"
    <3>1. close \o ReadOps(s) \in {<<"readErr">>, <<"close", "readErr">>}
      BY <2>1, <2>2, <2>4 DEF ReadOps
    <3>2. PICK ops \in {<<"readErr">>, <<"close", "readErr">>} : ops = close \o ReadOps(s)
      BY <3>1
    <3>3. ops \in QuietOps
      BY <3>2 DEF QuietOps
    <3>4. In(ops, Reads)
      BY <3>2, <3>3, QuietOpsFacts
    <3> QED
      BY <2>2, <2>4, <3>2, <3>3, <3>4
  <2> QED
    BY <2>3, <2>4
<1>3. "readOk" \in Reads
  BY DEF Reads
<1>4. /\ netQ' \in [Sessions -> Seq(NetOps)]
      /\ \A r \in Sessions : r # s => netQ'[r] = netQ[r]
      /\ stage = "run" => RegistrationKept(s)
      /\ In(netQ'[s], Reads) <=> sock[s] # "open"
      /\ In(netQ[s], Reads)
      /\ Once(netQ'[s], Reads)
  BY <1>1, <1>2, <1>3, QuietPop
<1>5. s \notin reading
  BY <1>0, <1>4 DEF SInv, ChainInv
<1>6. ChainKept(s)
  BY <1>1, <1>4, <1>5 DEF ChainKept, DoSessionRead
<1>7. /\ reading' \subseteq Sessions
      /\ \A r \in Sessions : r # s => (r \in reading' <=> r \in reading)
  BY <1>0, <1>1 DEF DoSessionRead, TypeOK
<1>8. TypeOK'
  BY <1>0, <1>1, <1>4, <1>7 DEF TypeOK
<1> QED
  BY <1>1, <1>4, <1>6, <1>7, <1>8, NetOnly

-----------------------------------------------------------------------------
(* Registration and close                                                  *)

\* What the main loop's queue holds of a session whose handler is taken.
LEMMA MainPopOwn ==
    ASSUME TypeOK, NEW s \in Sessions, NEW op \in MainOps, AtMain(s, op), MainDone
    PROVE  /\ In(mainQ, Entry(s)) <=> op \in {"accepted", "connected"} \/ In(mainQ', Entry(s))
           /\ In(mainQ, End(s)) <=> op \in {"closed", "remove"} \/ In(mainQ', End(s))
           /\ \A o \in MainOps : In(mainQ, {<<o, s>>}) <=> op = o \/ In(mainQ', {<<o, s>>})
           /\ Once(mainQ, Entry(s)) => Once(mainQ', Entry(s))
           /\ \A o \in MainOps : Once(mainQ, {<<o, s>>}) => Once(mainQ', {<<o, s>>})
           /\ Once(mainQ, Entry(s)) /\ op \in {"accepted", "connected"} => ~In(mainQ', Entry(s))
           /\ Once(mainQ, {<<op, s>>}) => ~In(mainQ', {<<op, s>>})
           /\ Before(mainQ, Entry(s), End(s)) => Before(mainQ', Entry(s), End(s))
           /\ Before(mainQ, Entry(s), End(s)) /\ op \in {"closed", "remove"} => ~In(mainQ', Entry(s))
<1>1. /\ \A X : In(mainQ, X) <=> <<op, s>> \in X \/ In(mainQ', X)
      /\ \A X : Once(mainQ, X) => Once(mainQ', X)
      /\ \A X : Once(mainQ, X) /\ <<op, s>> \in X => ~In(mainQ', X)
      /\ \A A, B : Before(mainQ, A, B) => Before(mainQ', A, B)
      /\ \A A, B : Before(mainQ, A, B) /\ <<op, s>> \in B => ~In(mainQ', A)
  BY MainPop
<1>2. /\ <<op, s>> \in Entry(s) <=> op \in {"accepted", "connected"}
      /\ <<op, s>> \in End(s) <=> op \in {"closed", "remove"}
      /\ \A o \in MainOps : <<op, s>> \in {<<o, s>>} <=> op = o
  BY DEF Entry, End
<1>3. /\ In(mainQ, Entry(s)) <=> <<op, s>> \in Entry(s) \/ In(mainQ', Entry(s))
      /\ In(mainQ, End(s)) <=> <<op, s>> \in End(s) \/ In(mainQ', End(s))
      /\ \A o \in MainOps : In(mainQ, {<<o, s>>}) <=> <<op, s>> \in {<<o, s>>} \/ In(mainQ', {<<o, s>>})
  BY <1>1
<1>4. /\ Once(mainQ, Entry(s)) => Once(mainQ', Entry(s))
      /\ \A o \in MainOps : Once(mainQ, {<<o, s>>}) => Once(mainQ', {<<o, s>>})
      /\ Before(mainQ, Entry(s), End(s)) => Before(mainQ', Entry(s), End(s))
  BY <1>1
<1>5. /\ Once(mainQ, Entry(s)) /\ <<op, s>> \in Entry(s) => ~In(mainQ', Entry(s))
      /\ Once(mainQ, {<<op, s>>}) /\ <<op, s>> \in {<<op, s>>} => ~In(mainQ', {<<op, s>>})
      /\ Before(mainQ, Entry(s), End(s)) /\ <<op, s>> \in End(s) => ~In(mainQ', Entry(s))
  BY <1>1
<1> HIDE DEF Entry, End
<1>6. Once(mainQ, {<<op, s>>}) => ~In(mainQ', {<<op, s>>})
  BY <1>2, <1>5
<1> QED
  BY <1>2, <1>3, <1>4, <1>5, <1>6

\* What the main loop's queue holds of a session for which one is posted.
LEMMA MainPostOwn ==
    ASSUME TypeOK, NEW s \in Sessions, NEW op \in MainOps, PostMain(s, <<op>>)
    PROVE  /\ In(mainQ', Entry(s)) <=> op \in {"accepted", "connected"} \/ In(mainQ, Entry(s))
           /\ In(mainQ', End(s)) <=> op \in {"closed", "remove"} \/ In(mainQ, End(s))
           /\ \A o \in MainOps : In(mainQ', {<<o, s>>}) <=> op = o \/ In(mainQ, {<<o, s>>})
           /\ Once(mainQ, Entry(s)) /\ ~(In(mainQ, Entry(s)) /\ op \in {"accepted", "connected"})
                  => Once(mainQ', Entry(s))
           /\ \A o \in MainOps : Once(mainQ, {<<o, s>>}) /\ ~(In(mainQ, {<<o, s>>}) /\ op = o)
                                     => Once(mainQ', {<<o, s>>})
           /\ Before(mainQ, Entry(s), End(s)) /\ ~(In(mainQ, End(s)) /\ op \in {"accepted", "connected"})
                  => Before(mainQ', Entry(s), End(s))
<1>1. /\ \A X : In(mainQ', X) <=> In(mainQ, X) \/ <<op, s>> \in X
      /\ \A X : Once(mainQ, X) /\ ~(In(mainQ, X) /\ <<op, s>> \in X) => Once(mainQ', X)
      /\ \A A, B : Before(mainQ, A, B) /\ ~(In(mainQ, B) /\ <<op, s>> \in A) /\ ~(<<op, s>> \in A /\ <<op, s>> \in B)
                            => Before(mainQ', A, B)
  BY MainPost
<1>2. /\ <<op, s>> \in Entry(s) <=> op \in {"accepted", "connected"}
      /\ <<op, s>> \in End(s) <=> op \in {"closed", "remove"}
      /\ \A o \in MainOps : <<op, s>> \in {<<o, s>>} <=> op = o
  BY DEF Entry, End
<1>3. /\ In(mainQ', Entry(s)) <=> In(mainQ, Entry(s)) \/ <<op, s>> \in Entry(s)
      /\ In(mainQ', End(s)) <=> In(mainQ, End(s)) \/ <<op, s>> \in End(s)
      /\ \A o \in MainOps : In(mainQ', {<<o, s>>}) <=> In(mainQ, {<<o, s>>}) \/ <<op, s>> \in {<<o, s>>}
  BY <1>1
<1>4. /\ Once(mainQ, Entry(s)) /\ ~(In(mainQ, Entry(s)) /\ <<op, s>> \in Entry(s)) => Once(mainQ', Entry(s))
      /\ \A o \in MainOps : Once(mainQ, {<<o, s>>}) /\ ~(In(mainQ, {<<o, s>>}) /\ <<op, s>> \in {<<o, s>>})
                                => Once(mainQ', {<<o, s>>})
  BY <1>1
<1>5. Before(mainQ, Entry(s), End(s)) /\ ~(In(mainQ, End(s)) /\ <<op, s>> \in Entry(s))
          /\ ~(<<op, s>> \in Entry(s) /\ <<op, s>> \in End(s)) => Before(mainQ', Entry(s), End(s))
  BY <1>1
<1> QED
  BY <1>2, <1>3, <1>4, <1>5

\* The end of a session is posted with or without the callback.
LEMMA MainEndOwn ==
    ASSUME TypeOK, NEW s \in Sessions, NEW cb \in BOOLEAN,
           PostMain(s, IF cb THEN <<"closed", "remove">> ELSE <<"remove">>)
    PROVE  /\ mainQ' \in Seq(MainOps \X Sessions)
           /\ \A r \in Sessions : r # s => SameOnMain(r)
           /\ In(mainQ', Entry(s)) <=> In(mainQ, Entry(s))
           /\ Once(mainQ, Entry(s)) => Once(mainQ', Entry(s))
           /\ Before(mainQ, Entry(s), End(s)) => Before(mainQ', Entry(s), End(s))
           /\ In(mainQ', {<<"remove", s>>})
           /\ In(mainQ', {<<"closed", s>>}) <=> In(mainQ, {<<"closed", s>>}) \/ cb
           /\ Once(mainQ, {<<"closed", s>>}) /\ ~(In(mainQ, {<<"closed", s>>}) /\ cb) => Once(mainQ', {<<"closed", s>>})
           /\ \A o \in {"accepted", "connected", "connect"} :
                  /\ In(mainQ', {<<o, s>>}) <=> In(mainQ, {<<o, s>>})
                  /\ Once(mainQ, {<<o, s>>}) => Once(mainQ', {<<o, s>>})
<1>0. "remove" \in MainOps /\ "closed" \in MainOps /\ {"accepted", "connected", "connect"} \subseteq MainOps
  BY DEF MainOps
<1>1. CASE cb
  <2>0. PostMain(s, <<"closed", "remove">>)
    BY <1>1
  <2>1. /\ mainQ' \in Seq(MainOps \X Sessions)
        /\ \A X : In(mainQ', X) <=> In(mainQ, X) \/ <<"closed", s>> \in X \/ <<"remove", s>> \in X
        /\ \A X : Once(mainQ, X) /\ ~(In(mainQ, X) /\ <<"closed", s>> \in X) /\ <<"remove", s>> \notin X
                         => Once(mainQ', X)
        /\ \A A, B : Before(mainQ, A, B) /\ <<"closed", s>> \notin A /\ <<"remove", s>> \notin A
                            => Before(mainQ', A, B)
    BY <2>0, MainPostEnd
  <2>2. /\ <<"closed", s>> \notin Entry(s) /\ <<"remove", s>> \notin Entry(s)
        /\ <<"closed", s>> \in {<<"closed", s>>} /\ <<"remove", s>> \in {<<"remove", s>>}
        /\ <<"remove", s>> \notin {<<"closed", s>>}
        /\ \A o \in {"accepted", "connected", "connect"} :
               <<"closed", s>> \notin {<<o, s>>} /\ <<"remove", s>> \notin {<<o, s>>}
    BY DEF Entry
  <2>3. \A r \in Sessions : r # s => SameOnMain(r)
    BY <1>0, <2>0, SameOnMainPost
  <2>4. \A X : <<"closed", s>> \notin X /\ <<"remove", s>> \notin X =>
                   (In(mainQ', X) <=> In(mainQ, X)) /\ (Once(mainQ, X) => Once(mainQ', X))
    BY <2>1
  <2>5. /\ In(mainQ', Entry(s)) <=> In(mainQ, Entry(s))
        /\ Once(mainQ, Entry(s)) => Once(mainQ', Entry(s))
        /\ Before(mainQ, Entry(s), End(s)) => Before(mainQ', Entry(s), End(s))
    BY <2>1, <2>2, <2>4
  <2>6. \A o \in {"accepted", "connected", "connect"} :
            /\ In(mainQ', {<<o, s>>}) <=> In(mainQ, {<<o, s>>})
            /\ Once(mainQ, {<<o, s>>}) => Once(mainQ', {<<o, s>>})
    BY <2>2, <2>4
  <2>7. /\ In(mainQ', {<<"remove", s>>})
        /\ In(mainQ', {<<"closed", s>>})
        /\ Once(mainQ, {<<"closed", s>>}) /\ ~In(mainQ, {<<"closed", s>>}) => Once(mainQ', {<<"closed", s>>})
    BY <2>1, <2>2
  <2> QED
    BY <1>1, <2>1, <2>3, <2>5, <2>6, <2>7
<1>2. CASE ~cb
  <2>0. PostMain(s, <<"remove">>)
    BY <1>2
  <2>1. mainQ' \in Seq(MainOps \X Sessions)
    BY <1>0, <2>0, MainPost
  <2>2. \A r \in Sessions : r # s => SameOnMain(r)
    BY <1>0, <2>0, SameOnMainPost
  <2>3. /\ In(mainQ', Entry(s)) <=> "remove" \in {"accepted", "connected"} \/ In(mainQ, Entry(s))
        /\ \A o \in MainOps : In(mainQ', {<<o, s>>}) <=> "remove" = o \/ In(mainQ, {<<o, s>>})
        /\ Once(mainQ, Entry(s)) /\ ~(In(mainQ, Entry(s)) /\ "remove" \in {"accepted", "connected"})
               => Once(mainQ', Entry(s))
        /\ \A o \in MainOps : Once(mainQ, {<<o, s>>}) /\ ~(In(mainQ, {<<o, s>>}) /\ "remove" = o)
                                  => Once(mainQ', {<<o, s>>})
        /\ Before(mainQ, Entry(s), End(s)) /\ ~(In(mainQ, End(s)) /\ "remove" \in {"accepted", "connected"})
               => Before(mainQ', Entry(s), End(s))
    BY <1>0, <2>0, MainPostOwn
  <2> QED
    BY <1>0, <1>2, <2>1, <2>2, <2>3
<1> QED
  BY <1>1, <1>2

\* The thread registers the session and posts the main loop's part.
LEMMA NetRegisterIInv ==
    ASSUME IInv, NEW s \in Sessions, NetRegister(s)
    PROVE  IInv'
<1> USE DEF maps, io, calls, opening, bounds
<1>0. TypeOK /\ SInv(s) /\ \A r \in Sessions : SInv(r)
  BY DEF IInv
<1>1. /\ AtNet(s, "register") /\ t_mapSession' = t_mapSession \cup {s} /\ NetDone(s, << >>)
      /\ m_timerSessionAlive' \subseteq Accepts
      /\ \A r \in Sessions : r # s => (r \in m_timerSessionAlive' <=> r \in m_timerSessionAlive)
      /\ UNCHANGED <<calls, opening, bounds, m_mapSession, sock, reading, stage>>
  BY <1>0 DEF NetRegister, TypeOK
<1>2. PICK op \in {"accepted", "connected"} :
          /\ PostMain(s, <<op>>)
          /\ op = "accepted" <=> s \in Accepts
  BY DEF NetRegister
<1>3. op \in MainOps /\ << >> \in Seq(NetOps)
  BY DEF MainOps
<1>4. /\ netQ' \in [Sessions -> Seq(NetOps)]
      /\ \A r \in Sessions : r # s => netQ'[r] = netQ[r]
      /\ \A X : In(netQ[s], X) <=> "register" \in X \/ In(Tail(netQ[s]), X)
      /\ \A X : In(netQ'[s], X) <=> In(Tail(netQ[s]), X) \/ In(<< >>, X)
      /\ \A X : Once(netQ[s], X) /\ Once(<< >>, X) /\ ~(In(Tail(netQ[s]), X) /\ In(<< >>, X))
                         => Once(netQ'[s], X)
      /\ \A X : Once(netQ[s], X) /\ "register" \in X => ~In(Tail(netQ[s]), X)
  BY <1>0, <1>1, <1>3, NetPop
<1>5. \A X : ~In(<< >>, X) /\ Once(<< >>, X)
  BY DEF In, Once
<1>6. /\ In(netQ[s], {"register"})
      /\ Once(netQ[s], {"register"}) => ~In(netQ'[s], {"register"}) /\ Once(netQ'[s], {"register"})
      /\ In(netQ'[s], {"erase"}) => In(netQ[s], {"erase"})
      /\ In(netQ'[s], {"clear"}) => In(netQ[s], {"clear"})
      /\ In(netQ'[s], Reads) => In(netQ[s], Reads)
      /\ Once(netQ[s], Reads) => Once(netQ'[s], Reads)
  <2>1. "register" \in {"register"}
    OBVIOUS
  <2>2. /\ \A X : In(netQ'[s], X) => In(netQ[s], X)
        /\ \A X : Once(netQ[s], X) => Once(netQ'[s], X)
        /\ \A X : Once(netQ[s], X) /\ "register" \in X => ~In(netQ'[s], X)
        /\ \A X : "register" \in X => In(netQ[s], X)
    BY <1>4, <1>5
  <2> QED
    BY <2>1, <2>2
<1>7. TypeOK'
  <2>1. mainQ' \in Seq(MainOps \X Sessions)
    BY <1>0, <1>2, <1>3, MainPost
  <2> QED
    BY <1>0, <1>1, <1>4, <2>1 DEF TypeOK
<1>8. \A r \in Sessions : Fresh(r)' <=> Fresh(r)
  BY <1>1 DEF Fresh
<1>9. ASSUME NEW r \in Sessions, r # s PROVE SInv(r)'
  <2>1. Same(r)
    BY <1>1, <1>4, <1>8, <1>9 DEF Same
  <2>2. SameOnMain(r)
    BY <1>0, <1>2, <1>3, <1>9, SameOnMainPost
  <2> QED
    BY <1>0, <1>1, <2>1, <2>2, Frame
<1>10. SInv(s)'
  <2>1. ChainInv(s)'
    BY <1>0, <1>1, <1>6, <1>8 DEF SInv, ChainInv
  <2>2. OpeningInv(s)'
    BY <1>0, <1>1 DEF SInv, OpeningInv
  <2>3. ASSUME stage' = "run" PROVE RunInv(s)'
    <3>0. RunInv(s)
      BY <1>0, <1>1, <2>3 DEF SInv
    <3>1. /\ s \notin m_mapSession /\ ~In(mainQ, Entry(s)) /\ ~In(mainQ, End(s)) /\ sock[s] = "open"
          /\ ~In(netQ[s], {"erase"}) /\ (s \in Connects => connectCalls[s] = 0)
          /\ ~In(netQ'[s], {"register"}) /\ Once(netQ'[s], {"register"})
      BY <1>6, <3>0 DEF RunInv, RegisterInv
    <3>2. ~Fresh(s) /\ ~(s \in Connects /\ s \notin named)
      BY <1>1, <1>6, <3>0 DEF RunInv, FreshInv, UnnamedInv, AtNet
    <3>3. ~In(netQ[s], {"clear"})
      BY <3>0 DEF RunInv, MapInv
    <3>4. /\ In(mainQ', Entry(s))
          /\ \A o \in MainOps : In(mainQ', {<<o, s>>}) <=> op = o \/ In(mainQ, {<<o, s>>})
          /\ Once(mainQ, Entry(s)) => Once(mainQ', Entry(s))
          /\ \A o \in MainOps : Once(mainQ, {<<o, s>>}) /\ ~(In(mainQ, {<<o, s>>}) /\ op = o)
                                     => Once(mainQ', {<<o, s>>})
          /\ Before(mainQ, Entry(s), End(s)) => Before(mainQ', Entry(s), End(s))
      BY <1>0, <1>2, <1>3, <3>1, MainPostOwn
    <3>5. /\ In(mainQ', {<<"closed", s>>}) <=> In(mainQ, {<<"closed", s>>})
          /\ In(mainQ', {<<"connect", s>>}) <=> In(mainQ, {<<"connect", s>>})
          /\ Once(mainQ, {<<"closed", s>>}) => Once(mainQ', {<<"closed", s>>})
          /\ Once(mainQ, {<<"connect", s>>}) => Once(mainQ', {<<"connect", s>>})
          /\ In(mainQ', {<<"accepted", s>>}) => s \in Accepts \/ In(mainQ, {<<"accepted", s>>})
          /\ In(mainQ', {<<"connected", s>>}) => s \notin Accepts \/ In(mainQ, {<<"connected", s>>})
      BY <1>2, <3>4 DEF MainOps
    <3>6. FreshInv(s)' /\ UnnamedInv(s)'
      BY <1>1, <1>8, <3>2 DEF FreshInv, UnnamedInv
    <3>7. RegisterInv(s)'
      BY <3>1 DEF RegisterInv
    <3>8. EntryInv(s)'
      BY <1>1, <1>6, <3>0, <3>1, <3>4 DEF RunInv, EntryInv
    <3>9. MapInv(s)'
      BY <1>1, <1>6, <3>1, <3>3, <3>4 DEF MapInv
    <3>10. CallInv(s)'
      BY <1>1, <3>0, <3>4, <3>5 DEF RunInv, CallInv
    <3>11. KindInv(s)'
      BY <1>1, <3>0, <3>5, SessionAssumption DEF RunInv, KindInv
    <3>12. FirstReadInv(s)'
      BY <1>1, <1>6, <3>0 DEF RunInv, FirstReadInv
    <3> QED
      BY <3>6, <3>7, <3>8, <3>9, <3>10, <3>11, <3>12 DEF RunInv
  <2> QED
    BY <2>1, <2>2, <2>3 DEF SInv
<1> QED
  BY <1>1, <1>7, <1>9, <1>10 DEF IInv

\* A close posts the end of the session behind all that is there of it.
LEMMA NetCloseIInv ==
    ASSUME IInv, NEW s \in Sessions, NetClose(s)
    PROVE  IInv'
<1> USE DEF maps, io, calls, opening, bounds
<1>0. TypeOK /\ SInv(s) /\ \A r \in Sessions : SInv(r)
  BY DEF IInv
<1>1. /\ AtNet(s, "close") /\ sock' = [sock EXCEPT ![s] = "closed"] /\ reading' = reading \ {s}
      /\ m_funSessionClose' = m_funSessionClose \ {s}
      /\ UNCHANGED <<maps, opening, bounds, m_timerSessionAlive, stage, connectCalls, closeCalls>>
  BY DEF NetClose
<1>2. PICK ops \in {<< >>, <<"readErr">>} : NetDone(s, ops) /\ (ops = <<"readErr">> => s \in reading)
  BY DEF NetClose
<1>3. ops \in QuietOps /\ (ops # <<"readErr">> => ops \notin {<<"readErr">>, <<"close", "readErr">>})
  BY <1>2 DEF QuietOps
<1>4. /\ ops \in Seq(NetOps)
      /\ ~In(ops, {"register"}) /\ ~In(ops, {"erase"}) /\ ~In(ops, {"clear"})
      /\ Once(ops, Reads) /\ Once(ops, {"register"})
      /\ In(ops, Reads) => s \in reading
  BY <1>2, <1>3, QuietOpsFacts
<1>5. /\ netQ' \in [Sessions -> Seq(NetOps)]
      /\ \A r \in Sessions : r # s => netQ'[r] = netQ[r]
      /\ \A X : In(netQ[s], X) <=> "close" \in X \/ In(Tail(netQ[s]), X)
      /\ \A X : In(netQ'[s], X) <=> In(Tail(netQ[s]), X) \/ In(ops, X)
      /\ \A X : Once(netQ[s], X) /\ Once(ops, X) /\ ~(In(Tail(netQ[s]), X) /\ In(ops, X))
                         => Once(netQ'[s], X)
  BY <1>0, <1>1, <1>2, <1>4, NetPop
<1>6. /\ In(netQ'[s], {"register"}) <=> In(netQ[s], {"register"})
      /\ In(netQ'[s], {"erase"}) <=> In(netQ[s], {"erase"})
      /\ In(netQ'[s], {"clear"}) <=> In(netQ[s], {"clear"})
      /\ In(netQ'[s], Reads) => In(netQ[s], Reads) \/ s \in reading
      /\ Once(netQ[s], {"register"}) => Once(netQ'[s], {"register"})
      /\ Once(netQ[s], Reads) /\ ~(In(netQ[s], Reads) /\ s \in reading) => Once(netQ'[s], Reads)
  <2>1. "close" \notin {"register"} /\ "close" \notin {"erase"} /\ "close" \notin {"clear"} /\ "close" \notin Reads
    BY DEF Reads
  <2>2. \A X \in {{"register"}, {"erase"}, {"clear"}, Reads} : In(netQ[s], X) <=> In(Tail(netQ[s]), X)
    BY <1>5, <2>1
  <2>3. /\ \A X \in {{"register"}, {"erase"}, {"clear"}, Reads} :
               /\ In(netQ'[s], X) <=> In(netQ[s], X) \/ In(ops, X)
               /\ Once(netQ[s], X) /\ Once(ops, X) /\ ~(In(netQ[s], X) /\ In(ops, X)) => Once(netQ'[s], X)
    BY <1>5, <2>2
  <2> QED
    BY <1>4, <2>3
<1>7. PICK cb \in BOOLEAN : /\ cb <=> s \in m_funSessionClose
                            /\ PostMain(s, IF cb THEN <<"closed", "remove">> ELSE <<"remove">>)
  BY DEF NetClose
<1>8. /\ mainQ' \in Seq(MainOps \X Sessions)
      /\ \A r \in Sessions : r # s => SameOnMain(r)
      /\ In(mainQ', Entry(s)) <=> In(mainQ, Entry(s))
      /\ Once(mainQ, Entry(s)) => Once(mainQ', Entry(s))
      /\ Before(mainQ, Entry(s), End(s)) => Before(mainQ', Entry(s), End(s))
      /\ In(mainQ', {<<"remove", s>>})
      /\ In(mainQ', {<<"closed", s>>}) <=> In(mainQ, {<<"closed", s>>}) \/ cb
      /\ Once(mainQ, {<<"closed", s>>}) /\ ~(In(mainQ, {<<"closed", s>>}) /\ cb) => Once(mainQ', {<<"closed", s>>})
      /\ \A o \in {"accepted", "connected", "connect"} :
             /\ In(mainQ', {<<o, s>>}) <=> In(mainQ, {<<o, s>>})
             /\ Once(mainQ, {<<o, s>>}) => Once(mainQ', {<<o, s>>})
  BY <1>0, <1>7, MainEndOwn
<1>9. sock' \in [Sessions -> {"none", "open", "closed"}] /\ sock'[s] = "closed" /\ \A r \in Sessions : r # s => sock'[r] = sock[r]
  BY <1>0, <1>1, TypeFacts
<1>10. TypeOK'
  BY <1>0, <1>1, <1>5, <1>8, <1>9 DEF TypeOK
<1>11. \A r \in Sessions : Fresh(r)' <=> Fresh(r)
  BY <1>1 DEF Fresh
<1>12. ASSUME NEW r \in Sessions, r # s PROVE SInv(r)'
  <2>1. Same(r)
    BY <1>1, <1>5, <1>9, <1>11, <1>12 DEF Same
  <2> QED
    BY <1>0, <1>1, <1>8, <1>12, <2>1, Frame
<1>13. SInv(s)'
  <2>1. ChainInv(s)'
    BY <1>0, <1>1, <1>6, <1>11 DEF SInv, ChainInv
  <2>2. OpeningInv(s)'
    BY <1>0, <1>1 DEF SInv, OpeningInv
  <2>3. ASSUME stage' = "run" PROVE RunInv(s)'
    <3>0. RunInv(s)
      BY <1>0, <1>1, <2>3 DEF SInv
    <3>1. ~Fresh(s)' /\ ~In(netQ'[s], {"register"}) /\ Once(netQ'[s], {"register"})
      <4>1. Head(netQ[s]) # "register" /\ netQ[s] # << >>
        BY <1>1 DEF AtNet
      <4> QED
        BY <1>6, <1>11, <3>0, <4>1 DEF RunInv, FreshInv, RegisterInv
    <3>2. FreshInv(s)' /\ UnnamedInv(s)'
      BY <1>1, <1>6, <1>8, <3>0, <3>1 DEF RunInv, FreshInv, UnnamedInv
    <3>3. RegisterInv(s)'
      BY <3>1 DEF RegisterInv
    <3>4. EntryInv(s)'
      BY <1>1, <1>6, <1>8, <3>0 DEF RunInv, EntryInv
    <3>5. MapInv(s)'
      BY <1>1, <1>6, <1>8, <3>0 DEF RunInv, MapInv
    <3>6. CallInv(s)'
      BY <1>1, <1>6, <1>7, <1>8, <3>0 DEF RunInv, CallInv
    <3>7. KindInv(s)'
      BY <1>1, <1>8, <3>0 DEF RunInv, KindInv
    <3>8. FirstReadInv(s)'
      BY <1>1, <1>6, <1>8, <3>0 DEF RunInv, FirstReadInv
    <3> QED
      BY <3>2, <3>3, <3>4, <3>5, <3>6, <3>7, <3>8 DEF RunInv
  <2> QED
    BY <2>1, <2>2, <2>3 DEF SInv
<1> QED
  BY <1>1, <1>10, <1>12, <1>13 DEF IInv

\* A session leaves its thread's map when the main loop has given it up.
LEMMA NetEraseIInv ==
    ASSUME IInv, NEW s \in Sessions, NetErase(s)
    PROVE  IInv'
<1> USE DEF maps, io, calls, opening, bounds
<1>0. TypeOK /\ SInv(s) /\ \A r \in Sessions : SInv(r)
  BY DEF IInv
<1>1. /\ t_mapSession' = t_mapSession \ {s} /\ NetDone(s, << >>)
      /\ UNCHANGED <<io, calls, opening, bounds, m_mapSession, mainQ, stage>>
  BY DEF NetErase
<1>2. PICK op \in {"erase", "clear"} : AtNet(s, op)
  BY DEF NetErase
<1>3. << >> \in Seq(NetOps)
  OBVIOUS
<1>4. /\ netQ' \in [Sessions -> Seq(NetOps)]
      /\ \A r \in Sessions : r # s => netQ'[r] = netQ[r]
      /\ \A X : In(netQ[s], X) <=> op \in X \/ In(Tail(netQ[s]), X)
      /\ \A X : In(netQ'[s], X) <=> In(Tail(netQ[s]), X) \/ In(<< >>, X)
      /\ \A X : Once(netQ[s], X) /\ Once(<< >>, X) /\ ~(In(Tail(netQ[s]), X) /\ In(<< >>, X))
                         => Once(netQ'[s], X)
  BY <1>0, <1>1, <1>2, <1>3, NetPop
<1>5. \A X : ~In(<< >>, X) /\ Once(<< >>, X)
  BY DEF In, Once
<1>6. /\ \A X : op \in X => In(netQ[s], X)
      /\ \A X : In(netQ'[s], X) => In(netQ[s], X)
      /\ \A X : op \notin X /\ In(netQ[s], X) => In(netQ'[s], X)
      /\ \A X : Once(netQ[s], X) => Once(netQ'[s], X)
  BY <1>4, <1>5
<1>7. /\ In(netQ'[s], {"register"}) <=> In(netQ[s], {"register"})
      /\ In(netQ'[s], {"clear"}) => In(netQ[s], {"clear"})
      /\ In(netQ'[s], {"erase"}) => In(netQ[s], {"erase"})
      /\ In(netQ'[s], Reads) => In(netQ[s], Reads)
      /\ Once(netQ[s], {"register"}) => Once(netQ'[s], {"register"})
      /\ Once(netQ[s], Reads) => Once(netQ'[s], Reads)
      /\ op = "clear" => In(netQ[s], {"clear"})
      /\ op = "erase" => In(netQ[s], {"erase"})
  BY <1>6
<1>8. TypeOK'
  BY <1>0, <1>1, <1>4 DEF TypeOK
<1>9. \A r \in Sessions : Fresh(r)' <=> Fresh(r)
  BY <1>1 DEF Fresh
<1>10. ASSUME NEW r \in Sessions, r # s PROVE SInv(r)'
  <2>1. Same(r)
    BY <1>1, <1>4, <1>9, <1>10 DEF Same
  <2>2. SameOnMain(r)
    BY <1>1, SameOnMainUnchanged
  <2> QED
    BY <1>0, <1>1, <2>1, <2>2, Frame
<1>11. SInv(s)'
  <2>1. ChainInv(s)'
    BY <1>0, <1>1, <1>7, <1>9 DEF SInv, ChainInv
  <2>2. OpeningInv(s)'
    BY <1>0, <1>1 DEF SInv, OpeningInv
  <2>3. ASSUME stage' = "run" PROVE RunInv(s)'
    <3>0. RunInv(s)
      BY <1>0, <1>1, <2>3 DEF SInv
    <3>1. In(netQ[s], {"erase"})
      BY <1>2, <1>7, <3>0 DEF RunInv, MapInv
    <3>2. s \notin m_mapSession /\ ~In(mainQ, Entry(s)) /\ ~In(netQ[s], {"register"})
      BY <3>0, <3>1 DEF RunInv, MapInv, EntryInv, RegisterInv
    <3>3. ~Fresh(s)'
      BY <1>2, <1>9, <3>0 DEF RunInv, FreshInv, AtNet
    <3>4. FreshInv(s)' /\ UnnamedInv(s)'
      BY <1>1, <1>7, <3>0, <3>3 DEF RunInv, FreshInv, UnnamedInv
    <3>5. RegisterInv(s)' /\ EntryInv(s)'
      BY <1>1, <1>7, <3>0, <3>2 DEF RunInv, RegisterInv, EntryInv
    <3>6. MapInv(s)'
      BY <1>1, <1>7, <3>0, <3>2 DEF RunInv, MapInv
    <3>7. CallInv(s)' /\ KindInv(s)' /\ FirstReadInv(s)'
      BY <1>1, <1>7, <3>0, <3>2 DEF RunInv, CallInv, KindInv, FirstReadInv
    <3> QED
      BY <3>4, <3>5, <3>6, <3>7 DEF RunInv
  <2> QED
    BY <2>1, <2>2, <2>3 DEF SInv
<1> QED
  BY <1>1, <1>8, <1>10, <1>11 DEF IInv

-----------------------------------------------------------------------------
(* The main loop                                                           *)

\* The main loop enters an accepted session and starts its only chain of reads,
\* or enters a session of our own and calls back.
LEMMA MainEnterIInv ==
    ASSUME IInv, NEW s \in Sessions, MainAccepted(s) \/ MainConnected(s)
    PROVE  IInv'
<1> USE DEF maps, io, calls, opening, bounds
<1>0. TypeOK /\ SInv(s) /\ \A r \in Sessions : SInv(r)
  BY DEF IInv
<1>1. PICK op \in {"accepted", "connected"} :
          /\ AtMain(s, op)
          /\ op = "accepted" => MainAccepted(s)
          /\ op = "connected" => MainConnected(s)
  BY DEF MainAccepted, MainConnected
<1>2. /\ MainDone /\ m_mapSession' = m_mapSession \cup {s} /\ op \in MainOps
      /\ UNCHANGED <<m_funSessionClose, closeCalls, opening, bounds, t_mapSession, sock, m_timerSessionAlive, netQ, stage>>
      /\ stage = "run"
      /\ op = "accepted" => UNCHANGED connectCalls /\ sock[s] = "open" /\ reading' = reading \cup {s}
      /\ op = "connected" => UNCHANGED reading /\ connectCalls' = [connectCalls EXCEPT ![s] = @ + 1]
  BY <1>1 DEF MainAccepted, MainConnected, DoSessionRead, MainOps, AtMain
<1>3. RunInv(s)
  BY <1>0, <1>2 DEF SInv
<1>4. /\ In(mainQ, Entry(s)) <=> op \in {"accepted", "connected"} \/ In(mainQ', Entry(s))
      /\ In(mainQ, End(s)) <=> op \in {"closed", "remove"} \/ In(mainQ', End(s))
      /\ \A o \in MainOps : In(mainQ, {<<o, s>>}) <=> op = o \/ In(mainQ', {<<o, s>>})
      /\ Once(mainQ, Entry(s)) => Once(mainQ', Entry(s))
      /\ \A o \in MainOps : Once(mainQ, {<<o, s>>}) => Once(mainQ', {<<o, s>>})
      /\ Once(mainQ, Entry(s)) /\ op \in {"accepted", "connected"} => ~In(mainQ', Entry(s))
      /\ Before(mainQ, Entry(s), End(s)) => Before(mainQ', Entry(s), End(s))
  BY <1>0, <1>1, <1>2, MainPopOwn
<1>5. /\ In(mainQ, Entry(s)) /\ ~In(mainQ', Entry(s)) /\ Once(mainQ', Entry(s)) /\ Before(mainQ', Entry(s), End(s))
  BY <1>1, <1>3, <1>4 DEF RunInv, EntryInv
<1>6. /\ In(mainQ', {<<"closed", s>>}) <=> In(mainQ, {<<"closed", s>>})
      /\ In(mainQ', {<<"remove", s>>}) <=> In(mainQ, {<<"remove", s>>})
      /\ In(mainQ', {<<"connect", s>>}) <=> In(mainQ, {<<"connect", s>>})
      /\ In(mainQ', {<<"accepted", s>>}) => In(mainQ, {<<"accepted", s>>})
      /\ In(mainQ', {<<"connected", s>>}) => In(mainQ, {<<"connected", s>>})
      /\ Once(mainQ, {<<"closed", s>>}) => Once(mainQ', {<<"closed", s>>})
      /\ Once(mainQ, {<<"connect", s>>}) => Once(mainQ', {<<"connect", s>>})
      /\ op = "accepted" => In(mainQ, {<<"accepted", s>>})
      /\ op = "connected" => In(mainQ, {<<"connected", s>>})
  BY <1>1, <1>4 DEF MainOps
<1>7. /\ op = "accepted" => s \in Accepts /\ s \notin Connects
      /\ op = "connected" => s \in Connects /\ s \notin Accepts
  BY <1>1, <1>3, <1>6, SessionAssumption DEF RunInv, KindInv, Sessions
<1>8. /\ ~Fresh(s) /\ ~(s \in Connects /\ s \notin named)
      /\ s \in t_mapSession /\ ~In(netQ[s], {"erase"}) /\ ~In(netQ[s], {"register"})
      /\ sock[s] = "closed" => In(mainQ, {<<"remove", s>>})
      /\ s \in Connects => connectCalls[s] = 0
  BY <1>3, <1>5 DEF RunInv, FreshInv, UnnamedInv, EntryInv, RegisterInv
<1>9. /\ connectCalls' \in [Sessions -> Nat]
      /\ \A r \in Sessions : r # s => connectCalls'[r] = connectCalls[r]
      /\ op = "connected" => connectCalls'[s] = 1
  BY <1>0, <1>1, <1>2, <1>7, <1>8, TypeFacts
<1>10. TypeOK'
  <2>1. mainQ' \in Seq(MainOps \X Sessions)
    BY <1>0, <1>1, <1>2, MainPop
  <2> QED
    BY <1>0, <1>1, <1>2, <1>9, <2>1 DEF TypeOK
<1>11. \A r \in Sessions : Fresh(r)' <=> Fresh(r)
  BY <1>2 DEF Fresh
<1>12. ASSUME NEW r \in Sessions, r # s PROVE SInv(r)'
  <2>1. Same(r)
    BY <1>1, <1>2, <1>9, <1>11, <1>12 DEF Same
  <2>2. SameOnMain(r)
    BY <1>0, <1>1, <1>2, <1>12, SameOnMainPop
  <2> QED
    BY <1>0, <1>2, <2>1, <2>2, Frame
<1>13. SInv(s)'
  <2>1. ChainInv(s)'
    <3>1. CASE op = "accepted"
      BY <1>0, <1>2, <1>3, <1>5, <1>7, <1>8, <1>11, <3>1 DEF SInv, RunInv, FirstReadInv, ChainInv
    <3>2. CASE op = "connected"
      BY <1>0, <1>2, <1>11, <3>2 DEF SInv, ChainInv
    <3> QED
      BY <1>1, <3>1, <3>2
  <2>2. OpeningInv(s)'
    <3>1. CASE op = "accepted"
      BY <1>7, <3>1 DEF OpeningInv
    <3>2. CASE op = "connected"
      <4>1. conn[s] \in {"up", "failed"}
        BY <1>7, <1>8, <3>2 DEF Fresh
      <4> QED
        BY <1>0, <1>2, <1>9, <3>2, <4>1 DEF SInv, OpeningInv
    <3> QED
      BY <1>1, <3>1, <3>2
  <2>3. FreshInv(s)' /\ UnnamedInv(s)'
    BY <1>2, <1>8, <1>11 DEF FreshInv, UnnamedInv
  <2>4. RegisterInv(s)'
    BY <1>2, <1>3, <1>8 DEF RunInv, RegisterInv
  <2>5. EntryInv(s)'
    BY <1>5 DEF EntryInv
  <2>6. MapInv(s)'
    BY <1>2, <1>3, <1>6, <1>8 DEF RunInv, MapInv
  <2>7. CallInv(s)'
    <3>1. s \in Connects => connectCalls'[s] = 1
      BY <1>1, <1>7, <1>9
    <3> QED
      BY <1>2, <1>3, <1>6, <3>1 DEF RunInv, CallInv
  <2>8. KindInv(s)'
    BY <1>2, <1>3, <1>6 DEF RunInv, KindInv
  <2>9. FirstReadInv(s)'
    BY <1>2, <1>5, <1>8 DEF FirstReadInv
  <2> QED
    BY <2>1, <2>2, <2>3, <2>4, <2>5, <2>6, <2>7, <2>8, <2>9 DEF SInv, RunInv
<1> QED
  BY <1>2, <1>10, <1>12, <1>13 DEF IInv

\* A session leaves the main loop's map, with its callback or without it: its
\* entry is behind it, and the callback with it.
LEMMA MainLeaveIInv ==
    ASSUME IInv, NEW s \in Sessions, MainClosed(s) \/ MainRemove(s)
    PROVE  IInv'
<1> USE DEF maps, io, calls, opening, bounds
<1>0. TypeOK /\ SInv(s) /\ \A r \in Sessions : SInv(r)
  BY DEF IInv
<1>1. PICK op \in {"closed", "remove"} :
          /\ AtMain(s, op)
          /\ op = "closed" => closeCalls' = [closeCalls EXCEPT ![s] = @ + 1]
          /\ op = "remove" => UNCHANGED closeCalls
  BY DEF MainClosed, MainRemove
<1>2. /\ MainDone /\ LeaveMaps(s) /\ op \in MainOps /\ stage = "run"
      /\ UNCHANGED <<m_funSessionClose, connectCalls, io, opening, bounds, t_mapSession, stage>>
  BY <1>1 DEF MainClosed, MainRemove, MainOps, AtMain
<1>3. RunInv(s)
  BY <1>0, <1>2 DEF SInv
<1>4. /\ In(mainQ, Entry(s)) <=> op \in {"accepted", "connected"} \/ In(mainQ', Entry(s))
      /\ In(mainQ, End(s))
      /\ \A o \in MainOps : In(mainQ, {<<o, s>>}) <=> op = o \/ In(mainQ', {<<o, s>>})
      /\ Once(mainQ, Entry(s)) => Once(mainQ', Entry(s))
      /\ \A o \in MainOps : Once(mainQ, {<<o, s>>}) => Once(mainQ', {<<o, s>>})
      /\ Once(mainQ, {<<op, s>>}) => ~In(mainQ', {<<op, s>>})
      /\ Before(mainQ, Entry(s), End(s)) => Before(mainQ', Entry(s), End(s))
      /\ Before(mainQ, Entry(s), End(s)) /\ op \in {"closed", "remove"} => ~In(mainQ', Entry(s))
  BY <1>0, <1>1, <1>2, MainPopOwn
<1>5. /\ ~In(mainQ', Entry(s)) /\ ~In(mainQ, Entry(s))
      /\ Once(mainQ', Entry(s)) /\ Before(mainQ', Entry(s), End(s))
  <2>1. op \notin {"accepted", "connected"}
    BY <1>1
  <2> QED
    BY <1>1, <1>3, <1>4, <2>1 DEF RunInv, EntryInv
<1>6. /\ In(mainQ', {<<"closed", s>>}) => In(mainQ, {<<"closed", s>>})
      /\ In(mainQ', {<<"connect", s>>}) => In(mainQ, {<<"connect", s>>})
      /\ In(mainQ', {<<"accepted", s>>}) => In(mainQ, {<<"accepted", s>>})
      /\ In(mainQ', {<<"connected", s>>}) => In(mainQ, {<<"connected", s>>})
      /\ Once(mainQ, {<<"closed", s>>}) => Once(mainQ', {<<"closed", s>>})
      /\ Once(mainQ, {<<"connect", s>>}) => Once(mainQ', {<<"connect", s>>})
      /\ op = "closed" => In(mainQ, {<<"closed", s>>})
      /\ op = "closed" /\ Once(mainQ, {<<"closed", s>>}) => ~In(mainQ', {<<"closed", s>>})
  BY <1>1, <1>4 DEF MainOps
<1>7. ~Fresh(s) /\ ~In(netQ[s], {"register"}) /\ ~In(netQ[s], {"clear"}) /\ Once(netQ[s], {"register"})
  BY <1>3, <1>4 DEF RunInv, FreshInv, RegisterInv, MapInv
<1>8. /\ netQ' \in [Sessions -> Seq(NetOps)]
      /\ \A r \in Sessions : r # s => netQ'[r] = netQ[r]
      /\ In(netQ'[s], {"register"}) <=> In(netQ[s], {"register"})
      /\ In(netQ'[s], {"clear"}) <=> In(netQ[s], {"clear"})
      /\ In(netQ'[s], Reads) <=> In(netQ[s], Reads)
      /\ Once(netQ[s], Reads) => Once(netQ'[s], Reads)
      /\ Once(netQ[s], {"register"}) => Once(netQ'[s], {"register"})
      /\ In(netQ'[s], {"erase"}) <=> In(netQ[s], {"erase"}) \/ s \in m_mapSession
  <2>1. CASE s \in m_mapSession
    <3>1. PostNet(s, "erase") /\ "erase" \in NetOps
      BY <1>2, <2>1 DEF LeaveMaps, NetOps
    <3>2. "erase" \notin {"register"} /\ "erase" \notin {"clear"} /\ "erase" \notin Reads /\ "erase" \in {"erase"}
      BY DEF Reads
    <3>3. /\ netQ' \in [Sessions -> Seq(NetOps)]
          /\ \A r \in Sessions : r # s => netQ'[r] = netQ[r]
          /\ \A X : In(netQ'[s], X) <=> In(netQ[s], X) \/ "erase" \in X
          /\ \A X : Once(netQ[s], X) /\ ~(In(netQ[s], X) /\ "erase" \in X) => Once(netQ'[s], X)
      BY <1>0, <3>1, NetPush
    <3> QED
      BY <2>1, <3>2, <3>3
  <2>2. CASE s \notin m_mapSession
    BY <1>0, <1>2, <2>2, TypeFacts DEF LeaveMaps
  <2> QED
    BY <2>1, <2>2
<1>9. m_mapSession' = m_mapSession \ {s}
  BY <1>2 DEF LeaveMaps
<1>10. /\ closeCalls' \in [Sessions -> Nat]
       /\ \A r \in Sessions : r # s => closeCalls'[r] = closeCalls[r]
       /\ op = "closed" => closeCalls'[s] = 1 /\ closeCalls[s] = 0
       /\ op = "remove" => closeCalls'[s] = closeCalls[s]
  <2>1. op = "closed" => closeCalls[s] = 0
    BY <1>3, <1>6 DEF RunInv, CallInv
  <2>2. CASE op = "closed"
    <3>1. closeCalls' = [closeCalls EXCEPT ![s] = @ + 1] /\ closeCalls[s] = 0
      BY <1>1, <2>1, <2>2
    <3>2. closeCalls' \in [Sessions -> Nat] /\ closeCalls'[s] = 1
      BY <1>0, <3>1, TypeFacts
    <3>3. \A r \in Sessions : r # s => closeCalls'[r] = closeCalls[r]
      BY <1>0, <3>1, TypeFacts
    <3> QED
      BY <2>2, <3>1, <3>2, <3>3
  <2>3. CASE op = "remove"
    <3>1. closeCalls' = closeCalls
      BY <1>1, <2>3
    <3> QED
      BY <1>0, <2>3, <3>1, TypeFacts
  <2> QED
    BY <1>1, <2>2, <2>3
<1>11. TypeOK'
  <2>1. mainQ' \in Seq(MainOps \X Sessions)
    BY <1>0, <1>1, <1>2, MainPop
  <2> QED
    BY <1>0, <1>2, <1>8, <1>9, <1>10, <2>1 DEF TypeOK
<1>12. \A r \in Sessions : Fresh(r)' <=> Fresh(r)
  BY <1>2 DEF Fresh
<1>13. ASSUME NEW r \in Sessions, r # s PROVE SInv(r)'
  <2>1. Same(r)
    BY <1>2, <1>8, <1>9, <1>10, <1>12, <1>13 DEF Same
  <2>2. SameOnMain(r)
    BY <1>0, <1>1, <1>2, <1>13, SameOnMainPop
  <2> QED
    BY <1>0, <1>2, <2>1, <2>2, Frame
<1>14. SInv(s)'
  <2>1. ChainInv(s)'
    BY <1>0, <1>2, <1>8, <1>12 DEF SInv, ChainInv
  <2>2. OpeningInv(s)'
    <3> SUFFICES ASSUME s \in Connects PROVE OpeningInv(s)'
      BY DEF OpeningInv
    <3>1. conn[s] \in {"up", "failed"}
      BY <1>7, SessionAssumption DEF Fresh
    <3>2. s \in named => connectCalls[s] = 1
      BY <1>3, <1>5, <1>7 DEF RunInv, CallInv
    <3> QED
      BY <1>0, <1>1, <1>2, <1>10, <3>1, <3>2 DEF SInv, OpeningInv
  <2>3. FreshInv(s)' /\ UnnamedInv(s)'
    BY <1>2, <1>3, <1>5, <1>7, <1>8, <1>9, <1>12 DEF RunInv, FreshInv, UnnamedInv
  <2>4. RegisterInv(s)' /\ EntryInv(s)' /\ FirstReadInv(s)'
    BY <1>5, <1>7, <1>8 DEF RegisterInv, EntryInv, FirstReadInv
  <2>5. MapInv(s)'
    BY <1>2, <1>3, <1>5, <1>7, <1>8, <1>9 DEF RunInv, MapInv
  <2>6. CallInv(s)'
    BY <1>1, <1>2, <1>3, <1>5, <1>6, <1>7, <1>10 DEF RunInv, CallInv
  <2>7. KindInv(s)'
    BY <1>2, <1>3, <1>6 DEF RunInv, KindInv
  <2> QED
    BY <2>1, <2>2, <2>3, <2>4, <2>5, <2>6, <2>7 DEF SInv, RunInv
<1> QED
  BY <1>2, <1>11, <1>13, <1>14 DEF IInv
-----------------------------------------------------------------------------
(* Connect                                                                 *)

\* A session of our own that has no connection keeps none.
LEMMA StillOpening ==
    ASSUME IInv, NEW s \in Connects, conn[s] \notin {"up", "failed"}, conn' \in [Sessions -> ConnStates],
           \A r \in Sessions : r # s => conn'[r] = conn[r], conn'[s] \notin {"up"},
           UNCHANGED <<maps, io, netQ, connectCalls, closeCalls, named, accepting, stage>>,
           \A r \in Sessions : r # s => SameOnMain(r) /\ (r \in m_funSessionClose' <=> r \in m_funSessionClose),
           In(mainQ', Entry(s)) => In(mainQ, Entry(s)),
           In(mainQ', End(s)) => In(mainQ, End(s)),
           In(mainQ', {<<"closed", s>>}) => In(mainQ, End(s)),
           In(mainQ', {<<"accepted", s>>}) => In(mainQ, {<<"accepted", s>>}),
           Once(mainQ, Entry(s)) => Once(mainQ', Entry(s)),
           Once(mainQ, {<<"closed", s>>}) => Once(mainQ', {<<"closed", s>>}),
           Before(mainQ, Entry(s), End(s)) => Before(mainQ', Entry(s), End(s)),
           stage = "run" => /\ Once(mainQ', {<<"connect", s>>})
                            /\ In(mainQ', {<<"connect", s>>}) => conn'[s] = "posted"
    PROVE  \A r \in Sessions : SInv(r)'
<1> USE DEF maps, io, calls, opening, bounds
<1>0. TypeOK /\ s \in Sessions /\ s \notin Accepts /\ \A r \in Sessions : SInv(r)
  BY SessionAssumption DEF IInv, Sessions
<1>1. ASSUME NEW r \in Sessions, r # s PROVE SInv(r)'
  <2>1. Same(r)
    BY <1>1 DEF Same, Fresh
  <2> QED
    BY <1>0, <1>1, <2>1, Frame
<1>2. Fresh(s)
  BY <1>0 DEF Fresh
<1>3. ChainInv(s)' /\ OpeningInv(s)'
  BY <1>0, <1>2 DEF SInv, ChainInv, OpeningInv
<1>4. ASSUME stage' = "run" PROVE RunInv(s)'
  <2>0. RunInv(s) /\ stage = "run"
    BY <1>0, <1>4 DEF SInv
  <2>1. /\ netQ[s] = << >> /\ ~In(mainQ, Entry(s)) /\ ~In(mainQ, End(s))
        /\ s \notin t_mapSession /\ s \notin m_mapSession /\ s \notin m_timerSessionAlive
        /\ sock[s] = "none" /\ closeCalls[s] = 0 /\ s \notin named
    BY <1>0, <1>2, <2>0 DEF RunInv, FreshInv, SInv, OpeningInv
  <2>2. \A X : ~In(netQ[s], X) /\ Once(netQ[s], X)
    BY <2>1 DEF In, Once
  <2>3. ~In(mainQ', Entry(s)) /\ ~In(mainQ', End(s)) /\ ~In(mainQ', {<<"closed", s>>})
    BY <2>1
  <2>4. FreshInv(s)' /\ UnnamedInv(s)' /\ RegisterInv(s)'
    BY <2>1, <2>2, <2>3 DEF FreshInv, UnnamedInv, RegisterInv
  <2>5. EntryInv(s)' /\ FirstReadInv(s)' /\ MapInv(s)'
    BY <1>0, <2>0, <2>1, <2>2, <2>3 DEF RunInv, EntryInv, FirstReadInv, MapInv
  <2>6. CallInv(s)' /\ KindInv(s)'
    BY <1>0, <2>0, <2>1, <2>3 DEF RunInv, CallInv, KindInv
  <2> QED
    BY <2>4, <2>5, <2>6 DEF RunInv
<1> QED
  BY <1>1, <1>3, <1>4 DEF SInv

\* A close callback that is queued is a part of its session's end.
LEMMA InParts ==
    ASSUME NEW q, NEW s
    PROVE  In(q, {<<"closed", s>>}) => In(q, End(s))
BY DEF In, End

\* Connect posts the first attempt of one of our own sessions.
LEMMA ConnectIInv ==
    ASSUME IInv, NEW s \in Connects, Connect(s)
    PROVE  IInv'
<1> USE DEF maps, io, calls, opening, bounds
<1>0. TypeOK /\ s \in Sessions /\ s \notin Accepts /\ SInv(s) /\ "connect" \in MainOps
  BY SessionAssumption DEF IInv, Sessions, MainOps
<1>1. /\ stage = "run" /\ conn[s] = "none" /\ conn' = [conn EXCEPT ![s] = "posted"]
      /\ m_funSessionClose' = m_funSessionClose \cup {s} /\ PostMain(s, <<"connect">>)
      /\ UNCHANGED <<maps, io, bounds, named, netQ, accepting, stage, connectCalls, closeCalls>>
  BY DEF Connect
<1>2. /\ conn' \in [Sessions -> ConnStates] /\ conn'[s] = "posted"
      /\ \A r \in Sessions : r # s => conn'[r] = conn[r]
  BY <1>0, <1>1, TypeFacts DEF ConnStates
<1>3. /\ In(mainQ', Entry(s)) <=> "connect" \in {"accepted", "connected"} \/ In(mainQ, Entry(s))
      /\ In(mainQ', End(s)) <=> "connect" \in {"closed", "remove"} \/ In(mainQ, End(s))
      /\ \A o \in MainOps : In(mainQ', {<<o, s>>}) <=> "connect" = o \/ In(mainQ, {<<o, s>>})
      /\ Once(mainQ, Entry(s)) /\ ~(In(mainQ, Entry(s)) /\ "connect" \in {"accepted", "connected"})
             => Once(mainQ', Entry(s))
      /\ \A o \in MainOps : Once(mainQ, {<<o, s>>}) /\ ~(In(mainQ, {<<o, s>>}) /\ "connect" = o)
                                => Once(mainQ', {<<o, s>>})
      /\ Before(mainQ, Entry(s), End(s)) /\ ~(In(mainQ, End(s)) /\ "connect" \in {"accepted", "connected"})
             => Before(mainQ', Entry(s), End(s))
  BY <1>0, <1>1, MainPostOwn
<1>4. /\ In(mainQ', Entry(s)) => In(mainQ, Entry(s))
      /\ In(mainQ', End(s)) => In(mainQ, End(s))
      /\ In(mainQ', {<<"accepted", s>>}) => In(mainQ, {<<"accepted", s>>})
      /\ Once(mainQ, Entry(s)) => Once(mainQ', Entry(s))
      /\ Once(mainQ, {<<"closed", s>>}) => Once(mainQ', {<<"closed", s>>})
      /\ Before(mainQ, Entry(s), End(s)) => Before(mainQ', Entry(s), End(s))
      /\ Once(mainQ, {<<"connect", s>>}) /\ ~In(mainQ, {<<"connect", s>>}) => Once(mainQ', {<<"connect", s>>})
  BY <1>3 DEF MainOps
<1>5. Once(mainQ', {<<"connect", s>>})
  BY <1>0, <1>1, <1>4 DEF SInv, RunInv, KindInv
<1>6. In(mainQ', {<<"closed", s>>}) => In(mainQ, End(s))
  BY <1>4, InParts
<1>7. \A r \in Sessions : r # s => SameOnMain(r)
  BY <1>0, <1>1, SameOnMainPost
<1>8. \A r \in Sessions : SInv(r)'
  BY <1>1, <1>2, <1>4, <1>5, <1>6, <1>7, StillOpening
<1>9. TypeOK'
  <2>1. mainQ' \in Seq(MainOps \X Sessions)
    BY <1>0, <1>1, MainPost
  <2> QED
    BY <1>0, <1>1, <1>2, <2>1 DEF TypeOK
<1> QED
  BY <1>1, <1>8, <1>9 DEF IInv

\* The main loop starts the attempt that was posted.
LEMMA MainConnectIInv ==
    ASSUME IInv, NEW s \in Sessions, MainConnect(s)
    PROVE  IInv'
<1> USE DEF maps, io, calls, opening, bounds
<1>0. TypeOK /\ SInv(s) /\ "connect" \in MainOps
  BY DEF IInv, MainOps
<1>1. /\ AtMain(s, "connect") /\ conn' = [conn EXCEPT ![s] = "first"] /\ MainDone /\ stage = "run"
      /\ UNCHANGED <<maps, io, calls, bounds, named, netQ, accepting, stage>>
  BY DEF MainConnect, AtMain
<1>2. /\ In(mainQ, Entry(s)) <=> "connect" \in {"accepted", "connected"} \/ In(mainQ', Entry(s))
      /\ In(mainQ, End(s)) <=> "connect" \in {"closed", "remove"} \/ In(mainQ', End(s))
      /\ \A o \in MainOps : In(mainQ, {<<o, s>>}) <=> "connect" = o \/ In(mainQ', {<<o, s>>})
      /\ Once(mainQ, Entry(s)) => Once(mainQ', Entry(s))
      /\ \A o \in MainOps : Once(mainQ, {<<o, s>>}) => Once(mainQ', {<<o, s>>})
      /\ Once(mainQ, {<<"connect", s>>}) => ~In(mainQ', {<<"connect", s>>})
      /\ Before(mainQ, Entry(s), End(s)) => Before(mainQ', Entry(s), End(s))
  BY <1>0, <1>1, MainPopOwn
<1>3. /\ In(mainQ', {<<"accepted", s>>}) => In(mainQ, {<<"accepted", s>>})
      /\ Once(mainQ, {<<"closed", s>>}) => Once(mainQ', {<<"closed", s>>})
      /\ Once(mainQ, {<<"connect", s>>}) => Once(mainQ', {<<"connect", s>>})
      /\ In(mainQ, {<<"connect", s>>})
  BY <1>2 DEF MainOps
<1>4. s \in Connects /\ conn[s] = "posted" /\ Once(mainQ, {<<"connect", s>>})
  BY <1>0, <1>1, <1>3 DEF SInv, RunInv, KindInv, Sessions
<1>5. /\ conn' \in [Sessions -> ConnStates] /\ conn'[s] = "first"
      /\ \A r \in Sessions : r # s => conn'[r] = conn[r]
  BY <1>0, <1>1, TypeFacts DEF ConnStates
<1>6. In(mainQ', {<<"closed", s>>}) => In(mainQ, End(s))
  BY <1>2, InParts
<1>7. \A r \in Sessions : r # s => SameOnMain(r)
  BY <1>0, <1>1, SameOnMainPop
<1>8. \A r \in Sessions : SInv(r)'
  BY <1>1, <1>2, <1>3, <1>4, <1>5, <1>6, <1>7, StillOpening
<1>9. TypeOK'
  <2>1. mainQ' \in Seq(MainOps \X Sessions)
    BY <1>0, <1>1, MainPop
  <2> QED
    BY <1>0, <1>1, <1>5, <2>1 DEF TypeOK
<1> QED
  BY <1>1, <1>8, <1>9 DEF IInv

\* A failed attempt is followed by one without callbacks, or by nothing.
LEMMA ConnectFailsIInv ==
    ASSUME IInv, NEW s \in Connects, ConnectFails(s)
    PROVE  IInv'
<1> USE DEF maps, io, queues, calls, opening, bounds
<1>0. TypeOK /\ s \in Sessions /\ SInv(s)
  BY DEF IInv, Sessions
<1>1. /\ conn[s] \in {"first", "second"}
      /\ UNCHANGED <<maps, io, queues, calls, bounds, named, accepting, stage>>
  BY DEF ConnectFails
<1>2. /\ conn' \in [Sessions -> ConnStates] /\ conn'[s] \in {"second", "failed"}
      /\ \A r \in Sessions : r # s => conn'[r] = conn[r]
  BY <1>0, <1>1, TypeFacts DEF ConnStates, ConnectFails
<1>3. stage = "run" => Once(mainQ, {<<"connect", s>>}) /\ ~In(mainQ, {<<"connect", s>>})
  BY <1>0, <1>1 DEF SInv, RunInv, KindInv
<1>4. In(mainQ, {<<"closed", s>>}) => In(mainQ, End(s))
  BY InParts
<1>5. \A r \in Sessions : r # s => SameOnMain(r)
  BY <1>1, SameOnMainUnchanged
<1>6. \A r \in Sessions : SInv(r)'
  BY <1>1, <1>2, <1>3, <1>4, <1>5, StillOpening
<1>7. TypeOK'
  BY <1>0, <1>1, <1>2 DEF TypeOK
<1> QED
  BY <1>1, <1>6, <1>7 DEF IInv

\* A session of our own comes up: registered at the first attempt, unknown at
\* the second.
LEMMA ConnectOkIInv ==
    ASSUME IInv, NEW s \in Connects, ConnectOk(s)
    PROVE  IInv'
<1> USE DEF maps, io, queues, calls, opening, bounds
<1>0. TypeOK /\ s \in Sessions /\ s \notin Accepts /\ SInv(s) /\ \A r \in Sessions : SInv(r)
  BY SessionAssumption DEF IInv, Sessions
<1>1. /\ conn[s] \in {"first", "second"} /\ conn' = [conn EXCEPT ![s] = "up"]
      /\ sock' = [sock EXCEPT ![s] = "open"] /\ reading' = reading \cup {s}
      /\ UNCHANGED <<maps, calls, bounds, m_timerSessionAlive, mainQ, accepting, stage>>
  BY DEF ConnectOk
<1>2. \/ conn[s] = "first" /\ named' = named \cup {s} /\ PostNet(s, "register")
      \/ conn[s] = "second" /\ UNCHANGED <<named, netQ>>
  BY DEF ConnectOk
<1>3. Fresh(s) /\ ~Fresh(s)'
  BY <1>0, <1>1, TypeFacts DEF Fresh
<1>4. s \notin reading /\ ~In(netQ[s], Reads) /\ Once(netQ[s], Reads)
  BY <1>0, <1>3 DEF SInv, ChainInv
<1>5. closeCalls[s] = 0 /\ connectCalls[s] = 0 /\ s \notin named
  BY <1>0, <1>1 DEF SInv, OpeningInv
<1>a. "register" \in NetOps /\ "register" \notin Reads
  BY DEF NetOps, Reads
<1>6. /\ netQ' \in [Sessions -> Seq(NetOps)] /\ named' \subseteq Sessions /\ named \subseteq named'
      /\ \A r \in Sessions : r # s => netQ'[r] = netQ[r] /\ (r \in named' <=> r \in named)
      /\ ~In(netQ'[s], Reads) /\ Once(netQ'[s], Reads)
  <2>1. CASE named' = named \cup {s} /\ PostNet(s, "register")
    <3>1. /\ netQ' \in [Sessions -> Seq(NetOps)]
          /\ \A r \in Sessions : r # s => netQ'[r] = netQ[r]
          /\ \A X : In(netQ'[s], X) <=> In(netQ[s], X) \/ "register" \in X
          /\ \A X : Once(netQ[s], X) /\ ~(In(netQ[s], X) /\ "register" \in X) => Once(netQ'[s], X)
      BY <1>0, <1>a, <2>1, NetPush
    <3> QED
      BY <1>0, <1>4, <1>a, <2>1, <3>1 DEF TypeOK
  <2>2. CASE UNCHANGED <<named, netQ>>
    BY <1>0, <1>4, <2>2, TypeFacts DEF TypeOK
  <2> QED
    BY <1>2, <2>1, <2>2
<1>7. /\ sock' \in [Sessions -> {"none", "open", "closed"}] /\ sock'[s] = "open"
      /\ conn' \in [Sessions -> ConnStates] /\ conn'[s] = "up"
      /\ \A r \in Sessions : r # s => sock'[r] = sock[r] /\ conn'[r] = conn[r]
  BY <1>0, <1>1, TypeFacts DEF ConnStates
<1>8. TypeOK'
  BY <1>0, <1>1, <1>6, <1>7 DEF TypeOK
<1>9. ASSUME NEW r \in Sessions, r # s PROVE SInv(r)'
  <2>1. Fresh(r)' <=> Fresh(r)
    BY <1>1, <1>6, <1>7, <1>9 DEF Fresh
  <2>2. Same(r)
    BY <1>1, <1>6, <1>7, <1>9, <2>1 DEF Same
  <2>3. SameOnMain(r)
    BY <1>1, SameOnMainUnchanged
  <2> QED
    BY <1>0, <1>1, <2>2, <2>3, Frame
<1>10. SInv(s)'
  <2>1. ChainInv(s)'
    BY <1>3, <1>6 DEF ChainInv
  <2>2. OpeningInv(s)'
    BY <1>1, <1>5, <1>7 DEF OpeningInv
  <2>3. ASSUME stage' = "run" PROVE RunInv(s)'
    <3>0. RunInv(s)
      BY <1>0, <1>1, <2>3 DEF SInv
    <3>1. /\ netQ[s] = << >> /\ ~In(mainQ, Entry(s)) /\ ~In(mainQ, End(s))
          /\ s \notin t_mapSession /\ s \notin m_mapSession
      BY <1>3, <3>0 DEF RunInv, FreshInv
    <3>2. \A X : ~In(netQ[s], X) /\ Once(netQ[s], X)
      BY <3>1 DEF In, Once
    <3>3. /\ Once(netQ'[s], {"register"}) /\ ~In(netQ'[s], {"erase"}) /\ ~In(netQ'[s], {"clear"})
          /\ \/ s \in named' /\ In(netQ'[s], {"register"}) /\ Head(netQ'[s]) = "register"
             \/ s \notin named' /\ ~In(netQ'[s], {"register"})
      <4>1. CASE named' = named \cup {s} /\ PostNet(s, "register")
        <5>1. /\ \A X : In(netQ'[s], X) <=> In(netQ[s], X) \/ "register" \in X
              /\ \A X : Once(netQ[s], X) /\ ~(In(netQ[s], X) /\ "register" \in X) => Once(netQ'[s], X)
              /\ netQ[s] = << >> => Head(netQ'[s]) = "register"
          BY <1>0, <1>a, <4>1, NetPush
        <5>2. "register" \in {"register"} /\ "register" \notin {"erase"} /\ "register" \notin {"clear"}
          OBVIOUS
        <5> QED
          BY <3>1, <3>2, <4>1, <5>1, <5>2
      <4>2. CASE UNCHANGED <<named, netQ>>
        BY <1>5, <3>2, <4>2
      <4> QED
        BY <1>2, <4>1, <4>2
    <3>4. FreshInv(s)' /\ UnnamedInv(s)'
      BY <1>1, <1>3, <3>1, <3>3 DEF FreshInv, UnnamedInv
    <3>5. RegisterInv(s)'
      BY <1>1, <1>5, <1>7, <3>1, <3>3 DEF RegisterInv
    <3>6. EntryInv(s)'
      BY <1>1, <3>0, <3>1 DEF RunInv, EntryInv
    <3>7. MapInv(s)' /\ FirstReadInv(s)'
      BY <1>0, <1>1, <3>1, <3>3 DEF MapInv, FirstReadInv
    <3>8. CallInv(s)'
      BY <1>1, <3>0, <3>3 DEF RunInv, CallInv
    <3>9. KindInv(s)'
      BY <1>0, <1>1, <3>0 DEF RunInv, KindInv
    <3> QED
      BY <3>4, <3>5, <3>6, <3>7, <3>8, <3>9 DEF RunInv
  <2> QED
    BY <2>1, <2>2, <2>3 DEF SInv
<1>11. accepting' # NoSession => accepting' \in named'
  BY <1>1, <1>6 DEF IInv
<1> QED
  BY <1>8, <1>9, <1>10, <1>11 DEF IInv
-----------------------------------------------------------------------------
\* Every step of the sessions' life keeps the inductive invariant.
LEMMA NextIInv == IInv /\ [Next]_vars => IInv'
<1> SUFFICES ASSUME IInv, [Next]_vars PROVE IInv'
  OBVIOUS
<1>1. CASE Listen
  BY <1>1, ListenIInv
<1>2. CASE \E s \in Accepts : AcceptDone(s)
  BY <1>2, AcceptDoneIInv
<1>3. CASE \/ \E s \in Accepts : AcceptAsserts(s)
           \/ \E s \in Sessions : MainAcceptedThrows(s)
           \/ StopWorkLoops \/ StopListenLoop
  <2>1. /\ UNCHANGED <<maps, io, queues, calls, opening, bounds>>
        /\ stage' \in Stages /\ stage' # "run"
    BY <1>3 DEF AcceptAsserts, MainAcceptedThrows, StopWorkLoops, StopListenLoop, Stages
  <2> QED
    BY <2>1, StageOnly
<1>4. CASE \E s \in Connects : Connect(s) \/ ConnectOk(s) \/ ConnectFails(s)
  BY <1>4, ConnectIInv, ConnectOkIInv, ConnectFailsIInv
<1>5. CASE \E s \in Sessions : NetStep(s)
  BY <1>5, NetRegisterIInv, NetReadOkIInv, QuietHandlerIInv, NetCloseIInv, NetEraseIInv DEF NetStep
<1>6. CASE \E s \in Sessions : SocketReadable(s) \/ TimerExpires(s) \/ CloseInMainLoop(s) \/ SendPacket(s)
  BY <1>6, PushIInv
<1>7. CASE \E s \in Sessions : MainAccepted(s) \/ MainConnect(s) \/ MainConnected(s)
                                   \/ MainClosed(s) \/ MainRemove(s)
  BY <1>7, MainEnterIInv, MainConnectIInv, MainLeaveIInv
<1>8. CASE StopBegin
  BY <1>8, StopBeginIInv
<1>9. CASE Idle \/ Terminated \/ UNCHANGED vars
  <2>1. UNCHANGED <<maps, io, queues, calls, opening, bounds>> /\ stage' = stage
    BY <1>9 DEF Idle, Terminated, vars
  <2> QED
    BY <2>1, StageOnly
<1> QED
  BY <1>1, <1>2, <1>3, <1>4, <1>5, <1>6, <1>7, <1>8, <1>9 DEF Next, MainStep

\* Every variable has its type in every reachable state.
THEOREM TypeCorrect == Spec => []TypeOK
<1>1. IInv => TypeOK
  BY DEF IInv
<1> QED
  BY InitIInv, NextIInv, <1>1, PTL DEF Spec

\* NetModule: while the server runs, a session that the main loop can find in
\* m_mapSession is in t_mapSessionInNetLoop of its thread, whatever threads do.
THEOREM ThreadKnowsFirst == Spec => []MainKnowsLess
<1>1. IInv => MainKnowsLess
  BY DEF IInv, SInv, RunInv, MapInv, MainKnowsLess, TypeOK
<1> QED
  BY InitIInv, NextIInv, <1>1, PTL DEF Spec

\* DoSessionCloseInNetLoop and RemoveMapSession: a closed session is in neither
\* map, or the closure that takes it out of the map, or the one that first enters
\* it, is on its way.
THEOREM ClosedDoNotStay == Spec => []NoGhost
<1>1. IInv => NoGhost
  <2> SUFFICES ASSUME IInv, stage = "run", NEW s \in Sessions, sock[s] = "closed"
               PROVE  /\ s \in m_mapSession => OnMain(s, "remove")
                      /\ s \in t_mapSession \ m_mapSession =>
                             OnNet(s, "erase") \/ OnMain(s, "accepted") \/ OnMain(s, "connected")
    BY DEF NoGhost
  <2>1. MapInv(s)
    BY DEF IInv, SInv, RunInv
  <2>2. In(mainQ, {<<"remove", s>>}) => OnMain(s, "remove")
    BY DEF In, OnMain
  <2>3. In(netQ[s], {"erase"}) => OnNet(s, "erase")
    BY DEF In, OnNet
  <2>4. In(mainQ, Entry(s)) => OnMain(s, "accepted") \/ OnMain(s, "connected")
    BY DEF In, OnMain, Entry
  <2> QED
    BY <2>1, <2>2, <2>3, <2>4 DEF MapInv
<1> QED
  BY InitIInv, NextIInv, <1>1, PTL DEF Spec

\* Connect's callbacks: at most one ConnectCb and one CloseCb, and no CloseCb of
\* a session with an id before its ConnectCb.
THEOREM CallbacksComeInOrder == Spec => []CallbacksInOrder
<1>1. IInv => CallbacksInOrder
  BY DEF IInv, SInv, OpeningInv, CallbacksInOrder, Sessions
<1> QED
  BY InitIInv, NextIInv, <1>1, PTL DEF Spec

\* DoSessionRead: no second read of a session is issued while one is outstanding
\* or its handler is ready.
THEOREM ReadsAreAChain == Spec => []OneReadChain
<1>1. IInv => OneReadChain
  <2> SUFFICES ASSUME IInv, NEW s \in Sessions
               PROVE  Cardinality({i \in 1..Len(netQ[s]) : netQ[s][i] \in {"readOk", "readErr"}})
                          + (IF s \in reading THEN 1 ELSE 0) <= 1
    BY DEF OneReadChain
  <2>1. Once(netQ[s], Reads) /\ (s \in reading => ~In(netQ[s], Reads))
    BY DEF IInv, SInv, ChainInv
  <2>2. PICK R : R = {i \in 1..Len(netQ[s]) : netQ[s][i] \in Reads}
    OBVIOUS
  <2>3. CASE R = {}
    <3>1. Cardinality(R) = 0
      BY <2>3, FS_EmptySet
    <3> QED
      BY <2>2, <3>1 DEF Reads
  <2>4. CASE R # {}
    <3>1. PICK i : i \in R
      BY <2>4
    <3>2. R = {i}
      BY <2>1, <2>2, <3>1 DEF Once
    <3>3. Cardinality(R) = 1
      BY <3>2, FS_Singleton
    <3>4. s \notin reading
      BY <2>1, <2>2, <3>1 DEF In
    <3> QED
      BY <2>2, <3>3, <3>4 DEF Reads
  <2> QED
    BY <2>3, <2>4
<1> QED
  BY InitIInv, NextIInv, <1>1, PTL DEF Spec
=============================================================================
