----------------------------- MODULE TaskQueues -----------------------------
(***************************************************************************)
(* Queues of tasks, as the runloops of the app, of an engine and of an     *)
(* extension thread keep them: a task is posted to the end and taken from  *)
(* the front.  What the proofs need to know of a queue is whether it has a *)
(* task, has it once, or has another one before it.                        *)
(***************************************************************************)
EXTENDS SequenceTheorems, TLAPS

\* The queue q has the task t, has it at most once, and has an a before every b.
Has(q, t) == \E i \in DOMAIN q : q[i] = t
Once(q, t) == \A i, j \in DOMAIN q : q[i] = t /\ q[j] = t => i = j
Precedes(q, a, b) == \A j \in DOMAIN q : q[j] = b => \E i \in DOMAIN q : i < j /\ q[i] = a

-----------------------------------------------------------------------------
(* What a queue has when a task is taken from it, or others are posted.    *)

LEMMA Tailed ==
    ASSUME NEW S, NEW q \in Seq(S), q # <<>>
    PROVE  /\ Head(q) \in S /\ Head(q) = q[1] /\ Tail(q) \in Seq(S)
           /\ 1 \in DOMAIN q
           /\ \A i \in DOMAIN Tail(q) : i \in Nat /\ i + 1 \in DOMAIN q /\ Tail(q)[i] = q[i + 1]
           /\ \A i \in DOMAIN q : i \in Nat /\ (i # 1 => i - 1 \in DOMAIN Tail(q))
<1>1. Head(q) \in S /\ Head(q) = q[1] /\ Tail(q) \in Seq(S)
  BY HeadTailProperties
<1>2. Len(Tail(q)) = Len(q) - 1 /\ \A i \in 1..Len(Tail(q)) : Tail(q)[i] = q[i + 1]
  BY HeadTailProperties
<1>3. Len(q) \in Nat /\ Len(q) # 0 /\ DOMAIN q = 1..Len(q)
  BY LenProperties, EmptySeq
<1>4. DOMAIN Tail(q) = 1..Len(Tail(q))
  BY <1>1, LenProperties
<1> QED BY <1>1, <1>2, <1>3, <1>4

LEMMA Joined ==
    ASSUME NEW S, NEW p \in Seq(S), NEW q \in Seq(S)
    PROVE  /\ p \o q \in Seq(S)
           /\ \A i \in DOMAIN p : i \in 1..Len(p) /\ i \in DOMAIN (p \o q) /\ (p \o q)[i] = p[i]
           /\ \A i \in DOMAIN q : Len(p) + i \in DOMAIN (p \o q) /\ (p \o q)[Len(p) + i] = q[i]
           /\ \A i \in DOMAIN (p \o q) :
                 i \in Nat /\ (i \in DOMAIN p \/ (i > Len(p) /\ i - Len(p) \in DOMAIN q))
           /\ Len(p) \in Nat
<1>1. p \o q \in Seq(S) /\ Len(p \o q) = Len(p) + Len(q)
  BY ConcatProperties
<1>2. \A i \in 1..Len(p) + Len(q) :
          (p \o q)[i] = IF i <= Len(p) THEN p[i] ELSE q[i - Len(p)]
  BY ConcatProperties
<1>3. /\ Len(p) \in Nat /\ DOMAIN p = 1..Len(p)
      /\ Len(q) \in Nat /\ DOMAIN q = 1..Len(q)
      /\ DOMAIN (p \o q) = 1..Len(p \o q)
  BY <1>1, LenProperties
<1> QED BY <1>1, <1>2, <1>3

LEMMA HasTail ==
    ASSUME NEW S, NEW q \in Seq(S), q # <<>>, NEW t
    PROVE  /\ Has(q, Head(q))
           /\ Has(Tail(q), t) => Has(q, t)
           /\ Has(q, t) /\ Head(q) # t => Has(Tail(q), t)
           /\ Once(q, t) => Once(Tail(q), t)
           /\ Once(q, t) /\ Head(q) = t => ~Has(Tail(q), t)
BY Tailed DEF Has, Once

LEMMA HasJoined ==
    ASSUME NEW S, NEW p \in Seq(S), NEW q \in Seq(S), NEW t
    PROVE  /\ Has(p \o q, t) <=> Has(p, t) \/ Has(q, t)
           /\ Once(p, t) /\ ~Has(q, t) => Once(p \o q, t)
           /\ ~Has(p, t) /\ Once(q, t) => Once(p \o q, t)
<1>1. Has(p \o q, t) <=> Has(p, t) \/ Has(q, t)
  <2>1. Has(p, t) => Has(p \o q, t)
    BY Joined DEF Has
  <2>2. ASSUME NEW i \in DOMAIN q, q[i] = t PROVE Has(p \o q, t)
    <3>1. Len(p) + i \in DOMAIN (p \o q) /\ (p \o q)[Len(p) + i] = q[i]
      BY Joined
    <3> QED BY <2>2, <3>1 DEF Has
  <2>3. ASSUME NEW i \in DOMAIN (p \o q), (p \o q)[i] = t PROVE Has(p, t) \/ Has(q, t)
    <3>1. CASE i \in DOMAIN p
      BY <2>3, <3>1, Joined DEF Has
    <3>2. CASE i > Len(p) /\ i - Len(p) \in DOMAIN q
      <4>1. Len(p) + (i - Len(p)) = i
        BY <3>2, Joined
      <4> QED BY <2>3, <3>2, <4>1, Joined DEF Has
    <3> QED BY <3>1, <3>2, Joined
  <2>4. Has(q, t) => Has(p \o q, t)
    BY <2>2 DEF Has
  <2>5. Has(p \o q, t) => Has(p, t) \/ Has(q, t)
    BY <2>3 DEF Has
  <2> QED BY <2>1, <2>4, <2>5
<1>2. Once(p, t) /\ ~Has(q, t) => Once(p \o q, t)
  BY Joined DEF Has, Once
<1>3. ~Has(p, t) /\ Once(q, t) => Once(p \o q, t)
  <2> SUFFICES ASSUME ~Has(p, t), Once(q, t), NEW i \in DOMAIN (p \o q), (p \o q)[i] = t,
                      NEW j \in DOMAIN (p \o q), (p \o q)[j] = t
               PROVE  i = j
    BY DEF Once
  <2>1. i > Len(p) /\ i - Len(p) \in DOMAIN q /\ i \in Nat /\ j > Len(p) /\ j - Len(p) \in DOMAIN q /\ j \in Nat
    BY Joined DEF Has
  <2>2. q[i - Len(p)] = t /\ q[j - Len(p)] = t
    <3>1. Len(p) + (i - Len(p)) = i /\ Len(p) + (j - Len(p)) = j
      BY <2>1, Joined
    <3> QED BY <2>1, <3>1, Joined
  <2> QED BY <2>1, <2>2, Joined DEF Once
<1> QED BY <1>1, <1>2, <1>3

LEMMA PrecedesTail ==
    ASSUME NEW S, NEW q \in Seq(S), q # <<>>, NEW a, NEW b, Precedes(q, a, b)
    PROVE  /\ Head(q) # b
           /\ Head(q) # a => Precedes(Tail(q), a, b)
<1>1. Head(q) # b
  BY Tailed DEF Precedes
<1>2. ASSUME Head(q) # a PROVE Precedes(Tail(q), a, b)
  <2> SUFFICES ASSUME NEW j \in DOMAIN Tail(q), Tail(q)[j] = b
               PROVE  \E i \in DOMAIN Tail(q) : i < j /\ Tail(q)[i] = a
    BY DEF Precedes
  <2>1. j \in Nat /\ j + 1 \in DOMAIN q /\ q[j + 1] = b
    BY Tailed
  <2>2. PICK i \in DOMAIN q : i < j + 1 /\ q[i] = a
    BY <2>1 DEF Precedes
  <2>3. i \in Nat /\ i # 1 /\ i - 1 \in DOMAIN Tail(q)
    BY <1>2, <2>2, Tailed
  <2>4. Tail(q)[i - 1] = q[(i - 1) + 1]
    BY <2>3, Tailed
  <2> QED BY <2>1, <2>2, <2>3, <2>4
<1> QED BY <1>1, <1>2

LEMMA PrecedesJoined ==
    ASSUME NEW S, NEW p \in Seq(S), NEW q \in Seq(S), NEW a, NEW b
    PROVE  /\ Precedes(p, a, b) /\ (Has(p, a) \/ ~Has(q, b)) => Precedes(p \o q, a, b)
           /\ ~Has(p, b) => Precedes(p, a, b)
BY Joined DEF Has, Precedes

LEMMA HasNone == ASSUME NEW t PROVE ~Has(<<>>, t) /\ Once(<<>>, t)
BY DEF Has, Once

LEMMA HasOne == ASSUME NEW t, NEW u PROVE (Has(<<u>>, t) <=> t = u) /\ Once(<<u>>, t)
BY DEF Has, Once

LEMMA HasAppended ==
    ASSUME NEW S, NEW q \in Seq(S), NEW u \in S, NEW t
    PROVE  /\ Append(q, u) = q \o <<u>>
           /\ Append(q, u) \in Seq(S)
           /\ Has(Append(q, u), t) <=> Has(q, t) \/ t = u
           /\ Once(q, t) /\ (t # u \/ ~Has(q, t)) => Once(Append(q, u), t)
<1> DEFINE s == <<u>>
<1>1. s \in Seq(S) /\ Append(q, u) = q \o s
  BY AppendIsConcat
<1>2. (Has(s, t) <=> t = u) /\ Once(s, t)
  BY HasOne
<1> HIDE DEF s
<1>3. /\ Has(q \o s, t) <=> Has(q, t) \/ Has(s, t)
      /\ Once(q, t) /\ ~Has(s, t) => Once(q \o s, t)
      /\ ~Has(q, t) /\ Once(s, t) => Once(q \o s, t)
  BY <1>1, HasJoined
<1>4. q \o s \in Seq(S)
  BY <1>1, ConcatProperties
<1> QED BY <1>1, <1>2, <1>3, <1>4 DEF s

-----------------------------------------------------------------------------
(* What a handler does to a queue.                                         *)

\* The queue r is q without the task in took, which was its first if there is one, and with
\* those in posts at the end.
Moves(q, r, took, posts) ==
    /\ \A u : Has(r, u) => Has(q, u) \/ u \in posts
    /\ \A u : Has(q, u) /\ u \notin took => Has(r, u)
    /\ \A u \in posts : Has(r, u)
    /\ \A u : Once(q, u) /\ (u \notin posts \/ ~Has(q, u)) => Once(r, u)
    /\ \A u \in took : Has(q, u) /\ (Once(q, u) /\ u \notin posts => ~Has(r, u))
    /\ \A a, b : Precedes(q, a, b) /\ a \notin took /\ (Has(q, a) \/ b \notin posts)
                     => Precedes(r, a, b) /\ b \notin took
    /\ \A a, b : Precedes(q, a, b) /\ b \in took => a \in took /\ a # b

LEMMA MovesPost ==
    ASSUME NEW S, NEW q \in Seq(S), NEW us \in Seq(S), NEW posts,
           \A u : Has(us, u) <=> u \in posts, \A u : Once(us, u)
    PROVE  Moves(q, q \o us, {}, posts)
<1>1. \A u : /\ Has(q \o us, u) <=> Has(q, u) \/ Has(us, u)
             /\ Once(q, u) /\ ~Has(us, u) => Once(q \o us, u)
             /\ ~Has(q, u) /\ Once(us, u) => Once(q \o us, u)
  BY HasJoined
<1>2. \A a, b : Precedes(q, a, b) /\ (Has(q, a) \/ b \notin posts) => Precedes(q \o us, a, b)
  BY PrecedesJoined
<1> QED BY <1>1, <1>2 DEF Moves

LEMMA MovesTake ==
    ASSUME NEW S, NEW q \in Seq(S), q # <<>>, NEW t, Head(q) = t, NEW us \in Seq(S), NEW posts,
           \A u : Has(us, u) <=> u \in posts, \A u : Once(us, u)
    PROVE  Moves(q, Tail(q) \o us, {t}, posts)
<1>0. Tail(q) \in Seq(S)
  BY Tailed
<1>1. \A u : /\ Has(q, t)
             /\ Has(Tail(q), u) => Has(q, u)
             /\ Has(q, u) /\ t # u => Has(Tail(q), u)
             /\ Once(q, u) => Once(Tail(q), u)
             /\ Once(q, t) => ~Has(Tail(q), t)
  BY HasTail
<1>2. \A u : /\ Has(Tail(q) \o us, u) <=> Has(Tail(q), u) \/ Has(us, u)
             /\ Once(Tail(q), u) /\ ~Has(us, u) => Once(Tail(q) \o us, u)
             /\ ~Has(Tail(q), u) /\ Once(us, u) => Once(Tail(q) \o us, u)
  BY <1>0, HasJoined
<1>3. \A a, b : Precedes(q, a, b) => t # b
  BY PrecedesTail
<1>4. \A a, b : Precedes(q, a, b) /\ t # a => Precedes(Tail(q), a, b)
  BY PrecedesTail
<1>5. \A a, b : Precedes(Tail(q), a, b) /\ (Has(Tail(q), a) \/ ~Has(us, b))
                    => Precedes(Tail(q) \o us, a, b)
  BY <1>0, PrecedesJoined
<1>6. \A a, b : Precedes(q, a, b) /\ a # t /\ (Has(q, a) \/ b \notin posts)
                    => Precedes(Tail(q) \o us, a, b) /\ b # t
  BY <1>1, <1>3, <1>4, <1>5
<1> QED BY <1>1, <1>2, <1>3, <1>6 DEF Moves

\* Most handlers post one task or none.
LEMMA MovesOne ==
    ASSUME NEW S, NEW q \in Seq(S), NEW u \in S
    PROVE  /\ Moves(q, Append(q, u), {}, {u})
           /\ Moves(q, q \o <<u>>, {}, {u})
           /\ Moves(q, q \o <<>>, {}, {})
           /\ q # <<>> => /\ Moves(q, Tail(q) \o <<u>>, {Head(q)}, {u})
                          /\ Moves(q, Tail(q) \o <<>>, {Head(q)}, {})
<1> DEFINE us == <<u>>
           none == <<>>
<1>1. us \in Seq(S) /\ none \in Seq(S) /\ Append(q, u) = q \o us
  BY AppendIsConcat
<1>2. \A v : (Has(us, v) <=> v \in {u}) /\ Once(us, v)
  BY HasOne
<1>3. \A v : (Has(none, v) <=> v \in {}) /\ Once(none, v)
  BY HasNone
<1> HIDE DEF us, none
<1>4. Moves(q, q \o us, {}, {u}) /\ Moves(q, q \o none, {}, {})
  BY <1>1, <1>2, <1>3, MovesPost
<1>5. q # <<>> => /\ Moves(q, Tail(q) \o us, {Head(q)}, {u})
                  /\ Moves(q, Tail(q) \o none, {Head(q)}, {})
  BY <1>1, <1>2, <1>3, MovesTake
<1> QED BY <1>1, <1>4, <1>5 DEF us, none

LEMMA MovesNot == ASSUME NEW q PROVE Moves(q, q, {}, {})
BY DEF Moves

\* A queue that has no task is empty.
LEMMA QueueEmpty ==
    ASSUME NEW S, NEW q \in Seq(S), \A u \in S : ~Has(q, u)
    PROVE  q = <<>>
<1> SUFFICES ASSUME q # <<>> PROVE FALSE
  OBVIOUS
<1>1. Head(q) \in S /\ Has(q, Head(q))
  BY Tailed, HasTail
<1> QED BY <1>1

=============================================================================
