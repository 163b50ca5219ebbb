-------------------------- MODULE CmdRoutingProofs --------------------------
(***************************************************************************)
(* Proofs about CmdRouting: its type invariant, that messages between      *)
(* threads arrive in order, and that nothing is dropped, for every set of  *)
(* extensions, every finite set of groups, every size of the queues and    *)
(* every set of requests that are sent.                                    *)
(*                                                                         *)
(* The inductive invariant Inv has five parts.  Typed says which values    *)
(* there are, and of the messages where they can be.  Control relates the  *)
(* states of the threads, of the extensions and of the engine to the tasks *)
(* in their queues: it is what makes the engine ready only when every      *)
(* thread is there, and a thread end only when it has nothing left.        *)
(* WereSent says that what is under way was sent, so that a new request is *)
(* like none of them.  InSequence follows the way to an extension, from    *)
(* in_msgs through the batch of the engine, the queue of the thread and    *)
(* what is kept, to what is delivered: the numbers of one sender ascend    *)
(* along it.  Accounted counts the places where a command that is waited   *)
(* for can be: it is in one of them exactly, or it is lost.  Each part is  *)
(* shown to be kept by a step from itself and the parts before it.         *)
(***************************************************************************)
EXTENDS CmdRouting, FiniteSetTheorems, TaskQueues

-----------------------------------------------------------------------------
(* The inductive invariant.  First the values of the variables: what is in *)
(* a queue, and where a message can be kept.                               *)

Lives == {"INIT", "early", "live", "deinit", "held", "deinit_done", "deleted"}

ThreadStates == {"none", "CREATING_EXTENSIONS", "created", "NORMAL", "PREPARE_TO_CLOSE",
                 "destroyed", "CLOSED"}

EngineTasks == {HandleInMsgs} \union {Task(name, g) : name \in {"find_info", "remove"}, g \in Group}

StartLife == Task("start_life_cycle", None)
ToClose == Task("trigger_close", None)
Removed == Task("removed", None)

MsgsTo(g) == {m \in Msg : m.dest \in Extension /\ GroupOf[m.dest] = g}

ThreadTasks(g) ==
    {StartLife, ToClose, Removed}
    \union {Task("del_extension", x) : x \in ExtensionsOf(g)}
    \union {Task("msg", m) : m \in MsgsTo(g)}

RequestsTo(x) == {m \in Request : m.dest = x}

EngineTyped ==
    /\ extension_context \in BOOLEAN
    /\ threads \subseteq Group
    /\ is_ready \in BOOLEAN
    /\ cnt_of_ready \in Nat
    /\ is_closing \in BOOLEAN
    /\ is_remote \in BOOLEAN

EngineQueuesTyped ==
    /\ e_queue \in Seq(EngineTasks)
    /\ in_msgs \in Seq(Msg)
    /\ taken \in Seq(Msg)
    /\ put_back \in Seq(Msg)

ThreadsTyped ==
    /\ t_state \in [Group -> ThreadStates]
    /\ t_queue = [g \in Group |-> t_queue[g]]
    /\ \A g \in Group : t_queue[g] \in Seq(ThreadTasks(g))
    /\ flushing = [g \in Group |-> flushing[g]]
    /\ \A g \in Group : flushing[g] \in ExtensionsOf(g) \union {None}

KeptTyped ==
    /\ init_stage = [x \in Extension |-> init_stage[x]]
    /\ pending = [x \in Extension |-> pending[x]]
    /\ delivered = [x \in Extension |-> delivered[x]]
    /\ \A x \in Extension :
          /\ init_stage[x] \in Seq(RequestsTo(x))
          /\ pending[x] \in Seq(RequestsTo(x))
          /\ delivered[x] \in Seq(RequestsTo(x))

ExtensionsTyped ==
    /\ life \in [Extension -> Lives]
    /\ in_paths \in [Extension -> SUBSET (Sender \X Nat)]
    /\ out_paths \in [Extension -> SUBSET Nat]
    /\ sent \in [Sender -> Nat]

Typed == EngineTyped /\ EngineQueuesTyped /\ ThreadsTyped /\ KeptTyped /\ ExtensionsTyped

\* How far the thread of a group has come, and which task carries it on.
FindInfo(g) == Task("find_info", g)
Remove(g) == Task("remove", g)
Delete(x) == Task("del_extension", x)

Begins(g) == t_state[g] \in {"none", "CREATING_EXTENSIONS", "created"}
Ends(g) == t_state[g] \in {"PREPARE_TO_CLOSE", "destroyed", "CLOSED"}

ThreadIs(g) ==
    /\ t_state[g] = "none" <=> ~extension_context
    /\ g \in threads <=> /\ extension_context
                         /\ t_state[g] \in {"destroyed", "CLOSED"} => Has(e_queue, Remove(g))
    /\ Has(e_queue, FindInfo(g)) => t_state[g] = "created"
    /\ Has(t_queue[g], StartLife) <=> t_state[g] = "created" /\ ~Has(e_queue, FindInfo(g))
    /\ Has(t_queue[g], ToClose) <=> is_closing /\ t_state[g] \in {"created", "NORMAL"}
    /\ t_state[g] = "created" => Precedes(t_queue[g], StartLife, ToClose)
    /\ Has(e_queue, Remove(g)) => t_state[g] = "destroyed"
    /\ Has(t_queue[g], Removed) <=> t_state[g] = "destroyed" /\ g \notin threads
    /\ Once(e_queue, FindInfo(g)) /\ Once(e_queue, Remove(g))
    /\ Once(t_queue[g], StartLife) /\ Once(t_queue[g], ToClose) /\ Once(t_queue[g], Removed)
    /\ Ends(g) => is_closing

\* Nothing is posted to a thread before there is one, nor once it is removed, so that its
\* last task is the last.
EndsEmpty(g) ==
    /\ \A i \in DOMAIN t_queue[g] : t_queue[g][i] = Removed => i = Len(t_queue[g])
    /\ t_state[g] \in {"none", "CLOSED"} => t_queue[g] = <<>>

\* The life of an extension, and what is kept for it.
ExtIs(x) ==
    LET g == GroupOf[x]
    IN  /\ life[x] = "INIT" <=> Begins(g)
        /\ life[x] \in {"deinit", "held", "deinit_done", "deleted"} => Ends(g)
        /\ t_state[g] \in {"destroyed", "CLOSED"} => life[x] = "deleted"
        /\ Has(t_queue[g], Delete(x)) <=> life[x] = "deinit_done" /\ flushing[g] # x
        /\ Once(t_queue[g], Delete(x))
        /\ flushing[g] = x => Kept(x) # <<>> /\ life[x] \in {"live", "deinit_done"}
        /\ life[x] \in {"deinit_done", "deleted"} /\ flushing[g] # x => Kept(x) = <<>>
        /\ life[x] \in {"INIT", "held", "deinit_done", "deleted"} => out_paths[x] = {}
        /\ life[x] = "INIT" => pending[x] = <<>> /\ sent[x] = 0

\* The engine is ready when every thread has reported.
Reported == {g \in Group : ~Has(e_queue, FindInfo(g)) /\ t_state[g] \notin {"none", "CREATING_EXTENSIONS"}}

ReadyIs ==
    /\ cnt_of_ready = Cardinality(Reported)
    /\ is_ready <=> extension_context /\ Group # {} /\ Reported = Group
    /\ is_closing => is_ready
    /\ put_back # <<>> => ~is_ready

Control == (\A g \in Group : ThreadIs(g) /\ EndsEmpty(g)) /\ (\A x \in Extension : ExtIs(x)) /\ ReadyIs

\* Where messages are: the places on the way to the extension x, from its end.
MsgOf(t) == IF t[1] = "msg" THEN t[2] ELSE None
Carried(q) == [i \in DOMAIN q |-> MsgOf(q[i])]

Way(x) == <<delivered[x], init_stage[x], pending[x], Carried(t_queue[GroupOf[x]]), put_back, taken,
            in_msgs>>

\* Whatever is under way was sent, when the senders have sent the numbers of requests in c.
IdSent(id, c) == id[2] \in 1..c[id[1]]
IsSent(m, c) == m # None => IdSent(CmdId(m), c)
AllSent(q, c) == \A i \in DOMAIN q : IsSent(q[i], c)

WereSent ==
    /\ AllSent(in_msgs, sent) /\ AllSent(taken, sent) /\ AllSent(put_back, sent)
    /\ \A g \in Group : AllSent(Carried(t_queue[g]), sent)
    /\ \A x \in Extension :
          /\ AllSent(init_stage[x], sent) /\ AllSent(pending[x], sent) /\ AllSent(delivered[x], sent)
          /\ \A id \in in_paths[x] : IdSent(id, sent)
          /\ \A n \in out_paths[x] : IdSent(<<x, n>>, sent)
    /\ lost \subseteq Sender \X Nat
    /\ \A id \in lost : IdSent(id, sent)

\* The numbers of those messages in q that are in S, and whether they are in order.
Numbers(q, S) == {q[i].n : i \in {j \in DOMAIN q : q[j] \in S}}
Ascends(q, S) == \A i, j \in DOMAIN q : i < j /\ q[i] \in S /\ q[j] \in S => q[i].n < q[j].n

Ordered(way, on, S) ==
    /\ \A k \in on : Ascends(way[k], S)
    /\ \A j, k \in on : j < k =>
          \A a \in Numbers(way[j], S), b \in Numbers(way[k], S) : a < b

\* What is kept for x counts as long as it will be delivered.
WillFlush(x) == life[x] \in {"INIT", "early"} \/ (life[x] = "live" /\ flushing[GroupOf[x]] = x)
Counts(x) == IF WillFlush(x) THEN 1..7 ELSE {1, 4, 5, 6, 7}

From(s, x) == {m \in Request : m.src = s /\ m.dest = x}
Others(x) == {s \in Extension : GroupOf[s] # GroupOf[x]}

InSequence == \A x \in Extension : \A s \in Others(x) : Ordered(Way(x), Counts(x), From(s, x))

\* How often the command id is in each of the places.
WithId(id) == {m \in Msg : m.kind # "data" /\ CmdId(m) = id}
Count(q, S) == Cardinality({i \in DOMAIN q : q[i] \in S})

Places == ({"in_msgs", "taken", "put_back"} \X {None}) \union ({"queue"} \X Group)
          \union ({"init_stage", "pending", "held"} \X Extension)

CountAt(p, id) ==
    CASE p[1] = "in_msgs" -> Count(in_msgs, WithId(id))
      [] p[1] = "taken" -> Count(taken, WithId(id))
      [] p[1] = "put_back" -> Count(put_back, WithId(id))
      [] p[1] = "queue" -> Count(Carried(t_queue[p[2]]), WithId(id))
      [] p[1] = "init_stage" -> Count(init_stage[p[2]], WithId(id))
      [] p[1] = "pending" -> Count(pending[p[2]], WithId(id))
      [] p[1] = "held" -> IF id \in in_paths[p[2]] THEN 1 ELSE 0

InOnePlace(c) == \E p \in Places : c[p] = 1 /\ \A q \in Places : q # p => c[q] = 0
InNoPlace(c) == \A p \in Places : c[p] = 0

Counted(id) == [p \in Places |-> CountAt(p, id)]

Accounted ==
    \A x \in Extension : \A n \in out_paths[x] :
        IF <<x, n>> \in lost THEN InNoPlace(Counted(<<x, n>>)) ELSE InOnePlace(Counted(<<x, n>>))

Inv == Typed /\ Control /\ WereSent /\ InSequence /\ Accounted

-----------------------------------------------------------------------------
(* What is in a sequence when something is appended, taken or put before.  *)

LEMMA Appended ==
    ASSUME NEW T, NEW q \in Seq(T), NEW e \in T
    PROVE  /\ Append(q, e) \in Seq(T)
           /\ Len(q) \in Nat /\ DOMAIN q = 1..Len(q)
           /\ DOMAIN Append(q, e) = DOMAIN q \union {Len(q) + 1}
           /\ \A i \in DOMAIN q : i # Len(q) + 1 /\ i <= Len(q) /\ Append(q, e)[i] = q[i]
           /\ Append(q, e)[Len(q) + 1] = e
<1>1. /\ Append(q, e) \in Seq(T) /\ Len(Append(q, e)) = Len(q) + 1
      /\ \A i \in 1..Len(q) : Append(q, e)[i] = q[i]
      /\ Append(q, e)[Len(q) + 1] = e
  BY AppendProperties
<1>2. Len(q) \in Nat /\ DOMAIN q = 1..Len(q)
  BY LenProperties
<1>3. DOMAIN Append(q, e) = 1..Len(q) + 1
  BY <1>1, LenProperties
<1> QED BY <1>1, <1>2, <1>3

LEMMA CountFinite ==
    ASSUME NEW T, NEW q \in Seq(T), NEW S
    PROVE  /\ IsFiniteSet({i \in DOMAIN q : q[i] \in S})
           /\ Count(q, S) \in Nat
           /\ Count(q, S) = 0 <=> \A i \in DOMAIN q : q[i] \notin S
           /\ Count(q, S) = 1 <=> \E i \in DOMAIN q : q[i] \in S /\ \A j \in DOMAIN q : q[j] \in S => j = i
<1> DEFINE I == {i \in DOMAIN q : q[i] \in S}
<1>1. Len(q) \in Nat /\ DOMAIN q = 1..Len(q)
  BY LenProperties
<1>2. IsFiniteSet(1..Len(q))
  BY <1>1, FS_Interval
<1>3. IsFiniteSet(I)
  BY <1>1, <1>2, FS_Subset
<1>4. Cardinality(I) \in Nat /\ (Cardinality(I) = 0 <=> I = {})
  BY <1>3, FS_CardinalityType, FS_EmptySet
<1>5. Cardinality(I) = 1 <=> \E i : I = {i}
  BY <1>3, FS_Singleton
<1>6. (\E i : I = {i}) <=> \E i \in DOMAIN q : q[i] \in S /\ \A j \in DOMAIN q : q[j] \in S => j = i
  <2>1. ASSUME NEW i, I = {i} PROVE i \in DOMAIN q /\ q[i] \in S /\ \A j \in DOMAIN q : q[j] \in S => j = i
    BY <2>1
  <2>2. ASSUME NEW i \in DOMAIN q, q[i] \in S, \A j \in DOMAIN q : q[j] \in S => j = i PROVE I = {i}
    BY <2>2
  <2> QED BY <2>1, <2>2
<1> QED BY <1>3, <1>4, <1>5, <1>6 DEF Count

LEMMA CountAppended ==
    ASSUME NEW T, NEW q \in Seq(T), NEW e \in T, NEW S
    PROVE  Count(Append(q, e), S) = Count(q, S) + (IF e \in S THEN 1 ELSE 0)
<1> DEFINE I == {i \in DOMAIN q : q[i] \in S}
           r == Append(q, e)
           J == {i \in DOMAIN r : r[i] \in S}
<1>1. IsFiniteSet(I) /\ Cardinality(I) \in Nat
  <2>1. IsFiniteSet(I)
    BY CountFinite
  <2> HIDE DEF I
  <2> QED BY <2>1, FS_CardinalityType
<1>2. /\ DOMAIN r = DOMAIN q \union {Len(q) + 1}
      /\ \A i \in DOMAIN q : i # Len(q) + 1 /\ r[i] = q[i]
      /\ r[Len(q) + 1] = e
  BY Appended
<1>3. J = IF e \in S THEN I \union {Len(q) + 1} ELSE I
  <2> HIDE DEF r
  <2> QED BY <1>2
<1>4. Len(q) + 1 \notin I
  <2> HIDE DEF r
  <2> QED BY <1>2
<1>5. Cardinality(I \union {Len(q) + 1}) = Cardinality(I) + 1
  <2> HIDE DEF I
  <2> QED BY <1>1, <1>4, FS_AddElement
<1> HIDE DEF I, J, r
<1>6. Cardinality(J) = Cardinality(I) + (IF e \in S THEN 1 ELSE 0)
  BY <1>1, <1>3, <1>5
<1> QED BY <1>6 DEF I, J, r, Count

LEMMA CountTail ==
    ASSUME NEW T, NEW q \in Seq(T), q # <<>>, NEW S
    PROVE  Count(q, S) = Count(Tail(q), S) + (IF Head(q) \in S THEN 1 ELSE 0)
<1> DEFINE I == {i \in DOMAIN q : q[i] \in S}
           r == Tail(q)
           J == {i \in DOMAIN r : r[i] \in S}
           f == [j \in J |-> j + 1]
<1>1. /\ Head(q) = q[1] /\ r \in Seq(T) /\ 1 \in DOMAIN q
      /\ \A i \in DOMAIN r : i \in Nat /\ i + 1 \in DOMAIN q /\ r[i] = q[i + 1]
      /\ \A i \in DOMAIN q : i \in Nat /\ (i # 1 => i - 1 \in DOMAIN r)
  BY Tailed
<1>2. IsFiniteSet(I) /\ IsFiniteSet(J) /\ Cardinality(J) \in Nat /\ Cardinality(I) \in Nat
  <2>1. IsFiniteSet(I)
    BY CountFinite
  <2>3. r \in Seq(T)
    BY <1>1
  <2> HIDE DEF r
  <2>2. IsFiniteSet(J)
    BY <2>3, CountFinite
  <2> HIDE DEF I, J
  <2> QED BY <2>1, <2>2, FS_CardinalityType
<1>3. \A i \in DOMAIN r : i # 0
  <2>1. DOMAIN r = 1..Len(r) /\ Len(r) \in Nat
    BY <1>1, LenProperties
  <2> QED BY <2>1
<1> HIDE DEF r
<1>4. f \in [J -> I \ {1}]
  BY <1>1, <1>3
<1>5. \A i, j \in J : f[i] = f[j] => i = j
  <2>1. \A i \in J : i \in Nat /\ f[i] = i + 1
    BY <1>1
  <2> HIDE DEF f, J
  <2> QED BY <2>1
<1>6. \A i \in I \ {1} : \E j \in J : f[j] = i
  <2> SUFFICES ASSUME NEW i \in I \ {1} PROVE \E j \in J : f[j] = i
    OBVIOUS
  <2>1. i \in Nat /\ i - 1 \in DOMAIN r /\ r[i - 1] = q[(i - 1) + 1] /\ (i - 1) + 1 = i
    BY <1>1
  <2>2. i - 1 \in J
    BY <2>1
  <2> QED BY <2>1, <2>2
<1>7. f \in Bijection(J, I \ {1})
  <2> HIDE DEF f, I, J
  <2>1. f \in Injection(J, I \ {1})
    BY <1>4, <1>5 DEF Injection, IsInjective
  <2>2. f \in Surjection(J, I \ {1})
    BY <1>4, <1>6 DEF Surjection
  <2> QED BY <2>1, <2>2 DEF Bijection
<1> HIDE DEF f
<1>8. Cardinality(I \ {1}) = Cardinality(J)
  <2> HIDE DEF I, J
  <2>1. ExistsBijection(J, I \ {1})
    BY <1>7 DEF ExistsBijection
  <2> QED BY <1>2, <2>1, FS_Bijection
<1>9. 1 \in I <=> Head(q) \in S
  BY <1>1
<1>10. Cardinality(I \ {1}) = IF 1 \in I THEN Cardinality(I) - 1 ELSE Cardinality(I)
  <2> HIDE DEF I, J
  <2> QED BY <1>2, FS_RemoveElement
<1>11. Cardinality(I) = Cardinality(J) + (IF Head(q) \in S THEN 1 ELSE 0)
  <2> HIDE DEF I, J
  <2> QED BY <1>2, <1>8, <1>9, <1>10
<1> QED BY <1>11 DEF r, Count

LEMMA CountJoined ==
    ASSUME NEW T, NEW p \in Seq(T), NEW q \in Seq(T), NEW S
    PROVE  Count(p \o q, S) = Count(p, S) + Count(q, S)
<1> DEFINE I == {i \in DOMAIN p : p[i] \in S}
           J == {i \in DOMAIN q : q[i] \in S}
           r == p \o q
           K == {i \in DOMAIN r : r[i] \in S}
           f == [j \in J |-> Len(p) + j]
<1>1. /\ r \in Seq(T)
      /\ \A i \in DOMAIN p : i \in 1..Len(p) /\ i \in DOMAIN r /\ r[i] = p[i]
      /\ \A i \in DOMAIN q : Len(p) + i \in DOMAIN r /\ r[Len(p) + i] = q[i]
      /\ \A i \in DOMAIN r : i \in Nat /\ (i \in DOMAIN p \/ (i > Len(p) /\ i - Len(p) \in DOMAIN q))
      /\ Len(p) \in Nat
  BY Joined
<1>2. /\ IsFiniteSet(I) /\ IsFiniteSet(J) /\ IsFiniteSet(K)
      /\ Cardinality(I) \in Nat /\ Cardinality(J) \in Nat
  <2>1. IsFiniteSet(I) /\ IsFiniteSet(J)
    BY CountFinite
  <2>3. r \in Seq(T)
    BY <1>1
  <2> HIDE DEF r
  <2>2. IsFiniteSet(K)
    BY <2>3, CountFinite
  <2> HIDE DEF I, J, K
  <2> QED BY <2>1, <2>2, FS_CardinalityType
<1>3. \A i \in DOMAIN q : i \in Nat /\ i # 0
  <2>1. DOMAIN q = 1..Len(q) /\ Len(q) \in Nat
    BY LenProperties
  <2> QED BY <2>1
<1> HIDE DEF r
<1>4. f \in [J -> K \ I]
  BY <1>1, <1>3
<1>5. \A i, j \in J : f[i] = f[j] => i = j
  BY <1>1, <1>3
<1>6. \A i \in K \ I : \E j \in J : f[j] = i
  <2> SUFFICES ASSUME NEW i \in K \ I PROVE \E j \in J : f[j] = i
    OBVIOUS
  <2>1. i \in Nat /\ i \notin DOMAIN p
    BY <1>1
  <2>2. i - Len(p) \in DOMAIN q /\ Len(p) + (i - Len(p)) = i
    BY <1>1, <2>1
  <2>3. i - Len(p) \in J
    BY <1>1, <2>2
  <2> QED BY <2>2, <2>3
<1>7. f \in Bijection(J, K \ I)
  <2> HIDE DEF f, I, J, K
  <2>1. f \in Injection(J, K \ I)
    BY <1>4, <1>5 DEF Injection, IsInjective
  <2>2. f \in Surjection(J, K \ I)
    BY <1>4, <1>6 DEF Surjection
  <2> QED BY <2>1, <2>2 DEF Bijection
<1>8. I \subseteq K
  BY <1>1
<1> HIDE DEF f, I, J, K
<1>9. IsFiniteSet(K \ I) /\ Cardinality(K \ I) = Cardinality(J)
  <2>1. ExistsBijection(J, K \ I)
    BY <1>7 DEF ExistsBijection
  <2> QED BY <1>2, <2>1, FS_Bijection
<1>10. Cardinality(I \union (K \ I)) = Cardinality(I) + Cardinality(K \ I) - Cardinality(I \intersect (K \ I))
  BY <1>2, <1>9, FS_Union
<1>11. I \union (K \ I) = K /\ I \intersect (K \ I) = {}
  BY <1>8
<1>12. Cardinality(K) = Cardinality(I) + Cardinality(J)
  <2>1. Cardinality(I \intersect (K \ I)) = 0
    BY <1>11, FS_EmptySet
  <2>2. Cardinality(K) = Cardinality(I) + Cardinality(J) - 0
    BY <1>9, <1>10, <1>11, <2>1
  <2> QED BY <1>2, <2>2
<1> QED BY <1>12 DEF I, J, K, r, Count

LEMMA CountNone == ASSUME NEW S PROVE Count(<<>>, S) = 0
<1>1. {i \in DOMAIN <<>> : <<>>[i] \in S} = {}
  OBVIOUS
<1> QED BY <1>1, FS_EmptySet DEF Count

-----------------------------------------------------------------------------
(* The numbers of the messages in a queue, and their order.                *)

Thins(q, r, S) == Numbers(r, S) \subseteq Numbers(q, S) /\ (Ascends(q, S) => Ascends(r, S))

LEMMA NumbersAppended ==
    ASSUME NEW T, NEW q \in Seq(T), NEW e \in T, NEW S
    PROVE  /\ Numbers(Append(q, e), S) = Numbers(q, S) \union (IF e \in S THEN {e.n} ELSE {})
           /\ Ascends(q, S) /\ (e \in S => \A a \in Numbers(q, S) : a < e.n)
                 => Ascends(Append(q, e), S)
           /\ e \notin S => Thins(q, Append(q, e), S)
<1> DEFINE r == Append(q, e)
<1>1. /\ Len(q) \in Nat /\ DOMAIN q = 1..Len(q)
      /\ DOMAIN r = DOMAIN q \union {Len(q) + 1}
      /\ \A i \in DOMAIN q : i # Len(q) + 1 /\ i <= Len(q) /\ r[i] = q[i]
      /\ r[Len(q) + 1] = e
  BY Appended
<1> HIDE DEF r
<1>2. Numbers(r, S) = Numbers(q, S) \union (IF e \in S THEN {e.n} ELSE {})
  <2>1. ASSUME NEW i \in DOMAIN r, r[i] \in S
        PROVE  r[i].n \in Numbers(q, S) \union (IF e \in S THEN {e.n} ELSE {})
    BY <1>1, <2>1 DEF Numbers
  <2>2. ASSUME NEW i \in DOMAIN q, q[i] \in S PROVE q[i].n \in Numbers(r, S)
    <3>1. i \in DOMAIN r /\ r[i] = q[i]
      BY <1>1
    <3> QED BY <2>2, <3>1 DEF Numbers
  <2>3. e \in S => e.n \in Numbers(r, S)
    BY <1>1 DEF Numbers
  <2>4. Numbers(r, S) \subseteq Numbers(q, S) \union (IF e \in S THEN {e.n} ELSE {})
    BY <2>1 DEF Numbers
  <2>5. Numbers(q, S) \subseteq Numbers(r, S)
    BY <2>2 DEF Numbers
  <2> QED BY <2>3, <2>4, <2>5
<1>3. ASSUME Ascends(q, S), e \in S => \A a \in Numbers(q, S) : a < e.n
      PROVE  Ascends(r, S)
  <2> SUFFICES ASSUME NEW i \in DOMAIN r, NEW j \in DOMAIN r, i < j, r[i] \in S, r[j] \in S
               PROVE  r[i].n < r[j].n
    BY DEF Ascends
  <2>1. i \in DOMAIN q /\ r[i] = q[i]
    BY <1>1
  <2>2. CASE j \in DOMAIN q
    BY <1>1, <1>3, <2>1, <2>2 DEF Ascends
  <2>3. CASE j = Len(q) + 1
    <3>1. r[i].n \in Numbers(q, S)
      BY <2>1 DEF Numbers
    <3> QED BY <1>1, <1>3, <2>3, <3>1
  <2> QED BY <1>1, <2>2, <2>3
<1>4. e \notin S => Thins(q, r, S)
  BY <1>2, <1>3 DEF Thins
<1> QED BY <1>2, <1>3, <1>4 DEF r

LEMMA NumbersTail ==
    ASSUME NEW T, NEW q \in Seq(T), q # <<>>, NEW S
    PROVE  /\ Thins(q, Tail(q), S)
           /\ Head(q) \in S => Head(q).n \in Numbers(q, S)
           /\ Ascends(q, S) /\ Head(q) \in S => \A a \in Numbers(Tail(q), S) : Head(q).n < a
<1> DEFINE r == Tail(q)
<1>1. /\ Head(q) = q[1] /\ 1 \in DOMAIN q
      /\ \A i \in DOMAIN r : i \in Nat /\ i + 1 \in DOMAIN q /\ r[i] = q[i + 1]
  BY Tailed
<1>2. \A i \in DOMAIN r : 1 < i + 1
  <2>1. r \in Seq(T)
    BY Tailed
  <2>2. DOMAIN r = 1..Len(r) /\ Len(r) \in Nat
    BY <2>1, LenProperties
  <2> QED BY <2>2
<1> HIDE DEF r
<1>3. Numbers(r, S) \subseteq Numbers(q, S)
  <2> SUFFICES ASSUME NEW i \in DOMAIN r, r[i] \in S PROVE r[i].n \in Numbers(q, S)
    BY DEF Numbers
  <2> QED BY <1>1 DEF Numbers
<1>4. Ascends(q, S) => Ascends(r, S)
  <2> SUFFICES ASSUME Ascends(q, S), NEW i \in DOMAIN r, NEW j \in DOMAIN r, i < j, r[i] \in S, r[j] \in S
               PROVE  r[i].n < r[j].n
    BY DEF Ascends
  <2>1. i + 1 \in DOMAIN q /\ j + 1 \in DOMAIN q /\ i + 1 < j + 1 /\ r[i] = q[i + 1] /\ r[j] = q[j + 1]
    BY <1>1
  <2> QED BY <2>1 DEF Ascends
<1>5. Head(q) \in S => Head(q).n \in Numbers(q, S)
  BY <1>1 DEF Numbers
<1>6. ASSUME Ascends(q, S), Head(q) \in S, NEW i \in DOMAIN r, r[i] \in S
      PROVE  Head(q).n < r[i].n
  BY <1>1, <1>2, <1>6 DEF Ascends
<1>7. Ascends(q, S) /\ Head(q) \in S => \A a \in Numbers(r, S) : Head(q).n < a
  BY <1>6 DEF Numbers
<1> QED BY <1>3, <1>4, <1>5, <1>7 DEF r, Thins

LEMMA NumbersJoined ==
    ASSUME NEW T, NEW p \in Seq(T), NEW q \in Seq(T), NEW S
    PROVE  /\ Numbers(p \o q, S) \subseteq Numbers(p, S) \union Numbers(q, S)
           /\ (/\ Ascends(p, S) /\ Ascends(q, S)
               /\ \A a \in Numbers(p, S), b \in Numbers(q, S) : a < b) => Ascends(p \o q, S)
<1> DEFINE r == p \o q
<1>1. /\ \A i \in DOMAIN p : i \in 1..Len(p) /\ i \in DOMAIN r /\ r[i] = p[i]
      /\ \A i \in DOMAIN q : Len(p) + i \in DOMAIN r /\ r[Len(p) + i] = q[i]
      /\ \A i \in DOMAIN r : i \in Nat /\ (i \in DOMAIN p \/ (i > Len(p) /\ i - Len(p) \in DOMAIN q))
      /\ Len(p) \in Nat
  BY Joined
<1> HIDE DEF r
<1>2. \A i \in DOMAIN r : \/ i \in DOMAIN p /\ r[i] = p[i] /\ i \in Nat /\ i <= Len(p)
                          \/ /\ i \in Nat /\ i > Len(p) /\ i - Len(p) \in DOMAIN q
                             /\ r[i] = q[i - Len(p)]
  <2> SUFFICES ASSUME NEW i \in DOMAIN r, i > Len(p), i - Len(p) \in DOMAIN q
               PROVE  i \in Nat /\ r[i] = q[i - Len(p)]
    BY <1>1
  <2>1. Len(p) + (i - Len(p)) = i
    BY <1>1
  <2>2. r[Len(p) + (i - Len(p))] = q[i - Len(p)]
    BY <1>1
  <2> QED BY <1>1, <2>1, <2>2
<1>3. Numbers(r, S) \subseteq Numbers(p, S) \union Numbers(q, S)
  <2> SUFFICES ASSUME NEW i \in DOMAIN r, r[i] \in S
               PROVE  r[i].n \in Numbers(p, S) \union Numbers(q, S)
    BY DEF Numbers
  <2> QED BY <1>2 DEF Numbers
<1>4. ASSUME Ascends(p, S), Ascends(q, S), \A a \in Numbers(p, S), b \in Numbers(q, S) : a < b
      PROVE  Ascends(r, S)
  <2> SUFFICES ASSUME NEW i \in DOMAIN r, NEW j \in DOMAIN r, i < j, r[i] \in S, r[j] \in S
               PROVE  r[i].n < r[j].n
    BY DEF Ascends
  <2>1. CASE i \in DOMAIN p /\ j \in DOMAIN p
    BY <1>1, <1>4, <2>1 DEF Ascends
  <2>2. CASE i \in DOMAIN p /\ j > Len(p) /\ j - Len(p) \in DOMAIN q
    <3>1. r[i].n \in Numbers(p, S) /\ r[j].n \in Numbers(q, S)
      <4>1. r[i] = p[i] /\ r[j] = q[j - Len(p)]
        BY <1>1, <1>2, <2>2
      <4> QED BY <2>2, <4>1 DEF Numbers
    <3> QED BY <1>4, <3>1
  <2>3. CASE i > Len(p) /\ j > Len(p) /\ i - Len(p) \in DOMAIN q /\ j - Len(p) \in DOMAIN q
    <3>1. r[i] = q[i - Len(p)] /\ r[j] = q[j - Len(p)] /\ i \in Nat /\ j \in Nat
      BY <1>1, <1>2, <2>3
    <3>2. i - Len(p) < j - Len(p)
      BY <1>1, <3>1
    <3> QED BY <1>4, <2>3, <3>1, <3>2 DEF Ascends
  <2>4. i \in Nat /\ j \in Nat /\ Len(p) \in Nat
    BY <1>1
  <2>5. i \in DOMAIN p => i <= Len(p)
    BY <1>1
  <2>6. j \in DOMAIN p => j <= Len(p)
    BY <1>1
  <2>7. /\ i \in DOMAIN p \/ (i > Len(p) /\ i - Len(p) \in DOMAIN q)
        /\ j \in DOMAIN p \/ (j > Len(p) /\ j - Len(p) \in DOMAIN q)
    BY <1>1
  <2>8. i > Len(p) => j > Len(p)
    BY <2>4
  <2> QED BY <2>1, <2>2, <2>3, <2>4, <2>5, <2>6, <2>7, <2>8
<1> QED BY <1>3, <1>4 DEF r

LEMMA NumbersNone == ASSUME NEW S PROVE Numbers(<<>>, S) = {} /\ Ascends(<<>>, S)
BY DEF Numbers, Ascends

LEMMA ThinsSelf == ASSUME NEW q, NEW S PROVE Thins(q, q, S)
BY DEF Thins

\* Nothing gets out of order when messages are dropped, or others come in between.
LEMMA OrderedThins ==
    ASSUME NEW L, NEW M, NEW on, NEW now, now \subseteq on, on \subseteq 1..7, NEW S,
           Ordered(L, on, S), \A k \in now : Thins(L[k], M[k], S)
    PROVE  Ordered(M, now, S)
<1>1. \A k \in now : Ascends(M[k], S)
  BY DEF Ordered, Thins
<1>2. ASSUME NEW j \in now, NEW k \in now, j < k, NEW a \in Numbers(M[j], S), NEW b \in Numbers(M[k], S)
      PROVE  a < b
  BY <1>2 DEF Ordered, Thins
<1> QED BY <1>1, <1>2 DEF Ordered

\* A message moves from the front of one place to the end of an earlier one, with nothing
\* in between.
LEMMA OrderedMoves ==
    ASSUME NEW L, NEW M, NEW on, on \subseteq 1..7, NEW S, NEW T,
           Ordered(L, on, S), NEW i \in on, NEW j \in on, i < j,
           L[i] \in Seq(T), L[j] \in Seq(T), L[j] # <<>>,
           M[i] = Append(L[i], Head(L[j])), M[j] = Tail(L[j]),
           \A k \in on : k # i /\ k # j => M[k] = L[k],
           \A k \in on : i < k /\ k < j => L[k] = <<>>
    PROVE  Ordered(M, on, S)
<1> DEFINE e == Head(L[j])
<1>1. e \in T
  BY Tailed
<1>2. CASE e \notin S
  <2>1. Thins(L[i], M[i], S)
    BY <1>1, <1>2, NumbersAppended
  <2>2. Thins(L[j], M[j], S)
    BY NumbersTail
  <2>3. \A k \in on : Thins(L[k], M[k], S)
    <3> SUFFICES ASSUME NEW k \in on, k # i, k # j PROVE Thins(L[k], M[k], S)
      BY <2>1, <2>2
    <3> QED BY ThinsSelf
  <2> QED BY <2>3, OrderedThins
<1>3. CASE e \in S
  <2>1. /\ Numbers(M[i], S) = Numbers(L[i], S) \union {e.n}
        /\ Ascends(L[i], S) /\ (\A a \in Numbers(L[i], S) : a < e.n) => Ascends(M[i], S)
    <3>1. /\ Numbers(Append(L[i], e), S) = Numbers(L[i], S) \union (IF e \in S THEN {e.n} ELSE {})
          /\ Ascends(L[i], S) /\ (e \in S => \A a \in Numbers(L[i], S) : a < e.n)
                => Ascends(Append(L[i], e), S)
      BY <1>1, NumbersAppended
    <3> QED BY <1>3, <3>1
  <2>2. /\ Thins(L[j], M[j], S)
        /\ e.n \in Numbers(L[j], S)
        /\ \A a \in Numbers(M[j], S) : e.n < a
    <3>1. Ascends(L[j], S)
      BY DEF Ordered
    <3> QED BY <1>3, <3>1, NumbersTail
  <2> HIDE DEF e
  <2>3. \A a \in Numbers(L[i], S) : a < e.n
    BY <2>2 DEF Ordered
  <2>4. \A k \in on : Ascends(M[k], S)
    BY <2>1, <2>2, <2>3 DEF Ordered, Thins
  <2>5. ASSUME NEW k \in on, NEW l \in on, k < l, NEW a \in Numbers(M[k], S), NEW b \in Numbers(M[l], S)
        PROVE  a < b
    <3>1. CASE a \in Numbers(L[k], S) /\ b \in Numbers(L[l], S)
      BY <2>5, <3>1 DEF Ordered
    <3>2. CASE k = i /\ a = e.n
      <4>1. i \in 1..7 /\ j \in 1..7 /\ k \in 1..7 /\ l \in 1..7
        OBVIOUS
      <4>2. CASE l = j
        BY <2>2, <2>5, <3>2, <4>2
      <4>3. CASE l # j /\ j < l
        <5>1. l # i
          BY <2>5, <3>2, <4>1
        <5>2. M[l] = L[l]
          BY <4>3, <5>1
        <5>3. b \in Numbers(L[l], S)
          BY <2>5, <5>2
        <5> QED BY <2>2, <3>2, <4>3, <5>3 DEF Ordered
      <4>4. CASE l < j
        <5>1. L[l] = <<>> /\ M[l] = L[l]
          BY <2>5, <3>2, <4>1, <4>4
        <5> QED BY <2>5, <5>1, NumbersNone
      <4> QED BY <4>1, <4>2, <4>3, <4>4
    <3>3. CASE l = i /\ b = e.n
      <4>0. i \in 1..7 /\ j \in 1..7 /\ k \in 1..7 /\ l \in 1..7
        OBVIOUS
      <4>1. k # i /\ k # j
        BY <2>5, <3>3, <4>0
      <4>2. a \in Numbers(L[k], S)
        BY <2>5, <4>1
      <4>3. k < j
        BY <2>5, <3>3, <4>0
      <4> QED BY <2>2, <3>3, <4>2, <4>3 DEF Ordered
    <3>4. \A h \in on : Numbers(M[h], S) \subseteq Numbers(L[h], S) \union (IF h = i THEN {e.n} ELSE {})
      BY <2>1, <2>2 DEF Thins
    <3>5. a \in Numbers(L[k], S) \/ (k = i /\ a = e.n)
      BY <2>5, <3>4
    <3>6. b \in Numbers(L[l], S) \/ (l = i /\ b = e.n)
      BY <2>5, <3>4
    <3> QED BY <3>1, <3>2, <3>3, <3>5, <3>6
  <2> QED BY <2>4, <2>5 DEF Ordered
<1> QED BY <1>2, <1>3

\* A message comes in at the end of the way.
LEMMA OrderedComes ==
    ASSUME NEW L, NEW M, NEW on, on \subseteq 1..7, 7 \in on, NEW S, NEW T, NEW e \in T,
           Ordered(L, on, S), L[7] \in Seq(T), M[7] = Append(L[7], e),
           \A k \in on : k # 7 => M[k] = L[k],
           e \in S => \A k \in on : \A a \in Numbers(L[k], S) : a < e.n
    PROVE  Ordered(M, on, S)
<1>1. /\ Numbers(M[7], S) = Numbers(L[7], S) \union (IF e \in S THEN {e.n} ELSE {})
      /\ Ascends(L[7], S) /\ (e \in S => \A a \in Numbers(L[7], S) : a < e.n) => Ascends(M[7], S)
  BY NumbersAppended
<1>2. \A k \in on : Ascends(M[k], S)
  BY <1>1 DEF Ordered
<1>3. ASSUME NEW j \in on, NEW k \in on, j < k, NEW a \in Numbers(M[j], S), NEW b \in Numbers(M[k], S)
      PROVE  a < b
  <2>0. j \in 1..7 /\ k \in 1..7
    OBVIOUS
  <2>1. a \in Numbers(L[j], S)
    BY <1>3, <2>0
  <2>2. CASE b \in Numbers(L[k], S)
    BY <1>3, <2>1, <2>2 DEF Ordered
  <2>3. CASE k = 7 /\ e \in S /\ b = e.n
    BY <2>1, <2>3
  <2>4. b \in Numbers(L[k], S) \/ (k = 7 /\ e \in S /\ b = e.n)
    BY <1>1, <1>3
  <2> QED BY <2>2, <2>3, <2>4
<1> QED BY <1>2, <1>3 DEF Ordered

\* The engine takes what has come in, and puts it back before what came meanwhile.
LEMMA OrderedTaken ==
    ASSUME NEW L, NEW M, NEW on, on \subseteq 1..7, {6, 7} \subseteq on, NEW S, Ordered(L, on, S),
           L[6] = <<>>, M[6] = L[7], M[7] = <<>>,
           \A k \in on : k # 6 /\ k # 7 => M[k] = L[k]
    PROVE  Ordered(M, on, S)
<1>1. Numbers(M[7], S) = {} /\ Ascends(M[7], S)
  BY NumbersNone
<1>2. \A k \in on : Ascends(M[k], S)
  BY <1>1 DEF Ordered
<1>3. ASSUME NEW j \in on, NEW k \in on, j < k, NEW a \in Numbers(M[j], S), NEW b \in Numbers(M[k], S)
      PROVE  a < b
  <2>1. k # 7 /\ j # 6 /\ j # 7
    BY <1>1, <1>3
  <2>2. CASE k = 6
    BY <1>3, <2>1, <2>2 DEF Ordered
  <2>3. CASE k # 6
    BY <1>3, <2>1, <2>3 DEF Ordered
  <2> QED BY <2>2, <2>3
<1> QED BY <1>2, <1>3 DEF Ordered

LEMMA OrderedPutBack ==
    ASSUME NEW L, NEW M, NEW on, on \subseteq 1..7, {5, 6, 7} \subseteq on, NEW S, NEW T,
           Ordered(L, on, S), L[5] \in Seq(T), L[7] \in Seq(T),
           L[6] = <<>>, M[6] = <<>>, M[5] = <<>>, M[7] = L[5] \o L[7],
           \A k \in on : k \notin {5, 6, 7} => M[k] = L[k]
    PROVE  Ordered(M, on, S)
<1>1. /\ Numbers(M[5], S) = {} /\ Ascends(M[5], S)
      /\ Numbers(M[6], S) = {} /\ Ascends(M[6], S)
  BY NumbersNone
<1>2. /\ Numbers(M[7], S) \subseteq Numbers(L[5], S) \union Numbers(L[7], S)
      /\ (/\ Ascends(L[5], S) /\ Ascends(L[7], S)
          /\ \A a \in Numbers(L[5], S), b \in Numbers(L[7], S) : a < b) => Ascends(M[7], S)
  BY NumbersJoined
<1>3. Ascends(M[7], S)
  BY <1>2 DEF Ordered
<1>4. \A k \in on : Ascends(M[k], S)
  BY <1>1, <1>3 DEF Ordered
<1>5. ASSUME NEW j \in on, NEW k \in on, j < k, NEW a \in Numbers(M[j], S), NEW b \in Numbers(M[k], S)
      PROVE  a < b
  <2>1. j < 5 /\ k # 5 /\ k # 6
    BY <1>1, <1>5
  <2>2. a \in Numbers(L[j], S)
    BY <1>5, <2>1
  <2>3. CASE k = 7
    BY <1>2, <1>5, <2>1, <2>2, <2>3 DEF Ordered
  <2>4. CASE k # 7
    BY <1>5, <2>1, <2>2, <2>4 DEF Ordered
  <2> QED BY <2>3, <2>4
<1> QED BY <1>4, <1>5 DEF Ordered

-----------------------------------------------------------------------------
(* A command id that moves from one place to another is still in one.      *)

LEMMA OnePlaceKept ==
    ASSUME NEW c \in [Places -> Nat], NEW d \in [Places -> Nat],
           NEW p \in Places, NEW q \in Places, p # q,
           d[p] + d[q] = c[p] + c[q], \A r \in Places : r # p /\ r # q => d[r] = c[r]
    PROVE  /\ InOnePlace(c) => InOnePlace(d)
           /\ InNoPlace(c) => InNoPlace(d)
<1>1. c[p] \in Nat /\ c[q] \in Nat /\ d[p] \in Nat /\ d[q] \in Nat
  OBVIOUS
<1>2. ASSUME InOnePlace(c) PROVE InOnePlace(d)
  <2>1. PICK o \in Places : c[o] = 1 /\ \A r \in Places : r # o => c[r] = 0
    BY <1>2 DEF InOnePlace
  <2>2. CASE o # p /\ o # q
    <3>1. c[p] = 0 /\ c[q] = 0
      BY <2>1, <2>2
    <3>2. d[p] = 0 /\ d[q] = 0
      BY <1>1, <3>1
    <3> QED BY <2>1, <2>2, <3>2 DEF InOnePlace
  <2>3. CASE o = p \/ o = q
    <3>1. d[p] + d[q] = 1
      BY <2>1, <2>3
    <3>2. (d[p] = 1 /\ d[q] = 0) \/ (d[p] = 0 /\ d[q] = 1)
      BY <1>1, <3>1
    <3> QED BY <2>1, <2>3, <3>2 DEF InOnePlace
  <2> QED BY <2>2, <2>3
<1>3. ASSUME InNoPlace(c) PROVE InNoPlace(d)
  <2>1. d[p] = 0 /\ d[q] = 0
    BY <1>1, <1>3 DEF InNoPlace
  <2> QED BY <1>3, <2>1 DEF InNoPlace
<1> QED BY <1>2, <1>3

-----------------------------------------------------------------------------
(* The messages of a thread's queue.                                       *)

LEMMA TaskKinds ==
    /\ HandleInMsgs \in EngineTasks
    /\ \A g \in Group :
          /\ FindInfo(g) \in EngineTasks /\ Remove(g) \in EngineTasks
          /\ StartLife \in ThreadTasks(g) /\ ToClose \in ThreadTasks(g) /\ Removed \in ThreadTasks(g)
          /\ \A x \in ExtensionsOf(g) : Delete(x) \in ThreadTasks(g)
          /\ \A m \in MsgsTo(g) : Task("msg", m) \in ThreadTasks(g)
BY DEF EngineTasks, ThreadTasks, FindInfo, Remove, Delete

\* The tasks are told apart by their names.
LEMMA TaskNames ==
    /\ StartLife[1] = "start_life_cycle" /\ ToClose[1] = "trigger_close" /\ Removed[1] = "removed"
    /\ HandleInMsgs[1] = "handle_in_msgs"
    /\ \A g : FindInfo(g)[1] = "find_info" /\ FindInfo(g)[2] = g /\ Remove(g)[1] = "remove" /\ Remove(g)[2] = g
    /\ \A x : Delete(x)[1] = "del_extension" /\ Delete(x)[2] = x
    /\ \A m : Task("msg", m)[1] = "msg" /\ Task("msg", m)[2] = m
BY DEF StartLife, ToClose, Removed, HandleInMsgs, FindInfo, Remove, Delete, Task

LEMMA MsgOfTask ==
    /\ MsgOf(StartLife) = None /\ MsgOf(ToClose) = None /\ MsgOf(Removed) = None
    /\ \A x : MsgOf(Delete(x)) = None
    /\ \A m : MsgOf(Task("msg", m)) = m
    /\ \A g \in Group : \A t \in ThreadTasks(g) : MsgOf(t) \in MsgsTo(g) \union {None}
<1>1. /\ MsgOf(StartLife) = None /\ MsgOf(ToClose) = None /\ MsgOf(Removed) = None
      /\ \A x : MsgOf(Delete(x)) = None
      /\ \A m : MsgOf(Task("msg", m)) = m
  BY TaskNames DEF MsgOf
<1>2. ASSUME NEW g \in Group, NEW t \in ThreadTasks(g) PROVE MsgOf(t) \in MsgsTo(g) \union {None}
  <2>1. \/ t \in {StartLife, ToClose, Removed}
        \/ \E x \in ExtensionsOf(g) : t = Delete(x)
        \/ \E m \in MsgsTo(g) : t = Task("msg", m)
    BY DEF ThreadTasks, Delete
  <2> QED BY <1>1, <2>1
<1> QED BY <1>1, <1>2

LEMMA CarriedIs ==
    ASSUME NEW g \in Group, NEW q \in Seq(ThreadTasks(g))
    PROVE  /\ Carried(q) \in Seq(MsgsTo(g) \union {None})
           /\ DOMAIN Carried(q) = DOMAIN q
           /\ \A i \in DOMAIN q : Carried(q)[i] = MsgOf(q[i])
           /\ \A t \in ThreadTasks(g) : Carried(Append(q, t)) = Append(Carried(q), MsgOf(t))
           /\ q = <<>> <=> Carried(q) = <<>>
           /\ q # <<>> => /\ Head(Carried(q)) = MsgOf(Head(q))
                          /\ Carried(Tail(q)) = Tail(Carried(q))
<1> DEFINE T == MsgsTo(g) \union {None}
<1>1. Len(q) \in Nat /\ DOMAIN q = 1..Len(q) /\ \A i \in DOMAIN q : q[i] \in ThreadTasks(g)
  BY LenProperties, ElementOfSeq
<1>2. \A t \in ThreadTasks(g) : MsgOf(t) \in T
  BY MsgOfTask
<1>3. DOMAIN Carried(q) = DOMAIN q /\ \A i \in DOMAIN q : Carried(q)[i] = MsgOf(q[i])
  BY DEF Carried
<1>4. Carried(q) \in Seq(T)
  <2> HIDE DEF T
  <2>1. Carried(q) \in [1..Len(q) -> T]
    BY <1>1, <1>2 DEF Carried
  <2> QED BY <1>1, <2>1, IsASeq
<1>5. Len(Carried(q)) = Len(q)
  <2>1. DOMAIN Carried(q) = 1..Len(Carried(q)) /\ Len(Carried(q)) \in Nat
    BY <1>4, LenProperties
  <2> QED BY <1>1, <1>3, <2>1
<1>6. ASSUME NEW t \in ThreadTasks(g) PROVE Carried(Append(q, t)) = Append(Carried(q), MsgOf(t))
  <2> DEFINE r == Append(q, t)
             e == MsgOf(t)
             s == Append(Carried(q), e)
  <2>1. r \in Seq(ThreadTasks(g)) /\ DOMAIN r = DOMAIN q \union {Len(q) + 1} /\ r[Len(q) + 1] = t
        /\ \A i \in DOMAIN q : i # Len(q) + 1 /\ r[i] = q[i]
    BY Appended
  <2>2. e \in T
    BY <1>2
  <2>3. s \in Seq(T) /\ DOMAIN s = DOMAIN Carried(q) \union {Len(Carried(q)) + 1} /\ s[Len(Carried(q)) + 1] = e
        /\ \A i \in DOMAIN Carried(q) : s[i] = Carried(q)[i]
    <3> HIDE DEF e, T
    <3> QED BY <1>4, <2>2, Appended
  <2>4. Carried(r) = [i \in DOMAIN r |-> MsgOf(r[i])]
    BY DEF Carried
  <2> HIDE DEF r, s
  <2>5. DOMAIN s = DOMAIN r
    BY <1>3, <1>5, <2>1, <2>3
  <2>6. \A i \in DOMAIN r : s[i] = MsgOf(r[i])
    BY <1>3, <1>5, <2>1, <2>3
  <2>7. s = [i \in DOMAIN s |-> s[i]]
    BY <2>3
  <2>8. s = Carried(r)
    BY <2>4, <2>5, <2>6, <2>7
  <2> QED BY <2>8 DEF r, s, e
<1>7. q = <<>> <=> Carried(q) = <<>>
  BY <1>1, <1>4, <1>5, EmptySeq
<1>8. ASSUME q # <<>> PROVE Head(Carried(q)) = MsgOf(Head(q)) /\ Carried(Tail(q)) = Tail(Carried(q))
  <2> DEFINE r == Tail(q)
             s == Tail(Carried(q))
  <2>1. /\ Head(q) = q[1] /\ r \in Seq(ThreadTasks(g)) /\ 1 \in DOMAIN q
        /\ \A i \in DOMAIN r : i + 1 \in DOMAIN q /\ r[i] = q[i + 1]
    BY <1>8, Tailed
  <2>2. /\ Head(Carried(q)) = Carried(q)[1] /\ s \in Seq(T)
        /\ \A i \in DOMAIN s : s[i] = Carried(q)[i + 1]
    <3> HIDE DEF T
    <3> QED BY <1>4, <1>7, <1>8, Tailed
  <2>3. Len(r) = Len(q) - 1 /\ Len(s) = Len(Carried(q)) - 1
    <3> HIDE DEF T
    <3> QED BY <1>4, <1>7, <1>8, HeadTailProperties
  <2>4. DOMAIN r = 1..Len(r) /\ DOMAIN s = 1..Len(s)
    <3> HIDE DEF T, r, s
    <3> QED BY <2>1, <2>2, LenProperties
  <2>5. Carried(r) = [i \in DOMAIN r |-> MsgOf(r[i])]
    BY DEF Carried
  <2> HIDE DEF r, s
  <2>6. DOMAIN s = DOMAIN r
    BY <1>5, <2>3, <2>4
  <2>7. \A i \in DOMAIN r : s[i] = MsgOf(r[i])
    BY <1>3, <2>1, <2>2, <2>6
  <2>8. s = [i \in DOMAIN s |-> s[i]]
    BY <2>2
  <2>9. s = Carried(r)
    BY <2>5, <2>6, <2>7, <2>8
  <2> QED BY <1>3, <2>1, <2>2, <2>9 DEF r, s
<1> QED BY <1>3, <1>4, <1>6, <1>7, <1>8

\* What a flush takes next, and what is then left.
LEMMA SeqEmpty ==
    ASSUME NEW T, NEW q \in Seq(T)
    PROVE  Len(q) \in Nat /\ (q = <<>> <=> Len(q) = 0)
BY EmptySeq, LenProperties

LEMMA FirstOf ==
    ASSUME NEW T, NEW p \in Seq(T), NEW q \in Seq(T)
    PROVE  /\ p \o q \in Seq(T)
           /\ p \o q = <<>> <=> p = <<>> /\ q = <<>>
           /\ p = <<>> => p \o q = q
           /\ p # <<>> => Head(p \o q) = Head(p) /\ (Len(p \o q) = 1 <=> Tail(p) \o q = <<>>)
           /\ q # <<>> => (Len(q) = 1 <=> Tail(q) = <<>>)
<1>1. p \o q \in Seq(T) /\ Len(p \o q) = Len(p) + Len(q)
  BY ConcatProperties
<1>2. /\ Len(p) \in Nat /\ (p = <<>> <=> Len(p) = 0)
      /\ Len(q) \in Nat /\ (q = <<>> <=> Len(q) = 0)
  BY SeqEmpty
<1>3. p \o q = <<>> <=> Len(p \o q) = 0
  BY <1>1, SeqEmpty
<1>4. p = <<>> => p \o q = q
  BY ConcatEmptySeq
<1>5. ASSUME p # <<>> PROVE Head(p \o q) = Head(p) /\ (Len(p \o q) = 1 <=> Tail(p) \o q = <<>>)
  <2>1. Tail(p) \in Seq(T) /\ Len(Tail(p)) = Len(p) - 1 /\ Head(p) = p[1]
    BY <1>5, HeadTailProperties, Tailed
  <2>2. Tail(p) \o q \in Seq(T) /\ Len(Tail(p) \o q) = Len(Tail(p)) + Len(q)
    BY <2>1, ConcatProperties
  <2>3. Tail(p) \o q = <<>> <=> Len(Tail(p) \o q) = 0
    BY <2>2, SeqEmpty
  <2>4. Len(p \o q) = 1 <=> Tail(p) \o q = <<>>
    BY <1>1, <1>2, <2>1, <2>2, <2>3
  <2>5. p \o q # <<>>
    BY <1>1, <1>2, <1>3, <1>5
  <2>6. Head(p \o q) = (p \o q)[1]
    BY <1>1, <2>5, Tailed
  <2>7. (p \o q)[1] = p[1]
    <3>1. 1 \in DOMAIN p
      BY <1>5, Tailed
    <3> QED BY <3>1, Joined
  <2> QED BY <2>1, <2>4, <2>6, <2>7
<1>6. ASSUME q # <<>> PROVE Len(q) = 1 <=> Tail(q) = <<>>
  <2>1. Tail(q) \in Seq(T) /\ Len(Tail(q)) = Len(q) - 1
    BY <1>6, HeadTailProperties
  <2>2. Tail(q) = <<>> <=> Len(Tail(q)) = 0
    BY <2>1, SeqEmpty
  <2> QED BY <1>2, <2>1, <2>2
<1> QED BY <1>1, <1>2, <1>3, <1>4, <1>5, <1>6

-----------------------------------------------------------------------------
(* Messages, and what happens to them in a step.                           *)

LEMMA MsgFacts ==
    /\ Request \subseteq Msg /\ Result \subseteq Msg /\ None \notin Msg
    /\ \A m \in Msg : /\ m.kind = "result" => m \in Result
                      /\ m.kind # "result" => m \in Request
                      /\ m.n \in Nat
    /\ \A m \in Request : /\ m.kind \in {"cmd", "data"} /\ m.src \in Sender /\ m.dest \in Name /\ m.n \in Nat
                          /\ CmdId(m) = <<m.src, m.n>>
                          /\ ResultOf(m) \in Result /\ CmdId(ResultOf(m)) = CmdId(m)
    /\ \A m \in Result : /\ m.kind = "result" /\ m.src \in Name /\ m.dest \in Sender /\ m.n \in Nat
                         /\ CmdId(m) = <<m.dest, m.n>>
BY CmdRoutingAssumption DEF Msg, Request, Result, ResultOf, CmdId

LEMMA MsgsToFacts ==
    /\ \A g \in Group : MsgsTo(g) \subseteq Msg /\ None \notin MsgsTo(g)
    /\ \A x \in Extension : RequestsTo(x) \subseteq Request /\ RequestsTo(x) \subseteq MsgsTo(GroupOf[x])
    /\ \A x \in Extension : GroupOf[x] \in Group /\ x \in ExtensionsOf(GroupOf[x]) /\ x # Client /\ x # None
    /\ \A g \in Group : \A x \in ExtensionsOf(g) : x \in Extension /\ GroupOf[x] = g
    /\ \A x \in Extension : x \in Name /\ x \in Sender
BY MsgFacts, CmdRoutingAssumption DEF MsgsTo, RequestsTo, ExtensionsOf, Name, Sender

LEMMA NewRequestIs ==
    ASSUME ExtensionsTyped, NEW s \in Sender, NEW kind \in Kinds, NEW dest \in Name
    PROVE  /\ NewRequest(s, kind, dest) \in Request
           /\ NewRequest(s, kind, dest).src = s /\ NewRequest(s, kind, dest).dest = dest
           /\ NewRequest(s, kind, dest).kind = kind /\ NewRequest(s, kind, dest).n = sent[s] + 1
BY CmdRoutingAssumption DEF NewRequest, Request, ExtensionsTyped

Comes(m) ==
    /\ in_msgs' = Append(in_msgs, m)
    /\ e_queue' = Append(e_queue, HandleInMsgs)

LEMMA Came ==
    ASSUME EngineQueuesTyped, NEW m \in Msg, AppendToInMsgs(<<m>>)
    PROVE  Comes(m)
<1>1. [i \in DOMAIN <<m>> |-> HandleInMsgs] = <<HandleInMsgs>>
  OBVIOUS
<1>2. in_msgs' = in_msgs \o <<m>> /\ e_queue' = e_queue \o <<HandleInMsgs>>
  BY <1>1 DEF AppendToInMsgs
<1>3. Append(in_msgs, m) = in_msgs \o <<m>> /\ Append(e_queue, HandleInMsgs) = e_queue \o <<HandleInMsgs>>
  BY TaskKinds, AppendIsConcat DEF EngineQueuesTyped
<1> QED BY <1>2, <1>3 DEF Comes

LEMMA CameNot ==
    ASSUME EngineQueuesTyped, AppendToInMsgs(<<>>)
    PROVE  UNCHANGED in_queue
<1>1. [i \in DOMAIN <<>> |-> HandleInMsgs] = <<>>
  OBVIOUS
<1>2. in_msgs' = in_msgs \o <<>> /\ e_queue' = e_queue \o <<>>
  BY <1>1 DEF AppendToInMsgs
<1>3. in_msgs \o <<>> = in_msgs /\ e_queue \o <<>> = e_queue
  BY ConcatEmptySeq DEF EngineQueuesTyped
<1> QED BY <1>2, <1>3 DEF in_queue

LEMMA Refused ==
    ASSUME EngineQueuesTyped, NEW m \in Request, Refuse(m)
    PROVE  \/ m.kind = "cmd" /\ Comes(ResultOf(m))
           \/ m.kind = "data" /\ UNCHANGED in_queue
<1>1. CASE m.kind = "cmd"
  <2>1. ResultOf(m) \in Msg
    BY MsgFacts
  <2>2. AppendToInMsgs(<<ResultOf(m)>>)
    BY <1>1 DEF Refuse
  <2> QED BY <1>1, <2>1, <2>2, Came
<1>2. CASE m.kind # "cmd"
  <2>1. AppendToInMsgs(<<>>)
    BY <1>2 DEF Refuse
  <2> QED BY <1>2, <2>1, CameNot, MsgFacts
<1> QED BY <1>1, <1>2

\* A request that reaches x is kept, refused or delivered.
Keeps(x, m) ==
    /\ life[x] \in {"INIT", "early"}
    /\ pending' = [pending EXCEPT ![x] = Append(@, m)]
    /\ UNCHANGED <<in_paths, delivered, in_msgs, e_queue>>

Refuses(x, m) ==
    /\ life[x] \in {"deinit", "held", "deinit_done", "deleted"}
    /\ \/ m.kind = "cmd" /\ Comes(ResultOf(m))
       \/ m.kind = "data" /\ UNCHANGED <<in_msgs, e_queue>>
    /\ UNCHANGED <<pending, in_paths, delivered>>

Gets(x, m) ==
    /\ delivered' = [delivered EXCEPT ![x] = Append(@, m)]
    /\ in_paths' = IF m.kind = "cmd" THEN [in_paths EXCEPT ![x] = @ \union {CmdId(m)}] ELSE in_paths

Delivers(x, m) ==
    /\ life[x] = "live"
    /\ Gets(x, m)
    /\ UNCHANGED <<pending, in_msgs, e_queue>>

LEMMA RequestHandled ==
    ASSUME EngineQueuesTyped, ExtensionsTyped, NEW x \in Extension, NEW m \in RequestsTo(x), HandleRequest(m)
    PROVE  Keeps(x, m) \/ Refuses(x, m) \/ Delivers(x, m)
<1>1. m \in Request /\ m.dest = x
  BY DEF RequestsTo
<1>2. CASE IsPending(m)
  BY <1>1, <1>2 DEF HandleRequest, IsPending, IsRefused, Keeps, in_queue
<1>3. CASE IsRefused(m)
  <2>1. Refuse(m) /\ UNCHANGED <<pending, in_paths, delivered, inside>>
    BY <1>1, <1>3 DEF HandleRequest, IsPending, IsRefused
  <2>2. \/ m.kind = "cmd" /\ Comes(ResultOf(m))
        \/ m.kind = "data" /\ UNCHANGED in_queue
    BY <1>1, <2>1, Refused
  <2> QED BY <1>1, <1>3, <2>1, <2>2 DEF IsRefused, Refuses, in_queue
<1>4. CASE ~IsPending(m) /\ ~IsRefused(m)
  <2>1. life[x] = "live"
    BY <1>1, <1>4 DEF IsPending, IsRefused, ExtensionsTyped, Lives
  <2> QED BY <1>1, <1>4, <2>1 DEF HandleRequest, Delivers, Gets, in_queue
<1> QED BY <1>2, <1>3, <1>4

\* What a thread does to its queue.
Posts(g, t) ==
    /\ t_queue'[g] = Append(t_queue[g], t)
    /\ \A h \in Group : h # g => t_queue'[h] = t_queue[h]

Takes(g, t) ==
    /\ t_queue[g] # <<>> /\ Head(t_queue[g]) = t
    /\ t_queue'[g] = Tail(t_queue[g])
    /\ \A h \in Group : h # g => t_queue'[h] = t_queue[h]

QueuesTyped(queue) ==
    queue = [g \in Group |-> queue[g]] /\ \A g \in Group : queue[g] \in Seq(ThreadTasks(g))

LEMMA Posted ==
    ASSUME ThreadsTyped, NEW g \in Group, NEW t \in ThreadTasks(g),
           t_queue' = [t_queue EXCEPT ![g] = Append(@, t)]
    PROVE  Posts(g, t) /\ QueuesTyped(t_queue')
<1>1. Append(t_queue[g], t) \in Seq(ThreadTasks(g))
  BY Appended DEF ThreadsTyped
<1>2. t_queue = [h \in Group |-> t_queue[h]]
  BY DEF ThreadsTyped
<1>3. t_queue' = [h \in Group |-> IF h = g THEN Append(t_queue[g], t) ELSE t_queue[h]]
  BY <1>2
<1>4. \A h \in Group : t_queue'[h] = IF h = g THEN Append(t_queue[g], t) ELSE t_queue[h]
  BY <1>3
<1>5. t_queue' = [h \in Group |-> t_queue'[h]]
  BY <1>3
<1> QED BY <1>1, <1>4, <1>5 DEF ThreadsTyped, Posts, QueuesTyped

LEMMA TaskTaken ==
    ASSUME ThreadsTyped, NEW g \in Group, NEW name, NEW arg, ThreadTask(g, name, arg)
    PROVE  Takes(g, Task(name, arg)) /\ QueuesTyped(t_queue') /\ flushing[g] = None
<1>1. t_queue[g] # <<>> /\ Head(t_queue[g]) = Task(name, arg)
      /\ t_queue' = [t_queue EXCEPT ![g] = Tail(@)] /\ flushing[g] = None
  BY DEF ThreadTask
<1>2. Tail(t_queue[g]) \in Seq(ThreadTasks(g))
  BY <1>1, Tailed DEF ThreadsTyped
<1>3. t_queue = [h \in Group |-> t_queue[h]]
  BY DEF ThreadsTyped
<1>4. t_queue' = [h \in Group |-> IF h = g THEN Tail(t_queue[g]) ELSE t_queue[h]]
  BY <1>1, <1>3
<1>5. \A h \in Group : t_queue'[h] = IF h = g THEN Tail(t_queue[g]) ELSE t_queue[h]
  BY <1>4
<1>6. t_queue' = [h \in Group |-> t_queue'[h]]
  BY <1>4
<1> QED BY <1>1, <1>2, <1>5, <1>6 DEF ThreadsTyped, Takes, QueuesTyped

\* A message for g that the engine posts may be dropped if it is data.
LEMMA MsgPosted ==
    ASSUME ThreadsTyped, NEW g \in Group, NEW m \in MsgsTo(g), PostMsg(g, m)
    PROVE  /\ QueuesTyped(t_queue')
           /\ \/ Posts(g, Task("msg", m))
              \/ m.kind = "data" /\ UNCHANGED t_queue
<1>1. Task("msg", m) \in ThreadTasks(g)
  BY TaskKinds
<1>2. t_queue = [h \in Group |-> t_queue[h]] /\ QueuesTyped(t_queue)
  BY DEF ThreadsTyped, QueuesTyped
<1>3. CASE Len(t_queue[g]) >= QueueSize /\ m.kind = "data"
  <2>1. t_queue' = t_queue
    BY <1>2, <1>3 DEF PostMsg
  <2> QED BY <1>2, <1>3, <2>1
<1>4. CASE ~(Len(t_queue[g]) >= QueueSize /\ m.kind = "data")
  <2>1. t_queue' = [t_queue EXCEPT ![g] = Append(@, Task("msg", m))]
    BY <1>4 DEF PostMsg
  <2> QED BY <1>1, <2>1, Posted
<1> QED BY <1>3, <1>4

\* A message goes to its client, to the thread of its destination, or is dropped.
Sends(m) ==
    \/ /\ m.dest = Client
       /\ UNCHANGED <<t_queue, lost>>
    \/ /\ m.dest \in Extension /\ GroupOf[m.dest] \in threads
       /\ Posts(GroupOf[m.dest], Task("msg", m)) \/ (m.kind = "data" /\ UNCHANGED t_queue)
       /\ UNCHANGED lost
    \/ /\ m.dest # Client /\ ~IsFound(m.dest)
       /\ lost' = IF m.kind = "cmd" THEN lost \union {CmdId(m)} ELSE lost
       /\ UNCHANGED t_queue

LEMMA Forwarded ==
    ASSUME ThreadsTyped, NEW m \in Msg, Forward(m)
    PROVE  Sends(m) /\ QueuesTyped(t_queue')
<1>1. CASE m.dest = Client /\ UNCHANGED <<t_queue, lost>>
  BY <1>1 DEF Sends, ThreadsTyped, QueuesTyped
<1>2. CASE IsFound(m.dest) /\ PostMsg(GroupOf[m.dest], m) /\ UNCHANGED lost
  <2>1. m.dest \in Extension /\ GroupOf[m.dest] \in threads
    BY <1>2 DEF IsFound
  <2>2. GroupOf[m.dest] \in Group /\ m \in MsgsTo(GroupOf[m.dest])
    BY <2>1, MsgsToFacts DEF MsgsTo
  <2>3. /\ QueuesTyped(t_queue')
        /\ Posts(GroupOf[m.dest], Task("msg", m)) \/ (m.kind = "data" /\ UNCHANGED t_queue)
    BY <1>2, <2>2, MsgPosted
  <2> QED BY <1>2, <2>1, <2>3 DEF Sends
<1>3. CASE /\ m.dest # Client /\ ~IsFound(m.dest)
           /\ lost' = IF m.kind = "cmd" THEN lost \union {CmdId(m)} ELSE lost
           /\ UNCHANGED t_queue
  BY <1>3 DEF Sends, ThreadsTyped, QueuesTyped
<1> QED BY <1>1, <1>2, <1>3 DEF Forward

\* The engine handles one of the messages it has taken.
LEMMA TakenHandled ==
    ASSUME Typed, HandleTaken
    PROVE  LET m == Head(taken)
           IN  /\ taken # <<>> /\ m \in Msg /\ taken' = Tail(taken)
               /\ \/ /\ is_ready /\ extension_context /\ m.kind = "cmd" /\ ~IsFound(m.dest)
                     /\ Sends(ResultOf(m)) /\ UNCHANGED put_back
                  \/ /\ is_ready /\ ~(extension_context /\ m.kind = "cmd" /\ ~IsFound(m.dest))
                     /\ Sends(m) /\ UNCHANGED put_back
                  \/ /\ ~is_ready /\ m.kind = "result"
                     /\ lost' = lost \union {CmdId(m)}
                     /\ UNCHANGED <<put_back, t_queue>>
                  \/ /\ ~is_ready /\ m.kind # "result"
                     /\ put_back' = Append(put_back, m)
                     /\ UNCHANGED <<t_queue, lost>>
               /\ QueuesTyped(t_queue')
<1> DEFINE m == Head(taken)
<1>1. taken # <<>> /\ taken' = Tail(taken)
  BY DEF HandleTaken
<1>2. m \in Msg
  BY <1>1, Tailed DEF Typed, EngineQueuesTyped
<1>3. ThreadsTyped /\ QueuesTyped(t_queue)
  BY DEF Typed, ThreadsTyped, QueuesTyped
<1>4. \/ is_ready /\ DispatchMsg(m) /\ UNCHANGED put_back
      \/ ~is_ready /\ m.kind = "result" /\ lost' = lost \union {CmdId(m)} /\ UNCHANGED <<put_back, t_queue>>
      \/ ~is_ready /\ m.kind # "result" /\ put_back' = Append(put_back, m) /\ UNCHANGED <<t_queue, lost>>
  BY DEF HandleTaken
<1> HIDE DEF m
<1>5. CASE is_ready /\ DispatchMsg(m) /\ UNCHANGED put_back
  <2>1. CASE extension_context /\ m.kind = "cmd" /\ ~IsFound(m.dest)
    <3>1. Forward(ResultOf(m))
      BY <1>5, <2>1 DEF DispatchMsg
    <3>2. ResultOf(m) \in Msg
      BY <1>2, <2>1, MsgFacts
    <3>3. Sends(ResultOf(m)) /\ QueuesTyped(t_queue')
      BY <1>3, <3>1, <3>2, Forwarded
    <3> QED BY <1>1, <1>2, <1>5, <2>1, <3>3 DEF m
  <2>2. CASE ~(extension_context /\ m.kind = "cmd" /\ ~IsFound(m.dest))
    <3>1. Forward(m)
      BY <1>5, <2>2 DEF DispatchMsg
    <3>2. Sends(m) /\ QueuesTyped(t_queue')
      BY <1>2, <1>3, <3>1, Forwarded
    <3> QED BY <1>1, <1>2, <1>5, <2>2, <3>2 DEF m
  <2> QED BY <2>1, <2>2
<1>6. CASE ~is_ready /\ m.kind = "result" /\ lost' = lost \union {CmdId(m)} /\ UNCHANGED <<put_back, t_queue>>
  BY <1>1, <1>2, <1>3, <1>6 DEF m
<1>7. CASE ~is_ready /\ m.kind # "result" /\ put_back' = Append(put_back, m) /\ UNCHANGED <<t_queue, lost>>
  BY <1>1, <1>2, <1>3, <1>7 DEF m
<1> QED BY <1>4, <1>5, <1>6, <1>7

\* A message of the client's remote is sent on at once.
LEMMA FromRemoteSent ==
    ASSUME Typed, NEW kind \in Kinds, NEW dest \in Name, FromRemote(kind, dest)
    PROVE  LET m == NewRequest(Client, kind, dest)
           IN  /\ m \in Request /\ m.src = Client /\ sent' = [sent EXCEPT ![Client] = @ + 1]
               /\ \/ extension_context /\ m.kind = "cmd" /\ ~IsFound(m.dest) /\ Sends(ResultOf(m))
                  \/ ~(extension_context /\ m.kind = "cmd" /\ ~IsFound(m.dest)) /\ Sends(m)
               /\ QueuesTyped(t_queue')
<1> DEFINE m == NewRequest(Client, kind, dest)
<1>1. m \in Request /\ m.src = Client
  BY NewRequestIs DEF Typed, Sender
<1>2. sent' = [sent EXCEPT ![Client] = @ + 1] /\ DispatchMsg(m)
  BY <1>1 DEF FromRemote, CountSent
<1>3. m \in Msg /\ ThreadsTyped
  BY <1>1, MsgFacts DEF Typed
<1> HIDE DEF m
<1>4. CASE extension_context /\ m.kind = "cmd" /\ ~IsFound(m.dest)
  <2>1. Forward(ResultOf(m)) /\ ResultOf(m) \in Msg
    BY <1>1, <1>2, <1>4, MsgFacts DEF DispatchMsg
  <2>2. Sends(ResultOf(m)) /\ QueuesTyped(t_queue')
    BY <1>3, <2>1, Forwarded
  <2> QED BY <1>1, <1>2, <1>4, <2>2 DEF m
<1>5. CASE ~(extension_context /\ m.kind = "cmd" /\ ~IsFound(m.dest))
  <2>1. Forward(m)
    BY <1>2, <1>5 DEF DispatchMsg
  <2>2. Sends(m) /\ QueuesTyped(t_queue')
    BY <1>3, <2>1, Forwarded
  <2> QED BY <1>1, <1>2, <1>5, <2>2 DEF m
<1> QED BY <1>4, <1>5

\* No result reaches an extension that has not begun.
LEMMA NoResultYet ==
    ASSUME Typed, Control, WereSent, NEW g \in Group, Begins(g),
           NEW m \in MsgsTo(g), NEW i \in DOMAIN t_queue[g], t_queue[g][i] = Task("msg", m)
    PROVE  m \in RequestsTo(m.dest)
<1>1. IsSent(m, sent)
  <2>1. AllSent(Carried(t_queue[g]), sent) /\ t_queue[g] \in Seq(ThreadTasks(g))
    BY DEF WereSent, Typed, ThreadsTyped
  <2>2. i \in DOMAIN Carried(t_queue[g]) /\ Carried(t_queue[g])[i] = m
    BY <2>1, CarriedIs, MsgOfTask
  <2> QED BY <2>1, <2>2 DEF AllSent
<1>2. m \in Msg /\ m # None /\ m.dest \in Extension /\ GroupOf[m.dest] = g
  BY MsgsToFacts, MsgFacts DEF MsgsTo
<1>3. life[m.dest] = "INIT" /\ sent[m.dest] = 0
  BY <1>2 DEF Control, ExtIs
<1>4. ASSUME m.kind = "result" PROVE FALSE
  <2>1. CmdId(m) = <<m.dest, m.n>>
    BY <1>4 DEF CmdId
  <2>2. m.n \in 1..sent[m.dest]
    BY <1>1, <1>2, <2>1 DEF IsSent, IdSent
  <2> QED BY <1>3, <2>2
<1> QED BY <1>2, <1>4, MsgFacts DEF RequestsTo

\* A thread gets a message.
HandleUpdate(m) ==
    /\ out_paths' = IF life[m.dest] = "deleted" THEN out_paths
                    ELSE [out_paths EXCEPT ![m.dest] = @ \ {m.n}]

LEMMA MsgHandled ==
    ASSUME Typed, Control, WereSent, NEW g \in Group, HandleInMsg(g)
    PROVE  \E m \in MsgsTo(g) :
               /\ Takes(g, Task("msg", m)) /\ QueuesTyped(t_queue') /\ flushing[g] = None
               /\ \/ /\ Begins(g) /\ m \in RequestsTo(m.dest)
                     /\ init_stage' = [init_stage EXCEPT ![m.dest] = Append(@, m)]
                     /\ UNCHANGED <<in_msgs, e_queue, pending, in_paths, delivered, out_paths>>
                  \/ /\ ~Begins(g) /\ m \in Result
                     /\ HandleUpdate(m)
                     /\ UNCHANGED <<init_stage, in_msgs, e_queue, pending, in_paths, delivered>>
                  \/ /\ ~Begins(g) /\ m \in RequestsTo(m.dest)
                     /\ Keeps(m.dest, m) \/ Refuses(m.dest, m) \/ Delivers(m.dest, m)
                     /\ UNCHANGED <<init_stage, out_paths>>
<1> DEFINE m == Head(t_queue[g])[2]
<1>1. t_queue[g] # <<>> /\ Head(t_queue[g])[1] = "msg" /\ ThreadTask(g, "msg", m)
  BY DEF HandleInMsg
<1>2. Takes(g, Task("msg", m)) /\ QueuesTyped(t_queue') /\ flushing[g] = None
  BY <1>1, TaskTaken DEF Typed
<1>3. t_queue[g] \in Seq(ThreadTasks(g)) /\ t_queue[g] # <<>> /\ Head(t_queue[g]) = Task("msg", m)
  BY <1>2 DEF Takes, Typed, ThreadsTyped
<1>4. t_state[g] \in {"CREATING_EXTENSIONS", "created"} <=> Begins(g)
  BY <1>3 DEF Control, EndsEmpty, Begins
<1>5. \/ /\ Begins(g)
         /\ init_stage' = [init_stage EXCEPT ![m.dest] = Append(@, m)]
         /\ UNCHANGED <<in_msgs, e_queue, pending, in_paths, delivered, out_paths>>
      \/ /\ ~Begins(g) /\ m.kind = "result"
         /\ HandleResult(m)
         /\ UNCHANGED <<init_stage, in_msgs, e_queue, pending, in_paths, delivered>>
      \/ /\ ~Begins(g) /\ m.kind # "result"
         /\ HandleRequest(m)
         /\ UNCHANGED <<init_stage, out_paths>>
  BY <1>4 DEF HandleInMsg, in_queue
<1> HIDE DEF m
<1>6. m \in MsgsTo(g)
  <2>1. MsgOf(Head(t_queue[g])) = m /\ Head(t_queue[g]) \in ThreadTasks(g)
    BY <1>3, MsgOfTask, Tailed
  <2>2. m \in MsgsTo(g) \/ (m = None /\ Task("msg", None) \in ThreadTasks(g))
    BY <1>3, <2>1, MsgOfTask
  <2>3. Task("msg", None) \notin ThreadTasks(g)
    <3>1. \A u \in {StartLife, ToClose, Removed} : u # Task("msg", None)
      BY TaskNames
    <3>2. \A x : Delete(x) # Task("msg", None)
      BY TaskNames
    <3>3. \A u \in MsgsTo(g) : Task("msg", u) # Task("msg", None)
      BY TaskNames, MsgsToFacts
    <3> QED BY <3>1, <3>2, <3>3 DEF ThreadTasks, Delete
  <2> QED BY <2>2, <2>3
<1>7. m \in Msg /\ m.dest \in Extension /\ EngineQueuesTyped /\ ExtensionsTyped
  BY <1>6 DEF MsgsTo, Typed
<1>8. m.kind # "result" => m \in RequestsTo(m.dest)
  BY <1>7, MsgFacts DEF RequestsTo
<1>9. m.kind = "result" => m \in Result
  BY <1>7, MsgFacts
<1>10. CASE /\ Begins(g)
            /\ init_stage' = [init_stage EXCEPT ![m.dest] = Append(@, m)]
            /\ UNCHANGED <<in_msgs, e_queue, pending, in_paths, delivered, out_paths>>
  <2>1. 1 \in DOMAIN t_queue[g] /\ t_queue[g][1] = Task("msg", m)
    BY <1>3, Tailed
  <2>2. m \in RequestsTo(m.dest)
    BY <1>6, <1>10, <2>1, NoResultYet
  <2> QED BY <1>2, <1>6, <1>10, <2>2
<1>11. CASE /\ ~Begins(g) /\ m.kind = "result"
            /\ HandleResult(m)
            /\ UNCHANGED <<init_stage, in_msgs, e_queue, pending, in_paths, delivered>>
  BY <1>2, <1>6, <1>9, <1>11 DEF HandleResult, HandleUpdate
<1>12. CASE /\ ~Begins(g) /\ m.kind # "result"
            /\ HandleRequest(m)
            /\ UNCHANGED <<init_stage, out_paths>>
  <2>1. Keeps(m.dest, m) \/ Refuses(m.dest, m) \/ Delivers(m.dest, m)
    BY <1>7, <1>8, <1>12, RequestHandled
  <2> QED BY <1>2, <1>6, <1>8, <1>12, <2>1
<1> QED BY <1>5, <1>10, <1>11, <1>12

\* A flush delivers or refuses the first of the messages that are kept.
FlushTakes(x, m) ==
    \/ /\ init_stage[x] # <<>> /\ m = Head(init_stage[x])
       /\ init_stage' = [init_stage EXCEPT ![x] = Tail(@)]
       /\ UNCHANGED pending
    \/ /\ init_stage[x] = <<>> /\ pending[x] # <<>> /\ m = Head(pending[x])
       /\ pending' = [pending EXCEPT ![x] = Tail(@)]
       /\ UNCHANGED init_stage

LEMMA KeptIs ==
    ASSUME KeptTyped, NEW x \in Extension
    PROVE  /\ Kept(x) \in Seq(RequestsTo(x))
           /\ Kept(x) = <<>> <=> init_stage[x] = <<>> /\ pending[x] = <<>>
BY FirstOf DEF KeptTyped, Kept

LEMMA Flushed ==
    ASSUME Typed, Control, NEW x \in Extension, Flush(x)
    PROVE  LET g == GroupOf[x]
               is_last == Len(Kept(x)) = 1
           IN  \E m \in RequestsTo(x) :
               /\ flushing[g] = x
               /\ FlushTakes(x, m)
               /\ is_last <=> Kept(x)' = <<>>
               /\ flushing' = IF is_last THEN [flushing EXCEPT ![g] = None] ELSE flushing
               /\ \/ /\ life[x] = "live"
                     /\ Gets(x, m)
                     /\ UNCHANGED <<in_msgs, e_queue, t_queue>>
                  \/ /\ life[x] = "deinit_done"
                     /\ \/ m.kind = "cmd" /\ Comes(ResultOf(m))
                        \/ m.kind = "data" /\ UNCHANGED <<in_msgs, e_queue>>
                     /\ IF is_last THEN Posts(g, Delete(x)) ELSE UNCHANGED t_queue
                     /\ UNCHANGED <<delivered, in_paths>>
               /\ QueuesTyped(t_queue')
<1> DEFINE g == GroupOf[x]
           m == Head(Kept(x))
           is_last == Len(Kept(x)) = 1
           R == RequestsTo(x)
<1>1. flushing[g] = x
  BY DEF Flush
<1>2. Kept(x) # <<>> /\ Kept(x) \in Seq(R) /\ init_stage[x] \in Seq(R) /\ pending[x] \in Seq(R)
  BY <1>1, KeptIs DEF Control, ExtIs, Typed, KeptTyped
<1>3. m \in R
  <2> HIDE DEF R
  <2> QED BY <1>2, Tailed
<1>4. /\ x \in DOMAIN init_stage /\ x \in DOMAIN pending
      /\ init_stage = [y \in Extension |-> init_stage[y]]
      /\ pending = [y \in Extension |-> pending[y]]
  BY DEF Typed, KeptTyped
<1>5. FlushTakes(x, m) /\ (is_last <=> Kept(x)' = <<>>)
  <2> HIDE DEF R
  <2>1. CASE init_stage[x] # <<>>
    <3>1. init_stage' = [init_stage EXCEPT ![x] = Tail(@)] /\ UNCHANGED pending
      BY <2>1 DEF Flush
    <3>2. Head(Kept(x)) = Head(init_stage[x])
          /\ (Len(Kept(x)) = 1 <=> Tail(init_stage[x]) \o pending[x] = <<>>)
      BY <1>2, <2>1, FirstOf DEF Kept
    <3>3. init_stage'[x] = Tail(init_stage[x]) /\ pending'[x] = pending[x]
      BY <1>4, <3>1
    <3>4. Kept(x)' = Tail(init_stage[x]) \o pending[x]
      BY <3>3 DEF Kept
    <3> QED BY <2>1, <3>1, <3>2, <3>4 DEF FlushTakes
  <2>2. CASE init_stage[x] = <<>>
    <3>1. pending' = [pending EXCEPT ![x] = Tail(@)] /\ UNCHANGED init_stage
      BY <2>2 DEF Flush
    <3>2. Kept(x) = pending[x] /\ pending[x] # <<>>
      BY <1>2, <2>2, FirstOf DEF Kept
    <3>3. Len(Kept(x)) = 1 <=> Tail(pending[x]) = <<>>
      BY <1>2, <3>2, FirstOf
    <3>4. init_stage'[x] = <<>> /\ pending'[x] = Tail(pending[x])
      BY <1>4, <2>2, <3>1
    <3>5. Tail(pending[x]) \in Seq(R)
      BY <1>2, <3>2, Tailed
    <3>6. Kept(x)' = Tail(pending[x])
      <4>1. Kept(x)' = <<>> \o Tail(pending[x])
        BY <3>4 DEF Kept
      <4> QED BY <3>5, <4>1, ConcatEmptySeq
    <3> QED BY <2>2, <3>1, <3>2, <3>3, <3>6 DEF FlushTakes
  <2> QED BY <2>1, <2>2
<1>6. flushing' = IF is_last THEN [flushing EXCEPT ![g] = None] ELSE flushing
  BY DEF Flush
<1>7. m \in Request /\ g \in Group /\ x \in ExtensionsOf(g)
  BY <1>3, MsgsToFacts
<1>8. ThreadsTyped /\ QueuesTyped(t_queue) /\ EngineQueuesTyped
  BY DEF Typed, ThreadsTyped, QueuesTyped
<1>9. CASE /\ life[x] = "live"
           /\ Gets(x, m)
           /\ UNCHANGED <<in_msgs, e_queue, t_queue>>
  BY <1>1, <1>3, <1>5, <1>6, <1>8, <1>9
<1>10. CASE /\ life[x] = "deinit_done"
            /\ Refuse(m)
            /\ t_queue' = IF is_last
                          THEN [t_queue EXCEPT ![g] = Append(@, Task("del_extension", x))]
                          ELSE t_queue
            /\ UNCHANGED <<delivered, in_paths, inside>>
  <2>1. \/ m.kind = "cmd" /\ Comes(ResultOf(m))
        \/ m.kind = "data" /\ UNCHANGED <<in_msgs, e_queue>>
    BY <1>7, <1>8, <1>10, Refused DEF in_queue
  <2>2. is_last => Posts(g, Delete(x)) /\ QueuesTyped(t_queue')
    <3>1. Delete(x) \in ThreadTasks(g)
      BY <1>7, TaskKinds
    <3> QED BY <1>7, <1>8, <1>10, <3>1, Posted DEF Delete
  <2>3. ~is_last => UNCHANGED t_queue /\ QueuesTyped(t_queue')
    BY <1>8, <1>10
  <2> QED BY <1>1, <1>3, <1>5, <1>6, <1>10, <2>1, <2>2, <2>3
<1>11. \/ /\ life[x] = "live"
          /\ Gets(x, m)
          /\ UNCHANGED <<in_msgs, e_queue, t_queue>>
       \/ /\ life[x] = "deinit_done"
          /\ Refuse(m)
          /\ t_queue' = IF is_last
                        THEN [t_queue EXCEPT ![g] = Append(@, Task("del_extension", x))]
                        ELSE t_queue
          /\ UNCHANGED <<delivered, in_paths, inside>>
  BY DEF Flush, Gets, in_queue
<1> QED BY <1>9, <1>10, <1>11

\* An extension sends a request.
LEMMA RequestSent ==
    ASSUME Typed, NEW x \in Extension, NEW kind \in Kinds, NEW dest \in Name, SendRequest(x, kind, dest)
    PROVE  LET m == NewRequest(x, kind, dest)
           IN  /\ m \in Request /\ m.src = x /\ m.dest = dest /\ m.n = sent[x] + 1
               /\ life[x] \in {"early", "live", "deinit"}
               /\ sent' = [sent EXCEPT ![x] = @ + 1]
               /\ out_paths' = IF m.kind = "cmd" THEN [out_paths EXCEPT ![x] = @ \union {m.n}] ELSE out_paths
               /\ \/ /\ dest \in Extension /\ GroupOf[dest] = GroupOf[x] /\ m \in RequestsTo(dest)
                     /\ Keeps(dest, m) \/ Refuses(dest, m) \/ Delivers(dest, m)
                  \/ /\ dest \in Extension /\ GroupOf[dest] # GroupOf[x] /\ m \in RequestsTo(dest)
                     /\ Comes(m)
                     /\ UNCHANGED <<pending, in_paths, delivered>>
                  \/ /\ dest \notin Extension
                     /\ \/ m.kind = "cmd" /\ Comes(ResultOf(m))
                        \/ m.kind = "data" /\ UNCHANGED <<in_msgs, e_queue>>
                     /\ UNCHANGED <<pending, in_paths, delivered>>
<1> DEFINE m == NewRequest(x, kind, dest)
<1>1. m \in Request /\ m.src = x /\ m.dest = dest /\ m.n = sent[x] + 1
  BY NewRequestIs, MsgsToFacts DEF Typed
<1>2. life[x] \in {"early", "live", "deinit"}
  BY DEF SendRequest, MayCall
<1>3. /\ sent' = [sent EXCEPT ![m.src] = @ + 1]
      /\ out_paths' = IF m.kind = "cmd" THEN [out_paths EXCEPT ![m.src] = @ \union {m.n}] ELSE out_paths
      /\ \/ /\ dest \in Extension /\ GroupOf[dest] = GroupOf[x]
            /\ HandleRequest(m)
         \/ /\ dest \in Extension /\ GroupOf[dest] # GroupOf[x]
            /\ AppendToInMsgs(<<m>>)
            /\ UNCHANGED <<pending, in_paths, delivered>>
         \/ /\ dest \in Unknown
            /\ Refuse(m)
            /\ UNCHANGED <<pending, in_paths, delivered>>
  BY DEF SendRequest, CountSent, WithOutPath
<1> HIDE DEF m
<1>4. dest \in Extension => m \in RequestsTo(dest)
  BY <1>1 DEF RequestsTo
<1>5. EngineQueuesTyped /\ ExtensionsTyped /\ m \in Msg
  BY <1>1, MsgFacts DEF Typed
<1>6. CASE dest \in Extension /\ GroupOf[dest] = GroupOf[x] /\ HandleRequest(m)
  <2>1. Keeps(dest, m) \/ Refuses(dest, m) \/ Delivers(dest, m)
    BY <1>4, <1>5, <1>6, RequestHandled
  <2> QED BY <1>1, <1>2, <1>3, <1>4, <1>6, <2>1 DEF m
<1>7. CASE /\ dest \in Extension /\ GroupOf[dest] # GroupOf[x]
           /\ AppendToInMsgs(<<m>>)
           /\ UNCHANGED <<pending, in_paths, delivered>>
  <2>1. Comes(m)
    BY <1>5, <1>7, Came
  <2> QED BY <1>1, <1>2, <1>3, <1>4, <1>7, <2>1 DEF m
<1>8. CASE dest \in Unknown /\ Refuse(m) /\ UNCHANGED <<pending, in_paths, delivered>>
  <2>1. dest \notin Extension
    BY <1>8, CmdRoutingAssumption DEF Sender
  <2>2. \/ m.kind = "cmd" /\ Comes(ResultOf(m))
        \/ m.kind = "data" /\ UNCHANGED <<in_msgs, e_queue>>
    BY <1>1, <1>5, <1>8, Refused DEF in_queue
  <2> QED BY <1>1, <1>2, <1>3, <1>8, <2>1, <2>2 DEF m
<1> QED BY <1>3, <1>6, <1>7, <1>8

\* An extension answers a command.
LEMMA ResultReturned ==
    ASSUME Typed, NEW x \in Extension, NEW cmd \in in_paths[x], ReturnResult(x, cmd)
    PROVE  \E m \in Result :
               /\ CmdId(m) = cmd
               /\ in_paths' = [in_paths EXCEPT ![x] = @ \ {cmd}]
               /\ \/ /\ m.dest \in Extension /\ GroupOf[m.dest] = GroupOf[x]
                     /\ HandleUpdate(m)
                     /\ UNCHANGED <<in_msgs, e_queue>>
                  \/ Comes(m) /\ UNCHANGED out_paths
<1> DEFINE s == cmd[1]
           m == [kind |-> "result", src |-> x, dest |-> s, n |-> cmd[2]]
<1>1. cmd = <<s, cmd[2]>> /\ s \in Sender /\ cmd[2] \in Nat
  BY DEF Typed, ExtensionsTyped
<1>2. m \in Result /\ m.dest = s /\ m.n = cmd[2] /\ m.kind = "result"
  BY <1>1, MsgsToFacts DEF Result
<1>3. CmdId(m) = cmd
  BY <1>1, <1>2 DEF CmdId
<1>4. /\ in_paths' = [in_paths EXCEPT ![x] = @ \ {cmd}]
      /\ \/ /\ s \in Extension /\ GroupOf[s] = GroupOf[x]
            /\ HandleResult(m)
            /\ UNCHANGED in_queue
         \/ /\ AppendToInMsgs(<<m>>)
            /\ UNCHANGED out_paths
  BY DEF ReturnResult
<1> HIDE DEF m
<1>5. CASE s \in Extension /\ GroupOf[s] = GroupOf[x] /\ HandleResult(m) /\ UNCHANGED in_queue
  <2>1. HandleUpdate(m) /\ UNCHANGED <<in_msgs, e_queue>>
    BY <1>5 DEF HandleResult, HandleUpdate, in_queue
  <2> QED BY <1>2, <1>3, <1>4, <1>5, <2>1
<1>6. CASE AppendToInMsgs(<<m>>) /\ UNCHANGED out_paths
  <2>1. Comes(m)
    BY <1>2, <1>6, Came, MsgFacts DEF Typed
  <2> QED BY <1>2, <1>3, <1>4, <1>6, <2>1
<1> QED BY <1>4, <1>5, <1>6

\* The extension x has called on_deinit_done(), and nothing keeps it.
LEMMA Left ==
    ASSUME Typed, NEW x \in Extension, Leave(x)
    PROVE  LET g == GroupOf[x]
           IN  /\ life' = [life EXCEPT ![x] = "deinit_done"]
               /\ \/ Kept(x) # <<>> /\ flushing' = [flushing EXCEPT ![g] = x] /\ UNCHANGED t_queue
                  \/ Kept(x) = <<>> /\ Posts(g, Delete(x)) /\ UNCHANGED flushing
               /\ QueuesTyped(t_queue')
<1> DEFINE g == GroupOf[x]
<1>1. g \in Group /\ x \in ExtensionsOf(g)
  BY MsgsToFacts
<1>2. ThreadsTyped /\ QueuesTyped(t_queue)
  BY DEF Typed, ThreadsTyped, QueuesTyped
<1>3. CASE Kept(x) # <<>>
  BY <1>2, <1>3 DEF Leave
<1>4. CASE Kept(x) = <<>>
  <2>1. t_queue' = [t_queue EXCEPT ![g] = Append(@, Delete(x))] /\ UNCHANGED flushing
        /\ life' = [life EXCEPT ![x] = "deinit_done"]
    BY <1>4 DEF Leave, Delete
  <2>2. Posts(g, Delete(x)) /\ QueuesTyped(t_queue')
    BY <1>1, <1>2, <2>1, TaskKinds, Posted
  <2> QED BY <1>4, <2>1, <2>2
<1> QED BY <1>3, <1>4

-----------------------------------------------------------------------------
(* The steps one by one.                                                   *)

LEMMA Steps ==
    ASSUME [Next]_vars
    PROVE  \/ EnableExtensionSystem
           \/ \E g \in Group : FindExtensionInfo(g)
           \/ \E g \in Group : RemoveThread(g)
           \/ TakeInMsgs
           \/ HandleTaken
           \/ PutBack
           \/ CloseEngine
           \/ \E dest \in Name : FirstFromClient(dest)
           \/ \E kind \in Kinds, dest \in Name : FromRemote(kind, dest)
           \/ \E g \in Group : AddAllCreatedExtensions(g)
           \/ \E g \in Group : StartLifeCycle(g)
           \/ \E g \in Group : TriggerClose(g)
           \/ \E g \in Group : HandleInMsg(g)
           \/ \E g \in Group : OnGroupDeinitDone(g)
           \/ \E g \in Group : RemovedFromEngine(g)
           \/ \E x \in Extension : Flush(x)
           \/ \E x \in Extension : DelExtension(x)
           \/ \E x \in Extension : OnInitDone(x)
           \/ \E x \in Extension : OnDeinit(x)
           \/ \E x \in Extension : OnDeinitDone(x)
           \/ \E x \in Extension : ProxyReleased(x)
           \/ \E x \in Extension, kind \in Kinds, dest \in Name : SendRequest(x, kind, dest)
           \/ \E x \in Extension : \E cmd \in in_paths[x] : ReturnResult(x, cmd)
           \/ UNCHANGED vars
<1>1. CASE EngineStep
  BY <1>1, Zenon DEF EngineStep
<1>2. CASE ClientStep
  BY <1>2, Zenon DEF ClientStep
<1>3. ASSUME NEW g \in Group, ThreadStep(g)
      PROVE  \/ AddAllCreatedExtensions(g) \/ StartLifeCycle(g) \/ TriggerClose(g) \/ HandleInMsg(g)
             \/ OnGroupDeinitDone(g) \/ RemovedFromEngine(g)
             \/ \E x \in Extension : Flush(x) \/ DelExtension(x)
  BY <1>3, MsgsToFacts, Zenon DEF ThreadStep
<1>4. ASSUME NEW x \in Extension, LifeStep(x)
      PROVE  OnInitDone(x) \/ OnDeinit(x) \/ OnDeinitDone(x) \/ ProxyReleased(x)
  BY <1>4, Zenon DEF LifeStep
<1> QED BY <1>1, <1>2, <1>3, <1>4, Zenon DEF Next

-----------------------------------------------------------------------------
(* The variables keep their types.                                         *)

SeqsTyped(f) ==
    f = [x \in Extension |-> f[x]] /\ \A x \in Extension : f[x] \in Seq(RequestsTo(x))

LEMMA SeqsAppended ==
    ASSUME NEW f, SeqsTyped(f), NEW x \in Extension, NEW m \in RequestsTo(x), NEW h,
           h = [f EXCEPT ![x] = Append(@, m)]
    PROVE  /\ SeqsTyped(h)
           /\ h[x] = Append(f[x], m)
           /\ \A y \in Extension : y # x => h[y] = f[y]
<1>1. Append(f[x], m) \in Seq(RequestsTo(x))
  BY Appended DEF SeqsTyped
<1>2. h = [y \in Extension |-> IF y = x THEN Append(f[x], m) ELSE f[y]]
  BY DEF SeqsTyped
<1>3. \A y \in Extension : h[y] = IF y = x THEN Append(f[x], m) ELSE f[y]
  BY <1>2
<1>4. h = [y \in Extension |-> h[y]]
  BY <1>2
<1> QED BY <1>1, <1>3, <1>4 DEF SeqsTyped

LEMMA SeqsTailed ==
    ASSUME NEW f, SeqsTyped(f), NEW x \in Extension, f[x] # <<>>, NEW h,
           h = [f EXCEPT ![x] = Tail(@)]
    PROVE  /\ SeqsTyped(h)
           /\ h[x] = Tail(f[x])
           /\ \A y \in Extension : y # x => h[y] = f[y]
<1>1. Tail(f[x]) \in Seq(RequestsTo(x))
  BY Tailed DEF SeqsTyped
<1>2. h = [y \in Extension |-> IF y = x THEN Tail(f[x]) ELSE f[y]]
  BY DEF SeqsTyped
<1>3. \A y \in Extension : h[y] = IF y = x THEN Tail(f[x]) ELSE f[y]
  BY <1>2
<1>4. h = [y \in Extension |-> h[y]]
  BY <1>2
<1> QED BY <1>1, <1>3, <1>4 DEF SeqsTyped

LEMMA KeptTypedIs == KeptTyped <=> SeqsTyped(init_stage) /\ SeqsTyped(pending) /\ SeqsTyped(delivered)
BY DEF KeptTyped, SeqsTyped

LEMMA ThreadsTypedIs ==
    ThreadsTyped <=> /\ t_state \in [Group -> ThreadStates]
                     /\ QueuesTyped(t_queue)
                     /\ flushing = [g \in Group |-> flushing[g]]
                     /\ \A g \in Group : flushing[g] \in ExtensionsOf(g) \union {None}
BY DEF ThreadsTyped, QueuesTyped

\* The engine takes a task and posts others.
LEMMA EngineTaskTaken ==
    ASSUME EngineQueuesTyped, NEW name, NEW arg, NEW posts \in Seq(EngineTasks),
           EngineTask(name, arg, posts)
    PROVE  /\ e_queue # <<>> /\ Head(e_queue) = Task(name, arg)
           /\ e_queue' = Tail(e_queue) \o posts
           /\ e_queue' \in Seq(EngineTasks)
           /\ taken = <<>> /\ put_back = <<>>
<1>1. /\ e_queue # <<>> /\ Head(e_queue) = Task(name, arg)
      /\ e_queue' = Tail(e_queue) \o posts
      /\ taken = <<>> /\ put_back = <<>>
  BY DEF EngineTask, AtTask
<1>2. Tail(e_queue) \in Seq(EngineTasks)
  BY <1>1, Tailed DEF EngineQueuesTyped
<1>3. e_queue' \in Seq(EngineTasks)
  BY <1>1, <1>2, ConcatProperties
<1> QED BY <1>1, <1>3

LEMMA ComesTyped ==
    ASSUME EngineQueuesTyped, NEW m \in Msg, Comes(m)
    PROVE  in_msgs' \in Seq(Msg) /\ e_queue' \in Seq(EngineTasks)
BY TaskKinds, Appended DEF EngineQueuesTyped, Comes

\* A request that is handled at its destination leaves everything typed.
LEMMA ReachedTyped ==
    ASSUME Typed, NEW x \in Extension, NEW m \in RequestsTo(x),
           Keeps(x, m) \/ Refuses(x, m) \/ Delivers(x, m)
    PROVE  /\ in_msgs' \in Seq(Msg) /\ e_queue' \in Seq(EngineTasks)
           /\ SeqsTyped(pending') /\ SeqsTyped(delivered')
           /\ in_paths' \in [Extension -> SUBSET (Sender \X Nat)]
<1>1. m \in Request /\ CmdId(m) \in Sender \X Nat /\ ResultOf(m) \in Msg
  BY MsgFacts DEF RequestsTo
<1>2. /\ SeqsTyped(pending) /\ SeqsTyped(delivered)
      /\ in_paths \in [Extension -> SUBSET (Sender \X Nat)]
      /\ EngineQueuesTyped /\ in_msgs \in Seq(Msg) /\ e_queue \in Seq(EngineTasks)
  BY KeptTypedIs DEF Typed, ExtensionsTyped, EngineQueuesTyped
<1>3. CASE Keeps(x, m)
  <2>1. SeqsTyped(pending')
    BY <1>2, <1>3, SeqsAppended DEF Keeps
  <2> QED BY <1>2, <1>3, <2>1 DEF Keeps
<1>4. CASE Refuses(x, m)
  <2>1. in_msgs' \in Seq(Msg) /\ e_queue' \in Seq(EngineTasks)
    BY <1>1, <1>2, <1>4, ComesTyped DEF Refuses
  <2> QED BY <1>2, <1>4, <2>1 DEF Refuses
<1>5. CASE Delivers(x, m)
  <2>1. SeqsTyped(delivered')
    BY <1>2, <1>5, SeqsAppended DEF Delivers, Gets
  <2>2. in_paths' \in [Extension -> SUBSET (Sender \X Nat)]
    BY <1>1, <1>2, <1>5 DEF Delivers, Gets
  <2> QED BY <1>2, <1>5, <2>1, <2>2 DEF Delivers
<1> QED BY <1>3, <1>4, <1>5

LEMMA TypedInit == Init => Typed
<1> SUFFICES ASSUME Init PROVE Typed
  OBVIOUS
<1>1. \A T : <<>> \in Seq(T)
  BY EmptySeq
<1>2. EngineTyped
  BY DEF Init, EngineTyped
<1>3. EngineQueuesTyped
  BY <1>1 DEF Init, EngineQueuesTyped
<1>4. ThreadsTyped
  BY <1>1 DEF Init, ThreadsTyped, ThreadStates
<1>5. KeptTyped
  BY <1>1 DEF Init, KeptTyped
<1>6. ExtensionsTyped
  BY DEF Init, ExtensionsTyped, Lives
<1> QED BY <1>2, <1>3, <1>4, <1>5, <1>6 DEF Typed

LEMMA TypedStep == Typed /\ Control /\ WereSent /\ [Next]_vars => Typed'
<1> SUFFICES ASSUME Typed, Control, WereSent, [Next]_vars PROVE Typed'
  OBVIOUS
<1>1. /\ EngineTyped /\ EngineQueuesTyped /\ ThreadsTyped /\ KeptTyped /\ ExtensionsTyped
  BY DEF Typed
<1>2. /\ SeqsTyped(init_stage) /\ SeqsTyped(pending) /\ SeqsTyped(delivered)
      /\ QueuesTyped(t_queue)
      /\ t_state \in [Group -> ThreadStates] /\ flushing = [g \in Group |-> flushing[g]]
      /\ \A g \in Group : flushing[g] \in ExtensionsOf(g) \union {None}
  BY <1>1, KeptTypedIs, ThreadsTypedIs
<1>3. UNCHANGED engine => EngineTyped'
  BY <1>1 DEF EngineTyped, engine
<1>4. UNCHANGED <<e_queue, in_msgs, taken, put_back>> => EngineQueuesTyped'
  BY <1>1 DEF EngineQueuesTyped
<1>5. UNCHANGED <<t_state, flushing>> /\ QueuesTyped(t_queue') => ThreadsTyped'
  <2>1. ASSUME UNCHANGED <<t_state, flushing>>, QueuesTyped(t_queue') PROVE ThreadsTyped'
    BY <1>2, <2>1 DEF ThreadsTyped, QueuesTyped
  <2> QED BY <2>1
<1>6. UNCHANGED <<init_stage, pending, delivered>> => KeptTyped'
  BY <1>1 DEF KeptTyped
<1>7. UNCHANGED <<life, in_paths, out_paths, sent>> => ExtensionsTyped'
  BY <1>1 DEF ExtensionsTyped
<1>8. UNCHANGED t_queue => QueuesTyped(t_queue')
  BY <1>2
<1>9. <<>> \in Seq(EngineTasks) /\ <<HandleInMsgs>> \in Seq(EngineTasks)
  BY TaskKinds, EmptySeq
<1>10. SeqsTyped(init_stage') /\ SeqsTyped(pending') /\ SeqsTyped(delivered') => KeptTyped'
  BY DEF KeptTyped, SeqsTyped
<1>11. ASSUME NEW s \in Sender PROVE [sent EXCEPT ![s] = @ + 1] \in [Sender -> Nat]
  BY <1>1 DEF ExtensionsTyped
<1>12. ASSUME NEW f, f \in [Group -> ThreadStates], NEW g \in Group, NEW s \in ThreadStates
       PROVE  [f EXCEPT ![g] = s] \in [Group -> ThreadStates]
  BY <1>12
<1>13. UNCHANGED flushing /\ t_state' \in [Group -> ThreadStates] /\ QueuesTyped(t_queue') => ThreadsTyped'
  <2>1. ASSUME UNCHANGED flushing, t_state' \in [Group -> ThreadStates], QueuesTyped(t_queue')
        PROVE  ThreadsTyped'
    BY <1>2, <2>1 DEF ThreadsTyped, QueuesTyped
  <2> QED BY <2>1
<1>a. CASE EnableExtensionSystem
  <2>1. EngineTyped'
    BY <1>a, <1>1 DEF EnableExtensionSystem, EngineTyped
  <2>2. t_state' \in [Group -> ThreadStates]
    BY <1>a DEF EnableExtensionSystem, ThreadStates
  <2> QED BY <1>a, <1>4, <1>6, <1>7, <1>8, <1>13, <2>1, <2>2
          DEF EnableExtensionSystem, Typed, in_queue, batch, ext, sender
<1>b. ASSUME NEW g \in Group, FindExtensionInfo(g) PROVE Typed'
  <2> DEFINE posts == IF cnt_of_ready + 1 = Cardinality(threads) THEN <<HandleInMsgs>> ELSE <<>>
  <2>1. posts \in Seq(EngineTasks)
    BY <1>9
  <2>2. EngineTask("find_info", g, posts)
    BY <1>b DEF FindExtensionInfo
  <2> HIDE DEF posts
  <2>3. e_queue' \in Seq(EngineTasks)
    BY <1>1, <2>1, <2>2, EngineTaskTaken
  <2>4. EngineTyped'
    BY <1>b, <1>1 DEF FindExtensionInfo, EngineTyped
  <2>5. QueuesTyped(t_queue')
    <3>1. StartLife \in ThreadTasks(g)
      BY TaskKinds
    <3> QED BY <1>b, <1>1, <3>1, Posted DEF FindExtensionInfo, StartLife
  <2>6. EngineQueuesTyped'
    BY <1>b, <1>1, <2>3 DEF FindExtensionInfo, EngineQueuesTyped, batch
  <2> QED BY <1>b, <1>5, <1>6, <1>7, <2>4, <2>5, <2>6 DEF FindExtensionInfo, Typed, thread, ext, sender
<1>c. ASSUME NEW g \in Group, RemoveThread(g) PROVE Typed'
  <2>1. EngineTask("remove", g, <<>>)
    BY <1>c DEF RemoveThread
  <2>2. e_queue' \in Seq(EngineTasks)
    BY <1>1, <1>9, <2>1, EngineTaskTaken
  <2>3. EngineTyped'
    BY <1>c, <1>1 DEF RemoveThread, EngineTyped
  <2>4. QueuesTyped(t_queue')
    <3>1. Removed \in ThreadTasks(g)
      BY TaskKinds
    <3> QED BY <1>c, <1>1, <3>1, Posted DEF RemoveThread, Removed
  <2>5. EngineQueuesTyped'
    BY <1>c, <1>1, <2>2 DEF RemoveThread, EngineQueuesTyped, batch
  <2> QED BY <1>c, <1>5, <1>6, <1>7, <2>3, <2>4, <2>5 DEF RemoveThread, Typed, thread, ext, sender
<1>d. CASE TakeInMsgs
  <2>1. EngineTask("handle_in_msgs", None, <<>>)
    BY <1>d DEF TakeInMsgs
  <2>2. e_queue' \in Seq(EngineTasks)
    BY <1>1, <1>9, <2>1, EngineTaskTaken
  <2>3. EngineQueuesTyped'
    <3>1. <<>> \in Seq(Msg)
      BY EmptySeq
    <3> QED BY <1>d, <1>1, <2>2, <3>1 DEF TakeInMsgs, EngineQueuesTyped
  <2> QED BY <1>d, <1>3, <1>5, <1>6, <1>7, <1>8, <2>3 DEF TakeInMsgs, Typed, thread, ext, sender
<1>e. CASE HandleTaken
  <2>1. EngineTyped'
    BY <1>e, <1>1 DEF HandleTaken, EngineTyped
  <2>2. taken # <<>> /\ taken' = Tail(taken) /\ Head(taken) \in Msg /\ QueuesTyped(t_queue')
    BY <1>e, TakenHandled
  <2>3. put_back' = put_back \/ put_back' = Append(put_back, Head(taken))
    BY <1>e DEF HandleTaken
  <2>4. Tail(taken) \in Seq(Msg) /\ Append(put_back, Head(taken)) \in Seq(Msg)
    BY <1>1, <2>2, Tailed, Appended DEF EngineQueuesTyped
  <2>5. EngineQueuesTyped'
    BY <1>e, <1>1, <2>2, <2>3, <2>4 DEF HandleTaken, EngineQueuesTyped, in_queue
  <2> QED BY <1>e, <1>5, <1>6, <1>7, <2>1, <2>2, <2>5 DEF HandleTaken, Typed, thread, ext
<1>f. CASE PutBack
  <2>1. put_back \o in_msgs \in Seq(Msg) /\ <<>> \in Seq(Msg)
    BY <1>1, ConcatProperties, EmptySeq DEF EngineQueuesTyped
  <2>2. EngineQueuesTyped'
    BY <1>f, <1>1, <2>1 DEF PutBack, EngineQueuesTyped
  <2> QED BY <1>f, <1>3, <1>5, <1>6, <1>7, <1>8, <2>2 DEF PutBack, Typed, thread, ext, sender
<1>g. CASE CloseEngine
  <2>1. EngineTyped'
    BY <1>g, <1>1 DEF CloseEngine, EngineTyped
  <2>2. QueuesTyped(t_queue')
    <3>1. t_queue' = [g \in Group |-> Append(t_queue[g], ToClose)]
      BY <1>g DEF CloseEngine, ToClose
    <3>2. \A g \in Group : Append(t_queue[g], ToClose) \in Seq(ThreadTasks(g))
      BY <1>2, TaskKinds, Appended DEF QueuesTyped
    <3>3. \A g \in Group : t_queue'[g] = Append(t_queue[g], ToClose)
      BY <3>1
    <3>4. t_queue' = [g \in Group |-> t_queue'[g]]
      BY <3>1
    <3> QED BY <3>2, <3>3, <3>4 DEF QueuesTyped
  <2> QED BY <1>g, <1>4, <1>5, <1>6, <1>7, <2>1, <2>2
          DEF CloseEngine, Typed, in_queue, batch, thread, ext, sender
<1>h. ASSUME NEW dest \in Name, FirstFromClient(dest) PROVE Typed'
  <2> DEFINE m == NewRequest(Client, "cmd", dest)
  <2>1. AppendToInMsgs(<<m>>) /\ CountSent(m) /\ m.src = Client
    BY <1>h DEF FirstFromClient, NewRequest
  <2>2. m \in Request
    BY <1>1 DEF NewRequest, Request, ExtensionsTyped, Sender
  <2>3. m \in Msg
    BY <2>2, MsgFacts
  <2> HIDE DEF m
  <2>4. Comes(m)
    BY <1>1, <2>1, <2>3, Came
  <2>5. in_msgs' \in Seq(Msg) /\ e_queue' \in Seq(EngineTasks)
    BY <1>1, <2>3, <2>4, ComesTyped
  <2>6. EngineQueuesTyped'
    BY <1>h, <1>1, <2>5 DEF FirstFromClient, EngineQueuesTyped, batch
  <2>7. ExtensionsTyped'
    <3>1. sent' = [sent EXCEPT ![Client] = @ + 1]
      BY <2>1 DEF CountSent
    <3>2. sent' \in [Sender -> Nat]
      BY <1>11, <3>1 DEF Sender
    <3> QED BY <1>h, <1>1, <3>2 DEF FirstFromClient, ExtensionsTyped, ext
  <2> QED BY <1>h, <1>3, <1>5, <1>6, <1>8, <2>6, <2>7 DEF FirstFromClient, Typed, thread, ext
<1>i. ASSUME NEW kind \in Kinds, NEW dest \in Name, FromRemote(kind, dest) PROVE Typed'
  <2>1. sent' = [sent EXCEPT ![Client] = @ + 1] /\ QueuesTyped(t_queue')
    BY <1>i, FromRemoteSent
  <2>2. ExtensionsTyped'
    <3>1. sent' \in [Sender -> Nat]
      BY <1>11, <2>1 DEF Sender
    <3> QED BY <1>i, <1>1, <3>1 DEF FromRemote, ExtensionsTyped, ext
  <2> QED BY <1>i, <1>3, <1>4, <1>5, <1>6, <2>1, <2>2
          DEF FromRemote, Typed, thread, ext, in_queue, batch
<1>j. ASSUME NEW g \in Group, AddAllCreatedExtensions(g) PROVE Typed'
  <2>1. e_queue' = Append(e_queue, FindInfo(g)) /\ t_state' = [t_state EXCEPT ![g] = "created"]
    BY <1>j DEF AddAllCreatedExtensions, FindInfo
  <2>2. e_queue' \in Seq(EngineTasks)
    BY <1>1, <2>1, TaskKinds, Appended DEF EngineQueuesTyped
  <2>3. EngineQueuesTyped'
    BY <1>j, <1>1, <2>2 DEF AddAllCreatedExtensions, EngineQueuesTyped, batch
  <2>4. t_state' \in [Group -> ThreadStates]
    BY <1>2, <1>12, <2>1 DEF ThreadStates
  <2> QED BY <1>j, <1>3, <1>6, <1>7, <1>8, <1>13, <2>3, <2>4
          DEF AddAllCreatedExtensions, Typed, ext, sender
<1>k. ASSUME NEW g \in Group, StartLifeCycle(g) PROVE Typed'
  <2>1. QueuesTyped(t_queue')
    BY <1>k, <1>1, TaskTaken DEF StartLifeCycle
  <2>2. t_state' \in [Group -> ThreadStates]
    BY <1>k, <1>2, <1>12 DEF StartLifeCycle, ThreadStates
  <2>3. ExtensionsTyped'
    BY <1>k, <1>1 DEF StartLifeCycle, ExtensionsTyped, sender, Lives
  <2> QED BY <1>k, <1>3, <1>4, <1>6, <1>13, <2>1, <2>2, <2>3 DEF StartLifeCycle, Typed, in_queue, batch
<1>l. ASSUME NEW g \in Group, TriggerClose(g) PROVE Typed'
  <2>1. QueuesTyped(t_queue')
    BY <1>l, <1>1, TaskTaken DEF TriggerClose
  <2>2. t_state' \in [Group -> ThreadStates]
    BY <1>l, <1>2, <1>12 DEF TriggerClose, ThreadStates
  <2> QED BY <1>l, <1>3, <1>4, <1>6, <1>7, <1>13, <2>1, <2>2
          DEF TriggerClose, Typed, in_queue, batch, ext, sender
<1>m. ASSUME NEW g \in Group, HandleInMsg(g) PROVE Typed'
  <2>1. PICK m \in MsgsTo(g) :
               /\ Takes(g, Task("msg", m)) /\ QueuesTyped(t_queue') /\ flushing[g] = None
               /\ \/ /\ Begins(g) /\ m \in RequestsTo(m.dest)
                     /\ init_stage' = [init_stage EXCEPT ![m.dest] = Append(@, m)]
                     /\ UNCHANGED <<in_msgs, e_queue, pending, in_paths, delivered, out_paths>>
                  \/ /\ ~Begins(g) /\ m \in Result
                     /\ HandleUpdate(m)
                     /\ UNCHANGED <<init_stage, in_msgs, e_queue, pending, in_paths, delivered>>
                  \/ /\ ~Begins(g) /\ m \in RequestsTo(m.dest)
                     /\ Keeps(m.dest, m) \/ Refuses(m.dest, m) \/ Delivers(m.dest, m)
                     /\ UNCHANGED <<init_stage, out_paths>>
    BY <1>m, MsgHandled
  <2>2. m.dest \in Extension
    BY DEF MsgsTo
  <2>3. UNCHANGED <<engine, batch, t_state, flushing, life, sent>>
    BY <1>m DEF HandleInMsg
  <2>4. EngineTyped' /\ ThreadsTyped'
    BY <1>3, <1>5, <2>1, <2>3
  <2>5. CASE /\ m \in RequestsTo(m.dest)
             /\ init_stage' = [init_stage EXCEPT ![m.dest] = Append(@, m)]
             /\ UNCHANGED <<in_msgs, e_queue, pending, in_paths, delivered, out_paths>>
    <3>1. SeqsTyped(init_stage')
      BY <1>2, <2>2, <2>5, SeqsAppended
    <3>2. KeptTyped'
      BY <1>2, <1>10, <2>5, <3>1
    <3> QED BY <1>4, <1>7, <2>3, <2>4, <2>5, <3>2 DEF Typed, batch
  <2>6. CASE HandleUpdate(m) /\ UNCHANGED <<init_stage, in_msgs, e_queue, pending, in_paths, delivered>>
    <3>1. ExtensionsTyped'
      BY <1>1, <2>3, <2>6 DEF ExtensionsTyped, HandleUpdate
    <3> QED BY <1>4, <1>6, <2>3, <2>4, <2>6, <3>1 DEF Typed, batch
  <2>7. CASE /\ m \in RequestsTo(m.dest)
             /\ Keeps(m.dest, m) \/ Refuses(m.dest, m) \/ Delivers(m.dest, m)
             /\ UNCHANGED <<init_stage, out_paths>>
    <3>1. /\ in_msgs' \in Seq(Msg) /\ e_queue' \in Seq(EngineTasks)
          /\ SeqsTyped(pending') /\ SeqsTyped(delivered')
          /\ in_paths' \in [Extension -> SUBSET (Sender \X Nat)]
      BY <2>2, <2>7, ReachedTyped
    <3>2. KeptTyped'
      BY <1>2, <1>10, <2>7, <3>1
    <3>3. EngineQueuesTyped'
      BY <1>1, <2>3, <3>1 DEF EngineQueuesTyped, batch
    <3>4. ExtensionsTyped'
      BY <1>1, <2>3, <2>7, <3>1 DEF ExtensionsTyped
    <3> QED BY <2>4, <3>2, <3>3, <3>4 DEF Typed
  <2> QED BY <2>1, <2>5, <2>6, <2>7
<1>n. ASSUME NEW g \in Group, OnGroupDeinitDone(g) PROVE Typed'
  <2>1. e_queue' = Append(e_queue, Remove(g)) /\ t_state' = [t_state EXCEPT ![g] = "destroyed"]
    BY <1>n DEF OnGroupDeinitDone, Remove
  <2>2. e_queue' \in Seq(EngineTasks)
    BY <1>1, <2>1, TaskKinds, Appended DEF EngineQueuesTyped
  <2>3. EngineQueuesTyped'
    BY <1>n, <1>1, <2>2 DEF OnGroupDeinitDone, EngineQueuesTyped, batch
  <2>4. t_state' \in [Group -> ThreadStates]
    BY <1>2, <1>12, <2>1 DEF ThreadStates
  <2> QED BY <1>n, <1>3, <1>6, <1>7, <1>8, <1>13, <2>3, <2>4 DEF OnGroupDeinitDone, Typed, ext, sender
<1>o. ASSUME NEW g \in Group, RemovedFromEngine(g) PROVE Typed'
  <2>1. QueuesTyped(t_queue')
    BY <1>o, <1>1, TaskTaken DEF RemovedFromEngine
  <2>2. t_state' \in [Group -> ThreadStates]
    BY <1>o, <1>2, <1>12 DEF RemovedFromEngine, ThreadStates
  <2> QED BY <1>o, <1>3, <1>4, <1>6, <1>7, <1>13, <2>1, <2>2
          DEF RemovedFromEngine, Typed, in_queue, batch, ext, sender
<1>p. ASSUME NEW x \in Extension, Flush(x) PROVE Typed'
  <2> DEFINE g == GroupOf[x]
             is_last == Len(Kept(x)) = 1
  <2>1. PICK m \in RequestsTo(x) :
               /\ FlushTakes(x, m)
               /\ flushing' = IF is_last THEN [flushing EXCEPT ![g] = None] ELSE flushing
               /\ \/ /\ life[x] = "live"
                     /\ Gets(x, m)
                     /\ UNCHANGED <<in_msgs, e_queue, t_queue>>
                  \/ /\ life[x] = "deinit_done"
                     /\ \/ m.kind = "cmd" /\ Comes(ResultOf(m))
                        \/ m.kind = "data" /\ UNCHANGED <<in_msgs, e_queue>>
                     /\ IF is_last THEN Posts(g, Delete(x)) ELSE UNCHANGED t_queue
                     /\ UNCHANGED <<delivered, in_paths>>
               /\ QueuesTyped(t_queue')
    BY <1>p, Flushed
  <2>2. UNCHANGED <<engine, batch, t_state, life, sent, out_paths>>
    BY <1>p DEF Flush, sender
  <2>3. g \in Group
    BY MsgsToFacts
  <2>4. ThreadsTyped'
    BY <1>2, <2>1, <2>2, <2>3 DEF ThreadsTyped, QueuesTyped
  <2>5. SeqsTyped(init_stage') /\ SeqsTyped(pending')
    BY <1>2, <2>1, SeqsTailed DEF FlushTakes
  <2>6. m \in Request /\ CmdId(m) \in Sender \X Nat /\ ResultOf(m) \in Msg
    BY MsgFacts DEF RequestsTo
  <2>7. SeqsTyped(delivered')
    BY <1>2, <2>1, SeqsAppended DEF Gets
  <2>8. in_paths' \in [Extension -> SUBSET (Sender \X Nat)]
    BY <1>1, <2>1, <2>6 DEF ExtensionsTyped, Gets
  <2>9. in_msgs' \in Seq(Msg) /\ e_queue' \in Seq(EngineTasks)
    BY <1>1, <2>1, <2>6, ComesTyped DEF EngineQueuesTyped
  <2>10. EngineQueuesTyped' /\ ExtensionsTyped'
    BY <1>1, <2>2, <2>8, <2>9 DEF EngineQueuesTyped, ExtensionsTyped, batch
  <2> QED BY <1>3, <1>10, <2>2, <2>4, <2>5, <2>7, <2>10 DEF Typed
<1>q. ASSUME NEW x \in Extension, DelExtension(x) PROVE Typed'
  <2>1. QueuesTyped(t_queue')
    BY <1>q, <1>1, TaskTaken, MsgsToFacts DEF DelExtension
  <2>2. ExtensionsTyped'
    BY <1>q, <1>1 DEF DelExtension, ExtensionsTyped, sender, Lives
  <2> QED BY <1>q, <1>3, <1>4, <1>5, <1>6, <2>1, <2>2 DEF DelExtension, Typed, in_queue, batch, thread
<1>r. ASSUME NEW x \in Extension, OnInitDone(x) PROVE Typed'
  <2>1. ExtensionsTyped'
    BY <1>r, <1>1 DEF OnInitDone, ExtensionsTyped, sender, Lives
  <2>2. ThreadsTyped'
    <3>1. GroupOf[x] \in Group /\ x \in ExtensionsOf(GroupOf[x])
      BY MsgsToFacts
    <3>2. flushing' = flushing \/ flushing' = [flushing EXCEPT ![GroupOf[x]] = x]
      BY <1>r DEF OnInitDone
    <3>3. UNCHANGED <<t_state, t_queue>>
      BY <1>r DEF OnInitDone
    <3> QED BY <1>1, <3>1, <3>2, <3>3 DEF ThreadsTyped
  <2> QED BY <1>r, <1>3, <1>4, <1>6, <2>1, <2>2 DEF OnInitDone, Typed, in_queue, batch
<1>s. ASSUME NEW x \in Extension, OnDeinit(x) PROVE Typed'
  <2>1. ExtensionsTyped'
    BY <1>s, <1>1 DEF OnDeinit, ExtensionsTyped, sender, Lives
  <2> QED BY <1>s, <1>3, <1>4, <1>5, <1>6, <1>8, <2>1 DEF OnDeinit, Typed, in_queue, batch, thread
<1>t. ASSUME NEW x \in Extension, Leave(x), UNCHANGED t_state PROVE ThreadsTyped'
  <2>1. GroupOf[x] \in Group /\ x \in ExtensionsOf(GroupOf[x])
    BY MsgsToFacts
  <2>2. /\ QueuesTyped(t_queue')
        /\ flushing' = flushing \/ flushing' = [flushing EXCEPT ![GroupOf[x]] = x]
    BY <1>t, Left
  <2> QED BY <1>2, <1>t, <2>1, <2>2 DEF ThreadsTyped, QueuesTyped
<1>u. ASSUME NEW x \in Extension, OnDeinitDone(x) PROVE Typed'
  <2>1. ExtensionsTyped'
    <3>1. life' = [life EXCEPT ![x] = "deinit_done"] \/ life' = [life EXCEPT ![x] = "held"]
      BY <1>u DEF OnDeinitDone, Leave
    <3> QED BY <1>u, <1>1, <3>1 DEF OnDeinitDone, ExtensionsTyped, Lives
  <2>2. ThreadsTyped'
    <3>1. Leave(x) \/ UNCHANGED <<flushing, t_queue>>
      BY <1>u DEF OnDeinitDone
    <3>2. UNCHANGED t_state
      BY <1>u DEF OnDeinitDone
    <3> QED BY <1>5, <1>8, <1>t, <3>1, <3>2
  <2> QED BY <1>u, <1>3, <1>4, <1>6, <2>1, <2>2 DEF OnDeinitDone, Typed, in_queue, batch
<1>v. ASSUME NEW x \in Extension, ProxyReleased(x) PROVE Typed'
  <2>1. ExtensionsTyped'
    BY <1>v, <1>1 DEF ProxyReleased, Leave, ExtensionsTyped, sender, Lives
  <2>2. ThreadsTyped'
    BY <1>v, <1>t DEF ProxyReleased
  <2> QED BY <1>v, <1>3, <1>4, <1>6, <2>1, <2>2 DEF ProxyReleased, Typed, in_queue, batch
<1>w. ASSUME NEW x \in Extension, NEW kind \in Kinds, NEW dest \in Name, SendRequest(x, kind, dest)
      PROVE  Typed'
  <2> DEFINE m == NewRequest(x, kind, dest)
  <2>1. /\ m \in Request
        /\ sent' = [sent EXCEPT ![x] = @ + 1]
        /\ out_paths' = IF m.kind = "cmd" THEN [out_paths EXCEPT ![x] = @ \union {m.n}] ELSE out_paths
        /\ \/ /\ dest \in Extension /\ m \in RequestsTo(dest)
              /\ Keeps(dest, m) \/ Refuses(dest, m) \/ Delivers(dest, m)
           \/ Comes(m) /\ UNCHANGED <<pending, in_paths, delivered>>
           \/ /\ Comes(ResultOf(m)) \/ UNCHANGED <<in_msgs, e_queue>>
              /\ UNCHANGED <<pending, in_paths, delivered>>
    BY <1>w, RequestSent
  <2>2. UNCHANGED <<engine, batch, t_state, init_stage, flushing, t_queue, life>>
    BY <1>w DEF SendRequest, thread
  <2> HIDE DEF m
  <2>3. m \in Msg /\ ResultOf(m) \in Msg /\ m.n \in Nat
    BY <2>1, MsgFacts
  <2>4. /\ in_msgs' \in Seq(Msg) /\ e_queue' \in Seq(EngineTasks)
        /\ SeqsTyped(pending') /\ SeqsTyped(delivered')
        /\ in_paths' \in [Extension -> SUBSET (Sender \X Nat)]
    <3>1. ASSUME dest \in Extension, m \in RequestsTo(dest),
                 Keeps(dest, m) \/ Refuses(dest, m) \/ Delivers(dest, m)
          PROVE  /\ in_msgs' \in Seq(Msg) /\ e_queue' \in Seq(EngineTasks)
                 /\ SeqsTyped(pending') /\ SeqsTyped(delivered')
                 /\ in_paths' \in [Extension -> SUBSET (Sender \X Nat)]
      BY <3>1, ReachedTyped
    <3>2. ASSUME NEW n \in Msg, Comes(n) PROVE in_msgs' \in Seq(Msg) /\ e_queue' \in Seq(EngineTasks)
      BY <1>1, <3>2, ComesTyped
    <3>3. /\ in_msgs \in Seq(Msg) /\ e_queue \in Seq(EngineTasks)
          /\ in_paths \in [Extension -> SUBSET (Sender \X Nat)]
      BY <1>1 DEF EngineQueuesTyped, ExtensionsTyped
    <3> QED BY <1>2, <2>1, <2>3, <3>1, <3>2, <3>3
  <2>5. sent' \in [Sender -> Nat] /\ out_paths' \in [Extension -> SUBSET Nat]
    <3>1. sent' \in [Sender -> Nat]
      BY <1>11, <2>1, MsgsToFacts
    <3>2. out_paths' \in [Extension -> SUBSET Nat]
      BY <1>1, <2>1, <2>3 DEF ExtensionsTyped
    <3> QED BY <3>1, <3>2
  <2>6. EngineQueuesTyped' /\ ExtensionsTyped'
    BY <1>1, <2>2, <2>4, <2>5 DEF EngineQueuesTyped, ExtensionsTyped, batch
  <2>7. KeptTyped'
    BY <1>2, <1>10, <2>2, <2>4
  <2> QED BY <1>3, <1>5, <1>8, <2>2, <2>6, <2>7 DEF Typed
<1>x. ASSUME NEW x \in Extension, NEW cmd \in in_paths[x], ReturnResult(x, cmd) PROVE Typed'
  <2>1. PICK m \in Result :
               /\ in_paths' = [in_paths EXCEPT ![x] = @ \ {cmd}]
               /\ \/ m.dest \in Extension /\ HandleUpdate(m) /\ UNCHANGED <<in_msgs, e_queue>>
                  \/ Comes(m) /\ UNCHANGED out_paths
    BY <1>x, ResultReturned
  <2>2. UNCHANGED <<engine, batch, t_state, init_stage, flushing, t_queue, life, pending, delivered, sent>>
    BY <1>x DEF ReturnResult, thread
  <2>3. in_msgs' \in Seq(Msg) /\ e_queue' \in Seq(EngineTasks)
    BY <1>1, <2>1, ComesTyped, MsgFacts DEF EngineQueuesTyped
  <2>4. EngineQueuesTyped'
    BY <1>1, <2>2, <2>3 DEF EngineQueuesTyped, batch
  <2>5. ExtensionsTyped'
    BY <1>1, <2>1, <2>2 DEF ExtensionsTyped, HandleUpdate
  <2> QED BY <1>3, <1>5, <1>6, <1>8, <2>2, <2>4, <2>5 DEF Typed
<1>y. CASE UNCHANGED vars
  BY <1>y, <1>3, <1>4, <1>5, <1>6, <1>7, <1>8
     DEF vars, Typed, in_queue, batch, thread, ext, sender
<1> QED BY <1>a, <1>b, <1>c, <1>d, <1>e, <1>f, <1>g, <1>h, <1>i, <1>j, <1>k, <1>l, <1>m, <1>n, <1>o, <1>p,
           <1>q, <1>r, <1>s, <1>u, <1>v, <1>w, <1>x, <1>y, Steps, Zenon

-----------------------------------------------------------------------------
(* How far the threads have come.  Most actions leave the tasks alone that *)
(* the start and the close of the threads depend on.                       *)

Same(q, r, t) == (Has(r, t) <=> Has(q, t)) /\ (Once(q, t) => Once(r, t))

RemovedIsLast(q) == \A i \in DOMAIN q : q[i] = Removed => i = Len(q)

LEMMA TaskTakenFrom ==
    ASSUME NEW g \in Group, NEW q \in Seq(ThreadTasks(g)), q # <<>>, NEW t, Head(q) = t, NEW r, r = Tail(q)
    PROVE  /\ Has(q, t)
           /\ Once(q, t) => ~Has(r, t) /\ Once(r, t)
           /\ \A u : u # t => Same(q, r, u)
           /\ \A a, b : Precedes(q, a, b) => t # b /\ (t # a => Precedes(r, a, b))
           /\ RemovedIsLast(q) => RemovedIsLast(r) /\ (t = Removed => r = <<>>)
<1>1. /\ \A u : /\ Has(q, t)
                /\ Has(r, u) => Has(q, u)
                /\ Has(q, u) /\ t # u => Has(r, u)
                /\ Once(q, u) => Once(r, u)
                /\ Once(q, u) /\ t = u => ~Has(r, u)
  BY HasTail
<1>2. \A a, b : Precedes(q, a, b) => t # b /\ (t # a => Precedes(r, a, b))
  BY PrecedesTail
<1>3. ASSUME RemovedIsLast(q) PROVE RemovedIsLast(r) /\ (t = Removed => r = <<>>)
  <2>1. /\ t = q[1] /\ r \in Seq(ThreadTasks(g)) /\ 1 \in DOMAIN q
        /\ \A i \in DOMAIN r : i \in Nat /\ i + 1 \in DOMAIN q /\ r[i] = q[i + 1]
    BY Tailed
  <2>2. Len(r) = Len(q) - 1 /\ Len(q) \in Nat /\ Len(r) \in Nat
    BY HeadTailProperties
  <2>3. RemovedIsLast(r)
    <3> SUFFICES ASSUME NEW i \in DOMAIN r, r[i] = Removed PROVE i = Len(r)
      BY DEF RemovedIsLast
    <3>1. i \in Nat /\ i + 1 = Len(q)
      BY <1>3, <2>1 DEF RemovedIsLast
    <3> QED BY <2>2, <3>1
  <2>4. ASSUME t = Removed PROVE r = <<>>
    <3>1. Len(q) = 1
      BY <1>3, <2>1, <2>4 DEF RemovedIsLast
    <3>2. Len(r) = 0
      BY <2>2, <3>1
    <3> QED BY <2>1, <3>2, SeqEmpty
  <2> QED BY <2>3, <2>4
<1> QED BY <1>1, <1>2, <1>3 DEF Same

LEMMA TaskPostedTo ==
    ASSUME NEW g \in Group, NEW q \in Seq(ThreadTasks(g)), NEW t \in ThreadTasks(g), NEW r, r = Append(q, t)
    PROVE  /\ Has(r, t)
           /\ ~Has(q, t) => Once(r, t)
           /\ \A u : u # t => Same(q, r, u)
           /\ \A a, b : Precedes(q, a, b) /\ (Has(q, a) \/ t # b) => Precedes(r, a, b)
           /\ RemovedIsLast(q) /\ ~Has(q, Removed) => RemovedIsLast(r)
<1>1. \A u : /\ Has(r, u) <=> Has(q, u) \/ u = t
             /\ Once(q, u) /\ (u # t \/ ~Has(q, u)) => Once(r, u)
  BY HasAppended
<1>2. \A a, b : Precedes(q, a, b) /\ (Has(q, a) \/ t # b) => Precedes(r, a, b)
  <2> DEFINE s == <<t>>
  <2>1. s \in Seq(ThreadTasks(g)) /\ r = q \o s
    BY AppendIsConcat
  <2>2. \A b : Has(s, b) <=> b = t
    BY HasOne
  <2> HIDE DEF s
  <2> QED BY <2>1, <2>2, PrecedesJoined
<1>3. ASSUME ~Has(q, Removed) PROVE RemovedIsLast(r)
  <2>1. /\ Len(r) = Len(q) + 1 /\ DOMAIN r = DOMAIN q \union {Len(q) + 1}
        /\ \A i \in DOMAIN q : r[i] = q[i]
    BY Appended, AppendProperties
  <2> QED BY <1>3, <2>1 DEF RemovedIsLast, Has
<1>4. ~Has(q, t) => Once(r, t)
  <2>1. ~Has(q, t) => Once(q, t)
    BY DEF Has, Once
  <2> QED BY <1>1, <2>1
<1> QED BY <1>1, <1>2, <1>3, <1>4 DEF Same

\* Tasks can still be posted to the thread of g.
Open(g) == t_state[g] \notin {"none", "CLOSED"} /\ ~Has(t_queue[g], Removed)

\* A step takes one of the tasks in ts from the queue of g, posts one or does neither.
Leaves(g, ts) ==
    \/ t_queue'[g] = t_queue[g]
    \/ \E t \in ts : t_queue[g] # <<>> /\ Head(t_queue[g]) = t /\ t_queue'[g] = Tail(t_queue[g])
    \/ \E t \in ts : Open(g) /\ t_queue'[g] = Append(t_queue[g], t)

MsgTasks(g) == {Task("msg", m) : m \in MsgsTo(g)}
DeleteTasks(g) == {Delete(x) : x \in ExtensionsOf(g)}

LEMMA QueueLeft ==
    ASSUME ThreadsTyped, NEW g \in Group, NEW ts, ts \subseteq ThreadTasks(g), Leaves(g, ts)
    PROVE  /\ \A u : u \notin ts => Same(t_queue[g], t_queue'[g], u)
           /\ \A a, b : Precedes(t_queue[g], a, b) /\ a \notin ts /\ b \notin ts => Precedes(t_queue'[g], a, b)
           /\ RemovedIsLast(t_queue[g]) => RemovedIsLast(t_queue'[g])
           /\ t_queue[g] = <<>> /\ t_state[g] \in {"none", "CLOSED"} => t_queue'[g] = <<>>
<1> DEFINE q == t_queue[g]
           r == t_queue'[g]
<1>1. q \in Seq(ThreadTasks(g))
  BY DEF ThreadsTyped
<1>2. \/ r = q
      \/ \E t \in ts : q # <<>> /\ Head(q) = t /\ r = Tail(q)
      \/ \E t \in ts : t_state[g] \notin {"none", "CLOSED"} /\ ~Has(q, Removed) /\ r = Append(q, t)
  BY DEF Leaves, Open
<1> HIDE DEF q, r
<1>3. CASE r = q
  BY <1>3 DEF q, r, Same
<1>4. ASSUME NEW t \in ts, q # <<>>, Head(q) = t, r = Tail(q)
      PROVE  /\ \A u : u # t => Same(q, r, u)
             /\ \A a, b : Precedes(q, a, b) /\ t # a => Precedes(r, a, b)
             /\ RemovedIsLast(q) => RemovedIsLast(r)
  <2>1. \A u : u # t => Same(q, r, u)
    <3> SUFFICES ASSUME NEW u, u # t PROVE Same(q, r, u)
      OBVIOUS
    <3> QED BY <1>1, <1>4, HasTail DEF Same
  <2>2. \A a, b : Precedes(q, a, b) /\ t # a => Precedes(r, a, b)
    <3> SUFFICES ASSUME NEW a, NEW b, Precedes(q, a, b), t # a PROVE Precedes(r, a, b)
      OBVIOUS
    <3> QED BY <1>1, <1>4, PrecedesTail
  <2>3. RemovedIsLast(q) => RemovedIsLast(r)
    BY <1>1, <1>4, TaskTakenFrom
  <2> QED BY <2>1, <2>2, <2>3
<1>5. ASSUME NEW t \in ts, t_state[g] \notin {"none", "CLOSED"}, ~Has(q, Removed), r = Append(q, t)
      PROVE  /\ \A u : u # t => Same(q, r, u)
             /\ \A a, b : Precedes(q, a, b) /\ t # b => Precedes(r, a, b)
             /\ RemovedIsLast(q) => RemovedIsLast(r)
  BY <1>1, <1>5, TaskPostedTo
<1>6. ASSUME NEW t \in ts, q # <<>>, Head(q) = t, r = Tail(q)
      PROVE  /\ \A u : u \notin ts => Same(q, r, u)
             /\ \A a, b : Precedes(q, a, b) /\ a \notin ts /\ b \notin ts => Precedes(r, a, b)
             /\ RemovedIsLast(q) => RemovedIsLast(r)
             /\ q = <<>> /\ t_state[g] \in {"none", "CLOSED"} => r = <<>>
  BY <1>4, <1>6
<1>7. ASSUME NEW t \in ts, t_state[g] \notin {"none", "CLOSED"}, ~Has(q, Removed), r = Append(q, t)
      PROVE  /\ \A u : u \notin ts => Same(q, r, u)
             /\ \A a, b : Precedes(q, a, b) /\ a \notin ts /\ b \notin ts => Precedes(r, a, b)
             /\ RemovedIsLast(q) => RemovedIsLast(r)
             /\ q = <<>> /\ t_state[g] \in {"none", "CLOSED"} => r = <<>>
  BY <1>5, <1>7
<1> QED BY <1>2, <1>3, <1>6, <1>7 DEF q, r

\* The tasks of the engine other than handle_in_msgs stay as they are.
EngineQuiet == \A t : t # HandleInMsgs => Same(e_queue, e_queue', t)

LEMMA EngineTakes ==
    ASSUME EngineQueuesTyped, NEW name, NEW arg, NEW posts \in {<<>>, <<HandleInMsgs>>},
           EngineTask(name, arg, posts)
    PROVE  /\ Has(e_queue, Task(name, arg))
           /\ \A t : t # HandleInMsgs /\ t # Task(name, arg) => Same(e_queue, e_queue', t)
           /\ Task(name, arg) # HandleInMsgs /\ Once(e_queue, Task(name, arg))
                 => ~Has(e_queue', Task(name, arg)) /\ Once(e_queue', Task(name, arg))
<1>1. posts \in Seq(EngineTasks)
  <2>1. <<>> \in Seq(EngineTasks) /\ <<HandleInMsgs>> \in Seq(EngineTasks)
    BY TaskKinds, EmptySeq
  <2> QED BY <2>1
<1>2. \A t : t # HandleInMsgs => ~Has(posts, t) /\ Once(posts, t)
  BY HasNone, HasOne
<1>3. e_queue # <<>> /\ Head(e_queue) = Task(name, arg) /\ e_queue' = Tail(e_queue) \o posts
  BY <1>1, EngineTaskTaken
<1>4. Tail(e_queue) \in Seq(EngineTasks)
  BY <1>3, Tailed DEF EngineQueuesTyped
<1> DEFINE q == e_queue
           r == Tail(e_queue)
           t0 == Task(name, arg)
<1>5. \A t : /\ Has(q, t0)
             /\ Has(r, t) => Has(q, t)
             /\ Has(q, t) /\ t0 # t => Has(r, t)
             /\ Once(q, t) => Once(r, t)
             /\ Once(q, t) /\ t0 = t => ~Has(r, t)
  BY <1>3, HasTail DEF EngineQueuesTyped
<1> HIDE DEF r, t0
<1>6. \A t : /\ Has(r \o posts, t) <=> Has(r, t) \/ Has(posts, t)
             /\ Once(r, t) /\ ~Has(posts, t) => Once(r \o posts, t)
  BY <1>1, <1>4, HasJoined DEF r
<1>7. e_queue' = r \o posts
  BY <1>3 DEF r
<1> HIDE DEF q
<1>8. /\ Has(q, t0)
      /\ \A t : t # HandleInMsgs /\ t # t0 => Same(q, r \o posts, t)
      /\ t0 # HandleInMsgs /\ Once(q, t0) => ~Has(r \o posts, t0) /\ Once(r \o posts, t0)
  BY <1>2, <1>5, <1>6 DEF Same
<1> QED BY <1>7, <1>8 DEF q, t0

LEMMA EnginePosts ==
    ASSUME EngineQueuesTyped, NEW u \in EngineTasks, e_queue' = Append(e_queue, u)
    PROVE  /\ Has(e_queue', u)
           /\ ~Has(e_queue, u) => Once(e_queue', u)
           /\ \A t : t # u => Same(e_queue, e_queue', t)
<1>1. \A t : /\ Has(e_queue', t) <=> Has(e_queue, t) \/ t = u
             /\ Once(e_queue, t) /\ (t # u \/ ~Has(e_queue, t)) => Once(e_queue', t)
  BY HasAppended DEF EngineQueuesTyped
<1>2. ~Has(e_queue, u) => Once(e_queue, u)
  BY DEF Has, Once
<1> QED BY <1>1, <1>2 DEF Same

LEMMA ComesQuiet ==
    ASSUME EngineQueuesTyped, (\E m \in Msg : Comes(m)) \/ UNCHANGED e_queue
    PROVE  EngineQuiet
<1>1. ASSUME NEW m \in Msg, Comes(m) PROVE EngineQuiet
  BY <1>1, TaskKinds, EnginePosts DEF Comes, EngineQuiet
<1>2. CASE UNCHANGED e_queue
  BY <1>2 DEF EngineQuiet, Same
<1> QED BY <1>1, <1>2

\* What is sent goes to a thread that is open.
LEMMA OpenWhenListed ==
    ASSUME Control, NEW g \in threads, g \in Group
    PROVE  Open(g)
BY DEF Control, ThreadIs, Open

LEMMA SendsLeaves ==
    ASSUME Control, NEW m \in Msg, Sends(m)
    PROVE  \A g \in Group : Leaves(g, MsgTasks(g))
<1>1. CASE UNCHANGED t_queue
  BY <1>1 DEF Leaves
<1>2. CASE /\ m.dest \in Extension /\ GroupOf[m.dest] \in threads
           /\ Posts(GroupOf[m.dest], Task("msg", m))
  <2> DEFINE h == GroupOf[m.dest]
  <2>1. h \in Group /\ m \in MsgsTo(h) /\ Open(h)
    BY <1>2, MsgsToFacts, OpenWhenListed DEF MsgsTo
  <2>2. Task("msg", m) \in MsgTasks(h)
    BY <2>1 DEF MsgTasks
  <2>3. Leaves(h, MsgTasks(h))
    BY <1>2, <2>1, <2>2 DEF Posts, Leaves
  <2>4. \A g \in Group : g # h => Leaves(g, MsgTasks(g))
    BY <1>2 DEF Posts, Leaves
  <2> QED BY <2>3, <2>4
<1> QED BY <1>1, <1>2 DEF Sends

\* The actions by which messages move, and those of the life of an extension.
Messages ==
    \/ TakeInMsgs
    \/ HandleTaken
    \/ PutBack
    \/ \E dest \in Name : FirstFromClient(dest)
    \/ \E kind \in Kinds, dest \in Name : FromRemote(kind, dest)
    \/ \E g \in Group : HandleInMsg(g)
    \/ \E x \in Extension, kind \in Kinds, dest \in Name : SendRequest(x, kind, dest)
    \/ \E x \in Extension : \E cmd \in in_paths[x] : ReturnResult(x, cmd)
    \/ UNCHANGED vars

Lifes ==
    \/ \E x \in Extension : Flush(x)
    \/ \E x \in Extension : DelExtension(x)
    \/ \E x \in Extension : OnInitDone(x)
    \/ \E x \in Extension : OnDeinit(x)
    \/ \E x \in Extension : OnDeinitDone(x)
    \/ \E x \in Extension : ProxyReleased(x)

Stages == <<extension_context, threads, is_ready, cnt_of_ready, is_closing, t_state>>

LEMMA MessagesLeave ==
    ASSUME Typed, Control, WereSent, Messages
    PROVE  /\ UNCHANGED Stages /\ UNCHANGED <<flushing, life>>
           /\ EngineQuiet
           /\ \A g \in Group : Leaves(g, MsgTasks(g))
<1>1. EngineQueuesTyped /\ EngineTyped /\ ThreadsTyped /\ ExtensionsTyped
  BY DEF Typed
<1>2. UNCHANGED e_queue => EngineQuiet
  BY <1>1, ComesQuiet
<1>3. UNCHANGED t_queue => \A g \in Group : Leaves(g, MsgTasks(g))
  BY DEF Leaves
<1>4. \A m \in Msg : Comes(m) => EngineQuiet
  BY <1>1, ComesQuiet
<1>5. ASSUME NEW x \in Extension, NEW m \in RequestsTo(x), Keeps(x, m) \/ Refuses(x, m) \/ Delivers(x, m)
      PROVE  EngineQuiet
  <2>1. ResultOf(m) \in Msg
    BY MsgFacts DEF RequestsTo
  <2> QED BY <1>2, <1>4, <1>5, <2>1 DEF Keeps, Refuses, Delivers
<1>a. CASE TakeInMsgs
  <2>1. EngineTask("handle_in_msgs", None, <<>>) /\ Task("handle_in_msgs", None) = HandleInMsgs
    BY <1>a DEF TakeInMsgs, HandleInMsgs
  <2>2. EngineQuiet
    <3>1. \A t : t # HandleInMsgs /\ t # Task("handle_in_msgs", None) => Same(e_queue, e_queue', t)
      BY <1>1, <2>1, EngineTakes
    <3> QED BY <2>1, <3>1 DEF EngineQuiet
  <2> QED BY <1>a, <1>3, <2>2 DEF TakeInMsgs, Stages, engine, thread, ext
<1>b. CASE HandleTaken
  <2> DEFINE m == Head(taken)
  <2>1. /\ m \in Msg
        /\ \/ m.kind = "cmd" /\ Sends(ResultOf(m))
           \/ Sends(m)
           \/ UNCHANGED t_queue
    BY <1>b, TakenHandled
  <2> HIDE DEF m
  <2>2. m.kind = "cmd" => ResultOf(m) \in Msg
    BY <2>1, MsgFacts
  <2>3. \A g \in Group : Leaves(g, MsgTasks(g))
    BY <1>3, <2>1, <2>2, SendsLeaves
  <2> QED BY <1>b, <1>2, <2>3 DEF HandleTaken, Stages, in_queue, thread, ext
<1>c. CASE PutBack
  BY <1>c, <1>2, <1>3 DEF PutBack, Stages, engine, thread, ext
<1>d. ASSUME NEW dest \in Name, FirstFromClient(dest)
      PROVE  /\ UNCHANGED Stages /\ UNCHANGED <<flushing, life>>
             /\ EngineQuiet
             /\ \A g \in Group : Leaves(g, MsgTasks(g))
  <2> DEFINE m == NewRequest(Client, "cmd", dest)
  <2>1. AppendToInMsgs(<<m>>)
    BY <1>d DEF FirstFromClient
  <2>2. m \in Request
    BY <1>1 DEF NewRequest, Request, ExtensionsTyped, Sender
  <2> HIDE DEF m
  <2>3. EngineQuiet
    BY <1>1, <1>4, <2>1, <2>2, MsgFacts, Came
  <2> QED BY <1>d, <1>3, <2>3 DEF FirstFromClient, Stages, engine, thread, ext
<1>e. ASSUME NEW kind \in Kinds, NEW dest \in Name, FromRemote(kind, dest)
      PROVE  /\ UNCHANGED Stages /\ UNCHANGED <<flushing, life>>
             /\ EngineQuiet
             /\ \A g \in Group : Leaves(g, MsgTasks(g))
  <2> DEFINE m == NewRequest(Client, kind, dest)
  <2>1. /\ m \in Request
        /\ Sends(ResultOf(m)) \/ Sends(m)
    BY <1>e, FromRemoteSent
  <2> HIDE DEF m
  <2>2. m \in Msg /\ ResultOf(m) \in Msg
    BY <2>1, MsgFacts
  <2>3. \A g \in Group : Leaves(g, MsgTasks(g))
    BY <2>1, <2>2, SendsLeaves
  <2> QED BY <1>e, <1>2, <2>3 DEF FromRemote, Stages, engine, in_queue, thread, ext
<1>f. ASSUME NEW g \in Group, HandleInMsg(g)
      PROVE  /\ UNCHANGED Stages /\ UNCHANGED <<flushing, life>>
             /\ EngineQuiet
             /\ \A h \in Group : Leaves(h, MsgTasks(h))
  <2>1. PICK m \in MsgsTo(g) :
               /\ Takes(g, Task("msg", m))
               /\ \/ UNCHANGED e_queue
                  \/ /\ m \in RequestsTo(m.dest)
                     /\ Keeps(m.dest, m) \/ Refuses(m.dest, m) \/ Delivers(m.dest, m)
    BY <1>f, MsgHandled
  <2>2. m.dest \in Extension
    BY DEF MsgsTo
  <2>3. EngineQuiet
    BY <1>2, <1>5, <2>1, <2>2
  <2>4. Leaves(g, MsgTasks(g))
    <3>1. Task("msg", m) \in MsgTasks(g)
      BY DEF MsgTasks
    <3> QED BY <2>1, <3>1 DEF Takes, Leaves
  <2>5. \A h \in Group : h # g => Leaves(h, MsgTasks(h))
    BY <2>1 DEF Takes, Leaves
  <2> QED BY <1>f, <2>3, <2>4, <2>5 DEF HandleInMsg, Stages, engine
<1>g. ASSUME NEW x \in Extension, NEW kind \in Kinds, NEW dest \in Name, SendRequest(x, kind, dest)
      PROVE  /\ UNCHANGED Stages /\ UNCHANGED <<flushing, life>>
             /\ EngineQuiet
             /\ \A g \in Group : Leaves(g, MsgTasks(g))
  <2> DEFINE m == NewRequest(x, kind, dest)
  <2>1. /\ m \in Request
        /\ \/ /\ dest \in Extension /\ m \in RequestsTo(dest)
              /\ Keeps(dest, m) \/ Refuses(dest, m) \/ Delivers(dest, m)
           \/ Comes(m) \/ Comes(ResultOf(m))
           \/ UNCHANGED e_queue
    BY <1>g, RequestSent
  <2> HIDE DEF m
  <2>2. m \in Msg /\ ResultOf(m) \in Msg
    BY <2>1, MsgFacts
  <2>3. EngineQuiet
    BY <1>2, <1>4, <1>5, <2>1, <2>2
  <2> QED BY <1>g, <1>3, <2>3 DEF SendRequest, Stages, engine, thread
<1>h. ASSUME NEW x \in Extension, NEW cmd \in in_paths[x], ReturnResult(x, cmd)
      PROVE  /\ UNCHANGED Stages /\ UNCHANGED <<flushing, life>>
             /\ EngineQuiet
             /\ \A g \in Group : Leaves(g, MsgTasks(g))
  <2>1. PICK m \in Result : Comes(m) \/ UNCHANGED e_queue
    BY <1>h, ResultReturned
  <2>2. EngineQuiet
    BY <1>2, <1>4, <2>1, MsgFacts
  <2> QED BY <1>h, <1>3, <2>2 DEF ReturnResult, Stages, engine, thread
<1>i. CASE UNCHANGED vars
  BY <1>i, <1>2, <1>3 DEF vars, Stages, engine, in_queue, thread, ext
<1> QED BY <1>a, <1>b, <1>c, <1>d, <1>e, <1>f, <1>g, <1>h, <1>i, Zenon DEF Messages

LEMMA LifesLeave ==
    ASSUME Typed, Control, Lifes
    PROVE  /\ UNCHANGED Stages
           /\ EngineQuiet
           /\ \A g \in Group : Leaves(g, DeleteTasks(g))
<1>1. EngineQueuesTyped /\ ThreadsTyped
  BY DEF Typed
<1>2. UNCHANGED e_queue => EngineQuiet
  BY <1>1, ComesQuiet
<1>3. UNCHANGED t_queue => \A g \in Group : Leaves(g, DeleteTasks(g))
  BY DEF Leaves
<1>4. ASSUME NEW x \in Extension, life[x] \in {"deinit", "held", "deinit_done"}
      PROVE  Open(GroupOf[x])
  <2> DEFINE g == GroupOf[x]
  <2>1. ThreadIs(g) /\ EndsEmpty(g) /\ ExtIs(x)
    BY MsgsToFacts DEF Control
  <2>2. Ends(g) /\ t_state[g] \notin {"destroyed", "CLOSED"}
    BY <1>4, <2>1 DEF ExtIs
  <2> QED BY <2>1, <2>2 DEF Open, Ends, ThreadIs
<1>5. ASSUME NEW x \in Extension, life[x] \in {"deinit", "held", "deinit_done"},
             Posts(GroupOf[x], Delete(x)) \/ UNCHANGED t_queue
      PROVE  \A g \in Group : Leaves(g, DeleteTasks(g))
  <2> DEFINE g == GroupOf[x]
  <2>1. g \in Group /\ Delete(x) \in DeleteTasks(g) /\ Open(g)
    BY <1>4, <1>5, MsgsToFacts DEF DeleteTasks
  <2>2. CASE Posts(g, Delete(x))
    <3>1. Leaves(g, DeleteTasks(g))
      BY <2>1, <2>2 DEF Posts, Leaves
    <3>2. \A h \in Group : h # g => Leaves(h, DeleteTasks(h))
      BY <2>2 DEF Posts, Leaves
    <3> QED BY <3>1, <3>2
  <2> QED BY <1>3, <1>5, <2>2
<1>a. ASSUME NEW x \in Extension, Flush(x)
      PROVE  UNCHANGED Stages /\ EngineQuiet /\ \A g \in Group : Leaves(g, DeleteTasks(g))
  <2>1. PICK m \in RequestsTo(x) :
               \/ UNCHANGED <<e_queue, t_queue>>
               \/ /\ life[x] = "deinit_done"
                  /\ Comes(ResultOf(m)) \/ UNCHANGED e_queue
                  /\ Posts(GroupOf[x], Delete(x)) \/ UNCHANGED t_queue
    BY <1>a, Flushed
  <2>2. ResultOf(m) \in Msg
    BY MsgFacts DEF RequestsTo
  <2>3. EngineQuiet
    BY <1>1, <1>2, <2>1, <2>2, ComesQuiet
  <2>4. \A g \in Group : Leaves(g, DeleteTasks(g))
    BY <1>3, <1>5, <2>1
  <2> QED BY <1>a, <2>3, <2>4 DEF Flush, Stages, engine
<1>b. ASSUME NEW x \in Extension, DelExtension(x)
      PROVE  UNCHANGED Stages /\ EngineQuiet /\ \A g \in Group : Leaves(g, DeleteTasks(g))
  <2> DEFINE g == GroupOf[x]
  <2>1. g \in Group /\ Delete(x) \in DeleteTasks(g)
    BY MsgsToFacts DEF DeleteTasks
  <2>2. Takes(g, Delete(x))
    BY <1>b, <1>1, <2>1, TaskTaken DEF DelExtension, Delete
  <2>3. Leaves(g, DeleteTasks(g))
    BY <2>1, <2>2 DEF Takes, Leaves
  <2>4. \A h \in Group : h # g => Leaves(h, DeleteTasks(h))
    BY <2>2 DEF Takes, Leaves
  <2> QED BY <1>b, <1>2, <2>3, <2>4 DEF DelExtension, Stages, engine, in_queue, thread
<1>c. ASSUME NEW x \in Extension, OnInitDone(x)
      PROVE  UNCHANGED Stages /\ EngineQuiet /\ \A g \in Group : Leaves(g, DeleteTasks(g))
  BY <1>c, <1>2, <1>3 DEF OnInitDone, Stages, engine, in_queue
<1>d. ASSUME NEW x \in Extension, OnDeinit(x)
      PROVE  UNCHANGED Stages /\ EngineQuiet /\ \A g \in Group : Leaves(g, DeleteTasks(g))
  BY <1>d, <1>2, <1>3 DEF OnDeinit, Stages, engine, in_queue, thread
<1>e. ASSUME NEW x \in Extension, OnDeinitDone(x)
      PROVE  UNCHANGED Stages /\ EngineQuiet /\ \A g \in Group : Leaves(g, DeleteTasks(g))
  <2>1. life[x] = "deinit" /\ (Leave(x) \/ UNCHANGED t_queue)
    BY <1>e DEF OnDeinitDone
  <2>2. Posts(GroupOf[x], Delete(x)) \/ UNCHANGED t_queue
    BY <2>1, Left
  <2>3. \A g \in Group : Leaves(g, DeleteTasks(g))
    BY <1>5, <2>1, <2>2
  <2> QED BY <1>e, <1>2, <2>3 DEF OnDeinitDone, Stages, engine, in_queue
<1>f. ASSUME NEW x \in Extension, ProxyReleased(x)
      PROVE  UNCHANGED Stages /\ EngineQuiet /\ \A g \in Group : Leaves(g, DeleteTasks(g))
  <2>1. life[x] = "held" /\ Leave(x)
    BY <1>f DEF ProxyReleased
  <2>2. Posts(GroupOf[x], Delete(x)) \/ UNCHANGED t_queue
    BY <2>1, Left
  <2>3. \A g \in Group : Leaves(g, DeleteTasks(g))
    BY <1>5, <2>1, <2>2
  <2> QED BY <1>f, <1>2, <2>3 DEF ProxyReleased, Stages, engine, in_queue
<1> QED BY <1>a, <1>b, <1>c, <1>d, <1>e, <1>f, Zenon DEF Lifes

\* Neither changes how far a thread has come.
LEMMA ThreadQuiet ==
    ASSUME Typed, Control, UNCHANGED Stages, EngineQuiet, NEW g \in Group,
           Leaves(g, MsgTasks(g)) \/ Leaves(g, DeleteTasks(g))
    PROVE  ThreadIs(g)' /\ EndsEmpty(g)'
<1>1. ThreadsTyped /\ ThreadIs(g) /\ EndsEmpty(g)
  BY DEF Typed, Control
<1>2. PICK ts : Leaves(g, ts) /\ (ts = MsgTasks(g) \/ ts = DeleteTasks(g))
  OBVIOUS
<1>3. ts \subseteq ThreadTasks(g)
  BY <1>2 DEF MsgTasks, DeleteTasks, ThreadTasks, Delete
<1>4. StartLife \notin ts /\ ToClose \notin ts /\ Removed \notin ts
  <2>1. \A t \in MsgTasks(g) : t[1] = "msg"
    BY TaskNames DEF MsgTasks
  <2>2. \A t \in DeleteTasks(g) : t[1] = "del_extension"
    BY TaskNames DEF DeleteTasks
  <2> QED BY <1>2, <2>1, <2>2, TaskNames
<1>5. /\ \A u : u \notin ts => Same(t_queue[g], t_queue'[g], u)
      /\ \A a, b : Precedes(t_queue[g], a, b) /\ a \notin ts /\ b \notin ts => Precedes(t_queue'[g], a, b)
      /\ RemovedIsLast(t_queue[g]) => RemovedIsLast(t_queue'[g])
      /\ t_queue[g] = <<>> /\ t_state[g] \in {"none", "CLOSED"} => t_queue'[g] = <<>>
  BY <1>1, <1>2, <1>3, QueueLeft
<1>6. /\ Same(t_queue[g], t_queue'[g], StartLife)
      /\ Same(t_queue[g], t_queue'[g], ToClose)
      /\ Same(t_queue[g], t_queue'[g], Removed)
      /\ Precedes(t_queue[g], StartLife, ToClose) => Precedes(t_queue'[g], StartLife, ToClose)
  BY <1>4, <1>5
<1>7. Same(e_queue, e_queue', FindInfo(g)) /\ Same(e_queue, e_queue', Remove(g))
  BY TaskNames DEF EngineQuiet
<1>8. ThreadIs(g)'
  BY <1>1, <1>6, <1>7 DEF ThreadIs, Same, Stages, Ends
<1>9. EndsEmpty(g)'
  BY <1>1, <1>5 DEF EndsEmpty, RemovedIsLast, Stages
<1> QED BY <1>8, <1>9

\* A thread that a step is not about stays as it is.
LEMMA ThreadFrame ==
    ASSUME NEW g \in Group, ThreadIs(g), EndsEmpty(g),
           UNCHANGED <<extension_context, is_closing>>, g \in threads' <=> g \in threads,
           t_state'[g] = t_state[g], t_queue'[g] = t_queue[g],
           Same(e_queue, e_queue', FindInfo(g)), Same(e_queue, e_queue', Remove(g))
    PROVE  ThreadIs(g)' /\ EndsEmpty(g)'
<1>1. ThreadIs(g)'
  BY DEF ThreadIs, Same, Ends
<1>2. EndsEmpty(g)'
  BY DEF EndsEmpty
<1> QED BY <1>1, <1>2

LEMMA TaskNamesDiffer ==
    /\ StartLife # ToClose /\ StartLife # Removed /\ ToClose # Removed
    /\ \A g, h : /\ FindInfo(g) # Remove(h) /\ FindInfo(g) # HandleInMsgs /\ Remove(g) # HandleInMsgs
                 /\ g # h => FindInfo(g) # FindInfo(h) /\ Remove(g) # Remove(h)
    /\ \A x, y : /\ Delete(x) # StartLife /\ Delete(x) # ToClose /\ Delete(x) # Removed
                 /\ x # y => Delete(x) # Delete(y)
    /\ \A x, m : Task("msg", m) # Delete(x)
<1>1. StartLife # ToClose /\ StartLife # Removed /\ ToClose # Removed
  BY TaskNames
<1>2. ASSUME NEW g, NEW h
      PROVE  /\ FindInfo(g) # Remove(h) /\ FindInfo(g) # HandleInMsgs /\ Remove(g) # HandleInMsgs
             /\ g # h => FindInfo(g) # FindInfo(h) /\ Remove(g) # Remove(h)
  BY TaskNames
<1>3. ASSUME NEW x, NEW y
      PROVE  /\ Delete(x) # StartLife /\ Delete(x) # ToClose /\ Delete(x) # Removed
             /\ x # y => Delete(x) # Delete(y)
  BY TaskNames
<1>4. ASSUME NEW x, NEW m PROVE Task("msg", m) # Delete(x)
  BY TaskNames
<1> QED BY <1>1, <1>2, <1>3, <1>4

LEMMA ControlInit == Init => Control
<1> SUFFICES ASSUME Init PROVE Control
  OBVIOUS
<1>1. e_queue = <<>> /\ \A g \in Group : t_queue[g] = <<>>
  BY DEF Init
<1>2. \A t : ~Has(<<>>, t) /\ Once(<<>>, t)
  BY HasNone
<1>3. ASSUME NEW g \in Group PROVE ThreadIs(g) /\ EndsEmpty(g)
  <2>1. t_state[g] = "none" /\ ~extension_context /\ threads = {} /\ ~is_closing
    BY DEF Init
  <2>2. ThreadIs(g)
    BY <1>1, <1>2, <2>1 DEF ThreadIs, Ends
  <2>3. EndsEmpty(g)
    BY <1>1 DEF EndsEmpty
  <2> QED BY <2>2, <2>3
<1>4. ASSUME NEW x \in Extension PROVE ExtIs(x)
  <2>1. GroupOf[x] \in Group /\ x # None /\ x \in Sender
    BY MsgsToFacts
  <2>2. /\ t_state[GroupOf[x]] = "none" /\ life[x] = "INIT" /\ flushing[GroupOf[x]] = None
        /\ out_paths[x] = {} /\ pending[x] = <<>> /\ sent[x] = 0
    BY <2>1 DEF Init
  <2> QED BY <1>1, <1>2, <2>1, <2>2 DEF ExtIs, Begins
<1>5. ReadyIs
  <2>1. Reported = {}
    BY DEF Init, Reported
  <2>2. Cardinality(Reported) = 0
    BY <2>1, FS_EmptySet
  <2> QED BY <2>2 DEF Init, ReadyIs
<1> QED BY <1>3, <1>4, <1>5 DEF Control

\* While a thread has not reported the engine is not ready, so that nothing closes.
LEMMA NotYetClosing ==
    ASSUME Control, NEW g \in Group, Has(e_queue, FindInfo(g)) \/ t_state[g] \in {"none", "CREATING_EXTENSIONS"}
    PROVE  ~is_ready /\ ~is_closing
BY DEF Control, ReadyIs, Reported

LEMMA ThreadsStep ==
    ASSUME Typed, Control, WereSent, [Next]_vars, NEW h \in Group
    PROVE  ThreadIs(h)' /\ EndsEmpty(h)'
<1>1. EngineQueuesTyped /\ ThreadsTyped /\ ThreadIs(h) /\ EndsEmpty(h)
  BY DEF Typed, Control
<1>2. \A g \in Group : g # h => FindInfo(g) # FindInfo(h) /\ Remove(g) # Remove(h)
  BY TaskNamesDiffer
<1>3. t_queue[h] \in Seq(ThreadTasks(h)) /\ t_state \in [Group -> ThreadStates]
  BY <1>1 DEF ThreadsTyped
<1>4. UNCHANGED e_queue => \A t : Same(e_queue, e_queue', t)
  BY DEF Same
<1>a. CASE EnableExtensionSystem
  <2>1. /\ ~extension_context /\ extension_context' /\ h \in threads' /\ t_state'[h] = "CREATING_EXTENSIONS"
        /\ UNCHANGED <<is_closing, e_queue, t_queue>>
    BY <1>a DEF EnableExtensionSystem, in_queue
  <2>2. t_state[h] = "none" /\ t_queue[h] = <<>>
    BY <1>1, <2>1 DEF ThreadIs, EndsEmpty
  <2>3. ThreadIs(h)'
    BY <1>1, <2>1, <2>2, HasNone DEF ThreadIs, Ends
  <2> QED BY <1>1, <2>1, <2>2, <2>3 DEF EndsEmpty
<1>b. ASSUME NEW g \in Group, FindExtensionInfo(g) PROVE ThreadIs(h)' /\ EndsEmpty(h)'
  <2> DEFINE posts == IF cnt_of_ready + 1 = Cardinality(threads) THEN <<HandleInMsgs>> ELSE <<>>
  <2>1. posts \in {<<>>, <<HandleInMsgs>>} /\ EngineTask("find_info", g, posts)
    BY <1>b DEF FindExtensionInfo
  <2> HIDE DEF posts
  <2>2. /\ Has(e_queue, FindInfo(g))
        /\ \A t : t # HandleInMsgs /\ t # FindInfo(g) => Same(e_queue, e_queue', t)
        /\ Once(e_queue, FindInfo(g)) => ~Has(e_queue', FindInfo(g)) /\ Once(e_queue', FindInfo(g))
    BY <1>1, <2>1, EngineTakes, TaskNamesDiffer DEF FindInfo
  <2>3. Posts(g, StartLife)
    <3>1. StartLife \in ThreadTasks(g)
      BY TaskKinds
    <3> QED BY <1>b, <1>1, <3>1, Posted DEF FindExtensionInfo, StartLife
  <2>4. UNCHANGED <<extension_context, is_closing, threads, t_state>>
    BY <1>b DEF FindExtensionInfo, thread
  <2>5. Same(e_queue, e_queue', Remove(h))
    BY <2>2, TaskNamesDiffer
  <2>6. CASE g # h
    <3>1. Same(e_queue, e_queue', FindInfo(h)) /\ t_queue'[h] = t_queue[h]
      BY <1>2, <2>2, <2>3, <2>6, TaskNamesDiffer DEF Posts
    <3> QED BY <1>1, <2>4, <2>5, <3>1, ThreadFrame
  <2>7. CASE g = h
    <3>1. t_state[h] = "created" /\ ~Has(t_queue[h], StartLife) /\ ~Has(t_queue[h], Removed) /\ ~is_closing
          /\ ~Has(e_queue', FindInfo(h)) /\ Once(e_queue', FindInfo(h))
      BY <1>1, <2>2, <2>7, NotYetClosing DEF ThreadIs
    <3>2. ~Has(t_queue[h], ToClose)
      BY <1>1, <3>1 DEF ThreadIs
    <3>3. t_queue'[h] = Append(t_queue[h], StartLife) /\ StartLife \in ThreadTasks(h)
      BY <2>3, <2>7, TaskKinds DEF Posts
    <3>4. /\ Has(t_queue'[h], StartLife) /\ Once(t_queue'[h], StartLife)
          /\ Same(t_queue[h], t_queue'[h], ToClose) /\ Same(t_queue[h], t_queue'[h], Removed)
          /\ RemovedIsLast(t_queue[h]) => RemovedIsLast(t_queue'[h])
      BY <1>3, <3>1, <3>3, TaskPostedTo, TaskNamesDiffer
    <3>5. Precedes(t_queue'[h], StartLife, ToClose)
      BY <3>2, <3>4 DEF Same, Has, Precedes
    <3>6. ThreadIs(h)'
      BY <1>1, <2>4, <2>5, <3>1, <3>4, <3>5 DEF ThreadIs, Same, Ends
    <3> QED BY <1>1, <2>4, <3>1, <3>4, <3>6 DEF EndsEmpty, RemovedIsLast
  <2> QED BY <2>6, <2>7
<1>c. ASSUME NEW g \in Group, RemoveThread(g) PROVE ThreadIs(h)' /\ EndsEmpty(h)'
  <2>1. EngineTask("remove", g, <<>>)
    BY <1>c DEF RemoveThread
  <2>2. /\ Has(e_queue, Remove(g))
        /\ \A t : t # HandleInMsgs /\ t # Remove(g) => Same(e_queue, e_queue', t)
        /\ Once(e_queue, Remove(g)) => ~Has(e_queue', Remove(g)) /\ Once(e_queue', Remove(g))
    BY <1>1, <2>1, EngineTakes, TaskNamesDiffer DEF Remove
  <2>3. Posts(g, Removed)
    <3>1. Removed \in ThreadTasks(g)
      BY TaskKinds
    <3> QED BY <1>c, <1>1, <3>1, Posted DEF RemoveThread, Removed
  <2>4. UNCHANGED <<extension_context, is_closing, t_state>> /\ threads' = threads \ {g}
    BY <1>c DEF RemoveThread, thread
  <2>5. Same(e_queue, e_queue', FindInfo(h))
    BY <2>2, TaskNamesDiffer
  <2>6. CASE g # h
    <3>1. Same(e_queue, e_queue', Remove(h)) /\ t_queue'[h] = t_queue[h]
      BY <1>2, <2>2, <2>3, <2>6, TaskNamesDiffer DEF Posts
    <3> QED BY <1>1, <2>4, <2>5, <2>6, <3>1, ThreadFrame
  <2>7. CASE g = h
    <3>1. t_state[h] = "destroyed" /\ h \in threads /\ ~Has(t_queue[h], Removed)
          /\ ~Has(e_queue', Remove(h)) /\ Once(e_queue', Remove(h))
      BY <1>1, <2>2, <2>7 DEF ThreadIs
    <3>3. t_queue'[h] = Append(t_queue[h], Removed) /\ Removed \in ThreadTasks(h)
      BY <2>3, <2>7, TaskKinds DEF Posts
    <3>4. /\ Has(t_queue'[h], Removed) /\ Once(t_queue'[h], Removed)
          /\ Same(t_queue[h], t_queue'[h], ToClose) /\ Same(t_queue[h], t_queue'[h], StartLife)
          /\ RemovedIsLast(t_queue[h]) => RemovedIsLast(t_queue'[h])
      BY <1>3, <3>1, <3>3, TaskPostedTo, TaskNamesDiffer
    <3>6. ThreadIs(h)'
      BY <1>1, <2>4, <2>5, <2>7, <3>1, <3>4 DEF ThreadIs, Same, Ends
    <3> QED BY <1>1, <2>4, <3>1, <3>4, <3>6 DEF EndsEmpty, RemovedIsLast
  <2> QED BY <2>6, <2>7
<1>d. CASE CloseEngine
  <2>1. /\ is_ready /\ ~is_closing /\ is_closing'
        /\ t_queue'[h] = Append(t_queue[h], ToClose) /\ ToClose \in ThreadTasks(h)
        /\ UNCHANGED <<extension_context, threads, t_state, e_queue>>
    BY <1>d, TaskKinds DEF CloseEngine, ToClose, in_queue, thread
  <2>2. ~Has(e_queue, FindInfo(h)) /\ t_state[h] \notin {"none", "CREATING_EXTENSIONS"}
    BY <2>1, NotYetClosing
  <2>3. ~Ends(h) /\ t_state[h] \in {"created", "NORMAL"} /\ ~Has(t_queue[h], ToClose)
    <3>1. ~Ends(h) /\ ~Has(t_queue[h], ToClose)
      BY <1>1, <2>1 DEF ThreadIs
    <3> QED BY <1>3, <2>2, <3>1 DEF Ends, ThreadStates
  <2>4. ~Has(t_queue[h], Removed) /\ (t_state[h] = "created" => Has(t_queue[h], StartLife))
    BY <1>1, <2>2, <2>3 DEF ThreadIs
  <2>5. /\ Has(t_queue'[h], ToClose) /\ Once(t_queue'[h], ToClose)
        /\ Same(t_queue[h], t_queue'[h], StartLife) /\ Same(t_queue[h], t_queue'[h], Removed)
        /\ RemovedIsLast(t_queue[h]) => RemovedIsLast(t_queue'[h])
    BY <1>3, <2>1, <2>3, <2>4, TaskPostedTo, TaskNamesDiffer
  <2>6. t_state[h] = "created" => Precedes(t_queue'[h], StartLife, ToClose)
    <3>1. Precedes(t_queue[h], StartLife, ToClose) /\ Has(t_queue[h], StartLife)
              => Precedes(t_queue'[h], StartLife, ToClose)
      BY <1>3, <2>1, TaskPostedTo
    <3> QED BY <1>1, <2>4, <3>1 DEF ThreadIs
  <2>7. ThreadIs(h)'
    BY <1>1, <2>1, <2>3, <2>5, <2>6 DEF ThreadIs, Same, Ends
  <2> QED BY <1>1, <2>1, <2>3, <2>4, <2>5, <2>7 DEF EndsEmpty, RemovedIsLast
<1>e. ASSUME NEW g \in Group, AddAllCreatedExtensions(g) PROVE ThreadIs(h)' /\ EndsEmpty(h)'
  <2>1. /\ t_state[g] = "CREATING_EXTENSIONS" /\ t_state' = [t_state EXCEPT ![g] = "created"]
        /\ e_queue' = Append(e_queue, FindInfo(g))
        /\ UNCHANGED <<extension_context, is_closing, threads, t_queue>>
    BY <1>e DEF AddAllCreatedExtensions, FindInfo, engine
  <2>2. /\ Has(e_queue', FindInfo(g))
        /\ ~Has(e_queue, FindInfo(g)) => Once(e_queue', FindInfo(g))
        /\ \A t : t # FindInfo(g) => Same(e_queue, e_queue', t)
    BY <1>1, <2>1, TaskKinds, EnginePosts
  <2>3. Same(e_queue, e_queue', Remove(h))
    BY <2>2, TaskNamesDiffer
  <2>4. CASE g # h
    <3>1. Same(e_queue, e_queue', FindInfo(h)) /\ t_state'[h] = t_state[h]
      BY <1>2, <1>3, <2>1, <2>2, <2>4
    <3> QED BY <1>1, <2>1, <2>3, <3>1, ThreadFrame
  <2>5. CASE g = h
    <3>1. t_state'[h] = "created" /\ t_state[h] = "CREATING_EXTENSIONS"
      BY <1>3, <2>1, <2>5
    <3>2. ~is_closing
      BY <3>1, NotYetClosing
    <3>3. Precedes(t_queue[h], StartLife, ToClose)
      BY <1>1, <3>1, <3>2 DEF ThreadIs, Has, Precedes
    <3>4. ~Has(e_queue, FindInfo(h)) /\ Once(e_queue', FindInfo(h)) /\ Has(e_queue', FindInfo(h))
      BY <1>1, <2>2, <2>5, <3>1 DEF ThreadIs
    <3>5. ThreadIs(h)'
      BY <1>1, <2>1, <2>3, <3>1, <3>2, <3>3, <3>4 DEF ThreadIs, Same, Ends
    <3> QED BY <1>1, <2>1, <3>1, <3>5 DEF EndsEmpty
  <2> QED BY <2>4, <2>5
<1>f. ASSUME NEW g \in Group, StartLifeCycle(g) PROVE ThreadIs(h)' /\ EndsEmpty(h)'
  <2>1. /\ Takes(g, StartLife) /\ t_state' = [t_state EXCEPT ![g] = "NORMAL"]
        /\ UNCHANGED <<extension_context, is_closing, threads, e_queue>>
    BY <1>f, <1>1, TaskTaken DEF StartLifeCycle, StartLife, engine, in_queue
  <2>2. Same(e_queue, e_queue', Remove(h)) /\ Same(e_queue, e_queue', FindInfo(h))
    BY <1>4, <2>1
  <2>3. CASE g # h
    <3>1. t_queue'[h] = t_queue[h] /\ t_state'[h] = t_state[h]
      BY <1>3, <2>1, <2>3 DEF Takes
    <3> QED BY <1>1, <2>1, <2>2, <3>1, ThreadFrame
  <2>4. CASE g = h
    <3>1. t_state'[h] = "NORMAL" /\ t_queue[h] # <<>> /\ Head(t_queue[h]) = StartLife /\ t_queue'[h] = Tail(t_queue[h])
      BY <1>3, <2>1, <2>4 DEF Takes
    <3>2. /\ Has(t_queue[h], StartLife)
          /\ Once(t_queue[h], StartLife) => ~Has(t_queue'[h], StartLife) /\ Once(t_queue'[h], StartLife)
          /\ Same(t_queue[h], t_queue'[h], ToClose) /\ Same(t_queue[h], t_queue'[h], Removed)
          /\ RemovedIsLast(t_queue[h]) => RemovedIsLast(t_queue'[h])
      <4>1. /\ Has(t_queue[h], StartLife)
            /\ Once(t_queue[h], StartLife) => ~Has(t_queue'[h], StartLife) /\ Once(t_queue'[h], StartLife)
            /\ RemovedIsLast(t_queue[h]) => RemovedIsLast(t_queue'[h])
        BY <1>3, <3>1, TaskTakenFrom
      <4>2. \A u : u # StartLife => Same(t_queue[h], t_queue'[h], u)
        BY <1>3, <3>1, HasTail DEF Same
      <4> QED BY <4>1, <4>2, TaskNamesDiffer
    <3>3. t_state[h] = "created"
      BY <1>1, <3>2 DEF ThreadIs
    <3>4. ThreadIs(h)'
      BY <1>1, <2>1, <2>2, <3>1, <3>2, <3>3 DEF ThreadIs, Same, Ends
    <3> QED BY <1>1, <3>1, <3>2, <3>3, <3>4 DEF EndsEmpty, RemovedIsLast
  <2> QED BY <2>3, <2>4
<1>g. ASSUME NEW g \in Group, TriggerClose(g) PROVE ThreadIs(h)' /\ EndsEmpty(h)'
  <2>1. /\ Takes(g, ToClose) /\ t_state' = [t_state EXCEPT ![g] = "PREPARE_TO_CLOSE"]
        /\ UNCHANGED <<extension_context, is_closing, threads, e_queue>>
    BY <1>g, <1>1, TaskTaken DEF TriggerClose, ToClose, engine, in_queue
  <2>2. Same(e_queue, e_queue', Remove(h)) /\ Same(e_queue, e_queue', FindInfo(h))
    BY <1>4, <2>1
  <2>3. CASE g # h
    <3>1. t_queue'[h] = t_queue[h] /\ t_state'[h] = t_state[h]
      BY <1>3, <2>1, <2>3 DEF Takes
    <3> QED BY <1>1, <2>1, <2>2, <3>1, ThreadFrame
  <2>4. CASE g = h
    <3>1. t_state'[h] = "PREPARE_TO_CLOSE" /\ t_queue[h] # <<>> /\ Head(t_queue[h]) = ToClose
          /\ t_queue'[h] = Tail(t_queue[h])
      BY <1>3, <2>1, <2>4 DEF Takes
    <3>2. /\ Has(t_queue[h], ToClose)
          /\ Once(t_queue[h], ToClose) => ~Has(t_queue'[h], ToClose) /\ Once(t_queue'[h], ToClose)
          /\ Same(t_queue[h], t_queue'[h], StartLife) /\ Same(t_queue[h], t_queue'[h], Removed)
          /\ RemovedIsLast(t_queue[h]) => RemovedIsLast(t_queue'[h])
      <4>1. /\ Has(t_queue[h], ToClose)
            /\ Once(t_queue[h], ToClose) => ~Has(t_queue'[h], ToClose) /\ Once(t_queue'[h], ToClose)
            /\ RemovedIsLast(t_queue[h]) => RemovedIsLast(t_queue'[h])
        BY <1>3, <3>1, TaskTakenFrom
      <4>2. \A u : u # ToClose => Same(t_queue[h], t_queue'[h], u)
        BY <1>3, <3>1, HasTail DEF Same
      <4> QED BY <4>1, <4>2, TaskNamesDiffer
    <3>3. is_closing /\ t_state[h] \in {"created", "NORMAL"}
      BY <1>1, <3>2 DEF ThreadIs
    <3>4. t_state[h] = "NORMAL"
      <4>1. Precedes(t_queue[h], StartLife, ToClose) => Head(t_queue[h]) # ToClose
        BY <1>3, <3>1, PrecedesTail
      <4> QED BY <1>1, <3>1, <3>3, <4>1 DEF ThreadIs
    <3>5. ThreadIs(h)'
      BY <1>1, <2>1, <2>2, <3>1, <3>2, <3>3, <3>4 DEF ThreadIs, Same, Ends
    <3> QED BY <1>1, <3>1, <3>2, <3>4, <3>5 DEF EndsEmpty, RemovedIsLast
  <2> QED BY <2>3, <2>4
<1>h. ASSUME NEW g \in Group, OnGroupDeinitDone(g) PROVE ThreadIs(h)' /\ EndsEmpty(h)'
  <2>1. /\ t_state[g] = "PREPARE_TO_CLOSE" /\ t_state' = [t_state EXCEPT ![g] = "destroyed"]
        /\ e_queue' = Append(e_queue, Remove(g))
        /\ UNCHANGED <<extension_context, is_closing, threads, t_queue>>
    BY <1>h DEF OnGroupDeinitDone, Remove, engine
  <2>2. /\ Has(e_queue', Remove(g))
        /\ ~Has(e_queue, Remove(g)) => Once(e_queue', Remove(g))
        /\ \A t : t # Remove(g) => Same(e_queue, e_queue', t)
    BY <1>1, <2>1, TaskKinds, EnginePosts
  <2>3. Same(e_queue, e_queue', FindInfo(h))
    BY <2>2, TaskNamesDiffer
  <2>4. CASE g # h
    <3>1. Same(e_queue, e_queue', Remove(h)) /\ t_state'[h] = t_state[h]
      BY <1>2, <1>3, <2>1, <2>2, <2>4
    <3> QED BY <1>1, <2>1, <2>3, <3>1, ThreadFrame
  <2>5. CASE g = h
    <3>1. t_state'[h] = "destroyed" /\ t_state[h] = "PREPARE_TO_CLOSE"
      BY <1>3, <2>1, <2>5
    <3>2. ~Has(e_queue, Remove(h)) /\ Once(e_queue', Remove(h)) /\ Has(e_queue', Remove(h))
      BY <1>1, <2>2, <2>5, <3>1 DEF ThreadIs
    <3>3. ThreadIs(h)'
      BY <1>1, <2>1, <2>3, <3>1, <3>2 DEF ThreadIs, Same, Ends
    <3> QED BY <1>1, <2>1, <3>1, <3>3 DEF EndsEmpty
  <2> QED BY <2>4, <2>5
<1>i. ASSUME NEW g \in Group, RemovedFromEngine(g) PROVE ThreadIs(h)' /\ EndsEmpty(h)'
  <2>1. /\ Takes(g, Removed) /\ t_state' = [t_state EXCEPT ![g] = "CLOSED"]
        /\ UNCHANGED <<extension_context, is_closing, threads, e_queue>>
    BY <1>i, <1>1, TaskTaken DEF RemovedFromEngine, Removed, engine, in_queue
  <2>2. Same(e_queue, e_queue', Remove(h)) /\ Same(e_queue, e_queue', FindInfo(h))
    BY <1>4, <2>1
  <2>3. CASE g # h
    <3>1. t_queue'[h] = t_queue[h] /\ t_state'[h] = t_state[h]
      BY <1>3, <2>1, <2>3 DEF Takes
    <3> QED BY <1>1, <2>1, <2>2, <3>1, ThreadFrame
  <2>4. CASE g = h
    <3>1. t_state'[h] = "CLOSED" /\ t_queue[h] # <<>> /\ Head(t_queue[h]) = Removed /\ t_queue'[h] = Tail(t_queue[h])
      BY <1>3, <2>1, <2>4 DEF Takes
    <3>2. /\ Has(t_queue[h], Removed)
          /\ Once(t_queue[h], Removed) => ~Has(t_queue'[h], Removed) /\ Once(t_queue'[h], Removed)
          /\ Same(t_queue[h], t_queue'[h], StartLife) /\ Same(t_queue[h], t_queue'[h], ToClose)
          /\ RemovedIsLast(t_queue[h]) => t_queue'[h] = <<>>
      <4>1. /\ Has(t_queue[h], Removed)
            /\ Once(t_queue[h], Removed) => ~Has(t_queue'[h], Removed) /\ Once(t_queue'[h], Removed)
            /\ RemovedIsLast(t_queue[h]) => t_queue'[h] = <<>>
        BY <1>3, <3>1, TaskTakenFrom
      <4>2. \A u : u # Removed => Same(t_queue[h], t_queue'[h], u)
        BY <1>3, <3>1, HasTail DEF Same
      <4> QED BY <4>1, <4>2, TaskNamesDiffer
    <3>3. t_state[h] = "destroyed" /\ h \notin threads
      BY <1>1, <3>2 DEF ThreadIs
    <3>4. ThreadIs(h)'
      BY <1>1, <2>1, <2>2, <3>1, <3>2, <3>3 DEF ThreadIs, Same, Ends
    <3>5. t_queue'[h] = <<>>
      BY <1>1, <3>2 DEF EndsEmpty, RemovedIsLast
    <3> QED BY <3>4, <3>5 DEF EndsEmpty
  <2> QED BY <2>3, <2>4
<1>j. CASE Messages
  BY <1>j, MessagesLeave, ThreadQuiet
<1>k. CASE Lifes
  BY <1>k, LifesLeave, ThreadQuiet
<1>l. Messages \/ Lifes \/ EnableExtensionSystem \/ CloseEngine
      \/ \E g \in Group : \/ FindExtensionInfo(g) \/ RemoveThread(g) \/ AddAllCreatedExtensions(g)
                          \/ StartLifeCycle(g) \/ TriggerClose(g) \/ OnGroupDeinitDone(g) \/ RemovedFromEngine(g)
  BY Steps, Zenon DEF Messages, Lifes
<1> QED BY <1>a, <1>b, <1>c, <1>d, <1>e, <1>f, <1>g, <1>h, <1>i, <1>j, <1>k, <1>l, Zenon

-----------------------------------------------------------------------------
(* When the engine is ready.                                               *)

LEMMA ReadyFrame ==
    ASSUME ReadyIs, Reported' = Reported, extension_context' = extension_context,
           cnt_of_ready' = cnt_of_ready, is_ready' = is_ready,
           is_closing' = is_closing \/ is_ready, put_back' # <<>> => ~is_ready
    PROVE  ReadyIs'
BY DEF ReadyIs

\* What is put back is put back because the engine is not ready.
LEMMA MessagesPutBack ==
    ASSUME Control, Messages
    PROVE  put_back' # <<>> => ~is_ready
<1>1. put_back # <<>> => ~is_ready
  BY DEF Control, ReadyIs
<1>2. HandleTaken => UNCHANGED put_back \/ ~is_ready
  BY DEF HandleTaken
<1>3. PutBack => put_back' = <<>>
  BY DEF PutBack
<1>4. ~HandleTaken /\ ~PutBack => UNCHANGED put_back
  BY DEF Messages, TakeInMsgs, FirstFromClient, FromRemote, HandleInMsg, SendRequest, ReturnResult,
         batch, vars
<1> QED BY <1>1, <1>2, <1>3, <1>4

LEMMA ReadyStep ==
    ASSUME Typed, Control, WereSent, [Next]_vars
    PROVE  ReadyIs'
<1>1. EngineQueuesTyped /\ ThreadsTyped /\ ReadyIs /\ \A h \in Group : ThreadIs(h)
  BY DEF Typed, Control
<1>2. t_state \in [Group -> ThreadStates] /\ IsFiniteSet(Group)
  BY <1>1, CmdRoutingAssumption DEF ThreadsTyped
<1>3. ASSUME \A h \in Group : Same(e_queue, e_queue', FindInfo(h)),
             \A h \in Group : t_state'[h] \in {"none", "CREATING_EXTENSIONS"} <=> t_state[h] \in {"none", "CREATING_EXTENSIONS"}
      PROVE  Reported' = Reported
  BY <1>3 DEF Reported, Same
<1>4. \A g, h \in Group : Remove(g) # FindInfo(h)
  BY TaskNamesDiffer
<1>5. put_back # <<>> => ~is_ready
  BY <1>1 DEF ReadyIs
<1>6. UNCHANGED e_queue => \A t : Same(e_queue, e_queue', t)
  BY DEF Same
<1>a. CASE EnableExtensionSystem
  <2>1. UNCHANGED <<e_queue, cnt_of_ready, is_ready, is_closing, put_back>>
        /\ ~extension_context /\ \A h \in Group : t_state'[h] = "CREATING_EXTENSIONS"
    BY <1>a DEF EnableExtensionSystem, in_queue, batch
  <2>2. \A h \in Group : t_state[h] = "none"
    BY <1>1, <2>1 DEF ThreadIs
  <2>3. Reported' = Reported
    BY <1>3, <1>6, <2>1, <2>2
  <2>4. ~is_ready /\ Reported = {}
    BY <1>1, <2>1, <2>2 DEF ReadyIs, Reported
  <2> QED BY <1>1, <1>5, <2>1, <2>3, <2>4 DEF ReadyIs
<1>b. ASSUME NEW g \in Group, FindExtensionInfo(g) PROVE ReadyIs'
  <2> DEFINE posts == IF cnt_of_ready + 1 = Cardinality(threads) THEN <<HandleInMsgs>> ELSE <<>>
  <2>1. posts \in {<<>>, <<HandleInMsgs>>} /\ EngineTask("find_info", g, posts)
    BY <1>b DEF FindExtensionInfo
  <2> HIDE DEF posts
  <2>2. /\ Has(e_queue, FindInfo(g))
        /\ \A t : t # HandleInMsgs /\ t # FindInfo(g) => Same(e_queue, e_queue', t)
        /\ Once(e_queue, FindInfo(g)) => ~Has(e_queue', FindInfo(g)) /\ Once(e_queue', FindInfo(g))
    BY <1>1, <2>1, EngineTakes, TaskNamesDiffer DEF FindInfo
  <2>3. /\ cnt_of_ready' = cnt_of_ready + 1 /\ is_ready' = (cnt_of_ready + 1 = Cardinality(threads))
        /\ UNCHANGED <<extension_context, is_closing, t_state, put_back>>
    BY <1>b DEF FindExtensionInfo, thread, batch
  <2>4. put_back = <<>>
    BY <2>1 DEF EngineTask, AtTask
  <2>5. t_state[g] = "created" /\ extension_context /\ ~is_closing
    <3>1. t_state[g] = "created"
      BY <1>1, <2>2 DEF ThreadIs
    <3> QED BY <1>1, <2>2, <3>1, NotYetClosing DEF ThreadIs
  <2>6. threads = Group
    <3>1. \A h \in Group : h \in threads
      BY <1>1, <2>5 DEF ThreadIs, Ends
    <3> QED BY <3>1 DEF Typed, EngineTyped
  <2>7. Reported' = Reported \union {g} /\ g \notin Reported
    <3>1. ~Has(e_queue', FindInfo(g))
      BY <1>1, <2>2 DEF ThreadIs
    <3>2. \A h \in Group : h # g => Same(e_queue, e_queue', FindInfo(h))
      BY <2>2, TaskNamesDiffer
    <3>3. \A h \in Group : h # g => (h \in Reported' <=> h \in Reported)
      BY <2>3, <3>2 DEF Reported, Same
    <3>4. g \in Reported' /\ g \notin Reported
      BY <2>2, <2>3, <2>5, <3>1 DEF Reported
    <3> QED BY <3>3, <3>4 DEF Reported
  <2>8. IsFiniteSet(Reported) /\ IsFiniteSet(Reported') /\ Reported' \subseteq Group
    <3>1. Reported \subseteq Group /\ Reported' \subseteq Group
      BY DEF Reported
    <3> QED BY <1>2, <3>1, FS_Subset
  <2>9. cnt_of_ready' = Cardinality(Reported')
    <3>1. Cardinality(Reported \union {g}) = Cardinality(Reported) + 1
      BY <2>7, <2>8, FS_AddElement
    <3> QED BY <1>1, <2>3, <2>7, <3>1 DEF ReadyIs
  <2>10. Cardinality(Reported') = Cardinality(Group) <=> Reported' = Group
    BY <1>2, <2>8, FS_Subset
  <2>11. is_ready' <=> extension_context' /\ Group # {} /\ Reported' = Group
    BY <2>3, <2>5, <2>6, <2>9, <2>10
  <2> QED BY <2>3, <2>4, <2>5, <2>9, <2>11 DEF ReadyIs
<1>c. ASSUME NEW g \in Group, RemoveThread(g) PROVE ReadyIs'
  <2>1. /\ EngineTask("remove", g, <<>>)
        /\ UNCHANGED <<extension_context, cnt_of_ready, is_ready, is_closing, t_state, put_back>>
    BY <1>c DEF RemoveThread, thread, batch
  <2>2. \A t : t # HandleInMsgs /\ t # Remove(g) => Same(e_queue, e_queue', t)
    BY <1>1, <2>1, EngineTakes DEF Remove
  <2>3. \A h \in Group : Same(e_queue, e_queue', FindInfo(h))
    BY <2>2, TaskNamesDiffer
  <2>4. Reported' = Reported
    BY <1>3, <2>1, <2>3
  <2> QED BY <1>1, <1>5, <2>1, <2>4, ReadyFrame
<1>d. CASE CloseEngine
  <2>1. UNCHANGED <<extension_context, cnt_of_ready, is_ready, t_state, e_queue, put_back>> /\ is_ready
    BY <1>d DEF CloseEngine, thread, batch, in_queue
  <2>2. Reported' = Reported
    BY <1>3, <1>6, <2>1
  <2> QED BY <1>1, <1>5, <2>1, <2>2, ReadyFrame
<1>e. ASSUME NEW g \in Group, AddAllCreatedExtensions(g) PROVE ReadyIs'
  <2>1. /\ t_state[g] = "CREATING_EXTENSIONS" /\ t_state' = [t_state EXCEPT ![g] = "created"]
        /\ e_queue' = Append(e_queue, FindInfo(g))
        /\ UNCHANGED <<extension_context, cnt_of_ready, is_ready, is_closing, put_back>>
    BY <1>e DEF AddAllCreatedExtensions, FindInfo, engine, batch
  <2>2. Has(e_queue', FindInfo(g)) /\ \A t : t # FindInfo(g) => Same(e_queue, e_queue', t)
    BY <1>1, <2>1, TaskKinds, EnginePosts
  <2>3. \A h \in Group : h # g => Same(e_queue, e_queue', FindInfo(h)) /\ t_state'[h] = t_state[h]
    BY <1>2, <2>1, <2>2, TaskNamesDiffer
  <2>4. Reported' = Reported
    <3>1. g \notin Reported /\ g \notin Reported'
      BY <2>1, <2>2 DEF Reported
    <3>2. \A h \in Group : h # g => (h \in Reported' <=> h \in Reported)
      BY <2>3 DEF Reported, Same
    <3> QED BY <3>1, <3>2 DEF Reported
  <2> QED BY <1>1, <1>5, <2>1, <2>4, ReadyFrame
<1>f. ASSUME NEW g \in Group, NEW s \in {"NORMAL", "PREPARE_TO_CLOSE", "CLOSED"},
             t_state[g] \notin {"none", "CREATING_EXTENSIONS"}, t_state' = [t_state EXCEPT ![g] = s],
             UNCHANGED <<engine, in_queue, batch>>
      PROVE  ReadyIs'
  <2>1. \A h \in Group : t_state'[h] \in {"none", "CREATING_EXTENSIONS"} <=> t_state[h] \in {"none", "CREATING_EXTENSIONS"}
    BY <1>f, <1>2
  <2>2. UNCHANGED <<extension_context, cnt_of_ready, is_ready, is_closing, put_back, e_queue>>
    BY <1>f DEF engine, in_queue, batch
  <2>3. Reported' = Reported
    BY <1>3, <1>6, <2>1, <2>2
  <2> QED BY <1>1, <1>5, <2>2, <2>3, ReadyFrame
<1>g. ASSUME NEW g \in Group, NEW t, Takes(g, t), t \in {StartLife, ToClose, Removed}
      PROVE  t_state[g] \notin {"none", "CREATING_EXTENSIONS"}
  <2>1. Has(t_queue[g], t)
    BY <1>1, <1>g, HasTail DEF Takes, ThreadsTyped
  <2> QED BY <1>1, <1>g, <2>1 DEF ThreadIs
<1>h. ASSUME NEW g \in Group, StartLifeCycle(g) PROVE ReadyIs'
  <2>1. Takes(g, StartLife)
    BY <1>h, <1>1, TaskTaken DEF StartLifeCycle, StartLife
  <2>2. t_state[g] \notin {"none", "CREATING_EXTENSIONS"}
    BY <1>g, <2>1
  <2> QED BY <1>f, <1>h, <2>2 DEF StartLifeCycle
<1>i. ASSUME NEW g \in Group, TriggerClose(g) PROVE ReadyIs'
  <2>1. Takes(g, ToClose)
    BY <1>i, <1>1, TaskTaken DEF TriggerClose, ToClose
  <2>2. t_state[g] \notin {"none", "CREATING_EXTENSIONS"}
    BY <1>g, <2>1
  <2> QED BY <1>f, <1>i, <2>2 DEF TriggerClose
<1>j. ASSUME NEW g \in Group, RemovedFromEngine(g) PROVE ReadyIs'
  <2>1. Takes(g, Removed)
    BY <1>j, <1>1, TaskTaken DEF RemovedFromEngine, Removed
  <2>2. t_state[g] \notin {"none", "CREATING_EXTENSIONS"}
    BY <1>g, <2>1
  <2> QED BY <1>f, <1>j, <2>2 DEF RemovedFromEngine
<1>k. ASSUME NEW g \in Group, OnGroupDeinitDone(g) PROVE ReadyIs'
  <2>1. /\ t_state[g] = "PREPARE_TO_CLOSE" /\ t_state' = [t_state EXCEPT ![g] = "destroyed"]
        /\ e_queue' = Append(e_queue, Remove(g))
        /\ UNCHANGED <<extension_context, cnt_of_ready, is_ready, is_closing, put_back>>
    BY <1>k DEF OnGroupDeinitDone, Remove, engine, batch
  <2>2. \A t : t # Remove(g) => Same(e_queue, e_queue', t)
    BY <1>1, <2>1, TaskKinds, EnginePosts
  <2>3. \A h \in Group : Same(e_queue, e_queue', FindInfo(h))
    BY <1>4, <2>2
  <2>4. \A h \in Group : t_state'[h] \in {"none", "CREATING_EXTENSIONS"} <=> t_state[h] \in {"none", "CREATING_EXTENSIONS"}
    BY <1>2, <2>1
  <2>5. Reported' = Reported
    BY <1>3, <2>3, <2>4
  <2> QED BY <1>1, <1>5, <2>1, <2>5, ReadyFrame
<1>l. ASSUME UNCHANGED Stages, EngineQuiet, put_back' # <<>> => ~is_ready PROVE ReadyIs'
  <2>1. \A h \in Group : Same(e_queue, e_queue', FindInfo(h))
    BY <1>l, TaskNamesDiffer DEF EngineQuiet
  <2>2. UNCHANGED <<extension_context, cnt_of_ready, is_ready, is_closing, t_state>>
    BY <1>l DEF Stages
  <2>3. Reported' = Reported
    BY <1>3, <2>1, <2>2
  <2> QED BY <1>1, <1>l, <2>2, <2>3, ReadyFrame
<1>m. CASE Messages
  BY <1>l, <1>m, MessagesLeave, MessagesPutBack
<1>n. CASE Lifes
  <2>1. UNCHANGED put_back
    BY <1>n DEF Lifes, Flush, DelExtension, OnInitDone, OnDeinit, OnDeinitDone, ProxyReleased, batch
  <2> QED BY <1>5, <1>l, <1>n, <2>1, LifesLeave
<1>o. Messages \/ Lifes \/ EnableExtensionSystem \/ CloseEngine
      \/ \E g \in Group : \/ FindExtensionInfo(g) \/ RemoveThread(g) \/ AddAllCreatedExtensions(g)
                          \/ StartLifeCycle(g) \/ TriggerClose(g) \/ OnGroupDeinitDone(g) \/ RemovedFromEngine(g)
  BY Steps, Zenon DEF Messages, Lifes
<1> QED BY <1>a, <1>b, <1>c, <1>d, <1>e, <1>h, <1>i, <1>j, <1>k, <1>m, <1>n, <1>o, Zenon

-----------------------------------------------------------------------------
(* The life of an extension, and what is kept for it.                      *)

\* What is kept at g, where and until when: nothing of it changes for x.
LEMMA ExtFrame ==
    ASSUME NEW x \in Extension, ExtIs(x),
           Begins(GroupOf[x])' <=> Begins(GroupOf[x]), Ends(GroupOf[x]) => Ends(GroupOf[x])',
           t_state'[GroupOf[x]] \in {"destroyed", "CLOSED"} => life[x] = "deleted",
           life'[x] = life[x], flushing'[GroupOf[x]] = x <=> flushing[GroupOf[x]] = x,
           Same(t_queue[GroupOf[x]], t_queue'[GroupOf[x]], Delete(x)),
           init_stage'[x] = init_stage[x], pending'[x] = pending[x],
           out_paths'[x] = out_paths[x], sent'[x] = sent[x]
    PROVE  ExtIs(x)'
<1>1. Kept(x)' = Kept(x)
  BY DEF Kept
<1> QED BY <1>1 DEF ExtIs, Same

LEMMA MessagesKeep ==
    ASSUME Typed, Control, WereSent, Messages, NEW y \in Extension
    PROVE  /\ init_stage'[y] = init_stage[y] \/ life[y] = "INIT"
           /\ pending'[y] = pending[y] \/ life[y] = "early"
           /\ out_paths'[y] \subseteq out_paths[y] \/ life[y] \in {"early", "live", "deinit"}
           /\ sent'[y] = sent[y] \/ life[y] \in {"early", "live", "deinit"}
<1> DEFINE Goal == /\ init_stage'[y] = init_stage[y] \/ life[y] = "INIT"
                   /\ pending'[y] = pending[y] \/ life[y] = "early"
                   /\ out_paths'[y] \subseteq out_paths[y] \/ life[y] \in {"early", "live", "deinit"}
                   /\ sent'[y] = sent[y] \/ life[y] \in {"early", "live", "deinit"}
<1>1. /\ SeqsTyped(init_stage) /\ SeqsTyped(pending)
      /\ life \in [Extension -> Lives] /\ out_paths \in [Extension -> SUBSET Nat] /\ sent \in [Sender -> Nat]
      /\ y # Client /\ y \in Sender
  BY KeptTypedIs, MsgsToFacts DEF Typed, ExtensionsTyped
<1>2. \A x \in Extension : life[x] = "INIT" <=> Begins(GroupOf[x])
  BY DEF Control, ExtIs
<1>3. ASSUME NEW m \in Result, m.dest \in Extension, HandleUpdate(m)
      PROVE  out_paths'[y] \subseteq out_paths[y]
  BY <1>1, <1>3 DEF HandleUpdate
<1>4. ASSUME NEW x \in Extension, NEW m \in RequestsTo(x), Keeps(x, m) \/ Refuses(x, m) \/ Delivers(x, m),
             ~Begins(GroupOf[x])
      PROVE  pending'[y] = pending[y] \/ life[y] = "early"
  <2>1. CASE Keeps(x, m)
    <3>1. life[x] = "early"
      BY <1>2, <1>4, <2>1 DEF Keeps
    <3>2. \A z \in Extension : z # x => pending'[z] = pending[z]
      BY <1>1, <2>1, SeqsAppended DEF Keeps
    <3> QED BY <3>1, <3>2
  <2>2. CASE ~Keeps(x, m)
    BY <1>4, <2>2 DEF Refuses, Delivers
  <2> QED BY <2>1, <2>2
<1>a. CASE TakeInMsgs \/ HandleTaken \/ PutBack \/ UNCHANGED vars
  <2>1. UNCHANGED <<init_stage, pending, out_paths, sent>>
    BY <1>a DEF TakeInMsgs, HandleTaken, PutBack, vars, thread, ext, sender
  <2> QED BY <2>1
<1>b. ASSUME NEW dest \in Name, FirstFromClient(dest) PROVE Goal
  <2>1. UNCHANGED <<init_stage, pending, out_paths>> /\ sent' = [sent EXCEPT ![Client] = @ + 1]
    BY <1>b DEF FirstFromClient, CountSent, NewRequest, thread, ext
  <2> QED BY <1>1, <2>1
<1>c. ASSUME NEW kind \in Kinds, NEW dest \in Name, FromRemote(kind, dest) PROVE Goal
  <2>1. UNCHANGED <<init_stage, pending, out_paths>> /\ sent' = [sent EXCEPT ![Client] = @ + 1]
    BY <1>c DEF FromRemote, CountSent, NewRequest, thread, ext
  <2> QED BY <1>1, <2>1
<1>d. ASSUME NEW g \in Group, HandleInMsg(g) PROVE Goal
  <2>1. PICK m \in MsgsTo(g) :
               \/ /\ Begins(g) /\ m \in RequestsTo(m.dest)
                  /\ init_stage' = [init_stage EXCEPT ![m.dest] = Append(@, m)]
                  /\ UNCHANGED <<pending, out_paths>>
               \/ /\ m \in Result
                  /\ HandleUpdate(m)
                  /\ UNCHANGED <<init_stage, pending>>
               \/ /\ ~Begins(g) /\ m \in RequestsTo(m.dest)
                  /\ Keeps(m.dest, m) \/ Refuses(m.dest, m) \/ Delivers(m.dest, m)
                  /\ UNCHANGED <<init_stage, out_paths>>
    BY <1>d, MsgHandled
  <2>2. m.dest \in Extension /\ GroupOf[m.dest] = g
    BY DEF MsgsTo
  <2>3. UNCHANGED sent
    BY <1>d DEF HandleInMsg
  <2>4. CASE /\ Begins(g) /\ m \in RequestsTo(m.dest)
             /\ init_stage' = [init_stage EXCEPT ![m.dest] = Append(@, m)]
             /\ UNCHANGED <<pending, out_paths>>
    <3>1. life[m.dest] = "INIT"
      BY <1>2, <2>2, <2>4
    <3>2. \A z \in Extension : z # m.dest => init_stage'[z] = init_stage[z]
      BY <1>1, <2>2, <2>4, SeqsAppended
    <3> QED BY <2>3, <2>4, <3>1, <3>2
  <2>5. CASE m \in Result /\ HandleUpdate(m) /\ UNCHANGED <<init_stage, pending>>
    BY <1>3, <2>2, <2>3, <2>5
  <2>6. CASE /\ ~Begins(g) /\ m \in RequestsTo(m.dest)
             /\ Keeps(m.dest, m) \/ Refuses(m.dest, m) \/ Delivers(m.dest, m)
             /\ UNCHANGED <<init_stage, out_paths>>
    BY <1>4, <2>2, <2>3, <2>6
  <2> QED BY <2>1, <2>4, <2>5, <2>6
<1>e. ASSUME NEW x \in Extension, NEW kind \in Kinds, NEW dest \in Name, SendRequest(x, kind, dest) PROVE Goal
  <2> DEFINE m == NewRequest(x, kind, dest)
  <2>1. /\ life[x] \in {"early", "live", "deinit"}
        /\ sent' = [sent EXCEPT ![x] = @ + 1]
        /\ out_paths' = IF m.kind = "cmd" THEN [out_paths EXCEPT ![x] = @ \union {m.n}] ELSE out_paths
        /\ \/ /\ dest \in Extension /\ GroupOf[dest] = GroupOf[x] /\ m \in RequestsTo(dest)
              /\ Keeps(dest, m) \/ Refuses(dest, m) \/ Delivers(dest, m)
           \/ UNCHANGED pending
    BY <1>e, RequestSent
  <2> HIDE DEF m
  <2>2. UNCHANGED init_stage
    BY <1>e DEF SendRequest, thread
  <2>3. ~Begins(GroupOf[x])
    BY <1>2, <2>1
  <2>4. pending'[y] = pending[y] \/ life[y] = "early"
    BY <1>4, <2>1, <2>3
  <2>5. y # x => sent'[y] = sent[y] /\ out_paths'[y] = out_paths[y]
    BY <1>1, <2>1
  <2> QED BY <2>1, <2>2, <2>4, <2>5
<1>f. ASSUME NEW x \in Extension, NEW cmd \in in_paths[x], ReturnResult(x, cmd) PROVE Goal
  <2>1. PICK m \in Result : \/ m.dest \in Extension /\ HandleUpdate(m)
                            \/ UNCHANGED out_paths
    BY <1>f, ResultReturned
  <2>2. UNCHANGED <<init_stage, pending, sent>>
    BY <1>f DEF ReturnResult, thread
  <2> QED BY <1>3, <2>1, <2>2
<1> QED BY <1>a, <1>b, <1>c, <1>d, <1>e, <1>f, Zenon DEF Messages

\* What becomes of one extension's tasks does not concern the others.
LEMMA OthersDelete ==
    ASSUME ThreadsTyped, NEW g \in Group, NEW t \in ThreadTasks(g),
           Posts(g, t) \/ Takes(g, t) \/ UNCHANGED t_queue
    PROVE  \A y \in Extension : t # Delete(y) => Same(t_queue[GroupOf[y]], t_queue'[GroupOf[y]], Delete(y))
<1> SUFFICES ASSUME NEW y \in Extension, t # Delete(y)
             PROVE  Same(t_queue[GroupOf[y]], t_queue'[GroupOf[y]], Delete(y))
  OBVIOUS
<1>1. t_queue[g] \in Seq(ThreadTasks(g)) /\ GroupOf[y] \in Group
  BY MsgsToFacts DEF ThreadsTyped
<1>2. CASE GroupOf[y] # g \/ UNCHANGED t_queue
  <2>1. t_queue'[GroupOf[y]] = t_queue[GroupOf[y]]
    BY <1>1, <1>2 DEF Posts, Takes
  <2> QED BY <2>1 DEF Same
<1>3. CASE GroupOf[y] = g /\ Posts(g, t)
  <2>1. t_queue'[g] = Append(t_queue[g], t)
    BY <1>3 DEF Posts
  <2>2. \A u : u # t => Same(t_queue[g], t_queue'[g], u)
    BY <1>1, <2>1, TaskPostedTo
  <2> QED BY <1>3, <2>2
<1>4. CASE GroupOf[y] = g /\ Takes(g, t)
  BY <1>1, <1>4, HasTail DEF Takes, Same
<1> QED BY <1>2, <1>3, <1>4

LEMMA ExtsStep ==
    ASSUME Typed, Control, WereSent, [Next]_vars, NEW y \in Extension
    PROVE  ExtIs(y)'
<1> DEFINE h == GroupOf[y]
<1>1. EngineQueuesTyped /\ ThreadsTyped /\ ThreadIs(h) /\ EndsEmpty(h) /\ ExtIs(y)
  BY MsgsToFacts DEF Typed, Control
<1>2. /\ h \in Group /\ y # None
      /\ t_queue[h] \in Seq(ThreadTasks(h)) /\ t_state \in [Group -> ThreadStates]
      /\ life \in [Extension -> Lives] /\ out_paths \in [Extension -> SUBSET Nat]
      /\ flushing = [g \in Group |-> flushing[g]]
      /\ SeqsTyped(init_stage) /\ SeqsTyped(pending)
  BY <1>1, MsgsToFacts, KeptTypedIs DEF ThreadsTyped, Typed, ExtensionsTyped
<1>3. \A x \in Extension : GroupOf[x] \in Group /\ Delete(x) \in ThreadTasks(GroupOf[x])
  BY MsgsToFacts, TaskKinds
<1>4. UNCHANGED t_queue => Same(t_queue[h], t_queue'[h], Delete(y))
  BY DEF Same
<1>5. ASSUME NEW g \in Group, NEW t \in {StartLife, ToClose, Removed}, Posts(g, t) \/ Takes(g, t)
      PROVE  Same(t_queue[h], t_queue'[h], Delete(y))
  <2>1. t \in ThreadTasks(g) /\ t # Delete(y)
    BY TaskKinds, TaskNamesDiffer
  <2> QED BY <1>1, <1>5, <2>1, OthersDelete
\* The threads are started and closed.
<1>6. ASSUME Same(t_queue[h], t_queue'[h], Delete(y)), UNCHANGED <<life, flushing, init_stage, pending, out_paths, sent>>,
             t_state'[h] = t_state[h] \/ (Begins(h) /\ Begins(h)') \/ (~Begins(h) /\ Ends(h)'),
             t_state'[h] \in {"destroyed", "CLOSED"} => life[y] = "deleted"
      PROVE  ExtIs(y)'
  <2>1. /\ Begins(h)' <=> Begins(h)
        /\ Ends(h) => Ends(h)'
    BY <1>2, <1>6 DEF Begins, Ends, ThreadStates
  <2> QED BY <1>1, <1>6, <2>1, ExtFrame
<1>7. t_state[h] \in {"destroyed", "CLOSED"} => life[y] = "deleted"
  BY <1>1 DEF ExtIs
<1>a. CASE EnableExtensionSystem
  <2>1. UNCHANGED <<life, flushing, init_stage, pending, out_paths, sent, t_queue>>
        /\ t_state'[h] = "CREATING_EXTENSIONS" /\ ~extension_context
    BY <1>a, <1>2 DEF EnableExtensionSystem, ext, sender
  <2>2. t_state[h] = "none"
    BY <1>1, <2>1 DEF ThreadIs
  <2>3. Begins(h) /\ Begins(h)'
    BY <2>1, <2>2 DEF Begins
  <2> QED BY <1>4, <1>6, <2>1, <2>3
<1>b. ASSUME NEW g \in Group, FindExtensionInfo(g) PROVE ExtIs(y)'
  <2>1. Posts(g, StartLife)
    <3>1. StartLife \in ThreadTasks(g)
      BY TaskKinds
    <3> QED BY <1>b, <1>1, <3>1, Posted DEF FindExtensionInfo, StartLife
  <2>2. UNCHANGED <<life, flushing, init_stage, pending, out_paths, sent, t_state>>
    BY <1>b DEF FindExtensionInfo, ext, sender, thread
  <2> QED BY <1>5, <1>6, <1>7, <2>1, <2>2
<1>c. ASSUME NEW g \in Group, RemoveThread(g) PROVE ExtIs(y)'
  <2>1. Posts(g, Removed)
    <3>1. Removed \in ThreadTasks(g)
      BY TaskKinds
    <3> QED BY <1>c, <1>1, <3>1, Posted DEF RemoveThread, Removed
  <2>2. UNCHANGED <<life, flushing, init_stage, pending, out_paths, sent, t_state>>
    BY <1>c DEF RemoveThread, ext, sender, thread
  <2> QED BY <1>5, <1>6, <1>7, <2>1, <2>2
<1>d. CASE CloseEngine
  <2>1. t_queue'[h] = Append(t_queue[h], ToClose) /\ ToClose \in ThreadTasks(h)
    BY <1>d, <1>2, TaskKinds DEF CloseEngine, ToClose
  <2>2. \A u : u # ToClose => Same(t_queue[h], t_queue'[h], u)
    BY <1>2, <2>1, TaskPostedTo
  <2>3. Same(t_queue[h], t_queue'[h], Delete(y))
    BY <2>2, TaskNamesDiffer
  <2>4. UNCHANGED <<life, flushing, init_stage, pending, out_paths, sent, t_state>>
    BY <1>d DEF CloseEngine, ext, sender, thread
  <2> QED BY <1>6, <1>7, <2>3, <2>4
<1>e. ASSUME NEW g \in Group, AddAllCreatedExtensions(g) PROVE ExtIs(y)'
  <2>1. /\ t_state[g] = "CREATING_EXTENSIONS" /\ t_state' = [t_state EXCEPT ![g] = "created"]
        /\ UNCHANGED <<life, flushing, init_stage, pending, out_paths, sent, t_queue>>
    BY <1>e DEF AddAllCreatedExtensions, ext, sender
  <2>2. t_state'[h] = t_state[h] \/ (Begins(h) /\ Begins(h)')
    BY <1>2, <2>1 DEF Begins
  <2>3. t_state'[h] = t_state[h] \/ t_state'[h] = "created"
    BY <1>2, <2>1
  <2> QED BY <1>4, <1>6, <1>7, <2>1, <2>2, <2>3
<1>f. ASSUME NEW g \in Group, StartLifeCycle(g) PROVE ExtIs(y)'
  <2>1. /\ Takes(g, StartLife) /\ flushing[g] = None /\ t_state' = [t_state EXCEPT ![g] = "NORMAL"]
        /\ life' = [x \in Extension |-> IF x \in ExtensionsOf(g) THEN "early" ELSE life[x]]
        /\ UNCHANGED <<flushing, init_stage, pending, out_paths, sent>>
    BY <1>f, <1>1, TaskTaken DEF StartLifeCycle, StartLife, sender
  <2>2. Same(t_queue[h], t_queue'[h], Delete(y))
    BY <1>5, <2>1
  <2>3. CASE g # h
    <3>1. life'[y] = life[y] /\ t_state'[h] = t_state[h]
      BY <1>2, <2>1, <2>3 DEF ExtensionsOf
    <3>2. Begins(h)' <=> Begins(h)
      BY <3>1 DEF Begins
    <3>3. Ends(h) => Ends(h)'
      BY <3>1 DEF Ends
    <3> QED BY <1>1, <1>7, <2>1, <2>2, <3>1, <3>2, <3>3, ExtFrame
  <2>4. CASE g = h
    <3>1. Has(t_queue[h], StartLife)
      BY <1>2, <2>1, <2>4, HasTail DEF Takes
    <3>2. t_state[h] = "created"
      BY <1>1, <3>1 DEF ThreadIs
    <3>3. life[y] = "INIT" /\ flushing[h] # y /\ ~Has(t_queue[h], Delete(y))
      BY <1>1, <1>2, <2>1, <2>4, <3>2 DEF ExtIs, Begins
    <3>4. life'[y] = "early" /\ t_state'[h] = "NORMAL"
      BY <1>2, <2>1, <2>4 DEF ExtensionsOf
    <3>5. ~Begins(h)' /\ ~Ends(h)'
      BY <3>4 DEF Begins, Ends
    <3> QED BY <1>1, <2>1, <2>2, <3>3, <3>4, <3>5 DEF ExtIs, Same
  <2> QED BY <2>3, <2>4
<1>g. ASSUME NEW g \in Group, TriggerClose(g) PROVE ExtIs(y)'
  <2>1. /\ Takes(g, ToClose) /\ t_state' = [t_state EXCEPT ![g] = "PREPARE_TO_CLOSE"]
        /\ UNCHANGED <<life, flushing, init_stage, pending, out_paths, sent>>
    BY <1>g, <1>1, TaskTaken DEF TriggerClose, ToClose, ext, sender
  <2>2. Same(t_queue[h], t_queue'[h], Delete(y))
    BY <1>5, <2>1
  <2>3. CASE g # h
    <3>1. t_state'[h] = t_state[h]
      BY <1>2, <2>1, <2>3
    <3> QED BY <1>6, <1>7, <2>1, <2>2, <3>1
  <2>4. CASE g = h
    <3>1. t_queue[h] # <<>> /\ Head(t_queue[h]) = ToClose /\ Has(t_queue[h], ToClose)
      BY <1>2, <2>1, <2>4, HasTail DEF Takes
    <3>2. Precedes(t_queue[h], StartLife, ToClose) => Head(t_queue[h]) # ToClose
      BY <1>2, <3>1, PrecedesTail
    <3>3. t_state[h] = "NORMAL"
      BY <1>1, <3>1, <3>2 DEF ThreadIs
    <3>4. t_state'[h] = "PREPARE_TO_CLOSE"
      BY <1>2, <2>1, <2>4
    <3>5. ~Begins(h) /\ Ends(h)'
      BY <3>3, <3>4 DEF Begins, Ends
    <3> QED BY <1>6, <2>1, <2>2, <3>4, <3>5
  <2> QED BY <2>3, <2>4
<1>i. ASSUME NEW g \in Group, OnGroupDeinitDone(g) PROVE ExtIs(y)'
  <2>1. /\ t_state[g] = "PREPARE_TO_CLOSE" /\ t_state' = [t_state EXCEPT ![g] = "destroyed"]
        /\ \A x \in ExtensionsOf(g) : life[x] = "deleted"
        /\ UNCHANGED <<life, flushing, init_stage, pending, out_paths, sent, t_queue>>
    BY <1>i DEF OnGroupDeinitDone, ext, sender
  <2>2. CASE g # h
    <3>1. t_state'[h] = t_state[h]
      BY <1>2, <2>1, <2>2
    <3> QED BY <1>4, <1>6, <1>7, <2>1, <3>1
  <2>3. CASE g = h
    <3>1. t_state'[h] = "destroyed" /\ life[y] = "deleted"
      BY <1>2, <2>1, <2>3 DEF ExtensionsOf
    <3>2. ~Begins(h) /\ Ends(h)'
      BY <2>1, <2>3, <3>1 DEF Begins, Ends
    <3> QED BY <1>4, <1>6, <2>1, <3>1, <3>2
  <2> QED BY <2>2, <2>3
<1>j. ASSUME NEW g \in Group, RemovedFromEngine(g) PROVE ExtIs(y)'
  <2>1. /\ Takes(g, Removed) /\ t_state' = [t_state EXCEPT ![g] = "CLOSED"]
        /\ UNCHANGED <<life, flushing, init_stage, pending, out_paths, sent>>
    BY <1>j, <1>1, TaskTaken DEF RemovedFromEngine, Removed, ext, sender
  <2>2. Same(t_queue[h], t_queue'[h], Delete(y))
    BY <1>5, <2>1
  <2>3. CASE g # h
    <3>1. t_state'[h] = t_state[h]
      BY <1>2, <2>1, <2>3
    <3> QED BY <1>6, <1>7, <2>1, <2>2, <3>1
  <2>4. CASE g = h
    <3>1. Has(t_queue[h], Removed)
      BY <1>2, <2>1, <2>4, HasTail DEF Takes
    <3>2. t_state[h] = "destroyed" /\ life[y] = "deleted"
      BY <1>1, <1>7, <3>1 DEF ThreadIs
    <3>3. t_state'[h] = "CLOSED"
      BY <1>2, <2>1, <2>4
    <3>4. ~Begins(h) /\ Ends(h)'
      BY <3>2, <3>3 DEF Begins, Ends
    <3> QED BY <1>6, <2>1, <2>2, <3>2, <3>4
  <2> QED BY <2>3, <2>4
\* Messages come and go.
<1>k. CASE Messages
  <2>1. UNCHANGED Stages /\ UNCHANGED <<flushing, life>> /\ Leaves(h, MsgTasks(h))
    BY <1>2, <1>k, MessagesLeave
  <2>2. Same(t_queue[h], t_queue'[h], Delete(y))
    <3>1. MsgTasks(h) \subseteq ThreadTasks(h) /\ Delete(y) \notin MsgTasks(h)
      BY TaskNamesDiffer DEF MsgTasks, ThreadTasks
    <3>2. \A u : u \notin MsgTasks(h) => Same(t_queue[h], t_queue'[h], u)
      BY <1>1, <1>2, <2>1, <3>1, QueueLeft
    <3> QED BY <3>1, <3>2
  <2>3. /\ init_stage'[y] = init_stage[y] \/ life[y] = "INIT"
        /\ pending'[y] = pending[y] \/ life[y] = "early"
        /\ out_paths'[y] \subseteq out_paths[y] \/ life[y] \in {"early", "live", "deinit"}
        /\ sent'[y] = sent[y] \/ life[y] \in {"early", "live", "deinit"}
    BY <1>k, MessagesKeep
  <2>4. /\ t_state' = t_state /\ flushing' = flushing /\ life' = life
    BY <2>1 DEF Stages
  <2>5. life[y] \notin {"INIT", "early"} => Kept(y)' = Kept(y)
    BY <2>3 DEF Kept
  <2>6. life[y] = "INIT" => pending'[y] = pending[y] /\ sent'[y] = sent[y]
    BY <2>3
  <2>7. life[y] \in {"INIT", "held", "deinit_done", "deleted"} => out_paths'[y] = {}
    BY <1>1, <2>3 DEF ExtIs
  <2>8. flushing[h] = y => Kept(y)' # <<>>
    BY <1>1, <2>5 DEF ExtIs
  <2> QED BY <1>1, <2>2, <2>4, <2>5, <2>6, <2>7, <2>8 DEF ExtIs, Same, Begins, Ends
\* The life of an extension x goes on.
<1>8. ASSUME NEW x \in Extension, x # y, t_state' = t_state, out_paths'[y] = out_paths[y], sent'[y] = sent[y],
             life'[y] = life[y], init_stage'[y] = init_stage[y], pending'[y] = pending[y],
             \/ flushing' = flushing
             \/ flushing[GroupOf[x]] \in {x, None} /\ flushing' = [flushing EXCEPT ![GroupOf[x]] = None]
             \/ flushing[GroupOf[x]] = None /\ flushing' = [flushing EXCEPT ![GroupOf[x]] = x],
             Posts(GroupOf[x], Delete(x)) \/ Takes(GroupOf[x], Delete(x)) \/ UNCHANGED t_queue
      PROVE  ExtIs(y)'
  <2>1. flushing'[h] = y <=> flushing[h] = y
    BY <1>2, <1>3, <1>8
  <2>2. Same(t_queue[h], t_queue'[h], Delete(y))
    BY <1>1, <1>3, <1>8, OthersDelete, TaskNamesDiffer
  <2>3. /\ Begins(h)' <=> Begins(h)
        /\ Ends(h) => Ends(h)'
    BY <1>8 DEF Begins, Ends
  <2> QED BY <1>1, <1>7, <1>8, <2>1, <2>2, <2>3, ExtFrame
<1>l. ASSUME NEW x \in Extension, Flush(x) PROVE ExtIs(y)'
  <2> DEFINE is_last == Len(Kept(x)) = 1
  <2>1. PICK m \in RequestsTo(x) :
               /\ flushing[GroupOf[x]] = x
               /\ FlushTakes(x, m)
               /\ is_last <=> Kept(x)' = <<>>
               /\ flushing' = IF is_last THEN [flushing EXCEPT ![GroupOf[x]] = None] ELSE flushing
               /\ \/ /\ life[x] = "live"
                     /\ UNCHANGED t_queue
                  \/ /\ life[x] = "deinit_done"
                     /\ IF is_last THEN Posts(GroupOf[x], Delete(x)) ELSE UNCHANGED t_queue
    BY <1>l, Flushed
  <2>2. UNCHANGED <<t_state, life, out_paths, sent>>
    BY <1>l DEF Flush, sender
  <2> HIDE DEF is_last
  <2>3. CASE x # y
    <3>1. init_stage'[y] = init_stage[y] /\ pending'[y] = pending[y]
      BY <1>2, <2>1, <2>3, SeqsTailed DEF FlushTakes
    <3> QED BY <1>8, <2>1, <2>2, <2>3, <3>1
  <2>4. CASE x = y
    <3>1. ~Has(t_queue[h], Delete(y)) /\ life[y] \in {"live", "deinit_done"}
      BY <1>1, <2>1, <2>4 DEF ExtIs
    <3>2. CASE is_last /\ life[y] = "deinit_done"
      <4>1. t_queue'[h] = Append(t_queue[h], Delete(y)) /\ flushing'[h] = None
        BY <1>2, <2>1, <2>4, <3>2 DEF Posts
      <4>2. Has(t_queue'[h], Delete(y)) /\ Once(t_queue'[h], Delete(y))
        BY <1>2, <1>3, <3>1, <4>1, TaskPostedTo
      <4> QED BY <1>1, <1>2, <2>1, <2>2, <2>4, <3>2, <4>1, <4>2 DEF ExtIs, Begins, Ends
    <3>3. CASE is_last /\ life[y] = "live"
      <4>1. UNCHANGED t_queue /\ flushing'[h] = None
        BY <1>2, <2>1, <2>4, <3>3
      <4> QED BY <1>1, <1>2, <2>1, <2>2, <2>4, <3>1, <3>3, <4>1 DEF ExtIs, Begins, Ends
    <3>4. CASE ~is_last
      <4>1. UNCHANGED <<t_queue, flushing>> /\ Kept(y)' # <<>>
        BY <2>1, <2>4, <3>4
      <4> QED BY <1>1, <1>2, <2>1, <2>2, <2>4, <3>1, <4>1 DEF ExtIs, Begins, Ends
    <3> QED BY <3>1, <3>2, <3>3, <3>4
  <2> QED BY <2>3, <2>4
<1>m. ASSUME NEW x \in Extension, DelExtension(x) PROVE ExtIs(y)'
  <2>1. /\ Takes(GroupOf[x], Delete(x)) /\ life' = [life EXCEPT ![x] = "deleted"]
        /\ UNCHANGED <<t_state, flushing, init_stage, pending, out_paths, sent>>
    BY <1>m, <1>1, <1>3, TaskTaken DEF DelExtension, Delete, thread, sender
  <2>2. CASE x # y
    <3>1. life'[y] = life[y]
      BY <1>2, <2>1, <2>2
    <3> QED BY <1>8, <2>1, <2>2, <3>1
  <2>3. CASE x = y
    <3>1. t_queue[h] # <<>> /\ Head(t_queue[h]) = Delete(y) /\ t_queue'[h] = Tail(t_queue[h])
      BY <2>1, <2>3 DEF Takes
    <3>2. /\ Has(t_queue[h], Delete(y))
          /\ Once(t_queue[h], Delete(y)) => ~Has(t_queue'[h], Delete(y)) /\ Once(t_queue'[h], Delete(y))
      BY <1>2, <3>1, TaskTakenFrom
    <3>3. life[y] = "deinit_done" /\ flushing[h] # y /\ life'[y] = "deleted"
      BY <1>1, <1>2, <2>1, <2>3, <3>2 DEF ExtIs
    <3>4. Kept(y)' = Kept(y)
      BY <2>1 DEF Kept
    <3> QED BY <1>1, <2>1, <3>2, <3>3, <3>4 DEF ExtIs, Begins, Ends
  <2> QED BY <2>2, <2>3
<1>n. ASSUME NEW x \in Extension, OnInitDone(x) PROVE ExtIs(y)'
  <2>1. /\ life[x] = "early" /\ flushing[GroupOf[x]] = None /\ life' = [life EXCEPT ![x] = "live"]
        /\ \/ flushing' = flushing
           \/ Kept(x) # <<>> /\ flushing' = [flushing EXCEPT ![GroupOf[x]] = x]
        /\ UNCHANGED <<t_state, t_queue, init_stage, pending, out_paths, sent>>
    BY <1>n DEF OnInitDone, sender
  <2>2. CASE x # y
    <3>1. life'[y] = life[y]
      BY <1>2, <2>1, <2>2
    <3> QED BY <1>8, <2>1, <2>2, <3>1
  <2>3. CASE x = y
    <3>1. life'[y] = "live" /\ life[y] = "early" /\ flushing[h] # y
      BY <1>2, <2>1, <2>3
    <3>2. flushing'[h] = y => Kept(y)' # <<>>
      <4>1. Kept(y)' = Kept(y)
        BY <2>1 DEF Kept
      <4> QED BY <2>1, <2>3, <3>1, <4>1
    <3> QED BY <1>1, <2>1, <3>1, <3>2 DEF ExtIs, Begins, Ends
  <2> QED BY <2>2, <2>3
<1>o. ASSUME NEW x \in Extension, OnDeinit(x) PROVE ExtIs(y)'
  <2>1. /\ life[x] = "live" /\ t_state[GroupOf[x]] = "PREPARE_TO_CLOSE" /\ flushing[GroupOf[x]] = None
        /\ life' = [life EXCEPT ![x] = "deinit"]
        /\ UNCHANGED <<t_state, flushing, t_queue, init_stage, pending, out_paths, sent>>
    BY <1>o DEF OnDeinit, thread, sender
  <2>2. CASE x # y
    <3>1. life'[y] = life[y]
      BY <1>2, <2>1, <2>2
    <3> QED BY <1>8, <2>1, <2>2, <3>1
  <2>3. CASE x = y
    <3>1. life'[y] = "deinit" /\ life[y] = "live" /\ flushing[h] # y /\ t_state[h] = "PREPARE_TO_CLOSE"
      BY <1>2, <2>1, <2>3
    <3> QED BY <1>1, <2>1, <3>1 DEF ExtIs, Begins, Ends
  <2> QED BY <2>2, <2>3
\* Whether or not a proxy keeps it, x is at its end.
<1>9. ASSUME NEW x \in Extension, life[x] \in {"deinit", "held"}, flushing[GroupOf[x]] = None, Leave(x),
             out_paths'[x] = {}, \A z \in Extension : z # x => out_paths'[z] = out_paths[z],
             UNCHANGED <<t_state, init_stage, pending, sent>>
      PROVE  ExtIs(y)'
  <2>1. /\ life' = [life EXCEPT ![x] = "deinit_done"]
        /\ \/ Kept(x) # <<>> /\ flushing' = [flushing EXCEPT ![GroupOf[x]] = x] /\ UNCHANGED t_queue
           \/ Kept(x) = <<>> /\ Posts(GroupOf[x], Delete(x)) /\ UNCHANGED flushing
    BY <1>9, Left
  <2>2. CASE x # y
    <3>1. life'[y] = life[y] /\ out_paths'[y] = out_paths[y]
      BY <1>2, <1>9, <2>1, <2>2
    <3> QED BY <1>8, <1>9, <2>1, <2>2, <3>1
  <2>3. CASE x = y
    <3>1. life'[y] = "deinit_done" /\ flushing[h] # y /\ Kept(y)' = Kept(y)
      BY <1>2, <1>9, <2>1, <2>3 DEF Kept
    <3>2. /\ ~Begins(h) /\ Ends(h) /\ t_state[h] \notin {"destroyed", "CLOSED"}
          /\ ~Has(t_queue[h], Delete(y)) /\ Once(t_queue[h], Delete(y))
      BY <1>1, <1>9, <2>3 DEF ExtIs
    <3>3. CASE Kept(x) # <<>> /\ flushing' = [flushing EXCEPT ![GroupOf[x]] = x] /\ UNCHANGED t_queue
      <4>1. flushing'[h] = y
        BY <1>2, <2>3, <3>3
      <4> QED BY <1>9, <2>3, <3>1, <3>2, <3>3, <4>1 DEF ExtIs, Begins, Ends
    <3>4. CASE Kept(x) = <<>> /\ Posts(GroupOf[x], Delete(x)) /\ UNCHANGED flushing
      <4>1. t_queue'[h] = Append(t_queue[h], Delete(y))
        BY <2>3, <3>4 DEF Posts
      <4>2. Has(t_queue'[h], Delete(y)) /\ Once(t_queue'[h], Delete(y))
        BY <1>2, <1>3, <3>2, <4>1, TaskPostedTo
      <4> QED BY <1>9, <2>3, <3>1, <3>2, <3>4, <4>2 DEF ExtIs, Begins, Ends
    <3> QED BY <2>1, <3>3, <3>4
  <2> QED BY <2>2, <2>3
<1>p. ASSUME NEW x \in Extension, OnDeinitDone(x) PROVE ExtIs(y)'
  <2>1. /\ life[x] = "deinit" /\ flushing[GroupOf[x]] = None
        /\ out_paths' = [out_paths EXCEPT ![x] = {}]
        /\ \/ Leave(x)
           \/ life' = [life EXCEPT ![x] = "held"] /\ UNCHANGED <<flushing, t_queue>>
        /\ UNCHANGED <<t_state, init_stage, pending, sent>>
    BY <1>p DEF OnDeinitDone
  <2>2. out_paths'[x] = {} /\ \A z \in Extension : z # x => out_paths'[z] = out_paths[z]
    BY <1>2, <2>1
  <2>3. CASE Leave(x)
    BY <1>9, <2>1, <2>2, <2>3
  <2>4. CASE life' = [life EXCEPT ![x] = "held"] /\ UNCHANGED <<flushing, t_queue>>
    <3>1. CASE x # y
      <4>1. life'[y] = life[y]
        BY <1>2, <2>4, <3>1
      <4> QED BY <1>8, <2>1, <2>2, <2>4, <3>1, <4>1
    <3>2. CASE x = y
      <4>1. life'[y] = "held" /\ life[y] = "deinit" /\ flushing[h] # y /\ out_paths'[y] = {}
        BY <1>2, <2>1, <2>2, <2>4, <3>2
      <4> QED BY <1>1, <2>1, <2>4, <4>1 DEF ExtIs, Begins, Ends
    <3> QED BY <3>1, <3>2
  <2> QED BY <2>1, <2>3, <2>4
<1>q. ASSUME NEW x \in Extension, ProxyReleased(x) PROVE ExtIs(y)'
  <2>1. /\ life[x] = "held" /\ flushing[GroupOf[x]] = None /\ Leave(x)
        /\ UNCHANGED <<t_state, init_stage, pending, sent, out_paths>>
    BY <1>q DEF ProxyReleased, sender
  <2>2. ExtIs(x)
    BY DEF Control
  <2>3. out_paths'[x] = {} /\ \A z \in Extension : z # x => out_paths'[z] = out_paths[z]
    BY <2>1, <2>2 DEF ExtIs
  <2> QED BY <1>9, <2>1, <2>3
<1>r. \/ Messages
      \/ \E x \in Extension : \/ Flush(x) \/ DelExtension(x) \/ OnInitDone(x) \/ OnDeinit(x)
                              \/ OnDeinitDone(x) \/ ProxyReleased(x)
      \/ EnableExtensionSystem \/ CloseEngine
      \/ \E g \in Group : \/ FindExtensionInfo(g) \/ RemoveThread(g) \/ AddAllCreatedExtensions(g)
                          \/ StartLifeCycle(g) \/ TriggerClose(g) \/ OnGroupDeinitDone(g) \/ RemovedFromEngine(g)
  BY Steps, Zenon DEF Messages
<1> QED BY <1>a, <1>b, <1>c, <1>d, <1>e, <1>f, <1>g, <1>i, <1>j, <1>k, <1>l, <1>m, <1>n, <1>o, <1>p, <1>q,
           <1>r, Zenon

LEMMA ControlStep == Typed /\ Control /\ WereSent /\ [Next]_vars => Control'
BY ThreadsStep, ExtsStep, ReadyStep DEF Control

-----------------------------------------------------------------------------
(* Whatever is under way was sent.                                         *)

Later(c, d) == \A s \in Sender : c[s] \in Nat /\ d[s] \in Nat /\ c[s] <= d[s]

LEMMA SentLater ==
    ASSUME NEW c, NEW d, Later(c, d)
    PROVE  /\ \A id \in Sender \X Nat : IdSent(id, c) => IdSent(id, d)
           /\ \A m \in Msg \union {None} : IsSent(m, c) => IsSent(m, d)
           /\ \A T : \A q \in Seq(T) : T \subseteq Msg \union {None} /\ AllSent(q, c) => AllSent(q, d)
<1>1. ASSUME NEW id \in Sender \X Nat, IdSent(id, c) PROVE IdSent(id, d)
  <2>1. id[1] \in Sender /\ id[2] \in Nat
    OBVIOUS
  <2>2. c[id[1]] \in Nat /\ d[id[1]] \in Nat /\ c[id[1]] <= d[id[1]] /\ id[2] \in 1..c[id[1]]
    BY <1>1, <2>1 DEF Later, IdSent
  <2> QED BY <2>1, <2>2 DEF IdSent
<1>2. ASSUME NEW m \in Msg \union {None}, IsSent(m, c) PROVE IsSent(m, d)
  <2>1. m # None => CmdId(m) \in Sender \X Nat
    <3>1. ASSUME m # None PROVE CmdId(m) \in Sender \X Nat
      <4>1. m \in Msg
        BY <3>1
      <4>2. m \in Request \/ m \in Result
        BY <4>1 DEF Msg
      <4> QED BY <4>2, MsgFacts
    <3> QED BY <3>1
  <2> QED BY <1>1, <1>2, <2>1 DEF IsSent
<1>3. ASSUME NEW T, NEW q \in Seq(T), T \subseteq Msg \union {None}, AllSent(q, c) PROVE AllSent(q, d)
  <2>1. \A i \in DOMAIN q : q[i] \in Msg \union {None}
    BY <1>3, ElementOfSeq, LenProperties
  <2> QED BY <1>2, <1>3, <2>1 DEF AllSent
<1> QED BY <1>1, <1>2, <1>3

LEMMA SentSeqs ==
    ASSUME NEW T, NEW q \in Seq(T), NEW c
    PROVE  /\ \A m \in T : AllSent(q, c) /\ IsSent(m, c) => AllSent(Append(q, m), c)
           /\ q # <<>> /\ AllSent(q, c) => IsSent(Head(q), c) /\ AllSent(Tail(q), c)
           /\ \A p \in Seq(T) : AllSent(p, c) /\ AllSent(q, c) => AllSent(p \o q, c)
<1>1. ASSUME NEW m \in T, AllSent(q, c), IsSent(m, c) PROVE AllSent(Append(q, m), c)
  <2>1. /\ DOMAIN Append(q, m) = DOMAIN q \union {Len(q) + 1}
        /\ \A i \in DOMAIN q : Append(q, m)[i] = q[i]
        /\ Append(q, m)[Len(q) + 1] = m
    BY Appended
  <2> QED BY <1>1, <2>1 DEF AllSent
<1>2. ASSUME q # <<>>, AllSent(q, c) PROVE IsSent(Head(q), c) /\ AllSent(Tail(q), c)
  <2>1. /\ Head(q) = q[1] /\ 1 \in DOMAIN q
        /\ \A i \in DOMAIN Tail(q) : i + 1 \in DOMAIN q /\ Tail(q)[i] = q[i + 1]
    BY <1>2, Tailed
  <2> QED BY <1>2, <2>1 DEF AllSent
<1>3. ASSUME NEW p \in Seq(T), AllSent(p, c), AllSent(q, c) PROVE AllSent(p \o q, c)
  <2>1. /\ \A i \in DOMAIN p : (p \o q)[i] = p[i]
        /\ \A i \in DOMAIN q : (p \o q)[Len(p) + i] = q[i]
        /\ \A i \in DOMAIN (p \o q) : i \in Nat /\ (i \in DOMAIN p \/ (i > Len(p) /\ i - Len(p) \in DOMAIN q))
        /\ Len(p) \in Nat
    BY Joined
  <2> SUFFICES ASSUME NEW i \in DOMAIN (p \o q) PROVE IsSent((p \o q)[i], c)
    BY DEF AllSent
  <2>2. CASE i \in DOMAIN p
    BY <1>3, <2>1, <2>2 DEF AllSent
  <2>3. CASE i > Len(p) /\ i - Len(p) \in DOMAIN q
    <3>1. Len(p) + (i - Len(p)) = i
      BY <2>1
    <3> QED BY <1>3, <2>1, <2>3, <3>1 DEF AllSent
  <2> QED BY <2>1, <2>2, <2>3
<1> QED BY <1>1, <1>2, <1>3

LEMMA NoneSent == \A c : AllSent(<<>>, c) /\ IsSent(None, c)
BY DEF AllSent, IsSent

\* A result is sent with its command.
LEMMA ResultSent == \A m \in Request : \A c : IsSent(m, c) => IsSent(ResultOf(m), c)
<1> SUFFICES ASSUME NEW m \in Request, NEW c, IsSent(m, c) PROVE IsSent(ResultOf(m), c)
  OBVIOUS
<1>1. m # None /\ ResultOf(m) # None /\ CmdId(ResultOf(m)) = CmdId(m)
  BY MsgFacts
<1> QED BY <1>1 DEF IsSent

\* A step that moves no message: it takes another task from the queue of g, posts one or
\* does neither.
Idle(g) ==
    \/ t_queue'[g] = t_queue[g]
    \/ t_queue[g] # <<>> /\ MsgOf(Head(t_queue[g])) = None /\ t_queue'[g] = Tail(t_queue[g])
    \/ \E t \in ThreadTasks(g) : MsgOf(t) = None /\ t_queue'[g] = Append(t_queue[g], t)

Boxes == <<in_msgs, taken, put_back, init_stage, pending, delivered, sent>>

Calm == UNCHANGED Boxes /\ \A g \in Group : Idle(g)

LEMMA CarriedIdle ==
    ASSUME ThreadsTyped, NEW g \in Group, Idle(g)
    PROVE  /\ \A c : AllSent(Carried(t_queue[g]), c) => AllSent(Carried(t_queue'[g]), c)
           /\ \A S : None \notin S => /\ Thins(Carried(t_queue[g]), Carried(t_queue'[g]), S)
                                      /\ Count(Carried(t_queue'[g]), S) = Count(Carried(t_queue[g]), S)
<1> DEFINE T == MsgsTo(g) \union {None}
           q == Carried(t_queue[g])
           r == Carried(t_queue'[g])
<1>1. t_queue[g] \in Seq(ThreadTasks(g))
  BY DEF ThreadsTyped
<1>2. q \in Seq(T)
  BY <1>1, CarriedIs
<1>3. \/ r = q
      \/ q # <<>> /\ Head(q) = None /\ r = Tail(q)
      \/ r = Append(q, None)
  <2>1. CASE t_queue'[g] = t_queue[g]
    BY <2>1
  <2>2. CASE t_queue[g] # <<>> /\ MsgOf(Head(t_queue[g])) = None /\ t_queue'[g] = Tail(t_queue[g])
    BY <1>1, <2>2, CarriedIs
  <2>3. ASSUME NEW t \in ThreadTasks(g), MsgOf(t) = None, t_queue'[g] = Append(t_queue[g], t)
        PROVE  r = Append(q, None)
    <3>1. Carried(Append(t_queue[g], t)) = Append(q, MsgOf(t))
      BY <1>1, CarriedIs
    <3> QED BY <2>3, <3>1
  <2> QED BY <2>1, <2>2, <2>3 DEF Idle
<1> HIDE DEF q, r
<1>4. None \in T
  OBVIOUS
<1> HIDE DEF T
<1>5. \A c : AllSent(q, c) => AllSent(r, c)
  <2> SUFFICES ASSUME NEW c, AllSent(q, c) PROVE AllSent(r, c)
    OBVIOUS
  <2>1. r = q => AllSent(r, c)
    OBVIOUS
  <2>2. q # <<>> => AllSent(Tail(q), c)
    BY <1>2, SentSeqs
  <2>3. AllSent(Append(q, None), c)
    BY <1>2, <1>4, SentSeqs, NoneSent
  <2> QED BY <1>3, <2>1, <2>2, <2>3
<1>6. ASSUME NEW S, None \notin S PROVE Thins(q, r, S) /\ Count(r, S) = Count(q, S)
  <2>1. Count(q, S) \in Nat
    BY <1>2, CountFinite
  <2>2. CASE r = q
    BY <2>2, ThinsSelf
  <2>3. CASE q # <<>> /\ Head(q) = None /\ r = Tail(q)
    <3>1. Thins(q, r, S)
      BY <1>2, <2>3, NumbersTail
    <3>2. Tail(q) \in Seq(T)
      BY <1>2, <2>3, Tailed
    <3>3. Count(r, S) \in Nat
      BY <2>3, <3>2, CountFinite
    <3>4. Count(q, S) = Count(r, S) + 0
      BY <1>2, <1>6, <2>3, CountTail
    <3> QED BY <2>1, <3>1, <3>3, <3>4
  <2>4. CASE r = Append(q, None)
    <3>1. Thins(q, r, S)
      BY <1>2, <1>4, <1>6, <2>4, NumbersAppended
    <3>2. Count(r, S) = Count(q, S) + 0
      BY <1>2, <1>4, <1>6, <2>4, CountAppended
    <3> QED BY <2>1, <3>1, <3>2
  <2> QED BY <1>3, <2>2, <2>3, <2>4
<1> QED BY <1>5, <1>6 DEF q, r

\* The steps that move messages.
Moving ==
    \/ TakeInMsgs
    \/ HandleTaken
    \/ PutBack
    \/ \E dest \in Name : FirstFromClient(dest)
    \/ \E kind \in Kinds, dest \in Name : FromRemote(kind, dest)
    \/ \E g \in Group : HandleInMsg(g)
    \/ \E x \in Extension : Flush(x)
    \/ \E x \in Extension, kind \in Kinds, dest \in Name : SendRequest(x, kind, dest)
    \/ \E x \in Extension : \E cmd \in in_paths[x] : ReturnResult(x, cmd)

LEMMA PostsIdle ==
    ASSUME NEW g \in Group, NEW t \in ThreadTasks(g), MsgOf(t) = None, Posts(g, t) \/ Takes(g, t)
    PROVE  \A h \in Group : Idle(h)
<1>1. Idle(g)
  BY DEF Posts, Takes, Idle
<1>2. \A h \in Group : h # g => Idle(h)
  BY DEF Posts, Takes, Idle
<1> QED BY <1>1, <1>2

LEMMA CalmSteps ==
    ASSUME Typed, Control, [Next]_vars
    PROVE  \/ Moving
           \/ Calm /\ UNCHANGED <<in_paths, out_paths, lost>>
           \/ Calm /\ \E x \in Extension : OnDeinitDone(x)
<1>1. ThreadsTyped /\ ExtensionsTyped
  BY DEF Typed
<1>2. UNCHANGED t_queue => \A g \in Group : Idle(g)
  BY DEF Idle
<1>3. \A g \in Group : /\ StartLife \in ThreadTasks(g) /\ ToClose \in ThreadTasks(g) /\ Removed \in ThreadTasks(g)
                       /\ \A x \in ExtensionsOf(g) : Delete(x) \in ThreadTasks(g)
  BY TaskKinds
<1>4. \A x \in Extension : GroupOf[x] \in Group /\ x \in ExtensionsOf(GroupOf[x])
  BY MsgsToFacts
<1>5. ASSUME NEW x \in Extension, Leave(x) PROVE \A g \in Group : Idle(g)
  <2>1. UNCHANGED t_queue \/ Posts(GroupOf[x], Delete(x))
    BY <1>5, Left
  <2> QED BY <1>2, <1>3, <1>4, <2>1, MsgOfTask, PostsIdle
<1> DEFINE Goal == Calm /\ UNCHANGED <<in_paths, out_paths, lost>>
<1>a. CASE EnableExtensionSystem
  <2>1. Goal
    BY <1>a, <1>2 DEF EnableExtensionSystem, Calm, Boxes, in_queue, batch, ext, sender
  <2> QED BY <2>1
<1>b. ASSUME NEW g \in Group, FindExtensionInfo(g) PROVE Goal
  <2>1. Posts(g, StartLife)
    BY <1>b, <1>1, <1>3, Posted DEF FindExtensionInfo, StartLife
  <2>2. \A h \in Group : Idle(h)
    BY <1>3, <2>1, MsgOfTask, PostsIdle
  <2> QED BY <1>b, <2>2 DEF FindExtensionInfo, Calm, Boxes, batch, thread, ext, sender
<1>c. ASSUME NEW g \in Group, RemoveThread(g) PROVE Goal
  <2>1. Posts(g, Removed)
    BY <1>c, <1>1, <1>3, Posted DEF RemoveThread, Removed
  <2>2. \A h \in Group : Idle(h)
    BY <1>3, <2>1, MsgOfTask, PostsIdle
  <2> QED BY <1>c, <2>2 DEF RemoveThread, Calm, Boxes, batch, thread, ext, sender
<1>d. CASE CloseEngine
  <2>1. \A h \in Group : t_queue'[h] = Append(t_queue[h], ToClose)
    BY <1>d DEF CloseEngine, ToClose
  <2>2. \A h \in Group : Idle(h)
    BY <1>3, <2>1, MsgOfTask DEF Idle
  <2>3. Goal
    BY <1>d, <2>2 DEF CloseEngine, Calm, Boxes, in_queue, batch, thread, ext, sender
  <2> QED BY <2>3
<1>e. ASSUME NEW g \in Group, AddAllCreatedExtensions(g) PROVE Goal
  BY <1>e, <1>2 DEF AddAllCreatedExtensions, Calm, Boxes, batch, ext, sender
<1>f. ASSUME NEW g \in Group, StartLifeCycle(g) PROVE Goal
  <2>1. Takes(g, StartLife)
    BY <1>f, <1>1, TaskTaken DEF StartLifeCycle, StartLife
  <2>2. \A h \in Group : Idle(h)
    BY <1>3, <2>1, MsgOfTask, PostsIdle
  <2> QED BY <1>f, <2>2 DEF StartLifeCycle, Calm, Boxes, in_queue, batch, sender
<1>g. ASSUME NEW g \in Group, TriggerClose(g) PROVE Goal
  <2>1. Takes(g, ToClose)
    BY <1>g, <1>1, TaskTaken DEF TriggerClose, ToClose
  <2>2. \A h \in Group : Idle(h)
    BY <1>3, <2>1, MsgOfTask, PostsIdle
  <2> QED BY <1>g, <2>2 DEF TriggerClose, Calm, Boxes, in_queue, batch, ext, sender
<1>h. ASSUME NEW g \in Group, OnGroupDeinitDone(g) PROVE Goal
  BY <1>h, <1>2 DEF OnGroupDeinitDone, Calm, Boxes, batch, ext, sender
<1>i. ASSUME NEW g \in Group, RemovedFromEngine(g) PROVE Goal
  <2>1. Takes(g, Removed)
    BY <1>i, <1>1, TaskTaken DEF RemovedFromEngine, Removed
  <2>2. \A h \in Group : Idle(h)
    BY <1>3, <2>1, MsgOfTask, PostsIdle
  <2> QED BY <1>i, <2>2 DEF RemovedFromEngine, Calm, Boxes, in_queue, batch, ext, sender
<1>j. ASSUME NEW x \in Extension, DelExtension(x) PROVE Goal
  <2>1. Takes(GroupOf[x], Delete(x))
    BY <1>j, <1>1, <1>4, TaskTaken DEF DelExtension, Delete
  <2>2. \A h \in Group : Idle(h)
    BY <1>3, <1>4, <2>1, MsgOfTask, PostsIdle
  <2> QED BY <1>j, <2>2 DEF DelExtension, Calm, Boxes, in_queue, batch, thread, sender
<1>k. ASSUME NEW x \in Extension, OnInitDone(x) PROVE Goal
  BY <1>k, <1>2 DEF OnInitDone, Calm, Boxes, in_queue, batch, sender
<1>l. ASSUME NEW x \in Extension, OnDeinit(x) PROVE Goal
  BY <1>l, <1>2 DEF OnDeinit, Calm, Boxes, in_queue, batch, thread, sender
<1>m. ASSUME NEW x \in Extension, OnDeinitDone(x) PROVE Calm
  <2>1. \A h \in Group : Idle(h)
    BY <1>m, <1>2, <1>5 DEF OnDeinitDone
  <2> QED BY <1>m, <2>1 DEF OnDeinitDone, Calm, Boxes, in_queue, batch
<1>n. ASSUME NEW x \in Extension, ProxyReleased(x) PROVE Goal
  <2>1. \A h \in Group : Idle(h)
    BY <1>n, <1>5 DEF ProxyReleased
  <2> QED BY <1>n, <2>1 DEF ProxyReleased, Calm, Boxes, in_queue, batch, sender
<1>o. CASE UNCHANGED vars
  <2>1. Goal
    BY <1>o, <1>2 DEF vars, Calm, Boxes, in_queue, batch, thread, ext, sender
  <2> QED BY <2>1
<1> HIDE DEF Goal
<1>99. Moving \/ Goal \/ (Calm /\ \E x \in Extension : OnDeinitDone(x))
  BY <1>a, <1>b, <1>c, <1>d, <1>e, <1>f, <1>g, <1>h, <1>i, <1>j, <1>k, <1>l, <1>m, <1>n, <1>o, Steps,
     Zenon DEF Moving, Goal
<1> QED BY <1>99 DEF Goal

\* WereSent in its parts, for any numbers of requests that were sent.
QueuesSent(c) == \A g \in Group : AllSent(Carried(t_queue[g]), c)
EngineSent(c) == AllSent(in_msgs, c) /\ AllSent(taken, c) /\ AllSent(put_back, c)
SeqsSent(f, c) == \A x \in Extension : AllSent(f[x], c)
InPathsSent(c) == \A x \in Extension : \A id \in in_paths[x] : IdSent(id, c)
OutPathsSent(c) == \A x \in Extension : \A n \in out_paths[x] : IdSent(<<x, n>>, c)
LostSent(c) == lost \subseteq Sender \X Nat /\ \A id \in lost : IdSent(id, c)

SentBy(c) ==
    /\ EngineSent(c) /\ QueuesSent(c)
    /\ SeqsSent(init_stage, c) /\ SeqsSent(pending, c) /\ SeqsSent(delivered, c)
    /\ InPathsSent(c) /\ OutPathsSent(c) /\ LostSent(c)

LEMMA WereSentIs == WereSent <=> SentBy(sent)
BY DEF WereSent, SentBy, EngineSent, QueuesSent, SeqsSent, InPathsSent, OutPathsSent, LostSent

LEMMA SentByLater ==
    ASSUME Typed, NEW c, NEW d, Later(c, d), SentBy(c)
    PROVE  SentBy(d)
<1>1. /\ in_msgs \in Seq(Msg) /\ taken \in Seq(Msg) /\ put_back \in Seq(Msg)
      /\ \A g \in Group : t_queue[g] \in Seq(ThreadTasks(g))
      /\ \A x \in Extension : /\ init_stage[x] \in Seq(RequestsTo(x)) /\ pending[x] \in Seq(RequestsTo(x))
                              /\ delivered[x] \in Seq(RequestsTo(x))
                              /\ in_paths[x] \subseteq Sender \X Nat
                              /\ out_paths[x] \subseteq Nat /\ x \in Sender
  BY MsgsToFacts DEF Typed, EngineQueuesTyped, ThreadsTyped, KeptTyped, ExtensionsTyped
<1>2. ASSUME NEW T, NEW q \in Seq(T), T \subseteq Msg \union {None}, AllSent(q, c) PROVE AllSent(q, d)
  BY <1>2, SentLater
<1>3. \A id \in Sender \X Nat : IdSent(id, c) => IdSent(id, d)
  BY SentLater
<1>4. EngineSent(d)
  BY <1>1, <1>2 DEF SentBy, EngineSent
<1>5. QueuesSent(d)
  <2> SUFFICES ASSUME NEW g \in Group PROVE AllSent(Carried(t_queue[g]), d)
    BY DEF QueuesSent
  <2>1. Carried(t_queue[g]) \in Seq(MsgsTo(g) \union {None})
    BY <1>1, CarriedIs
  <2>2. MsgsTo(g) \union {None} \subseteq Msg \union {None}
    BY MsgsToFacts
  <2>3. AllSent(Carried(t_queue[g]), c)
    BY DEF SentBy, QueuesSent
  <2> QED BY <1>2, <2>1, <2>2, <2>3
<1>6. SeqsSent(init_stage, d) /\ SeqsSent(pending, d) /\ SeqsSent(delivered, d)
  <2> SUFFICES ASSUME NEW x \in Extension
               PROVE  AllSent(init_stage[x], d) /\ AllSent(pending[x], d) /\ AllSent(delivered[x], d)
    BY DEF SeqsSent
  <2>1. RequestsTo(x) \subseteq Msg \union {None}
    BY MsgsToFacts, MsgFacts
  <2>2. AllSent(init_stage[x], c) /\ AllSent(pending[x], c) /\ AllSent(delivered[x], c)
    BY DEF SentBy, SeqsSent
  <2> QED BY <1>1, <1>2, <2>1, <2>2
<1>7. InPathsSent(d)
  BY <1>1, <1>3 DEF SentBy, InPathsSent
<1>8. OutPathsSent(d)
  <2> SUFFICES ASSUME NEW x \in Extension, NEW n \in out_paths[x] PROVE IdSent(<<x, n>>, d)
    BY DEF OutPathsSent
  <2>1. <<x, n>> \in Sender \X Nat
    BY <1>1
  <2> QED BY <1>3, <2>1 DEF SentBy, OutPathsSent
<1>9. LostSent(d)
  BY <1>3 DEF SentBy, LostSent
<1> QED BY <1>4, <1>5, <1>6, <1>7, <1>8, <1>9 DEF SentBy

LEMMA PostsSent ==
    ASSUME ThreadsTyped, NEW g \in Group, NEW m \in MsgsTo(g), Posts(g, Task("msg", m)),
           NEW c, IsSent(m, c), QueuesSent(c)
    PROVE  \A h \in Group : AllSent(Carried(t_queue'[h]), c)
<1>1. \A h \in Group : t_queue[h] \in Seq(ThreadTasks(h)) /\ AllSent(Carried(t_queue[h]), c)
  BY DEF ThreadsTyped, QueuesSent
<1>2. Task("msg", m) \in ThreadTasks(g) /\ MsgOf(Task("msg", m)) = m
  BY TaskKinds, MsgOfTask
<1>3. Carried(t_queue'[g]) = Append(Carried(t_queue[g]), m)
  <2>1. t_queue[g] \in Seq(ThreadTasks(g)) /\ t_queue'[g] = Append(t_queue[g], Task("msg", m))
    BY <1>1 DEF Posts
  <2>2. \A t \in ThreadTasks(g) : Carried(Append(t_queue[g], t)) = Append(Carried(t_queue[g]), MsgOf(t))
    BY <2>1, CarriedIs
  <2> QED BY <1>2, <2>1, <2>2
<1>4. Carried(t_queue[g]) \in Seq(MsgsTo(g) \union {None})
  BY <1>1, CarriedIs
<1>5. AllSent(Carried(t_queue'[g]), c)
  BY <1>1, <1>3, <1>4, SentSeqs
<1> QED BY <1>1, <1>5 DEF Posts

LEMMA TakesSent ==
    ASSUME ThreadsTyped, NEW g \in Group, NEW m \in MsgsTo(g), Takes(g, Task("msg", m)),
           NEW c, QueuesSent(c)
    PROVE  IsSent(m, c) /\ \A h \in Group : AllSent(Carried(t_queue'[h]), c)
<1>1. \A h \in Group : t_queue[h] \in Seq(ThreadTasks(h)) /\ AllSent(Carried(t_queue[h]), c)
  BY DEF ThreadsTyped, QueuesSent
<1>2. MsgOf(Task("msg", m)) = m
  BY MsgOfTask
<1>3. /\ Carried(t_queue'[g]) = Tail(Carried(t_queue[g]))
      /\ Carried(t_queue[g]) # <<>> /\ Head(Carried(t_queue[g])) = m
  BY <1>1, <1>2, CarriedIs DEF Takes
<1>4. Carried(t_queue[g]) \in Seq(MsgsTo(g) \union {None})
  BY <1>1, CarriedIs
<1>5. IsSent(m, c) /\ AllSent(Carried(t_queue'[g]), c)
  BY <1>1, <1>3, <1>4, SentSeqs
<1> QED BY <1>1, <1>5 DEF Takes

LEMMA SendsSent ==
    ASSUME ThreadsTyped, NEW m \in Msg, Sends(m), NEW c, IsSent(m, c), QueuesSent(c), LostSent(c)
    PROVE  /\ \A h \in Group : AllSent(Carried(t_queue'[h]), c)
           /\ lost' \subseteq Sender \X Nat /\ \A id \in lost' : IdSent(id, c)
<1>1. UNCHANGED t_queue => \A h \in Group : AllSent(Carried(t_queue'[h]), c)
  BY DEF QueuesSent
<1>2. ASSUME m.dest \in Extension, Posts(GroupOf[m.dest], Task("msg", m))
      PROVE  \A h \in Group : AllSent(Carried(t_queue'[h]), c)
  <2>1. GroupOf[m.dest] \in Group /\ m \in MsgsTo(GroupOf[m.dest])
    BY <1>2, MsgsToFacts DEF MsgsTo
  <2> QED BY <1>2, <2>1, PostsSent
<1>3. m # None /\ CmdId(m) \in Sender \X Nat
  <2>1. m \in Request \/ m \in Result
    BY DEF Msg
  <2> QED BY <2>1, MsgFacts
<1>4. IdSent(CmdId(m), c)
  BY <1>3 DEF IsSent
<1>5. lost' = lost \/ lost' = lost \union {CmdId(m)}
  BY DEF Sends
<1>6. lost' \subseteq Sender \X Nat /\ \A id \in lost' : IdSent(id, c)
  BY <1>3, <1>4, <1>5 DEF LostSent
<1>7. \A h \in Group : AllSent(Carried(t_queue'[h]), c)
  BY <1>1, <1>2 DEF Sends
<1> QED BY <1>6, <1>7

LEMMA ComesSent ==
    ASSUME EngineQueuesTyped, NEW m \in Msg, Comes(m), NEW c, IsSent(m, c), AllSent(in_msgs, c)
    PROVE  AllSent(in_msgs', c)
<1>1. in_msgs \in Seq(Msg) /\ in_msgs' = Append(in_msgs, m)
  BY DEF EngineQueuesTyped, Comes
<1> QED BY <1>1, SentSeqs

LEMMA SeqsSentAppended ==
    ASSUME NEW f, SeqsTyped(f), NEW c, SeqsSent(f, c), NEW x \in Extension, NEW m \in RequestsTo(x),
           IsSent(m, c), NEW h, h = [f EXCEPT ![x] = Append(@, m)]
    PROVE  SeqsSent(h, c)
<1>1. h[x] = Append(f[x], m) /\ \A y \in Extension : y # x => h[y] = f[y]
  BY SeqsAppended
<1>2. f[x] \in Seq(RequestsTo(x)) /\ AllSent(f[x], c)
  BY DEF SeqsTyped, SeqsSent
<1>3. AllSent(h[x], c)
  BY <1>1, <1>2, SentSeqs
<1> QED BY <1>1, <1>3 DEF SeqsSent

LEMMA SeqsSentTailed ==
    ASSUME NEW f, SeqsTyped(f), NEW c, SeqsSent(f, c), NEW x \in Extension, f[x] # <<>>,
           NEW h, h = [f EXCEPT ![x] = Tail(@)]
    PROVE  SeqsSent(h, c) /\ IsSent(Head(f[x]), c)
<1>1. h[x] = Tail(f[x]) /\ \A y \in Extension : y # x => h[y] = f[y]
  BY DEF SeqsTyped
<1>2. f[x] \in Seq(RequestsTo(x)) /\ AllSent(f[x], c)
  BY DEF SeqsTyped, SeqsSent
<1>3. AllSent(h[x], c) /\ IsSent(Head(f[x]), c)
  BY <1>1, <1>2, SentSeqs
<1> QED BY <1>1, <1>3 DEF SeqsSent

LEMMA GetsSent ==
    ASSUME Typed, NEW x \in Extension, NEW m \in RequestsTo(x), Gets(x, m),
           NEW c, IsSent(m, c), SeqsSent(delivered, c), InPathsSent(c)
    PROVE  SeqsSent(delivered', c) /\ \A y \in Extension : \A id \in in_paths'[y] : IdSent(id, c)
<1>1. SeqsTyped(delivered)
  BY KeptTypedIs DEF Typed
<1>2. SeqsSent(delivered', c)
  BY <1>1, SeqsSentAppended DEF Gets
<1>3. IdSent(CmdId(m), c)
  <2>1. m # None
    BY MsgsToFacts, MsgFacts
  <2> QED BY <2>1 DEF IsSent
<1>4. \A y \in Extension : in_paths'[y] \subseteq in_paths[y] \union {CmdId(m)}
  <2>1. in_paths \in [Extension -> SUBSET (Sender \X Nat)]
    BY DEF Typed, ExtensionsTyped
  <2> QED BY <2>1 DEF Gets
<1> QED BY <1>2, <1>3, <1>4 DEF InPathsSent

LEMMA ReachedSent ==
    ASSUME Typed, NEW x \in Extension, NEW m \in RequestsTo(x),
           Keeps(x, m) \/ Refuses(x, m) \/ Delivers(x, m), NEW c, IsSent(m, c), SentBy(c)
    PROVE  /\ AllSent(in_msgs', c)
           /\ SeqsSent(pending', c) /\ SeqsSent(delivered', c)
           /\ \A y \in Extension : \A id \in in_paths'[y] : IdSent(id, c)
<1>1. /\ AllSent(in_msgs, c) /\ SeqsSent(pending, c) /\ SeqsSent(delivered, c) /\ InPathsSent(c)
      /\ \A y \in Extension : \A id \in in_paths[y] : IdSent(id, c)
  BY DEF SentBy, EngineSent, InPathsSent
<1>2. SeqsTyped(pending) /\ EngineQueuesTyped
  BY KeptTypedIs DEF Typed
<1>3. CASE Keeps(x, m)
  <2>1. SeqsSent(pending', c)
    BY <1>1, <1>2, <1>3, SeqsSentAppended DEF Keeps
  <2>2. in_msgs' = in_msgs /\ delivered' = delivered /\ in_paths' = in_paths
    BY <1>3 DEF Keeps
  <2> QED BY <1>1, <2>1, <2>2
<1>4. CASE Refuses(x, m)
  <2>1. m \in Request /\ ResultOf(m) \in Msg /\ IsSent(ResultOf(m), c)
    BY MsgsToFacts, MsgFacts, ResultSent
  <2>2. AllSent(in_msgs', c)
    <3>1. CASE Comes(ResultOf(m))
      BY <1>1, <1>2, <2>1, <3>1, ComesSent
    <3>2. CASE in_msgs' = in_msgs
      BY <1>1, <3>2
    <3> QED BY <1>4, <3>1, <3>2 DEF Refuses
  <2>3. pending' = pending /\ delivered' = delivered /\ in_paths' = in_paths
    BY <1>4 DEF Refuses
  <2> QED BY <1>1, <2>2, <2>3
<1>5. CASE Delivers(x, m)
  <2>1. SeqsSent(delivered', c) /\ \A y \in Extension : \A id \in in_paths'[y] : IdSent(id, c)
    BY <1>1, <1>5, GetsSent DEF Delivers
  <2>2. in_msgs' = in_msgs /\ pending' = pending
    BY <1>5 DEF Delivers
  <2> QED BY <1>1, <2>1, <2>2
<1> QED BY <1>3, <1>4, <1>5

\* The same after a step.
SentAfter(c) ==
    /\ AllSent(in_msgs', c) /\ AllSent(taken', c) /\ AllSent(put_back', c)
    /\ \A g \in Group : AllSent(Carried(t_queue'[g]), c)
    /\ SeqsSent(init_stage', c) /\ SeqsSent(pending', c) /\ SeqsSent(delivered', c)
    /\ \A x \in Extension : \A id \in in_paths'[x] : IdSent(id, c)
    /\ \A x \in Extension : \A n \in out_paths'[x] : IdSent(<<x, n>>, c)
    /\ lost' \subseteq Sender \X Nat /\ \A id \in lost' : IdSent(id, c)

LEMMA SentAfterIs == SentAfter(sent') => WereSent'
BY DEF SentAfter, WereSent, SeqsSent

LEMMA SentFrame ==
    ASSUME NEW c, SentBy(c)
    PROVE  /\ in_msgs' = in_msgs => AllSent(in_msgs', c)
           /\ taken' = taken => AllSent(taken', c)
           /\ put_back' = put_back => AllSent(put_back', c)
           /\ t_queue' = t_queue => \A g \in Group : AllSent(Carried(t_queue'[g]), c)
           /\ init_stage' = init_stage => SeqsSent(init_stage', c)
           /\ pending' = pending => SeqsSent(pending', c)
           /\ delivered' = delivered => SeqsSent(delivered', c)
           /\ (\A x \in Extension : in_paths'[x] \subseteq in_paths[x]) =>
                 \A x \in Extension : \A id \in in_paths'[x] : IdSent(id, c)
           /\ (\A x \in Extension : out_paths'[x] \subseteq out_paths[x]) =>
                 \A x \in Extension : \A n \in out_paths'[x] : IdSent(<<x, n>>, c)
           /\ lost' = lost => lost' \subseteq Sender \X Nat /\ \A id \in lost' : IdSent(id, c)
BY DEF SentBy, EngineSent, QueuesSent, SeqsSent, InPathsSent, OutPathsSent, LostSent

LEMMA WereSentInit == Init => WereSent
<1> SUFFICES ASSUME Init PROVE WereSent
  OBVIOUS
<1>1. Carried(<<>>) = <<>>
  BY DEF Carried
<1>2. \A g \in Group : AllSent(Carried(t_queue[g]), sent)
  BY <1>1, NoneSent DEF Init
<1> QED BY <1>2, NoneSent DEF Init, WereSent

LEMMA WereSentStep == Typed /\ Control /\ WereSent /\ [Next]_vars => WereSent'
<1> SUFFICES ASSUME Typed, Control, WereSent, [Next]_vars PROVE WereSent'
  OBVIOUS
<1>1. /\ EngineQueuesTyped /\ ThreadsTyped /\ KeptTyped /\ ExtensionsTyped
      /\ in_msgs \in Seq(Msg) /\ taken \in Seq(Msg) /\ put_back \in Seq(Msg)
      /\ SeqsTyped(init_stage) /\ SeqsTyped(pending) /\ SeqsTyped(delivered)
      /\ in_paths \in [Extension -> SUBSET (Sender \X Nat)]
      /\ out_paths \in [Extension -> SUBSET Nat]
      /\ sent \in [Sender -> Nat]
  BY KeptTypedIs DEF Typed, EngineQueuesTyped, ExtensionsTyped
<1>2. SentBy(sent)
  BY WereSentIs
<1>3. sent' = sent => Later(sent, sent')
  BY <1>1 DEF Later
<1>4. \A s \in Sender : sent' = [sent EXCEPT ![s] = @ + 1] => Later(sent, sent')
  BY <1>1 DEF Later
<1>5. Later(sent, sent') => SentBy(sent')
  BY <1>2, SentByLater
<1>6. \A x \in Extension : x \in Sender
  BY DEF Sender
<1>7. UNCHANGED <<in_paths>> => \A x \in Extension : in_paths'[x] \subseteq in_paths[x]
  OBVIOUS
<1>8. UNCHANGED <<out_paths>> => \A x \in Extension : out_paths'[x] \subseteq out_paths[x]
  OBVIOUS
<1>9. ASSUME NEW m \in Msg, HandleUpdate(m) PROVE \A x \in Extension : out_paths'[x] \subseteq out_paths[x]
  BY <1>1, <1>9 DEF HandleUpdate
<1>10. SentBy(sent') => /\ QueuesSent(sent') /\ LostSent(sent') /\ InPathsSent(sent')
                        /\ AllSent(in_msgs, sent') /\ AllSent(taken, sent') /\ AllSent(put_back, sent')
                        /\ SeqsSent(init_stage, sent') /\ SeqsSent(pending, sent') /\ SeqsSent(delivered, sent')
  BY DEF SentBy, EngineSent
<1>a. CASE Calm /\ UNCHANGED <<in_paths, out_paths, lost>>
  <2>1. SentBy(sent')
    BY <1>a, <1>3, <1>5 DEF Calm, Boxes
  <2>2. \A g \in Group : AllSent(Carried(t_queue'[g]), sent')
    BY <1>a, <1>1, <1>10, <2>1, CarriedIdle DEF Calm, QueuesSent
  <2>3. SentAfter(sent')
    BY <1>a, <1>7, <1>8, <2>1, <2>2, SentFrame DEF Calm, Boxes, SentAfter
  <2> QED BY <2>3, SentAfterIs
<1>b. ASSUME Calm, NEW x \in Extension, OnDeinitDone(x) PROVE WereSent'
  <2>1. SentBy(sent')
    BY <1>b, <1>3, <1>5 DEF Calm, Boxes
  <2>2. \A g \in Group : AllSent(Carried(t_queue'[g]), sent')
    BY <1>b, <1>1, <1>10, <2>1, CarriedIdle DEF Calm, QueuesSent
  <2>3. /\ \A y \in Extension : in_paths'[y] \subseteq in_paths[y] /\ out_paths'[y] \subseteq out_paths[y]
        /\ lost' = lost \union in_paths[x]
    BY <1>b, <1>1 DEF OnDeinitDone
  <2>4. lost' \subseteq Sender \X Nat /\ \A id \in lost' : IdSent(id, sent')
    BY <1>1, <1>10, <2>1, <2>3 DEF LostSent, InPathsSent
  <2>5. SentAfter(sent')
    BY <1>b, <2>1, <2>2, <2>3, <2>4, SentFrame DEF Calm, Boxes, SentAfter
  <2> QED BY <2>5, SentAfterIs
<1>c. CASE TakeInMsgs
  <2>1. SentBy(sent')
    BY <1>c, <1>3, <1>5 DEF TakeInMsgs, sender
  <2>2. AllSent(in_msgs', sent') /\ AllSent(taken', sent')
    BY <1>c, <1>10, <2>1, NoneSent DEF TakeInMsgs
  <2>3. SentAfter(sent')
    BY <1>c, <1>7, <1>8, <2>1, <2>2, SentFrame DEF TakeInMsgs, thread, ext, sender, SentAfter
  <2> QED BY <2>3, SentAfterIs
<1>d. CASE HandleTaken
  <2> DEFINE m == Head(taken)
  <2>0. SentBy(sent')
    BY <1>d, <1>3, <1>5 DEF HandleTaken
  <2>1. /\ taken # <<>> /\ m \in Msg /\ taken' = Tail(taken)
        /\ \/ m.kind = "cmd" /\ Sends(ResultOf(m)) /\ UNCHANGED put_back
           \/ Sends(m) /\ UNCHANGED put_back
           \/ lost' = lost \union {CmdId(m)} /\ UNCHANGED <<put_back, t_queue>>
           \/ put_back' = Append(put_back, m) /\ UNCHANGED <<t_queue, lost>>
    BY <1>d, TakenHandled
  <2>2. IsSent(m, sent') /\ AllSent(taken', sent')
    BY <1>1, <1>10, <2>0, <2>1, SentSeqs
  <2> HIDE DEF m
  <2>3. m.kind = "cmd" => ResultOf(m) \in Msg /\ IsSent(ResultOf(m), sent')
    BY <2>1, <2>2, MsgFacts, ResultSent
  <2> DEFINE After == /\ AllSent(put_back', sent')
                      /\ \A g \in Group : AllSent(Carried(t_queue'[g]), sent')
                      /\ lost' \subseteq Sender \X Nat /\ \A id \in lost' : IdSent(id, sent')
  <2>4. ASSUME NEW k \in Msg, IsSent(k, sent'), Sends(k), UNCHANGED put_back PROVE After
    BY <1>1, <1>10, <2>0, <2>4, SendsSent
  <2>5. ASSUME lost' = lost \union {CmdId(m)}, UNCHANGED <<put_back, t_queue>> PROVE After
    <3>1. m # None /\ CmdId(m) \in Sender \X Nat
      <4>1. m \in Request \/ m \in Result
        BY <2>1 DEF Msg
      <4> QED BY <4>1, MsgFacts
    <3>2. lost' \subseteq Sender \X Nat /\ \A id \in lost' : IdSent(id, sent')
      BY <1>10, <2>0, <2>2, <2>5, <3>1 DEF LostSent, IsSent
    <3> QED BY <2>0, <2>5, <3>2, SentFrame
  <2>6. ASSUME put_back' = Append(put_back, m), UNCHANGED <<t_queue, lost>> PROVE After
    <3>1. AllSent(put_back', sent')
      BY <1>1, <1>10, <2>0, <2>1, <2>2, <2>6, SentSeqs
    <3> QED BY <2>0, <2>6, <3>1, SentFrame
  <2>7. After
    BY <2>1, <2>2, <2>3, <2>4, <2>5, <2>6
  <2>8. SentAfter(sent')
    BY <1>d, <1>7, <1>8, <2>0, <2>2, <2>7, SentFrame DEF HandleTaken, in_queue, thread, ext, SentAfter
  <2> QED BY <2>8, SentAfterIs
<1>e. CASE PutBack
  <2>1. SentBy(sent')
    BY <1>e, <1>3, <1>5 DEF PutBack, sender
  <2>2. AllSent(in_msgs', sent') /\ AllSent(put_back', sent')
    BY <1>e, <1>1, <1>10, <2>1, NoneSent, SentSeqs DEF PutBack
  <2>3. SentAfter(sent')
    BY <1>e, <1>7, <1>8, <2>1, <2>2, SentFrame DEF PutBack, thread, ext, sender, SentAfter
  <2> QED BY <2>3, SentAfterIs
<1>11. ASSUME NEW s \in Sender, NEW m \in Request, m.src = s, m.n = sent[s] + 1,
             sent' = [sent EXCEPT ![s] = @ + 1]
      PROVE  IsSent(m, sent') /\ SentBy(sent')
  <2>1. CmdId(m) = <<s, m.n>> /\ sent[s] \in Nat /\ sent'[s] = sent[s] + 1
    BY <1>1, <1>11, MsgFacts
  <2>2. m.n \in 1..sent'[s]
    BY <1>11, <2>1
  <2>3. IdSent(CmdId(m), sent')
    BY <2>1, <2>2 DEF IdSent
  <2> QED BY <1>4, <1>5, <1>11, <2>3 DEF IsSent
<1>f. ASSUME NEW dest \in Name, FirstFromClient(dest) PROVE WereSent'
  <2> DEFINE m == [kind |-> "cmd", src |-> Client, dest |-> dest, n |-> sent[Client] + 1]
  <2>1. /\ m \in Request /\ m.src = Client /\ m.n = sent[Client] + 1
        /\ sent' = [sent EXCEPT ![Client] = @ + 1]
        /\ AppendToInMsgs(<<m>>)
        /\ Client \in Sender
    BY <1>f, <1>1 DEF FirstFromClient, CountSent, Request, Sender, NewRequest
  <2> HIDE DEF m
  <2>2. Comes(m) /\ m \in Msg
    BY <1>1, <2>1, MsgFacts, Came
  <2>3. IsSent(m, sent') /\ SentBy(sent')
    BY <1>11, <2>1
  <2>4. AllSent(in_msgs', sent')
    BY <1>1, <1>10, <2>2, <2>3, ComesSent
  <2>5. SentAfter(sent')
    BY <1>f, <1>7, <1>8, <2>3, <2>4, SentFrame DEF FirstFromClient, batch, thread, ext, SentAfter
  <2> QED BY <2>5, SentAfterIs
<1>g. ASSUME NEW kind \in Kinds, NEW dest \in Name, FromRemote(kind, dest) PROVE WereSent'
  <2> DEFINE m == NewRequest(Client, kind, dest)
  <2>1. /\ m \in Request /\ m.src = Client /\ sent' = [sent EXCEPT ![Client] = @ + 1]
        /\ Sends(ResultOf(m)) \/ Sends(m)
    BY <1>g, FromRemoteSent
  <2>2. m.n = sent[Client] + 1 /\ Client \in Sender
    BY DEF NewRequest, Sender
  <2> HIDE DEF m
  <2>3. IsSent(m, sent') /\ SentBy(sent')
    BY <1>11, <2>1, <2>2
  <2>4. m \in Msg /\ ResultOf(m) \in Msg /\ IsSent(ResultOf(m), sent')
    BY <2>1, <2>3, MsgFacts, ResultSent
  <2>5. /\ \A g \in Group : AllSent(Carried(t_queue'[g]), sent')
        /\ lost' \subseteq Sender \X Nat /\ \A id \in lost' : IdSent(id, sent')
    BY <1>1, <1>10, <2>1, <2>3, <2>4, SendsSent
  <2>6. SentAfter(sent')
    BY <1>g, <1>7, <1>8, <2>3, <2>5, SentFrame DEF FromRemote, in_queue, batch, thread, ext, SentAfter
  <2> QED BY <2>6, SentAfterIs
<1>h. ASSUME NEW g \in Group, HandleInMsg(g) PROVE WereSent'
  <2> SUFFICES SentAfter(sent')
    BY SentAfterIs
  <2>1. SentBy(sent')
    BY <1>h, <1>3, <1>5 DEF HandleInMsg
  <2>2. PICK m \in MsgsTo(g) :
               /\ Takes(g, Task("msg", m))
               /\ \/ /\ m \in RequestsTo(m.dest)
                     /\ init_stage' = [init_stage EXCEPT ![m.dest] = Append(@, m)]
                     /\ UNCHANGED <<in_msgs, e_queue, pending, in_paths, delivered, out_paths>>
                  \/ /\ m \in Result
                     /\ HandleUpdate(m)
                     /\ UNCHANGED <<init_stage, in_msgs, e_queue, pending, in_paths, delivered>>
                  \/ /\ m \in RequestsTo(m.dest)
                     /\ Keeps(m.dest, m) \/ Refuses(m.dest, m) \/ Delivers(m.dest, m)
                     /\ UNCHANGED <<init_stage, out_paths>>
    BY <1>h, MsgHandled
  <2>3. m.dest \in Extension /\ m \in Msg
    BY DEF MsgsTo
  <2>4. IsSent(m, sent') /\ \A h \in Group : AllSent(Carried(t_queue'[h]), sent')
    BY <1>1, <1>10, <2>1, <2>2, TakesSent
  <2>5. UNCHANGED <<taken, put_back, lost>>
    BY <1>h DEF HandleInMsg, batch
  <2>6. CASE /\ m \in RequestsTo(m.dest)
             /\ init_stage' = [init_stage EXCEPT ![m.dest] = Append(@, m)]
             /\ UNCHANGED <<in_msgs, e_queue, pending, in_paths, delivered, out_paths>>
    <3>1. SeqsSent(init_stage', sent')
      BY <1>1, <1>10, <2>1, <2>3, <2>4, <2>6, SeqsSentAppended
    <3> QED BY <1>7, <1>8, <2>1, <2>4, <2>5, <2>6, <3>1, SentFrame DEF SentAfter
  <2>7. CASE /\ m \in Result
             /\ HandleUpdate(m)
             /\ UNCHANGED <<init_stage, in_msgs, e_queue, pending, in_paths, delivered>>
    BY <1>7, <1>9, <2>1, <2>3, <2>4, <2>5, <2>7, SentFrame DEF SentAfter
  <2>8. CASE /\ m \in RequestsTo(m.dest)
             /\ Keeps(m.dest, m) \/ Refuses(m.dest, m) \/ Delivers(m.dest, m)
             /\ UNCHANGED <<init_stage, out_paths>>
    <3>1. /\ AllSent(in_msgs', sent')
          /\ SeqsSent(pending', sent') /\ SeqsSent(delivered', sent')
          /\ \A y \in Extension : \A id \in in_paths'[y] : IdSent(id, sent')
      BY <2>1, <2>3, <2>4, <2>8, ReachedSent
    <3> QED BY <1>8, <2>1, <2>4, <2>5, <2>8, <3>1, SentFrame DEF SentAfter
  <2> QED BY <2>2, <2>6, <2>7, <2>8
<1>i. ASSUME NEW x \in Extension, Flush(x) PROVE WereSent'
  <2> SUFFICES SentAfter(sent')
    BY SentAfterIs
  <2>1. SentBy(sent')
    BY <1>i, <1>3, <1>5 DEF Flush, sender
  <2>2. PICK m \in RequestsTo(x) :
               /\ FlushTakes(x, m)
               /\ \/ /\ Gets(x, m)
                     /\ UNCHANGED <<in_msgs, e_queue, t_queue>>
                  \/ /\ \/ m.kind = "cmd" /\ Comes(ResultOf(m))
                        \/ m.kind = "data" /\ UNCHANGED <<in_msgs, e_queue>>
                     /\ Posts(GroupOf[x], Delete(x)) \/ UNCHANGED t_queue
                     /\ UNCHANGED <<delivered, in_paths>>
    BY <1>i, Flushed
  <2>3. IsSent(m, sent') /\ SeqsSent(init_stage', sent') /\ SeqsSent(pending', sent')
    <3>1. CASE /\ init_stage[x] # <<>> /\ m = Head(init_stage[x])
               /\ init_stage' = [init_stage EXCEPT ![x] = Tail(@)]
               /\ UNCHANGED pending
      BY <1>1, <1>10, <2>1, <3>1, SeqsSentTailed
    <3>2. CASE /\ pending[x] # <<>> /\ m = Head(pending[x])
               /\ pending' = [pending EXCEPT ![x] = Tail(@)]
               /\ UNCHANGED init_stage
      BY <1>1, <1>10, <2>1, <3>2, SeqsSentTailed
    <3> QED BY <2>2, <3>1, <3>2 DEF FlushTakes
  <2>4. UNCHANGED <<taken, put_back, lost, out_paths>>
    BY <1>i DEF Flush, batch, sender
  <2>5. CASE Gets(x, m) /\ UNCHANGED <<in_msgs, e_queue, t_queue>>
    <3>1. SeqsSent(delivered', sent') /\ \A y \in Extension : \A id \in in_paths'[y] : IdSent(id, sent')
      BY <1>10, <2>1, <2>3, <2>5, GetsSent
    <3> QED BY <1>8, <2>1, <2>3, <2>4, <2>5, <3>1, SentFrame DEF SentAfter
  <2>6. CASE /\ \/ m.kind = "cmd" /\ Comes(ResultOf(m))
                \/ m.kind = "data" /\ UNCHANGED <<in_msgs, e_queue>>
             /\ Posts(GroupOf[x], Delete(x)) \/ UNCHANGED t_queue
             /\ UNCHANGED <<delivered, in_paths>>
    <3>1. m \in Request /\ ResultOf(m) \in Msg /\ IsSent(ResultOf(m), sent')
      BY <2>3, MsgsToFacts, MsgFacts, ResultSent
    <3>2. AllSent(in_msgs', sent')
      BY <1>1, <1>10, <2>1, <2>6, <3>1, ComesSent
    <3>3. \A g \in Group : Idle(g)
      <4>1. GroupOf[x] \in Group /\ Delete(x) \in ThreadTasks(GroupOf[x]) /\ MsgOf(Delete(x)) = None
        BY MsgsToFacts, TaskKinds, MsgOfTask
      <4>2. UNCHANGED t_queue => \A g \in Group : Idle(g)
        BY DEF Idle
      <4> QED BY <2>6, <4>1, <4>2, PostsIdle
    <3>4. \A g \in Group : AllSent(Carried(t_queue'[g]), sent')
      BY <1>1, <1>10, <2>1, <3>3, CarriedIdle DEF QueuesSent
    <3> QED BY <1>7, <1>8, <2>1, <2>3, <2>4, <2>6, <3>2, <3>4, SentFrame DEF SentAfter
  <2> QED BY <2>2, <2>5, <2>6
<1>j. ASSUME NEW x \in Extension, NEW kind \in Kinds, NEW dest \in Name, SendRequest(x, kind, dest)
      PROVE  WereSent'
  <2> SUFFICES SentAfter(sent')
    BY SentAfterIs
  <2> DEFINE m == NewRequest(x, kind, dest)
  <2>1. /\ m \in Request /\ m.src = x /\ m.n = sent[x] + 1
        /\ sent' = [sent EXCEPT ![x] = @ + 1]
        /\ out_paths' = IF m.kind = "cmd" THEN [out_paths EXCEPT ![x] = @ \union {m.n}] ELSE out_paths
        /\ \/ /\ dest \in Extension /\ m \in RequestsTo(dest)
              /\ Keeps(dest, m) \/ Refuses(dest, m) \/ Delivers(dest, m)
           \/ /\ Comes(m) \/ Comes(ResultOf(m)) \/ UNCHANGED <<in_msgs, e_queue>>
              /\ UNCHANGED <<pending, in_paths, delivered>>
    BY <1>j, RequestSent
  <2> HIDE DEF m
  <2>2. IsSent(m, sent') /\ SentBy(sent')
    BY <1>6, <1>11, <2>1
  <2>3. m \in Msg /\ ResultOf(m) \in Msg /\ IsSent(ResultOf(m), sent')
    BY <2>1, <2>2, MsgFacts, ResultSent
  <2>4. \A y \in Extension : \A n \in out_paths'[y] : IdSent(<<y, n>>, sent')
    <3> SUFFICES ASSUME NEW y \in Extension, NEW n \in out_paths'[y] PROVE IdSent(<<y, n>>, sent')
      OBVIOUS
    <3>1. n \in out_paths[y] \/ (y = x /\ n = m.n)
      BY <1>1, <2>1
    <3>2. CASE n \in out_paths[y]
      BY <2>2, <3>2 DEF SentBy, OutPathsSent
    <3>3. CASE y = x /\ n = m.n
      <4>1. sent[x] \in Nat /\ sent'[x] = sent[x] + 1
        BY <1>1, <1>6, <2>1
      <4> QED BY <2>1, <3>3, <4>1 DEF IdSent
    <3> QED BY <3>1, <3>2, <3>3
  <2>5. UNCHANGED <<taken, put_back, t_queue, init_stage, lost>>
    BY <1>j DEF SendRequest, batch, thread
  <2>6. CASE /\ dest \in Extension /\ m \in RequestsTo(dest)
             /\ Keeps(dest, m) \/ Refuses(dest, m) \/ Delivers(dest, m)
    <3>1. /\ AllSent(in_msgs', sent')
          /\ SeqsSent(pending', sent') /\ SeqsSent(delivered', sent')
          /\ \A y \in Extension : \A id \in in_paths'[y] : IdSent(id, sent')
      BY <2>2, <2>6, ReachedSent
    <3> QED BY <2>2, <2>4, <2>5, <3>1, SentFrame DEF SentAfter
  <2>7. CASE /\ Comes(m) \/ Comes(ResultOf(m)) \/ UNCHANGED <<in_msgs, e_queue>>
             /\ UNCHANGED <<pending, in_paths, delivered>>
    <3>1. AllSent(in_msgs', sent')
      BY <1>1, <1>10, <2>2, <2>3, <2>7, ComesSent
    <3> QED BY <1>7, <2>2, <2>4, <2>5, <2>7, <3>1, SentFrame DEF SentAfter
  <2> QED BY <2>1, <2>6, <2>7
<1>k. ASSUME NEW x \in Extension, NEW cmd \in in_paths[x], ReturnResult(x, cmd) PROVE WereSent'
  <2>1. SentBy(sent')
    BY <1>k, <1>3, <1>5 DEF ReturnResult
  <2>2. PICK m \in Result :
               /\ CmdId(m) = cmd
               /\ in_paths' = [in_paths EXCEPT ![x] = @ \ {cmd}]
               /\ \/ HandleUpdate(m) /\ UNCHANGED <<in_msgs, e_queue>>
                  \/ Comes(m) /\ UNCHANGED out_paths
    BY <1>k, ResultReturned
  <2>3. m \in Msg /\ IsSent(m, sent')
    BY <1>10, <2>1, <2>2, MsgFacts DEF InPathsSent, IsSent
  <2>4. AllSent(in_msgs', sent') /\ \A y \in Extension : out_paths'[y] \subseteq out_paths[y]
    <3>1. CASE HandleUpdate(m) /\ UNCHANGED <<in_msgs, e_queue>>
      BY <1>9, <2>1, <2>3, <3>1, SentFrame
    <3>2. CASE Comes(m) /\ UNCHANGED out_paths
      BY <1>1, <1>8, <1>10, <2>1, <2>3, <3>2, ComesSent
    <3> QED BY <2>2, <3>1, <3>2
  <2>5. \A y \in Extension : in_paths'[y] \subseteq in_paths[y]
    BY <1>1, <2>2
  <2>6. SentAfter(sent')
    BY <1>k, <2>1, <2>4, <2>5, SentFrame DEF ReturnResult, batch, thread, SentAfter
  <2> QED BY <2>6, SentAfterIs
<1> QED BY <1>a, <1>b, <1>c, <1>d, <1>e, <1>f, <1>g, <1>h, <1>i, <1>j, <1>k, CalmSteps, Zenon DEF Moving

-----------------------------------------------------------------------------
(* Messages stay in the order in which they were sent.                     *)

LEMMA CountsIs ==
    ASSUME NEW x \in Extension
    PROVE  /\ Counts(x) \subseteq 1..7 /\ {1, 4, 5, 6, 7} \subseteq Counts(x)
           /\ 2 \in Counts(x) <=> WillFlush(x)
           /\ 3 \in Counts(x) <=> WillFlush(x)
BY DEF Counts

\* What is kept never counts again.
LEMMA WillFlushStep ==
    ASSUME Typed, Control, WereSent, [Next]_vars, NEW y \in Extension, WillFlush(y)'
    PROVE  WillFlush(y)
<1>1. /\ life \in [Extension -> Lives] /\ flushing = [g \in Group |-> flushing[g]]
      /\ ThreadsTyped
  BY DEF Typed, ThreadsTyped, ExtensionsTyped
<1>2. life' = life /\ flushing' = flushing => WillFlush(y)
  BY DEF WillFlush
<1>3. \A x \in Extension : GroupOf[x] \in Group
  BY MsgsToFacts
<1>a. CASE Messages
  BY <1>a, <1>2, MessagesLeave
<1>b. CASE \/ EnableExtensionSystem
           \/ \E g \in Group : FindExtensionInfo(g)
           \/ \E g \in Group : RemoveThread(g)
           \/ CloseEngine
           \/ \E g \in Group : AddAllCreatedExtensions(g)
           \/ \E g \in Group : TriggerClose(g)
           \/ \E g \in Group : OnGroupDeinitDone(g)
           \/ \E g \in Group : RemovedFromEngine(g)
  BY <1>b, <1>2 DEF EnableExtensionSystem, FindExtensionInfo, RemoveThread, CloseEngine,
     AddAllCreatedExtensions, TriggerClose, OnGroupDeinitDone, RemovedFromEngine, thread, ext
<1>c. ASSUME NEW g \in Group, StartLifeCycle(g) PROVE WillFlush(y)
  <2>1. Takes(g, StartLife)
    BY <1>c, <1>1, TaskTaken DEF StartLifeCycle, StartLife
  <2>2. Has(t_queue[g], StartLife)
    BY <1>1, <2>1, TaskTakenFrom DEF Takes, ThreadsTyped
  <2>3. t_state[g] = "created"
    BY <2>2 DEF Control, ThreadIs
  <2>4. CASE GroupOf[y] = g
    BY <2>3, <2>4 DEF Control, ExtIs, Begins, WillFlush
  <2>5. CASE GroupOf[y] # g
    BY <1>c, <2>5 DEF StartLifeCycle, ExtensionsOf, WillFlush
  <2> QED BY <2>4, <2>5
<1>d. ASSUME NEW x \in Extension, Flush(x) PROVE WillFlush(y)
  <2>1. life' = life
    BY <1>d DEF Flush
  <2>2. flushing'[GroupOf[y]] = flushing[GroupOf[y]] \/ flushing'[GroupOf[y]] = None
    <3>1. flushing' = flushing \/ flushing' = [flushing EXCEPT ![GroupOf[x]] = None]
      BY <1>d DEF Flush
    <3> QED BY <1>1, <1>3, <3>1
  <2>3. y # None
    BY MsgsToFacts
  <2> QED BY <2>1, <2>2, <2>3 DEF WillFlush
<1>e. ASSUME NEW x \in Extension, DelExtension(x) PROVE WillFlush(y)
  <2>1. life' = [life EXCEPT ![x] = "deleted"] /\ flushing' = flushing
    BY <1>e DEF DelExtension, thread
  <2> QED BY <1>1, <2>1 DEF WillFlush
<1>f. ASSUME NEW x \in Extension, OnInitDone(x) PROVE WillFlush(y)
  <2>1. /\ life[x] = "early" /\ life' = [life EXCEPT ![x] = "live"]
        /\ flushing' = flushing \/ flushing' = [flushing EXCEPT ![GroupOf[x]] = x]
    BY <1>f DEF OnInitDone
  <2>2. CASE y = x
    BY <2>1, <2>2 DEF WillFlush
  <2>3. CASE y # x
    <3>1. life'[y] = life[y]
      BY <1>1, <2>1, <2>3
    <3>2. flushing'[GroupOf[y]] = y => flushing[GroupOf[y]] = y
      BY <1>1, <1>3, <2>1, <2>3
    <3> QED BY <3>1, <3>2 DEF WillFlush
  <2> QED BY <2>2, <2>3
<1>g. ASSUME NEW x \in Extension, OnDeinit(x) PROVE WillFlush(y)
  <2>1. life' = [life EXCEPT ![x] = "deinit"] /\ flushing' = flushing
    BY <1>g DEF OnDeinit, thread
  <2> QED BY <1>1, <2>1 DEF WillFlush
<1>h. ASSUME NEW x \in Extension, Leave(x) PROVE WillFlush(y)
  <2>1. /\ life' = [life EXCEPT ![x] = "deinit_done"]
        /\ flushing' = flushing \/ flushing' = [flushing EXCEPT ![GroupOf[x]] = x]
    BY <1>h DEF Leave
  <2>2. CASE y = x
    BY <1>1, <2>1, <2>2 DEF WillFlush
  <2>3. CASE y # x
    <3>1. life'[y] = life[y]
      BY <1>1, <2>1, <2>3
    <3>2. flushing'[GroupOf[y]] = y => flushing[GroupOf[y]] = y
      BY <1>1, <1>3, <2>1, <2>3
    <3> QED BY <3>1, <3>2 DEF WillFlush
  <2> QED BY <2>2, <2>3
<1>i. ASSUME NEW x \in Extension, OnDeinitDone(x) PROVE WillFlush(y)
  <2>1. CASE Leave(x)
    BY <1>h, <2>1
  <2>2. CASE life' = [life EXCEPT ![x] = "held"] /\ flushing' = flushing
    BY <1>1, <2>2 DEF WillFlush
  <2> QED BY <1>i, <2>1, <2>2 DEF OnDeinitDone
<1>j. ASSUME NEW x \in Extension, ProxyReleased(x) PROVE WillFlush(y)
  BY <1>h, <1>j DEF ProxyReleased
<1> QED BY <1>a, <1>b, <1>c, <1>d, <1>e, <1>f, <1>g, <1>i, <1>j, Steps, Zenon DEF Messages

LEMMA CountsStep ==
    ASSUME Typed, Control, WereSent, [Next]_vars, NEW x \in Extension
    PROVE  Counts(x)' \subseteq Counts(x) /\ Counts(x)' \subseteq 1..7
<1>1. WillFlush(x)' => WillFlush(x)
  BY WillFlushStep
<1> QED BY <1>1 DEF Counts

LEMMA ThinsBy ==
    ASSUME NEW T, NEW q \in Seq(T), NEW S, NEW r,
           r = q \/ (q # <<>> /\ r = Tail(q)) \/ \E e \in T : e \notin S /\ r = Append(q, e)
    PROVE  Thins(q, r, S)
<1>1. CASE r = q
  BY <1>1, ThinsSelf
<1>2. CASE q # <<>> /\ r = Tail(q)
  BY <1>2, NumbersTail
<1>3. ASSUME NEW e \in T, e \notin S, r = Append(q, e) PROVE Thins(q, r, S)
  BY <1>3, NumbersAppended
<1> QED BY <1>1, <1>2, <1>3

LEMMA WayThins ==
    ASSUME NEW x \in Extension, NEW S, NEW on, NEW now, on \subseteq 1..7, now \subseteq on,
           Ordered(Way(x), on, S),
           Thins(delivered[x], delivered'[x], S),
           2 \in now => Thins(init_stage[x], init_stage'[x], S),
           3 \in now => Thins(pending[x], pending'[x], S),
           Thins(Carried(t_queue[GroupOf[x]]), Carried(t_queue'[GroupOf[x]]), S),
           Thins(put_back, put_back', S), Thins(taken, taken', S), Thins(in_msgs, in_msgs', S)
    PROVE  Ordered(Way(x)', now, S)
<1> DEFINE L == Way(x)
           M == <<delivered'[x], init_stage'[x], pending'[x], Carried(t_queue'[GroupOf[x]]), put_back',
                  taken', in_msgs'>>
<1>1. Way(x)' = M
  BY DEF Way, Carried, MsgOf
<1>2. /\ L[1] = delivered[x] /\ L[2] = init_stage[x] /\ L[3] = pending[x]
      /\ L[4] = Carried(t_queue[GroupOf[x]]) /\ L[5] = put_back /\ L[6] = taken /\ L[7] = in_msgs
  BY DEF Way
<1>3. /\ M[1] = delivered'[x] /\ M[2] = init_stage'[x] /\ M[3] = pending'[x]
      /\ M[4] = Carried(t_queue'[GroupOf[x]]) /\ M[5] = put_back' /\ M[6] = taken' /\ M[7] = in_msgs'
  OBVIOUS
<1>4. Ordered(L, on, S)
  OBVIOUS
<1> HIDE DEF L, M
<1>5. ASSUME NEW k \in now PROVE Thins(L[k], M[k], S)
  <2>1. k = 1 \/ k = 2 \/ k = 3 \/ k = 4 \/ k = 5 \/ k = 6 \/ k = 7
    OBVIOUS
  <2> QED BY <1>2, <1>3, <1>5, <2>1
<1>6. Ordered(M, now, S)
  BY <1>4, <1>5, OrderedThins
<1> QED BY <1>1, <1>6

LEMMA SeqWider == ASSUME NEW T, NEW U, T \subseteq U, NEW q \in Seq(T) PROVE q \in Seq(U)
<1>1. Len(q) \in Nat /\ q \in [1..Len(q) -> T]
  BY LenProperties
<1>2. q \in [1..Len(q) -> U]
  BY <1>1
<1> QED BY <1>1, <1>2, SeqDef

WayAfter(x) ==
    <<delivered'[x], init_stage'[x], pending'[x], Carried(t_queue'[GroupOf[x]]), put_back', taken', in_msgs'>>

LEMMA WayIs ==
    ASSUME NEW x \in Extension
    PROVE  /\ /\ Way(x)[1] = delivered[x] /\ Way(x)[2] = init_stage[x] /\ Way(x)[3] = pending[x]
              /\ Way(x)[4] = Carried(t_queue[GroupOf[x]]) /\ Way(x)[5] = put_back /\ Way(x)[6] = taken
              /\ Way(x)[7] = in_msgs
           /\ Way(x)' = WayAfter(x)
           /\ /\ WayAfter(x)[1] = delivered'[x] /\ WayAfter(x)[2] = init_stage'[x]
              /\ WayAfter(x)[3] = pending'[x] /\ WayAfter(x)[4] = Carried(t_queue'[GroupOf[x]])
              /\ WayAfter(x)[5] = put_back' /\ WayAfter(x)[6] = taken' /\ WayAfter(x)[7] = in_msgs'
<1>1. Way(x)' = WayAfter(x)
  BY DEF Way, WayAfter, Carried, MsgOf
<1> QED BY <1>1 DEF Way, WayAfter

LEMMA WayTyped ==
    ASSUME Typed, NEW x \in Extension
    PROVE  \A k \in 1..7 : Way(x)[k] \in Seq(Msg \union {None})
<1>1. GroupOf[x] \in Group /\ RequestsTo(x) \subseteq Msg \union {None}
      /\ MsgsTo(GroupOf[x]) \union {None} \subseteq Msg \union {None} /\ Msg \subseteq Msg \union {None}
  BY MsgsToFacts, MsgFacts
<1>2. /\ delivered[x] \in Seq(RequestsTo(x)) /\ init_stage[x] \in Seq(RequestsTo(x))
      /\ pending[x] \in Seq(RequestsTo(x))
      /\ in_msgs \in Seq(Msg) /\ taken \in Seq(Msg) /\ put_back \in Seq(Msg)
  BY DEF Typed, KeptTyped, EngineQueuesTyped
<1>3. Carried(t_queue[GroupOf[x]]) \in Seq(MsgsTo(GroupOf[x]) \union {None})
  BY <1>1, CarriedIs DEF Typed, ThreadsTyped
<1>4. /\ delivered[x] \in Seq(Msg \union {None}) /\ init_stage[x] \in Seq(Msg \union {None})
      /\ pending[x] \in Seq(Msg \union {None}) /\ Carried(t_queue[GroupOf[x]]) \in Seq(Msg \union {None})
      /\ in_msgs \in Seq(Msg \union {None}) /\ taken \in Seq(Msg \union {None})
      /\ put_back \in Seq(Msg \union {None})
  BY <1>1, <1>2, <1>3, SeqWider
<1> SUFFICES ASSUME NEW k \in 1..7 PROVE Way(x)[k] \in Seq(Msg \union {None})
  OBVIOUS
<1>5. k = 1 \/ k = 2 \/ k = 3 \/ k = 4 \/ k = 5 \/ k = 6 \/ k = 7
  OBVIOUS
<1> QED BY <1>4, <1>5, WayIs

\* A message from another place than s or to another than x moves.
LEMMA TakesThins ==
    ASSUME ThreadsTyped, NEW g \in Group, NEW t, Takes(g, t), NEW S
    PROVE  \A h \in Group : Thins(Carried(t_queue[h]), Carried(t_queue'[h]), S)
<1> SUFFICES ASSUME NEW h \in Group PROVE Thins(Carried(t_queue[h]), Carried(t_queue'[h]), S)
  OBVIOUS
<1>1. t_queue[h] \in Seq(ThreadTasks(h)) /\ Carried(t_queue[h]) \in Seq(MsgsTo(h) \union {None})
  BY CarriedIs DEF ThreadsTyped
<1>2. CASE h # g
  BY <1>2, ThinsSelf DEF Takes
<1>3. CASE h = g
  <2>1. Carried(t_queue'[h]) = Tail(Carried(t_queue[h])) /\ Carried(t_queue[h]) # <<>>
    BY <1>1, <1>3, CarriedIs DEF Takes
  <2> QED BY <1>1, <2>1, NumbersTail
<1> QED BY <1>2, <1>3

LEMMA SendsThins ==
    ASSUME ThreadsTyped, NEW m \in Msg, Sends(m), NEW S, NEW h \in Group,
           m \notin S \/ m.dest \notin Extension \/ GroupOf[m.dest] # h
    PROVE  Thins(Carried(t_queue[h]), Carried(t_queue'[h]), S)
<1>1. t_queue[h] \in Seq(ThreadTasks(h)) /\ Carried(t_queue[h]) \in Seq(MsgsTo(h) \union {None})
  BY CarriedIs DEF ThreadsTyped
<1>2. CASE t_queue'[h] = t_queue[h]
  BY <1>2, ThinsSelf
<1>3. CASE m.dest \in Extension /\ GroupOf[m.dest] = h /\ t_queue'[h] = Append(t_queue[h], Task("msg", m))
  <2>1. m \in MsgsTo(h)
    BY <1>3 DEF MsgsTo
  <2>2. Task("msg", m) \in ThreadTasks(h) /\ MsgOf(Task("msg", m)) = m
    BY <2>1, TaskKinds, MsgOfTask
  <2>3. \A t \in ThreadTasks(h) : Carried(Append(t_queue[h], t)) = Append(Carried(t_queue[h]), MsgOf(t))
    BY <1>1, CarriedIs
  <2>4. Carried(t_queue'[h]) = Append(Carried(t_queue[h]), m)
    BY <1>3, <2>2, <2>3
  <2> QED BY <1>1, <1>3, <2>1, <2>4, ThinsBy
<1>4. t_queue'[h] = t_queue[h] \/ (m.dest \in Extension /\ Posts(GroupOf[m.dest], Task("msg", m)))
  BY DEF Sends
<1>5. t_queue'[h] = t_queue[h]
      \/ (m.dest \in Extension /\ GroupOf[m.dest] = h /\ t_queue'[h] = Append(t_queue[h], Task("msg", m)))
  BY <1>4 DEF Posts
<1> QED BY <1>2, <1>3, <1>5

LEMMA ComesThins ==
    ASSUME EngineQueuesTyped, NEW S, UNCHANGED in_msgs \/ \E m \in Msg : m \notin S /\ Comes(m)
    PROVE  Thins(in_msgs, in_msgs', S)
<1>1. in_msgs \in Seq(Msg)
  BY DEF EngineQueuesTyped
<1> QED BY <1>1, ThinsBy DEF Comes

LEMMA SeqsThins ==
    ASSUME NEW f, SeqsTyped(f), NEW z \in Extension, NEW m \in RequestsTo(z), NEW S, NEW h,
           h = [f EXCEPT ![z] = Append(@, m)], NEW x \in Extension, m \notin S \/ x # z
    PROVE  Thins(f[x], h[x], S)
<1>1. h[z] = Append(f[z], m) /\ \A y \in Extension : y # z => h[y] = f[y]
  BY SeqsAppended
<1>2. f[x] \in Seq(RequestsTo(x))
  BY DEF SeqsTyped
<1> QED BY <1>1, <1>2, ThinsBy

LEMMA ReachedThins ==
    ASSUME Typed, NEW z \in Extension, NEW m \in RequestsTo(z),
           Keeps(z, m) \/ Refuses(z, m) \/ Delivers(z, m), NEW S, S \subseteq Request,
           NEW x \in Extension, m \notin S \/ x # z
    PROVE  /\ Thins(in_msgs, in_msgs', S)
           /\ Thins(pending[x], pending'[x], S)
           /\ Thins(delivered[x], delivered'[x], S)
<1>1. EngineQueuesTyped /\ SeqsTyped(pending) /\ SeqsTyped(delivered)
  BY KeptTypedIs DEF Typed
<1>2. m \in Request /\ ResultOf(m) \in Msg /\ ResultOf(m) \notin S
  <2>1. m \in Request /\ ResultOf(m) \in Result
    BY MsgsToFacts, MsgFacts
  <2> QED BY <2>1, MsgFacts
<1>3. in_msgs' = in_msgs \/ Comes(ResultOf(m))
  BY DEF Keeps, Refuses, Delivers
<1>4. Thins(in_msgs, in_msgs', S)
  BY <1>1, <1>2, <1>3, ComesThins
<1>5. Thins(pending[x], pending'[x], S)
  <2>1. CASE pending' = pending
    BY <2>1, ThinsSelf
  <2>2. CASE pending' = [pending EXCEPT ![z] = Append(@, m)]
    BY <1>1, <2>2, SeqsThins
  <2> QED BY <2>1, <2>2 DEF Keeps, Refuses, Delivers
<1>6. Thins(delivered[x], delivered'[x], S)
  <2>1. CASE delivered' = delivered
    BY <2>1, ThinsSelf
  <2>2. CASE delivered' = [delivered EXCEPT ![z] = Append(@, m)]
    BY <1>1, <2>2, SeqsThins
  <2> QED BY <2>1, <2>2 DEF Keeps, Refuses, Delivers, Gets
<1> QED BY <1>4, <1>5, <1>6

LEMMA IdleThins ==
    ASSUME Typed, \A g \in Group : Idle(g), NEW x \in Extension, NEW S, None \notin S
    PROVE  Thins(Carried(t_queue[GroupOf[x]]), Carried(t_queue'[GroupOf[x]]), S)
<1>1. ThreadsTyped /\ GroupOf[x] \in Group
  BY MsgsToFacts DEF Typed
<1> QED BY <1>1, CarriedIdle

LEMMA FromIs ==
    ASSUME NEW x \in Extension, NEW s \in Others(x)
    PROVE  /\ From(s, x) \subseteq Request /\ None \notin From(s, x)
           /\ s \in Extension /\ s # Client /\ GroupOf[s] # GroupOf[x] /\ s \in Sender
           /\ \A m \in From(s, x) : m \in Request /\ m.src = s /\ m.dest = x
           /\ \A m \in Result : m \notin From(s, x)
           /\ \A m \in Request : ResultOf(m) \in Msg /\ ResultOf(m) \notin From(s, x)
BY MsgFacts, MsgsToFacts DEF From, Others

LEMMA OrderedShrinks ==
    ASSUME NEW L, NEW on, NEW now, now \subseteq on, NEW S, Ordered(L, on, S)
    PROVE  Ordered(L, now, S)
BY DEF Ordered

\* The message m moves from the head of place j to the end of place i.
LEMMA WayMoves ==
    ASSUME Typed, NEW x \in Extension, NEW S, NEW on, NEW now, on \subseteq 1..7, now \subseteq on,
           Ordered(Way(x), on, S), NEW i \in on, NEW j \in on, i < j,
           Way(x)[j] # <<>>,
           WayAfter(x)[i] = Append(Way(x)[i], Head(Way(x)[j])), WayAfter(x)[j] = Tail(Way(x)[j]),
           \A k \in on : k # i /\ k # j => WayAfter(x)[k] = Way(x)[k],
           \A k \in on : i < k /\ k < j => Way(x)[k] = <<>>
    PROVE  Ordered(Way(x)', now, S)
<1> DEFINE L == Way(x)
           M == WayAfter(x)
           T == Msg \union {None}
<1>1. L[i] \in Seq(T) /\ L[j] \in Seq(T)
  BY WayTyped
<1>2. M = Way(x)'
  BY WayIs
<1>3. /\ Ordered(L, on, S) /\ L[j] # <<>> /\ M[i] = Append(L[i], Head(L[j])) /\ M[j] = Tail(L[j])
      /\ \A k \in on : k # i /\ k # j => M[k] = L[k]
      /\ \A k \in on : i < k /\ k < j => L[k] = <<>>
  OBVIOUS
<1> HIDE DEF L, M, T
<1>4. Ordered(M, on, S)
  BY <1>1, <1>3, OrderedMoves
<1>5. Ordered(M, now, S)
  BY <1>4, OrderedShrinks
<1> QED BY <1>2, <1>5

LEMMA TakenInSequence ==
    ASSUME Typed, Control, WereSent, NEW x \in Extension, NEW S, Ordered(Way(x), Counts(x), S),
           Counts(x)' \subseteq Counts(x), TakeInMsgs
    PROVE  Ordered(Way(x)', Counts(x)', S)
<1> DEFINE L == Way(x)
           M == WayAfter(x)
           on == Counts(x)
<1>1. /\ taken = <<>> /\ taken' = in_msgs /\ in_msgs' = <<>>
      /\ UNCHANGED <<delivered, init_stage, pending, t_queue, put_back>>
  BY DEF TakeInMsgs, EngineTask, AtTask, thread, ext
<1>2. on \subseteq 1..7 /\ {6, 7} \subseteq on
  BY CountsIs
<1>3. L[6] = <<>> /\ M[6] = L[7] /\ M[7] = <<>>
  BY <1>1, WayIs
<1>4. \A k \in on : k # 6 /\ k # 7 => M[k] = L[k]
  <2> SUFFICES ASSUME NEW k \in on, k # 6, k # 7 PROVE M[k] = L[k]
    OBVIOUS
  <2>1. k = 1 \/ k = 2 \/ k = 3 \/ k = 4 \/ k = 5
    BY <1>2
  <2> QED BY <1>1, <2>1, WayIs
<1>5. Ordered(L, on, S) /\ M = Way(x)' /\ Counts(x)' \subseteq on
  BY WayIs
<1> HIDE DEF L, M, on
<1>6. Ordered(M, on, S)
  BY <1>2, <1>3, <1>4, <1>5, OrderedTaken
<1> QED BY <1>5, <1>6, OrderedShrinks

LEMMA PutBackInSequence ==
    ASSUME Typed, Control, WereSent, NEW x \in Extension, NEW S, Ordered(Way(x), Counts(x), S),
           Counts(x)' \subseteq Counts(x), PutBack
    PROVE  Ordered(Way(x)', Counts(x)', S)
<1> DEFINE L == Way(x)
           M == WayAfter(x)
           on == Counts(x)
           T == Msg \union {None}
<1>1. /\ taken = <<>> /\ taken' = <<>> /\ in_msgs' = put_back \o in_msgs /\ put_back' = <<>>
      /\ UNCHANGED <<delivered, init_stage, pending, t_queue>>
  BY DEF PutBack, thread, ext
<1>2. on \subseteq 1..7 /\ {5, 6, 7} \subseteq on
  BY CountsIs
<1>3. L[6] = <<>> /\ M[6] = <<>> /\ M[5] = <<>> /\ M[7] = L[5] \o L[7]
  BY <1>1, WayIs
<1>4. \A k \in on : k \notin {5, 6, 7} => M[k] = L[k]
  <2> SUFFICES ASSUME NEW k \in on, k \notin {5, 6, 7} PROVE M[k] = L[k]
    OBVIOUS
  <2>1. k = 1 \/ k = 2 \/ k = 3 \/ k = 4
    BY <1>2
  <2> QED BY <1>1, <2>1, WayIs
<1>5. Ordered(L, on, S) /\ M = Way(x)' /\ Counts(x)' \subseteq on
  BY WayIs
<1>6. L[5] \in Seq(T) /\ L[7] \in Seq(T)
  BY WayTyped
<1> HIDE DEF L, M, on, T
<1>7. Ordered(M, on, S)
  BY <1>2, <1>3, <1>4, <1>5, <1>6, OrderedPutBack
<1> QED BY <1>5, <1>7, OrderedShrinks

LEMMA HandledInSequence ==
    ASSUME Typed, Control, WereSent, NEW x \in Extension, NEW s \in Others(x),
           Ordered(Way(x), Counts(x), From(s, x)),
           Counts(x)' \subseteq Counts(x), HandleTaken
    PROVE  Ordered(Way(x)', Counts(x)', From(s, x))
<1> DEFINE m == Head(taken)
           on == Counts(x)
           now == Counts(x)'
           S == From(s, x)
           g == GroupOf[x]
<1>1. /\ taken # <<>> /\ m \in Msg /\ taken' = Tail(taken)
      /\ \/ is_ready /\ m.kind = "cmd" /\ Sends(ResultOf(m)) /\ UNCHANGED put_back
         \/ is_ready /\ Sends(m) /\ UNCHANGED put_back
         \/ UNCHANGED <<put_back, t_queue>>
         \/ put_back' = Append(put_back, m) /\ UNCHANGED t_queue
  BY TakenHandled
<1>2. UNCHANGED <<in_msgs, delivered, init_stage, pending>>
  BY DEF HandleTaken, in_queue, thread, ext
<1>3. /\ ThreadsTyped /\ g \in Group /\ taken \in Seq(Msg) /\ put_back \in Seq(Msg)
      /\ t_queue[g] \in Seq(ThreadTasks(g)) /\ Carried(t_queue[g]) \in Seq(MsgsTo(g) \union {None})
  BY MsgsToFacts, CarriedIs DEF Typed, ThreadsTyped, EngineQueuesTyped
<1>4. /\ on \subseteq 1..7 /\ now \subseteq on /\ {1, 4, 5, 6, 7} \subseteq on
      /\ Ordered(Way(x), on, S) /\ 4 \in on /\ 5 \in on /\ 6 \in on
  BY CountsIs
<1>5. m.kind = "cmd" => ResultOf(m) \in Msg /\ ResultOf(m) \notin S
  BY <1>1, MsgFacts, FromIs
<1>6. Way(x)[6] = taken /\ WayAfter(x)[6] = Tail(taken) /\ Head(Way(x)[6]) = m
  BY <1>1, WayIs
<1> DEFINE Goal == Ordered(Way(x)', now, S)
<1>7. m \in S => m.dest = x
  BY FromIs
<1> SUFFICES Goal
  OBVIOUS
<1> HIDE DEF m, on, S
<1>8. ASSUME Thins(Carried(t_queue[g]), Carried(t_queue'[g]), S), Thins(put_back, put_back', S)
      PROVE  Goal
  <2>1. Thins(taken, taken', S)
    BY <1>1, <1>3, ThinsBy
  <2>2. /\ Thins(delivered[x], delivered'[x], S) /\ Thins(init_stage[x], init_stage'[x], S)
        /\ Thins(pending[x], pending'[x], S) /\ Thins(in_msgs, in_msgs', S)
    BY <1>2, ThinsSelf
  <2> QED BY <1>4, <1>8, <2>1, <2>2, WayThins
<1>9. UNCHANGED put_back => Thins(put_back, put_back', S)
  BY ThinsSelf
<1>10. UNCHANGED t_queue => Thins(Carried(t_queue[g]), Carried(t_queue'[g]), S)
  BY ThinsSelf
<1>a. CASE m.kind = "cmd" /\ Sends(ResultOf(m)) /\ UNCHANGED put_back
  <2>1. Thins(Carried(t_queue[g]), Carried(t_queue'[g]), S)
    BY <1>3, <1>5, <1>a, SendsThins
  <2> QED BY <1>8, <1>9, <1>a, <2>1
<1>b. CASE is_ready /\ Sends(m) /\ UNCHANGED put_back
  <2>1. CASE m \notin S
    <3>1. Thins(Carried(t_queue[g]), Carried(t_queue'[g]), S)
      BY <1>1, <1>3, <1>b, <2>1, SendsThins
    <3> QED BY <1>8, <1>9, <1>b, <3>1
  <2>2. CASE UNCHANGED t_queue
    BY <1>8, <1>9, <1>10, <1>b, <2>2
  <2>3. CASE m \in S /\ Posts(g, Task("msg", m))
    <3>1. m \in MsgsTo(g)
      BY <1>1, <1>7, <2>3 DEF MsgsTo
    <3>2. Task("msg", m) \in ThreadTasks(g) /\ MsgOf(Task("msg", m)) = m
      BY <3>1, <1>3, TaskKinds, MsgOfTask
    <3>3. \A t \in ThreadTasks(g) : Carried(Append(t_queue[g], t)) = Append(Carried(t_queue[g]), MsgOf(t))
      BY <1>3, CarriedIs
    <3>4. Carried(t_queue'[g]) = Append(Carried(t_queue[g]), m)
      BY <2>3, <3>2, <3>3 DEF Posts
    <3>5. put_back = <<>> /\ put_back' = put_back
      BY <1>b DEF Control, ReadyIs
    <3>6. Way(x)[6] # <<>> /\ WayAfter(x)[4] = Append(Way(x)[4], Head(Way(x)[6]))
      BY <1>1, <1>6, <3>4, WayIs
    <3>7. \A k \in on : k # 4 /\ k # 6 => WayAfter(x)[k] = Way(x)[k]
      <4> SUFFICES ASSUME NEW k \in on, k # 4, k # 6 PROVE WayAfter(x)[k] = Way(x)[k]
        OBVIOUS
      <4>1. k = 1 \/ k = 2 \/ k = 3 \/ k = 5 \/ k = 7
        BY <1>4
      <4> QED BY <1>2, <3>5, <4>1, WayIs
    <3>8. \A k \in on : 4 < k /\ k < 6 => Way(x)[k] = <<>>
      <4> SUFFICES ASSUME NEW k \in on, 4 < k, k < 6 PROVE Way(x)[k] = <<>>
        OBVIOUS
      <4>1. k = 5
        BY <1>4
      <4> QED BY <3>5, <4>1, WayIs
    <3>9. 4 < 6 /\ WayAfter(x)[6] = Tail(Way(x)[6])
      BY <1>6
    <3>10. /\ Typed /\ x \in Extension /\ on \subseteq 1..7 /\ now \subseteq on /\ Ordered(Way(x), on, S)
           /\ 4 \in on /\ 6 \in on
      BY <1>4
    <3> HIDE DEF now
    <3>11. Ordered(Way(x)', now, S)
      BY <3>6, <3>7, <3>8, <3>9, <3>10, WayMoves
    <3> QED BY <3>11 DEF now
  <2>4. m \in S => UNCHANGED t_queue \/ Posts(g, Task("msg", m))
    BY <1>7, <1>b DEF Sends
  <2> QED BY <2>1, <2>2, <2>3, <2>4
<1>c. CASE UNCHANGED <<put_back, t_queue>>
  BY <1>8, <1>9, <1>10, <1>c
<1>d. CASE put_back' = Append(put_back, m) /\ UNCHANGED t_queue
  <2>1. WayAfter(x)[5] = Append(Way(x)[5], Head(Way(x)[6])) /\ Way(x)[6] # <<>>
    BY <1>1, <1>6, <1>d, WayIs
  <2>2. \A k \in on : k # 5 /\ k # 6 => WayAfter(x)[k] = Way(x)[k]
    <3> SUFFICES ASSUME NEW k \in on, k # 5, k # 6 PROVE WayAfter(x)[k] = Way(x)[k]
      OBVIOUS
    <3>1. k = 1 \/ k = 2 \/ k = 3 \/ k = 4 \/ k = 7
      BY <1>4
    <3> QED BY <1>2, <1>d, <3>1, WayIs
  <2>3. \A k \in on : 5 < k /\ k < 6 => Way(x)[k] = <<>>
    BY <1>4
  <2>4. 5 < 6 /\ WayAfter(x)[6] = Tail(Way(x)[6])
    BY <1>6
  <2>5. /\ Typed /\ x \in Extension /\ on \subseteq 1..7 /\ now \subseteq on /\ Ordered(Way(x), on, S)
        /\ 5 \in on /\ 6 \in on
    BY <1>4
  <2> HIDE DEF now
  <2>6. Ordered(Way(x)', now, S)
    BY <2>1, <2>2, <2>3, <2>4, <2>5, WayMoves
  <2> QED BY <2>6 DEF now
<1> QED BY <1>1, <1>a, <1>b, <1>c, <1>d

LEMMA ReceivedInSequence ==
    ASSUME Typed, Control, WereSent, NEW x \in Extension, NEW s \in Others(x),
           Ordered(Way(x), Counts(x), From(s, x)),
           Counts(x)' \subseteq Counts(x), NEW h \in Group, HandleInMsg(h)
    PROVE  Ordered(Way(x)', Counts(x)', From(s, x))
<1> DEFINE on == Counts(x)
           now == Counts(x)'
           S == From(s, x)
           g == GroupOf[x]
           Goal == Ordered(Way(x)', now, S)
<1>1. PICK m \in MsgsTo(h) :
           /\ Takes(h, Task("msg", m)) /\ flushing[h] = None
           /\ \/ /\ Begins(h) /\ m \in RequestsTo(m.dest)
                 /\ init_stage' = [init_stage EXCEPT ![m.dest] = Append(@, m)]
                 /\ UNCHANGED <<in_msgs, pending, delivered>>
              \/ /\ m \in Result
                 /\ UNCHANGED <<init_stage, in_msgs, pending, delivered>>
              \/ /\ m \in RequestsTo(m.dest)
                 /\ Keeps(m.dest, m) \/ Refuses(m.dest, m) \/ Delivers(m.dest, m)
                 /\ UNCHANGED init_stage
  BY MsgHandled
<1>2. UNCHANGED <<taken, put_back>>
  BY DEF HandleInMsg, batch
<1>3. /\ ThreadsTyped /\ KeptTyped /\ EngineQueuesTyped /\ g \in Group
      /\ SeqsTyped(init_stage) /\ SeqsTyped(pending) /\ SeqsTyped(delivered)
      /\ t_queue[g] \in Seq(ThreadTasks(g))
  BY MsgsToFacts, KeptTypedIs DEF Typed, ThreadsTyped
<1>4. /\ on \subseteq 1..7 /\ now \subseteq on /\ {1, 4, 5, 6, 7} \subseteq on
      /\ Ordered(Way(x), on, S) /\ 1 \in on /\ 4 \in on
      /\ 2 \in on <=> WillFlush(x)
      /\ 3 \in on <=> WillFlush(x)
  BY CountsIs
<1>5. S \subseteq Request /\ None \notin S /\ (m \in S => m.dest = x) /\ (m \in Result => m \notin S)
  BY FromIs
<1>6. m.dest \in Extension /\ GroupOf[m.dest] = h /\ m \in Msg
  BY DEF MsgsTo
<1> SUFFICES Goal
  OBVIOUS
<1> HIDE DEF on, S
<1>7. Thins(Carried(t_queue[g]), Carried(t_queue'[g]), S)
  BY <1>1, <1>3, TakesThins
<1>8. Thins(taken, taken', S) /\ Thins(put_back, put_back', S)
  BY <1>2, ThinsSelf
<1>9. ASSUME Thins(delivered[x], delivered'[x], S), Thins(init_stage[x], init_stage'[x], S),
             3 \in on => Thins(pending[x], pending'[x], S), Thins(in_msgs, in_msgs', S)
      PROVE  Goal
  BY <1>4, <1>7, <1>8, <1>9, WayThins
<1>10. /\ UNCHANGED init_stage => Thins(init_stage[x], init_stage'[x], S)
       /\ UNCHANGED pending => Thins(pending[x], pending'[x], S)
       /\ UNCHANGED delivered => Thins(delivered[x], delivered'[x], S)
       /\ UNCHANGED in_msgs => Thins(in_msgs, in_msgs', S)
  BY ThinsSelf
<1>a. CASE m \notin S
  <2>1. CASE /\ m \in RequestsTo(m.dest)
             /\ init_stage' = [init_stage EXCEPT ![m.dest] = Append(@, m)]
             /\ UNCHANGED <<in_msgs, pending, delivered>>
    <3>1. Thins(init_stage[x], init_stage'[x], S)
      BY <1>3, <1>6, <1>a, <2>1, SeqsThins
    <3> QED BY <1>9, <1>10, <2>1, <3>1
  <2>2. CASE UNCHANGED <<init_stage, in_msgs, pending, delivered>>
    BY <1>9, <1>10, <2>2
  <2>3. CASE /\ m \in RequestsTo(m.dest)
             /\ Keeps(m.dest, m) \/ Refuses(m.dest, m) \/ Delivers(m.dest, m)
             /\ UNCHANGED init_stage
    <3>1. /\ Thins(in_msgs, in_msgs', S) /\ Thins(pending[x], pending'[x], S)
          /\ Thins(delivered[x], delivered'[x], S)
      BY <1>5, <1>6, <1>a, <2>3, ReachedThins
    <3> QED BY <1>9, <1>10, <2>3, <3>1
  <2> QED BY <1>1, <2>1, <2>2, <2>3
<1>b. CASE m \in S
  <2>1. h = g /\ m.dest = x
    BY <1>5, <1>6, <1>b
  <2>2. /\ Way(x)[4] # <<>> /\ Head(Way(x)[4]) = m /\ WayAfter(x)[4] = Tail(Way(x)[4])
    <3>1. t_queue[g] # <<>> /\ Head(t_queue[g]) = Task("msg", m) /\ t_queue'[g] = Tail(t_queue[g])
      BY <1>1, <2>1 DEF Takes
    <3>2. /\ Carried(t_queue[g]) # <<>> /\ Head(Carried(t_queue[g])) = MsgOf(Task("msg", m))
          /\ Carried(t_queue'[g]) = Tail(Carried(t_queue[g]))
      BY <1>3, <3>1, CarriedIs
    <3> QED BY <3>2, MsgOfTask, WayIs
  <2>3. WayAfter(x)[5] = Way(x)[5] /\ WayAfter(x)[6] = Way(x)[6]
    BY <1>2, WayIs
  <2>c. CASE /\ Begins(h)
             /\ init_stage' = [init_stage EXCEPT ![m.dest] = Append(@, m)]
             /\ UNCHANGED <<in_msgs, pending, delivered>>
    <3>1. life[x] = "INIT" /\ pending[x] = <<>>
      BY <2>1, <2>c DEF Control, ExtIs
    <3>2. 2 \in on /\ 3 \in on
      BY <1>4, <3>1 DEF WillFlush
    <3>3. init_stage'[x] = Append(init_stage[x], m)
      BY <2>1, <2>c DEF Typed, KeptTyped
    <3>4. WayAfter(x)[2] = Append(Way(x)[2], Head(Way(x)[4]))
      BY <2>2, <3>3, WayIs
    <3>5. \A k \in on : k # 2 /\ k # 4 => WayAfter(x)[k] = Way(x)[k]
      <4> SUFFICES ASSUME NEW k \in on, k # 2, k # 4 PROVE WayAfter(x)[k] = Way(x)[k]
        OBVIOUS
      <4>1. k = 1 \/ k = 3 \/ k = 5 \/ k = 6 \/ k = 7
        BY <1>4
      <4> QED BY <2>3, <2>c, <4>1, WayIs
    <3>6. \A k \in on : 2 < k /\ k < 4 => Way(x)[k] = <<>>
      <4> SUFFICES ASSUME NEW k \in on, 2 < k, k < 4 PROVE Way(x)[k] = <<>>
        OBVIOUS
      <4>1. k = 3
        BY <1>4
      <4> QED BY <3>1, <4>1, WayIs
    <3>7. on \subseteq 1..7 /\ now \subseteq on /\ Ordered(Way(x), on, S) /\ 2 \in on /\ 4 \in on /\ 2 < 4
      BY <1>4, <3>2
    <3> HIDE DEF now
    <3>8. Ordered(Way(x)', now, S)
      BY <2>2, <3>4, <3>5, <3>6, <3>7, WayMoves
    <3> QED BY <3>8
  <2>d. CASE Keeps(x, m) /\ UNCHANGED init_stage
    <3>1. life[x] \in {"INIT", "early"} /\ UNCHANGED <<in_msgs, delivered>>
      BY <2>d DEF Keeps
    <3>2. 3 \in on
      BY <1>4, <3>1 DEF WillFlush
    <3>3. pending'[x] = Append(pending[x], m)
      BY <2>d DEF Typed, KeptTyped, Keeps
    <3>4. WayAfter(x)[3] = Append(Way(x)[3], Head(Way(x)[4]))
      BY <2>2, <3>3, WayIs
    <3>5. \A k \in on : k # 3 /\ k # 4 => WayAfter(x)[k] = Way(x)[k]
      <4> SUFFICES ASSUME NEW k \in on, k # 3, k # 4 PROVE WayAfter(x)[k] = Way(x)[k]
        OBVIOUS
      <4>1. k = 1 \/ k = 2 \/ k = 5 \/ k = 6 \/ k = 7
        BY <1>4
      <4> QED BY <2>3, <2>d, <3>1, <4>1, WayIs
    <3>6. \A k \in on : 3 < k /\ k < 4 => Way(x)[k] = <<>>
      BY <1>4
    <3>7. on \subseteq 1..7 /\ now \subseteq on /\ Ordered(Way(x), on, S) /\ 3 \in on /\ 4 \in on /\ 3 < 4
      BY <1>4, <3>2
    <3> HIDE DEF now
    <3>8. Ordered(Way(x)', now, S)
      BY <2>2, <3>4, <3>5, <3>6, <3>7, WayMoves
    <3> QED BY <3>8
  <2>e. CASE Refuses(x, m) /\ UNCHANGED init_stage
    <3>1. ResultOf(m) \in Msg /\ ResultOf(m) \notin S
      BY <1>5, <1>b, MsgFacts
    <3>2. Thins(in_msgs, in_msgs', S)
      BY <1>3, <2>e, <3>1, ComesThins DEF Refuses
    <3> QED BY <1>9, <1>10, <2>e, <3>2 DEF Refuses
  <2>f. CASE Delivers(x, m) /\ UNCHANGED init_stage
    <3>1. life[x] = "live" /\ UNCHANGED <<in_msgs, pending>>
      BY <2>f DEF Delivers
    <3>2. 2 \notin on /\ 3 \notin on
      <4>1. x # None /\ flushing[g] = None
        BY <1>1, <2>1, MsgsToFacts
      <4> QED BY <1>4, <3>1, <4>1 DEF WillFlush
    <3>3. delivered'[x] = Append(delivered[x], m)
      BY <2>f DEF Typed, KeptTyped, Delivers, Gets
    <3>4. WayAfter(x)[1] = Append(Way(x)[1], Head(Way(x)[4]))
      BY <2>2, <3>3, WayIs
    <3>5. \A k \in on : k # 1 /\ k # 4 => WayAfter(x)[k] = Way(x)[k]
      <4> SUFFICES ASSUME NEW k \in on, k # 1, k # 4 PROVE WayAfter(x)[k] = Way(x)[k]
        OBVIOUS
      <4>1. k = 5 \/ k = 6 \/ k = 7
        BY <1>4, <3>2
      <4> QED BY <2>3, <3>1, <4>1, WayIs
    <3>6. \A k \in on : 1 < k /\ k < 4 => Way(x)[k] = <<>>
      BY <1>4, <3>2
    <3>7. on \subseteq 1..7 /\ now \subseteq on /\ Ordered(Way(x), on, S) /\ 1 \in on /\ 4 \in on /\ 1 < 4
      BY <1>4
    <3> HIDE DEF now
    <3>8. Ordered(Way(x)', now, S)
      BY <2>2, <3>4, <3>5, <3>6, <3>7, WayMoves
    <3> QED BY <3>8
  <2> QED BY <1>1, <1>5, <1>b, <2>1, <2>c, <2>d, <2>e, <2>f
<1> QED BY <1>a, <1>b

LEMMA FlushedInSequence ==
    ASSUME Typed, Control, WereSent, NEW x \in Extension, NEW s \in Others(x),
           Ordered(Way(x), Counts(x), From(s, x)),
           Counts(x)' \subseteq Counts(x), NEW y \in Extension, Flush(y)
    PROVE  Ordered(Way(x)', Counts(x)', From(s, x))
<1> DEFINE on == Counts(x)
           now == Counts(x)'
           S == From(s, x)
           g == GroupOf[x]
           Goal == Ordered(Way(x)', now, S)
<1>1. PICK m \in RequestsTo(y) :
           /\ flushing[GroupOf[y]] = y
           /\ FlushTakes(y, m)
           /\ \/ /\ life[y] = "live"
                 /\ Gets(y, m)
                 /\ UNCHANGED <<in_msgs, t_queue>>
              \/ /\ life[y] = "deinit_done"
                 /\ Comes(ResultOf(m)) \/ UNCHANGED in_msgs
                 /\ Posts(GroupOf[y], Delete(y)) \/ UNCHANGED t_queue
                 /\ UNCHANGED delivered
  BY Flushed
<1>2. UNCHANGED <<taken, put_back>>
  BY DEF Flush, batch
<1>3. /\ EngineQueuesTyped /\ g \in Group
      /\ SeqsTyped(init_stage) /\ SeqsTyped(pending) /\ SeqsTyped(delivered)
      /\ GroupOf[y] \in Group /\ y \in ExtensionsOf(GroupOf[y])
  BY MsgsToFacts, KeptTypedIs DEF Typed
<1>4. /\ on \subseteq 1..7 /\ now \subseteq on /\ {1, 4, 5, 6, 7} \subseteq on
      /\ Ordered(Way(x), on, S) /\ 1 \in on
      /\ 2 \in on <=> WillFlush(x)
      /\ 3 \in on <=> WillFlush(x)
  BY CountsIs
<1>5. S \subseteq Request /\ None \notin S /\ (m \in S => m.dest = x)
  BY FromIs
<1>6. m \in Request /\ m.dest = y /\ ResultOf(m) \in Msg /\ ResultOf(m) \notin S
  BY MsgsToFacts, MsgFacts, FromIs DEF RequestsTo
<1> SUFFICES Goal
  OBVIOUS
<1> HIDE DEF on, S
<1>7. Thins(Carried(t_queue[g]), Carried(t_queue'[g]), S)
  <2>1. \A h \in Group : Idle(h)
    <3>1. UNCHANGED t_queue => \A h \in Group : Idle(h)
      BY DEF Idle
    <3>2. Delete(y) \in ThreadTasks(GroupOf[y]) /\ MsgOf(Delete(y)) = None
      BY <1>3, TaskKinds, MsgOfTask
    <3> QED BY <1>1, <1>3, <3>1, <3>2, PostsIdle
  <2> QED BY <1>5, <2>1, IdleThins
<1>8. Thins(taken, taken', S) /\ Thins(put_back, put_back', S)
  BY <1>2, ThinsSelf
<1>9. Thins(in_msgs, in_msgs', S)
  BY <1>1, <1>3, <1>6, ComesThins
<1>10. Thins(init_stage[x], init_stage'[x], S) /\ Thins(pending[x], pending'[x], S)
  <2>1. init_stage[x] \in Seq(RequestsTo(x)) /\ pending[x] \in Seq(RequestsTo(x))
    BY <1>3 DEF SeqsTyped
  <2>2. /\ init_stage'[x] = init_stage[x] \/ (init_stage[x] # <<>> /\ init_stage'[x] = Tail(init_stage[x]))
        /\ pending'[x] = pending[x] \/ (pending[x] # <<>> /\ pending'[x] = Tail(pending[x]))
    BY <1>1, <1>3 DEF FlushTakes, SeqsTyped
  <2> QED BY <2>1, <2>2, ThinsBy
<1>11. ASSUME Thins(delivered[x], delivered'[x], S) PROVE Goal
  BY <1>4, <1>7, <1>8, <1>9, <1>10, <1>11, WayThins
<1>a. CASE m \notin S \/ delivered' = delivered
  <2>1. Thins(delivered[x], delivered'[x], S)
    <3>1. CASE delivered' = delivered
      BY <3>1, ThinsSelf
    <3>2. CASE m \notin S /\ Gets(y, m)
      BY <1>3, <3>2, SeqsThins DEF Gets
    <3> QED BY <1>1, <1>a, <3>1, <3>2
  <2> QED BY <1>11, <2>1
<1>b. CASE m \in S /\ life[y] = "live" /\ Gets(y, m) /\ UNCHANGED <<in_msgs, t_queue>>
  <2>1. y = x
    BY <1>5, <1>6, <1>b
  <2>2. 2 \in on /\ 3 \in on
    BY <1>1, <1>4, <1>b, <2>1 DEF WillFlush
  <2>3. delivered'[x] = Append(delivered[x], m)
    BY <1>b, <2>1 DEF Typed, KeptTyped, Gets
  <2>4. /\ WayAfter(x)[1] = Append(Way(x)[1], m)
        /\ WayAfter(x)[4] = Way(x)[4] /\ WayAfter(x)[5] = Way(x)[5] /\ WayAfter(x)[6] = Way(x)[6]
        /\ WayAfter(x)[7] = Way(x)[7]
    <3>1. t_queue' = t_queue /\ in_msgs' = in_msgs /\ taken' = taken /\ put_back' = put_back
      BY <1>2, <1>b
    <3>2. WayAfter(x)[1] = Append(Way(x)[1], m)
      BY <2>3, WayIs
    <3>3. WayAfter(x)[5] = Way(x)[5] /\ WayAfter(x)[6] = Way(x)[6] /\ WayAfter(x)[7] = Way(x)[7]
      BY <3>1, WayIs
    <3>4. WayAfter(x)[4] = Way(x)[4]
      BY <3>1, WayIs
    <3> QED BY <3>2, <3>3, <3>4
  <2>c. CASE /\ init_stage[x] # <<>> /\ m = Head(init_stage[x])
             /\ init_stage' = [init_stage EXCEPT ![x] = Tail(@)]
             /\ UNCHANGED pending
    <3>1. init_stage'[x] = Tail(init_stage[x])
      BY <1>3, <2>c DEF SeqsTyped
    <3>2. /\ Way(x)[2] # <<>> /\ WayAfter(x)[1] = Append(Way(x)[1], Head(Way(x)[2]))
          /\ WayAfter(x)[2] = Tail(Way(x)[2]) /\ WayAfter(x)[3] = Way(x)[3]
      BY <2>4, <2>c, <3>1, WayIs
    <3>3. \A k \in on : k # 1 /\ k # 2 => WayAfter(x)[k] = Way(x)[k]
      <4> SUFFICES ASSUME NEW k \in on, k # 1, k # 2 PROVE WayAfter(x)[k] = Way(x)[k]
        OBVIOUS
      <4>1. k = 3 \/ k = 4 \/ k = 5 \/ k = 6 \/ k = 7
        BY <1>4
      <4> QED BY <2>4, <3>2, <4>1
    <3>4. \A k \in on : 1 < k /\ k < 2 => Way(x)[k] = <<>>
      BY <1>4
    <3>5. on \subseteq 1..7 /\ now \subseteq on /\ Ordered(Way(x), on, S) /\ 1 \in on /\ 2 \in on /\ 1 < 2
      BY <1>4, <2>2
    <3> HIDE DEF now
    <3>6. Ordered(Way(x)', now, S)
      BY <3>2, <3>3, <3>4, <3>5, WayMoves
    <3> QED BY <3>6
  <2>d. CASE /\ init_stage[x] = <<>> /\ pending[x] # <<>> /\ m = Head(pending[x])
             /\ pending' = [pending EXCEPT ![x] = Tail(@)]
             /\ UNCHANGED init_stage
    <3>1. pending'[x] = Tail(pending[x])
      BY <1>3, <2>d DEF SeqsTyped
    <3>2. /\ Way(x)[3] # <<>> /\ WayAfter(x)[1] = Append(Way(x)[1], Head(Way(x)[3]))
          /\ WayAfter(x)[3] = Tail(Way(x)[3]) /\ WayAfter(x)[2] = Way(x)[2] /\ Way(x)[2] = <<>>
      BY <2>4, <2>d, <3>1, WayIs
    <3>3. \A k \in on : k # 1 /\ k # 3 => WayAfter(x)[k] = Way(x)[k]
      <4> SUFFICES ASSUME NEW k \in on, k # 1, k # 3 PROVE WayAfter(x)[k] = Way(x)[k]
        OBVIOUS
      <4>1. k = 2 \/ k = 4 \/ k = 5 \/ k = 6 \/ k = 7
        BY <1>4
      <4> QED BY <2>4, <3>2, <4>1
    <3>4. \A k \in on : 1 < k /\ k < 3 => Way(x)[k] = <<>>
      <4> SUFFICES ASSUME NEW k \in on, 1 < k, k < 3 PROVE Way(x)[k] = <<>>
        OBVIOUS
      <4>1. k = 2
        BY <1>4
      <4> QED BY <3>2, <4>1
    <3>5. on \subseteq 1..7 /\ now \subseteq on /\ Ordered(Way(x), on, S) /\ 1 \in on /\ 3 \in on /\ 1 < 3
      BY <1>4, <2>2
    <3> HIDE DEF now
    <3>6. Ordered(Way(x)', now, S)
      BY <3>2, <3>3, <3>4, <3>5, WayMoves
    <3> QED BY <3>6
  <2> QED BY <1>1, <2>1, <2>c, <2>d DEF FlushTakes
<1> QED BY <1>1, <1>a, <1>b

\* What is under way from s has a number that s has used.
LEMMA NumbersSent ==
    ASSUME Typed, WereSent, NEW x \in Extension, NEW s \in Others(x)
    PROVE  \A k \in 1..7 : \A a \in Numbers(Way(x)[k], From(s, x)) : a \in Nat /\ a < sent[s] + 1
<1>1. GroupOf[x] \in Group /\ s \in Sender /\ sent[s] \in Nat
  BY MsgsToFacts, FromIs DEF Typed, ExtensionsTyped
<1>2. \A k \in 1..7 : AllSent(Way(x)[k], sent)
  <2> SUFFICES ASSUME NEW k \in 1..7 PROVE AllSent(Way(x)[k], sent)
    OBVIOUS
  <2>1. k = 1 \/ k = 2 \/ k = 3 \/ k = 4 \/ k = 5 \/ k = 6 \/ k = 7
    OBVIOUS
  <2> QED BY <1>1, <2>1, WayIs DEF WereSent
<1> SUFFICES ASSUME NEW k \in 1..7, NEW a \in Numbers(Way(x)[k], From(s, x))
             PROVE  a \in Nat /\ a < sent[s] + 1
  OBVIOUS
<1>3. PICK i \in DOMAIN Way(x)[k] : Way(x)[k][i] \in From(s, x) /\ a = Way(x)[k][i].n
  BY DEF Numbers
<1> DEFINE m == Way(x)[k][i]
<1>4. m \in From(s, x) /\ a = m.n /\ IsSent(m, sent)
  BY <1>2, <1>3 DEF AllSent
<1> HIDE DEF m
<1>5. m \in Request /\ m # None /\ CmdId(m) = <<s, m.n>> /\ m.n \in Nat
  BY <1>4, FromIs, MsgFacts
<1>6. m.n \in 1..sent[s]
  BY <1>4, <1>5 DEF IsSent, IdSent
<1> QED BY <1>1, <1>4, <1>5, <1>6

LEMMA SentInSequence ==
    ASSUME Typed, Control, WereSent, NEW x \in Extension, NEW s \in Others(x),
           Ordered(Way(x), Counts(x), From(s, x)), Counts(x)' \subseteq Counts(x),
           NEW y \in Extension, NEW kind \in Kinds, NEW dest \in Name, SendRequest(y, kind, dest)
    PROVE  Ordered(Way(x)', Counts(x)', From(s, x))
<1> DEFINE on == Counts(x)
           now == Counts(x)'
           S == From(s, x)
           g == GroupOf[x]
           Goal == Ordered(Way(x)', now, S)
           m == NewRequest(y, kind, dest)
<1>1. /\ m \in Request /\ m.src = y /\ m.dest = dest /\ m.n = sent[y] + 1
      /\ \/ /\ dest \in Extension /\ GroupOf[dest] = GroupOf[y] /\ m \in RequestsTo(dest)
            /\ Keeps(dest, m) \/ Refuses(dest, m) \/ Delivers(dest, m)
         \/ /\ Comes(m)
            /\ UNCHANGED <<pending, delivered>>
         \/ /\ m.kind = "cmd" /\ Comes(ResultOf(m))
            /\ UNCHANGED <<pending, delivered>>
         \/ UNCHANGED <<in_msgs, pending, delivered>>
  BY RequestSent
<1>2. UNCHANGED <<taken, put_back, t_queue, init_stage>>
  BY DEF SendRequest, batch, thread
<1>3. EngineQueuesTyped
  BY DEF Typed
<1>4. /\ on \subseteq 1..7 /\ now \subseteq on /\ {1, 4, 5, 6, 7} \subseteq on
      /\ Ordered(Way(x), on, S) /\ 7 \in on
  BY CountsIs
<1>5. /\ S \subseteq Request /\ None \notin S /\ (m \in S => m.dest = x /\ m.src = s)
      /\ ResultOf(m) \in Msg /\ ResultOf(m) \notin S /\ m \in Msg
      /\ GroupOf[s] # GroupOf[x]
  BY <1>1, MsgFacts, FromIs
<1>6. \A k \in 1..7 : \A a \in Numbers(Way(x)[k], S) : a \in Nat /\ a < sent[s] + 1
  BY NumbersSent
<1> SUFFICES Goal
  OBVIOUS
<1> HIDE DEF on, S, m
<1>7. /\ Thins(taken, taken', S) /\ Thins(put_back, put_back', S)
      /\ Thins(Carried(t_queue[g]), Carried(t_queue'[g]), S)
      /\ Thins(init_stage[x], init_stage'[x], S)
  BY <1>2, ThinsSelf
<1>8. ASSUME Thins(delivered[x], delivered'[x], S), Thins(pending[x], pending'[x], S),
             Thins(in_msgs, in_msgs', S)
      PROVE  Goal
  BY <1>4, <1>7, <1>8, WayThins
<1>9. UNCHANGED <<pending, delivered>> => Thins(pending[x], pending'[x], S) /\ Thins(delivered[x], delivered'[x], S)
  BY ThinsSelf
<1>a. CASE /\ dest \in Extension /\ GroupOf[dest] = GroupOf[y] /\ m \in RequestsTo(dest)
           /\ Keeps(dest, m) \/ Refuses(dest, m) \/ Delivers(dest, m)
  <2>1. m \notin S
    BY <1>1, <1>5, <1>a
  <2>2. /\ Thins(in_msgs, in_msgs', S) /\ Thins(pending[x], pending'[x], S)
        /\ Thins(delivered[x], delivered'[x], S)
    BY <1>5, <1>a, <2>1, ReachedThins
  <2> QED BY <1>8, <2>2
<1>b. CASE Comes(m) /\ UNCHANGED <<pending, delivered>>
  <2>1. CASE m \notin S
    <3>1. Thins(in_msgs, in_msgs', S)
      BY <1>3, <1>5, <1>b, <2>1, ComesThins
    <3> QED BY <1>8, <1>9, <1>b, <3>1
  <2>2. CASE m \in S
    <3> DEFINE L == Way(x)
               M == WayAfter(x)
               T == Msg \union {None}
    <3>1. L[7] \in Seq(T) /\ m \in T
      BY <1>5, WayTyped
    <3>2. M[7] = Append(L[7], m)
      BY <1>b, WayIs DEF Comes
    <3>3. \A k \in on : k # 7 => M[k] = L[k]
      <4> SUFFICES ASSUME NEW k \in on, k # 7 PROVE M[k] = L[k]
        OBVIOUS
      <4>1. k = 1 \/ k = 2 \/ k = 3 \/ k = 4 \/ k = 5 \/ k = 6
        BY <1>4
      <4>2. /\ t_queue' = t_queue /\ taken' = taken /\ put_back' = put_back /\ init_stage' = init_stage
            /\ pending' = pending /\ delivered' = delivered
        BY <1>2, <1>b
      <4>3. k # 4 => M[k] = L[k]
        BY <4>1, <4>2, WayIs
      <4>4. k = 4 => M[k] = L[k]
        BY <4>2, WayIs
      <4> QED BY <4>3, <4>4
    <3>4. \A k \in on : \A a \in Numbers(L[k], S) : a < m.n
      BY <1>1, <1>4, <1>5, <1>6, <2>2
    <3>5. on \subseteq 1..7 /\ 7 \in on /\ Ordered(L, on, S) /\ Way(x)' = M /\ now \subseteq on
      BY <1>4, WayIs
    <3> HIDE DEF L, M, T, now
    <3>6. Ordered(M, on, S)
      BY <3>1, <3>2, <3>3, <3>4, <3>5, OrderedComes
    <3>7. Ordered(M, now, S)
      BY <3>5, <3>6, OrderedShrinks
    <3> QED BY <3>5, <3>7 DEF M
  <2> QED BY <2>1, <2>2
<1>c. CASE Comes(ResultOf(m)) /\ UNCHANGED <<pending, delivered>>
  <2>1. Thins(in_msgs, in_msgs', S)
    BY <1>3, <1>5, <1>c, ComesThins
  <2> QED BY <1>8, <1>9, <1>c, <2>1
<1>d. CASE UNCHANGED <<in_msgs, pending, delivered>>
  <2>1. Thins(in_msgs, in_msgs', S)
    BY <1>d, ThinsSelf
  <2> QED BY <1>8, <1>9, <1>d, <2>1
<1> QED BY <1>1, <1>a, <1>b, <1>c, <1>d

LEMMA InSequenceStep == Typed /\ Control /\ WereSent /\ InSequence /\ [Next]_vars => InSequence'
<1> SUFFICES ASSUME Typed, Control, WereSent, InSequence, [Next]_vars, NEW x \in Extension, NEW s \in Others(x)
             PROVE  Ordered(Way(x)', Counts(x)', From(s, x))
  <2>1. ASSUME \A x \in Extension : \A s \in Others(x) : Ordered(Way(x)', Counts(x)', From(s, x))
        PROVE  InSequence'
    <3>1. \A x \in Extension : \A s \in Others(x) : Ordered(Way(x), Counts(x), From(s, x))'
      BY <2>1 DEF Ordered, Ascends, Numbers
    <3> QED BY <3>1 DEF InSequence
  <2> QED BY <2>1
<1> DEFINE on == Counts(x)
           now == Counts(x)'
           S == From(s, x)
           g == GroupOf[x]
           Goal == Ordered(Way(x)', now, S)
<1>1. /\ on \subseteq 1..7 /\ now \subseteq on /\ Ordered(Way(x), on, S)
  BY CountsIs, CountsStep DEF InSequence
<1>2. S \subseteq Request /\ None \notin S /\ (\A m \in Result : m \notin S) /\ s # Client
      /\ \A m \in S : m.src = s
  BY FromIs
<1>3. EngineQueuesTyped /\ ThreadsTyped /\ g \in Group
  BY MsgsToFacts DEF Typed
<1> SUFFICES Goal
  OBVIOUS
<1>4. ASSUME UNCHANGED <<delivered, init_stage, pending, put_back, taken>>,
             Thins(Carried(t_queue[g]), Carried(t_queue'[g]), S), Thins(in_msgs, in_msgs', S)
      PROVE  Goal
  <2>1. /\ Thins(delivered[x], delivered'[x], S) /\ Thins(init_stage[x], init_stage'[x], S)
        /\ Thins(pending[x], pending'[x], S) /\ Thins(put_back, put_back', S) /\ Thins(taken, taken', S)
    BY <1>4, ThinsSelf
  <2> QED BY <1>1, <1>4, <2>1, WayThins
<1>5. UNCHANGED in_msgs => Thins(in_msgs, in_msgs', S)
  BY ThinsSelf
<1>6. UNCHANGED t_queue => Thins(Carried(t_queue[g]), Carried(t_queue'[g]), S)
  BY ThinsSelf
<1>a. CASE Calm
  <2>1. Thins(Carried(t_queue[g]), Carried(t_queue'[g]), S)
    BY <1>2, <1>a, IdleThins DEF Calm
  <2> QED BY <1>4, <1>5, <1>a, <2>1 DEF Calm, Boxes
<1>b. CASE TakeInMsgs
  BY <1>1, <1>b, TakenInSequence
<1>c. CASE HandleTaken
  BY <1>1, <1>c, HandledInSequence
<1>d. CASE PutBack
  BY <1>1, <1>d, PutBackInSequence
<1>e. ASSUME NEW dest \in Name, FirstFromClient(dest) PROVE Goal
  <2> DEFINE m == [kind |-> "cmd", src |-> Client, dest |-> dest, n |-> sent[Client] + 1]
  <2>1. m \in Request /\ m.src = Client /\ AppendToInMsgs(<<m>>)
    BY <1>e DEF FirstFromClient, Request, Sender, NewRequest, Typed, ExtensionsTyped
  <2> HIDE DEF m
  <2>2. m \in Msg /\ m \notin S /\ Comes(m)
    BY <1>2, <1>3, <2>1, MsgFacts, Came
  <2>3. Thins(in_msgs, in_msgs', S)
    BY <1>3, <2>2, ComesThins
  <2> QED BY <1>4, <1>6, <1>e, <2>3 DEF FirstFromClient, batch, thread, ext
<1>f. ASSUME NEW kind \in Kinds, NEW dest \in Name, FromRemote(kind, dest) PROVE Goal
  <2> DEFINE m == NewRequest(Client, kind, dest)
  <2>1. m \in Request /\ m.src = Client /\ (Sends(ResultOf(m)) \/ Sends(m))
    BY <1>f, FromRemoteSent
  <2> HIDE DEF m
  <2>2. m \in Msg /\ m \notin S /\ ResultOf(m) \in Msg /\ ResultOf(m) \notin S
    BY <1>2, <2>1, MsgFacts
  <2>3. Thins(Carried(t_queue[g]), Carried(t_queue'[g]), S)
    BY <1>3, <2>1, <2>2, SendsThins
  <2> QED BY <1>4, <1>5, <1>f, <2>3 DEF FromRemote, in_queue, batch, thread, ext
<1>g. ASSUME NEW h \in Group, HandleInMsg(h) PROVE Goal
  BY <1>1, <1>g, ReceivedInSequence
<1>h. ASSUME NEW y \in Extension, Flush(y) PROVE Goal
  BY <1>1, <1>h, FlushedInSequence
<1>i. ASSUME NEW y \in Extension, NEW kind \in Kinds, NEW dest \in Name, SendRequest(y, kind, dest) PROVE Goal
  BY <1>1, <1>i, SentInSequence
<1>j. ASSUME NEW y \in Extension, NEW cmd \in in_paths[y], ReturnResult(y, cmd) PROVE Goal
  <2>1. PICK m \in Result : Comes(m) \/ UNCHANGED in_msgs
    BY <1>j, ResultReturned
  <2>2. Thins(in_msgs, in_msgs', S)
    BY <1>2, <1>3, <2>1, MsgFacts, ComesThins
  <2> QED BY <1>4, <1>6, <1>j, <2>2 DEF ReturnResult, batch, thread
<1> HIDE DEF Goal
<1> QED BY <1>a, <1>b, <1>c, <1>d, <1>e, <1>f, <1>g, <1>h, <1>i, <1>j, CalmSteps, Zenon DEF Moving

LEMMA InSequenceInit == Init => InSequence
<1> SUFFICES ASSUME Init, NEW x \in Extension, NEW s \in Others(x)
             PROVE  Ordered(Way(x), Counts(x), From(s, x))
  BY DEF InSequence
<1>1. Carried(<<>>) = <<>>
  BY DEF Carried
<1>2. Way(x) = <<<<>>, <<>>, <<>>, <<>>, <<>>, <<>>, <<>>>>
  BY <1>1, MsgsToFacts DEF Init, Way
<1>3. \A k \in 1..7 : Way(x)[k] = <<>>
  BY <1>2
<1>4. Counts(x) \subseteq 1..7
  BY CountsIs
<1> QED BY <1>3, <1>4, NumbersNone DEF Ordered

-----------------------------------------------------------------------------
(* A command that its sender waits for is in one place, or is lost.        *)

Weight(m, id) == IF m \in WithId(id) THEN 1 ELSE 0
Fits(c, is_lost) == IF is_lost THEN InNoPlace(c) ELSE InOnePlace(c)

\* From c to d something of weight w comes to the place q; of the other places in R none
\* changes.
Arrives(c, d, q, w, R) ==
    /\ w = 0 => d[q] = c[q]
    /\ w = 1 /\ c[q] = 0 => d[q] = 1
    /\ \A r \in R : r # q => d[r] = c[r]

LEMMA OneOrNone == ASSUME NEW c, InOnePlace(c) PROVE ~InNoPlace(c)
BY DEF InOnePlace, InNoPlace

LEMMA FirstIsAll ==
    ASSUME NEW c \in [Places -> Nat], NEW is_lost \in BOOLEAN, Fits(c, is_lost), NEW p \in Places, c[p] # 0
    PROVE  ~is_lost /\ c[p] = 1 /\ \A r \in Places : r # p => c[r] = 0
<1>1. InOnePlace(c) /\ ~is_lost
  BY DEF Fits, InNoPlace
<1>2. PICK o \in Places : c[o] = 1 /\ \A r \in Places : r # o => c[r] = 0
  BY <1>1 DEF InOnePlace
<1>3. o = p
  BY <1>2
<1> QED BY <1>1, <1>2, <1>3

LEMMA MovedFits ==
    ASSUME NEW c \in [Places -> Nat], NEW d \in [Places -> Nat], NEW is_lost \in BOOLEAN, Fits(c, is_lost),
           NEW p \in Places, NEW q \in Places, p # q, NEW w \in {0, 1},
           c[p] = d[p] + w, Arrives(c, d, q, w, Places \ {p})
    PROVE  Fits(d, is_lost)
<1>1. c[p] \in Nat /\ d[p] \in Nat /\ q \in Places \ {p}
  OBVIOUS
<1>2. CASE w = 0
  <2>1. \A r \in Places : d[r] = c[r]
    BY <1>1, <1>2 DEF Arrives
  <2> QED BY <2>1 DEF Fits, InOnePlace, InNoPlace
<1>3. CASE w = 1
  <2>1. c[p] # 0
    BY <1>1, <1>3
  <2>2. ~is_lost /\ c[p] = 1 /\ \A r \in Places : r # p => c[r] = 0
    BY <2>1, FirstIsAll
  <2>3. d[p] = 0
    BY <1>1, <1>3, <2>2
  <2>4. d[q] = 1
    BY <1>3, <2>2 DEF Arrives
  <2>5. \A r \in Places : r # q => d[r] = 0
    BY <2>2, <2>3 DEF Arrives
  <2> QED BY <2>2, <2>4, <2>5 DEF Fits, InOnePlace
<1> QED BY <1>2, <1>3

LEMMA GoneFits ==
    ASSUME NEW c \in [Places -> Nat], NEW d \in [Places -> Nat], NEW is_lost \in BOOLEAN, Fits(c, is_lost),
           NEW p \in Places, NEW w \in {0, 1}, c[p] = d[p] + w, \A r \in Places : r # p => d[r] = c[r]
    PROVE  Fits(d, is_lost \/ w = 1)
<1>1. c[p] \in Nat /\ d[p] \in Nat
  OBVIOUS
<1>2. CASE w = 0
  <2>1. \A r \in Places : d[r] = c[r]
    BY <1>1, <1>2
  <2> QED BY <1>2, <2>1 DEF Fits, InOnePlace, InNoPlace
<1>3. CASE w = 1
  <2>1. c[p] # 0
    BY <1>1, <1>3
  <2>2. c[p] = 1 /\ \A r \in Places : r # p => c[r] = 0
    BY <2>1, FirstIsAll
  <2>3. d[p] = 0
    BY <1>1, <1>3, <2>2
  <2>4. InNoPlace(d)
    BY <2>2, <2>3 DEF InNoPlace
  <2> QED BY <1>3, <2>4 DEF Fits
<1> QED BY <1>2, <1>3

AtIn == <<"in_msgs", None>>
AtTaken == <<"taken", None>>
AtPutBack == <<"put_back", None>>
AtQueue(g) == <<"queue", g>>
AtStage(x) == <<"init_stage", x>>
AtPending(x) == <<"pending", x>>
AtHeld(x) == <<"held", x>>

LEMMA PlacesAre ==
    /\ AtIn \in Places /\ AtTaken \in Places /\ AtPutBack \in Places
    /\ \A g \in Group : AtQueue(g) \in Places
    /\ \A x \in Extension : AtStage(x) \in Places /\ AtPending(x) \in Places /\ AtHeld(x) \in Places
    /\ \A p \in Places : \/ p = AtIn \/ p = AtTaken \/ p = AtPutBack
                         \/ \E g \in Group : p = AtQueue(g)
                         \/ \E x \in Extension : p = AtStage(x) \/ p = AtPending(x) \/ p = AtHeld(x)
<1>1. /\ AtIn \in Places /\ AtTaken \in Places /\ AtPutBack \in Places
      /\ \A g \in Group : AtQueue(g) \in Places
      /\ \A x \in Extension : AtStage(x) \in Places /\ AtPending(x) \in Places /\ AtHeld(x) \in Places
  BY DEF Places, AtIn, AtTaken, AtPutBack, AtQueue, AtStage, AtPending, AtHeld
<1>2. ASSUME NEW p \in Places
      PROVE  \/ p = AtIn \/ p = AtTaken \/ p = AtPutBack
             \/ \E g \in Group : p = AtQueue(g)
             \/ \E x \in Extension : p = AtStage(x) \/ p = AtPending(x) \/ p = AtHeld(x)
  <2>1. CASE p \in {"in_msgs", "taken", "put_back"} \X {None}
    BY <2>1 DEF AtIn, AtTaken, AtPutBack
  <2>2. CASE p \in {"queue"} \X Group
    BY <2>2 DEF AtQueue
  <2>3. CASE p \in {"init_stage", "pending", "held"} \X Extension
    BY <2>3 DEF AtStage, AtPending, AtHeld
  <2> QED BY <2>1, <2>2, <2>3 DEF Places
<1> QED BY <1>1, <1>2

LEMMA PlacesDiffer ==
    /\ AtIn # AtTaken /\ AtIn # AtPutBack /\ AtTaken # AtPutBack
    /\ \A g : AtQueue(g) # AtIn /\ AtQueue(g) # AtTaken /\ AtQueue(g) # AtPutBack
    /\ \A x : /\ AtStage(x) # AtIn /\ AtStage(x) # AtTaken /\ AtStage(x) # AtPutBack
              /\ AtPending(x) # AtIn /\ AtPending(x) # AtTaken /\ AtPending(x) # AtPutBack
              /\ AtHeld(x) # AtIn /\ AtHeld(x) # AtTaken /\ AtHeld(x) # AtPutBack
    /\ \A x, g : AtStage(x) # AtQueue(g) /\ AtPending(x) # AtQueue(g) /\ AtHeld(x) # AtQueue(g)
    /\ \A x, y : AtStage(x) # AtPending(y) /\ AtStage(x) # AtHeld(y) /\ AtPending(x) # AtHeld(y)
    /\ \A x, y : x # y => /\ AtStage(x) # AtStage(y) /\ AtPending(x) # AtPending(y) /\ AtHeld(x) # AtHeld(y)
                          /\ AtQueue(x) # AtQueue(y)
BY DEF AtIn, AtTaken, AtPutBack, AtQueue, AtStage, AtPending, AtHeld

\* What the places hold now and after the step.
LEMMA CountedIs ==
    ASSUME NEW id
    PROVE  LET c == Counted(id)
               S == WithId(id)
           IN  /\ c[AtIn] = Count(in_msgs, S) /\ c[AtTaken] = Count(taken, S) /\ c[AtPutBack] = Count(put_back, S)
               /\ \A g \in Group : c[AtQueue(g)] = Count(Carried(t_queue[g]), S)
               /\ \A x \in Extension : /\ c[AtStage(x)] = Count(init_stage[x], S)
                                       /\ c[AtPending(x)] = Count(pending[x], S)
                                       /\ c[AtHeld(x)] = IF id \in in_paths[x] THEN 1 ELSE 0
<1> DEFINE c == Counted(id)
<1>1. \A p \in Places : c[p] = CountAt(p, id)
  BY DEF Counted
<1> HIDE DEF c
<1>2. c[AtIn] = CountAt(AtIn, id) /\ c[AtTaken] = CountAt(AtTaken, id) /\ c[AtPutBack] = CountAt(AtPutBack, id)
  BY <1>1, PlacesAre
<1>3. \A g \in Group : c[AtQueue(g)] = CountAt(AtQueue(g), id)
  BY <1>1, PlacesAre
<1>4. \A x \in Extension : /\ c[AtStage(x)] = CountAt(AtStage(x), id)
                           /\ c[AtPending(x)] = CountAt(AtPending(x), id)
                           /\ c[AtHeld(x)] = CountAt(AtHeld(x), id)
  BY <1>1, PlacesAre
<1>5. /\ CountAt(AtIn, id) = Count(in_msgs, WithId(id)) /\ CountAt(AtTaken, id) = Count(taken, WithId(id))
      /\ CountAt(AtPutBack, id) = Count(put_back, WithId(id))
  BY DEF CountAt, AtIn, AtTaken, AtPutBack
<1>6. \A g : CountAt(AtQueue(g), id) = Count(Carried(t_queue[g]), WithId(id))
  BY DEF CountAt, AtQueue
<1>7. \A x : /\ CountAt(AtStage(x), id) = Count(init_stage[x], WithId(id))
             /\ CountAt(AtPending(x), id) = Count(pending[x], WithId(id))
             /\ CountAt(AtHeld(x), id) = IF id \in in_paths[x] THEN 1 ELSE 0
  BY DEF CountAt, AtStage, AtPending, AtHeld
<1> QED BY <1>2, <1>3, <1>4, <1>5, <1>6, <1>7 DEF c

CountAfter(p, id) ==
    CASE p[1] = "in_msgs" -> Count(in_msgs', WithId(id))
      [] p[1] = "taken" -> Count(taken', WithId(id))
      [] p[1] = "put_back" -> Count(put_back', WithId(id))
      [] p[1] = "queue" -> Count(Carried(t_queue'[p[2]]), WithId(id))
      [] p[1] = "init_stage" -> Count(init_stage'[p[2]], WithId(id))
      [] p[1] = "pending" -> Count(pending'[p[2]], WithId(id))
      [] p[1] = "held" -> IF id \in in_paths'[p[2]] THEN 1 ELSE 0

CountedAfter(id) == [p \in Places |-> CountAfter(p, id)]

LEMMA AfterIs == \A id : Counted(id)' = CountedAfter(id)
<1> SUFFICES ASSUME NEW id PROVE Counted(id)' = CountedAfter(id)
  OBVIOUS
<1>1. \A p \in Places : CountAt(p, id)' = CountAfter(p, id)
  BY DEF CountAt, CountAfter, Count, Carried, MsgOf, WithId, CmdId
<1> QED BY <1>1 DEF Counted, CountedAfter

LEMMA CountedAfterIs ==
    ASSUME NEW id
    PROVE  LET d == CountedAfter(id)
               S == WithId(id)
           IN  /\ d[AtIn] = Count(in_msgs', S) /\ d[AtTaken] = Count(taken', S) /\ d[AtPutBack] = Count(put_back', S)
               /\ \A g \in Group : d[AtQueue(g)] = Count(Carried(t_queue'[g]), S)
               /\ \A x \in Extension : /\ d[AtStage(x)] = Count(init_stage'[x], S)
                                       /\ d[AtPending(x)] = Count(pending'[x], S)
                                       /\ d[AtHeld(x)] = IF id \in in_paths'[x] THEN 1 ELSE 0
<1> DEFINE c == CountedAfter(id)
<1>1. \A p \in Places : c[p] = CountAfter(p, id)
  BY DEF CountedAfter
<1> HIDE DEF c
<1>2. c[AtIn] = CountAfter(AtIn, id) /\ c[AtTaken] = CountAfter(AtTaken, id) /\ c[AtPutBack] = CountAfter(AtPutBack, id)
  BY <1>1, PlacesAre
<1>3. \A g \in Group : c[AtQueue(g)] = CountAfter(AtQueue(g), id)
  BY <1>1, PlacesAre
<1>4. \A x \in Extension : /\ c[AtStage(x)] = CountAfter(AtStage(x), id)
                           /\ c[AtPending(x)] = CountAfter(AtPending(x), id)
                           /\ c[AtHeld(x)] = CountAfter(AtHeld(x), id)
  BY <1>1, PlacesAre
<1>5. /\ CountAfter(AtIn, id) = Count(in_msgs', WithId(id)) /\ CountAfter(AtTaken, id) = Count(taken', WithId(id))
      /\ CountAfter(AtPutBack, id) = Count(put_back', WithId(id))
  BY DEF CountAfter, AtIn, AtTaken, AtPutBack
<1>6. \A g : CountAfter(AtQueue(g), id) = Count(Carried(t_queue'[g]), WithId(id))
  BY DEF CountAfter, AtQueue
<1>7. \A x : /\ CountAfter(AtStage(x), id) = Count(init_stage'[x], WithId(id))
             /\ CountAfter(AtPending(x), id) = Count(pending'[x], WithId(id))
             /\ CountAfter(AtHeld(x), id) = IF id \in in_paths'[x] THEN 1 ELSE 0
  BY DEF CountAfter, AtStage, AtPending, AtHeld
<1> QED BY <1>2, <1>3, <1>4, <1>5, <1>6, <1>7 DEF c

LEMMA CountedTyped == Typed => \A id : Counted(id) \in [Places -> Nat]
<1> SUFFICES ASSUME Typed, NEW id, NEW p \in Places PROVE Counted(id)[p] \in Nat
  BY DEF Counted
<1>1. /\ in_msgs \in Seq(Msg) /\ taken \in Seq(Msg) /\ put_back \in Seq(Msg)
      /\ \A x \in Extension : init_stage[x] \in Seq(RequestsTo(x)) /\ pending[x] \in Seq(RequestsTo(x))
  BY DEF Typed, EngineQueuesTyped, KeptTyped
<1>2. \A g \in Group : Carried(t_queue[g]) \in Seq(MsgsTo(g) \union {None})
  BY CarriedIs DEF Typed, ThreadsTyped
<1>3. /\ Count(in_msgs, WithId(id)) \in Nat /\ Count(taken, WithId(id)) \in Nat /\ Count(put_back, WithId(id)) \in Nat
      /\ \A x \in Extension : Count(init_stage[x], WithId(id)) \in Nat /\ Count(pending[x], WithId(id)) \in Nat
      /\ \A g \in Group : Count(Carried(t_queue[g]), WithId(id)) \in Nat
  BY <1>1, <1>2, CountFinite
<1>a. CASE p = AtIn \/ p = AtTaken \/ p = AtPutBack
  BY <1>3, <1>a, CountedIs
<1>b. ASSUME NEW g \in Group, p = AtQueue(g) PROVE Counted(id)[p] \in Nat
  BY <1>3, <1>b, CountedIs
<1>c. ASSUME NEW x \in Extension, p = AtStage(x) \/ p = AtPending(x) PROVE Counted(id)[p] \in Nat
  BY <1>3, <1>c, CountedIs
<1>d. ASSUME NEW x \in Extension, p = AtHeld(x) PROVE Counted(id)[p] \in Nat
  <2>1. Counted(id)[p] = IF id \in in_paths[x] THEN 1 ELSE 0
    BY <1>d, CountedIs
  <2> QED BY <2>1
<1> QED BY <1>a, <1>b, <1>c, <1>d, PlacesAre

LEMMA CountedAfterTyped == Typed' => \A id : CountedAfter(id) \in [Places -> Nat]
<1> SUFFICES ASSUME Typed', NEW id, NEW p \in Places PROVE CountedAfter(id)[p] \in Nat
  BY DEF CountedAfter
<1>1. /\ in_msgs' \in Seq(Msg) /\ taken' \in Seq(Msg) /\ put_back' \in Seq(Msg)
      /\ \A x \in Extension : init_stage'[x] \in Seq(RequestsTo(x)) /\ pending'[x] \in Seq(RequestsTo(x))
      /\ \A g \in Group : t_queue'[g] \in Seq(ThreadTasks(g))
  BY DEF Typed, EngineQueuesTyped, KeptTyped, ThreadsTyped
<1>2. \A g \in Group : Carried(t_queue'[g]) \in Seq(MsgsTo(g) \union {None})
  BY <1>1, CarriedIs
<1>3. /\ Count(in_msgs', WithId(id)) \in Nat /\ Count(taken', WithId(id)) \in Nat /\ Count(put_back', WithId(id)) \in Nat
      /\ \A x \in Extension : Count(init_stage'[x], WithId(id)) \in Nat /\ Count(pending'[x], WithId(id)) \in Nat
      /\ \A g \in Group : Count(Carried(t_queue'[g]), WithId(id)) \in Nat
  BY <1>1, <1>2, CountFinite
<1>a. CASE p = AtIn \/ p = AtTaken \/ p = AtPutBack
  BY <1>3, <1>a, CountedAfterIs
<1>b. ASSUME NEW g \in Group, p = AtQueue(g) PROVE CountedAfter(id)[p] \in Nat
  BY <1>3, <1>b, CountedAfterIs
<1>c. ASSUME NEW x \in Extension, p = AtStage(x) \/ p = AtPending(x) PROVE CountedAfter(id)[p] \in Nat
  BY <1>3, <1>c, CountedAfterIs
<1>d. ASSUME NEW x \in Extension, p = AtHeld(x) PROVE CountedAfter(id)[p] \in Nat
  <2>1. CountedAfter(id)[p] = IF id \in in_paths'[x] THEN 1 ELSE 0
    BY <1>d, CountedAfterIs
  <2> QED BY <2>1
<1> QED BY <1>a, <1>b, <1>c, <1>d, PlacesAre

LEMMA CountedFrame ==
    ASSUME NEW id
    PROVE  LET c == Counted(id)
               d == CountedAfter(id)
           IN  /\ in_msgs' = in_msgs => d[AtIn] = c[AtIn]
               /\ taken' = taken => d[AtTaken] = c[AtTaken]
               /\ put_back' = put_back => d[AtPutBack] = c[AtPutBack]
               /\ \A g \in Group : t_queue'[g] = t_queue[g] => d[AtQueue(g)] = c[AtQueue(g)]
               /\ \A x \in Extension : /\ init_stage'[x] = init_stage[x] => d[AtStage(x)] = c[AtStage(x)]
                                       /\ pending'[x] = pending[x] => d[AtPending(x)] = c[AtPending(x)]
                                       /\ in_paths'[x] = in_paths[x] => d[AtHeld(x)] = c[AtHeld(x)]
<1> DEFINE c == Counted(id)
           d == CountedAfter(id)
           S == WithId(id)
<1>1. /\ c[AtIn] = Count(in_msgs, S) /\ c[AtTaken] = Count(taken, S) /\ c[AtPutBack] = Count(put_back, S)
      /\ \A g \in Group : c[AtQueue(g)] = Count(Carried(t_queue[g]), S)
      /\ \A x \in Extension : /\ c[AtStage(x)] = Count(init_stage[x], S)
                              /\ c[AtPending(x)] = Count(pending[x], S)
                              /\ c[AtHeld(x)] = IF id \in in_paths[x] THEN 1 ELSE 0
  BY CountedIs
<1>2. /\ d[AtIn] = Count(in_msgs', S) /\ d[AtTaken] = Count(taken', S) /\ d[AtPutBack] = Count(put_back', S)
      /\ \A g \in Group : d[AtQueue(g)] = Count(Carried(t_queue'[g]), S)
      /\ \A x \in Extension : /\ d[AtStage(x)] = Count(init_stage'[x], S)
                              /\ d[AtPending(x)] = Count(pending'[x], S)
                              /\ d[AtHeld(x)] = IF id \in in_paths'[x] THEN 1 ELSE 0
  BY CountedAfterIs
<1> HIDE DEF c, d, S
<1>3. \A g \in Group : t_queue'[g] = t_queue[g] => d[AtQueue(g)] = c[AtQueue(g)]
  BY <1>1, <1>2
<1>4. \A x \in Extension : /\ init_stage'[x] = init_stage[x] => d[AtStage(x)] = c[AtStage(x)]
                           /\ pending'[x] = pending[x] => d[AtPending(x)] = c[AtPending(x)]
                           /\ in_paths'[x] = in_paths[x] => d[AtHeld(x)] = c[AtHeld(x)]
  BY <1>1, <1>2
<1> QED BY <1>1, <1>2, <1>3, <1>4 DEF c, d

LEMMA Weights ==
    ASSUME NEW id
    PROVE  /\ None \notin WithId(id)
           /\ \A m : Weight(m, id) \in {0, 1}
           /\ \A m \in Msg : Weight(m, id) = 1 <=> m.kind # "data" /\ CmdId(m) = id
           /\ \A m \in Request : /\ m.kind = "data" => Weight(m, id) = 0
                                 /\ m.kind = "cmd" => Weight(ResultOf(m), id) = Weight(m, id)
BY MsgFacts DEF Weight, WithId

LEMMA ComesCounts ==
    ASSUME EngineQueuesTyped, NEW m \in Msg, Comes(m), NEW id
    PROVE  CountedAfter(id)[AtIn] = Counted(id)[AtIn] + Weight(m, id)
<1>1. in_msgs \in Seq(Msg) /\ in_msgs' = Append(in_msgs, m)
  BY DEF EngineQueuesTyped, Comes
<1>2. Count(in_msgs', WithId(id)) = Count(in_msgs, WithId(id)) + (IF m \in WithId(id) THEN 1 ELSE 0)
  BY <1>1, CountAppended
<1> QED BY <1>2, CountedIs, CountedAfterIs DEF Weight

LEMMA TakesCounts ==
    ASSUME ThreadsTyped, NEW g \in Group, NEW m \in MsgsTo(g), Takes(g, Task("msg", m)), NEW id,
           CountedAfter(id) \in [Places -> Nat]
    PROVE  /\ Counted(id)[AtQueue(g)] = CountedAfter(id)[AtQueue(g)] + Weight(m, id)
           /\ \A h \in Group : h # g => CountedAfter(id)[AtQueue(h)] = Counted(id)[AtQueue(h)]
<1>1. t_queue[g] \in Seq(ThreadTasks(g)) /\ Carried(t_queue[g]) \in Seq(MsgsTo(g) \union {None})
  BY CarriedIs DEF ThreadsTyped
<1>2. /\ t_queue[g] # <<>> /\ Head(t_queue[g]) = Task("msg", m) /\ t_queue'[g] = Tail(t_queue[g])
      /\ \A h \in Group : h # g => t_queue'[h] = t_queue[h]
  BY DEF Takes
<1>3. /\ Carried(t_queue[g]) # <<>> /\ Head(Carried(t_queue[g])) = MsgOf(Task("msg", m))
      /\ Carried(t_queue'[g]) = Tail(Carried(t_queue[g]))
  BY <1>1, <1>2, CarriedIs
<1>4. Head(Carried(t_queue[g])) = m
  BY <1>3, MsgOfTask
<1>5. Count(Carried(t_queue[g]), WithId(id))
        = Count(Tail(Carried(t_queue[g])), WithId(id)) + (IF Head(Carried(t_queue[g])) \in WithId(id) THEN 1 ELSE 0)
  BY <1>1, <1>3, CountTail
<1>6. Count(Carried(t_queue[g]), WithId(id)) = Count(Carried(t_queue'[g]), WithId(id)) + Weight(m, id)
  BY <1>3, <1>4, <1>5 DEF Weight
<1>7. Counted(id)[AtQueue(g)] = CountedAfter(id)[AtQueue(g)] + Weight(m, id)
  BY <1>6, CountedIs, CountedAfterIs
<1> QED BY <1>2, <1>7, CountedFrame

LEMMA PostsCounts ==
    ASSUME ThreadsTyped, NEW g \in Group, NEW m \in MsgsTo(g), Posts(g, Task("msg", m)), NEW id
    PROVE  /\ CountedAfter(id)[AtQueue(g)] = Counted(id)[AtQueue(g)] + Weight(m, id)
           /\ \A h \in Group : h # g => CountedAfter(id)[AtQueue(h)] = Counted(id)[AtQueue(h)]
<1>1. t_queue[g] \in Seq(ThreadTasks(g)) /\ Carried(t_queue[g]) \in Seq(MsgsTo(g) \union {None})
  BY CarriedIs DEF ThreadsTyped
<1>2. /\ t_queue'[g] = Append(t_queue[g], Task("msg", m))
      /\ \A h \in Group : h # g => t_queue'[h] = t_queue[h]
  BY DEF Posts
<1>3. Task("msg", m) \in ThreadTasks(g) /\ MsgOf(Task("msg", m)) = m
  BY TaskKinds, MsgOfTask
<1>4. \A t \in ThreadTasks(g) : Carried(Append(t_queue[g], t)) = Append(Carried(t_queue[g]), MsgOf(t))
  BY <1>1, CarriedIs
<1>5. Carried(t_queue'[g]) = Append(Carried(t_queue[g]), m)
  BY <1>2, <1>3, <1>4
<1>6. Count(Append(Carried(t_queue[g]), m), WithId(id))
        = Count(Carried(t_queue[g]), WithId(id)) + (IF m \in WithId(id) THEN 1 ELSE 0)
  BY <1>1, CountAppended
<1>7. CountedAfter(id)[AtQueue(g)] = Counted(id)[AtQueue(g)] + Weight(m, id)
  BY <1>5, <1>6, CountedIs, CountedAfterIs DEF Weight
<1> QED BY <1>2, <1>7, CountedFrame

LEMMA IdleCounts ==
    ASSUME ThreadsTyped, \A g \in Group : Idle(g), NEW id
    PROVE  \A g \in Group : CountedAfter(id)[AtQueue(g)] = Counted(id)[AtQueue(g)]
<1> SUFFICES ASSUME NEW g \in Group PROVE CountedAfter(id)[AtQueue(g)] = Counted(id)[AtQueue(g)]
  OBVIOUS
<1>1. Count(Carried(t_queue'[g]), WithId(id)) = Count(Carried(t_queue[g]), WithId(id))
  BY CarriedIdle, Weights
<1> QED BY <1>1, CountedIs, CountedAfterIs

Heavier(a, b, w) == a = b + w

LEMMA SeqsCountsAppended ==
    ASSUME NEW f, SeqsTyped(f), NEW z \in Extension, NEW m \in RequestsTo(z), NEW h,
           h = [f EXCEPT ![z] = Append(@, m)], NEW id
    PROVE  /\ Heavier(Count(h[z], WithId(id)), Count(f[z], WithId(id)), Weight(m, id))
           /\ \A y \in Extension : y # z => h[y] = f[y]
<1>1. f[z] \in Seq(RequestsTo(z))
  BY DEF SeqsTyped
<1>2. h[z] = Append(f[z], m) /\ \A y \in Extension : y # z => h[y] = f[y]
  BY SeqsAppended
<1>3. Count(Append(f[z], m), WithId(id)) = Count(f[z], WithId(id)) + (IF m \in WithId(id) THEN 1 ELSE 0)
  BY <1>1, CountAppended
<1> QED BY <1>2, <1>3 DEF Weight, Heavier

LEMMA SeqsCountsTailed ==
    ASSUME NEW f, SeqsTyped(f), NEW z \in Extension, f[z] # <<>>, NEW h,
           h = [f EXCEPT ![z] = Tail(@)], NEW id
    PROVE  /\ Heavier(Count(f[z], WithId(id)), Count(h[z], WithId(id)), Weight(Head(f[z]), id))
           /\ \A y \in Extension : y # z => h[y] = f[y]
<1>1. f[z] \in Seq(RequestsTo(z))
  BY DEF SeqsTyped
<1>2. h[z] = Tail(f[z]) /\ \A y \in Extension : y # z => h[y] = f[y]
  BY DEF SeqsTyped
<1>3. Count(f[z], WithId(id)) = Count(Tail(f[z]), WithId(id)) + (IF Head(f[z]) \in WithId(id) THEN 1 ELSE 0)
  BY <1>1, CountTail
<1> QED BY <1>2, <1>3 DEF Weight, Heavier

QueuePlaces == {AtQueue(g) : g \in Group}
ReachedPlaces == {AtIn} \union {AtPending(x) : x \in Extension} \union {AtHeld(x) : x \in Extension}

LEMMA GetsArrives ==
    ASSUME Typed, NEW z \in Extension, NEW m \in RequestsTo(z), Gets(z, m), NEW id,
           Counted(id) \in [Places -> Nat]
    PROVE  Arrives(Counted(id), CountedAfter(id), AtHeld(z), Weight(m, id), {AtHeld(x) : x \in Extension})
<1> DEFINE c == Counted(id)
           d == CountedAfter(id)
           w == Weight(m, id)
<1>1. \A x \in Extension : /\ c[AtHeld(x)] = IF id \in in_paths[x] THEN 1 ELSE 0
                           /\ d[AtHeld(x)] = IF id \in in_paths'[x] THEN 1 ELSE 0
  BY CountedIs, CountedAfterIs
<1>2. in_paths \in [Extension -> SUBSET (Sender \X Nat)]
  BY DEF Typed, ExtensionsTyped
<1>3. m \in Request /\ m \in Msg /\ m.kind \in {"cmd", "data"}
  BY MsgsToFacts, MsgFacts
<1>4. w = 1 <=> m.kind = "cmd" /\ CmdId(m) = id
  BY <1>3, Weights
<1>5. w \in {0, 1}
  BY Weights
<1>6. \A x \in Extension : x # z => in_paths'[x] = in_paths[x]
  BY <1>2 DEF Gets
<1>7. in_paths'[z] = IF m.kind = "cmd" THEN in_paths[z] \union {CmdId(m)} ELSE in_paths[z]
  BY <1>2 DEF Gets
<1> HIDE DEF c, d, w
<1>8. w = 0 => d[AtHeld(z)] = c[AtHeld(z)]
  BY <1>1, <1>3, <1>4, <1>7
<1>9. w = 1 => d[AtHeld(z)] = 1
  BY <1>1, <1>4, <1>7
<1>10. \A r \in {AtHeld(x) : x \in Extension} : r # AtHeld(z) => d[r] = c[r]
  BY <1>1, <1>6
<1>11. Arrives(c, d, AtHeld(z), w, {AtHeld(x) : x \in Extension})
  BY <1>8, <1>9, <1>10 DEF Arrives
<1> QED BY <1>11 DEF c, d, w

LEMMA ReachedArrives ==
    ASSUME Typed, NEW z \in Extension, NEW m \in RequestsTo(z),
           Keeps(z, m) \/ Refuses(z, m) \/ Delivers(z, m), NEW id
    PROVE  \E q \in ReachedPlaces :
               Arrives(Counted(id), CountedAfter(id), q, Weight(m, id), ReachedPlaces)
<1> DEFINE c == Counted(id)
           d == CountedAfter(id)
           w == Weight(m, id)
<1>1. EngineQueuesTyped /\ SeqsTyped(pending)
  BY KeptTypedIs DEF Typed
<1>2. m \in Request /\ m \in Msg /\ ResultOf(m) \in Msg
  BY MsgsToFacts, MsgFacts
<1>3. c \in [Places -> Nat] /\ w \in {0, 1}
  BY CountedTyped, Weights
<1>4. /\ in_msgs' = in_msgs => d[AtIn] = c[AtIn]
      /\ \A x \in Extension : /\ pending'[x] = pending[x] => d[AtPending(x)] = c[AtPending(x)]
                              /\ in_paths'[x] = in_paths[x] => d[AtHeld(x)] = c[AtHeld(x)]
  BY CountedFrame
<1>5. /\ AtIn \in Places
      /\ \A x \in Extension : AtPending(x) \in Places /\ AtHeld(x) \in Places
  BY PlacesAre
<1>a. CASE Keeps(z, m)
  <2>1. /\ Count(pending'[z], WithId(id)) = Count(pending[z], WithId(id)) + w
        /\ \A y \in Extension : y # z => pending'[y] = pending[y]
    <3>1. pending' = [pending EXCEPT ![z] = Append(@, m)]
      BY <1>a DEF Keeps
    <3>2. SeqsTyped(pending) /\ m \in RequestsTo(z) /\ z \in Extension
      BY <1>1
    <3>3. Count(pending'[z], WithId(id)) = Count(pending[z], WithId(id)) + Weight(m, id)
      <4>1. Heavier(Count(pending'[z], WithId(id)), Count(pending[z], WithId(id)), Weight(m, id))
        BY <3>1, <3>2, SeqsCountsAppended
      <4> QED BY <4>1 DEF Heavier
    <3>4. \A y \in Extension : y # z => pending'[y] = pending[y]
      BY <3>1, <3>2, SeqsCountsAppended
    <3> QED BY <3>3, <3>4
  <2>2. c[AtPending(z)] = Count(pending[z], WithId(id)) /\ d[AtPending(z)] = Count(pending'[z], WithId(id))
    BY CountedIs, CountedAfterIs
  <2>3. d[AtPending(z)] = c[AtPending(z)] + w /\ c[AtPending(z)] \in Nat
    BY <1>3, <1>5, <2>1, <2>2
  <2>4. in_msgs' = in_msgs /\ in_paths' = in_paths
    BY <1>a DEF Keeps
  <2> HIDE DEF c, d, w
  <2>5. \A r \in ReachedPlaces : r # AtPending(z) => d[r] = c[r]
    <3> SUFFICES ASSUME NEW r \in ReachedPlaces, r # AtPending(z) PROVE d[r] = c[r]
      OBVIOUS
    <3>1. CASE r = AtIn
      BY <1>4, <2>4, <3>1
    <3>2. ASSUME NEW x \in Extension, r = AtPending(x) PROVE d[r] = c[r]
      BY <1>4, <2>1, <3>2
    <3>3. ASSUME NEW x \in Extension, r = AtHeld(x) PROVE d[r] = c[r]
      BY <1>4, <2>4, <3>3
    <3> QED BY <3>1, <3>2, <3>3 DEF ReachedPlaces
  <2>6. Arrives(c, d, AtPending(z), w, ReachedPlaces)
    BY <1>3, <2>3, <2>5 DEF Arrives
  <2>7. AtPending(z) \in ReachedPlaces
    BY DEF ReachedPlaces
  <2> QED BY <2>6, <2>7 DEF c, d, w
<1>b. CASE Refuses(z, m)
  <2>1. pending' = pending /\ in_paths' = in_paths
    BY <1>b DEF Refuses
  <2>2. d[AtIn] = c[AtIn] + w /\ c[AtIn] \in Nat
    <3>1. c[AtIn] \in Nat
      BY <1>3, <1>5
    <3>2. CASE m.kind = "cmd" /\ Comes(ResultOf(m))
      <4>1. d[AtIn] = c[AtIn] + Weight(ResultOf(m), id)
        BY <1>1, <1>2, <3>2, ComesCounts
      <4> QED BY <1>2, <3>1, <3>2, <4>1, Weights
    <3>3. CASE m.kind = "data" /\ in_msgs' = in_msgs
      <4>1. w = 0
        BY <1>2, <3>3, Weights
      <4> QED BY <1>4, <3>1, <3>3, <4>1
    <3> QED BY <1>b, <3>2, <3>3 DEF Refuses
  <2> HIDE DEF c, d, w
  <2>3. \A r \in ReachedPlaces : r # AtIn => d[r] = c[r]
    BY <1>4, <2>1 DEF ReachedPlaces
  <2>4. Arrives(c, d, AtIn, w, ReachedPlaces)
    BY <1>3, <2>2, <2>3 DEF Arrives
  <2>5. AtIn \in ReachedPlaces
    BY DEF ReachedPlaces
  <2> QED BY <2>4, <2>5 DEF c, d, w
<1>c. CASE Delivers(z, m)
  <2>1. pending' = pending /\ in_msgs' = in_msgs
    BY <1>c DEF Delivers
  <2>2. Arrives(c, d, AtHeld(z), w, {AtHeld(x) : x \in Extension})
    BY <1>3, <1>c, GetsArrives DEF Delivers
  <2> HIDE DEF c, d, w
  <2>3. \A r \in ReachedPlaces : r # AtHeld(z) => d[r] = c[r]
    <3> SUFFICES ASSUME NEW r \in ReachedPlaces, r # AtHeld(z) PROVE d[r] = c[r]
      OBVIOUS
    <3>1. CASE r = AtIn
      BY <1>4, <2>1, <3>1
    <3>2. ASSUME NEW x \in Extension, r = AtPending(x) PROVE d[r] = c[r]
      BY <1>4, <2>1, <3>2
    <3>3. ASSUME NEW x \in Extension, r = AtHeld(x) PROVE d[r] = c[r]
      BY <2>2, <3>3 DEF Arrives
    <3> QED BY <3>1, <3>2, <3>3 DEF ReachedPlaces
  <2>4. Arrives(c, d, AtHeld(z), w, ReachedPlaces)
    BY <2>2, <2>3 DEF Arrives
  <2>5. AtHeld(z) \in ReachedPlaces
    BY DEF ReachedPlaces
  <2> QED BY <2>4, <2>5 DEF c, d, w
<1> QED BY <1>a, <1>b, <1>c

\* What the engine sends to x, or for it, reaches a thread's queue.
LEMMA SendsArrives ==
    ASSUME Typed, Control, NEW x \in Extension, NEW n \in out_paths[x], extension_context,
           NEW m \in Msg, Sends(m), ~(m.kind = "cmd" /\ ~IsFound(m.dest))
    PROVE  /\ lost' = lost
           /\ \E g \in Group : Arrives(Counted(<<x, n>>), CountedAfter(<<x, n>>), AtQueue(g),
                                       Weight(m, <<x, n>>), QueuePlaces)
<1> DEFINE id == <<x, n>>
           c == Counted(id)
           d == CountedAfter(id)
           w == Weight(m, id)
<1>1. lost' = lost
  BY DEF Sends
<1>2. ThreadsTyped /\ GroupOf[x] \in Group /\ c \in [Places -> Nat] /\ w \in {0, 1}
  BY MsgsToFacts, CountedTyped, Weights DEF Typed
<1>3. \A g \in Group : AtQueue(g) \in Places
  BY PlacesAre
<1>4. UNCHANGED t_queue => \A g \in Group : d[AtQueue(g)] = c[AtQueue(g)]
  BY CountedFrame
<1>5. w = 1 <=> m.kind # "data" /\ CmdId(m) = id
  BY Weights
<1> SUFFICES \E g \in Group : Arrives(c, d, AtQueue(g), w, QueuePlaces)
  BY <1>1
<1>6. id[1] = x
  OBVIOUS
<1> HIDE DEF id, c, d, w
<1>7. ASSUME UNCHANGED t_queue, w = 0 PROVE \E g \in Group : Arrives(c, d, AtQueue(g), w, QueuePlaces)
  <2>1. Arrives(c, d, AtQueue(GroupOf[x]), w, QueuePlaces)
    BY <1>2, <1>4, <1>7 DEF Arrives, QueuePlaces
  <2> QED BY <1>2, <2>1
<1>a. CASE m.dest = Client /\ UNCHANGED t_queue
  <2>1. m.kind = "result"
    <3>1. m \in Request => m.dest \in Name
      BY MsgFacts
    <3>2. Client \notin Name
      BY CmdRoutingAssumption DEF Name, Sender
    <3> QED BY <1>a, <3>1, <3>2, MsgFacts
  <2>2. CmdId(m)[1] = Client
    BY <1>a, <2>1 DEF CmdId
  <2>3. x # Client
    BY MsgsToFacts
  <2> QED BY <1>2, <1>5, <1>6, <1>7, <1>a, <2>2, <2>3
<1>b. CASE m.dest \in Extension /\ Posts(GroupOf[m.dest], Task("msg", m))
  <2>1. GroupOf[m.dest] \in Group /\ m \in MsgsTo(GroupOf[m.dest])
    BY <1>b, MsgsToFacts DEF MsgsTo
  <2>2. /\ d[AtQueue(GroupOf[m.dest])] = c[AtQueue(GroupOf[m.dest])] + w
        /\ \A h \in Group : h # GroupOf[m.dest] => d[AtQueue(h)] = c[AtQueue(h)]
    BY <1>2, <1>b, <2>1, PostsCounts DEF c, d, w
  <2>3. Arrives(c, d, AtQueue(GroupOf[m.dest]), w, QueuePlaces)
    <3>1. c[AtQueue(GroupOf[m.dest])] \in Nat
      BY <1>2, <1>3, <2>1
    <3>2. \A r \in QueuePlaces : r # AtQueue(GroupOf[m.dest]) => d[r] = c[r]
      BY <2>2 DEF QueuePlaces
    <3> QED BY <1>2, <2>2, <3>1, <3>2 DEF Arrives
  <2> QED BY <2>1, <2>3
<1>c. CASE m.kind = "data" /\ UNCHANGED t_queue
  BY <1>2, <1>5, <1>7, <1>c
<1>d. CASE m.kind = "result" /\ m.dest # Client /\ ~IsFound(m.dest) /\ UNCHANGED t_queue
  <2>1. ASSUME w = 1 PROVE FALSE
    <3>1. m.dest = x
      <4>1. CmdId(m) = <<m.dest, m.n>>
        BY <1>d DEF CmdId
      <4> QED BY <1>5, <1>6, <2>1, <4>1
    <3>2. GroupOf[x] \notin threads
      BY <1>d, <3>1 DEF IsFound
    <3>3. t_state[GroupOf[x]] \in {"destroyed", "CLOSED"}
      BY <1>2, <3>2 DEF Control, ThreadIs
    <3>4. out_paths[x] = {}
      BY <3>3 DEF Control, ExtIs
    <3> QED BY <3>4
  <2> QED BY <1>2, <1>7, <1>d, <2>1
<1>8. m.kind \in {"cmd", "data", "result"}
  BY MsgFacts
<1> QED BY <1>8, <1>a, <1>b, <1>c, <1>d DEF Sends

\* The number of places with the command id fits what is lost, now and after the step.
Fitting(id) == Fits(Counted(id), id \in lost)
FittingAfter(id) == Fits(CountedAfter(id), id \in lost')
CountsTyped(id) == Counted(id) \in [Places -> Nat] /\ CountedAfter(id) \in [Places -> Nat]

LEMMA AccountedIs == Accounted <=> \A x \in Extension : \A n \in out_paths[x] : Fitting(<<x, n>>)
BY DEF Accounted, Fitting, Fits

LEMMA AccountedAfterIs ==
    ASSUME \A x \in Extension : \A n \in out_paths'[x] : FittingAfter(<<x, n>>)
    PROVE  Accounted'
<1>1. \A id : Counted(id)' = CountedAfter(id)
  BY AfterIs
<1>2. \A x \in Extension : \A n \in out_paths'[x] :
          IF <<x, n>> \in lost' THEN InNoPlace(CountedAfter(<<x, n>>)) ELSE InOnePlace(CountedAfter(<<x, n>>))
  BY DEF FittingAfter, Fits
<1>3. ASSUME NEW x \in Extension, NEW n \in out_paths'[x]
      PROVE  (IF <<x, n>> \in lost THEN InNoPlace(Counted(<<x, n>>)) ELSE InOnePlace(Counted(<<x, n>>)))'
  <2>1. \A p \in Places : Counted(<<x, n>>)'[p] = CountedAfter(<<x, n>>)[p]
    BY <1>1
  <2>2. CASE <<x, n>> \in lost'
    <3>1. \A p \in Places : CountedAfter(<<x, n>>)[p] = 0
      BY <1>2, <2>2 DEF InNoPlace
    <3> QED BY <2>1, <2>2, <3>1 DEF InNoPlace, Places
  <2>3. CASE <<x, n>> \notin lost'
    <3>1. \E p \in Places : CountedAfter(<<x, n>>)[p] = 1 /\ \A q \in Places : q # p => CountedAfter(<<x, n>>)[q] = 0
      BY <1>2, <2>3 DEF InOnePlace
    <3>2. \E p \in Places : Counted(<<x, n>>)'[p] = 1 /\ \A q \in Places : q # p => Counted(<<x, n>>)'[q] = 0
      BY <2>1, <3>1
    <3> QED BY <2>3, <3>2 DEF InOnePlace, Places
  <2> QED BY <2>2, <2>3
<1> QED BY <1>3 DEF Accounted

LEMMA FitsSame ==
    ASSUME NEW id, CountsTyped(id), Fitting(id), id \in lost' <=> id \in lost,
           \A r \in Places : CountedAfter(id)[r] = Counted(id)[r]
    PROVE  FittingAfter(id)
BY DEF FittingAfter, Fitting, Fits, InOnePlace, InNoPlace

LEMMA FitsJoined ==
    ASSUME NEW id, CountsTyped(id), Fitting(id), id \in lost' <=> id \in lost,
           NEW p \in Places, NEW q \in Places, p # q,
           CountedAfter(id)[p] + CountedAfter(id)[q] = Counted(id)[p] + Counted(id)[q],
           \A r \in Places : r # p /\ r # q => CountedAfter(id)[r] = Counted(id)[r]
    PROVE  FittingAfter(id)
<1>1. /\ InOnePlace(Counted(id)) => InOnePlace(CountedAfter(id))
      /\ InNoPlace(Counted(id)) => InNoPlace(CountedAfter(id))
  BY OnePlaceKept DEF CountsTyped
<1> QED BY <1>1 DEF FittingAfter, Fitting, Fits

LEMMA FitsMoved ==
    ASSUME NEW id, CountsTyped(id), Fitting(id), id \in lost' <=> id \in lost,
           NEW p \in Places, NEW q \in Places, p # q, NEW w \in {0, 1},
           Counted(id)[p] = CountedAfter(id)[p] + w,
           Arrives(Counted(id), CountedAfter(id), q, w, Places \ {p})
    PROVE  FittingAfter(id)
<1> DEFINE c == Counted(id)
           d == CountedAfter(id)
<1>1. /\ c \in [Places -> Nat] /\ d \in [Places -> Nat]
      /\ c[p] = d[p] + w /\ Arrives(c, d, q, w, Places \ {p})
      /\ id \in lost => Fits(c, TRUE)
      /\ id \notin lost => Fits(c, FALSE)
  BY DEF CountsTyped, Fitting, Fits
<1> HIDE DEF c, d
<1>2. \A b \in BOOLEAN : Fits(c, b) => Fits(d, b)
  BY <1>1, MovedFits
<1>3. (id \in lost => Fits(d, TRUE)) /\ (id \notin lost => Fits(d, FALSE))
  BY <1>1, <1>2
<1> QED BY <1>3 DEF FittingAfter, Fits, d

LEMMA FitsGone ==
    ASSUME NEW id, CountsTyped(id), Fitting(id), NEW w \in {0, 1}, id \in lost' <=> (id \in lost \/ w = 1),
           NEW p \in Places, Counted(id)[p] = CountedAfter(id)[p] + w,
           \A r \in Places : r # p => CountedAfter(id)[r] = Counted(id)[r]
    PROVE  FittingAfter(id)
<1> DEFINE c == Counted(id)
           d == CountedAfter(id)
<1>1. /\ c \in [Places -> Nat] /\ d \in [Places -> Nat]
      /\ c[p] = d[p] + w /\ \A r \in Places : r # p => d[r] = c[r]
      /\ id \in lost => Fits(c, TRUE)
      /\ id \notin lost => Fits(c, FALSE)
  BY DEF CountsTyped, Fitting, Fits
<1> HIDE DEF c, d
<1>2. \A b \in BOOLEAN : Fits(c, b) => Fits(d, b \/ w = 1)
  BY <1>1, GoneFits
<1>3. (id \in lost' => Fits(d, TRUE)) /\ (id \notin lost' => Fits(d, FALSE))
  <2>1. CASE w = 1
    BY <1>1, <1>2, <2>1 DEF Fits
  <2>2. CASE w = 0
    BY <1>1, <1>2, <2>2 DEF Fits
  <2> QED BY <2>1, <2>2
<1> QED BY <1>3 DEF FittingAfter, Fits, d

\* Outside of P nothing changes.
LEMMA Elsewhere ==
    ASSUME NEW c, NEW d, NEW P,
           AtIn \in P \/ d[AtIn] = c[AtIn],
           AtTaken \in P \/ d[AtTaken] = c[AtTaken],
           AtPutBack \in P \/ d[AtPutBack] = c[AtPutBack],
           \A g \in Group : AtQueue(g) \in P \/ d[AtQueue(g)] = c[AtQueue(g)],
           \A x \in Extension : AtStage(x) \in P \/ d[AtStage(x)] = c[AtStage(x)],
           \A x \in Extension : AtPending(x) \in P \/ d[AtPending(x)] = c[AtPending(x)],
           \A x \in Extension : AtHeld(x) \in P \/ d[AtHeld(x)] = c[AtHeld(x)]
    PROVE  \A r \in Places : r \notin P => d[r] = c[r]
<1> SUFFICES ASSUME NEW r \in Places, r \notin P PROVE d[r] = c[r]
  OBVIOUS
<1>1. CASE r = AtIn \/ r = AtTaken \/ r = AtPutBack
  BY <1>1
<1>2. ASSUME NEW g \in Group, r = AtQueue(g) PROVE d[r] = c[r]
  BY <1>2
<1>3. ASSUME NEW x \in Extension, r = AtStage(x) \/ r = AtPending(x) \/ r = AtHeld(x) PROVE d[r] = c[r]
  BY <1>3
<1> QED BY <1>1, <1>2, <1>3, PlacesAre

\* What is known of a command before the step, and of its counts when a variable is unchanged.
LEMMA CountsAre ==
    ASSUME Typed, Typed', NEW id
    PROVE  /\ CountsTyped(id)
           /\ in_msgs' = in_msgs => CountedAfter(id)[AtIn] = Counted(id)[AtIn]
           /\ taken' = taken => CountedAfter(id)[AtTaken] = Counted(id)[AtTaken]
           /\ put_back' = put_back => CountedAfter(id)[AtPutBack] = Counted(id)[AtPutBack]
           /\ t_queue' = t_queue =>
                 \A g \in Group : CountedAfter(id)[AtQueue(g)] = Counted(id)[AtQueue(g)]
           /\ init_stage' = init_stage =>
                 \A x \in Extension : CountedAfter(id)[AtStage(x)] = Counted(id)[AtStage(x)]
           /\ pending' = pending =>
                 \A x \in Extension : CountedAfter(id)[AtPending(x)] = Counted(id)[AtPending(x)]
           /\ in_paths' = in_paths =>
                 \A x \in Extension : CountedAfter(id)[AtHeld(x)] = Counted(id)[AtHeld(x)]
<1>1. CountsTyped(id)
  BY CountedTyped, CountedAfterTyped DEF CountsTyped
<1> QED BY <1>1, CountedFrame

LEMMA AccountedCalm ==
    ASSUME Typed, Typed', Calm, UNCHANGED <<in_paths, lost>>, NEW id, Fitting(id)
    PROVE  FittingAfter(id)
<1> DEFINE c == Counted(id)
           d == CountedAfter(id)
<1>1. /\ in_msgs' = in_msgs /\ taken' = taken /\ put_back' = put_back /\ init_stage' = init_stage
      /\ pending' = pending /\ in_paths' = in_paths /\ lost' = lost
  BY DEF Calm, Boxes
<1>2. \A g \in Group : d[AtQueue(g)] = c[AtQueue(g)]
  BY IdleCounts DEF Calm, Typed
<1>3. \A r \in Places : r \notin {} => d[r] = c[r]
  <2>1. /\ d[AtIn] = c[AtIn] /\ d[AtTaken] = c[AtTaken] /\ d[AtPutBack] = c[AtPutBack]
        /\ \A x \in Extension : d[AtStage(x)] = c[AtStage(x)]
        /\ \A x \in Extension : d[AtPending(x)] = c[AtPending(x)]
        /\ \A x \in Extension : d[AtHeld(x)] = c[AtHeld(x)]
    BY <1>1, CountsAre
  <2> DEFINE none == {}
  <2> HIDE DEF c, d, none
  <2>2. \A r \in Places : r \notin none => d[r] = c[r]
    BY <1>2, <2>1, Elsewhere
  <2> QED BY <2>2 DEF none
<1>4. CountsTyped(id)
  BY CountsAre
<1> QED BY <1>1, <1>3, <1>4, FitsSame

\* on_deinit_done(): the commands that y has got and not answered are lost.
LEMMA AccountedForgets ==
    ASSUME Typed, Typed', Calm, NEW y \in Extension, OnDeinitDone(y), NEW id, Fitting(id)
    PROVE  FittingAfter(id)
<1> DEFINE c == Counted(id)
           d == CountedAfter(id)
           w == IF id \in in_paths[y] THEN 1 ELSE 0
<1>1. /\ in_msgs' = in_msgs /\ taken' = taken /\ put_back' = put_back /\ init_stage' = init_stage
      /\ pending' = pending
  BY DEF Calm, Boxes
<1>2. \A g \in Group : d[AtQueue(g)] = c[AtQueue(g)]
  BY IdleCounts DEF Calm, Typed
<1>3. in_paths \in [Extension -> SUBSET (Sender \X Nat)]
  BY DEF Typed, ExtensionsTyped
<1>4. /\ lost' = lost \union in_paths[y] /\ in_paths'[y] = {}
      /\ \A z \in Extension : z # y => in_paths'[z] = in_paths[z]
  BY <1>3 DEF OnDeinitDone
<1>5. /\ c[AtHeld(y)] = d[AtHeld(y)] + w
      /\ \A z \in Extension : z # y => d[AtHeld(z)] = c[AtHeld(z)]
  <2>1. \A z \in Extension : /\ c[AtHeld(z)] = IF id \in in_paths[z] THEN 1 ELSE 0
                             /\ d[AtHeld(z)] = IF id \in in_paths'[z] THEN 1 ELSE 0
    BY CountedIs, CountedAfterIs
  <2> HIDE DEF c, d
  <2> QED BY <1>4, <2>1
<1>6. \A r \in Places : r \notin {AtHeld(y)} => d[r] = c[r]
  <2>1. /\ d[AtIn] = c[AtIn] /\ d[AtTaken] = c[AtTaken] /\ d[AtPutBack] = c[AtPutBack]
        /\ \A x \in Extension : d[AtStage(x)] = c[AtStage(x)]
        /\ \A x \in Extension : d[AtPending(x)] = c[AtPending(x)]
    BY <1>1, CountsAre
  <2>2. \A x \in Extension : AtHeld(x) \in {AtHeld(y)} \/ d[AtHeld(x)] = c[AtHeld(x)]
    BY <1>5
  <2> HIDE DEF c, d
  <2> QED BY <1>2, <2>1, <2>2, Elsewhere
<1>7. CountsTyped(id) /\ AtHeld(y) \in Places
  BY CountsAre, PlacesAre
<1>8. w \in {0, 1} /\ (id \in lost' <=> (id \in lost \/ w = 1))
  BY <1>4
<1> HIDE DEF w
<1> QED BY <1>5, <1>6, <1>7, <1>8, FitsGone

LEMMA AccountedTakes ==
    ASSUME Typed, Typed', TakeInMsgs, NEW id, Fitting(id)
    PROVE  FittingAfter(id)
<1> DEFINE c == Counted(id)
           d == CountedAfter(id)
<1>1. /\ taken = <<>> /\ taken' = in_msgs /\ in_msgs' = <<>> /\ put_back' = put_back /\ t_queue' = t_queue
      /\ init_stage' = init_stage /\ pending' = pending /\ in_paths' = in_paths /\ lost' = lost
  BY DEF TakeInMsgs, EngineTask, AtTask, thread, ext
<1>2. /\ c[AtIn] = Count(in_msgs, WithId(id)) /\ c[AtTaken] = 0
      /\ d[AtIn] = 0 /\ d[AtTaken] = Count(in_msgs, WithId(id))
  BY <1>1, CountedIs, CountedAfterIs, CountNone
<1>3. CountsTyped(id) /\ AtIn \in Places /\ AtTaken \in Places /\ AtIn # AtTaken
  BY CountsAre, PlacesAre, PlacesDiffer
<1>4. /\ d[AtPutBack] = c[AtPutBack]
      /\ \A g \in Group : d[AtQueue(g)] = c[AtQueue(g)]
      /\ \A x \in Extension : d[AtStage(x)] = c[AtStage(x)]
      /\ \A x \in Extension : d[AtPending(x)] = c[AtPending(x)]
      /\ \A x \in Extension : d[AtHeld(x)] = c[AtHeld(x)]
  BY <1>1, CountsAre
<1>5. c[AtIn] \in Nat /\ d[AtTaken] \in Nat
  BY <1>3 DEF CountsTyped
<1>6. d[AtIn] + d[AtTaken] = c[AtIn] + c[AtTaken]
  BY <1>2, <1>5
<1> HIDE DEF c, d
<1>7. \A r \in Places : r \notin {AtIn, AtTaken} => d[r] = c[r]
  BY <1>4, Elsewhere
<1>8. \A r \in Places : r # AtIn /\ r # AtTaken => d[r] = c[r]
  BY <1>7
<1> QED BY <1>1, <1>3, <1>6, <1>8, FitsJoined DEF c, d

LEMMA AccountedPutsBack ==
    ASSUME Typed, Typed', PutBack, NEW id, Fitting(id)
    PROVE  FittingAfter(id)
<1> DEFINE c == Counted(id)
           d == CountedAfter(id)
<1>1. /\ taken' = taken /\ in_msgs' = put_back \o in_msgs /\ put_back' = <<>> /\ t_queue' = t_queue
      /\ init_stage' = init_stage /\ pending' = pending /\ in_paths' = in_paths /\ lost' = lost
  BY DEF PutBack, thread, ext
<1>2. in_msgs \in Seq(Msg) /\ put_back \in Seq(Msg)
  BY DEF Typed, EngineQueuesTyped
<1>3. Count(put_back \o in_msgs, WithId(id)) = Count(put_back, WithId(id)) + Count(in_msgs, WithId(id))
  BY <1>2, CountJoined
<1>4. /\ c[AtIn] = Count(in_msgs, WithId(id)) /\ c[AtPutBack] = Count(put_back, WithId(id))
      /\ d[AtIn] = Count(put_back \o in_msgs, WithId(id)) /\ d[AtPutBack] = 0
  BY <1>1, CountedIs, CountedAfterIs, CountNone
<1>5. CountsTyped(id) /\ AtIn \in Places /\ AtPutBack \in Places /\ AtIn # AtPutBack
  BY CountsAre, PlacesAre, PlacesDiffer
<1>6. /\ d[AtTaken] = c[AtTaken]
      /\ \A g \in Group : d[AtQueue(g)] = c[AtQueue(g)]
      /\ \A x \in Extension : d[AtStage(x)] = c[AtStage(x)]
      /\ \A x \in Extension : d[AtPending(x)] = c[AtPending(x)]
      /\ \A x \in Extension : d[AtHeld(x)] = c[AtHeld(x)]
  BY <1>1, CountsAre
<1>7. c[AtIn] \in Nat /\ c[AtPutBack] \in Nat
  BY <1>5 DEF CountsTyped
<1>8. d[AtIn] + d[AtPutBack] = c[AtIn] + c[AtPutBack]
  <2> HIDE DEF c, d
  <2> QED BY <1>3, <1>4, <1>7
<1> HIDE DEF c, d
<1>9. \A r \in Places : r \notin {AtIn, AtPutBack} => d[r] = c[r]
  BY <1>6, Elsewhere
<1>10. \A r \in Places : r # AtIn /\ r # AtPutBack => d[r] = c[r]
  BY <1>9
<1> QED BY <1>1, <1>5, <1>8, <1>10, FitsJoined DEF c, d

LEMMA AccountedHandles ==
    ASSUME Typed, Typed', Control, HandleTaken,
           NEW x \in Extension, NEW n \in out_paths[x], Fitting(<<x, n>>)
    PROVE  FittingAfter(<<x, n>>)
<1> DEFINE id == <<x, n>>
           c == Counted(id)
           d == CountedAfter(id)
           m == Head(taken)
           w == Weight(m, id)
<1>1. /\ in_msgs' = in_msgs /\ init_stage' = init_stage /\ pending' = pending /\ in_paths' = in_paths
  BY DEF HandleTaken, in_queue, thread, ext
<1>2. /\ taken # <<>> /\ m \in Msg /\ taken' = Tail(taken)
      /\ \/ /\ is_ready /\ m.kind = "cmd" /\ ~IsFound(m.dest)
            /\ Sends(ResultOf(m)) /\ put_back' = put_back
         \/ /\ is_ready /\ ~(extension_context /\ m.kind = "cmd" /\ ~IsFound(m.dest))
            /\ Sends(m) /\ put_back' = put_back
         \/ /\ ~is_ready /\ m.kind = "result"
            /\ lost' = lost \union {CmdId(m)}
            /\ put_back' = put_back /\ t_queue' = t_queue
         \/ /\ ~is_ready /\ m.kind # "result"
            /\ put_back' = Append(put_back, m)
            /\ t_queue' = t_queue /\ lost' = lost
  BY TakenHandled
<1>3. is_ready => extension_context
  BY DEF Control, ReadyIs
<1>4. taken \in Seq(Msg) /\ put_back \in Seq(Msg)
  BY DEF Typed, EngineQueuesTyped
<1>5. Count(taken, WithId(id)) = Count(Tail(taken), WithId(id)) + (IF m \in WithId(id) THEN 1 ELSE 0)
  BY <1>2, <1>4, CountTail
<1>6. c[AtTaken] = Count(taken, WithId(id)) /\ d[AtTaken] = Count(Tail(taken), WithId(id))
  BY <1>2, CountedIs, CountedAfterIs
<1>7. c[AtTaken] = d[AtTaken] + w
  BY <1>5, <1>6 DEF Weight
<1>8. CountsTyped(id) /\ c \in [Places -> Nat] /\ Fitting(id) /\ w \in {0, 1}
  BY CountsAre, Weights DEF CountsTyped
<1>9. /\ AtTaken \in Places /\ AtPutBack \in Places /\ AtTaken # AtPutBack
      /\ \A g \in Group : AtQueue(g) \in Places /\ AtQueue(g) # AtTaken
  BY PlacesAre, PlacesDiffer
<1>10. /\ d[AtIn] = c[AtIn]
       /\ put_back' = put_back => d[AtPutBack] = c[AtPutBack]
       /\ t_queue' = t_queue => \A g \in Group : d[AtQueue(g)] = c[AtQueue(g)]
       /\ \A z \in Extension : d[AtStage(z)] = c[AtStage(z)]
       /\ \A z \in Extension : d[AtPending(z)] = c[AtPending(z)]
       /\ \A z \in Extension : d[AtHeld(z)] = c[AtHeld(z)]
  BY <1>1, CountsAre
<1>11. w = 1 <=> m.kind # "data" /\ CmdId(m) = id
  BY <1>2, Weights
<1>12. m.kind = "cmd" => m \in Request /\ ResultOf(m) \in Msg /\ ResultOf(m).kind = "result" /\ Weight(ResultOf(m), id) = w
  <2>1. m.kind = "cmd" => m \in Request
    BY <1>2, MsgFacts
  <2> QED BY <2>1, Weights, MsgFacts DEF ResultOf
<1>13. ASSUME NEW k \in Msg, Sends(k), ~(k.kind = "cmd" /\ ~IsFound(k.dest)), extension_context
       PROVE  lost' = lost /\ \E g \in Group : Arrives(c, d, AtQueue(g), Weight(k, id), QueuePlaces)
  BY <1>13, SendsArrives
<1> SUFFICES FittingAfter(id)
  OBVIOUS
<1> HIDE DEF id, m, w, c, d
<1>14. ASSUME NEW q \in Places, q # AtTaken, lost' = lost, Arrives(c, d, q, w, Places \ {AtTaken})
       PROVE  FittingAfter(id)
  BY <1>7, <1>8, <1>9, <1>14, FitsMoved DEF c, d
<1>15. ASSUME lost' = lost, put_back' = put_back, NEW g \in Group, Arrives(c, d, AtQueue(g), w, QueuePlaces)
       PROVE  FittingAfter(id)
  <2> DEFINE P == QueuePlaces \union {AtTaken}
  <2>1. AtTaken \in P /\ \A h \in Group : AtQueue(h) \in P
    BY DEF QueuePlaces
  <2>2. \A r \in P : r # AtTaken => r \in QueuePlaces
    OBVIOUS
  <2> HIDE DEF P
  <2>3. \A r \in Places : r \notin P => d[r] = c[r]
    BY <1>10, <1>15, <2>1, Elsewhere
  <2>4. Arrives(c, d, AtQueue(g), w, Places \ {AtTaken})
    BY <1>15, <2>2, <2>3 DEF Arrives
  <2> QED BY <1>9, <1>14, <1>15, <2>4
<1>a. CASE is_ready /\ m.kind = "cmd" /\ Sends(ResultOf(m)) /\ put_back' = put_back
  <2>1. lost' = lost /\ \E g \in Group : Arrives(c, d, AtQueue(g), w, QueuePlaces)
    BY <1>a, <1>3, <1>12, <1>13
  <2> QED BY <1>a, <1>15, <2>1
<1>b. CASE /\ is_ready /\ ~(extension_context /\ m.kind = "cmd" /\ ~IsFound(m.dest))
           /\ Sends(m) /\ put_back' = put_back
  <2>1. lost' = lost /\ \E g \in Group : Arrives(c, d, AtQueue(g), w, QueuePlaces)
    BY <1>b, <1>2, <1>3, <1>13 DEF w
  <2> QED BY <1>b, <1>15, <2>1
<1>c. CASE m.kind = "result" /\ lost' = lost \union {CmdId(m)} /\ put_back' = put_back /\ t_queue' = t_queue
  <2>1. \A r \in Places : r \notin {AtTaken} => d[r] = c[r]
    BY <1>c, <1>10, Elsewhere
  <2>2. \A r \in Places : r # AtTaken => d[r] = c[r]
    BY <2>1
  <2>3. id \in lost' <=> (id \in lost \/ w = 1)
    BY <1>c, <1>11
  <2> QED BY <1>7, <1>8, <1>9, <2>2, <2>3, FitsGone DEF c, d
<1>d. CASE put_back' = Append(put_back, m) /\ t_queue' = t_queue /\ lost' = lost
  <2>1. Count(Append(put_back, m), WithId(id)) = Count(put_back, WithId(id)) + w
    BY <1>2, <1>4, CountAppended DEF w, Weight
  <2>2. c[AtPutBack] = Count(put_back, WithId(id)) /\ d[AtPutBack] = Count(Append(put_back, m), WithId(id))
    BY <1>d, CountedIs, CountedAfterIs DEF c, d
  <2>3. c[AtPutBack] \in Nat
    BY <1>8, <1>9
  <2>4. \A r \in Places : r \notin {AtTaken, AtPutBack} => d[r] = c[r]
    BY <1>d, <1>10, Elsewhere
  <2>5. Arrives(c, d, AtPutBack, w, Places \ {AtTaken})
    BY <1>8, <2>1, <2>2, <2>3, <2>4 DEF Arrives
  <2> QED BY <1>d, <1>9, <1>14, <2>5
<1> QED BY <1>2, <1>a, <1>b, <1>c, <1>d

\* Something of weight w leaves p, comes to q, which is one of P, and nothing else changes.
LEMMA FitsInto ==
    ASSUME NEW id, CountsTyped(id), Fitting(id), lost' = lost,
           NEW P \in SUBSET Places, NEW p \in Places, p \notin P, NEW q \in P, NEW w \in {0, 1},
           Counted(id)[p] = CountedAfter(id)[p] + w,
           Arrives(Counted(id), CountedAfter(id), q, w, P),
           \A r \in Places : r \notin P \union {p} => CountedAfter(id)[r] = Counted(id)[r]
    PROVE  FittingAfter(id)
<1> DEFINE c == Counted(id)
           d == CountedAfter(id)
<1>1. Arrives(c, d, q, w, P) /\ \A r \in Places : r \notin P \union {p} => d[r] = c[r]
  OBVIOUS
<1> HIDE DEF c, d
<1>2. Arrives(c, d, q, w, Places \ {p})
  BY <1>1 DEF Arrives
<1>3. q \in Places /\ p # q
  OBVIOUS
<1> QED BY <1>2, <1>3, FitsMoved DEF c, d

LEMMA ReachedIn ==
    /\ ReachedPlaces \subseteq Places /\ QueuePlaces \subseteq Places
    /\ AtIn \in ReachedPlaces
    /\ \A x \in Extension : AtPending(x) \in ReachedPlaces /\ AtHeld(x) \in ReachedPlaces
    /\ \A x \in Extension : AtStage(x) \notin ReachedPlaces
    /\ \A g \in Group : AtQueue(g) \notin ReachedPlaces /\ AtQueue(g) \in QueuePlaces
BY PlacesAre, PlacesDiffer DEF ReachedPlaces, QueuePlaces

LEMMA SendsNothing ==
    ASSUME Typed, NEW m \in Msg, Sends(m), NEW id, Weight(m, id) = 0
    PROVE  \A g \in Group : CountedAfter(id)[AtQueue(g)] = Counted(id)[AtQueue(g)]
<1>1. ThreadsTyped /\ Counted(id) \in [Places -> Nat]
  BY CountedTyped DEF Typed
<1>a. CASE UNCHANGED t_queue
  BY <1>a, CountedFrame
<1>b. CASE m.dest \in Extension /\ Posts(GroupOf[m.dest], Task("msg", m))
  <2>1. GroupOf[m.dest] \in Group /\ m \in MsgsTo(GroupOf[m.dest])
    BY <1>b, MsgsToFacts DEF MsgsTo
  <2>2. /\ CountedAfter(id)[AtQueue(GroupOf[m.dest])] = Counted(id)[AtQueue(GroupOf[m.dest])] + 0
        /\ \A h \in Group : h # GroupOf[m.dest] => CountedAfter(id)[AtQueue(h)] = Counted(id)[AtQueue(h)]
    BY <1>1, <1>b, <2>1, PostsCounts
  <2>3. Counted(id)[AtQueue(GroupOf[m.dest])] \in Nat
    BY <1>1, <2>1, PlacesAre
  <2> QED BY <2>2, <2>3
<1> QED BY <1>a, <1>b DEF Sends

\* What the client sends is no command of an extension.
LEMMA AccountedClient ==
    ASSUME Typed, Typed', NEW dest \in Name,
           FirstFromClient(dest) \/ (\E kind \in Kinds : FromRemote(kind, dest)),
           NEW x \in Extension, NEW n, Fitting(<<x, n>>)
    PROVE  FittingAfter(<<x, n>>)
<1> DEFINE id == <<x, n>>
           c == Counted(id)
           d == CountedAfter(id)
<1>0. EngineQueuesTyped /\ ExtensionsTyped /\ x # Client /\ id[1] = x /\ Client \in Sender
  BY MsgsToFacts DEF Typed, Sender
<1>1. ASSUME NEW m \in Request, m.src = Client
      PROVE  /\ m \in Msg /\ ResultOf(m) \in Msg /\ CmdId(m) # id /\ CmdId(ResultOf(m)) # id
             /\ Weight(m, id) = 0 /\ Weight(ResultOf(m), id) = 0
  <2>1. CmdId(m)[1] = Client /\ CmdId(ResultOf(m)) = CmdId(m) /\ m \in Msg /\ ResultOf(m) \in Msg
    BY <1>1, MsgFacts
  <2>2. CmdId(m) # id
    BY <1>0, <2>1
  <2> QED BY <2>1, <2>2 DEF Weight, WithId
<1>2. CountsTyped(id) /\ c \in [Places -> Nat] /\ AtIn \in Places
  BY CountsAre, PlacesAre DEF CountsTyped
<1> SUFFICES FittingAfter(id)
  OBVIOUS
<1>a. CASE FirstFromClient(dest)
  <2> DEFINE m == [kind |-> "cmd", src |-> Client, dest |-> dest, n |-> sent[Client] + 1]
  <2>1. /\ m \in Request /\ m.src = Client
        /\ AppendToInMsgs(<<m>>)
    BY <1>a, <1>0 DEF FirstFromClient, NewRequest, Request, ExtensionsTyped
  <2> HIDE DEF m
  <2>2. m \in Msg /\ Weight(m, id) = 0
    BY <1>1, <2>1
  <2>3. Comes(m)
    BY <1>0, <2>1, <2>2, Came
  <2>4. d[AtIn] = c[AtIn] + 0
    BY <1>0, <2>2, <2>3, ComesCounts
  <2>5. d[AtIn] = c[AtIn]
    BY <1>2, <2>4
  <2>6. /\ taken' = taken /\ put_back' = put_back /\ t_queue' = t_queue /\ init_stage' = init_stage
        /\ pending' = pending /\ in_paths' = in_paths /\ lost' = lost
    BY <1>a DEF FirstFromClient, batch, thread, ext
  <2>7. /\ d[AtTaken] = c[AtTaken] /\ d[AtPutBack] = c[AtPutBack]
        /\ \A g \in Group : d[AtQueue(g)] = c[AtQueue(g)]
        /\ \A z \in Extension : d[AtStage(z)] = c[AtStage(z)]
        /\ \A z \in Extension : d[AtPending(z)] = c[AtPending(z)]
        /\ \A z \in Extension : d[AtHeld(z)] = c[AtHeld(z)]
    BY <2>6, CountsAre
  <2> DEFINE none == {}
  <2> HIDE DEF id, c, d, none
  <2>8. \A r \in Places : r \notin none => d[r] = c[r]
    BY <2>5, <2>7, Elsewhere
  <2> QED BY <1>2, <2>6, <2>8, FitsSame DEF c, d, none, id
<1>b. ASSUME NEW kind \in Kinds, FromRemote(kind, dest) PROVE FittingAfter(id)
  <2> DEFINE m == NewRequest(Client, kind, dest)
  <2>1. m \in Request /\ m.src = Client /\ (Sends(ResultOf(m)) \/ Sends(m))
    BY <1>b, FromRemoteSent
  <2> HIDE DEF m
  <2>2. \A g \in Group : d[AtQueue(g)] = c[AtQueue(g)]
    BY <1>1, <2>1, SendsNothing
  <2>3. /\ in_msgs' = in_msgs /\ taken' = taken /\ put_back' = put_back /\ init_stage' = init_stage
        /\ pending' = pending /\ in_paths' = in_paths
    BY <1>b DEF FromRemote, in_queue, batch, thread, ext
  <2>4. /\ d[AtIn] = c[AtIn] /\ d[AtTaken] = c[AtTaken] /\ d[AtPutBack] = c[AtPutBack]
        /\ \A z \in Extension : d[AtStage(z)] = c[AtStage(z)]
        /\ \A z \in Extension : d[AtPending(z)] = c[AtPending(z)]
        /\ \A z \in Extension : d[AtHeld(z)] = c[AtHeld(z)]
    BY <2>3, CountsAre
  <2>5. id \in lost' <=> id \in lost
    BY <1>1, <2>1 DEF Sends
  <2> DEFINE none == {}
  <2> HIDE DEF id, c, d, none
  <2>6. \A r \in Places : r \notin none => d[r] = c[r]
    BY <2>2, <2>4, Elsewhere
  <2> QED BY <1>2, <2>5, <2>6, FitsSame DEF c, d, none, id
<1> QED BY <1>a, <1>b

\* A result that reaches its extension is not that of a command for which it waits further.
LEMMA UpdateIsOther ==
    ASSUME Typed, Control, NEW m \in Result, m.dest \in Extension, HandleUpdate(m),
           NEW x \in Extension, NEW n \in out_paths'[x]
    PROVE  Weight(m, <<x, n>>) = 0
<1> SUFFICES ASSUME Weight(m, <<x, n>>) = 1 PROVE FALSE
  BY Weights
<1>0. m \in Msg /\ CmdId(m) = <<m.dest, m.n>>
  BY MsgFacts
<1>1. <<m.dest, m.n>> = <<x, n>>
  BY <1>0, Weights
<1>2. m.dest = x /\ m.n = n
  BY <1>1
<1>3. out_paths \in [Extension -> SUBSET Nat]
  BY DEF Typed, ExtensionsTyped
<1>4. life[x] = "deleted" => out_paths[x] = {}
  BY DEF Control, ExtIs
<1> QED BY <1>2, <1>3, <1>4 DEF HandleUpdate

LEMMA AccountedInMsg ==
    ASSUME Typed, Typed', Control, WereSent, NEW g \in Group, HandleInMsg(g),
           NEW x \in Extension, NEW n \in out_paths'[x], n \in out_paths[x], Fitting(<<x, n>>)
    PROVE  FittingAfter(<<x, n>>)
<1> DEFINE id == <<x, n>>
           c == Counted(id)
           d == CountedAfter(id)
<1>1. taken' = taken /\ put_back' = put_back /\ lost' = lost
  BY DEF HandleInMsg, batch
<1>2. PICK m \in MsgsTo(g) :
         /\ Takes(g, Task("msg", m))
         /\ \/ /\ m \in RequestsTo(m.dest)
               /\ init_stage' = [init_stage EXCEPT ![m.dest] = Append(@, m)]
               /\ UNCHANGED <<in_msgs, e_queue, pending, in_paths, delivered, out_paths>>
            \/ /\ m \in Result
               /\ HandleUpdate(m)
               /\ UNCHANGED <<init_stage, in_msgs, e_queue, pending, in_paths, delivered>>
            \/ /\ m \in RequestsTo(m.dest)
               /\ Keeps(m.dest, m) \/ Refuses(m.dest, m) \/ Delivers(m.dest, m)
               /\ UNCHANGED <<init_stage, out_paths>>
  BY MsgHandled
<1> DEFINE w == Weight(m, id)
<1>3. /\ CountsTyped(id) /\ c \in [Places -> Nat] /\ d \in [Places -> Nat] /\ w \in {0, 1} /\ ThreadsTyped
      /\ m \in Msg /\ m.dest \in Extension /\ Fitting(id)
  BY CountsAre, Weights, MsgsToFacts DEF CountsTyped, Typed, MsgsTo
<1>4. /\ c[AtQueue(g)] = d[AtQueue(g)] + w
      /\ \A h \in Group : h # g => d[AtQueue(h)] = c[AtQueue(h)]
  BY <1>2, <1>3, TakesCounts
<1>5. /\ d[AtTaken] = c[AtTaken] /\ d[AtPutBack] = c[AtPutBack]
      /\ in_msgs' = in_msgs => d[AtIn] = c[AtIn]
      /\ init_stage' = init_stage => \A z \in Extension : d[AtStage(z)] = c[AtStage(z)]
      /\ pending' = pending => \A z \in Extension : d[AtPending(z)] = c[AtPending(z)]
      /\ in_paths' = in_paths => \A z \in Extension : d[AtHeld(z)] = c[AtHeld(z)]
  BY <1>1, CountsAre
<1>6. AtQueue(g) \in Places
  BY PlacesAre
<1> SUFFICES FittingAfter(id)
  OBVIOUS
<1>a. CASE /\ m \in RequestsTo(m.dest)
           /\ init_stage' = [init_stage EXCEPT ![m.dest] = Append(@, m)]
           /\ UNCHANGED <<in_msgs, e_queue, pending, in_paths, delivered, out_paths>>
  <2> DEFINE z == m.dest
             P == {AtStage(z)}
  <2>1. z \in Extension /\ SeqsTyped(init_stage) /\ m \in RequestsTo(z)
        /\ init_stage' = [init_stage EXCEPT ![z] = Append(@, m)]
    BY <1>a, <1>3, KeptTypedIs DEF Typed
  <2> HIDE DEF z
  <2>2. Heavier(Count(init_stage'[z], WithId(id)), Count(init_stage[z], WithId(id)), Weight(m, id))
    BY <2>1, SeqsCountsAppended
  <2>3. \A y \in Extension : y # z => init_stage'[y] = init_stage[y]
    BY <2>1, SeqsCountsAppended
  <2>4. /\ c[AtStage(z)] = Count(init_stage[z], WithId(id)) /\ d[AtStage(z)] = Count(init_stage'[z], WithId(id))
        /\ \A y \in Extension : y # z => d[AtStage(y)] = c[AtStage(y)]
    BY <2>1, <2>3, CountedIs, CountedAfterIs, CountedFrame
  <2>5. P \subseteq Places /\ AtQueue(g) \notin P /\ AtStage(z) \in Places
    BY <2>1, PlacesAre, PlacesDiffer
  <2> HIDE DEF id, c, d, w
  <2>6. d[AtStage(z)] = c[AtStage(z)] + w /\ c[AtStage(z)] \in Nat
    BY <1>3, <2>2, <2>4, <2>5 DEF Heavier, w
  <2>7. Arrives(c, d, AtStage(z), w, P)
    BY <1>3, <2>6 DEF Arrives
  <2> DEFINE Q == P \union {AtQueue(g)}
  <2>8. \A r \in Places : r \notin Q => d[r] = c[r]
    <3>1. /\ \A y \in Extension : AtStage(y) \in Q \/ d[AtStage(y)] = c[AtStage(y)]
          /\ \A h \in Group : AtQueue(h) \in Q \/ d[AtQueue(h)] = c[AtQueue(h)]
      BY <1>4, <2>4
    <3> HIDE DEF Q, P
    <3> QED BY <1>5, <1>a, <3>1, Elsewhere
  <2>9. AtStage(z) \in P
    OBVIOUS
  <2> HIDE DEF P
  <2> QED BY <1>1, <1>3, <1>4, <1>6, <2>5, <2>7, <2>8, <2>9, FitsInto DEF c, d
<1>b. CASE /\ m \in Result
           /\ HandleUpdate(m)
           /\ UNCHANGED <<init_stage, in_msgs, e_queue, pending, in_paths, delivered>>
  <2>1. w = 0
    BY <1>3, <1>b, UpdateIsOther
  <2> HIDE DEF id, c, d, w
  <2>2. c[AtQueue(g)] = d[AtQueue(g)]
    BY <1>3, <1>4, <1>6, <2>1
  <2>3. \A h \in Group : d[AtQueue(h)] = c[AtQueue(h)]
    BY <1>4, <2>2
  <2> DEFINE none == {}
  <2> HIDE DEF none
  <2>4. \A r \in Places : r \notin none => d[r] = c[r]
    BY <1>5, <1>b, <2>3, Elsewhere
  <2> QED BY <1>1, <1>3, <2>4, FitsSame DEF c, d, none
<1>c. CASE /\ m \in RequestsTo(m.dest)
           /\ Keeps(m.dest, m) \/ Refuses(m.dest, m) \/ Delivers(m.dest, m)
           /\ UNCHANGED <<init_stage, out_paths>>
  <2>1. PICK q \in ReachedPlaces : Arrives(c, d, q, w, ReachedPlaces)
    BY <1>3, <1>c, ReachedArrives
  <2> HIDE DEF id, c, d, w
  <2> DEFINE Q == ReachedPlaces \union {AtQueue(g)}
  <2>2. \A r \in Places : r \notin Q => d[r] = c[r]
    <3>1. /\ \A h \in Group : AtQueue(h) \in Q \/ d[AtQueue(h)] = c[AtQueue(h)]
          /\ AtIn \in Q /\ \A z \in Extension : AtPending(z) \in Q /\ AtHeld(z) \in Q
      BY <1>4, ReachedIn
    <3> HIDE DEF Q
    <3> QED BY <1>5, <1>c, <3>1, Elsewhere
  <2> QED BY <1>1, <1>3, <1>4, <1>6, <2>1, <2>2, ReachedIn, FitsInto DEF c, d
<1> QED BY <1>2, <1>a, <1>b, <1>c

LEMMA AccountedFlush ==
    ASSUME Typed, Typed', Control, NEW y \in Extension, Flush(y), NEW id, Fitting(id)
    PROVE  FittingAfter(id)
<1> DEFINE c == Counted(id)
           d == CountedAfter(id)
           P == {AtIn} \union {AtHeld(z) : z \in Extension}
<1>1. PICK m \in RequestsTo(y) :
         /\ FlushTakes(y, m)
         /\ \/ Gets(y, m) /\ UNCHANGED <<in_msgs, e_queue, t_queue>>
            \/ /\ \/ m.kind = "cmd" /\ Comes(ResultOf(m))
                  \/ m.kind = "data" /\ UNCHANGED <<in_msgs, e_queue>>
               /\ Posts(GroupOf[y], Delete(y)) \/ UNCHANGED t_queue
               /\ UNCHANGED <<delivered, in_paths>>
  BY Flushed
<1> DEFINE w == Weight(m, id)
<1>2. /\ taken' = taken /\ put_back' = put_back /\ lost' = lost
  BY DEF Flush, batch
<1>3. /\ CountsTyped(id) /\ c \in [Places -> Nat] /\ d \in [Places -> Nat] /\ w \in {0, 1}
      /\ EngineQueuesTyped /\ ThreadsTyped /\ SeqsTyped(init_stage) /\ SeqsTyped(pending)
  BY CountsAre, Weights, KeptTypedIs DEF CountsTyped, Typed
<1>4. /\ d[AtTaken] = c[AtTaken] /\ d[AtPutBack] = c[AtPutBack]
      /\ in_msgs' = in_msgs => d[AtIn] = c[AtIn]
      /\ init_stage' = init_stage => \A z \in Extension : d[AtStage(z)] = c[AtStage(z)]
      /\ pending' = pending => \A z \in Extension : d[AtPending(z)] = c[AtPending(z)]
      /\ in_paths' = in_paths => \A z \in Extension : d[AtHeld(z)] = c[AtHeld(z)]
  BY <1>2, CountsAre
<1>5. m \in Request /\ m.kind \in {"cmd", "data"} /\ ResultOf(m) \in Msg
  BY MsgsToFacts, MsgFacts
<1>6. \A g \in Group : d[AtQueue(g)] = c[AtQueue(g)]
  <2>1. GroupOf[y] \in Group /\ Delete(y) \in ThreadTasks(GroupOf[y]) /\ MsgOf(Delete(y)) = None
    BY MsgsToFacts, TaskKinds, MsgOfTask
  <2>2. UNCHANGED t_queue => \A g \in Group : Idle(g)
    BY DEF Idle
  <2>3. \A g \in Group : Idle(g)
    BY <1>1, <2>1, <2>2, PostsIdle
  <2> QED BY <1>3, <2>3, IdleCounts
<1>7. /\ P \subseteq Places /\ \A z \in Extension : AtStage(z) \notin P /\ AtPending(z) \notin P
      /\ AtIn \in P /\ \A z \in Extension : AtHeld(z) \in P
      /\ \A z \in Extension : AtStage(z) \in Places /\ AtPending(z) \in Places
      /\ AtIn \in Places /\ AtHeld(y) # AtIn
  BY PlacesAre, PlacesDiffer
\* Where it comes to.
<1>8. \E q \in P : Arrives(c, d, q, w, P)
  <2>a. CASE Gets(y, m) /\ in_msgs' = in_msgs
    <3>1. Arrives(c, d, AtHeld(y), w, {AtHeld(z) : z \in Extension})
      BY <1>3, <2>a, GetsArrives
    <3> HIDE DEF c, d, w
    <3>2. Arrives(c, d, AtHeld(y), w, P)
      BY <1>4, <2>a, <3>1 DEF Arrives
    <3> QED BY <1>7, <3>2
  <2>b. CASE m.kind = "cmd" /\ Comes(ResultOf(m)) /\ in_paths' = in_paths
    <3>1. d[AtIn] = c[AtIn] + Weight(ResultOf(m), id)
      BY <1>3, <1>5, <2>b, ComesCounts
    <3>2. Weight(ResultOf(m), id) = w
      BY <1>5, <2>b, Weights
    <3> HIDE DEF c, d, w
    <3>3. c[AtIn] \in Nat /\ \A z \in Extension : d[AtHeld(z)] = c[AtHeld(z)]
      BY <1>3, <1>4, <1>7, <2>b
    <3>4. Arrives(c, d, AtIn, w, P)
      BY <1>3, <3>1, <3>2, <3>3 DEF Arrives
    <3> QED BY <1>7, <3>4
  <2>c. CASE m.kind = "data" /\ in_msgs' = in_msgs /\ in_paths' = in_paths
    <3>1. w = 0
      BY <1>5, <2>c, Weights
    <3> HIDE DEF c, d, w
    <3>2. Arrives(c, d, AtIn, w, P)
      BY <1>4, <2>c, <3>1 DEF Arrives
    <3> QED BY <1>7, <3>2
  <2> QED BY <1>1, <2>a, <2>b, <2>c
\* Where it comes from.
<1>9. \E p \in Places : /\ p \notin P /\ c[p] = d[p] + w
                        /\ \A r \in Places : r \notin P \union {p} => d[r] = c[r]
  <2>a. CASE /\ init_stage[y] # <<>> /\ m = Head(init_stage[y])
             /\ init_stage' = [init_stage EXCEPT ![y] = Tail(@)]
             /\ pending' = pending
    <3>1. Heavier(Count(init_stage[y], WithId(id)), Count(init_stage'[y], WithId(id)), Weight(Head(init_stage[y]), id))
      BY <1>3, <2>a, SeqsCountsTailed
    <3>2. \A z \in Extension : z # y => init_stage'[z] = init_stage[z]
      BY <1>3, <2>a, SeqsCountsTailed
    <3>3. /\ c[AtStage(y)] = Count(init_stage[y], WithId(id)) /\ d[AtStage(y)] = Count(init_stage'[y], WithId(id))
          /\ \A z \in Extension : z # y => d[AtStage(z)] = c[AtStage(z)]
      BY <3>2, CountedIs, CountedAfterIs, CountedFrame
    <3>4. c[AtStage(y)] = d[AtStage(y)] + w
      BY <2>a, <3>1, <3>3 DEF Heavier
    <3> DEFINE Q == P \union {AtStage(y)}
    <3>5. AtIn \in Q /\ \A z \in Extension : AtHeld(z) \in Q /\ (AtStage(z) \in Q \/ d[AtStage(z)] = c[AtStage(z)])
      BY <1>7, <3>3
    <3> HIDE DEF c, d, w, Q, P
    <3>6. \A r \in Places : r \notin Q => d[r] = c[r]
      BY <1>4, <1>6, <2>a, <3>5, Elsewhere
    <3> QED BY <1>7, <3>4, <3>6 DEF Q
  <2>b. CASE /\ pending[y] # <<>> /\ m = Head(pending[y])
             /\ pending' = [pending EXCEPT ![y] = Tail(@)]
             /\ init_stage' = init_stage
    <3>1. Heavier(Count(pending[y], WithId(id)), Count(pending'[y], WithId(id)), Weight(Head(pending[y]), id))
      BY <1>3, <2>b, SeqsCountsTailed
    <3>2. \A z \in Extension : z # y => pending'[z] = pending[z]
      BY <1>3, <2>b, SeqsCountsTailed
    <3>3. /\ c[AtPending(y)] = Count(pending[y], WithId(id)) /\ d[AtPending(y)] = Count(pending'[y], WithId(id))
          /\ \A z \in Extension : z # y => d[AtPending(z)] = c[AtPending(z)]
      BY <3>2, CountedIs, CountedAfterIs, CountedFrame
    <3>4. c[AtPending(y)] = d[AtPending(y)] + w
      BY <2>b, <3>1, <3>3 DEF Heavier
    <3> DEFINE Q == P \union {AtPending(y)}
    <3>5. AtIn \in Q /\ \A z \in Extension : AtHeld(z) \in Q /\ (AtPending(z) \in Q \/ d[AtPending(z)] = c[AtPending(z)])
      BY <1>7, <3>3
    <3> HIDE DEF c, d, w, Q, P
    <3>6. \A r \in Places : r \notin Q => d[r] = c[r]
      BY <1>4, <1>6, <2>b, <3>5, Elsewhere
    <3> QED BY <1>7, <3>4, <3>6 DEF Q
  <2> QED BY <1>1, <2>a, <2>b DEF FlushTakes
<1> HIDE DEF P, w
<1> QED BY <1>2, <1>3, <1>7, <1>8, <1>9, FitsInto

\* A command that was not sent yet is nowhere.
LEMMA NotYetAnywhere ==
    ASSUME Typed, WereSent, NEW id, ~IdSent(id, sent)
    PROVE  InNoPlace(Counted(id)) /\ id \notin lost
<1> DEFINE c == Counted(id)
<1>1. ASSUME NEW T, NEW q \in Seq(T), AllSent(q, sent) PROVE Count(q, WithId(id)) = 0
  <2>1. \A i \in DOMAIN q : q[i] \notin WithId(id)
    BY <1>1, Weights DEF AllSent, IsSent, WithId
  <2> QED BY <1>1, <2>1, CountFinite
<1>2. /\ in_msgs \in Seq(Msg) /\ taken \in Seq(Msg) /\ put_back \in Seq(Msg)
      /\ \A x \in Extension : init_stage[x] \in Seq(RequestsTo(x)) /\ pending[x] \in Seq(RequestsTo(x))
      /\ \A g \in Group : Carried(t_queue[g]) \in Seq(MsgsTo(g) \union {None})
  BY CarriedIs DEF Typed, EngineQueuesTyped, KeptTyped, ThreadsTyped
<1>3. /\ Count(in_msgs, WithId(id)) = 0 /\ Count(taken, WithId(id)) = 0 /\ Count(put_back, WithId(id)) = 0
      /\ \A x \in Extension : Count(init_stage[x], WithId(id)) = 0 /\ Count(pending[x], WithId(id)) = 0
      /\ \A g \in Group : Count(Carried(t_queue[g]), WithId(id)) = 0
  BY <1>1, <1>2 DEF WereSent
<1>4. id \notin lost /\ \A x \in Extension : id \notin in_paths[x]
  BY DEF WereSent
<1>5. /\ c[AtIn] = 0 /\ c[AtTaken] = 0 /\ c[AtPutBack] = 0
      /\ \A g \in Group : c[AtQueue(g)] = 0
      /\ \A x \in Extension : c[AtStage(x)] = 0 /\ c[AtPending(x)] = 0 /\ c[AtHeld(x)] = 0
  BY <1>3, <1>4, CountedIs
<1> HIDE DEF c
<1>6. \A p \in Places : c[p] = 0
  BY <1>5, PlacesAre
<1> QED BY <1>4, <1>6 DEF InNoPlace, c

LEMMA AccountedSends ==
    ASSUME Typed, Typed', WereSent, Accounted,
           NEW y \in Extension, NEW kind \in Kinds, NEW dest \in Name, SendRequest(y, kind, dest),
           NEW x \in Extension, NEW n \in out_paths'[x]
    PROVE  FittingAfter(<<x, n>>)
<1> DEFINE id == <<x, n>>
           c == Counted(id)
           d == CountedAfter(id)
           m == NewRequest(y, kind, dest)
           w == Weight(m, id)
<1>1. /\ m \in Request /\ m.src = y /\ m.n = sent[y] + 1
      /\ out_paths' = IF m.kind = "cmd" THEN [out_paths EXCEPT ![y] = @ \union {m.n}] ELSE out_paths
      /\ \/ /\ dest \in Extension /\ m \in RequestsTo(dest)
            /\ Keeps(dest, m) \/ Refuses(dest, m) \/ Delivers(dest, m)
         \/ /\ \/ Comes(m)
               \/ m.kind = "cmd" /\ Comes(ResultOf(m))
               \/ m.kind = "data" /\ UNCHANGED <<in_msgs, e_queue>>
            /\ pending' = pending /\ in_paths' = in_paths
  BY RequestSent
<1>2. taken' = taken /\ put_back' = put_back /\ t_queue' = t_queue /\ init_stage' = init_stage /\ lost' = lost
  BY DEF SendRequest, batch, thread
<1>3. /\ CountsTyped(id) /\ c \in [Places -> Nat] /\ d \in [Places -> Nat] /\ w \in {0, 1} /\ EngineQueuesTyped
  BY CountsAre, Weights DEF CountsTyped, Typed
<1>4. /\ d[AtTaken] = c[AtTaken] /\ d[AtPutBack] = c[AtPutBack]
      /\ \A g \in Group : d[AtQueue(g)] = c[AtQueue(g)]
      /\ \A z \in Extension : d[AtStage(z)] = c[AtStage(z)]
      /\ in_msgs' = in_msgs => d[AtIn] = c[AtIn]
      /\ pending' = pending => \A z \in Extension : d[AtPending(z)] = c[AtPending(z)]
      /\ in_paths' = in_paths => \A z \in Extension : d[AtHeld(z)] = c[AtHeld(z)]
  BY <1>2, CountsAre
<1>5. m \in Msg /\ ResultOf(m) \in Msg /\ m.kind \in {"cmd", "data"} /\ CmdId(m) = <<y, sent[y] + 1>>
  BY <1>1, MsgFacts
<1>6. w = 1 <=> m.kind = "cmd" /\ CmdId(m) = id
  BY <1>5, Weights
<1>7. m.kind = "cmd" => Weight(ResultOf(m), id) = w
  BY <1>1, Weights
<1>8. \E q \in ReachedPlaces : Arrives(c, d, q, w, ReachedPlaces)
  <2>a. CASE /\ dest \in Extension /\ m \in RequestsTo(dest)
             /\ Keeps(dest, m) \/ Refuses(dest, m) \/ Delivers(dest, m)
    <3> HIDE DEF m
    <3> QED BY <2>a, ReachedArrives
  <2>b. ASSUME NEW k \in Msg, Comes(k), Weight(k, id) = w, pending' = pending, in_paths' = in_paths
        PROVE  \E q \in ReachedPlaces : Arrives(c, d, q, w, ReachedPlaces)
    <3>1. d[AtIn] = c[AtIn] + w
      BY <1>3, <2>b, ComesCounts
    <3> HIDE DEF c, d, w, id
    <3>2. c[AtIn] \in Nat
      BY <1>3, PlacesAre
    <3>3. \A r \in ReachedPlaces : r # AtIn => d[r] = c[r]
      BY <1>4, <2>b DEF ReachedPlaces
    <3>4. Arrives(c, d, AtIn, w, ReachedPlaces)
      BY <1>3, <3>1, <3>2, <3>3 DEF Arrives
    <3> QED BY <3>4, ReachedIn
  <2>c. CASE m.kind = "data" /\ in_msgs' = in_msgs /\ pending' = pending /\ in_paths' = in_paths
    <3> HIDE DEF c, d, w, id, m
    <3>1. w = 0
      BY <1>3, <1>6, <2>c
    <3>2. \A r \in ReachedPlaces : d[r] = c[r]
      BY <1>4, <2>c DEF ReachedPlaces
    <3>3. Arrives(c, d, AtIn, w, ReachedPlaces)
      BY <3>1, <3>2, ReachedIn DEF Arrives
    <3> QED BY <3>3, ReachedIn
  <2>d. CASE Comes(m) /\ pending' = pending /\ in_paths' = in_paths
    <3> HIDE DEF c, d, id, m
    <3> QED BY <1>5, <2>b, <2>d
  <2>e. CASE m.kind = "cmd" /\ Comes(ResultOf(m)) /\ pending' = pending /\ in_paths' = in_paths
    <3> HIDE DEF c, d, id, m, w
    <3> QED BY <1>5, <1>7, <2>b, <2>e
  <2> HIDE DEF c, d, id, m, w
  <2> QED BY <1>1, <2>a, <2>c, <2>d, <2>e
<1>9. \A r \in Places : r \notin ReachedPlaces => d[r] = c[r]
  <2> HIDE DEF c, d
  <2> QED BY <1>4, ReachedIn, Elsewhere
<1>10. IdSent(id, sent) <=> n \in 1..sent[x]
  BY DEF IdSent
<1>11. sent[y] \in Nat /\ sent[x] \in Nat /\ out_paths \in [Extension -> SUBSET Nat]
  BY MsgsToFacts DEF Typed, ExtensionsTyped
<1>12. n \in out_paths[x] => Fitting(id) /\ IdSent(id, sent)
  BY AccountedIs DEF WereSent
<1>13. n \notin out_paths[x] => x = y /\ n = sent[y] + 1 /\ m.kind = "cmd"
  <2> HIDE DEF m
  <2> QED BY <1>1, <1>11
<1> SUFFICES FittingAfter(id)
  OBVIOUS
<1>a. CASE n \in out_paths[x]
  <2>1. id # <<y, sent[y] + 1>>
    BY <1>10, <1>11, <1>12, <1>a
  <2>2. w = 0
    BY <1>3, <1>5, <1>6, <2>1
  <2> HIDE DEF c, d, w, id
  <2>3. \A r \in ReachedPlaces : d[r] = c[r]
    BY <1>8, <2>2 DEF Arrives
  <2>4. \A r \in Places : d[r] = c[r]
    BY <1>9, <2>3
  <2> QED BY <1>2, <1>3, <1>12, <1>a, <2>4, FitsSame DEF c, d
<1>b. CASE n \notin out_paths[x]
  <2>1. ~IdSent(id, sent)
    BY <1>10, <1>11, <1>13, <1>b
  <2>2. InNoPlace(c) /\ id \notin lost
    BY <2>1, NotYetAnywhere
  <2>3. w = 1
    BY <1>5, <1>6, <1>13, <1>b
  <2> HIDE DEF c, d, w, id
  <2>4. PICK q \in ReachedPlaces : Arrives(c, d, q, w, ReachedPlaces)
    BY <1>8
  <2>5. d[q] = 1 /\ q \in Places
    BY <2>2, <2>3, <2>4, ReachedIn DEF Arrives, InNoPlace
  <2>6. \A r \in Places : r # q => d[r] = 0
    BY <1>9, <2>2, <2>4 DEF Arrives, InNoPlace
  <2>7. InOnePlace(d)
    BY <2>5, <2>6 DEF InOnePlace
  <2> QED BY <1>2, <2>2, <2>7 DEF FittingAfter, Fits, d
<1> QED BY <1>a, <1>b

LEMMA AccountedReturns ==
    ASSUME Typed, Typed', Control, NEW y \in Extension, NEW cmd \in in_paths[y], ReturnResult(y, cmd),
           NEW x \in Extension, NEW n \in out_paths'[x], Fitting(<<x, n>>)
    PROVE  FittingAfter(<<x, n>>)
<1> DEFINE id == <<x, n>>
           c == Counted(id)
           d == CountedAfter(id)
<1>1. PICK m \in Result :
         /\ CmdId(m) = cmd
         /\ in_paths' = [in_paths EXCEPT ![y] = @ \ {cmd}]
         /\ \/ m.dest \in Extension /\ HandleUpdate(m) /\ in_msgs' = in_msgs
            \/ Comes(m)
  BY ResultReturned
<1> DEFINE w == Weight(m, id)
<1>2. /\ taken' = taken /\ put_back' = put_back /\ t_queue' = t_queue /\ init_stage' = init_stage
      /\ pending' = pending /\ lost' = lost
  BY DEF ReturnResult, batch, thread
<1>3. /\ CountsTyped(id) /\ c \in [Places -> Nat] /\ d \in [Places -> Nat] /\ w \in {0, 1} /\ EngineQueuesTyped
      /\ Fitting(id) /\ m \in Msg /\ m.kind = "result"
  BY CountsAre, Weights, MsgFacts DEF CountsTyped, Typed
<1>4. /\ d[AtTaken] = c[AtTaken] /\ d[AtPutBack] = c[AtPutBack]
      /\ \A g \in Group : d[AtQueue(g)] = c[AtQueue(g)]
      /\ \A z \in Extension : d[AtStage(z)] = c[AtStage(z)]
      /\ \A z \in Extension : d[AtPending(z)] = c[AtPending(z)]
      /\ in_msgs' = in_msgs => d[AtIn] = c[AtIn]
  BY <1>2, CountsAre
<1>5. w = 1 <=> cmd = id
  BY <1>1, <1>3, Weights
<1>6. in_paths \in [Extension -> SUBSET (Sender \X Nat)]
  BY DEF Typed, ExtensionsTyped
<1>7. /\ c[AtHeld(y)] = d[AtHeld(y)] + w
      /\ \A z \in Extension : z # y => d[AtHeld(z)] = c[AtHeld(z)]
  <2>1. \A z \in Extension : /\ c[AtHeld(z)] = IF id \in in_paths[z] THEN 1 ELSE 0
                             /\ d[AtHeld(z)] = IF id \in in_paths'[z] THEN 1 ELSE 0
    BY CountedIs, CountedAfterIs
  <2>2. in_paths'[y] = in_paths[y] \ {cmd} /\ \A z \in Extension : z # y => in_paths'[z] = in_paths[z]
    BY <1>1, <1>6
  <2> HIDE DEF c, d, w, id
  <2>3. \A z \in Extension : z # y => d[AtHeld(z)] = c[AtHeld(z)]
    BY <2>1, <2>2
  <2>4. CASE cmd = id
    BY <1>3, <1>5, <2>1, <2>2, <2>4
  <2>5. CASE cmd # id
    BY <1>3, <1>5, <2>1, <2>2, <2>5
  <2> QED BY <2>3, <2>4, <2>5
<1>8. /\ AtIn \in Places /\ AtHeld(y) \in Places /\ AtHeld(y) # AtIn
  BY PlacesAre, PlacesDiffer
<1> SUFFICES FittingAfter(id)
  OBVIOUS
<1>a. CASE m.dest \in Extension /\ HandleUpdate(m) /\ in_msgs' = in_msgs
  <2>1. w = 0
    BY <1>a, UpdateIsOther
  <2> DEFINE none == {}
  <2> HIDE DEF id, c, d, w, none
  <2>2. \A z \in Extension : d[AtHeld(z)] = c[AtHeld(z)]
    BY <1>3, <1>7, <1>8, <2>1
  <2>3. \A r \in Places : r \notin none => d[r] = c[r]
    BY <1>4, <1>a, <2>2, Elsewhere
  <2> QED BY <1>2, <1>3, <2>3, FitsSame DEF c, d, none
<1>b. CASE Comes(m)
  <2>1. d[AtIn] = c[AtIn] + w
    BY <1>3, <1>b, ComesCounts
  <2> DEFINE Q == {AtIn, AtHeld(y)}
  <2>2. AtIn \in Q /\ \A z \in Extension : AtHeld(z) \in Q \/ d[AtHeld(z)] = c[AtHeld(z)]
    BY <1>7
  <2> HIDE DEF id, c, d, w, Q
  <2>3. \A r \in Places : r \notin Q => d[r] = c[r]
    BY <1>4, <2>2, Elsewhere
  <2>4. c[AtIn] \in Nat
    BY <1>3, <1>8
  <2>5. Arrives(c, d, AtIn, w, Places \ {AtHeld(y)})
    BY <1>3, <2>1, <2>3, <2>4 DEF Arrives, Q
  <2> QED BY <1>2, <1>3, <1>7, <1>8, <2>5, FitsMoved DEF c, d
<1> QED BY <1>1, <1>a, <1>b

LEMMA AccountedInit == Init => Accounted
BY DEF Init, Accounted

LEMMA AccountedStep == Typed /\ Control /\ WereSent /\ Accounted /\ [Next]_vars => Accounted'
<1> SUFFICES ASSUME Typed, Control, WereSent, Accounted, [Next]_vars PROVE Accounted'
  OBVIOUS
<1>1. Typed'
  BY TypedStep
<1> SUFFICES ASSUME NEW x \in Extension, NEW n \in out_paths'[x] PROVE FittingAfter(<<x, n>>)
  BY AccountedAfterIs
<1>2. n \in out_paths[x] => Fitting(<<x, n>>)
  BY AccountedIs
<1>3. out_paths \in [Extension -> SUBSET Nat]
  BY DEF Typed, ExtensionsTyped
<1>4. out_paths' = out_paths => n \in out_paths[x]
  OBVIOUS
<1>5. ASSUME NEW m \in Msg, HandleUpdate(m) PROVE n \in out_paths[x]
  BY <1>3, <1>5 DEF HandleUpdate
<1>a. CASE Calm /\ UNCHANGED <<in_paths, out_paths, lost>>
  BY <1>1, <1>2, <1>4, <1>a, AccountedCalm
<1>b. ASSUME Calm, NEW y \in Extension, OnDeinitDone(y) PROVE FittingAfter(<<x, n>>)
  <2>1. n \in out_paths[x]
    BY <1>3, <1>b DEF OnDeinitDone
  <2> QED BY <1>1, <1>2, <1>b, <2>1, AccountedForgets
<1>c. CASE TakeInMsgs
  <2>1. out_paths' = out_paths
    BY <1>c DEF TakeInMsgs, sender
  <2> QED BY <1>1, <1>2, <1>4, <1>c, <2>1, AccountedTakes
<1>d. CASE HandleTaken
  <2>1. out_paths' = out_paths
    BY <1>d DEF HandleTaken
  <2> QED BY <1>1, <1>2, <1>4, <1>d, <2>1, AccountedHandles
<1>e. CASE PutBack
  <2>1. out_paths' = out_paths
    BY <1>e DEF PutBack, sender
  <2> QED BY <1>1, <1>2, <1>4, <1>e, <2>1, AccountedPutsBack
<1>f. ASSUME NEW dest \in Name, FirstFromClient(dest) PROVE FittingAfter(<<x, n>>)
  <2>1. out_paths' = out_paths
    BY <1>f DEF FirstFromClient
  <2> QED BY <1>1, <1>2, <1>4, <1>f, <2>1, AccountedClient
<1>g. ASSUME NEW kind \in Kinds, NEW dest \in Name, FromRemote(kind, dest) PROVE FittingAfter(<<x, n>>)
  <2>1. out_paths' = out_paths
    BY <1>g DEF FromRemote
  <2> QED BY <1>1, <1>2, <1>4, <1>g, <2>1, AccountedClient
<1>h. ASSUME NEW g \in Group, HandleInMsg(g) PROVE FittingAfter(<<x, n>>)
  <2>1. \E m \in MsgsTo(g) : HandleUpdate(m) \/ out_paths' = out_paths
    BY <1>h, MsgHandled
  <2>2. n \in out_paths[x]
    BY <1>4, <1>5, <2>1, MsgsToFacts
  <2> QED BY <1>1, <1>2, <1>h, <2>2, AccountedInMsg
<1>i. ASSUME NEW y \in Extension, Flush(y) PROVE FittingAfter(<<x, n>>)
  <2>1. out_paths' = out_paths
    BY <1>i DEF Flush, sender
  <2> QED BY <1>1, <1>2, <1>4, <1>i, <2>1, AccountedFlush
<1>j. ASSUME NEW y \in Extension, NEW kind \in Kinds, NEW dest \in Name, SendRequest(y, kind, dest)
      PROVE  FittingAfter(<<x, n>>)
  BY <1>1, <1>j, AccountedSends
<1>k. ASSUME NEW y \in Extension, NEW cmd \in in_paths[y], ReturnResult(y, cmd) PROVE FittingAfter(<<x, n>>)
  <2>1. \E m \in Result : HandleUpdate(m) \/ out_paths' = out_paths
    BY <1>k, ResultReturned
  <2>2. n \in out_paths[x]
    BY <1>4, <1>5, <2>1, MsgFacts
  <2> QED BY <1>1, <1>2, <1>k, <2>2, AccountedReturns
<1> QED BY <1>a, <1>b, <1>c, <1>d, <1>e, <1>f, <1>g, <1>h, <1>i, <1>j, <1>k, CalmSteps, Zenon DEF Moving

-----------------------------------------------------------------------------
(* The invariant, and what follows from it.                                *)

\* Whatever the numbers of extensions and threads, the limits of the queues and the order of
\* the steps: the messages in the queues, the states of the threads and of the extensions and
\* the paths of the commands fit together.
THEOREM RoutingInvariant == Spec => []Inv
<1>1. Init => Inv
  BY TypedInit, ControlInit, WereSentInit, InSequenceInit, AccountedInit DEF Inv
<1>2. Inv /\ [Next]_vars => Inv'
  BY TypedStep, ControlStep, WereSentStep, InSequenceStep, AccountedStep DEF Inv
<1> QED BY <1>1, <1>2, PTL DEF Spec

LEMMA TypeFollows == Typed /\ Control => TypeOK
<1> SUFFICES ASSUME Typed, Control PROVE TypeOK
  OBVIOUS
<1>1. threads \subseteq Group
  BY DEF Typed, EngineTyped
<1>2. IsFiniteSet(Reported) /\ Reported \subseteq Group /\ IsFiniteSet(Group)
  BY CmdRoutingAssumption, FS_Subset DEF Reported
<1>3. /\ cnt_of_ready = Cardinality(Reported) /\ Cardinality(Reported) \in Nat /\ Cardinality(Group) \in Nat
      /\ Cardinality(Reported) <= Cardinality(Group)
      /\ Cardinality(Reported) = Cardinality(Group) => Reported = Group
      /\ Cardinality(Group) = 0 <=> Group = {}
  BY <1>2, FS_CardinalityType, FS_Subset, FS_EmptySet DEF Control, ReadyIs
<1>4. is_ready <=> extension_context /\ Group # {} /\ Reported = Group
  BY DEF Control, ReadyIs
<1>5. is_ready = (extension_context /\ 0 < cnt_of_ready /\ cnt_of_ready = Cardinality(Group))
  <2>1. is_ready \in BOOLEAN /\ extension_context \in BOOLEAN
    BY DEF Typed, EngineTyped
  <2> QED BY <1>3, <1>4, <2>1
<1>6. cnt_of_ready \in 0..Cardinality(Group)
  BY <1>3
<1>7. \A i \in DOMAIN e_queue : IsEngineTask(e_queue[i])
  <2> SUFFICES ASSUME NEW i \in DOMAIN e_queue PROVE IsEngineTask(e_queue[i])
    OBVIOUS
  <2>1. e_queue[i] \in EngineTasks
    BY ElementOfSeq, LenProperties DEF Typed, EngineQueuesTyped
  <2> QED BY <2>1 DEF EngineTasks, IsEngineTask, Task
<1>8. /\ \A i \in DOMAIN in_msgs : in_msgs[i] \in Msg
      /\ \A i \in DOMAIN taken : taken[i] \in Msg
      /\ \A i \in DOMAIN put_back : put_back[i] \in Msg
  BY DEF Typed, EngineQueuesTyped
<1>9. ASSUME NEW g \in Group, NEW i \in DOMAIN t_queue[g] PROVE IsTaskOf(g, t_queue[g][i])
  <2>1. t_queue[g][i] \in ThreadTasks(g)
    <3>1. t_queue[g] \in Seq(ThreadTasks(g))
      BY DEF Typed, ThreadsTyped
    <3> QED BY <3>1
  <2>2. ASSUME NEW x \in ExtensionsOf(g), t_queue[g][i] = Task("del_extension", x) PROVE IsTaskOf(g, t_queue[g][i])
    BY <2>2 DEF IsTaskOf, Task, ExtensionsOf
  <2>3. ASSUME NEW m \in MsgsTo(g), t_queue[g][i] = Task("msg", m) PROVE IsTaskOf(g, t_queue[g][i])
    BY <2>3 DEF IsTaskOf, Task, MsgsTo
  <2>4. CASE t_queue[g][i] \in {StartLife, ToClose, Removed}
    BY <2>4 DEF IsTaskOf, StartLife, ToClose, Removed, Task
  <2> QED BY <2>1, <2>2, <2>3, <2>4 DEF ThreadTasks
<1>10. ASSUME NEW x \in Extension
       PROVE  /\ \A i \in DOMAIN init_stage[x] : init_stage[x][i] \in Request /\ init_stage[x][i].dest = x
              /\ \A i \in DOMAIN pending[x] : pending[x][i] \in Request /\ pending[x][i].dest = x
  <2>1. init_stage[x] \in Seq(RequestsTo(x)) /\ pending[x] \in Seq(RequestsTo(x))
    BY DEF Typed, KeptTyped
  <2>2. /\ \A i \in DOMAIN init_stage[x] : init_stage[x][i] \in RequestsTo(x)
        /\ \A i \in DOMAIN pending[x] : pending[x][i] \in RequestsTo(x)
    BY <2>1
  <2> QED BY <2>2 DEF RequestsTo
<1>11. in_paths \in [Extension -> SUBSET (Sender \X Nat)] /\ out_paths \in [Extension -> SUBSET Nat]
  BY DEF Typed, ExtensionsTyped
<1> QED BY <1>1, <1>5, <1>6, <1>7, <1>8, <1>9, <1>10, <1>11 DEF TypeOK

LEMMA OrderFollows == Typed /\ InSequence => DeliveredInOrder
<1> SUFFICES ASSUME Typed, InSequence, NEW x \in Extension,
                    NEW i \in DOMAIN delivered[x], NEW j \in DOMAIN delivered[x], i < j,
                    delivered[x][i].src = delivered[x][j].src, delivered[x][i].src \in Others(x)
             PROVE  delivered[x][i].n < delivered[x][j].n
  BY DEF DeliveredInOrder, InOrder, Others
<1> DEFINE s == delivered[x][i].src
<1>1. Ordered(Way(x), Counts(x), From(s, x))
  BY DEF InSequence
<1>2. Ascends(delivered[x], From(s, x))
  <2>1. 1 \in Counts(x) /\ Way(x)[1] = delivered[x]
    BY CountsIs, WayIs
  <2> QED BY <1>1, <2>1 DEF Ordered
<1>3. delivered[x][i] \in From(s, x) /\ delivered[x][j] \in From(s, x)
  <2>1. delivered[x] \in Seq(RequestsTo(x))
    BY DEF Typed, KeptTyped
  <2>2. delivered[x][i] \in RequestsTo(x) /\ delivered[x][j] \in RequestsTo(x)
    BY <2>1
  <2> QED BY <2>2 DEF RequestsTo, From
<1> QED BY <1>2, <1>3 DEF Ascends

LEMMA EndFollows == Typed /\ Control => ThreadEndsEmpty
<1> SUFFICES ASSUME Typed, Control, NEW g \in Group, t_state[g] = "CLOSED"
             PROVE  /\ \A x \in ExtensionsOf(g) : init_stage[x] = <<>>
                    /\ \A i \in DOMAIN t_queue[g] : t_queue[g][i][1] # "msg"
  BY DEF ThreadEndsEmpty
<1>1. t_queue[g] = <<>>
  BY DEF Control, EndsEmpty
<1>2. ASSUME NEW x \in ExtensionsOf(g) PROVE init_stage[x] = <<>>
  <2>1. x \in Extension /\ GroupOf[x] = g
    BY MsgsToFacts
  <2>2. life[x] = "deleted"
    BY <2>1 DEF Control, ExtIs
  <2>3. Kept(x) = <<>>
    BY <2>1, <2>2 DEF Control, ExtIs
  <2> QED BY <2>1, <2>3, KeptIs DEF Typed
<1> QED BY <1>1, <1>2

\* The messages with the command id that a queue holds, and how many they are.
LEMMA HoldsIs ==
    ASSUME NEW T, T \subseteq Msg \union {None}, NEW q \in Seq(T), NEW place, NEW id
    PROVE  /\ Count(q, WithId(id)) = 0 => Holds(place, q, id) = {}
           /\ Count(q, WithId(id)) = 1 => \E e : Holds(place, q, id) = {e}
<1>1. \A i \in DOMAIN q : q[i] # None /\ q[i].kind # "data" /\ CmdId(q[i]) = id <=> q[i] \in WithId(id)
  <2> SUFFICES ASSUME NEW i \in DOMAIN q
               PROVE  q[i] # None /\ q[i].kind # "data" /\ CmdId(q[i]) = id <=> q[i] \in WithId(id)
    OBVIOUS
  <2>1. q[i] \in Msg \/ q[i] = None
    BY ElementOfSeq, LenProperties
  <2> QED BY <2>1, Weights DEF WithId
<1>2. Holds(place, q, id) = {<<place, i>> : i \in {j \in DOMAIN q : q[j] \in WithId(id)}}
  BY <1>1 DEF Holds
<1>3. ASSUME Count(q, WithId(id)) = 0 PROVE Holds(place, q, id) = {}
  <2>1. \A i \in DOMAIN q : q[i] \notin WithId(id)
    BY <1>3, CountFinite
  <2> QED BY <1>2, <2>1
<1>4. ASSUME Count(q, WithId(id)) = 1 PROVE \E e : Holds(place, q, id) = {e}
  <2>1. PICK i \in DOMAIN q : q[i] \in WithId(id) /\ \A j \in DOMAIN q : q[j] \in WithId(id) => j = i
    BY <1>4, CountFinite
  <2>2. {j \in DOMAIN q : q[j] \in WithId(id)} = {i}
    BY <2>1
  <2>3. Holds(place, q, id) = {<<place, i>>}
    BY <1>2, <2>2
  <2> QED BY <2>3, Zenon
<1> QED BY <1>3, <1>4

\* The same, for a place.
HeldAt(p, id) ==
    CASE p = AtIn -> Holds("in_msgs", in_msgs, id)
      [] p = AtTaken -> Holds("taken", taken, id)
      [] p = AtPutBack -> Holds("put_back", put_back, id)
      [] p[1] = "queue" -> Holds(<<"queue", p[2]>>, MsgsIn(p[2]), id)
      [] p[1] = "init_stage" -> Holds(<<"init_stage", p[2]>>, init_stage[p[2]], id)
      [] p[1] = "pending" -> Holds(<<"pending", p[2]>>, pending[p[2]], id)

LEMMA HeldAtIs ==
    ASSUME NEW id
    PROVE  /\ HeldAt(AtIn, id) = Holds("in_msgs", in_msgs, id)
           /\ HeldAt(AtTaken, id) = Holds("taken", taken, id)
           /\ HeldAt(AtPutBack, id) = Holds("put_back", put_back, id)
           /\ \A g : HeldAt(AtQueue(g), id) = Holds(<<"queue", g>>, MsgsIn(g), id)
           /\ \A x : /\ HeldAt(AtStage(x), id) = Holds(<<"init_stage", x>>, init_stage[x], id)
                     /\ HeldAt(AtPending(x), id) = Holds(<<"pending", x>>, pending[x], id)
BY DEF HeldAt, AtIn, AtTaken, AtPutBack, AtQueue, AtStage, AtPending

WayPlaces == Places \ {AtHeld(x) : x \in Extension}

LEMMA WayPlacesAre ==
    /\ AtIn \in WayPlaces /\ AtTaken \in WayPlaces /\ AtPutBack \in WayPlaces
    /\ \A g \in Group : AtQueue(g) \in WayPlaces
    /\ \A x \in Extension : AtStage(x) \in WayPlaces /\ AtPending(x) \in WayPlaces
    /\ \A p \in WayPlaces : \/ p = AtIn \/ p = AtTaken \/ p = AtPutBack
                            \/ \E g \in Group : p = AtQueue(g)
                            \/ \E x \in Extension : p = AtStage(x) \/ p = AtPending(x)
BY PlacesAre, PlacesDiffer DEF WayPlaces

LEMMA OnTheWayIs ==
    ASSUME NEW id, NEW e
    PROVE  e \in OnTheWay(id) <=> \E p \in WayPlaces : e \in HeldAt(p, id)
<1>1. e \in OnTheWay(id) <=>
          \/ e \in Holds("in_msgs", in_msgs, id)
          \/ e \in Holds("taken", taken, id)
          \/ e \in Holds("put_back", put_back, id)
          \/ \E g \in Group : e \in Holds(<<"queue", g>>, MsgsIn(g), id)
          \/ \E x \in Extension : e \in Holds(<<"init_stage", x>>, init_stage[x], id)
          \/ \E x \in Extension : e \in Holds(<<"pending", x>>, pending[x], id)
  <2> DEFINE A == Holds("in_msgs", in_msgs, id)
             B == Holds("taken", taken, id)
             C == Holds("put_back", put_back, id)
             Q(g) == Holds(<<"queue", g>>, MsgsIn(g), id)
             S(x) == Holds(<<"init_stage", x>>, init_stage[x], id)
             P(x) == Holds(<<"pending", x>>, pending[x], id)
             InEngine == A \union B \union C
             InQueues == UNION {Q(g) : g \in Group}
             InStages == UNION {S(x) : x \in Extension}
             InPending == UNION {P(x) : x \in Extension}
  <2>1. OnTheWay(id) = InEngine \union InQueues \union InStages \union InPending
    BY DEF OnTheWay
  <2> HIDE DEF A, B, C, Q, S, P
  <2>2. e \in OnTheWay(id) <=> \/ e \in A \/ e \in B \/ e \in C
                               \/ \E g \in Group : e \in Q(g)
                               \/ \E x \in Extension : e \in S(x)
                               \/ \E x \in Extension : e \in P(x)
    <3>1. e \in InEngine <=> e \in A \/ e \in B \/ e \in C
      OBVIOUS
    <3>2. e \in InQueues <=> \E g \in Group : e \in Q(g)
      OBVIOUS
    <3>3. e \in InStages <=> \E x \in Extension : e \in S(x)
      OBVIOUS
    <3>4. e \in InPending <=> \E x \in Extension : e \in P(x)
      OBVIOUS
    <3> HIDE DEF InEngine, InQueues, InStages, InPending
    <3> QED BY <2>1, <3>1, <3>2, <3>3, <3>4
  <2> QED BY <2>2 DEF A, B, C, Q, S, P
<1>2. ASSUME e \in OnTheWay(id) PROVE \E p \in WayPlaces : e \in HeldAt(p, id)
  BY <1>1, <1>2, HeldAtIs, WayPlacesAre
<1>3. ASSUME NEW p \in WayPlaces, e \in HeldAt(p, id) PROVE e \in OnTheWay(id)
  <2>1. CASE p = AtIn \/ p = AtTaken \/ p = AtPutBack
    BY <1>1, <1>3, <2>1, HeldAtIs
  <2>2. ASSUME NEW g \in Group, p = AtQueue(g) PROVE e \in OnTheWay(id)
    BY <1>1, <1>3, <2>2, HeldAtIs
  <2>3. ASSUME NEW x \in Extension, p = AtStage(x) \/ p = AtPending(x) PROVE e \in OnTheWay(id)
    BY <1>1, <1>3, <2>3, HeldAtIs
  <2> QED BY <2>1, <2>2, <2>3, WayPlacesAre
<1> QED BY <1>2, <1>3

LEMMA HeldAtCounts ==
    ASSUME Typed, NEW id, NEW p \in WayPlaces
    PROVE  /\ Counted(id)[p] = 0 => HeldAt(p, id) = {}
           /\ Counted(id)[p] = 1 => \E e : HeldAt(p, id) = {e}
<1>1. /\ in_msgs \in Seq(Msg) /\ taken \in Seq(Msg) /\ put_back \in Seq(Msg) /\ Msg \subseteq Msg \union {None}
      /\ \A x \in Extension : /\ init_stage[x] \in Seq(RequestsTo(x)) /\ pending[x] \in Seq(RequestsTo(x))
                              /\ RequestsTo(x) \subseteq Msg \union {None}
  BY MsgsToFacts, MsgFacts DEF Typed, EngineQueuesTyped, KeptTyped
<1>2. \A g \in Group : /\ Carried(t_queue[g]) \in Seq(MsgsTo(g) \union {None})
                       /\ MsgsTo(g) \union {None} \subseteq Msg \union {None}
                       /\ MsgsIn(g) = Carried(t_queue[g])
  BY CarriedIs, MsgsToFacts DEF Typed, ThreadsTyped, MsgsIn, Carried, MsgOf
<1>3. ASSUME NEW T, T \subseteq Msg \union {None}, NEW q \in Seq(T), NEW place,
             HeldAt(p, id) = Holds(place, q, id), Counted(id)[p] = Count(q, WithId(id))
      PROVE  /\ Counted(id)[p] = 0 => HeldAt(p, id) = {}
             /\ Counted(id)[p] = 1 => \E e : HeldAt(p, id) = {e}
  <2>1. /\ Count(q, WithId(id)) = 0 => Holds(place, q, id) = {}
        /\ Count(q, WithId(id)) = 1 => \E e : Holds(place, q, id) = {e}
    BY <1>3, HoldsIs
  <2> QED BY <1>3, <2>1
<1>4. /\ Counted(id)[AtIn] = Count(in_msgs, WithId(id)) /\ Counted(id)[AtTaken] = Count(taken, WithId(id))
      /\ Counted(id)[AtPutBack] = Count(put_back, WithId(id))
      /\ \A g \in Group : Counted(id)[AtQueue(g)] = Count(Carried(t_queue[g]), WithId(id))
      /\ \A x \in Extension : /\ Counted(id)[AtStage(x)] = Count(init_stage[x], WithId(id))
                              /\ Counted(id)[AtPending(x)] = Count(pending[x], WithId(id))
  BY CountedIs
<1>a. CASE p = AtIn
  BY <1>1, <1>3, <1>4, <1>a, HeldAtIs
<1>b. CASE p = AtTaken
  BY <1>1, <1>3, <1>4, <1>b, HeldAtIs
<1>c. CASE p = AtPutBack
  BY <1>1, <1>3, <1>4, <1>c, HeldAtIs
<1>d. ASSUME NEW g \in Group, p = AtQueue(g)
      PROVE  /\ Counted(id)[p] = 0 => HeldAt(p, id) = {}
             /\ Counted(id)[p] = 1 => \E e : HeldAt(p, id) = {e}
  <2>1. HeldAt(p, id) = Holds(<<"queue", g>>, Carried(t_queue[g]), id)
    BY <1>2, <1>d, HeldAtIs
  <2> QED BY <1>2, <1>3, <1>4, <1>d, <2>1
<1>e. ASSUME NEW x \in Extension, p = AtStage(x)
      PROVE  /\ Counted(id)[p] = 0 => HeldAt(p, id) = {}
             /\ Counted(id)[p] = 1 => \E e : HeldAt(p, id) = {e}
  BY <1>1, <1>3, <1>4, <1>e, HeldAtIs
<1>f. ASSUME NEW x \in Extension, p = AtPending(x)
      PROVE  /\ Counted(id)[p] = 0 => HeldAt(p, id) = {}
             /\ Counted(id)[p] = 1 => \E e : HeldAt(p, id) = {e}
  BY <1>1, <1>3, <1>4, <1>f, HeldAtIs
<1> QED BY <1>a, <1>b, <1>c, <1>d, <1>e, <1>f, WayPlacesAre

LEMMA PlaceFollows == Typed /\ Accounted => CmdIsSomewhere
<1> SUFFICES ASSUME Typed, Accounted, NEW x \in Extension, NEW n \in out_paths[x]
             PROVE  Cardinality(OnTheWay(<<x, n>>)) + Cardinality(HeldBy(<<x, n>>))
                        = (IF <<x, n>> \in lost THEN 0 ELSE 1)
  BY DEF CmdIsSomewhere
<1> DEFINE id == <<x, n>>
           c == Counted(id)
<1>1. IF id \in lost THEN InNoPlace(c) ELSE InOnePlace(c)
  BY DEF Accounted
<1>2. \A p \in WayPlaces : /\ p \in Places
                           /\ c[p] = 0 => HeldAt(p, id) = {}
                           /\ c[p] = 1 => \E e : HeldAt(p, id) = {e}
  BY HeldAtCounts DEF WayPlaces
<1>3. \A y \in Extension : c[AtHeld(y)] = (IF id \in in_paths[y] THEN 1 ELSE 0) /\ AtHeld(y) \in Places
  BY CountedIs, PlacesAre
<1>4. HeldBy(id) = {y \in Extension : id \in in_paths[y]}
  BY DEF HeldBy
<1>5. \A e : e \in OnTheWay(id) <=> \E p \in WayPlaces : e \in HeldAt(p, id)
  BY OnTheWayIs
<1>6. Cardinality({}) = 0 /\ \A e : Cardinality({e}) = 1
  BY FS_EmptySet, FS_Singleton
<1> SUFFICES Cardinality(OnTheWay(id)) + Cardinality(HeldBy(id)) = (IF id \in lost THEN 0 ELSE 1)
  OBVIOUS
<1> HIDE DEF id, c
<1>7. (\A p \in WayPlaces : c[p] = 0) => OnTheWay(id) = {}
  BY <1>2, <1>5
<1>8. (\A y \in Extension : c[AtHeld(y)] = 0) => HeldBy(id) = {}
  BY <1>3, <1>4
<1>a. CASE id \in lost
  <2>1. \A p \in Places : c[p] = 0
    BY <1>1, <1>a DEF InNoPlace
  <2>2. OnTheWay(id) = {} /\ HeldBy(id) = {}
    BY <1>2, <1>3, <1>7, <1>8, <2>1
  <2> QED BY <1>6, <1>a, <2>2
<1>b. CASE id \notin lost
  <2>1. PICK p \in Places : c[p] = 1 /\ \A q \in Places : q # p => c[q] = 0
    BY <1>1, <1>b DEF InOnePlace
  <2>2. CASE p \in WayPlaces
    <3>1. \A y \in Extension : AtHeld(y) # p
      BY <2>2 DEF WayPlaces
    <3>2. HeldBy(id) = {}
      BY <1>3, <1>8, <2>1, <3>1
    <3>3. PICK e : HeldAt(p, id) = {e}
      BY <1>2, <2>1, <2>2
    <3>4. \A q \in WayPlaces : q # p => HeldAt(q, id) = {}
      BY <1>2, <2>1
    <3>5. OnTheWay(id) = {e}
      BY <1>5, <2>2, <3>3, <3>4
    <3>6. Cardinality(OnTheWay(id)) = 1 /\ Cardinality(HeldBy(id)) = 0
      BY <1>6, <3>2, <3>5
    <3> QED BY <1>b, <3>6
  <2>3. ASSUME NEW y \in Extension, p = AtHeld(y)
        PROVE  Cardinality(OnTheWay(id)) + Cardinality(HeldBy(id)) = (IF id \in lost THEN 0 ELSE 1)
    <3>1. \A q \in WayPlaces : q # p
      BY <2>3 DEF WayPlaces
    <3>2. OnTheWay(id) = {}
      BY <1>2, <1>7, <2>1, <3>1
    <3>3. \A z \in Extension : z # y => AtHeld(z) # p
      BY <2>3, PlacesDiffer
    <3>4. HeldBy(id) = {y}
      BY <1>3, <1>4, <2>1, <2>3, <3>3
    <3>5. Cardinality(OnTheWay(id)) = 0 /\ Cardinality(HeldBy(id)) = 1
      BY <1>6, <3>2, <3>4
    <3> QED BY <1>b, <3>5
  <2> QED BY <2>2, <2>3 DEF WayPlaces
<1> QED BY <1>a, <1>b

\* Every message in a queue, kept or in a path is one that can be there, and the engine counts
\* each of its threads once on the way to being ready.
THEOREM TypeCorrect == Spec => []TypeOK
<1>1. Inv => TypeOK
  BY TypeFollows DEF Inv
<1> QED BY <1>1, RoutingInvariant, PTL

\* What an extension sends to one of another thread arrives in the order in which it was sent
\* and not twice, through any number of rounds of being put back and kept.
THEOREM OrderIsKept == Spec => []DeliveredInOrder
<1>1. Inv => DeliveredInOrder
  BY OrderFollows DEF Inv
<1> QED BY <1>1, RoutingInvariant, PTL

\* A command for which an extension waits is in one place, itself or as its result, or was
\* forgotten by the extension that got it; and a thread that ends leaves no message behind.
THEOREM NothingDropped == Spec => []NothingIsDropped
<1>1. Inv => NothingIsDropped
  BY PlaceFollows, EndFollows DEF Inv, NothingIsDropped
<1> QED BY <1>1, RoutingInvariant, PTL

=============================================================================
