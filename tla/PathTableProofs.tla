--------------------------- MODULE PathTableProofs ---------------------------
(***************************************************************************)
(* Proofs about PathTable, for any number of commands, destinations and    *)
(* partial results, and for every mix of policies.                         *)
(*                                                                         *)
(* The properties of one command follow from CmdInv, which says of each    *)
(* command c how its paths, its final results and the calls of its handler *)
(* go together.  A step changes the table for one command at most, so the  *)
(* proof looks at one command at a time.                                   *)
(***************************************************************************)
EXTENDS PathTable, TLAPS

Open(c) == PathsOf(c) \intersect out_paths # {}

IsFirst(c) == Grouped(c) /\ Policy[c] = "FIRST_ERROR_OR_LAST_OK"

\* Nothing is known of a command before it is sent.
Untouched(c) ==
    /\ PathsOf(c) \intersect has_received_final_cmd_result = {}
    /\ PathsOf(c) \intersect errored = {}
    /\ cached_cmd_result[c] = NoResult
    /\ handled[c] = <<>>

\* What the calls of a FIRST_ERROR_OR_LAST_OK group may look like.
FirstCalls(c) ==
    /\ Len(handled[c]) <= 1
    /\ \A i \in DOMAIN handled[c] :
          LET call == handled[c][i]
              errs == PathsOf(c) \intersect errored
          IN  \/ errs = {<<c, call.dest>>} /\ call.status = "ERROR"
              \/ /\ errs = {}
                 /\ AllFinal(c, has_received_final_cmd_result)
                 /\ call.dest = NDest[c]
                 /\ call.status = ValidatedStatus(c, NDest[c], "OK")

\* While such a group waits it has seen no ERROR, has told its handler nothing, and
\* keeps a result as soon as its last path is final: the clone of the kept result in
\* ten_path_table_process_cmd_result never meets NULL.
FirstInv(c) ==
    /\ FirstCalls(c)
    /\ cached_cmd_result[c] \in {NoResult, [status |-> "OK", dest |-> NDest[c]]}
    /\ Open(c) =>
         /\ PathsOf(c) \intersect errored = {}
         /\ handled[c] = <<>>
         /\ LastInGroup(c) \in has_received_final_cmd_result => cached_cmd_result[c] # NoResult

CmdInv(c) ==
    /\ c \notin sent => Untouched(c)
    /\ Open(c) => /\ c \in sent
                  /\ PathsOf(c) \subseteq out_paths
                  /\ ~AllFinal(c, has_received_final_cmd_result)
    /\ Completed(c) <=> c \in sent /\ ~Open(c)
    /\ \A i \in DOMAIN handled[c] : handled[c][i].is_completed => i = Len(handled[c])
    /\ IsFirst(c) => FirstInv(c)

\* While the flush runs, the paths without a final result are still to be fed.
FlushInv ==
    state = "ON_DEINIT_DONE" => out_paths \ has_received_final_cmd_result \subseteq batch

IInv ==
    /\ TypeOK
    /\ \A c \in Cmd : CmdInv(c)
    /\ FlushInv
-----------------------------------------------------------------------------
(* Paths.                                                                  *)

\* The paths of a command are paths, there is at least one, and they name the command.
LEMMA PathFacts ==
    ASSUME NEW c \in Cmd
    PROVE  /\ PathsOf(c) \subseteq Path
           /\ <<c, 1>> \in PathsOf(c)
           /\ LastInGroup(c) \in PathsOf(c)
           /\ \A p \in PathsOf(c) : p[1] = c /\ p[2] \in Nat /\ p = <<c, p[2]>>
BY PathTableAssumption DEF PathsOf, Path, Cmd, LastInGroup

\* A path belongs to the command it names and to no other.
LEMMA PathOwner ==
    ASSUME NEW p \in Path
    PROVE  /\ p[1] \in Cmd
           /\ p \in PathsOf(p[1])
           /\ p = <<p[1], p[2]>>
           /\ p[2] \in 1..NDest[p[1]]
           /\ p[2] \in Nat
           /\ \A c \in Cmd : c # p[1] => p \notin PathsOf(c)
BY PathTableAssumption DEF PathsOf, Path, Cmd

\* The paths of two commands are disjoint.
LEMMA PathsDisjoint ==
    ASSUME NEW c \in Cmd, NEW b \in Cmd, c # b
    PROVE  PathsOf(c) \intersect PathsOf(b) = {}
BY DEF PathsOf

-----------------------------------------------------------------------------
(* Type correctness.                                                       *)

\* When the last member of a waiting FIRST_ERROR_OR_LAST_OK group is final, or becomes
\* so with an OK, a result is kept: the group can answer.
LEMMA CachedBeforeUse ==
    ASSUME TypeOK, NEW p \in Path, NEW r \in Result, CmdInv(p[1]),
           p \in out_paths, Grouped(p[1]), Policy[p[1]] = "FIRST_ERROR_OR_LAST_OK",
           AllFinal(p[1], FinalsWith(p, r)), p # LastInGroup(p[1])
    PROVE  cached_cmd_result[p[1]] = [status |-> "OK", dest |-> NDest[p[1]]]
<1>1. p[1] \in Cmd /\ p \in PathsOf(p[1])
  BY PathOwner
<1>2. Open(p[1])
  BY <1>1 DEF Open
<1>3. LastInGroup(p[1]) \in has_received_final_cmd_result
  BY <1>1, PathFacts DEF AllFinal, FinalsWith
<1> QED BY <1>2, <1>3 DEF CmdInv, FirstInv, IsFirst

\* What ProcessCmdResult does to the types of the table.
LEMMA ProcessType ==
    ASSUME TypeOK, NEW p \in Path, NEW r \in Result, CmdInv(p[1]), ProcessCmdResult(p, r)
    PROVE  /\ out_paths' \subseteq out_paths
           /\ has_received_final_cmd_result' \subseteq Path
           /\ errored' \subseteq Path
           /\ cached_cmd_result' \in [Cmd -> [status : {"OK"}, dest : Nat] \union {NoResult}]
           /\ handled' \in [Cmd -> Seq(HandlerCall)]
<1> DEFINE c == p[1]
<1>1. c \in Cmd /\ p[2] \in Nat /\ NDest[c] \in Nat /\ r.status \in Status
           /\ r.is_final \in BOOLEAN
  BY PathOwner, PathTableAssumption DEF Result, Cmd
<1>2. CASE DiscardResult(p)
  BY <1>2 DEF DiscardResult, table, TypeOK
<1>3. ASSUME NEW d \in Nat, NEW st \in Status, NEW done \in BOOLEAN,
             CallHandler(c, d, st, done)
      PROVE  handled' \in [Cmd -> Seq(HandlerCall)]
  <2> DEFINE call == [status |-> ValidatedStatus(c, d, st), dest |-> d, is_completed |-> done]
  <2>1. call \in HandlerCall
    BY DEF HandlerCall, ValidatedStatus, Status
  <2>2. handled \in [Cmd -> Seq(HandlerCall)]
    BY DEF TypeOK
  <2>3. handled' = [handled EXCEPT ![c] = Append(handled[c], call)]
    BY <1>3 DEF CallHandler
  <2>4. handled[c] \in Seq(HandlerCall)
    BY <2>2, <1>1
  <2>5. Append(handled[c], call) \in Seq(HandlerCall)
    BY <2>1, <2>4
  <2> QED BY <2>2, <2>3, <2>5
<1>4. CASE p \in out_paths /\ ~DiscardResult(p)
  <2>1. has_received_final_cmd_result' \subseteq Path /\ errored' \subseteq Path
    BY <1>4 DEF ProcessCmdResult, TypeOK, FinalsWith
  <2>2. CASE SingleResult(p, r)
    BY <2>1, <2>2, <1>3, <1>1 DEF SingleResult, TypeOK
  <2>3. CASE FirstError(p, r)
    BY <2>1, <2>3, <1>3, <1>1 DEF FirstError, TypeOK, Status
  <2>4. CASE LastOk(p, r)
    <3> DEFINE cached == IF p = LastInGroup(c) THEN [status |-> "OK", dest |-> p[2]]
                                               ELSE cached_cmd_result[c]
    <3>1. cached \in [status : {"OK"}, dest : Nat] \union {NoResult}
      BY <1>1 DEF TypeOK
    <3>2. cached_cmd_result' = [cached_cmd_result EXCEPT ![c] = cached]
      BY <2>4 DEF LastOk
    <3>3. cached_cmd_result' \in [Cmd -> [status : {"OK"}, dest : Nat] \union {NoResult}]
      BY <3>1, <3>2 DEF TypeOK
    <3>4. CASE ~AllFinal(c, FinalsWith(p, r))
      BY <2>1, <2>4, <3>3, <3>4 DEF LastOk, TypeOK
    <3>5. CASE AllFinal(c, FinalsWith(p, r))
      <4>1. cached \in [status : {"OK"}, dest : Nat]
        <5>1. CASE p = LastInGroup(c)
          BY <1>1, <5>1
        <5>2. CASE p # LastInGroup(c)
          <6>1. Grouped(c) /\ Policy[c] = "FIRST_ERROR_OR_LAST_OK"
            BY <2>4 DEF LastOk
          <6>2. cached_cmd_result[c] = [status |-> "OK", dest |-> NDest[c]]
            BY <1>4, <3>5, <5>2, <6>1, CachedBeforeUse
          <6> QED BY <1>1, <5>2, <6>2
        <5> QED BY <5>1, <5>2
      <4>2. cached.dest \in Nat /\ cached.status \in Status
        BY <4>1 DEF Status
      <4>3. CallHandler(c, cached.dest, cached.status, TRUE)
        BY <2>4, <3>5 DEF LastOk
      <4>4. handled' \in [Cmd -> Seq(HandlerCall)]
        BY <1>3, <4>2, <4>3
      <4> QED BY <2>1, <2>4, <3>3, <3>5, <4>4 DEF LastOk, TypeOK
    <3> QED BY <3>4, <3>5
  <2>5. CASE EachResult(p, r)
    BY <2>1, <2>5, <1>3, <1>1 DEF EachResult, TypeOK, AllFinal
  <2> QED BY <1>4, <2>2, <2>3, <2>4, <2>5 DEF ProcessCmdResult
<1> QED BY <1>2, <1>4 DEF ProcessCmdResult
-----------------------------------------------------------------------------
(* One command at a time.                                                  *)

\* A step that leaves everything about a command alone keeps what is known of it.
LEMMA Frame ==
    ASSUME NEW c \in Cmd, CmdInv(c),
           c \in sent <=> c \in sent',
           PathsOf(c) \intersect out_paths' = PathsOf(c) \intersect out_paths,
           PathsOf(c) \intersect has_received_final_cmd_result'
               = PathsOf(c) \intersect has_received_final_cmd_result,
           PathsOf(c) \intersect errored' = PathsOf(c) \intersect errored,
           cached_cmd_result'[c] = cached_cmd_result[c],
           handled'[c] = handled[c]
    PROVE  CmdInv(c)'
<1>1. Open(c)' <=> Open(c)
  BY DEF Open
<1>2. AllFinal(c, has_received_final_cmd_result)' <=> AllFinal(c, has_received_final_cmd_result)
  BY DEF AllFinal
<1>3. Completed(c)' <=> Completed(c)
  BY DEF Completed
<1>4. Untouched(c) => Untouched(c)'
  BY DEF Untouched
<1>5. PathsOf(c) \subseteq out_paths => PathsOf(c) \subseteq out_paths'
  OBVIOUS
<1>6. FirstCalls(c) => FirstCalls(c)'
  BY <1>2 DEF FirstCalls
<1>7. LastInGroup(c) \in has_received_final_cmd_result'
          => LastInGroup(c) \in has_received_final_cmd_result
  BY PathFacts
<1>8. FirstInv(c) => FirstInv(c)'
  BY <1>1, <1>6, <1>7 DEF FirstInv
<1> QED BY <1>1, <1>2, <1>3, <1>4, <1>5, <1>8 DEF CmdInv, IsFirst

\* What a call of a result handler adds to the record of its calls.
LEMMA HandlerCalled ==
    ASSUME TypeOK, NEW c \in Cmd, NEW d, NEW st, NEW done \in BOOLEAN, CallHandler(c, d, st, done)
    PROVE  /\ Len(handled'[c]) = Len(handled[c]) + 1
           /\ DOMAIN handled'[c] = 1..(Len(handled[c]) + 1)
           /\ Len(handled[c]) \in Nat
           /\ DOMAIN handled[c] = 1..Len(handled[c])
           /\ \A i \in DOMAIN handled[c] : handled'[c][i] = handled[c][i]
           /\ handled'[c][Len(handled[c]) + 1]
                = [status |-> ValidatedStatus(c, d, st), dest |-> d, is_completed |-> done]
           /\ \A b \in Cmd : b # c => handled'[b] = handled[b]
<1> DEFINE call == [status |-> ValidatedStatus(c, d, st), dest |-> d, is_completed |-> done]
<1>1. handled \in [Cmd -> Seq(HandlerCall)]
  BY DEF TypeOK
<1>2. handled' = [handled EXCEPT ![c] = Append(handled[c], call)]
  BY DEF CallHandler
<1>3. handled[c] \in Seq(HandlerCall) /\ handled'[c] = Append(handled[c], call)
  BY <1>1, <1>2
<1> QED BY <1>1, <1>2, <1>3

\* A call that does not complete the command leaves it open, one that does completes it.
LEMMA CompletionRecorded ==
    ASSUME TypeOK, NEW c \in Cmd, NEW d, NEW st, NEW done \in BOOLEAN,
           CallHandler(c, d, st, done), ~Completed(c)
    PROVE  /\ Completed(c)' <=> done
           /\ \A i \in DOMAIN handled'[c] :
                 handled'[c][i].is_completed => i = Len(handled'[c])
<1> DEFINE call == [status |-> ValidatedStatus(c, d, st), dest |-> d, is_completed |-> done]
<1>1. /\ Len(handled'[c]) = Len(handled[c]) + 1
      /\ DOMAIN handled'[c] = 1..(Len(handled[c]) + 1)
      /\ Len(handled[c]) \in Nat
      /\ DOMAIN handled[c] = 1..Len(handled[c])
      /\ \A i \in DOMAIN handled[c] : handled'[c][i] = handled[c][i]
      /\ handled'[c][Len(handled[c]) + 1] = call
  BY HandlerCalled
<1>2. call.is_completed = done
  OBVIOUS
<1> HIDE DEF call
<1>3. \A i \in DOMAIN handled[c] : ~handled'[c][i].is_completed
  BY <1>1 DEF Completed
<1>4. \A i \in DOMAIN handled'[c] :
          i \in DOMAIN handled[c] \/ i = Len(handled[c]) + 1
  BY <1>1
<1> QED BY <1>1, <1>2, <1>3, <1>4 DEF Completed

\* The only path of a command without a group.
LEMMA OnlyPath ==
    ASSUME NEW p \in Path, ~Grouped(p[1])
    PROVE  PathsOf(p[1]) = {p}
BY PathOwner, PathTableAssumption DEF Grouped, PathsOf, Cmd
-----------------------------------------------------------------------------
(* ten_path_table_process_cmd_result preserves the invariant.              *)

\* An open command: what CmdInv says of it, spelled out.
LEMMA OpenFacts ==
    ASSUME NEW p \in Path, CmdInv(p[1]), p \in out_paths
    PROVE  /\ p[1] \in Cmd /\ p \in PathsOf(p[1])
           /\ Open(p[1]) /\ p[1] \in sent /\ ~Completed(p[1])
           /\ PathsOf(p[1]) \subseteq out_paths
           /\ ~AllFinal(p[1], has_received_final_cmd_result)
           /\ IsFirst(p[1]) => /\ PathsOf(p[1]) \intersect errored = {}
                               /\ handled[p[1]] = <<>>
                               /\ FirstInv(p[1])
<1>1. p[1] \in Cmd /\ p \in PathsOf(p[1]) /\ Open(p[1])
  BY PathOwner DEF Open
<1> QED BY <1>1 DEF CmdInv, FirstInv

LEMMA SingleResultInv ==
    ASSUME TypeOK, NEW p \in Path, NEW r \in Result, CmdInv(p[1]), p \in out_paths,
           has_received_final_cmd_result' = FinalsWith(p, r),
           SingleResult(p, r), sent' = sent
    PROVE  CmdInv(p[1])'
<1> DEFINE c == p[1]
<1>1. /\ c \in Cmd /\ p \in PathsOf(c) /\ Open(c) /\ c \in sent /\ ~Completed(c)
      /\ ~AllFinal(c, has_received_final_cmd_result)
  BY OpenFacts
<1>2. PathsOf(c) = {p} /\ ~IsFirst(c)
  BY OnlyPath DEF SingleResult, IsFirst
<1>3. r.is_final \in BOOLEAN /\ c \in Nat
  BY <1>1 DEF Result, TypeOK, Cmd
<1>4. /\ Completed(c)' <=> r.is_final
      /\ \A i \in DOMAIN handled'[c] : handled'[c][i].is_completed => i = Len(handled'[c])
  BY <1>1, <1>3, CompletionRecorded DEF SingleResult
<1>5. Open(c)' <=> ~r.is_final
  BY <1>2 DEF SingleResult, Open
<1>6. ~r.is_final => ~AllFinal(c, has_received_final_cmd_result)'
  BY <1>1, <1>2 DEF AllFinal, FinalsWith
<1> QED BY <1>1, <1>2, <1>3, <1>4, <1>5, <1>6 DEF CmdInv, SingleResult, IsFirst

LEMMA FirstErrorInv ==
    ASSUME TypeOK, NEW p \in Path, NEW r \in Result, CmdInv(p[1]), p \in out_paths,
           has_received_final_cmd_result' = FinalsWith(p, r),
           errored' = errored \union {p},
           FirstError(p, r), sent' = sent
    PROVE  CmdInv(p[1])'
<1> DEFINE c == p[1]
<1>1. /\ c \in Cmd /\ p \in PathsOf(c) /\ Open(c) /\ c \in sent /\ ~Completed(c)
      /\ IsFirst(c)
      /\ PathsOf(c) \intersect errored = {} /\ handled[c] = <<>> /\ FirstInv(c)
  BY OpenFacts DEF FirstError, IsFirst
<1>2. c \in Nat /\ p = <<c, p[2]>>
  BY <1>1, PathOwner DEF TypeOK, Cmd
<1>3. CallHandler(c, p[2], "ERROR", TRUE)
  BY DEF FirstError
<1>4. /\ Completed(c)'
      /\ \A i \in DOMAIN handled'[c] : handled'[c][i].is_completed => i = Len(handled'[c])
  BY <1>1, <1>3, CompletionRecorded
<1>5. ~Open(c)'
  BY DEF FirstError, Open
<1>6. /\ Len(handled'[c]) = 1 /\ DOMAIN handled'[c] = {1}
      /\ handled'[c][1].dest = p[2] /\ handled'[c][1].status = "ERROR"
  <2> DEFINE call == [status |-> ValidatedStatus(c, p[2], "ERROR"), dest |-> p[2],
                      is_completed |-> TRUE]
  <2>1. handled' = [handled EXCEPT ![c] = Append(handled[c], call)]
    BY <1>3 DEF CallHandler
  <2>2. Len(handled'[c]) = 1 /\ DOMAIN handled'[c] = {1} /\ handled'[c][1] = call
    <3>1. handled'[c] = Append(handled[c], call)
      BY <1>1, <2>1 DEF TypeOK
    <3>2. handled[c] = <<>>
      BY <1>1
    <3> HIDE DEF call
    <3> QED BY <3>1, <3>2
  <2>3. call.dest = p[2] /\ call.status = "ERROR"
    BY DEF ValidatedStatus
  <2> HIDE DEF call
  <2> QED BY <2>2, <2>3
<1>7. PathsOf(c) \intersect errored' = {<<c, p[2]>>}
  BY <1>1, <1>2
<1>8. FirstCalls(c)'
  BY <1>6, <1>7 DEF FirstCalls
<1>9. FirstInv(c)'
  BY <1>1, <1>5, <1>8 DEF FirstInv, FirstError
<1> QED BY <1>1, <1>2, <1>4, <1>5, <1>9 DEF CmdInv

LEMMA EachResultInv ==
    ASSUME TypeOK, NEW p \in Path, NEW r \in Result, CmdInv(p[1]), p \in out_paths,
           has_received_final_cmd_result' = FinalsWith(p, r),
           EachResult(p, r), sent' = sent
    PROVE  CmdInv(p[1])'
<1> DEFINE c == p[1]
           all_final == AllFinal(c, FinalsWith(p, r))
<1>1. /\ c \in Cmd /\ p \in PathsOf(c) /\ Open(c) /\ c \in sent /\ ~Completed(c)
      /\ PathsOf(c) \subseteq out_paths
  BY OpenFacts
<1>2. c \in Nat /\ ~IsFirst(c)
  BY <1>1 DEF TypeOK, Cmd, EachResult, IsFirst
<1>3. CallHandler(c, p[2], r.status, all_final)
  BY DEF EachResult
<1>4. all_final \in BOOLEAN
  BY DEF AllFinal
<1>5. /\ Completed(c)' <=> all_final
      /\ \A i \in DOMAIN handled'[c] : handled'[c][i].is_completed => i = Len(handled'[c])
  BY <1>1, <1>3, <1>4, CompletionRecorded
<1>6. AllFinal(c, has_received_final_cmd_result)' <=> all_final
  BY DEF AllFinal
<1>7. CASE all_final
  <2>1. ~Open(c)'
    BY <1>7 DEF EachResult, Open
  <2> QED BY <1>1, <1>2, <1>5, <1>7, <2>1 DEF CmdInv, IsFirst
<1>8. CASE ~all_final
  <2>1. out_paths' = out_paths
    BY <1>8 DEF EachResult
  <2>2. Open(c)' /\ PathsOf(c) \subseteq out_paths'
    BY <1>1, <2>1 DEF Open
  <2> QED BY <1>1, <1>2, <1>5, <1>6, <1>8, <2>2 DEF CmdInv, IsFirst
<1> QED BY <1>7, <1>8
LEMMA LastOkInv ==
    ASSUME TypeOK, NEW p \in Path, NEW r \in Result, CmdInv(p[1]), p \in out_paths,
           has_received_final_cmd_result' = FinalsWith(p, r),
           errored' = errored,
           LastOk(p, r), sent' = sent
    PROVE  CmdInv(p[1])'
<1> DEFINE c == p[1]
           kept == [status |-> "OK", dest |-> NDest[c]]
           cached == IF p = LastInGroup(c) THEN [status |-> "OK", dest |-> p[2]]
                                           ELSE cached_cmd_result[c]
<1>1. /\ c \in Cmd /\ p \in PathsOf(c) /\ Open(c) /\ c \in sent /\ ~Completed(c)
      /\ PathsOf(c) \subseteq out_paths
      /\ IsFirst(c)
      /\ PathsOf(c) \intersect errored = {} /\ handled[c] = <<>> /\ FirstInv(c)
  BY OpenFacts DEF LastOk, IsFirst
<1>2. c \in Nat /\ p = <<c, p[2]>>
  BY <1>1, PathOwner DEF TypeOK, Cmd
<1>3. p = LastInGroup(c) => cached = kept
  BY <1>2 DEF LastInGroup
<1>4. cached_cmd_result'[c] = cached
  BY <1>1 DEF LastOk, TypeOK
<1>5. cached \in {NoResult, kept}
  BY <1>1, <1>3 DEF FirstInv
<1>6. LastInGroup(c) \in has_received_final_cmd_result' => cached = kept
  <2>1. CASE p = LastInGroup(c)
    BY <2>1, <1>3
  <2>2. CASE p # LastInGroup(c)
    BY <2>2, <1>1, <1>5 DEF FirstInv, FinalsWith
  <2> QED BY <2>1, <2>2
<1>7. CASE ~AllFinal(c, FinalsWith(p, r))
  <2>1. out_paths' = out_paths /\ handled' = handled
    BY <1>7 DEF LastOk
  <2>2. Open(c)' /\ PathsOf(c) \subseteq out_paths' /\ ~Completed(c)'
    BY <1>1, <2>1 DEF Open, Completed
  <2>3. FirstCalls(c)'
    BY <1>1, <2>1 DEF FirstCalls
  <2>4. kept # NoResult
    BY DEF NoResult
  <2>5. FirstInv(c)'
    BY <1>1, <1>4, <1>5, <1>6, <2>1, <2>3, <2>4 DEF FirstInv
  <2>6. ~AllFinal(c, has_received_final_cmd_result)'
    BY <1>7 DEF AllFinal
  <2> QED BY <1>1, <1>2, <2>1, <2>2, <2>5, <2>6 DEF CmdInv
<1>8. CASE AllFinal(c, FinalsWith(p, r))
  <2>1. LastInGroup(c) \in has_received_final_cmd_result'
    BY <1>1, <1>8, PathFacts DEF AllFinal
  <2>2. cached = kept
    BY <1>6, <2>1
  <2>3. CallHandler(c, NDest[c], "OK", TRUE)
    <3>1. CallHandler(c, cached.dest, cached.status, TRUE)
      BY <1>8 DEF LastOk
    <3>2. cached.dest = NDest[c] /\ cached.status = "OK"
      BY <2>2
    <3> QED BY <3>1, <3>2
  <2>4. /\ Completed(c)'
        /\ \A i \in DOMAIN handled'[c] : handled'[c][i].is_completed => i = Len(handled'[c])
    BY <1>1, <2>3, CompletionRecorded
  <2>5. ~Open(c)'
    BY <1>8 DEF LastOk, Open
  <2>6. /\ Len(handled'[c]) = 1 /\ DOMAIN handled'[c] = {1}
        /\ handled'[c][1].dest = NDest[c]
        /\ handled'[c][1].status = ValidatedStatus(c, NDest[c], "OK")
    <3> DEFINE call == [status |-> ValidatedStatus(c, NDest[c], "OK"), dest |-> NDest[c],
                        is_completed |-> TRUE]
    <3>1. handled'[c] = Append(handled[c], call)
      BY <1>1, <2>3 DEF CallHandler, TypeOK
    <3>2. call.dest = NDest[c] /\ call.status = ValidatedStatus(c, NDest[c], "OK")
      OBVIOUS
    <3>3. handled[c] = <<>>
      BY <1>1
    <3> HIDE DEF call
    <3>4. Len(handled'[c]) = 1 /\ DOMAIN handled'[c] = {1} /\ handled'[c][1] = call
      BY <3>1, <3>3
    <3> QED BY <3>2, <3>4
  <2>7. AllFinal(c, has_received_final_cmd_result)'
    BY <1>8 DEF AllFinal
  <2>8. FirstCalls(c)'
    BY <1>1, <2>6, <2>7 DEF FirstCalls, ValidatedStatus
  <2>9. FirstInv(c)'
    BY <1>4, <2>2, <2>5, <2>8 DEF FirstInv
  <2> QED BY <1>1, <1>2, <2>4, <2>5, <2>9 DEF CmdInv
<1> QED BY <1>7, <1>8

\* A result processed on path p leaves every other command's part of the table alone.
LEMMA OthersUnchanged ==
    ASSUME TypeOK, NEW p \in Path, NEW r \in Result, ProcessCmdResult(p, r),
           NEW c \in Cmd, c # p[1]
    PROVE  /\ PathsOf(c) \intersect out_paths' = PathsOf(c) \intersect out_paths
           /\ PathsOf(c) \intersect has_received_final_cmd_result'
                = PathsOf(c) \intersect has_received_final_cmd_result
           /\ PathsOf(c) \intersect errored' = PathsOf(c) \intersect errored
           /\ cached_cmd_result'[c] = cached_cmd_result[c]
           /\ handled'[c] = handled[c]
<1>1. p \notin PathsOf(c) /\ PathsOf(c) \intersect PathsOf(p[1]) = {}
  BY PathOwner, PathsDisjoint
<1>2. CASE DiscardResult(p)
  BY <1>2 DEF DiscardResult, table
<1>3. ASSUME NEW d, NEW st, NEW done, CallHandler(p[1], d, st, done)
      PROVE  handled'[c] = handled[c]
  BY <1>3 DEF CallHandler, TypeOK
<1>4. CASE ~DiscardResult(p)
  <2>1. /\ PathsOf(c) \intersect has_received_final_cmd_result'
              = PathsOf(c) \intersect has_received_final_cmd_result
        /\ PathsOf(c) \intersect errored' = PathsOf(c) \intersect errored
    BY <1>1, <1>4 DEF ProcessCmdResult, FinalsWith
  <2>2. CASE SingleResult(p, r)
    BY <1>1, <1>3, <2>1, <2>2 DEF SingleResult
  <2>3. CASE FirstError(p, r)
    BY <1>1, <1>3, <2>1, <2>3 DEF FirstError
  <2>4. CASE LastOk(p, r)
    <3>1. cached_cmd_result'[c] = cached_cmd_result[c]
      BY <2>4 DEF LastOk, TypeOK
    <3>2. handled'[c] = handled[c]
      BY <2>4, <1>3 DEF LastOk
    <3>3. PathsOf(c) \intersect out_paths' = PathsOf(c) \intersect out_paths
      BY <1>1, <2>4 DEF LastOk
    <3> QED BY <2>1, <3>1, <3>2, <3>3
  <2>5. CASE EachResult(p, r)
    BY <1>1, <1>3, <2>1, <2>5 DEF EachResult
  <2> QED BY <1>4, <2>2, <2>3, <2>4, <2>5 DEF ProcessCmdResult
<1> QED BY <1>2, <1>4

\* Processing a result keeps the invariant of every command.
LEMMA ProcessInv ==
    ASSUME TypeOK, NEW p \in Path, NEW r \in Result, \A c \in Cmd : CmdInv(c),
           ProcessCmdResult(p, r), sent' = sent
    PROVE  \A c \in Cmd : CmdInv(c)'
<1> SUFFICES ASSUME NEW c \in Cmd PROVE CmdInv(c)'
  OBVIOUS
<1>1. CASE c # p[1]
  BY <1>1, OthersUnchanged, Frame
<1>2. CASE c = p[1] /\ DiscardResult(p)
  BY <1>2, Frame DEF DiscardResult, table
<1>3. CASE c = p[1] /\ ~DiscardResult(p)
  <2>1. /\ p \in out_paths /\ CmdInv(p[1])
        /\ has_received_final_cmd_result' = FinalsWith(p, r)
    BY <1>3 DEF ProcessCmdResult
  <2>2. CASE SingleResult(p, r)
    BY <1>3, <2>1, <2>2, SingleResultInv
  <2>3. CASE FirstError(p, r)
    <3>1. errored' = errored \union {p}
      BY <1>3, <2>3 DEF ProcessCmdResult, FirstError
    <3> QED BY <1>3, <2>1, <2>3, <3>1, FirstErrorInv
  <2>4. CASE LastOk(p, r)
    <3>1. errored' = errored
      BY <1>3, <2>4 DEF ProcessCmdResult, LastOk
    <3> QED BY <1>3, <2>1, <2>4, <3>1, LastOkInv
  <2>5. CASE EachResult(p, r)
    BY <1>3, <2>1, <2>5, EachResultInv
  <2> QED BY <1>3, <2>2, <2>3, <2>4, <2>5 DEF ProcessCmdResult
<1> QED BY <1>1, <1>2, <1>3
-----------------------------------------------------------------------------
(* The inductive invariant.                                                *)

LEMMA InitInv == Init => IInv
<1> SUFFICES ASSUME Init PROVE IInv
  OBVIOUS
<1>1. TypeOK
  <2>1. cached_cmd_result \in [Cmd -> [status : {"OK"}, dest : Nat] \union {NoResult}]
    BY DEF Init
  <2>2. \A S : <<>> \in Seq(S)
    OBVIOUS
  <2>3. wire \in [Path -> Seq(Result)] /\ handled \in [Cmd -> Seq(HandlerCall)]
    BY <2>2 DEF Init
  <2> QED BY <2>1, <2>3, PathTableAssumption DEF Init, TypeOK
<1>2. ASSUME NEW c \in Cmd PROVE CmdInv(c)
  <2>1. handled[c] = <<>> /\ cached_cmd_result[c] = NoResult
    BY DEF Init
  <2>2. ~Open(c) /\ ~Completed(c) /\ c \notin sent
    BY <2>1 DEF Open, Completed, Init, Cmd
  <2>3. FirstInv(c)
    BY <2>1, <2>2 DEF FirstInv, FirstCalls
  <2> QED BY <2>1, <2>2, <2>3 DEF CmdInv, Untouched, Init
<1> QED BY <1>1, <1>2 DEF IInv, FlushInv, Init

\* SendCmd opens one command and leaves the others alone.
LEMMA SendInv ==
    ASSUME IInv, NEW b \in Cmd, SendCmd(b)
    PROVE  IInv'
<1> USE DEF IInv
<1>1. sent' = sent \union {b} /\ b \notin sent
  BY DEF SendCmd, Cmd
<1>2. PathsOf(b) \subseteq Path
  BY PathFacts
<1>3. TypeOK'
  <2>1. \A p \in Path : MaxPartial[p] \in Nat
    BY PathTableAssumption
  <2>2. /\ to_return' \in [Path -> Nat]
        /\ \A p \in Path : to_return'[p] <= MaxPartial[p] + 1
    BY <2>1 DEF SendCmd, TypeOK
  <2> QED BY <1>1, <1>2, <2>2 DEF SendCmd, TypeOK
<1>4. ASSUME NEW c \in Cmd PROVE CmdInv(c)'
  <2>1. CASE c # b
    <3>1. PathsOf(c) \intersect PathsOf(b) = {}
      BY <2>1, PathsDisjoint
    <3>2. PathsOf(c) \intersect out_paths' = PathsOf(c) \intersect out_paths
      BY <3>1 DEF SendCmd
    <3>3. c \in sent <=> c \in sent'
      BY <1>1, <2>1
    <3> QED BY <3>2, <3>3, Frame DEF SendCmd
  <2>2. CASE c = b
    <3>1. Untouched(c) /\ ~Open(c) /\ handled[c] = <<>>
      BY <1>1, <2>2 DEF CmdInv, Untouched
    <3>2. PathsOf(c) \subseteq out_paths' /\ Open(c)'
      BY <2>2, PathFacts DEF SendCmd, Open
    <3>3. ~AllFinal(c, has_received_final_cmd_result)'
      BY <3>1, PathFacts DEF AllFinal, Untouched, SendCmd
    <3>4. ~Completed(c)'
      BY <3>1 DEF Completed, SendCmd
    <3>5. FirstInv(c)'
      <4>1. LastInGroup(c) \notin has_received_final_cmd_result
        BY <3>1, PathFacts DEF Untouched
      <4> QED BY <3>1, <4>1 DEF FirstInv, FirstCalls, Untouched, SendCmd
    <3>6. c \in sent'
      BY <1>1, <2>2
    <3> QED BY <3>1, <3>2, <3>3, <3>4, <3>5, <3>6 DEF CmdInv, SendCmd
  <2> QED BY <2>1, <2>2
<1>5. FlushInv'
  BY DEF FlushInv, SendCmd
<1> QED BY <1>3, <1>4, <1>5

\* A step that leaves the table and the commands alone keeps CmdInv of all of them.
LEMMA TableUnchanged ==
    ASSUME \A c \in Cmd : CmdInv(c), UNCHANGED <<sent, table>>
    PROVE  \A c \in Cmd : CmdInv(c)'
BY Frame DEF table

LEMMA HandleInResultInv ==
    ASSUME IInv, NEW p \in Path, HandleInResult(p)
    PROVE  IInv'
<1> USE DEF IInv
<1>1. wire[p] \in Seq(Result) /\ wire[p] # <<>> /\ Head(wire[p]) \in Result
           /\ Tail(wire[p]) \in Seq(Result)
  BY DEF HandleInResult, TypeOK
<1>2. ProcessCmdResult(p, Head(wire[p])) /\ p[1] \in Cmd /\ CmdInv(p[1])
  BY PathOwner DEF HandleInResult
<1>3. TypeOK'
  BY <1>1, <1>2, ProcessType DEF HandleInResult, TypeOK
<1>4. \A c \in Cmd : CmdInv(c)'
  BY <1>1, <1>2, ProcessInv DEF HandleInResult
<1>5. FlushInv'
  <2>1. out_paths' \subseteq out_paths
    BY <1>1, <1>2, ProcessType
  <2>2. has_received_final_cmd_result \subseteq has_received_final_cmd_result'
    BY <1>2 DEF ProcessCmdResult, DiscardResult, table, FinalsWith
  <2> QED BY <2>1, <2>2 DEF FlushInv, HandleInResult
<1> QED BY <1>3, <1>4, <1>5

LEMMA FeedErrorInv == IInv /\ FeedError => IInv'
<1> SUFFICES ASSUME IInv, NEW p \in batch,
                    ProcessCmdResult(p, SynthesisedError),
                    batch' = batch \ {p},
                    UNCHANGED <<state, sent, to_return, wire, expired>>
             PROVE  IInv'
  BY DEF FeedError
<1> USE DEF IInv
<1>1. p \in Path /\ SynthesisedError \in Result /\ p[1] \in Cmd /\ CmdInv(p[1])
  BY PathOwner DEF TypeOK, SynthesisedError, Result, Status
<1>2. TypeOK'
  BY <1>1, ProcessType DEF TypeOK
<1>3. \A c \in Cmd : CmdInv(c)'
  BY <1>1, ProcessInv
<1>4. FlushInv'
  <2>1. out_paths' \subseteq out_paths
    BY <1>1, ProcessType
  <2>2. has_received_final_cmd_result \subseteq has_received_final_cmd_result'
    BY DEF ProcessCmdResult, DiscardResult, table, FinalsWith
  <2>3. p \in out_paths' => p \in has_received_final_cmd_result'
    BY <2>1 DEF ProcessCmdResult, DiscardResult, FinalsWith, SynthesisedError
  <2> QED BY <2>1, <2>2, <2>3 DEF FlushInv
<1> QED BY <1>2, <1>3, <1>4

LEMMA NextInv == IInv /\ [Next]_vars => IInv'
<1> SUFFICES ASSUME IInv, [Next]_vars PROVE IInv'
  OBVIOUS
<1> USE DEF IInv
<1>1. ASSUME NEW c \in Cmd, SendCmd(c) PROVE IInv'
  BY <1>1, SendInv
<1>2. ASSUME NEW p \in Path, NEW s \in Status, NEW f \in BOOLEAN, ReturnResult(p, s, f)
      PROVE  IInv'
  <2>1. [status |-> s, is_final |-> f] \in Result
    BY DEF Result
  <2>2. wire' \in [Path -> Seq(Result)]
    <3>1. wire[p] \in Seq(Result)
      BY DEF TypeOK
    <3>2. Append(wire[p], [status |-> s, is_final |-> f]) \in Seq(Result)
      BY <2>1, <3>1
    <3> QED BY <1>2, <3>2 DEF ReturnResult, TypeOK
  <2>3. /\ to_return' \in [Path -> Nat]
        /\ \A q \in Path : to_return'[q] <= MaxPartial[q] + 1
    <3>1. \A q \in Path : MaxPartial[q] \in Nat
      BY PathTableAssumption
    <3> QED BY <1>2, <3>1 DEF ReturnResult, TypeOK
  <2>4. TypeOK'
    BY <1>2, <2>2, <2>3 DEF ReturnResult, TypeOK, table
  <2> QED BY <1>2, <2>4, TableUnchanged DEF ReturnResult, FlushInv, table
<1>3. ASSUME NEW p \in Path, HandleInResult(p) PROVE IInv'
  BY <1>3, HandleInResultInv
<1>4. ASSUME NEW X \in SUBSET out_paths, OutPathTimer(X) PROVE IInv'
  BY <1>4, TableUnchanged DEF OutPathTimer, TypeOK, FlushInv, table
<1>5. CASE FeedError
  BY <1>5, FeedErrorInv
<1>6. CASE OnConfigureDone
  BY <1>6, TableUnchanged DEF OnConfigureDone, TypeOK, FlushInv, table
<1>7. CASE PathTimersClosed
  BY <1>7, TableUnchanged DEF PathTimersClosed, TypeOK, FlushInv, table
<1>8. CASE OnDeinitDone
  BY <1>8, TableUnchanged DEF OnDeinitDone, TypeOK, FlushInv, table
<1>9. CASE UNCHANGED vars
  BY <1>9, TableUnchanged DEF vars, TypeOK, FlushInv, table
<1> QED BY <1>1, <1>2, <1>3, <1>4, <1>5, <1>6, <1>7, <1>8, <1>9 DEF Next

\* The inductive invariant holds of every behaviour of the path table.
THEOREM Invariance == Spec => []IInv
<1>1. Init => IInv
  BY InitInv
<1>2. IInv /\ [Next]_vars => IInv'
  BY NextInv
<1> QED BY <1>1, <1>2, PTL DEF Spec
-----------------------------------------------------------------------------
(* The theorems.                                                           *)

\* Every variable keeps its type.
THEOREM TypeCorrect == Spec => []TypeOK
BY Invariance, PTL DEF IInv

\* ten_env.h frees the handler with the completed result: nothing is called after it.
THEOREM CompletedIsLast == Spec => []NothingAfterCompleted
<1>1. IInv => NothingAfterCompleted
  BY DEF IInv, CmdInv, NothingAfterCompleted
<1> QED BY <1>1, Invariance, PTL

\* A command is in the table until its handler is given a completed result, no longer
\* and no less.
THEOREM CompletedExactlyWhenGone == Spec => []CompletedIffGone
<1>1. IInv => CompletedIffGone
  <2> SUFFICES ASSUME IInv, NEW c \in sent
               PROVE  Completed(c) <=> PathsOf(c) \intersect out_paths = {}
    BY DEF CompletedIffGone
  <2>1. c \in Cmd
    BY DEF IInv, TypeOK
  <2> QED BY <2>1 DEF IInv, CmdInv, Open
<1> QED BY <1>1, Invariance, PTL

\* The members of a path group leave the table together.
THEOREM GroupsStayWhole == Spec => []GroupIsWhole
<1>1. IInv => GroupIsWhole
  <2> SUFFICES ASSUME IInv, NEW c \in sent
               PROVE  \/ PathsOf(c) \subseteq out_paths
                      \/ PathsOf(c) \intersect out_paths = {}
    BY DEF GroupIsWhole
  <2>1. c \in Cmd
    BY DEF IInv, TypeOK
  <2> QED BY <2>1 DEF IInv, CmdInv, Open
<1> QED BY <1>1, Invariance, PTL

\* The policy FIRST_ERROR_OR_LAST_OK does what result_return_policy.h says of it.
THEOREM FirstErrorOrLastOkHolds == Spec => []FirstErrorOrLastOk
<1>1. IInv => FirstErrorOrLastOk
  BY DEF IInv, CmdInv, IsFirst, FirstInv, FirstCalls, FirstErrorOrLastOk
<1> QED BY <1>1, Invariance, PTL

\* The flush of on_deinit_done() empties the table: ten_path_table_check_empty holds.
THEOREM FlushEmptiesTable == Spec => []FlushedTableIsEmpty
<1>1. IInv => FlushedTableIsEmpty
  <2> SUFFICES ASSUME IInv, state = "ON_DEINIT_DONE", batch = {}, NEW p \in out_paths
               PROVE  FALSE
    BY DEF FlushedTableIsEmpty
  <2>1. out_paths \subseteq has_received_final_cmd_result /\ p \in Path
    BY DEF IInv, FlushInv, TypeOK
  <2>2. p[1] \in Cmd /\ p \in PathsOf(p[1]) /\ CmdInv(p[1])
    BY <2>1, PathOwner DEF IInv
  <2> QED BY <2>1, <2>2 DEF CmdInv, Open, AllFinal
<1> QED BY <1>1, Invariance, PTL

\* What the table holds is what is still to be answered.
THEOREM TableStaysTidy == Spec => []TableIsTidy
BY CompletedExactlyWhenGone, GroupsStayWhole, FlushEmptiesTable, PTL DEF TableIsTidy

-----------------------------------------------------------------------------
(* The path table keeps the abstract promise.                              *)

\* How often a command's handler was called, as the promise counts it.
Calls == [c \in Cmd |-> Len(handled[c])]

Stage == [c \in Cmd |-> IF c \notin sent THEN "unsent"
                        ELSE IF PathsOf(c) \intersect out_paths = {} THEN "completed"
                        ELSE "open"]

\* Processing a result either changes nothing the promise speaks of, or calls the
\* handler of an open command once, and closes that command if it calls no more.
LEMMA ProcessStep ==
    ASSUME IInv, NEW p \in Path, NEW r \in Result, ProcessCmdResult(p, r), sent' = sent
    PROVE  [Promise!Next]_(Promise!vars)
<1> DEFINE c == p[1]
<1> USE DEF IInv
<1>1. c \in Cmd /\ CmdInv(c)
  BY PathOwner DEF TypeOK
<1>2. CmdInv(c)'
  BY <1>1, ProcessInv
<1>3. CASE UNCHANGED <<out_paths, handled>>
  BY <1>3 DEF Promise!vars
<1>4. ASSUME p \in out_paths, NEW d, NEW st, NEW done \in BOOLEAN, CallHandler(c, d, st, done)
      PROVE  Promise!Next
  <2>1. Open(c) /\ c \in sent
    BY <1>1, <1>4, OpenFacts DEF Cmd
  <2>2. \A b \in Cmd : b # c =>
            /\ PathsOf(b) \intersect out_paths' = PathsOf(b) \intersect out_paths
            /\ handled'[b] = handled[b]
    BY OthersUnchanged
  <2>3. Len(handled'[c]) = Len(handled[c]) + 1
    BY <1>1, <1>4, HandlerCalled
  <2>4. Calls' = [Calls EXCEPT ![c] = @ + 1]
    BY <1>1, <2>2, <2>3 DEF Calls
  <2>5. Stage[c] = "open"
    BY <1>1, <2>1 DEF Stage, Open
  <2>6. \A b \in Cmd : b # c => Stage'[b] = Stage[b]
    BY <2>2 DEF Stage
  <2>7. CASE Open(c)'
    <3>1. Stage'[c] = "open"
      BY <1>1, <2>1, <2>7 DEF Stage, Open
    <3>2. Stage' = Stage
      BY <2>5, <2>6, <3>1 DEF Stage
    <3>3. Promise!Deliver(c)
      BY <2>4, <2>5, <3>2 DEF Promise!Deliver, Stage, Calls
    <3> QED BY <1>1, <3>3 DEF Promise!Next
  <2>8. CASE ~Open(c)'
    <3>1. Stage'[c] = "completed"
      BY <1>1, <2>1, <2>8 DEF Stage, Open
    <3>2. Stage' = [Stage EXCEPT ![c] = "completed"]
      BY <1>1, <2>6, <3>1 DEF Stage
    <3>3. Promise!Complete(c)
      BY <2>4, <2>5, <3>2 DEF Promise!Complete, Stage, Calls
    <3> QED BY <1>1, <3>3 DEF Promise!Next
  <2> QED BY <2>7, <2>8
<1>5. CASE DiscardResult(p)
  BY <1>3, <1>5 DEF DiscardResult, table
<1>6. CASE ~DiscardResult(p)
  <2>1. p \in out_paths /\ r.is_final \in BOOLEAN
    BY <1>6 DEF ProcessCmdResult, Result
  <2>2. CASE SingleResult(p, r)
    BY <1>4, <2>1, <2>2 DEF SingleResult
  <2>3. CASE FirstError(p, r)
    BY <1>4, <2>1, <2>3 DEF FirstError
  <2>4. CASE LastOk(p, r)
    BY <1>3, <1>4, <2>1, <2>4 DEF LastOk
  <2>5. CASE EachResult(p, r)
    BY <1>4, <2>1, <2>5 DEF EachResult, AllFinal
  <2> QED BY <1>6, <2>2, <2>3, <2>4, <2>5 DEF ProcessCmdResult
<1> QED BY <1>5, <1>6

\* Every step of the table is a step of the promise or leaves it unchanged.
LEMMA StepRefines == IInv /\ [Next]_vars => [Promise!Next]_(Promise!vars)
<1> SUFFICES ASSUME IInv, [Next]_vars PROVE [Promise!Next]_(Promise!vars)
  OBVIOUS
<1>1. ASSUME UNCHANGED <<sent, table>> PROVE UNCHANGED Promise!vars
  BY <1>1 DEF table, Promise!vars
<1>2. ASSUME NEW b \in Cmd, SendCmd(b) PROVE [Promise!Next]_(Promise!vars)
  <2>1. sent' = sent \union {b} /\ b \notin sent
    BY <1>2 DEF SendCmd, Cmd
  <2>2. \A c \in Cmd : c # b => Stage'[c] = Stage[c]
    <3> SUFFICES ASSUME NEW c \in Cmd, c # b PROVE Stage'[c] = Stage[c]
      OBVIOUS
    <3>1. PathsOf(c) \intersect out_paths' = PathsOf(c) \intersect out_paths
      BY <1>2, PathsDisjoint DEF SendCmd
    <3>2. c \in sent <=> c \in sent'
      BY <2>1
    <3> QED BY <3>1, <3>2 DEF Stage
  <2>3. Stage[b] = "unsent" /\ Stage'[b] = "open"
    <3>1. PathsOf(b) \intersect out_paths' # {}
      BY <1>2, PathFacts DEF SendCmd
    <3> QED BY <2>1, <3>1 DEF Stage
  <2>4. Stage' = [Stage EXCEPT ![b] = "open"]
    BY <2>2, <2>3 DEF Stage
  <2>5. Promise!Send(b)
    BY <1>2, <2>3, <2>4 DEF Promise!Send, Stage, SendCmd
  <2> QED BY <2>5 DEF Promise!Next
<1>3. ASSUME NEW p \in Path, HandleInResult(p) PROVE [Promise!Next]_(Promise!vars)
  <2>1. Head(wire[p]) \in Result
    BY <1>3 DEF IInv, HandleInResult, TypeOK
  <2> QED BY <1>3, <2>1, ProcessStep DEF HandleInResult
<1>4. CASE FeedError
  <2>1. PICK p \in batch : ProcessCmdResult(p, SynthesisedError) /\ sent' = sent
    BY <1>4 DEF FeedError
  <2>2. p \in Path /\ SynthesisedError \in Result
    BY DEF IInv, TypeOK, SynthesisedError, Result, Status
  <2> QED BY <2>1, <2>2, ProcessStep
<1>5. CASE UNCHANGED vars
  BY <1>1, <1>5 DEF vars, table
<1> QED BY <1>1, <1>2, <1>3, <1>4, <1>5
    DEF Next, ReturnResult, OutPathTimer, OnConfigureDone, PathTimersClosed, OnDeinitDone

\* The path table implements what the runtime promises of a command.
THEOREM PathTableKeepsPromise == Spec => KeepsPromise
<1>1. Init => Promise!Init
  BY DEF Init, Promise!Init, Cmd
<1>2. IInv /\ [Next]_vars => [Promise!Next]_(Promise!vars)
  BY StepRefines
<1> QED BY <1>1, <1>2, Invariance, PTL DEF Spec, KeepsPromise, Promise!Spec
=============================================================================
