------------------------ MODULE RequestHandlersProofs ------------------------
(***************************************************************************)
(* What an HTTP status says of the objects of a request, proved for every  *)
(* number of requests, any length of their lists and any failures.         *)
(***************************************************************************)
EXTENDS RequestHandlers, TLAPS

Changing   == Kinds \ {"get", "query"}
Announcing == {"create", "update", "delete"} \union MemberKinds

\* How many objects of the list the database call is done for, and the event:
\* whoever is at "publish" or "read" has called before, but for those that
\* publish first.
Called(r) ==
  CASE pc[r] \in {"answer", "done"} -> Len(work[r].keys)
    [] pc[r] \in {"publish", "read"} /\ Kind(r) \notin {"delete", "event"} -> item[r]
    [] OTHER -> item[r] - 1
Published(r) ==
  CASE pc[r] \in {"answer", "done"} -> Len(work[r].keys)
    [] pc[r] = "call" /\ Kind(r) = "delete" -> item[r]
    [] OTHER -> item[r] - 1

\* Only an answer sets the status, to 200 only without an error code; whoever is past
\* the beginning has objects to work on, or an error.  As long as there is no error
\* the objects so far were changed, and announced.
Sane(r) ==
  /\ pc[r] \in {"read", "publish"} => Kind(r) \notin {"get", "query"} \union PlainKinds
  /\ pc[r] = "read" => Kind(r) \in {"delete"} \union RemovalKinds
  /\ pc[r] \in {"read", "call", "publish"} => work[r].input = "fine"
  /\ pc[r] \in {"idle", "read"} => item[r] = 1
  /\ pc[r] # "done" => status[r] = 0
  /\ status[r] = 200 => code[r] = "NO_ERROR"
  /\ pc[r] = "answer" \/ status[r] = 200
       => work[r].input # "bad_index" \/ Kind(r) = "frame_delete"
Complete(r) ==
  /\ pc[r] # "idle" /\ code[r] = "NO_ERROR" /\ work[r].input # "bad_index"
  => /\ Kind(r) \in Changing => \A i \in 1 .. Called(r) : <<r, i>> \in applied
     /\ Downstream /\ Kind(r) \in Announcing =>
          \A i \in 1 .. Published(r) : <<r, i>> \in announced

Inv == TypeOK /\ \A r \in Requests : Sane(r) /\ Complete(r)

-----------------------------------------------------------------------------
\* What is known of every request.
LEMMA WorkTypes ==
  ASSUME TypeOK, NEW r \in Requests
  PROVE  /\ WellFormedWork(work[r])
         /\ Kind(r) \in Kinds
         /\ Len(work[r].keys) \in Nat
         /\ Kind(r) \notin ListKinds => Len(work[r].keys) = 1
         /\ item[r] \in Nat
         /\ Change(r) \in Changes
<1>1. work[r] \in Works
  BY DEF TypeOK
<1>2. WellFormedWork(work[r])
  BY <1>1, HandlerAssumption
<1>3. work[r].keys \in Seq(Keys)
  BY <1>2 DEF WellFormedWork
<1>4. Len(work[r].keys) \in Nat
  BY <1>3
<1>5. Kind(r) \in Kinds /\ (Kind(r) \notin ListKinds => Len(work[r].keys) = 1)
  BY <1>2 DEF WellFormedWork, Kind
<1>6. item[r] \in Nat
  BY DEF TypeOK
<1>7. Change(r) \in Changes
  BY <1>6 DEF Changes, Change
<1> QED
  BY <1>2, <1>4, <1>5, <1>6, <1>7

LEMMA KeyType ==
  ASSUME TypeOK, NEW r \in Requests, pc[r] \in {"read", "call", "publish"}
  PROVE  Key(r) \in Keys /\ store[Key(r)] \in Contents
<1>1. work[r].keys \in Seq(Keys)
  BY WorkTypes DEF WellFormedWork
<1>2. item[r] \in 1 .. Len(work[r].keys)
  BY DEF TypeOK
<1>3. Key(r) \in Keys
  BY <1>1, <1>2 DEF Key
<1> QED
  BY <1>3 DEF TypeOK

\* A step of one request leaves what is known of the others, since no change and no
\* announcement is taken back.
LEMMA OthersKeep ==
  ASSUME Inv, NEW r \in Requests, NEW q \in Requests, q # r,
         work' = work, pc'[q] = pc[q], item'[q] = item[q], code'[q] = code[q],
         status'[q] = status[q], applied \subseteq applied', announced \subseteq announced'
  PROVE  Sane(q)' /\ Complete(q)'
<1>1. Sane(q) /\ Complete(q)
  BY DEF Inv
<1>2. Called(q)' = Called(q) /\ Published(q)' = Published(q) /\ Kind(q)' = Kind(q)
  BY DEF Called, Published, Kind
<1> QED
  BY <1>1, <1>2 DEF Sane, Complete

\* A failed call leaves an error, unless it is a query.
LEMMA FailureIsAnError ==
  ASSUME NEW r \in Requests, NEW reply \in {"missing", "error"}, Kind(r) # "query"
  PROVE  FailureCode(r, reply) \in {"NOT_FOUND", "PROCESSING_ERROR"}
BY DEF FailureCode

\* The next object of a list, or the answer.
LEMMA ListContinues ==
  ASSUME TypeOK, NEW r \in Requests, pc[r] \in {"call", "publish"}, ContinueList(r)
  PROVE  /\ pc' \in [Requests -> {"idle", "read", "call", "publish", "answer", "done"}]
         /\ item' \in [Requests -> Nat]
         /\ \A q \in Requests : q # r => pc'[q] = pc[q] /\ item'[q] = item[q]
         /\ \/ pc'[r] = "call" /\ item'[r] = item[r] + 1 /\ item'[r] \in 1 .. Len(work[r].keys)
            \/ pc'[r] = "answer" /\ item'[r] = item[r] /\ item[r] = Len(work[r].keys)
<1> DEFINE n == Len(work[r].keys)
<1>1. item[r] \in 1 .. n /\ n \in Nat
  BY WorkTypes DEF TypeOK
<1>2. /\ pc \in [Requests -> {"idle", "read", "call", "publish", "answer", "done"}]
      /\ item \in [Requests -> Nat]
  BY DEF TypeOK
<1>3. CASE item[r] < n
  <2>1. item' = [item EXCEPT ![r] = item[r] + 1] /\ pc' = [pc EXCEPT ![r] = "call"]
    BY <1>3 DEF ContinueList, NextItem, Goto, MoreItems
  <2> QED
    BY <1>1, <1>2, <1>3, <2>1
<1>4. CASE ~(item[r] < n)
  <2>1. item' = item /\ pc' = [pc EXCEPT ![r] = "answer"]
    BY <1>4 DEF ContinueList, Goto, MoreItems
  <2> QED
    BY <1>1, <1>2, <1>4, <2>1
<1> QED BY <1>3, <1>4

\* Where a handler may be after its call.
LEMMA CallContinues ==
  ASSUME TypeOK, NEW r \in Requests, pc[r] = "call", AfterCall(r)
  PROVE  /\ pc' \in [Requests -> {"idle", "read", "call", "publish", "answer", "done"}]
         /\ item' \in [Requests -> Nat]
         /\ \A q \in Requests : q # r => pc'[q] = pc[q] /\ item'[q] = item[q]
         /\ pc'[r] \in {"read", "call", "publish"} => item'[r] \in 1 .. Len(work[r].keys)
         /\ Kind(r) # "query" =>
              /\ item'[r] = item[r]
              /\ \/ pc'[r] = "publish" /\ Kind(r) \in {"create", "update"} \union MemberKinds
                 \/ pc'[r] = "read" /\ Kind(r) \in RemovalKinds
                 \/ pc'[r] = "done" /\ Kind(r) = "event"
                 \/ pc'[r] = "answer" /\ Kind(r) \in {"get", "delete"} \union PlainKinds
         /\ Kind(r) = "query" => pc'[r] \in {"call", "answer"}
<1>1. CASE Kind(r) = "query"
  BY <1>1, ListContinues DEF AfterCall
<1>2. CASE Kind(r) # "query"
  <2>1. /\ pc \in [Requests -> {"idle", "read", "call", "publish", "answer", "done"}]
        /\ item \in [Requests -> Nat] /\ item[r] \in 1 .. Len(work[r].keys)
    BY DEF TypeOK
  <2> DEFINE to == CASE Kind(r) \in {"create", "update"} \union MemberKinds -> "publish"
                     [] Kind(r) \in RemovalKinds -> "read"
                     [] Kind(r) = "event"        -> "done"
                     [] OTHER                    -> "answer"
  <2>2. item' = item /\ pc' = [pc EXCEPT ![r] = to]
    BY <1>2 DEF AfterCall, Goto
  <2>3. \/ to = "publish" /\ Kind(r) \in {"create", "update"} \union MemberKinds
        \/ to = "read" /\ Kind(r) \in RemovalKinds
        \/ to = "done" /\ Kind(r) = "event"
        \/ to = "answer" /\ Kind(r) \in {"get", "delete"} \union PlainKinds
    BY <1>2, WorkTypes DEF Kinds, ListKinds, KeyKinds, MemberKinds, RemovalKinds, PlainKinds
  <2> HIDE DEF to
  <2> QED
    BY <1>2, <2>1, <2>2, <2>3
<1> QED BY <1>1, <1>2

-----------------------------------------------------------------------------
(***************************************************************************)
(* Every step of request r keeps the type, and what is known of r.         *)
(***************************************************************************)
Others(r) ==
  /\ work' = work
  /\ \A q \in Requests : q # r => /\ pc'[q] = pc[q] /\ item'[q] = item[q]
                                  /\ code'[q] = code[q] /\ status'[q] = status[q]
  /\ applied \subseteq applied' /\ announced \subseteq announced'

Kept(r) == TypeOK' /\ Others(r) /\ Sane(r)' /\ Complete(r)'

LEMMA ArriveKeeps ==
  ASSUME Inv, NEW r \in Requests, Arrive(r)
  PROVE  Kept(r)
<1>0. TypeOK /\ Sane(r) /\ work[r].input \in Inputs(Kind(r)) /\ Len(work[r].keys) \in Nat
  BY WorkTypes DEF Inv, WellFormedWork, Kind
<1>1. /\ pc \in [Requests -> {"idle", "read", "call", "publish", "answer", "done"}]
      /\ code \in [Requests -> {"NO_ERROR", "NOT_FOUND", "TRANSLATION_ERROR",
                                "PROCESSING_ERROR"}]
      /\ status \in [Requests -> {0, 200, 400, 404, 500}]
      /\ item[r] \in Nat
  BY <1>0 DEF TypeOK
<1>2. CASE RejectBody(r)
  <2>1. /\ pc' = [pc EXCEPT ![r] = "done"] /\ code' = [code EXCEPT ![r] = "TRANSLATION_ERROR"]
        /\ status' = [status EXCEPT ![r] = 400]
        /\ UNCHANGED <<work, item, store, applied, announced>>
    BY <1>2 DEF RejectBody, Goto, SetCode, Respond, world
  <2> QED
    BY <1>0, <1>1, <2>1 DEF Kept, Others, TypeOK, Sane, Complete
<1>3. CASE FailToBuild(r)
  <2>1. /\ pc' = [pc EXCEPT ![r] = "answer"] /\ pc[r] = "idle"
        /\ code' = [code EXCEPT ![r] = "TRANSLATION_ERROR"]
        /\ UNCHANGED <<work, item, status, store, applied, announced>>
        /\ work[r].input = "unbuildable"
    BY <1>3 DEF FailToBuild, Goto, SetCode, world
  <2>2. TypeOK' /\ Others(r)
    BY <1>0, <1>1, <2>1 DEF Others, TypeOK
  <2>3. Sane(r)'
    BY <1>0, <1>1, <2>1 DEF Sane
  <2>4. Complete(r)'
    BY <1>1, <2>1 DEF Complete
  <2> QED
    BY <2>2, <2>3, <2>4 DEF Kept
<1>4. CASE SkipRemoval(r)
  <2>1. /\ pc' = [pc EXCEPT ![r] = "answer"] /\ pc[r] = "idle" /\ work[r].input = "bad_index"
        /\ UNCHANGED <<work, item, code, status, store, applied, announced>>
        /\ Kind(r) = "frame_delete" /\ Kind(r)' = Kind(r)
    BY <1>4 DEF SkipRemoval, Goto, world, Kind
  <2>2. TypeOK' /\ Others(r)
    BY <1>0, <1>1, <2>1 DEF Others, TypeOK
  <2>3. Sane(r)'
    BY <1>0, <1>1, <2>1 DEF Sane
  <2>4. Complete(r)'
    BY <1>1, <2>1 DEF Complete
  <2> QED
    BY <2>2, <2>3, <2>4 DEF Kept
<1>5. CASE Begin(r)
  <2> DEFINE to == CASE work[r].keys = <<>>  -> "answer"
                     [] Kind(r) = "delete"   -> "read"
                     [] Kind(r) = "event"    -> "publish"
                     [] OTHER                -> "call"
  <2>1. /\ pc' = [pc EXCEPT ![r] = to] /\ pc[r] = "idle" /\ work[r].input = "fine"
        /\ UNCHANGED <<work, item, code, status, store, applied, announced>>
    BY <1>5 DEF Begin, Goto, world
  <2>2. work[r].keys # <<>> => 1 \in 1 .. Len(work[r].keys)
    BY WorkTypes, <1>0 DEF WellFormedWork
  <2>3. CASE work[r].keys = <<>>
    <3>1. Kind(r) \in ListKinds /\ Len(work[r].keys) = 0
      <4>1. Len(work[r].keys) = 0
        BY <2>3
      <4>2. Kind(r) \notin ListKinds => Len(work[r].keys) = 1
        BY <1>0, WorkTypes
      <4> QED BY <4>1, <4>2
    <3>. to = "answer"
      BY <2>3, <3>1 DEF ListKinds
    <3> HIDE DEF to
    <3>2. TypeOK' /\ Sane(r)'
      BY <1>0, <1>1, <2>1, <3>1 DEF TypeOK, Sane, Kind
    <3>3. Called(r)' = 0 /\ Published(r)' = 0
      BY <1>1, <2>1, <3>1 DEF Called, Published
    <3>4. Complete(r)'
      BY <2>1, <3>3 DEF Complete, Kind
    <3> QED
      BY <1>1, <2>1, <3>2, <3>4 DEF Kept, Others
  <2>4. CASE work[r].keys # <<>>
    <3>1. \/ to = "read" /\ Kind(r) = "delete"
          \/ to = "publish" /\ Kind(r) = "event"
          \/ to = "call" /\ Kind(r) \notin {"delete", "event"}
      BY <2>4
    <3>2. item[r] = 1 /\ 1 \in 1 .. Len(work[r].keys)
      BY <1>0, <2>1, <2>2, <2>4 DEF Sane
    <3> HIDE DEF to
    <3>3. TypeOK'
      BY <1>0, <1>1, <2>1, <3>1, <3>2 DEF TypeOK
    <3>4. Sane(r)'
      BY <1>0, <1>1, <2>1, <3>1, <3>2 DEF Sane, Kind, KeyKinds, PlainKinds, RemovalKinds
    <3>5. Called(r)' = 0 /\ (Kind(r) \in Announcing => Published(r)' = 0)
      BY <1>0, <1>1, <2>1, <3>1, <3>2 DEF Called, Published, Kind
    <3>6. Complete(r)'
      BY <2>1, <3>5 DEF Complete, Kind
    <3> QED
      BY <1>1, <2>1, <3>3, <3>4, <3>6 DEF Kept, Others
  <2> QED BY <2>3, <2>4
<1> QED
  BY <1>2, <1>3, <1>4, <1>5 DEF Arrive

\* What a call may do to the documents.
LEMMA EffectTypes ==
  ASSUME TypeOK, NEW r \in Requests, pc[r] = "call", Effect(r)
  PROVE  /\ applied' = applied \union {<<r, item[r]>>} /\ applied' \subseteq Changes
         /\ store' \in [Keys -> Contents]
<1>1. Change(r) \in Changes /\ Key(r) \in Keys
  BY WorkTypes, KeyType
<1>2. store \in [Keys -> Contents] /\ applied \subseteq Changes
  BY DEF TypeOK
<1> QED
  BY <1>1, <1>2 DEF Effect, Change, Contents

\* A call that took effect, or left an error code.
LEMMA CallEnds ==
  ASSUME Inv, NEW r \in Requests, pc[r] = "call", AfterCall(r),
         UNCHANGED <<work, status, announced>>,
         store' \in [Keys -> Contents], applied \subseteq applied', applied' \subseteq Changes,
         \/ UNCHANGED code
         \/ \E c \in {"NO_ERROR", "NOT_FOUND", "PROCESSING_ERROR"} : SetCode(r, c),
         \/ Kind(r) = "query" /\ code' = code
         \/ Kind(r) # "query" /\ code'[r] # "NO_ERROR"
         \/ Kind(r) # "query" /\ code'[r] = code[r] /\ <<r, item[r]>> \in applied'
  PROVE  Kept(r)
<1>0. /\ TypeOK /\ Sane(r) /\ Complete(r) /\ Kind(r) \in Kinds /\ Len(work[r].keys) \in Nat
      /\ Kind(r) \notin ListKinds => Len(work[r].keys) = 1
      /\ item[r] \in 1 .. Len(work[r].keys)
  BY WorkTypes DEF Inv, TypeOK
<1>1. /\ pc \in [Requests -> {"idle", "read", "call", "publish", "answer", "done"}]
      /\ code \in [Requests -> {"NO_ERROR", "NOT_FOUND", "TRANSLATION_ERROR",
                                "PROCESSING_ERROR"}]
      /\ status[r] = 0
  BY <1>0 DEF TypeOK, Sane
<1>2. /\ code' \in [Requests -> {"NO_ERROR", "NOT_FOUND", "TRANSLATION_ERROR",
                                 "PROCESSING_ERROR"}]
      /\ \A q \in Requests : q # r => code'[q] = code[q]
  BY <1>1 DEF SetCode
<1>3. TypeOK'
  <2>1. \A q \in Requests : pc'[q] \in {"read", "call", "publish"}
                             => item'[q] \in 1 .. Len(work[q].keys)
    <3>1. \A q \in Requests : q # r => pc'[q] = pc[q] /\ item'[q] = item[q]
      BY <1>0, CallContinues
    <3>2. pc'[r] \in {"read", "call", "publish"} => item'[r] \in 1 .. Len(work[r].keys)
      BY <1>0, CallContinues
    <3> QED
      BY <3>1, <3>2, <1>0, SMTT(60) DEF TypeOK
  <2>2. /\ pc' \in [Requests -> {"idle", "read", "call", "publish", "answer", "done"}]
        /\ item' \in [Requests -> Nat]
    BY <1>0, CallContinues
  <2>3. work' \in [Requests -> Works] /\ status' \in [Requests -> {0, 200, 400, 404, 500}]
        /\ announced' \subseteq Changes
    BY <1>0 DEF TypeOK
  <2>4. store' \in [Keys -> Contents'] /\ work' = work
    BY DEF Contents
  <2> QED
    BY <1>2, <2>1, <2>2, <2>3, <2>4, Zenon DEF TypeOK
<1>4. Others(r)
  BY <1>2, <1>0, CallContinues DEF Others
<1>5. Sane(r)' /\ Complete(r)'
  <2>1. CASE Kind(r) = "query"
    BY <1>0, <1>1, <2>1, CallContinues
       DEF Sane, Complete, Kind, Changing, Announcing, MemberKinds
  <2>2. CASE Kind(r) # "query"
    <3>1. item'[r] = item[r] /\ pc'[r] \in {"publish", "read", "done", "answer"}
      BY <1>0, <2>2, CallContinues
    <3>2. Kind(r) \notin ListKinds => item[r] = 1
      <4>1. Kind(r) \notin ListKinds => item[r] \in 1 .. 1
        BY <1>0
      <4> QED BY <4>1
    <3>3. Sane(r)'
      <4>1. /\ pc'[r] = "read" => Kind(r) \in RemovalKinds
            /\ pc'[r] = "publish" => Kind(r) \in {"create", "update"} \union MemberKinds
        BY <1>0, <2>2, CallContinues
      <4>2. status'[r] = 0 /\ work[r].input = "fine" /\ Kind(r)' = Kind(r)
        BY <1>0, <1>1 DEF Sane, Kind
      <4> QED
        BY <3>1, <3>2, <4>1, <4>2
           DEF Sane, RemovalKinds, MemberKinds, PlainKinds, ListKinds
    <3>4. CASE code'[r] # "NO_ERROR"
      BY <3>3, <3>4 DEF Complete
    <3>5. CASE code'[r] = code[r] /\ <<r, item[r]>> \in applied'
      <4>1. Called(r)' = item[r] \/ Kind(r) = "get"
        BY <1>0, <2>2, <3>1, <3>2, CallContinues
           DEF Called, Kind, ListKinds, MemberKinds, RemovalKinds, PlainKinds
      <4>2. Called(r) = item[r] - 1
        BY DEF Called
      <4>3. Kind(r) \in Announcing => Published(r)' = Published(r)
        BY <1>0, <2>2, <3>1, <3>2, CallContinues
           DEF Published, Announcing, Kind, ListKinds, MemberKinds, RemovalKinds, PlainKinds
      <4>4. \A i \in 1 .. item[r] : i = item[r] \/ i \in 1 .. item[r] - 1
        BY <1>0
      <4>5. /\ pc[r] # "idle" /\ Kind(r)' = Kind(r) /\ announced' = announced
            /\ applied \subseteq applied' /\ work' = work /\ pc'[r] # "idle"
        BY <3>1 DEF Kind
      <4>6. Complete(r)'
        BY <1>0, <3>5, <4>1, <4>2, <4>3, <4>4, <4>5 DEF Complete, Changing
      <4> QED BY <3>3, <4>6
    <3> QED
      BY <2>2, <3>3, <3>4, <3>5
  <2> QED BY <2>1, <2>2
<1> QED
  BY <1>3, <1>4, <1>5 DEF Kept

LEMMA CallKeeps ==
  ASSUME Inv, NEW r \in Requests, CallSucceeds(r) \/ CallMisses(r) \/ CallFails(r)
  PROVE  Kept(r)
<1>0. TypeOK /\ Kind(r) \in Kinds /\ store \in [Keys -> Contents] /\ applied \subseteq Changes
  BY WorkTypes DEF Inv, TypeOK
<1>e. ASSUME NEW reply \in {"missing", "error"}
      PROVE  /\ Kind(r) = "query" => FailureCode(r, reply) = code[r]
             /\ Kind(r) # "query" => FailureCode(r, reply) \in {"NOT_FOUND", "PROCESSING_ERROR"}
  BY FailureIsAnError DEF FailureCode, RemovalKinds
<1>c. code \in [Requests -> {"NO_ERROR", "NOT_FOUND", "TRANSLATION_ERROR", "PROCESSING_ERROR"}]
  BY <1>0 DEF TypeOK
<1>s. ASSUME NEW reply \in {"missing", "error"}, SetCode(r, FailureCode(r, reply))
      PROVE  /\ Kind(r) = "query" => code' = code
             /\ Kind(r) # "query" => code'[r] # "NO_ERROR"
             /\ \/ UNCHANGED code
                \/ \E c \in {"NO_ERROR", "NOT_FOUND", "PROCESSING_ERROR"} : SetCode(r, c)
  BY <1>c, <1>e, <1>s DEF SetCode
<1>1. CASE CallSucceeds(r)
  <2>1. /\ pc[r] = "call" /\ Effect(r) /\ UNCHANGED code /\ AfterCall(r)
        /\ UNCHANGED <<work, status, announced>>
    BY <1>1 DEF CallSucceeds, KeepCode
  <2>2. /\ applied' = applied \union {<<r, item[r]>>} /\ applied' \subseteq Changes
        /\ store' \in [Keys -> Contents]
    BY <1>0, <2>1, EffectTypes
  <2> QED
    BY <2>1, <2>2, CallEnds
<1>2. CASE CallMisses(r)
  <2>1. /\ pc[r] = "call" /\ SetCode(r, FailureCode(r, "missing")) /\ AfterCall(r)
        /\ UNCHANGED <<work, status, store, applied, announced>>
    BY <1>2 DEF CallMisses, world
  <2> QED
    BY <1>0, <1>s, <2>1, CallEnds
<1>3. CASE CallFails(r)
  <2>1. /\ pc[r] = "call" /\ AfterCall(r) /\ UNCHANGED <<work, status, announced>>
        /\ \E reply \in {"missing", "error"} : SetCode(r, FailureCode(r, reply))
        /\ UNCHANGED <<store, applied>> \/ Effect(r)
    BY <1>3 DEF CallFails
  <2>2. /\ applied \subseteq applied' /\ applied' \subseteq Changes
        /\ store' \in [Keys -> Contents]
    BY <1>0, <2>1, EffectTypes
  <2> QED
    BY <1>s, <2>1, <2>2, CallEnds
<1> QED
  BY <1>1, <1>2, <1>3

\* An exception leaves an error code, whatever the handler does next.
LEMMA ThrowKeeps ==
  ASSUME Inv, NEW r \in Requests, CallThrows(r)
  PROVE  Kept(r)
<1> DEFINE to == CASE Kind(r) \in MemberKinds  -> "publish"
                   [] Kind(r) = "action_delete" -> "read"
                   [] Kind(r) = "event"         -> "done"
                   [] OTHER                     -> "answer"
<1>0. /\ TypeOK /\ Sane(r) /\ Kind(r) \in Kinds
      /\ Kind(r) \notin ListKinds => item[r] \in 1 .. 1
  BY WorkTypes DEF Inv, TypeOK, CallThrows
<1>1. /\ pc[r] = "call" /\ pc' = [pc EXCEPT ![r] = to]
      /\ code' = [code EXCEPT ![r] = "PROCESSING_ERROR"]
      /\ UNCHANGED <<work, item, status, store, applied, announced>>
  BY DEF CallThrows, AfterException, Goto, SetCode, world
<1>2. /\ pc \in [Requests -> {"idle", "read", "call", "publish", "answer", "done"}]
      /\ code \in [Requests -> {"NO_ERROR", "NOT_FOUND", "TRANSLATION_ERROR",
                                "PROCESSING_ERROR"}]
      /\ status[r] = 0 /\ work[r].input = "fine"
  BY <1>0, <1>1 DEF TypeOK, Sane
<1>3. \/ to = "publish" /\ Kind(r) \in MemberKinds
      \/ to = "read" /\ Kind(r) = "action_delete"
      \/ to \in {"answer", "done"}
  OBVIOUS
<1> HIDE DEF to
<1>4. TypeOK'
  BY <1>0, <1>1, <1>2, <1>3 DEF TypeOK
<1>5. Sane(r)'
  BY <1>0, <1>1, <1>2, <1>3
     DEF Sane, Kind, MemberKinds, PlainKinds, RemovalKinds, ListKinds
<1>6. Complete(r)'
  BY <1>1, <1>2 DEF Complete
<1> QED
  BY <1>1, <1>2, <1>4, <1>5, <1>6 DEF Kept, Others

LEMMA ReadKeeps ==
  ASSUME Inv, NEW r \in Requests, ReadScene(r) \/ ReadSceneFails(r)
  PROVE  Kept(r)
<1>0. /\ TypeOK /\ Sane(r) /\ Complete(r) /\ Kind(r) \in {"delete"} \union RemovalKinds
      /\ Len(work[r].keys) = 1 /\ item[r] = 1
  BY WorkTypes DEF Inv, Sane, ReadScene, ReadSceneFails, RemovalKinds, ListKinds
<1>1. /\ pc[r] = "read"
      /\ UNCHANGED <<work, item, status, store, applied, announced>>
      /\ \/ UNCHANGED code /\ Kind(r) = "delete" /\ pc' = [pc EXCEPT ![r] = "publish"]
         \/ /\ UNCHANGED code /\ Kind(r) # "delete"
            /\ \E to \in {"publish", "answer"} : pc' = [pc EXCEPT ![r] = to]
         \/ /\ code' = [code EXCEPT ![r] = "PROCESSING_ERROR"]
            /\ \E to \in {"call", "answer"} : pc' = [pc EXCEPT ![r] = to]
  BY DEF ReadScene, ReadSceneFails, Goto, SetCode, world
<1>2. /\ pc \in [Requests -> {"idle", "read", "call", "publish", "answer", "done"}]
      /\ code \in [Requests -> {"NO_ERROR", "NOT_FOUND", "TRANSLATION_ERROR",
                                "PROCESSING_ERROR"}]
      /\ status[r] = 0 /\ work[r].input = "fine"
  BY <1>0, <1>1 DEF TypeOK, Sane
<1>3. TypeOK'
  <2>1. /\ pc' \in [Requests -> {"idle", "read", "call", "publish", "answer", "done"}]
        /\ \A q \in Requests : q # r => pc'[q] = pc[q]
        /\ code' \in [Requests -> {"NO_ERROR", "NOT_FOUND", "TRANSLATION_ERROR",
                                   "PROCESSING_ERROR"}]
    BY <1>1, <1>2
  <2> QED
    BY <1>0, <1>1, <2>1 DEF TypeOK
<1>4. Sane(r)'
  BY <1>0, <1>1, <1>2 DEF Sane, Kind, PlainKinds, RemovalKinds
<1>5. Complete(r)'
  <2>1. CASE code'[r] = "PROCESSING_ERROR"
    BY <2>1 DEF Complete
  <2>2. CASE code'[r] # "PROCESSING_ERROR"
    <3>1. /\ pc'[r] \in {"publish", "answer"} /\ (Kind(r) = "delete" => pc'[r] = "publish")
          /\ UNCHANGED code
      BY <1>1, <1>2, <2>2
    <3>2. Called(r)' = Called(r)
      <4>1. CASE Kind(r) = "delete"
        BY <1>0, <1>1, <3>1, <4>1 DEF Called, Kind
      <4>2. CASE Kind(r) \in RemovalKinds
        <5>1. Called(r) = 1
          BY <1>0, <1>1, <4>2 DEF Called, RemovalKinds
        <5>2. Called(r)' = 1
          BY <1>0, <1>1, <3>1, <4>2 DEF Called, RemovalKinds, Kind
        <5> QED BY <5>1, <5>2
      <4> QED BY <1>0, <4>1, <4>2
    <3>3. Kind(r) \in Announcing => Published(r)' = Published(r)
      BY <1>0, <1>1, <3>1 DEF Published, Kind, Announcing, RemovalKinds, MemberKinds
    <3> QED
      BY <1>0, <1>1, <3>1, <3>2, <3>3 DEF Complete, Kind
  <2> QED BY <2>1, <2>2
<1> QED
  BY <1>1, <1>2, <1>3, <1>4, <1>5 DEF Kept, Others

LEMMA PublishKeeps ==
  ASSUME Inv, NEW r \in Requests, Publish(r)
  PROVE  Kept(r)
<1> DEFINE told == IF Downstream /\ Announces(r) THEN {Change(r)} ELSE {}
<1>0. /\ TypeOK /\ Sane(r) /\ Complete(r) /\ Kind(r) \in Kinds /\ Len(work[r].keys) \in Nat
      /\ Kind(r) \notin ListKinds => Len(work[r].keys) = 1
      /\ pc[r] = "publish" /\ item[r] \in 1 .. Len(work[r].keys) /\ Change(r) \in Changes
  BY WorkTypes DEF Inv, TypeOK, Publish
<1>1. /\ announced' = announced \union told
      /\ UNCHANGED <<work, code, status, store, applied>>
  BY DEF Publish
<1>2. Downstream /\ Kind(r) \in Announcing => <<r, item[r]>> \in announced'
  BY <1>1 DEF Announces, Announcing, RemovalKinds, MemberKinds, Change
<1>3. announced \subseteq announced' /\ announced' \subseteq Changes
  BY <1>0, <1>1 DEF TypeOK
<1>4. /\ status[r] = 0 /\ work[r].input = "fine"
      /\ Kind(r) \in {"create", "update", "delete", "event"} \union MemberKinds \union RemovalKinds
  BY <1>0 DEF Sane, Kinds, ListKinds, KeyKinds, PlainKinds
<1> HIDE DEF told
<1>5. /\ pc' \in [Requests -> {"idle", "read", "call", "publish", "answer", "done"}]
      /\ item' \in [Requests -> Nat]
      /\ \A q \in Requests : q # r => pc'[q] = pc[q] /\ item'[q] = item[q]
      /\ \/ /\ Kind(r) \in {"create", "update"}
            /\ \/ pc'[r] = "call" /\ item'[r] = item[r] + 1
                  /\ item'[r] \in 1 .. Len(work[r].keys)
               \/ pc'[r] = "answer" /\ item'[r] = item[r] /\ item[r] = Len(work[r].keys)
         \/ Kind(r) \in {"delete", "event"} /\ pc'[r] = "call" /\ item'[r] = item[r]
         \/ /\ Kind(r) \in MemberKinds \union RemovalKinds
            /\ pc'[r] = "answer" /\ item'[r] = item[r]
  <2>1. CASE Kind(r) \in ListKinds
    <3>1. ContinueList(r)
      BY <2>1 DEF Publish
    <3>2. Kind(r) \in {"create", "update"}
      BY <1>4, <2>1 DEF ListKinds, MemberKinds, RemovalKinds
    <3> QED
      BY <1>0, <3>1, <3>2, ListContinues
  <2>2. CASE Kind(r) \notin ListKinds
    <3>1. /\ pc \in [Requests -> {"idle", "read", "call", "publish", "answer", "done"}]
          /\ item \in [Requests -> Nat]
      BY <1>0 DEF TypeOK
    <3>2. /\ item' = item
          /\ pc' = [pc EXCEPT ![r] = IF Kind(r) \in {"delete", "event"} THEN "call" ELSE "answer"]
      BY <2>2 DEF Publish, Goto
    <3>3. CASE Kind(r) \in {"delete", "event"}
      BY <3>1, <3>2, <3>3
    <3>4. CASE Kind(r) \notin {"delete", "event"}
      <4>1. Kind(r) \in MemberKinds \union RemovalKinds
        BY <1>4, <2>2, <3>4 DEF ListKinds
      <4> QED
        BY <3>1, <3>2, <3>4, <4>1
    <3> QED BY <3>3, <3>4
  <2> QED BY <2>1, <2>2
<1>6. TypeOK'
  <2>1. \A q \in Requests : pc'[q] \in {"read", "call", "publish"}
                             => item'[q] \in 1 .. Len(work[q].keys)
    <3>1. \A q \in Requests \ {r} : pc'[q] \in {"read", "call", "publish"}
                                     => item'[q] \in 1 .. Len(work[q].keys)
      BY <1>0, <1>5 DEF TypeOK
    <3>2. pc'[r] = "call" => item'[r] \in 1 .. Len(work[r].keys)
      BY <1>0, <1>5
    <3>3. pc'[r] \in {"call", "answer"}
      BY <1>5
    <3> QED BY <3>1, <3>2, <3>3
  <2> QED
    BY <1>0, <1>1, <1>3, <1>5, <2>1, Zenon DEF TypeOK, Contents
<1>7. Sane(r)'
  <2>1. pc'[r] \in {"call", "answer"} /\ Kind(r)' = Kind(r)
    BY <1>1, <1>5 DEF Kind
  <2> QED BY <1>0, <1>1, <1>4, <2>1 DEF Sane
<1>8. Complete(r)'
  <2>1. Kind(r) \notin ListKinds => item[r] = 1
    <3>1. Kind(r) \notin ListKinds => item[r] \in 1 .. 1
      BY <1>0
    <3> QED BY <3>1
  <2>2. /\ Called(r)' = Called(r)
        /\ Kind(r) \in Announcing => Published(r)' = item[r] /\ Published(r) = item[r] - 1
    <3>1. item[r] \in Nat /\ Kind(r)' = Kind(r) /\ work' = work
      BY <1>0, <1>1 DEF Kind
    <3>2. CASE Kind(r) \in {"create", "update"}
      <4>1. Called(r) = item[r] /\ Published(r) = item[r] - 1
        BY <1>0, <3>2 DEF Called, Published
      <4>2. CASE pc'[r] = "call" /\ item'[r] = item[r] + 1
        BY <3>1, <3>2, <4>1, <4>2 DEF Called, Published
      <4>3. CASE pc'[r] = "answer" /\ item[r] = Len(work[r].keys)
        BY <3>1, <3>2, <4>1, <4>3 DEF Called, Published
      <4> QED
        BY <1>5, <3>2, <4>2, <4>3 DEF MemberKinds, RemovalKinds
    <3>3. CASE Kind(r) \in {"delete", "event"}
      <4>1. pc'[r] = "call" /\ item'[r] = item[r]
        BY <1>5, <3>3 DEF MemberKinds, RemovalKinds
      <4> QED
        BY <1>0, <3>1, <3>3, <4>1 DEF Called, Published, Announcing, MemberKinds
    <3>4. CASE Kind(r) \in MemberKinds \union RemovalKinds
      <4>1. pc'[r] = "answer" /\ item'[r] = item[r] /\ Len(work[r].keys) = 1
        BY <1>0, <1>5, <3>4 DEF MemberKinds, RemovalKinds, ListKinds
      <4>2. item[r] = 1
        BY <2>1, <3>4 DEF MemberKinds, RemovalKinds, ListKinds
      <4> QED
        BY <1>0, <3>1, <3>4, <4>1, <4>2 DEF Called, Published, MemberKinds, RemovalKinds
    <3> QED
      BY <1>4, <3>2, <3>3, <3>4
  <2>4. \A i \in 1 .. item[r] : i = item[r] \/ i \in 1 .. item[r] - 1
    BY <1>0
  <2>5. Kind(r)' = Kind(r)
    BY <1>1 DEF Kind
  <2> QED
    BY <1>0, <1>1, <1>2, <1>3, <2>2, <2>4, <2>5 DEF Complete
<1> QED
  BY <1>1, <1>3, <1>5, <1>6, <1>7, <1>8 DEF Kept, Others

LEMMA AnswerKeeps ==
  ASSUME Inv, NEW r \in Requests, Answer(r)
  PROVE  Kept(r)
<1>0. TypeOK /\ Sane(r) /\ Complete(r)
  BY DEF Inv
<1>1. /\ pc[r] = "answer" /\ pc' = [pc EXCEPT ![r] = "done"]
      /\ status' = [status EXCEPT ![r] = StatusOf(code[r])]
      /\ UNCHANGED <<work, item, code, store, applied, announced>>
  BY DEF Answer, Goto, Respond, world
<1>2. /\ pc \in [Requests -> {"idle", "read", "call", "publish", "answer", "done"}]
      /\ status \in [Requests -> {0, 200, 400, 404, 500}]
      /\ code[r] \in {"NO_ERROR", "NOT_FOUND", "TRANSLATION_ERROR", "PROCESSING_ERROR"}
  BY <1>0 DEF TypeOK
<1>3. /\ StatusOf(code[r]) \in {0, 200, 400, 404, 500}
      /\ StatusOf(code[r]) = 200 => code[r] = "NO_ERROR"
  BY <1>2 DEF StatusOf
<1>4. TypeOK'
  BY <1>0, <1>1, <1>2, <1>3 DEF TypeOK
<1>5. Sane(r)'
  BY <1>0, <1>1, <1>2, <1>3 DEF Sane, Kind
<1>6. Called(r)' = Called(r) /\ Published(r)' = Published(r) /\ Kind(r)' = Kind(r)
  BY <1>1, <1>2 DEF Called, Published, Kind
<1>7. Complete(r)'
  BY <1>0, <1>1, <1>2, <1>6 DEF Complete
<1> QED
  BY <1>1, <1>2, <1>4, <1>5, <1>7 DEF Kept, Others

-----------------------------------------------------------------------------
LEMMA InvAlways == Spec => []Inv
<1>1. Init => Inv
  <2> SUFFICES ASSUME Init PROVE Inv
    OBVIOUS
  <2>1. TypeOK
    BY DEF Init, TypeOK, Contents
  <2>2. ASSUME NEW r \in Requests PROVE Sane(r) /\ Complete(r)
    <3>1. pc[r] = "idle" /\ item[r] = 1 /\ status[r] = 0
      BY DEF Init
    <3> QED BY <3>1 DEF Sane, Complete
  <2> QED BY <2>1, <2>2 DEF Inv
<1>2. Inv /\ [Next]_vars => Inv'
  <2> SUFFICES ASSUME Inv, [Next]_vars PROVE Inv'
    OBVIOUS
  <2>1. ASSUME NEW r \in Requests, Arrive(r) \/ Step(r) PROVE Inv'
    <3>1. Kept(r)
      BY <2>1, ArriveKeeps, CallKeeps, ThrowKeeps, ReadKeeps, PublishKeeps, AnswerKeeps DEF Step
    <3>2. ASSUME NEW q \in Requests PROVE Sane(q)' /\ Complete(q)'
      BY <3>1, OthersKeep DEF Kept, Others
    <3> QED BY <3>1, <3>2 DEF Kept, Inv
  <2>2. CASE UNCHANGED vars
    <3>1. TypeOK'
      BY <2>2 DEF Inv, TypeOK, vars
    <3>2. ASSUME NEW q \in Requests PROVE Sane(q)' /\ Complete(q)'
      <4>1. Called(q)' = Called(q) /\ Published(q)' = Published(q) /\ Kind(q)' = Kind(q)
        BY <2>2 DEF Called, Published, Kind, vars
      <4> QED BY <2>2, <4>1 DEF Inv, Sane, Complete, vars
    <3> QED BY <3>1, <3>2 DEF Inv
  <2> QED
    BY <2>1, <2>2 DEF Next
<1> QED
  BY <1>1, <1>2, PTL DEF Spec

-----------------------------------------------------------------------------
\* Every variable keeps its type; in particular no handler reads past the end of the
\* list of its body.
THEOREM TypeCorrect == Spec => []TypeOK
<1>1. Inv => TypeOK
  BY DEF Inv
<1> QED
  BY <1>1, InvAlways, PTL

\* A request that changes something and was answered with 200 has changed every object
\* of its list: an error code, once set, is not taken back.
THEOREM SuccessIsComplete == Spec => []AcknowledgedApplied
<1>1. Inv => AcknowledgedApplied
  <2> SUFFICES ASSUME Inv, NEW r \in Requests, status[r] = 200,
                      Kind(r) \notin {"get", "query"}, work[r].input # "bad_index"
               PROVE  Items(r) \subseteq applied
    BY DEF AcknowledgedApplied
  <2>1. pc[r] = "done" /\ code[r] = "NO_ERROR" /\ Kind(r) \in Changing
    BY WorkTypes DEF Inv, Sane, Changing
  <2>2. Called(r) = Len(work[r].keys)
    BY <2>1 DEF Called
  <2> QED
    BY <2>1, <2>2 DEF Inv, Complete, Items
<1> QED
  BY <1>1, InvAlways, PTL

\* And with a downstream service an event was sent for each of them before.
THEOREM SuccessIsAnnounced == Spec => []AcknowledgedAnnounced
<1>1. Inv => AcknowledgedAnnounced
  <2> SUFFICES ASSUME Inv, NEW r \in Requests, Downstream, status[r] = 200,
                      Kind(r) \in {"create", "update", "delete"} \union MemberKinds
               PROVE  Items(r) \subseteq announced
    BY DEF AcknowledgedAnnounced
  <2>1. pc[r] = "done" /\ code[r] = "NO_ERROR" /\ Kind(r) \in Announcing
    BY DEF Inv, Sane, Announcing
  <2>3. work[r].input # "bad_index"
    BY DEF Inv, Sane, MemberKinds
  <2>2. Published(r) = Len(work[r].keys)
    BY <2>1 DEF Published
  <2> QED
    BY <2>1, <2>2, <2>3 DEF Inv, Complete, Items
<1> QED
  BY <1>1, InvAlways, PTL

-----------------------------------------------------------------------------
(***************************************************************************)
(* How many steps a request takes at most: a begun one with n objects in   *)
(* its list is answered after 2 * n + 2 steps, one call and one event for  *)
(* each of them; a deletion reads besides, and there is but one object.    *)
(***************************************************************************)
ItemsLeft(r) == Len(work[r].keys) - item[r]

StepsLeft(r) ==
  CASE pc[r] = "done"    -> 0
    [] pc[r] = "answer"  -> 1
    [] pc[r] = "publish" -> IF Kind(r) \in {"delete", "event"} THEN 3 ELSE 2 * ItemsLeft(r) + 2
    [] pc[r] = "call"    -> IF Kind(r) \in {"delete", "event"} THEN 2
                            ELSE IF Kind(r) \in RemovalKinds THEN 4 ELSE 2 * ItemsLeft(r) + 3
    [] pc[r] = "read"    -> IF Kind(r) = "delete" THEN 4 ELSE 3
    [] OTHER             -> 2 * Len(work[r].keys) + 3

\* A step of request r, as far as it moves on.
Moves(r) ==
  /\ work' = work
  /\ \A q \in Requests \ {r} : pc'[q] = pc[q] /\ item'[q] = item[q]
  /\ \/ pc[r] # "done" /\ pc[r] # "answer" /\ pc'[r] = "answer"
     \/ pc[r] # "done" /\ pc'[r] = "done"
     \/ /\ item'[r] = item[r]
        /\ \/ /\ pc[r] = "idle" /\ item[r] = 1 /\ pc'[r] \in {"read", "publish", "call"}
              /\ pc'[r] = "read" => Kind(r) = "delete"
              /\ pc'[r] = "publish" => Kind(r) = "event"
           \/ pc[r] = "read" /\ pc'[r] = "publish"
           \/ pc[r] = "read" /\ pc'[r] = "call" /\ Kind(r) = "delete"
           \/ pc[r] = "publish" /\ pc'[r] = "call" /\ Kind(r) \in {"delete", "event"}
           \/ pc[r] = "call" /\ pc'[r] = "publish" /\ Kind(r) \notin {"delete", "event"}
           \/ pc[r] = "call" /\ pc'[r] = "read" /\ Kind(r) \in RemovalKinds
     \/ /\ pc[r] \in {"call", "publish"} /\ pc'[r] = "call" /\ Kind(r) \in ListKinds
        /\ item'[r] = item[r] + 1

LEMMA StepMoves ==
  ASSUME Inv, NEW r \in Requests, Arrive(r) \/ Step(r)
  PROVE  Moves(r)
<1>0. /\ TypeOK /\ Sane(r) /\ Kind(r) \in Kinds
      /\ pc \in [Requests -> {"idle", "read", "call", "publish", "answer", "done"}]
  BY WorkTypes DEF Inv, TypeOK
<1>1. CASE Arrive(r)
  <2> DEFINE to == CASE work[r].keys = <<>>  -> "answer"
                     [] Kind(r) = "delete"   -> "read"
                     [] Kind(r) = "event"    -> "publish"
                     [] OTHER                -> "call"
  <2>1. /\ pc[r] = "idle" /\ work' = work /\ item' = item
        /\ \/ pc' = [pc EXCEPT ![r] = "done"]
           \/ pc' = [pc EXCEPT ![r] = "answer"]
           \/ pc' = [pc EXCEPT ![r] = to]
    BY <1>1 DEF Arrive, RejectBody, FailToBuild, SkipRemoval, Begin, Goto
  <2>2. /\ to \in {"answer", "read", "publish", "call"}
        /\ to = "read" => Kind(r) = "delete"
        /\ to = "publish" => Kind(r) = "event"
    OBVIOUS
  <2>3. item[r] = 1
    BY <1>0, <2>1 DEF Sane
  <2> HIDE DEF to
  <2> QED
    BY <1>0, <2>1, <2>2, <2>3 DEF Moves
<1>2. CASE CallSucceeds(r) \/ CallMisses(r) \/ CallFails(r)
  <2>1. pc[r] = "call" /\ AfterCall(r) /\ work' = work
    BY <1>2 DEF CallSucceeds, CallMisses, CallFails
  <2>2. CASE Kind(r) = "query"
    <3>1. ContinueList(r) /\ Kind(r) \in ListKinds
      BY <2>1, <2>2 DEF AfterCall, ListKinds
    <3> QED
      BY <1>0, <2>1, <3>1, ListContinues DEF Moves
  <2>3. CASE Kind(r) # "query"
    <3>1. Kind(r) \in {"create", "update"} \union MemberKinds => Kind(r) \notin {"delete", "event"}
      BY DEF MemberKinds
    <3> QED
      BY <1>0, <2>1, <2>3, <3>1, CallContinues DEF Moves
  <2> QED BY <2>2, <2>3
<1>3. CASE CallThrows(r)
  <2> DEFINE to == CASE Kind(r) \in MemberKinds  -> "publish"
                     [] Kind(r) = "action_delete" -> "read"
                     [] Kind(r) = "event"         -> "done"
                     [] OTHER                     -> "answer"
  <2>1. pc[r] = "call" /\ pc' = [pc EXCEPT ![r] = to] /\ work' = work /\ item' = item
    BY <1>3 DEF CallThrows, AfterException, Goto
  <2>2. \/ to = "publish" /\ Kind(r) \notin {"delete", "event"}
        \/ to = "read" /\ Kind(r) \in RemovalKinds
        \/ to \in {"done", "answer"}
    BY DEF MemberKinds, RemovalKinds
  <2> HIDE DEF to
  <2> QED
    BY <1>0, <2>1, <2>2 DEF Moves
<1>4. CASE ReadScene(r) \/ ReadSceneFails(r)
  <2>1. /\ pc[r] = "read" /\ work' = work /\ item' = item
        /\ \/ pc' = [pc EXCEPT ![r] = "publish"]
           \/ pc' = [pc EXCEPT ![r] = "answer"]
           \/ pc' = [pc EXCEPT ![r] = "call"] /\ Kind(r) = "delete"
    BY <1>4 DEF ReadScene, ReadSceneFails, Goto
  <2> QED
    BY <1>0, <2>1 DEF Moves
<1>5. CASE Publish(r)
  <2>1. pc[r] = "publish" /\ work' = work
    BY <1>5 DEF Publish
  <2>2. CASE Kind(r) \in ListKinds
    BY <1>0, <1>5, <2>1, <2>2, ListContinues DEF Publish, Moves
  <2>3. CASE Kind(r) \notin ListKinds
    <3>1. /\ item' = item
          /\ \/ pc' = [pc EXCEPT ![r] = "call"] /\ Kind(r) \in {"delete", "event"}
             \/ pc' = [pc EXCEPT ![r] = "answer"]
      BY <1>5, <2>3 DEF Publish, Goto
    <3> QED
      BY <1>0, <2>1, <3>1 DEF Moves
  <2> QED BY <2>2, <2>3
<1>6. CASE Answer(r)
  <2>1. pc[r] = "answer" /\ pc' = [pc EXCEPT ![r] = "done"] /\ work' = work /\ item' = item
    BY <1>6 DEF Answer, Goto
  <2> QED
    BY <1>0, <2>1 DEF Moves
<1> QED
  BY <1>1, <1>2, <1>3, <1>4, <1>5, <1>6 DEF Step

\* The list has no fewer objects than are left.
LEMMA LeftOfList ==
  ASSUME Inv, NEW r \in Requests
  PROVE  StepsLeft(r) \in 0 .. 2 * Len(work[r].keys) + 3
<1> DEFINE n == Len(work[r].keys)
<1>1. /\ n \in Nat /\ item[r] \in Nat /\ Sane(r)
      /\ Kind(r) \notin ListKinds => n = 1
      /\ pc[r] \in {"idle", "read", "call", "publish", "answer", "done"}
      /\ pc[r] \in {"publish", "call"} => item[r] \in 1 .. n
  BY WorkTypes DEF Inv, TypeOK
<1>2. /\ Kind(r) \in RemovalKinds \union {"delete", "event"} => n = 1
      /\ pc[r] = "read" => n = 1
  BY <1>1 DEF Sane, ListKinds, RemovalKinds
<1> HIDE DEF n
<1>3. CASE pc[r] \in {"publish", "call"}
  <2>1. ItemsLeft(r) \in Nat /\ ItemsLeft(r) <= n
    <3>1. n - item[r] \in Nat /\ n - item[r] <= n
      BY <1>1, <1>3
    <3> QED
      BY <3>1 DEF ItemsLeft, n
  <2>2. \/ StepsLeft(r) \in {2, 3, 4} /\ n = 1
        \/ StepsLeft(r) \in {2 * ItemsLeft(r) + 2, 2 * ItemsLeft(r) + 3}
    BY <1>2, <1>3 DEF StepsLeft
  <2>3. StepsLeft(r) \in 0 .. 2 * n + 3
    BY <1>1, <2>1, <2>2
  <2> QED
    BY <2>3 DEF n
<1>4. CASE pc[r] \in {"idle", "read", "answer", "done"}
  <2>1. \/ StepsLeft(r) \in {3, 4} /\ n = 1
        \/ StepsLeft(r) \in {0, 1}
        \/ StepsLeft(r) = 2 * n + 3
    BY <1>2, <1>4 DEF StepsLeft, n
  <2>2. StepsLeft(r) \in 0 .. 2 * n + 3
    BY <1>1, <2>1
  <2> QED
    BY <2>2 DEF n
<1> QED
  BY <1>1, <1>3, <1>4

LEMMA MovesLeave ==
  ASSUME Inv, Inv', NEW r \in Requests, Moves(r)
  PROVE  StepsLeft(r)' < StepsLeft(r)
<1> DEFINE n == Len(work[r].keys)
<1>1. /\ Len(work[r].keys)' = n /\ Kind(r)' = Kind(r) /\ n \in Nat
      /\ ItemsLeft(r) = n - item[r] /\ ItemsLeft(r)' = n - item'[r]
      /\ item[r] \in Nat
      /\ Kind(r) \notin ListKinds => n = 1
      /\ pc[r] \in {"call", "publish"} => item[r] \in 1 .. n
      /\ pc'[r] \in {"call", "publish"} => item'[r] \in 1 .. n
  BY WorkTypes DEF Inv, TypeOK, Moves, Kind, ItemsLeft
<1>2. /\ Kind(r) \in ListKinds => Kind(r) \notin {"delete", "event"} \union RemovalKinds
      /\ Kind(r) \in RemovalKinds => Kind(r) \notin {"delete", "event"}
      /\ pc[r] = "read" => Kind(r) \in {"delete"} \union RemovalKinds
      /\ Kind(r) \in RemovalKinds \union {"delete", "event"} => n = 1
  BY <1>1 DEF Inv, Sane, ListKinds, RemovalKinds
<1> HIDE DEF n
<1>3. StepsLeft(r) \in Nat
  <2>1. StepsLeft(r) \in 0 .. 2 * n + 3
    BY LeftOfList DEF n
  <2> QED
    BY <2>1
<1>4. pc[r] \in {"call", "publish"} => ItemsLeft(r) \in Nat
  BY <1>1
<1>5. CASE /\ pc[r] # "done" /\ pc'[r] \in {"answer", "done"}
           /\ pc[r] = "answer" => pc'[r] = "done"
  <2>1. StepsLeft(r)' = IF pc'[r] = "done" THEN 0 ELSE 1
    BY <1>5 DEF StepsLeft
  <2>2. \/ StepsLeft(r) = 1 /\ pc[r] = "answer"
        \/ StepsLeft(r) \in {2, 3, 4}
        \/ StepsLeft(r) \in {2 * ItemsLeft(r) + 2, 2 * ItemsLeft(r) + 3} /\ ItemsLeft(r) \in Nat
        \/ StepsLeft(r) = 2 * n + 3
    BY <1>4, <1>5 DEF StepsLeft, n
  <2>3. \/ StepsLeft(r) = 1 /\ pc'[r] = "done"
        \/ StepsLeft(r) >= 2
    BY <1>1, <1>5, <2>2
  <2> QED
    BY <1>3, <2>1, <2>3
<1>6. CASE /\ pc[r] = "idle" /\ item'[r] = item[r] /\ item[r] = 1
           /\ pc'[r] \in {"read", "publish", "call"}
           /\ pc'[r] = "read" => Kind(r) = "delete"
           /\ pc'[r] = "publish" => Kind(r) = "event"
  <2>1. StepsLeft(r) = 2 * n + 3
    BY <1>6 DEF StepsLeft, n
  <2>2. \/ StepsLeft(r)' \in {2, 3, 4} /\ n = 1
        \/ StepsLeft(r)' = 2 * (n - 1) + 3
    BY <1>1, <1>2, <1>6 DEF StepsLeft
  <2> QED
    BY <1>1, <2>1, <2>2
<1>7. CASE pc[r] = "read" /\ pc'[r] \in {"publish", "call"} /\ item'[r] = item[r]
           /\ (pc'[r] = "call" => Kind(r) = "delete")
  <2>1. StepsLeft(r) = IF Kind(r) = "delete" THEN 4 ELSE 3
    BY <1>7 DEF StepsLeft
  <2>2. n = 1 /\ ItemsLeft(r)' = 0
    BY <1>1, <1>2, <1>7
  <2>3. StepsLeft(r)' \in {2, 3} /\ (Kind(r) # "delete" => StepsLeft(r)' = 2)
    BY <1>1, <1>2, <1>7, <2>2 DEF StepsLeft
  <2> QED
    BY <2>1, <2>3
<1>8. CASE \/ pc[r] = "publish" /\ pc'[r] = "call" /\ Kind(r) \in {"delete", "event"}
           \/ pc[r] = "call" /\ pc'[r] = "read" /\ Kind(r) \in RemovalKinds
  <2>1. \/ StepsLeft(r) = 3 /\ StepsLeft(r)' = 2
        \/ StepsLeft(r) = 4 /\ StepsLeft(r)' = 3
    BY <1>1, <1>2, <1>8 DEF StepsLeft
  <2> QED
    BY <2>1
<1>9. CASE /\ pc[r] = "call" /\ pc'[r] = "publish" /\ item'[r] = item[r]
           /\ Kind(r) \notin {"delete", "event"}
  <2>1. StepsLeft(r)' = 2 * ItemsLeft(r) + 2
    BY <1>1, <1>9 DEF StepsLeft
  <2>2. \/ StepsLeft(r) = 2 * ItemsLeft(r) + 3
        \/ StepsLeft(r) = 4 /\ n = 1
    BY <1>2, <1>9 DEF StepsLeft
  <2> QED
    BY <1>1, <1>4, <1>9, <2>1, <2>2
<1>10. CASE /\ pc[r] \in {"call", "publish"} /\ pc'[r] = "call" /\ Kind(r) \in ListKinds
            /\ item'[r] = item[r] + 1
  <2>1. StepsLeft(r)' = 2 * (n - (item[r] + 1)) + 3
    BY <1>1, <1>2, <1>10 DEF StepsLeft
  <2>2. StepsLeft(r) \in {2 * (n - item[r]) + 2, 2 * (n - item[r]) + 3}
    BY <1>1, <1>2, <1>10 DEF StepsLeft
  <2> QED
    BY <1>1, <2>1, <2>2
<1> QED
  BY <1>5, <1>6, <1>7, <1>8, <1>9, <1>10 DEF Moves

(***************************************************************************)
(* RequestsAnswered cannot hang on an endless list: every step of a        *)
(* request leaves it fewer steps to take, none of another gives it more,   *)
(* and it has at most 2 * n + 3 of them for a list of n objects, whatever  *)
(* fails or is thrown.                                                     *)
(***************************************************************************)
StepsLeftBounded == \A r \in Requests : StepsLeft(r) \in 0 .. 2 * Len(work[r].keys) + 3

StepsTaken ==
  [][\A r \in Requests :
       /\ StepsLeft(r)' <= StepsLeft(r)
       /\ Arrive(r) \/ Step(r) => StepsLeft(r)' < StepsLeft(r)]_vars

THEOREM RequestsTakeBoundedSteps == Spec => []StepsLeftBounded /\ StepsTaken
<1>1. Inv => StepsLeftBounded
  BY LeftOfList DEF StepsLeftBounded
<1>2. Inv /\ Inv' /\ StepsLeftBounded /\ StepsLeftBounded' /\ [Next]_vars =>
        [\A r \in Requests :
           /\ StepsLeft(r)' <= StepsLeft(r)
           /\ Arrive(r) \/ Step(r) => StepsLeft(r)' < StepsLeft(r)]_vars
  <2> SUFFICES ASSUME Inv, Inv', StepsLeftBounded, StepsLeftBounded', Next,
                      NEW r \in Requests, ~UNCHANGED vars
               PROVE  /\ StepsLeft(r)' <= StepsLeft(r)
                      /\ Arrive(r) \/ Step(r) => StepsLeft(r)' < StepsLeft(r)
    OBVIOUS
  <2>1. PICK q \in Requests : Arrive(q) \/ Step(q)
    BY DEF Next
  <2>2. Moves(q)
    BY <2>1, StepMoves
  <2>3. Arrive(r) \/ Step(r) => StepsLeft(r)' < StepsLeft(r)
    BY StepMoves, MovesLeave
  <2>4. StepsLeft(r) \in Nat /\ StepsLeft(r)' \in Nat
    <3>1. \A n \in Nat : 0 .. 2 * n + 3 \subseteq Nat
      OBVIOUS
    <3>2. Len(work[r].keys) \in Nat /\ Len(work[r].keys)' \in Nat
      BY <2>2, WorkTypes DEF Inv, Moves
    <3> QED
      BY <3>1, <3>2 DEF StepsLeftBounded
  <2>5. CASE q = r
    BY <2>1, <2>3, <2>4, <2>5
  <2>6. CASE q # r
    <3>1. StepsLeft(r)' = StepsLeft(r)
      BY <2>2, <2>6 DEF Moves, StepsLeft, ItemsLeft, Kind
    <3> QED
      BY <2>3, <2>4, <3>1
  <2> QED
    BY <2>5, <2>6
<1> QED
  BY <1>1, <1>2, InvAlways, PTL DEF Spec, StepsTaken
=============================================================================
