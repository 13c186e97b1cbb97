------------------------- MODULE PropertyStoreProofs -------------------------
(***************************************************************************)
(* What the documents and the answers of PropertyStore hold, for every     *)
(* number of calls, documents, values, keyframes, attempts and failures.   *)
(***************************************************************************)
EXTENDS PropertyStore, FiniteSetTheorems, WellFoundedInduction, TLAPS

-----------------------------------------------------------------------------
(***************************************************************************)
(* Lists of any length.  The natural numbers are well-ordered; what holds  *)
(* for 0, and for n + 1 when it holds for n, is a set that has them all.   *)
(***************************************************************************)
LEMMA LeastNatural ==
  ASSUME NEW T, T \subseteq Nat, T # {}
  PROVE  \E m \in T : \A n \in T : m <= n
<1>1. \E m \in T : \A n \in T : ~(<<n, m>> \in OpToRel(<, Nat))
  BY NatLessThanWellFounded, WFMin, Zenon
<1>2. \A i, j \in Nat : i < j => <<i, j>> \in OpToRel(<, Nat)
  BY DEF OpToRel
<1>3. PICK m \in T : \A n \in T : ~(n < m)
  BY <1>1, <1>2, Zenon
<1> QED
  BY <1>3

LEMMA Induction ==
  ASSUME NEW T, 0 \in T, \A n \in Nat : n \in T => n + 1 \in T
  PROVE  Nat \subseteq T
<1> SUFFICES ASSUME Nat \ T # {} PROVE FALSE
  OBVIOUS
<1>1. PICK m \in Nat \ T : \A n \in Nat \ T : m <= n
  BY LeastNatural
<1>2. m = 0 \/ m - 1 \in Nat
  BY <1>1
<1> QED
  BY <1>1, <1>2

\* A loop that appends one part after the other is a function: JoinsTo(f, parts, len).
JoinsTo(f, parts, len) ==
  f = [n \in 0 .. len |-> IF n = 0 THEN <<>> ELSE f[n - 1] \o parts[n]]

LEMMA JoinExists ==
  ASSUME NEW parts, NEW len \in Nat
  PROVE  \E f : JoinsTo(f, parts, len)
<1> DEFINE Loop(x, i) == IF i = 0 THEN <<>> ELSE x \o parts[i]
           Good == {n \in Nat : \E f : f = [i \in 0 .. n |-> Loop(f[i - 1], i)]}
<1> SUFFICES len \in Good
  BY Zenon DEF JoinsTo
<1>0. \A x, y : Loop(x, 0) = Loop(y, 0)
  OBVIOUS
<1> HIDE DEF Loop
<1>1. 0 \in Good
  <2> DEFINE f == [i \in 0 .. 0 |-> Loop(0, 0)]
  <2>1. \A i \in 0 .. 0 : i = 0
    OBVIOUS
  <2>2. \A i \in 0 .. 0 : Loop(0, 0) = Loop(f[i - 1], i)
    BY <1>0, <2>1, Zenon
  <2>3. f = [i \in 0 .. 0 |-> Loop(f[i - 1], i)]
    BY <2>2, Zenon
  <2> HIDE DEF f
  <2> QED
    BY <2>3
<1>2. ASSUME NEW n \in Nat, n \in Good
      PROVE  n + 1 \in Good
  <2>1. PICK f : f = [i \in 0 .. n |-> Loop(f[i - 1], i)]
    BY <1>2
  <2> DEFINE g == [i \in 0 .. n + 1 |-> Loop(f[i - 1], i)]
  <2>2. \A i \in 0 .. n : g[i] = f[i]
    <3>1. \A i \in 0 .. n : i \in 0 .. n + 1
      OBVIOUS
    <3>2. \A i \in 0 .. n : f[i] = Loop(f[i - 1], i)
      BY <2>1, Zenon
    <3>3. \A i \in 0 .. n : g[i] = Loop(f[i - 1], i)
      BY <3>1, Zenon
    <3> QED
      BY <3>2, <3>3, Zenon
  <2>3. \A i \in 0 .. n + 1 : Loop(f[i - 1], i) = Loop(g[i - 1], i)
    <3> TAKE i \in 0 .. n + 1
    <3>1. CASE i = 0
      BY <1>0, <3>1, Zenon
    <3>2. CASE i # 0
      <4>1. i - 1 \in 0 .. n
        BY <3>2
      <4> QED
        BY <2>2, <4>1, Zenon
    <3> QED
      BY <3>1, <3>2
  <2>4. g = [i \in 0 .. n + 1 |-> Loop(g[i - 1], i)]
    BY <2>3, Zenon
  <2> HIDE DEF g
  <2> QED
    BY <2>4
<1> HIDE DEF Good
<1> QED
  BY <1>1, <1>2, Induction

\* What such a loop makes of lists over S.
LEMMA JoinTypes ==
  ASSUME NEW S, NEW parts, NEW len \in Nat, NEW f, JoinsTo(f, parts, len),
         \A n \in 1 .. len : parts[n] \in Seq(S)
  PROVE  \A n \in 0 .. len : f[n] \in Seq(S)
<1> DEFINE T == {n \in Nat : n <= len => f[n] \in Seq(S)}
<1>1. \A n \in 0 .. len : f[n] = IF n = 0 THEN <<>> ELSE f[n - 1] \o parts[n]
  BY Zenon DEF JoinsTo
<1>2. 0 \in T
  <2>1. f[0] = <<>>
    BY <1>1, 0 \in 0 .. len, Zenon
  <2>2. <<>> \in Seq(S)
    OBVIOUS
  <2> QED
    BY <2>1, <2>2, 0 \in Nat, Zenon
<1>3. ASSUME NEW n \in Nat, n \in T
      PROVE  n + 1 \in T
  <2> SUFFICES ASSUME n + 1 <= len PROVE f[n + 1] \in Seq(S)
    OBVIOUS
  <2>1. n + 1 \in 1 .. len /\ n + 1 \in 0 .. len /\ n <= len /\ (n + 1) - 1 = n /\ n + 1 # 0
    OBVIOUS
  <2>2. f[n + 1] = f[n] \o parts[n + 1]
    BY <1>1, <2>1
  <2> QED
    BY <1>3, <2>1, <2>2
<1> HIDE DEF T
<1>4. Nat \subseteq T
  BY <1>2, <1>3, Induction
<1> QED
  BY <1>4 DEF T

\* Parts with one element at most make a list with one for each of them at most.
LEMMA JoinShort ==
  ASSUME NEW S, NEW parts, NEW len \in Nat, NEW f, JoinsTo(f, parts, len),
         \A n \in 1 .. len : parts[n] \in Seq(S) /\ Len(parts[n]) <= 1
  PROVE  Len(f[len]) <= len
<1> DEFINE T == {n \in Nat : n <= len => Len(f[n]) <= n}
<1>1. \A n \in 0 .. len : f[n] = IF n = 0 THEN <<>> ELSE f[n - 1] \o parts[n]
  BY Zenon DEF JoinsTo
<1>2. \A n \in 0 .. len : f[n] \in Seq(S)
  BY JoinTypes
<1>3. 0 \in T
  <2>1. f[0] = <<>>
    BY <1>1, 0 \in 0 .. len, Zenon
  <2>2. Len(f[0]) <= 0
    BY <2>1
  <2> QED
    BY <2>2, 0 \in Nat, Zenon
<1>4. ASSUME NEW n \in Nat, n \in T
      PROVE  n + 1 \in T
  <2> SUFFICES ASSUME n + 1 <= len PROVE Len(f[n + 1]) <= n + 1
    OBVIOUS
  <2>1. /\ n + 1 \in 1 .. len /\ n + 1 \in 0 .. len /\ n \in 0 .. len /\ n <= len
        /\ (n + 1) - 1 = n /\ n + 1 # 0
    OBVIOUS
  <2>2. f[n + 1] = f[n] \o parts[n + 1]
    BY <1>1, <2>1
  <2>3. f[n] \in Seq(S) /\ Len(f[n]) <= n /\ parts[n + 1] \in Seq(S) /\ Len(parts[n + 1]) <= 1
    BY <1>2, <1>4, <2>1
  <2>4. /\ Len(f[n + 1]) = Len(f[n]) + Len(parts[n + 1])
        /\ Len(f[n]) \in Nat /\ Len(parts[n + 1]) \in Nat
    BY <2>2, <2>3
  <2>5. \A x, y \in Nat : x <= n /\ y <= 1 => x + y <= n + 1
    OBVIOUS
  <2> QED
    BY <2>3, <2>4, <2>5, Zenon
<1> HIDE DEF T
<1>5. Nat \subseteq T
  BY <1>3, <1>4, Induction
<1> QED
  BY <1>5 DEF T

\* Parts with one element each make the list of these.
FirstOf(x, n) == [i \in 1 .. n |-> x[i]]

LEMMA JoinSingles ==
  ASSUME NEW x, NEW parts, NEW len \in Nat, NEW f, JoinsTo(f, parts, len),
         \A n \in 1 .. len : parts[n] = <<x[n]>>
  PROVE  f[len] = FirstOf(x, len)
<1> DEFINE S == {x[i] : i \in 1 .. len}
           first(n) == FirstOf(x, n)
           T == {n \in Nat : n <= len => f[n] = first(n)}
<1>1. \A n \in 0 .. len : f[n] = IF n = 0 THEN <<>> ELSE f[n - 1] \o parts[n]
  BY Zenon DEF JoinsTo
<1>2. 0 \in T
  <2>1. f[0] = <<>>
    BY <1>1, 0 \in 0 .. len, Zenon
  <2>2. first(0) = <<>>
    BY DEF FirstOf
  <2> QED
    BY <2>1, <2>2, 0 \in Nat, Zenon
<1>3. ASSUME NEW n \in Nat, n \in T
      PROVE  n + 1 \in T
  <2> SUFFICES ASSUME n + 1 <= len PROVE f[n + 1] = first(n + 1)
    OBVIOUS
  <2>1. /\ n + 1 \in 1 .. len /\ n + 1 \in 0 .. len /\ n <= len
        /\ (n + 1) - 1 = n /\ n + 1 # 0
    OBVIOUS
  <2>2. f[n + 1] = f[n] \o <<x[n + 1]>>
    BY <1>1, <2>1
  <2>3. f[n] = first(n)
    BY <1>3, <2>1
  <2>4. first(n) \o <<x[n + 1]>> = first(n + 1)
    <3> USE DEF FirstOf
    <3>1. \A i \in 1 .. n + 1 : x[i] \in S
      BY <2>1
    <3>2. /\ first(n) \in Seq(S) /\ Len(first(n)) = n
          /\ first(n + 1) \in Seq(S) /\ Len(first(n + 1)) = n + 1
      BY <3>1
    <3>3. /\ Len(first(n) \o <<x[n + 1]>>) = n + 1
          /\ \A i \in 1 .. n + 1 : (first(n) \o <<x[n + 1]>>)[i] = x[i]
      BY <3>1, <3>2
    <3> QED
      BY <3>1, <3>2, <3>3
  <2> QED
    BY <2>2, <2>3, <2>4, Zenon
<1> HIDE DEF T
<1>4. Nat \subseteq T
  BY <1>2, <1>3, Induction
<1> QED
  BY <1>4 DEF T

-----------------------------------------------------------------------------
(***************************************************************************)
(* The conversions of PropertyData.                                        *)
(***************************************************************************)
\* The values of a list are those of its numbers, one after the other.
AcceptedOf(numbers) == [n \in 1 .. Len(numbers) |-> Accepted(numbers[n])]

LEMMA ValuesJoin ==
  ASSUME NEW N, NEW numbers \in Seq(N)
  PROVE  \E f : /\ JoinsTo(f, AcceptedOf(numbers), Len(numbers))
                /\ ParseValues(numbers) = f[Len(numbers)]
<1> DEFINE len == Len(numbers)
           parts == AcceptedOf(numbers)
           Loop(f) == f = [n \in 0 .. len |-> IF n = 0 THEN <<>>
                                             ELSE f[n - 1] \o Accepted(numbers[n])]
           values == CHOOSE f : Loop(f)
<1>1. len \in Nat
  OBVIOUS
<1>2. ParseValues(numbers) = values[len]
  BY Zenon DEF ParseValues
<1>3. \A f : JoinsTo(f, parts, len) <=> Loop(f)
  <2> TAKE f
  <2>1. \A n \in 0 .. len : n = 0 \/ n \in 1 .. len
    BY <1>1
  <2>2. \A n \in 1 .. len : f[n - 1] \o parts[n] = f[n - 1] \o Accepted(numbers[n])
    BY Zenon DEF AcceptedOf
  <2>3. \A n \in 0 .. len : (IF n = 0 THEN <<>> ELSE f[n - 1] \o parts[n])
                             = (IF n = 0 THEN <<>> ELSE f[n - 1] \o Accepted(numbers[n]))
    BY <2>1, <2>2, Zenon
  <2> QED
    BY <2>3, Zenon DEF JoinsTo
<1> HIDE DEF len, parts, Loop
<1>4. JoinsTo(values, parts, len)
  BY <1>1, <1>3, JoinExists, Zenon
<1> HIDE DEF values
<1> QED
  BY <1>2, <1>4, Zenon DEF len, parts

\* A factory accepts one value of each number at most.
LEMMA ParsedValues ==
  ASSUME NEW N, \A number \in N : number.value \in Numbers, NEW numbers \in Seq(N)
  PROVE  /\ ParseValues(numbers) \in Seq(Numbers)
         /\ Len(ParseValues(numbers)) <= Len(numbers)
<1> DEFINE len == Len(numbers)
           parts == AcceptedOf(numbers)
<1>1. len \in Nat /\ \A n \in 1 .. len : numbers[n] \in N
  OBVIOUS
<1>2. \A n \in 1 .. len : parts[n] \in Seq(Numbers) /\ Len(parts[n]) <= 1
  <2> TAKE n \in 1 .. len
  <2>1. numbers[n].value \in Numbers /\ parts[n] = Accepted(numbers[n])
    BY <1>1 DEF AcceptedOf
  <2> QED
    BY <2>1 DEF Accepted
<1>3. PICK values : JoinsTo(values, parts, len) /\ ParseValues(numbers) = values[len]
  BY ValuesJoin, Zenon
<1> HIDE DEF len, parts
<1>4. len \in 0 .. len
  BY <1>1
<1>5. values[len] \in Seq(Numbers)
  BY <1>1, <1>2, <1>3, <1>4, JoinTypes, Zenon
<1>6. Len(values[len]) <= len
  BY <1>1, <1>2, <1>3, JoinShort, Zenon
<1> QED
  BY <1>3, <1>5, <1>6, Zenon DEF len

\* It accepts all of them when they have a decimal point.
LEMMA ParsedDoubles ==
  ASSUME NEW numbers \in Seq(Entry), \A i \in DOMAIN numbers : numbers[i].double
  PROVE  ParseValues(numbers) = [i \in DOMAIN numbers |-> numbers[i].value]
<1> DEFINE len == Len(numbers)
           parts == AcceptedOf(numbers)
           value == [i \in 1 .. len |-> numbers[i].value]
<1>1. len \in Nat /\ DOMAIN numbers = 1 .. len /\ \A n \in 1 .. len : numbers[n] \in Entry
  OBVIOUS
<1>2. \A n \in 1 .. len : parts[n] = <<value[n]>>
  BY <1>1 DEF AcceptedOf, Accepted
<1>3. PICK values : JoinsTo(values, parts, len) /\ ParseValues(numbers) = values[len]
  BY ValuesJoin, Zenon
<1> HIDE DEF len, parts, value
<1>4. values[len] = FirstOf(value, len)
  <2>1. len \in Nat
    BY <1>1
  <2> QED
    BY <1>2, <1>3, <2>1, JoinSingles, Zenon
<1>5. value = [i \in DOMAIN numbers |-> numbers[i].value]
  BY <1>1 DEF value
<1>6. FirstOf(value, len) = value
  BY DEF value, FirstOf
<1> QED
  BY <1>3, <1>4, <1>5, <1>6, Zenon

\* The entries of all keyframes of one number are a list of entries.
LEMMA EntriesType ==
  ASSUME NEW keyframes \in Seq(KeyframeBodies), NEW f \in FrameIds
  PROVE  EntriesOf(keyframes, f) \in Seq(Entry)
<1> DEFINE len == Len(keyframes)
           parts == [n \in 1 .. len |-> OfFrame(keyframes[n], f)]
           Loop(g) == g = [n \in 0 .. len |-> IF n = 0 THEN <<>>
                                             ELSE g[n - 1] \o OfFrame(keyframes[n], f)]
           entries == CHOOSE g : Loop(g)
<1>1. len \in Nat /\ \A n \in 1 .. len : keyframes[n] \in KeyframeBodies
  OBVIOUS
<1>2. \A n \in 1 .. len : parts[n] \in Seq(Entry)
  BY <1>1 DEF OfFrame, KeyframeBodies
<1>3. EntriesOf(keyframes, f) = entries[len]
  BY Zenon DEF EntriesOf
<1>4. \A g : JoinsTo(g, parts, len) <=> Loop(g)
  <2> TAKE g
  <2>1. \A n \in 0 .. len : n = 0 \/ n \in 1 .. len
    BY <1>1
  <2>2. \A n \in 1 .. len : g[n - 1] \o parts[n] = g[n - 1] \o OfFrame(keyframes[n], f)
    BY Zenon
  <2>3. \A n \in 0 .. len : (IF n = 0 THEN <<>> ELSE g[n - 1] \o parts[n])
                             = (IF n = 0 THEN <<>> ELSE g[n - 1] \o OfFrame(keyframes[n], f))
    BY <2>1, <2>2, Zenon
  <2> QED
    BY <2>3, Zenon DEF JoinsTo
<1> HIDE DEF len, parts, Loop
<1>5. JoinsTo(entries, parts, len)
  BY <1>1, <1>4, JoinExists, Zenon
<1> HIDE DEF entries
<1>6. len \in 0 .. len
  BY <1>1
<1> QED
  BY <1>1, <1>2, <1>3, <1>5, <1>6, JoinTypes, Zenon

\* A parsed keyframe has a handle for every value.
Whole(frame) == frame \in Frame /\ DOMAIN frame.values \subseteq DOMAIN frame.handles

LEMMA ParsedFrame ==
  ASSUME NEW entries \in Seq(Entry)
  PROVE  Whole(ParseFrame(entries))
<1>1. /\ ParseValues(entries) \in Seq(Numbers)
      /\ Len(ParseValues(entries)) <= Len(entries)
  BY ParsedValues DEF Entry
<1> DEFINE handles == [i \in DOMAIN entries |-> ParseHandle(entries[i].handle)]
<1>2. \A i \in DOMAIN entries : ParseHandle(entries[i].handle) \in Handle
  <2> TAKE i \in DOMAIN entries
  <2>1. entries[i] \in Entry
    OBVIOUS
  <2>2. entries[i].handle \in Handle
    BY <2>1 DEF Entry
  <2> QED
    BY <2>2, DataAssumption DEF ParseHandle, Handle
<1>3. handles \in Seq(Handle) /\ DOMAIN handles = 1 .. Len(entries)
  BY <1>2
<1>4. DOMAIN ParseValues(entries) = 1 .. Len(ParseValues(entries))
      /\ Len(ParseValues(entries)) \in Nat /\ Len(entries) \in Nat
  BY <1>1
<1> HIDE DEF handles
<1>5. ParseFrame(entries) = [values |-> ParseValues(entries), handles |-> handles]
  BY DEF ParseFrame, handles
<1> QED
  BY <1>1, <1>3, <1>4, <1>5 DEF Whole, Frame

\* The slots hold a list of values, or a keyframe.
Hold(slots, values) ==
  \A i \in SlotIds : /\ slots[i].active <=> i \in DOMAIN values
                     /\ i \in DOMAIN values => slots[i].value = values[i]
HoldFrame(slots, frame) ==
  /\ Hold(slots, frame.values)
  /\ \A i \in SlotIds : i \in DOMAIN frame.values => slots[i].handle = frame.handles[i]

LEMMA SlotOfFrame ==
  ASSUME NEW frame \in Frame, NEW i \in SlotIds
  PROVE  /\ SlotOf(frame, i) \in Slot
         /\ SlotOf(frame, i).active <=> i \in DOMAIN frame.values
         /\ i \in DOMAIN frame.values => SlotOf(frame, i).value = frame.values[i]
         /\ i \in DOMAIN frame.values /\ i \in DOMAIN frame.handles =>
              SlotOf(frame, i).handle = frame.handles[i] /\ frame.handles[i] # NoHandle
<1>1. /\ \A j \in DOMAIN frame.values : frame.values[j] \in Numbers
      /\ \A j \in DOMAIN frame.handles : frame.handles[j] \in Handle
  BY DEF Frame
<1>2. \A h \in Handle : h # NoHandle
  BY DataAssumption DEF Handle
<1>3. CASE i \in DOMAIN frame.values /\ i \in DOMAIN frame.handles
  <2>1. SlotOf(frame, i) = [active |-> TRUE, value |-> frame.values[i],
                            handle |-> frame.handles[i]]
    BY <1>3 DEF SlotOf
  <2> QED
    BY <1>1, <1>2, <1>3, <2>1 DEF Slot
<1>4. CASE i \in DOMAIN frame.values /\ i \notin DOMAIN frame.handles
  <2>1. SlotOf(frame, i) = [active |-> TRUE, value |-> frame.values[i], handle |-> NoHandle]
    BY <1>4 DEF SlotOf
  <2> QED
    BY <1>1, <1>4, <2>1 DEF Slot
<1>5. CASE i \notin DOMAIN frame.values
  <2>1. SlotOf(frame, i) = [active |-> FALSE, value |-> Zero, handle |-> NoHandle]
    <3>1. (i \in DOMAIN frame.values) = FALSE
      BY <1>5
    <3> QED
      BY <3>1, Zenon DEF SlotOf
  <2> QED
    BY <1>5, <2>1, DataAssumption DEF Slot
<1> QED
  BY <1>3, <1>4, <1>5

LEMMA FrameWritten ==
  ASSUME NEW frame, Whole(frame)
  PROVE  FrameSlots(frame) \in Slots /\ HoldFrame(FrameSlots(frame), frame)
<1>1. \A i \in SlotIds : FrameSlots(frame)[i] = SlotOf(frame, i)
  BY DEF FrameSlots
<1>2. \A i \in SlotIds : SlotOf(frame, i) \in Slot
  BY SlotOfFrame DEF Whole
<1> QED
  BY <1>1, <1>2, SlotOfFrame DEF Whole, Hold, HoldFrame, Slots, FrameSlots

\* An update writes the same slots: of what was there, it keeps the handles of
\* slots that are not in use.
LEMMA FrameUpdated ==
  ASSUME NEW frame, Whole(frame), NEW slots \in Slots
  PROVE  UpdateSlots(slots, frame) \in Slots /\ HoldFrame(UpdateSlots(slots, frame), frame)
<1> DEFINE new(i) == [SlotOf(frame, i) EXCEPT
                        !.handle = IF @ = NoHandle THEN slots[i].handle ELSE @]
<1>1. \A i \in SlotIds :
        /\ UpdateSlots(slots, frame)[i] = new(i)
        /\ new(i) \in Slot
        /\ new(i).active = SlotOf(frame, i).active
        /\ new(i).value = SlotOf(frame, i).value
        /\ SlotOf(frame, i).handle # NoHandle => new(i).handle = SlotOf(frame, i).handle
  <2> TAKE i \in SlotIds
  <2>1. SlotOf(frame, i) \in Slot /\ slots[i] \in Slot
    BY SlotOfFrame DEF Whole, Slots
  <2>2. UpdateSlots(slots, frame)[i] = new(i)
    BY DEF UpdateSlots
  <2> QED
    BY <2>1, <2>2 DEF Slot
<1>2. UpdateSlots(slots, frame) = [i \in SlotIds |-> new(i)]
  BY DEF UpdateSlots
<1> HIDE DEF new
<1>3. UpdateSlots(slots, frame) \in Slots
  BY <1>1, <1>2 DEF Slots
<1>4. \A i \in SlotIds : i \in DOMAIN frame.values => i \in DOMAIN frame.handles
  BY DEF Whole
<1> QED
  BY <1>1, <1>3, <1>4, SlotOfFrame DEF Whole, Hold, HoldFrame

LEMMA ValuesWritten ==
  ASSUME NEW values \in Seq(Numbers)
  PROVE  ValueSlots(values) \in Slots /\ Hold(ValueSlots(values), values)
<1> DEFINE frame == [values |-> values, handles |-> <<>>]
<1>1. frame \in Frame /\ frame.values = values
  BY DEF Frame
<1>2. ValueSlots(values) = FrameSlots(frame)
  BY DEF ValueSlots
<1> HIDE DEF frame
<1>3. \A i \in SlotIds : FrameSlots(frame)[i] = SlotOf(frame, i)
  BY DEF FrameSlots
<1>4. \A i \in SlotIds : SlotOf(frame, i) \in Slot
  BY <1>1, SlotOfFrame
<1> QED
  BY <1>1, <1>2, <1>3, <1>4, SlotOfFrame DEF Hold, Slots, FrameSlots

\* Slots that hold a list of values are in use from the first one on.
LEMMA UsedSlots ==
  ASSUME NEW slots, NEW m \in Nat, \A i \in SlotIds : slots[i].active <=> i \in 1 .. m
  PROVE  Used(slots) = [n \in (1 .. m) \intersect SlotIds |-> n]
<1> DEFINE Part(i) == IF slots[i].active THEN <<i>> ELSE <<>>
<1>1. Used(slots) = Part(1) \o Part(2) \o Part(3) \o Part(4)
  BY DEF Used
<1>2. SlotIds = {1, 2, 3, 4}
  BY DEF SlotIds
<1> DEFINE Count(n) == [i \in 1 .. n |-> i]
<1>3. /\ <<1>> = Count(1) /\ \A n \in Nat : Count(n) \o <<>> = Count(n)
      /\ \A n \in Nat : Count(n) \o <<n + 1>> = Count(n + 1)
  OBVIOUS
<1>4. /\ Count(1) \o <<2>> = Count(2) /\ Count(2) \o <<3>> = Count(3)
      /\ Count(3) \o <<4>> = Count(4)
      /\ Count(1) \o <<>> = Count(1) /\ Count(2) \o <<>> = Count(2)
      /\ Count(3) \o <<>> = Count(3)
  <2>1. 1 + 1 = 2 /\ 2 + 1 = 3 /\ 3 + 1 = 4
    OBVIOUS
  <2> HIDE DEF Count
  <2>2. \A n \in {1, 2, 3} : Count(n) \o <<>> = Count(n)
                           /\ Count(n) \o <<n + 1>> = Count(n + 1)
    BY <1>3, 1 \in Nat, 2 \in Nat, 3 \in Nat, Zenon
  <2>3. Count(1) \o <<2>> = Count(2) /\ Count(1) \o <<>> = Count(1)
    BY <2>1, <2>2, Zenon
  <2>4. Count(2) \o <<3>> = Count(3) /\ Count(2) \o <<>> = Count(2)
    BY <2>1, <2>2, Zenon
  <2>5. Count(3) \o <<4>> = Count(4) /\ Count(3) \o <<>> = Count(3)
    BY <2>1, <2>2, Zenon
  <2> QED
    BY <2>3, <2>4, <2>5, Zenon
<1>5. CASE m = 0
  <2>1. Part(1) = <<>> /\ Part(2) = <<>> /\ Part(3) = <<>> /\ Part(4) = <<>>
    BY <1>2, <1>5
  <2>2. (1 .. m) \intersect SlotIds = {}
    BY <1>5
  <2> HIDE DEF Count, Part
  <2>3. Used(slots) = <<>>
    <3>1. <<>> \o <<>> \o <<>> \o <<>> = <<>>
      OBVIOUS
    <3> QED
      BY <1>1, <2>1, <3>1, Zenon
  <2>4. [n \in {} |-> n] = <<>>
    OBVIOUS
  <2> QED
    BY <2>2, <2>3, <2>4, Zenon
<1>6. CASE m = 1
  <2>1. Part(1) = <<1>> /\ Part(2) = <<>> /\ Part(3) = <<>> /\ Part(4) = <<>>
    BY <1>2, <1>6
  <2>2. (1 .. m) \intersect SlotIds = 1 .. 1
    BY <1>2, <1>6
  <2> HIDE DEF Count, Part
  <2>3. Used(slots) = Count(1)
    BY <1>3, <1>1, <1>4, <2>1, Zenon
  <2> QED
    BY <2>2, <2>3, Zenon DEF Count
<1>7. CASE m = 2
  <2>1. Part(1) = <<1>> /\ Part(2) = <<2>> /\ Part(3) = <<>> /\ Part(4) = <<>>
    BY <1>2, <1>7
  <2>2. (1 .. m) \intersect SlotIds = 1 .. 2
    BY <1>2, <1>7
  <2> HIDE DEF Count, Part
  <2>3. Used(slots) = Count(2)
    BY <1>3, <1>1, <1>4, <2>1, Zenon
  <2> QED
    BY <2>2, <2>3, Zenon DEF Count
<1>8. CASE m = 3
  <2>1. Part(1) = <<1>> /\ Part(2) = <<2>> /\ Part(3) = <<3>> /\ Part(4) = <<>>
    BY <1>2, <1>8
  <2>2. (1 .. m) \intersect SlotIds = 1 .. 3
    BY <1>2, <1>8
  <2> HIDE DEF Count, Part
  <2>3. Used(slots) = Count(3)
    BY <1>3, <1>1, <1>4, <2>1, Zenon
  <2> QED
    BY <2>2, <2>3, Zenon DEF Count
<1>9. CASE m >= 4
  <2>1. Part(1) = <<1>> /\ Part(2) = <<2>> /\ Part(3) = <<3>> /\ Part(4) = <<4>>
    BY <1>2, <1>9
  <2>2. (1 .. m) \intersect SlotIds = 1 .. 4
    BY <1>2, <1>9
  <2> HIDE DEF Count, Part
  <2>3. Used(slots) = Count(4)
    BY <1>3, <1>1, <1>4, <2>1, Zenon
  <2> QED
    BY <2>2, <2>3, Zenon DEF Count
<1> QED
  BY <1>5, <1>6, <1>7, <1>8, <1>9

\* What was held is read, as far as there is a slot for it.
LEMMA ValuesRead ==
  ASSUME NEW slots, NEW values \in Seq(Numbers), Hold(slots, values)
  PROVE  /\ ReadSlots(slots).values = FirstFour(values)
         /\ Used(slots) = [n \in DOMAIN values \intersect SlotIds |-> n]
         /\ UsedFirst(slots)
<1> DEFINE m == Len(values)
<1>1. m \in Nat /\ DOMAIN values = 1 .. m
  OBVIOUS
<1>2. \A i \in SlotIds : slots[i].active <=> i \in 1 .. m
  BY <1>1, Zenon DEF Hold
<1>3. Used(slots) = [n \in DOMAIN values \intersect SlotIds |-> n]
  BY <1>1, <1>2, UsedSlots
<1>4. ReadSlots(slots).values = [n \in DOMAIN values \intersect SlotIds |-> slots[n].value]
  BY <1>3 DEF ReadSlots
<1>5. \A n \in DOMAIN values \intersect SlotIds : slots[n].value = values[n]
  BY Zenon DEF Hold
<1>6. ReadSlots(slots).values = FirstFour(values)
  BY <1>4, <1>5, Zenon DEF FirstFour
<1>7. UsedFirst(slots)
  <2>1. InUse(slots) = {i \in SlotIds : i \in 1 .. m}
    BY <1>2 DEF InUse
  <2>2. PICK n \in Nat : InUse(slots) = 1 .. n
    <3>1. CASE m <= 4
      BY <1>1, <2>1, <3>1 DEF SlotIds
    <3>2. CASE m > 4
      <4>1. InUse(slots) = 1 .. 4
        BY <1>1, <2>1, <3>2 DEF SlotIds
      <4> QED
        BY <4>1
    <3> QED
      BY <1>1, <3>1, <3>2
  <2>3. Cardinality(1 .. n) = n
    BY FS_Interval
  <2> QED
    BY <2>2, <2>3 DEF UsedFirst
<1> QED
  BY <1>3, <1>6, <1>7

LEMMA FrameRead ==
  ASSUME NEW slots, NEW frame, Whole(frame), HoldFrame(slots, frame)
  PROVE  /\ WriteFrame(ReadSlots(slots)) = FirstFour(WriteFrame(frame))
         /\ UsedFirst(slots)
<1> DEFINE used == DOMAIN frame.values \intersect SlotIds
<1>1. frame.values \in Seq(Numbers) /\ Hold(slots, frame.values)
  BY DEF Whole, Frame, HoldFrame
<1>2. UsedFirst(slots) /\ Used(slots) = [n \in used |-> n]
  BY <1>1, ValuesRead
<1>3. /\ ReadSlots(slots).values = [n \in used |-> slots[n].value]
      /\ ReadSlots(slots).handles = [n \in used |-> ReadHandle(slots[n].handle)]
  BY <1>2 DEF ReadSlots
<1>4. ASSUME NEW n \in used
      PROVE  /\ slots[n].value = frame.values[n]
             /\ ReadHandle(slots[n].handle) = frame.handles[n]
             /\ n \in DOMAIN frame.handles
  <2>1. n \in DOMAIN frame.values /\ n \in SlotIds /\ n \in DOMAIN frame.handles
    BY DEF Whole
  <2>2. slots[n].value = frame.values[n] /\ slots[n].handle = frame.handles[n]
    BY <2>1 DEF HoldFrame, Hold
  <2>3. frame.handles[n] # NoHandle
    <3>1. SlotOf(frame, n).handle = frame.handles[n] /\ frame.handles[n] # NoHandle
      BY <2>1, SlotOfFrame DEF Whole
    <3> QED
      BY <3>1
  <2> QED
    BY <2>1, <2>2, <2>3 DEF ReadHandle
<1>5. WriteFrame(ReadSlots(slots)) =
        [n \in used |-> [value |-> slots[n].value, double |-> TRUE,
                         handle |-> ReadHandle(slots[n].handle)]]
  BY <1>3, Zenon DEF WriteFrame
<1>6. FirstFour(WriteFrame(frame)) =
        [n \in used |-> [value |-> frame.values[n], double |-> TRUE,
                         handle |-> frame.handles[n]]]
  <2>1. \A n \in used : n \in DOMAIN frame.handles
    BY <1>4
  <2>2. DOMAIN WriteFrame(frame) \intersect SlotIds = used
    BY DEF WriteFrame
  <2>3. \A n \in used : WriteFrame(frame)[n] = [value |-> frame.values[n], double |-> TRUE,
                                               handle |-> frame.handles[n]]
    BY <2>1, <2>2 DEF WriteFrame
  <2> QED
    BY <2>2, <2>3, Zenon DEF FirstFour
<1> HIDE DEF used
<1> QED
  BY <1>2, <1>4, <1>5, <1>6, Zenon

-----------------------------------------------------------------------------
(***************************************************************************)
(* Documents made from what was sent: values are the lists of numbers that *)
(* a property may hold, entries the lists of entries for every keyframe of *)
(* every action.                                                           *)
(***************************************************************************)
FrameFrom(frame, entries) ==
  /\ frame \in FrameDoc /\ frame.numbered
  /\ \E e \in entries : Whole(ParseFrame(e)) /\ HoldFrame(frame.slots, ParseFrame(e))

ActionFrom(action, entries) ==
  /\ action \in ActionDoc /\ action.description # Absent
  /\ \A f \in FrameIds : action.frames[f] # Absent => FrameFrom(action.frames[f], entries[f])

DocFrom(doc, values, entries) ==
  /\ doc \in PropDoc
  /\ \E v \in values : ParseValues(v) \in Seq(Numbers) /\ Hold(doc.slots, ParseValues(v))
  /\ \A a \in ActionNames :
       doc.actions[a] # Absent => ActionFrom(doc.actions[a], entries[a])

\* What is in the body of an action, and of a property, for each keyframe.
Lists(body, entries) ==
  \A f \in FrameIds : f \in Numbered(body.keyframes) =>
                    EntriesOf(body.keyframes, f) \in entries[f]

LEMMA NewFrameFrom ==
  ASSUME NEW S, NEW e \in S, e \in Seq(Entry)
  PROVE  FrameFrom(NewFrame(ParseFrame(e)), S)
<1>1. Whole(ParseFrame(e))
  BY ParsedFrame
<1>2. /\ FrameSlots(ParseFrame(e)) \in Slots
      /\ HoldFrame(FrameSlots(ParseFrame(e)), ParseFrame(e))
  BY <1>1, FrameWritten
<1>3. NewFrame(ParseFrame(e)) = [numbered |-> TRUE, slots |-> FrameSlots(ParseFrame(e))]
  BY DEF NewFrame
<1> QED
  BY <1>1, <1>2, <1>3 DEF FrameFrom, FrameDoc

LEMMA UpdatedFrameFrom ==
  ASSUME NEW S, NEW e \in S, e \in Seq(Entry), NEW frame \in FrameDoc, frame.numbered
  PROVE  FrameFrom([frame EXCEPT !.slots = UpdateSlots(@, ParseFrame(e))], S)
<1>1. Whole(ParseFrame(e))
  BY ParsedFrame
<1> DEFINE new == UpdateSlots(frame.slots, ParseFrame(e))
<1>2. new \in Slots /\ HoldFrame(new, ParseFrame(e))
  BY <1>1, FrameUpdated DEF FrameDoc
<1> HIDE DEF new
<1>3. /\ [frame EXCEPT !.slots = new] \in FrameDoc
      /\ [frame EXCEPT !.slots = new].numbered
      /\ [frame EXCEPT !.slots = new].slots = new
  BY <1>2 DEF FrameDoc
<1> QED
  BY <1>1, <1>2, <1>3 DEF FrameFrom, new

\* The body of a keyframe without its number is read as one without entries.
SentEntries(body) == IF body.numbered THEN body.entries ELSE <<>>

LEMMA FrameBodyParsed ==
  ASSUME NEW body, body.numbered \in BOOLEAN, body.entries \in Seq(Entry)
  PROVE  /\ SentEntries(body) \in Seq(Entry)
         /\ ParseFrameBody(body) = ParseFrame(SentEntries(body))
<1>1. <<>> \in Seq(Entry)
  OBVIOUS
<1>2. ParseFrame(<<>>) = EmptyFrame
  <2>1. ParseValues(<<>>) \in Seq(Numbers) /\ Len(ParseValues(<<>>)) <= Len(<<>>)
    BY <1>1, ParsedValues DEF Entry
  <2>2. ParseValues(<<>>) = <<>>
    BY <2>1
  <2> QED
    BY <2>2 DEF ParseFrame, EmptyFrame
<1> QED
  BY <1>1, <1>2 DEF ParseFrameBody, SentEntries

LEMMA CreatedActionFrom ==
  ASSUME NEW S, NEW body \in ActionBodies, Lists(body, S)
  PROVE  ActionFrom(CreateAction(body), S)
<1> DEFINE new(f) == NewFrame(ParseFrame(EntriesOf(body.keyframes, f)))
           frame(f) == IF f \in Numbered(body.keyframes) THEN new(f) ELSE Absent
<1>1. CreateAction(body) = [description |-> body.description,
                            frames |-> [f \in FrameIds |-> frame(f)]]
  BY Zenon DEF CreateAction
<1>2. body.description \in Texts \union {NoText} /\ body.keyframes \in Seq(KeyframeBodies)
  BY DEF ActionBodies
<1>3. ASSUME NEW f \in FrameIds, f \in Numbered(body.keyframes)
      PROVE  FrameFrom(new(f), S[f])
  <2>1. EntriesOf(body.keyframes, f) \in Seq(Entry)
    BY <1>2, EntriesType
  <2>2. EntriesOf(body.keyframes, f) \in S[f]
    BY <1>3 DEF Lists
  <2> QED
    BY <2>1, <2>2, NewFrameFrom
<1> HIDE DEF new
<1>4. \A f \in FrameIds : /\ frame(f) \in FrameDoc \union {Absent}
                          /\ frame(f) # Absent => FrameFrom(frame(f), S[f])
  BY <1>3 DEF FrameFrom
<1> HIDE DEF frame
<1>5. CreateAction(body) \in ActionDoc
  BY <1>1, <1>2, <1>4 DEF ActionDoc
<1>6. body.description # Absent
  BY <1>2, PropertyAssumption
<1> QED
  BY <1>1, <1>4, <1>5, <1>6 DEF ActionFrom

LEMMA CreatedDocFrom ==
  ASSUME NEW V, NEW S, NEW body \in PropBodies, body.values \in V,
         \A a \in ActionNames : body.actions[a] # Absent => Lists(body.actions[a], S[a])
  PROVE  DocFrom(CreateDoc(body), V, S)
<1> DEFINE values == ParseValues(body.values)
           action(a) == IF body.actions[a] = Absent THEN Absent
                        ELSE CreateAction(body.actions[a])
<1>1. CreateDoc(body) = [scene |-> body.scene, slots |-> ValueSlots(values),
                         actions |-> [a \in ActionNames |-> action(a)]]
  BY Zenon DEF CreateDoc
<1>2. /\ body.scene \in Scenes \union {NoScene}
      /\ body.values \in Seq([value : Numbers, double : BOOLEAN])
      /\ body.actions \in [ActionNames -> ActionBodies \union {Absent}]
  BY DEF PropBodies
<1>3. values \in Seq(Numbers)
  BY <1>2, ParsedValues
<1>4. ValueSlots(values) \in Slots /\ Hold(ValueSlots(values), values)
  BY <1>3, ValuesWritten
<1>5. \A a \in ActionNames : /\ action(a) \in ActionDoc \union {Absent}
                             /\ action(a) # Absent => ActionFrom(action(a), S[a])
  <2> TAKE a \in ActionNames
  <2>1. CASE body.actions[a] = Absent
    BY <2>1
  <2>2. CASE body.actions[a] # Absent
    <3>1. body.actions[a] \in ActionBodies /\ Lists(body.actions[a], S[a])
      BY <1>2, <2>2
    <3>2. ActionFrom(CreateAction(body.actions[a]), S[a])
      BY <3>1, CreatedActionFrom
    <3> QED
      BY <2>2, <3>2 DEF ActionFrom
  <2> QED
    BY <2>1, <2>2
<1> HIDE DEF values, action
<1>6. CreateDoc(body) \in PropDoc
  BY <1>1, <1>2, <1>4, <1>5 DEF PropDoc
<1>7. \E v \in V : ParseValues(v) \in Seq(Numbers) /\ Hold(CreateDoc(body).slots, ParseValues(v))
  BY <1>1, <1>3, <1>4 DEF values
<1> QED
  BY <1>1, <1>5, <1>6, <1>7 DEF DocFrom

LEMMA UpdatedDocFrom ==
  ASSUME NEW V, NEW S, NEW doc, DocFrom(doc, V, S),
         NEW body \in PropBodies, body.values \in V
  PROVE  DocFrom(UpdateDoc(doc, body), V, S)
<1> DEFINE values == ParseValues(body.values)
           slots == ValueSlots(values)
<1>1. /\ body.scene \in Scenes \union {NoScene}
      /\ body.values \in Seq([value : Numbers, double : BOOLEAN])
  BY DEF PropBodies
<1>2. values \in Seq(Numbers)
  BY <1>1, ParsedValues
<1>3. slots \in Slots /\ Hold(slots, values)
  BY <1>2, ValuesWritten
<1> HIDE DEF slots
<1>4. UpdateDoc(doc, body) = [doc EXCEPT !.scene = body.scene, !.slots = slots]
  BY DEF UpdateDoc, slots
<1> HIDE DEF values
<1>5. /\ UpdateDoc(doc, body) \in PropDoc
      /\ UpdateDoc(doc, body).slots = slots
      /\ UpdateDoc(doc, body).actions = doc.actions
  BY <1>1, <1>3, <1>4 DEF DocFrom, PropDoc
<1>6. \E v \in V : ParseValues(v) \in Seq(Numbers)
                   /\ Hold(UpdateDoc(doc, body).slots, ParseValues(v))
  BY <1>2, <1>3, <1>5 DEF values
<1> QED
  BY <1>5, <1>6 DEF DocFrom

LEMMA SetActionFrom ==
  ASSUME NEW V, NEW S, NEW doc, DocFrom(doc, V, S), NEW a \in ActionNames,
         NEW action, action = Absent \/ ActionFrom(action, S[a])
  PROVE  DocFrom(SetAction(doc, a, action), V, S)
<1> DEFINE new == SetAction(doc, a, action)
<1>1. doc \in PropDoc /\ action \in ActionDoc \union {Absent}
  BY DEF DocFrom, ActionFrom
<1>2. /\ new \in PropDoc /\ new.slots = doc.slots /\ new.actions[a] = action
      /\ \A b \in ActionNames : b # a => new.actions[b] = doc.actions[b]
  BY <1>1 DEF SetAction, PropDoc
<1> HIDE DEF new
<1>3. \A b \in ActionNames : new.actions[b] # Absent => ActionFrom(new.actions[b], S[b])
  BY <1>2 DEF DocFrom
<1>4. \E v \in V : ParseValues(v) \in Seq(Numbers) /\ Hold(new.slots, ParseValues(v))
  BY <1>2 DEF DocFrom
<1>5. DocFrom(new, V, S)
  BY <1>2, <1>3, <1>4 DEF DocFrom
<1> QED
  BY <1>5 DEF new

LEMMA SetFrameFrom ==
  ASSUME NEW V, NEW S, NEW doc, DocFrom(doc, V, S), NEW a \in ActionNames,
         ActionExists(doc, a), NEW f \in FrameIds,
         NEW frame, frame = Absent \/ FrameFrom(frame, S[a][f])
  PROVE  DocFrom(SetFrame(doc, a, f, frame), V, S)
<1> DEFINE old == doc.actions[a]
           new == [old EXCEPT !.frames[f] = frame]
<1>1. ActionFrom(old, S[a])
  BY DEF DocFrom, ActionExists
<1>2. old \in ActionDoc /\ frame \in FrameDoc \union {Absent}
  BY <1>1 DEF ActionFrom, FrameFrom
<1>3. /\ new \in ActionDoc /\ new.description = old.description /\ new.frames[f] = frame
      /\ \A g \in FrameIds : g # f => new.frames[g] = old.frames[g]
  BY <1>2 DEF ActionDoc
<1>4. SetFrame(doc, a, f, frame) = SetAction(doc, a, new)
  BY DEF SetFrame, ActionAt, ActionExists
<1> HIDE DEF new
<1>5. ActionFrom(new, S[a])
  BY <1>1, <1>3 DEF ActionFrom
<1> QED
  BY <1>4, <1>5, SetActionFrom

LEMMA DescribedActionFrom ==
  ASSUME NEW V, NEW S, NEW doc, DocFrom(doc, V, S), NEW a \in ActionNames,
         ActionExists(doc, a), NEW text \in Texts
  PROVE  DocFrom(DescribeAction(doc, a, text), V, S)
<1> DEFINE old == doc.actions[a]
           new == [old EXCEPT !.description = text]
<1>1. ActionFrom(old, S[a])
  BY DEF DocFrom, ActionExists
<1>2. new \in ActionDoc /\ new.description = text /\ new.frames = old.frames
  BY <1>1 DEF ActionFrom, ActionDoc
<1>3. DescribeAction(doc, a, text) = SetAction(doc, a, new)
  BY DEF DescribeAction, ActionAt, ActionExists
<1> HIDE DEF new
<1>4. ActionFrom(new, S[a])
  BY <1>1, <1>2, PropertyAssumption DEF ActionFrom
<1> QED
  BY <1>3, <1>4, SetActionFrom

\* It does not matter what else was sent.
LEMMA MoreSent ==
  ASSUME NEW doc, NEW V, NEW S, DocFrom(doc, V, S), NEW V2, NEW S2, V \subseteq V2,
         \A a \in ActionNames, f \in FrameIds : S[a][f] \subseteq S2[a][f]
  PROVE  DocFrom(doc, V2, S2)
<1>1. ASSUME NEW a \in ActionNames, NEW action, ActionFrom(action, S[a])
      PROVE  ActionFrom(action, S2[a])
  <2>1. ASSUME NEW f \in FrameIds, NEW frame, FrameFrom(frame, S[a][f])
        PROVE  FrameFrom(frame, S2[a][f])
    BY <2>1, Zenon DEF FrameFrom
  <2> QED
    BY <1>1, <2>1, Zenon DEF ActionFrom
<1> QED
  BY <1>1, Zenon DEF DocFrom

-----------------------------------------------------------------------------
\* A response as far as it does not depend on what a record holds.
ResponseShape(x) ==
  \E S : x \in [success : BOOLEAN, code : Codes, error : BOOLEAN, records : Seq(S)]

ShapeInv ==
  /\ call \in [Requests -> Calls]
  /\ pc \in [Requests -> {"idle", "running", "fetching", "returned"}]
  /\ attempts \in [Requests -> 0 .. MaxRetries]
  /\ response = [r \in Requests |-> response[r]]
  /\ \A r \in Requests : ResponseShape(response[r])
  /\ seen \in [Requests -> SUBSET Keys]
  /\ due \in [Requests -> SUBSET Keys]
  /\ applied \in [Requests -> Nat]

LoopInv(r) ==
  /\ pc[r] # "returned" => attempts[r] < MaxRetries
  /\ pc[r] = "fetching" => call[r].op = "query"

\* A call that changes a document has not done so before it returns.
AnswerInv(r) ==
  call[r].op \notin Reads =>
    /\ pc[r] # "returned" => applied[r] = 0 /\ ~response[r].success
    /\ pc[r] = "returned" =>
         /\ response[r].success => applied[r] = 1
         /\ ~response[r].success /\ response[r].code = "NOT_FOUND" => applied[r] = 0
         /\ applied[r] <= 1

\* The cursor of an attempt has returned no more than one document above the limit.
SeenInv(r) ==
  call[r].op = "query" /\ pc[r] = "fetching" =>
    IsFiniteSet(seen[r]) /\ Cardinality(seen[r]) <= call[r].max + 1

\* What the cursor has returned is in the list.
CursorInv(r) ==
  call[r].op = "query" =>
    /\ pc[r] = "fetching" => seen[r] \subseteq FoundKeys(r)
    /\ pc[r] = "returned" =>
         \/ response[r].error
         \/ attempts[r] = MaxRetries
         \/ Cardinality(FoundKeys(r)) > call[r].max
         \/ due[r] \subseteq FoundKeys(r)

Sound(r) == LoopInv(r) /\ AnswerInv(r) /\ SeenInv(r) /\ CursorInv(r)

Inv == ShapeInv /\ \A r \in Requests : Sound(r)

-----------------------------------------------------------------------------
LEMMA CallFacts ==
  ASSUME NEW c \in Calls, c.op = "query"
  PROVE  c.max \in Nat
BY PropertyAssumption DEF WellFormedCall, KeyOps, ActionOps

\* What Append does to a list.
LEMMA AppendFacts ==
  ASSUME NEW S, NEW s \in Seq(S), NEW e
  PROVE  /\ Append(s, e) \in Seq(S \union {e})
         /\ Len(Append(s, e)) = Len(s) + 1 /\ Len(s) \in Nat
         /\ DOMAIN s = 1 .. Len(s)
         /\ DOMAIN Append(s, e) = 1 .. Len(s) + 1
         /\ \A i \in DOMAIN s : Append(s, e)[i] = s[i]
         /\ Append(s, e)[Len(s) + 1] = e
<1>1. s \in Seq(S \union {e})
  OBVIOUS
<1> QED
  BY <1>1

LEMMA RecordsFinite ==
  ASSUME ShapeInv, NEW r \in Requests
  PROVE  /\ Len(response[r].records) \in Nat
         /\ IsFiniteSet(FoundKeys(r)) /\ Cardinality(FoundKeys(r)) \in Nat
<1> DEFINE list == response[r].records
<1>1. PICK S : list \in Seq(S)
  BY DEF ShapeInv, ResponseShape
<1>2. Len(list) \in Nat /\ DOMAIN list = 1 .. Len(list)
  BY <1>1
<1>3. IsFiniteSet(DOMAIN list)
  BY <1>2, FS_Interval
<1>4. [i \in DOMAIN list |-> list[i].key] \in Surjection(DOMAIN list, FoundKeys(r))
  BY DEF FoundKeys, Surjection
<1>5. IsFiniteSet(FoundKeys(r))
  BY <1>3, <1>4, FS_Surjection
<1> QED
  BY <1>2, <1>5, FS_CardinalityType

-----------------------------------------------------------------------------
(***************************************************************************)
(* A step of request r: what it does to the response, and to the loop.     *)
(***************************************************************************)
Answered(r) ==
  /\ response' = [s \in Requests |-> response'[s]]
  /\ \A s \in Requests : s # r => response'[s] = response[s]
  /\ ResponseShape(response'[r])

LEMMA FieldUpdates ==
  ASSUME ShapeInv, NEW r \in Requests
  PROVE  /\ response' = [response EXCEPT ![r].success = TRUE] =>
              /\ Answered(r) /\ response'[r].success
              /\ response'[r].records = response[r].records
         /\ response' = [response EXCEPT ![r].error = TRUE] =>
              /\ Answered(r) /\ response'[r].error
              /\ response'[r].success = response[r].success
              /\ response'[r].code = response[r].code
              /\ response'[r].records = response[r].records
         /\ \A c \in Codes : Fail(r, c) =>
              /\ Answered(r) /\ response'[r].code = c
              /\ response'[r].success = response[r].success
              /\ response'[r].records = response[r].records
         /\ response' = response => Answered(r)
<1>1. PICK S : response[r] \in [success : BOOLEAN, code : Codes, error : BOOLEAN,
                                records : Seq(S)]
  BY DEF ShapeInv, ResponseShape
<1>2. /\ [response[r] EXCEPT !.success = TRUE].success
      /\ [response[r] EXCEPT !.success = TRUE].records = response[r].records
      /\ ResponseShape([response[r] EXCEPT !.success = TRUE])
  BY <1>1 DEF ResponseShape
<1>3. LET x == [response[r] EXCEPT !.error = TRUE] IN
      /\ x.error /\ x.success = response[r].success /\ x.code = response[r].code
      /\ x.records = response[r].records
      /\ ResponseShape(x)
  BY <1>1 DEF ResponseShape
<1>4. ASSUME NEW c \in Codes
      PROVE  LET x == [response[r] EXCEPT !.code = c, !.error = TRUE] IN
             /\ x.code = c /\ x.success = response[r].success
             /\ x.records = response[r].records
             /\ ResponseShape(x)
  BY <1>1 DEF ResponseShape
<1>5. ASSUME NEW x, response' = [response EXCEPT ![r] = x]
      PROVE  /\ response' = [s \in Requests |-> response'[s]]
             /\ \A s \in Requests : s # r => response'[s] = response[s]
             /\ response'[r] = x
  <2>1. DOMAIN response = Requests
    BY Zenon DEF ShapeInv
  <2> QED
    BY <1>5, <2>1
<1>6. ASSUME response' = [response EXCEPT ![r].success = TRUE]
      PROVE  /\ Answered(r) /\ response'[r].success
             /\ response'[r].records = response[r].records
  <2>1. response' = [response EXCEPT ![r] = [response[r] EXCEPT !.success = TRUE]]
    BY <1>6
  <2> QED
    BY <1>2, <1>5, <2>1 DEF Answered
<1>7. ASSUME response' = [response EXCEPT ![r].error = TRUE]
      PROVE  /\ Answered(r) /\ response'[r].error
             /\ response'[r].success = response[r].success
             /\ response'[r].code = response[r].code
             /\ response'[r].records = response[r].records
  <2>1. response' = [response EXCEPT ![r] = [response[r] EXCEPT !.error = TRUE]]
    BY <1>7
  <2> QED
    BY <1>3, <1>5, <2>1 DEF Answered
<1>8. ASSUME NEW c \in Codes, Fail(r, c)
      PROVE  /\ Answered(r) /\ response'[r].code = c
             /\ response'[r].success = response[r].success
             /\ response'[r].records = response[r].records
  <2>1. response' = [response EXCEPT ![r] =
                      [response[r] EXCEPT !.code = c, !.error = TRUE]]
    BY <1>8 DEF Fail
  <2> QED
    BY <1>4, <1>5, <2>1 DEF Answered
<1>9. ASSUME response' = response
      PROVE  Answered(r)
  BY <1>9 DEF Answered, ShapeInv
<1> QED
  BY <1>6, <1>7, <1>8, <1>9

LEMMA RecordAdded ==
  ASSUME ShapeInv, NEW r \in Requests, NEW k, AddRecord(r, k)
  PROVE  /\ Answered(r)
         /\ response'[r].success = response[r].success
         /\ Len(response'[r].records) = Len(response[r].records) + 1
         /\ {response'[r].records[i].key : i \in DOMAIN response'[r].records}
              = FoundKeys(r) \union {k}
<1> DEFINE list == response[r].records
           new == Append(list, Record(k))
<1>1. PICK S : response[r] \in [success : BOOLEAN, code : Codes, error : BOOLEAN,
                                records : Seq(S)]
  BY DEF ShapeInv, ResponseShape
<1>2. list \in Seq(S)
  BY <1>1
<1>3. /\ new \in Seq(S \union {Record(k)})
      /\ Len(new) = Len(list) + 1 /\ Len(list) \in Nat
      /\ DOMAIN list = 1 .. Len(list) /\ DOMAIN new = 1 .. Len(list) + 1
      /\ \A i \in DOMAIN list : new[i] = list[i]
      /\ new[Len(list) + 1] = Record(k)
  BY <1>2, AppendFacts
<1> HIDE DEF new
<1>4. response' = [response EXCEPT ![r] = [response[r] EXCEPT !.records = new]]
  BY DEF AddRecord, new
<1>5. /\ [response[r] EXCEPT !.records = new] \in
           [success : BOOLEAN, code : Codes, error : BOOLEAN,
            records : Seq(S \union {Record(k)})]
      /\ [response[r] EXCEPT !.records = new].records = new
      /\ [response[r] EXCEPT !.records = new].success = response[r].success
  BY <1>1, <1>3
<1>6. /\ response' = [s \in Requests |-> response'[s]]
      /\ \A s \in Requests : s # r => response'[s] = response[s]
      /\ response'[r] = [response[r] EXCEPT !.records = new]
  BY <1>4 DEF ShapeInv
<1>7. {new[i].key : i \in DOMAIN new} = FoundKeys(r) \union {k}
  <2>1. \A i \in DOMAIN new : i \in DOMAIN list \/ i = Len(list) + 1
    BY <1>3
  <2>2. DOMAIN list \subseteq DOMAIN new /\ Len(list) + 1 \in DOMAIN new
    BY <1>3
  <2>3. Record(k).key = k
    BY DEF Record
  <2> QED
    BY <1>3, <2>1, <2>2, <2>3 DEF FoundKeys
<1> QED
  BY <1>3, <1>5, <1>6, <1>7 DEF Answered, ResponseShape

\* How the loop goes on.
LEMMA LoopEnds ==
  ASSUME ShapeInv, NEW r \in Requests, pc[r] \in {"running", "fetching"}, LoopInv(r),
         Retry(r) \/ Leave(r)
  PROVE  /\ pc' \in [Requests -> {"idle", "running", "fetching", "returned"}]
         /\ attempts' \in [Requests -> 0 .. MaxRetries]
         /\ \A s \in Requests : s # r => pc'[s] = pc[s] /\ attempts'[s] = attempts[s]
         /\ pc'[r] \in {"running", "returned"}
         /\ pc'[r] = "running" => attempts'[r] < MaxRetries
         /\ attempts[r] \in Nat
         /\ Retry(r) => attempts'[r] = attempts[r] + 1
         /\ Retry(r) /\ pc'[r] = "returned" => attempts'[r] = MaxRetries
         /\ Leave(r) => pc'[r] = "returned" /\ attempts'[r] = attempts[r]
BY PropertyAssumption DEF ShapeInv, LoopInv, Retry, Leave, Goto

\* The others do not notice, but that a document which no longer matches is no
\* longer due.
LEMMA OthersStaySound ==
  ASSUME Inv, NEW r \in Requests, NEW s \in Requests, s # r, UNCHANGED call, Answered(r),
         pc'[s] = pc[s], attempts'[s] = attempts[s], seen'[s] = seen[s],
         applied'[s] = applied[s], due'[s] \subseteq due[s]
  PROVE  Sound(s)'
<1>1. response'[s] = response[s] /\ Sound(s)
  BY DEF Answered, Inv
<1>2. FoundKeys(s)' = FoundKeys(s)
  BY <1>1 DEF FoundKeys
<1>3. LoopInv(s)' /\ AnswerInv(s)' /\ SeenInv(s)'
  BY <1>1, <1>2 DEF Sound, LoopInv, AnswerInv, SeenInv
<1>4. CursorInv(s)'
  <2>1. CursorInv(s) /\ due'[s] \subseteq due[s]
    BY <1>1 DEF Sound
  <2> QED
    BY <1>1, <1>2, <2>1, SMTT(30) DEF CursorInv
<1> QED
  BY <1>3, <1>4 DEF Sound

-----------------------------------------------------------------------------
(***************************************************************************)
(* The steps.                                                              *)
(***************************************************************************)
\* A call that is not a read ends an attempt in one of four ways.
Changes(r) == (\E k, doc : Write(r, k, doc)) /\ Executed(r)
Misses(r)  == /\ Fail(r, "NOT_FOUND") /\ (Retry(r) \/ Leave(r))
              /\ UNCHANGED <<due, applied>>
Fails(r)   == /\ Fail(r, "PROCESSING_ERROR") /\ Leave(r)
              /\ UNCHANGED <<due, applied>>

LEMMA ChangingSteps ==
  ASSUME NEW r \in Requests,
         \/ CreateProperty(r) \/ UpdateProperty(r) \/ CreatePropertyAction(r)
         \/ UpdatePropertyAction(r) \/ RefuseEmptyUpdate(r) \/ DeletePropertyAction(r)
         \/ CreateKeyframe(r) \/ UpdateKeyframe(r) \/ DeleteKeyframe(r)
         \/ DeleteProperty(r) \/ Refused(r)
  PROVE  /\ pc[r] = "running" /\ call[r].op \notin Reads /\ UNCHANGED <<call, seen>>
         /\ Changes(r) \/ Misses(r) \/ Fails(r)
BY DEF CreateProperty, UpdateProperty, CreatePropertyAction, UpdatePropertyAction,
       RefuseEmptyUpdate, DeletePropertyAction, CreateKeyframe, UpdateKeyframe,
       DeleteKeyframe, DeleteProperty, Refused, Attempts, UpdateOne, LeaveAfterException,
       Reads, Changes, Misses, Fails

LEMMA ChangesKeep ==
  ASSUME Inv, NEW r \in Requests, pc[r] = "running", call[r].op \notin Reads,
         UNCHANGED <<call, seen>>, Changes(r) \/ Misses(r) \/ Fails(r)
  PROVE  Inv'
<1>1. ShapeInv /\ Sound(r)
  BY DEF Inv
<1>2. applied[r] = 0 /\ ~response[r].success
  BY <1>1 DEF Sound, AnswerInv
<1>3. Answered(r) /\ (Retry(r) \/ Leave(r))
  BY <1>1, FieldUpdates
  DEF Changes, Misses, Fails, Executed, LeaveAfterException, Codes
<1>4. /\ pc' \in [Requests -> {"idle", "running", "fetching", "returned"}]
      /\ attempts' \in [Requests -> 0 .. MaxRetries]
      /\ \A s \in Requests : s # r => pc'[s] = pc[s] /\ attempts'[s] = attempts[s]
      /\ pc'[r] \in {"running", "returned"}
      /\ pc'[r] = "running" => attempts'[r] < MaxRetries
      /\ Leave(r) => pc'[r] = "returned"
  BY <1>1, <1>3, LoopEnds DEF Sound
<1>5. /\ due' \in [Requests -> SUBSET Keys]
      /\ applied' \in [Requests -> Nat]
      /\ \A s \in Requests : s # r => due'[s] \subseteq due[s] /\ applied'[s] = applied[s]
  <2>1. CASE Changes(r)
    <3>1. PICK k, doc : Write(r, k, doc)
      BY <2>1 DEF Changes
    <3> QED
      BY <1>1, <3>1 DEF Write, ShapeInv
  <2>2. CASE Misses(r) \/ Fails(r)
    BY <1>1, <2>2 DEF Misses, Fails, ShapeInv
  <2> QED
    BY <2>1, <2>2
<1>6. ShapeInv'
  BY <1>1, <1>3, <1>4, <1>5 DEF ShapeInv, Answered
<1>7. AnswerInv(r)'
  <2>1. CASE Changes(r)
    <3>1. applied'[r] = 1
      BY <1>1, <1>2, <2>1 DEF Changes, Write, ShapeInv
    <3>2. Leave(r) /\ (response'[r].success \/ response'[r].code = "PROCESSING_ERROR")
      BY <1>1, <2>1, FieldUpdates DEF Changes, Executed, LeaveAfterException, Codes
    <3> QED
      BY <1>4, <3>1, <3>2 DEF AnswerInv
  <2>2. CASE Misses(r) \/ Fails(r)
    <3>1. ~response'[r].success /\ applied'[r] = 0
      BY <1>1, <1>2, <2>2, FieldUpdates DEF Misses, Fails, Codes
    <3> QED
      BY <1>4, <3>1 DEF AnswerInv
  <2> QED
    BY <2>1, <2>2
<1>8. Sound(r)'
  BY <1>4, <1>7 DEF Sound, LoopInv, SeenInv, CursorInv, Reads
<1>9. \A s \in Requests : s # r => Sound(s)'
  BY <1>3, <1>4, <1>5, OthersStaySound
<1> QED
  BY <1>6, <1>8, <1>9 DEF Inv

\* A step that leaves the documents alone changes what is due to no one else.
LEMMA ReadKeeps ==
  ASSUME Inv, NEW r \in Requests, UNCHANGED <<call, applied>>, Answered(r),
         pc' \in [Requests -> {"idle", "running", "fetching", "returned"}],
         attempts' \in [Requests -> 0 .. MaxRetries],
         seen' \in [Requests -> SUBSET Keys], due' \in [Requests -> SUBSET Keys],
         \A s \in Requests : s # r =>
           /\ pc'[s] = pc[s] /\ attempts'[s] = attempts[s]
           /\ seen'[s] = seen[s] /\ due'[s] = due[s],
         Sound(r)'
  PROVE  Inv'
<1>1. ShapeInv'
  BY DEF Inv, ShapeInv, Answered
<1>2. \A s \in Requests : s # r => Sound(s)'
  BY OthersStaySound
<1> QED
  BY <1>1, <1>2 DEF Inv

LEMMA BeginKeeps ==
  ASSUME Inv, NEW r \in Requests, Begin(r)
  PROVE  Inv'
<1>1. /\ ShapeInv /\ Sound(r) /\ pc[r] = "idle" /\ pc' = [pc EXCEPT ![r] = "running"]
      /\ UNCHANGED <<call, attempts, response, seen, due, applied>>
  BY DEF Inv, Begin, Goto
<1>2. Answered(r) /\ pc'[r] = "running"
  BY <1>1, FieldUpdates DEF ShapeInv
<1>3. Sound(r)'
  BY <1>1, <1>2 DEF Sound, LoopInv, AnswerInv, SeenInv, CursorInv
<1> QED
  BY <1>1, <1>2, <1>3, ReadKeeps DEF ShapeInv

LEMMA GetKeeps ==
  ASSUME Inv, NEW r \in Requests, GetProperty(r)
  PROVE  Inv'
<1>1. /\ ShapeInv /\ Sound(r) /\ pc[r] = "running" /\ call[r].op = "get" /\ Leave(r)
      /\ UNCHANGED <<call, seen, due, applied>>
  BY DEF Inv, GetProperty, Attempts
<1>2. Answered(r)
  BY <1>1, FieldUpdates, RecordAdded DEF GetProperty, Codes
<1>3. pc'[r] = "returned"
  BY <1>1 DEF Leave, Goto, ShapeInv
<1>4. Sound(r)'
  BY <1>1, <1>3 DEF Sound, LoopInv, AnswerInv, SeenInv, CursorInv, Reads
<1> QED
  BY <1>1, <1>2, <1>4, LoopEnds, ReadKeeps DEF Sound, ShapeInv

LEMMA QueryFacts ==
  ASSUME ShapeInv, NEW r \in Requests, call[r].op = "query"
  PROVE  call[r].max \in Nat /\ attempts[r] \in Nat
BY CallFacts, PropertyAssumption DEF ShapeInv

LEMMA OpenKeeps ==
  ASSUME Inv, NEW r \in Requests, OpenCursor(r)
  PROVE  Inv'
<1>1. /\ ShapeInv /\ Sound(r) /\ pc[r] = "running" /\ call[r].op = "query"
      /\ pc' = [pc EXCEPT ![r] = "fetching"]
      /\ seen' = [seen EXCEPT ![r] = {}] /\ due' = [due EXCEPT ![r] = Matching(r)]
      /\ UNCHANGED <<call, attempts, response, applied>>
  BY DEF Inv, OpenCursor, Attempts, Goto
<1>2. Answered(r) /\ pc'[r] = "fetching" /\ seen'[r] = {}
  BY <1>1, FieldUpdates DEF ShapeInv
<1>3. SeenInv(r)'
  <2>1. call'[r] = call[r] /\ call[r].max \in Nat
    BY <1>1, QueryFacts
  <2>2. IsFiniteSet(seen'[r]) /\ Cardinality(seen'[r]) = 0
    BY <1>2, FS_EmptySet
  <2> QED
    BY <2>1, <2>2 DEF SeenInv
<1>4. Sound(r)'
  BY <1>1, <1>2, <1>3 DEF Sound, LoopInv, AnswerInv, CursorInv, Reads
<1> QED
  BY <1>1, <1>2, <1>4, ReadKeeps DEF ShapeInv, Matching

LEMMA FetchKeeps ==
  ASSUME Inv, NEW r \in Requests, Fetch(r)
  PROVE  Inv'
<1>1. /\ ShapeInv /\ Sound(r) /\ pc[r] = "fetching" /\ call[r].op = "query"
      /\ UNCHANGED <<call, pc, attempts, due, applied>>
      /\ ~(Cardinality(seen[r]) > call[r].max)
  BY DEF Inv, Fetch, Sound, LoopInv, ProcessedEnough
<1>2. PICK k \in Keys \ seen[r] :
        AddRecord(r, k) /\ seen' = [seen EXCEPT ![r] = seen[r] \union {k}]
  BY DEF Fetch, Matching
<1>3. /\ Answered(r)
      /\ {response'[r].records[i].key : i \in DOMAIN response'[r].records}
           = FoundKeys(r) \union {k}
  BY <1>1, <1>2, RecordAdded
<1>4. seen'[r] = seen[r] \union {k} /\ seen' \in [Requests -> SUBSET Keys]
  BY <1>1, <1>2 DEF ShapeInv
<1>5. /\ IsFiniteSet(seen[r]) /\ Cardinality(seen[r]) \in Nat
      /\ seen[r] \subseteq FoundKeys(r)
  BY <1>1, FS_CardinalityType DEF Sound, SeenInv, CursorInv
<1>6. /\ IsFiniteSet(seen'[r]) /\ Cardinality(seen'[r]) = Cardinality(seen[r]) + 1
  BY <1>2, <1>4, <1>5, FS_AddElement
<1>7. SeenInv(r)'
  <2>1. call'[r] = call[r] /\ call[r].max \in Nat
    BY <1>1, QueryFacts
  <2>2. Cardinality(seen'[r]) <= call'[r].max + 1
    BY <1>1, <1>5, <1>6, <2>1
  <2> QED
    BY <1>6, <2>2 DEF SeenInv
<1>8. FoundKeys(r)' = FoundKeys(r) \union {k}
  BY <1>3 DEF FoundKeys
<1>9. CursorInv(r)'
  BY <1>1, <1>4, <1>5, <1>8 DEF CursorInv
<1>10. Sound(r)'
  BY <1>1, <1>7, <1>9 DEF Sound, LoopInv, AnswerInv, Reads
<1> QED
  BY <1>1, <1>2, <1>3, <1>4, <1>10, ReadKeeps DEF ShapeInv

\* An attempt of a query, or of a get, is over.
LEMMA AttemptsEndSoundly ==
  ASSUME Inv, NEW r \in Requests, pc[r] \in {"running", "fetching"},
         Retry(r) \/ Leave(r), UNCHANGED <<call, seen, due, applied>>, Answered(r),
         response'[r].records = response[r].records,
         response'[r].success = response[r].success,
         call[r].op \notin Reads => Retry(r) /\ response'[r].code = response[r].code,
         call[r].op = "query" /\ Leave(r) =>
           \/ response'[r].error
           \/ Cardinality(FoundKeys(r)) > call[r].max
           \/ due[r] \subseteq FoundKeys(r)
  PROVE  Inv'
<1>1. ShapeInv /\ Sound(r)
  BY DEF Inv
<1>2. /\ pc' \in [Requests -> {"idle", "running", "fetching", "returned"}]
      /\ attempts' \in [Requests -> 0 .. MaxRetries]
      /\ \A s \in Requests : s # r => pc'[s] = pc[s] /\ attempts'[s] = attempts[s]
      /\ pc'[r] \in {"running", "returned"}
      /\ pc'[r] = "running" => attempts'[r] < MaxRetries
      /\ attempts[r] \in Nat
      /\ Retry(r) => attempts'[r] = attempts[r] + 1
      /\ Retry(r) /\ pc'[r] = "returned" => attempts'[r] = MaxRetries
      /\ Leave(r) => pc'[r] = "returned" /\ attempts'[r] = attempts[r]
  BY <1>1, LoopEnds DEF Sound
<1>3. FoundKeys(r)' = FoundKeys(r)
  BY DEF FoundKeys
<1>4. CursorInv(r)'
  BY <1>1, <1>2, <1>3 DEF CursorInv
<1>5. AnswerInv(r)'
  <2>1. call[r].op \notin Reads =>
          ~response'[r].success /\ applied'[r] = 0
    BY <1>1 DEF Sound, AnswerInv
  <2> QED
    BY <2>1 DEF AnswerInv
<1>6. SeenInv(r)'
  BY <1>2 DEF SeenInv
<1>7. Sound(r)'
  BY <1>2, <1>4, <1>5, <1>6 DEF Sound, LoopInv
<1> QED
  BY <1>1, <1>2, <1>7, ReadKeeps DEF ShapeInv

LEMMA EndKeeps ==
  ASSUME Inv, NEW r \in Requests, EndQuery(r)
  PROVE  Inv'
<1>1. /\ ShapeInv /\ Sound(r) /\ pc[r] = "fetching" /\ call[r].op = "query" /\ Leave(r)
      /\ UNCHANGED <<call, response, seen, due, applied>>
      /\ Cardinality(seen[r]) > call[r].max \/ due[r] \subseteq seen[r]
  BY DEF Inv, EndQuery, Sound, LoopInv, ProcessedEnough
<1>2. Answered(r)
  BY <1>1, FieldUpdates
<1>3. /\ seen[r] \subseteq FoundKeys(r) /\ call[r].max \in Nat
      /\ IsFiniteSet(FoundKeys(r)) /\ Cardinality(FoundKeys(r)) \in Nat
      /\ Cardinality(seen[r]) \in Nat
      /\ Cardinality(seen[r]) <= Cardinality(FoundKeys(r))
  BY <1>1, QueryFacts, RecordsFinite, FS_Subset, FS_CardinalityType
  DEF Sound, CursorInv, SeenInv
<1>4. Cardinality(FoundKeys(r)) > call[r].max \/ due[r] \subseteq FoundKeys(r)
  BY <1>1, <1>3
<1>5. call[r].op \in Reads
  BY <1>1 DEF Reads
<1> QED
  BY <1>1, <1>2, <1>4, <1>5, AttemptsEndSoundly

LEMMA AbandonKeeps ==
  ASSUME Inv, NEW r \in Requests, AbandonQuery(r)
  PROVE  Inv'
<1>1. /\ ShapeInv /\ pc[r] \in {"running", "fetching"} /\ call[r].op \in Reads
      /\ Leave(r) /\ UNCHANGED <<call, seen, due, applied>>
      /\ response' = [response EXCEPT ![r].error = TRUE]
  BY DEF Inv, AbandonQuery, Reads, LeaveAfterException
<1>2. /\ Answered(r) /\ response'[r].error
      /\ response'[r].success = response[r].success
      /\ response'[r].records = response[r].records
  BY <1>1, FieldUpdates
<1> QED
  BY <1>1, <1>2, AttemptsEndSoundly

LEMMA InterruptedKeeps ==
  ASSUME Inv, NEW r \in Requests, Interrupted(r)
  PROVE  Inv'
<1>1. /\ ShapeInv /\ Sound(r) /\ pc[r] \in {"running", "fetching"} /\ Retry(r)
      /\ UNCHANGED <<call, seen, due, applied>>
      /\ response' = response \/ response' = [response EXCEPT ![r].error = TRUE]
  BY DEF Inv, Interrupted
<1>2. /\ Answered(r)
      /\ response'[r].success = response[r].success
      /\ response'[r].code = response[r].code
      /\ response'[r].records = response[r].records
  BY <1>1, FieldUpdates
<1>3. ~Leave(r)
  <2>1. attempts[r] \in Nat /\ DOMAIN attempts = Requests
    BY <1>1, PropertyAssumption DEF ShapeInv
  <2> QED
    BY <1>1, <2>1 DEF Retry, Leave
<1> QED
  BY <1>1, <1>2, <1>3, AttemptsEndSoundly

-----------------------------------------------------------------------------
LEMMA InvAlways == Spec => []Inv
<1>1. Init => Inv
  <2> SUFFICES ASSUME Init PROVE Inv
    OBVIOUS
  <2>1. ShapeInv
    <3>1. NoResponse \in [success : BOOLEAN, code : Codes, error : BOOLEAN,
                          records : Seq({})]
      BY DEF NoResponse, Codes
    <3> QED
      BY <3>1, PropertyAssumption DEF Init, ShapeInv, ResponseShape
  <2>2. ASSUME NEW r \in Requests PROVE Sound(r)
    <3>1. /\ pc[r] = "idle" /\ attempts[r] = 0 /\ applied[r] = 0
          /\ response[r] = NoResponse
      BY DEF Init
    <3> QED
      BY <3>1, PropertyAssumption
      DEF Sound, LoopInv, AnswerInv, SeenInv, CursorInv, NoResponse
  <2> QED
    BY <2>1, <2>2 DEF Inv
<1>2. Inv /\ [Next]_vars => Inv'
  <2> SUFFICES ASSUME Inv, [Next]_vars PROVE Inv'
    OBVIOUS
  <2>1. CASE UNCHANGED vars
    <3>1. ShapeInv'
      BY <2>1 DEF vars, Inv, ShapeInv
    <3>2. ASSUME NEW r \in Requests PROVE Sound(r)'
      <4>1. FoundKeys(r)' = FoundKeys(r)
        BY <2>1 DEF vars, FoundKeys
      <4>2. LoopInv(r)' /\ AnswerInv(r)' /\ SeenInv(r)'
        BY <2>1, <4>1 DEF vars, Inv, Sound, LoopInv, AnswerInv, SeenInv
      <4>3. CursorInv(r)'
        BY <2>1, <4>1 DEF vars, Inv, Sound, CursorInv
      <4> QED
        BY <4>2, <4>3 DEF Sound
    <3> QED
      BY <3>1, <3>2 DEF Inv
  <2>2. ASSUME NEW r \in Requests, Begin(r) \/ Step(r)
        PROVE  Inv'
    <3>1. CASE \/ CreateProperty(r) \/ UpdateProperty(r) \/ CreatePropertyAction(r)
               \/ UpdatePropertyAction(r) \/ RefuseEmptyUpdate(r)
               \/ DeletePropertyAction(r) \/ CreateKeyframe(r) \/ UpdateKeyframe(r)
               \/ DeleteKeyframe(r) \/ DeleteProperty(r) \/ Refused(r)
      BY <3>1, ChangingSteps, ChangesKeep
    <3> QED
      BY <2>2, <3>1, BeginKeeps, GetKeeps, OpenKeeps, FetchKeeps, EndKeeps, AbandonKeeps,
         InterruptedKeeps
      DEF Step
  <2> QED
    BY <2>1, <2>2 DEF Next, Terminated
<1> QED
  BY <1>1, <1>2, PTL DEF Spec

(***************************************************************************)
(* Whatever the calls, their number and the failures of their attempts, a  *)
(* success means that the document was changed once, NOT_FOUND that it was *)
(* not, and no call changes a document twice.                              *)
(***************************************************************************)
THEOREM AnswersAreTrue == Spec => []AnswersTrue
<1>1. Inv => AnswersTrue
  BY DEF Inv, Sound, AnswerInv, AnswersTrue
<1> QED
  BY <1>1, InvAlways, PTL

(***************************************************************************)
(* However many documents are changed under its cursor, a query that ends  *)
(* without an error, within its limit and not by its last interruption     *)
(* misses none that has matched since the cursor was opened.               *)
(***************************************************************************)
THEOREM QueriesComplete == Spec => []QueryComplete
<1>1. Inv => QueryComplete
  <2> SUFFICES ASSUME Inv, NEW r \in Requests, pc[r] = "returned",
                      call[r].op = "query", ~response[r].error,
                      attempts[r] < MaxRetries,
                      Cardinality(FoundKeys(r)) <= call[r].max
               PROVE  due[r] \subseteq FoundKeys(r)
    BY DEF QueryComplete
  <2>1. /\ Cardinality(FoundKeys(r)) \in Nat /\ call[r].max \in Nat
        /\ attempts[r] \in Nat /\ MaxRetries \in Nat
    BY RecordsFinite, QueryFacts, PropertyAssumption DEF Inv
  <2>2. ~(Cardinality(FoundKeys(r)) > call[r].max) /\ attempts[r] # MaxRetries
    BY <2>1
  <2> QED
    BY <2>2 DEF Inv, Sound, CursorInv
<1> QED
  BY <1>1, InvAlways, PTL

-----------------------------------------------------------------------------
(***************************************************************************)
(* The documents: each is made from what the calls that have begun sent    *)
(* for it.                                                                 *)
(***************************************************************************)
Sent(k) == [a \in ActionNames |-> [f \in FrameIds |-> FramesSent(k, a, f)]]

StoreInv ==
  /\ store \in [Keys -> PropDoc \union {Absent}]
  /\ inserted \subseteq Keys
  /\ \A k \in Keys :
       store[k] # Absent => k \in inserted /\ DocFrom(store[k], ValuesSent(k), Sent(k))
  /\ \A r \in Requests : FoundKeys(r) \subseteq inserted

LEMMA CallTypes ==
  ASSUME NEW c \in Calls
  PROVE  /\ c.op = "create" => c.body \in PropBodies
         /\ c.op = "update" => c.key \in Keys /\ c.body \in PropBodies
         /\ c.op \in KeyOps \union ActionOps \union FrameOps => c.key \in Keys
         /\ c.op \in ActionOps \union FrameOps => c.action \in ActionNames
         /\ c.op \in {"action_create", "action_update"} => c.body \in ActionBodies
         /\ c.op \in FrameOps => c.frame \in FrameIds
         /\ c.op \in {"frame_create", "frame_update"} =>
              c.body.numbered \in BOOLEAN /\ c.body.entries \in Seq(Entry)
<1>1. WellFormedCall(c)
  BY PropertyAssumption
<1> QED
  BY <1>1 DEF WellFormedCall, KeyOps, ActionOps, FrameOps

\* A call that has begun stays so and does not change.
Goes(r) ==
  /\ call' = call
  /\ \A q \in Requests : pc[q] # "idle" => pc'[q] # "idle"

LEMMA StepsGo ==
  ASSUME ShapeInv, NEW r \in Requests, Begin(r) \/ Step(r)
  PROVE  Goes(r) /\ (Step(r) => pc[r] # "idle")
<1>1. \A step : Goto(r, step) /\ step # "idle" /\ call' = call => Goes(r)
  BY DEF ShapeInv, Goto, Goes
<1>2. (Retry(r) \/ Leave(r)) /\ call' = call => Goes(r)
  BY <1>1 DEF Retry, Leave
<1>3. CASE \/ CreateProperty(r) \/ UpdateProperty(r) \/ CreatePropertyAction(r)
           \/ UpdatePropertyAction(r) \/ RefuseEmptyUpdate(r) \/ DeletePropertyAction(r)
           \/ CreateKeyframe(r) \/ UpdateKeyframe(r) \/ DeleteKeyframe(r)
           \/ DeleteProperty(r) \/ Refused(r)
  <2>1. pc[r] = "running" /\ UNCHANGED call /\ (Changes(r) \/ Misses(r) \/ Fails(r))
    BY <1>3, ChangingSteps
  <2>2. Retry(r) \/ Leave(r)
    BY <2>1 DEF Changes, Misses, Fails, Executed, LeaveAfterException
  <2> QED
    BY <1>2, <2>1, <2>2
<1>4. CASE GetProperty(r) \/ EndQuery(r) \/ AbandonQuery(r) \/ Interrupted(r)
  <2>1. pc[r] # "idle" /\ call' = call /\ (Retry(r) \/ Leave(r))
    BY <1>4 DEF GetProperty, EndQuery, AbandonQuery, Interrupted, Attempts,
                LeaveAfterException
  <2> QED
    BY <1>2, <2>1
<1>5. CASE OpenCursor(r)
  BY <1>1, <1>5 DEF OpenCursor, Attempts
<1>6. CASE Fetch(r)
  BY <1>6 DEF Fetch, Goes
<1>7. CASE Begin(r)
  <2>1. pc[r] = "idle" /\ Goes(r)
    BY <1>1, <1>7 DEF Begin
  <2> QED
    BY <1>3, <1>4, <1>5, <1>6, <2>1 DEF Step
<1> QED
  BY <1>3, <1>4, <1>5, <1>6, <1>7 DEF Step

LEMMA SentGrows ==
  ASSUME NEW r \in Requests, Goes(r), NEW k \in Keys
  PROVE  /\ ValuesSent(k) \subseteq ValuesSent(k)'
         /\ \A a \in ActionNames, f \in FrameIds : Sent(k)[a][f] \subseteq Sent(k)'[a][f]
<1>1. call' = call /\ \A q \in Requests : pc[q] # "idle" => pc'[q] # "idle"
  BY DEF Goes
<1>2. PropsSent \subseteq PropsSent'
  BY <1>1 DEF PropsSent, Begun
<1>3. ValuesSent(k) \subseteq ValuesSent(k)'
  BY <1>1, <1>2 DEF ValuesSent, Begun
<1>4. ASSUME NEW a \in ActionNames
      PROVE  ActionsSent(k, a) \subseteq ActionsSent(k, a)'
  BY <1>1, <1>2 DEF ActionsSent, Begun, About
<1>5. ASSUME NEW a \in ActionNames, NEW f \in FrameIds
      PROVE  FramesSent(k, a, f) \subseteq FramesSent(k, a, f)'
  BY <1>1, <1>4 DEF FramesSent, Begun, About
<1>6. ASSUME NEW a \in ActionNames, NEW f \in FrameIds
      PROVE  /\ Sent(k)[a][f] = FramesSent(k, a, f)
             /\ Sent(k)'[a][f] = FramesSent(k, a, f)'
  BY DEF Sent
<1> QED
  BY <1>3, <1>5, <1>6

\* The bodies of the calls that have begun have been sent.
LEMMA ActionSent ==
  ASSUME NEW k, NEW a \in ActionNames, NEW body \in ActionsSent(k, a)
  PROVE  Lists(body, Sent(k)[a])
<1>1. \A f \in FrameIds : Sent(k)[a][f] = FramesSent(k, a, f)
  BY DEF Sent
<1>2. \A f \in FrameIds : f \in Numbered(body.keyframes) =>
        EntriesOf(body.keyframes, f) \in FramesSent(k, a, f)
  BY DEF FramesSent
<1> QED
  BY <1>1, <1>2 DEF Lists

LEMMA PropSent ==
  ASSUME NEW k, NEW body \in PropsSent
  PROVE  /\ body.values \in ValuesSent(k)
         /\ \A a \in ActionNames :
              body.actions[a] # Absent => Lists(body.actions[a], Sent(k)[a])
<1>1. body.values \in ValuesSent(k)
  BY DEF ValuesSent
<1>2. \A a \in ActionNames : body.actions[a] # Absent => body.actions[a] \in ActionsSent(k, a)
  BY DEF ActionsSent
<1> QED
  BY <1>1, <1>2, ActionSent

LEMMA FrameSent ==
  ASSUME NEW r \in Requests, pc[r] # "idle", call[r].op \in {"frame_create", "frame_update"},
         call[r].action \in ActionNames, call[r].frame \in FrameIds
  PROVE  SentEntries(call[r].body) \in Sent(call[r].key)[call[r].action][call[r].frame]
<1> DEFINE k == call[r].key
           a == call[r].action
           f == call[r].frame
<1>1. Sent(k)[a][f] = FramesSent(k, a, f)
  BY DEF Sent
<1>2. r \in {q \in Begun({"frame_create", "frame_update"}) :
               About(q, k, a) /\ call[q].frame = f}
  BY DEF Begun, About
<1> QED
  BY <1>1, <1>2 DEF FramesSent, SentEntries

\* A step may replace a document by one made from what was sent for it, or remove
\* it.
StoreStep(r) ==
  \/ /\ \E k \in Keys : \E doc : /\ store' = [store EXCEPT ![k] = doc]
                                 /\ k \in inserted'
                                 /\ doc = Absent \/ DocFrom(doc, ValuesSent(k), Sent(k))
     /\ inserted \subseteq inserted' /\ inserted' \subseteq Keys
  \/ UNCHANGED <<store, inserted>>

LEMMA StoreKept ==
  ASSUME StoreInv, NEW r \in Requests, Goes(r), StoreStep(r),
         \A q \in Requests : FoundKeys(q)' \subseteq FoundKeys(q) \union inserted
  PROVE  StoreInv'
<1>1. /\ store' \in [Keys -> PropDoc \union {Absent}]
      /\ inserted \subseteq inserted' /\ inserted' \subseteq Keys
      /\ \A k \in Keys : store'[k] # Absent =>
           k \in inserted' /\ DocFrom(store'[k], ValuesSent(k), Sent(k))
  <2>1. CASE UNCHANGED <<store, inserted>>
    BY <2>1 DEF StoreInv
  <2>2. CASE ~UNCHANGED <<store, inserted>>
    <3>0. PICK k \in Keys : \E doc :
            /\ store' = [store EXCEPT ![k] = doc]
            /\ k \in inserted'
            /\ doc = Absent \/ DocFrom(doc, ValuesSent(k), Sent(k))
            /\ inserted \subseteq inserted' /\ inserted' \subseteq Keys
      BY <2>2, Zenon DEF StoreStep
    <3>1. PICK doc :
            /\ store' = [store EXCEPT ![k] = doc]
            /\ k \in inserted'
            /\ doc = Absent \/ DocFrom(doc, ValuesSent(k), Sent(k))
            /\ inserted \subseteq inserted' /\ inserted' \subseteq Keys
      BY <3>0
    <3>2. doc \in PropDoc \union {Absent}
      BY <3>1 DEF DocFrom
    <3> QED
      BY <3>1, <3>2 DEF StoreInv
  <2> QED
    BY <2>1, <2>2
<1>2. ASSUME NEW k \in Keys, store'[k] # Absent
      PROVE  DocFrom(store'[k], ValuesSent(k)', Sent(k)')
  <2>1. DocFrom(store'[k], ValuesSent(k), Sent(k))
    BY <1>1, <1>2
  <2> QED
    BY <2>1, SentGrows, MoreSent
<1>3. \A q \in Requests : FoundKeys(q)' \subseteq inserted'
  BY <1>1 DEF StoreInv
<1> QED
  BY <1>1, <1>2, <1>3 DEF StoreInv

\* The steps of calls that change documents.
LEMMA UpdateStores ==
  ASSUME StoreInv, NEW r \in Requests, call[r].key \in Keys,
         NEW matches, NEW doc, UpdateOne(r, matches, doc),
         Doc(r) # Absent /\ matches =>
           doc = Absent \/ DocFrom(doc, ValuesSent(call[r].key), Sent(call[r].key))
  PROVE  StoreStep(r)
<1> DEFINE k == call[r].key
<1>1. CASE store[k] # Absent /\ matches /\ doc # store[k]
  <2>1. store' = [store EXCEPT ![k] = doc] /\ inserted' = inserted
    BY <1>1 DEF UpdateOne, Write
  <2>2. k \in inserted /\ inserted \subseteq Keys
    BY <1>1 DEF StoreInv
  <2>3. doc = Absent \/ DocFrom(doc, ValuesSent(k), Sent(k))
    BY <1>1 DEF Doc
  <2> QED
    BY <2>1, <2>2, <2>3 DEF StoreStep
<1>2. CASE ~(store[k] # Absent /\ matches /\ doc # store[k])
  BY <1>2 DEF UpdateOne, StoreStep
<1> QED
  BY <1>1, <1>2

LEMMA PropertyStores ==
  ASSUME ShapeInv, StoreInv, NEW r \in Requests, CreateProperty(r) \/ UpdateProperty(r)
  PROVE  StoreStep(r)
<1>1. pc[r] = "running" /\ call[r] \in Calls
  BY DEF ShapeInv, CreateProperty, UpdateProperty, Attempts
<1>2. CASE CreateProperty(r)
  <2>1. call[r].op = "create" /\ call[r].body \in PropBodies
    BY <1>1, <1>2, CallTypes DEF CreateProperty, Attempts
  <2>2. call[r].body \in PropsSent
    BY <1>1, <2>1 DEF PropsSent, Begun
  <2>3. PICK k \in Keys \ inserted : /\ Write(r, k, CreateDoc(call[r].body))
                                     /\ inserted' = inserted \union {k}
    BY <1>2 DEF CreateProperty
  <2>4. DocFrom(CreateDoc(call[r].body), ValuesSent(k), Sent(k))
    BY <2>1, <2>2, PropSent, CreatedDocFrom
  <2> QED
    BY <2>3, <2>4 DEF StoreStep, Write, StoreInv
<1>3. CASE UpdateProperty(r)
  <2> DEFINE k == call[r].key
             body == call[r].body
  <2>1. call[r].op = "update" /\ k \in Keys /\ body \in PropBodies
    BY <1>1, <1>3, CallTypes DEF UpdateProperty, Attempts
  <2>2. r \in {q \in Begun({"update"}) : call[q].key = k}
    BY <1>1, <2>1 DEF Begun
  <2>3. body.values \in ValuesSent(k)
    BY <2>2 DEF ValuesSent
  <2>4. Doc(r) # Absent => DocFrom(UpdateDoc(Doc(r), body), ValuesSent(k), Sent(k))
    BY <2>1, <2>3, UpdatedDocFrom DEF StoreInv, Doc
  <2>5. UpdateOne(r, TRUE, UpdateDoc(Doc(r), body))
    BY <1>3 DEF UpdateProperty
  <2> QED
    BY <2>1, <2>4, <2>5, UpdateStores
<1> QED
  BY <1>2, <1>3

LEMMA ActionStores ==
  ASSUME ShapeInv, StoreInv, NEW r \in Requests,
         CreatePropertyAction(r) \/ UpdatePropertyAction(r) \/ DeletePropertyAction(r)
  PROVE  StoreStep(r)
<1> DEFINE k == call[r].key
           a == call[r].action
           body == call[r].body
           From(doc) == DocFrom(doc, ValuesSent(k), Sent(k))
<1>1. /\ pc[r] = "running" /\ call[r] \in Calls /\ call[r].op \in ActionOps
      /\ k \in Keys /\ a \in ActionNames
  BY CallTypes DEF ShapeInv, CreatePropertyAction, UpdatePropertyAction,
                   DeletePropertyAction, Attempts, ActionOps
<1>2. Doc(r) # Absent => From(Doc(r))
  BY <1>1 DEF StoreInv, Doc
<1>3. CASE CreatePropertyAction(r)
  <2>1. call[r].op = "action_create" /\ body \in ActionBodies
    BY <1>1, <1>3, CallTypes DEF CreatePropertyAction, Attempts
  <2>2. body \in ActionsSent(k, a)
    BY <1>1, <2>1 DEF ActionsSent, Begun, About
  <2>3. ActionFrom(CreateAction(body), Sent(k)[a])
    BY <1>1, <2>1, <2>2, ActionSent, CreatedActionFrom
  <2>4. Doc(r) # Absent => From(SetAction(Doc(r), a, CreateAction(body)))
    BY <1>1, <1>2, <2>3, SetActionFrom
  <2>5. UpdateOne(r, TRUE, SetAction(Doc(r), a, CreateAction(body)))
    BY <1>3 DEF CreatePropertyAction
  <2> QED
    BY <1>1, <2>4, <2>5, UpdateStores
<1>4. CASE UpdatePropertyAction(r)
  <2>1. body.description \in Texts
    <3>1. body \in ActionBodies /\ body.description # NoText
      BY <1>1, <1>4, CallTypes DEF UpdatePropertyAction, Attempts
    <3> QED
      BY <3>1 DEF ActionBodies
  <2>2. Doc(r) # Absent /\ ActionExists(Doc(r), a) =>
          From(DescribeAction(Doc(r), a, body.description))
    BY <1>1, <1>2, <2>1, DescribedActionFrom
  <2>3. UpdateOne(r, ActionExists(Doc(r), a), DescribeAction(Doc(r), a, body.description))
    BY <1>4 DEF UpdatePropertyAction
  <2> QED
    BY <1>1, <2>2, <2>3, UpdateStores
<1>5. CASE DeletePropertyAction(r)
  <2>1. Doc(r) # Absent => From(SetAction(Doc(r), a, Absent))
    BY <1>1, <1>2, SetActionFrom
  <2>2. UpdateOne(r, ActionExists(Doc(r), a), SetAction(Doc(r), a, Absent))
    BY <1>5 DEF DeletePropertyAction
  <2> QED
    BY <1>1, <2>1, <2>2, UpdateStores
<1> QED
  BY <1>3, <1>4, <1>5

LEMMA FrameStores ==
  ASSUME ShapeInv, StoreInv, NEW r \in Requests,
         CreateKeyframe(r) \/ UpdateKeyframe(r) \/ DeleteKeyframe(r)
  PROVE  StoreStep(r)
<1> DEFINE k == call[r].key
           a == call[r].action
           f == call[r].frame
           body == call[r].body
           e == SentEntries(body)
           From(doc) == DocFrom(doc, ValuesSent(k), Sent(k))
<1>1. /\ pc[r] = "running" /\ call[r] \in Calls /\ call[r].op \in FrameOps
      /\ k \in Keys /\ a \in ActionNames /\ f \in FrameIds
  BY CallTypes DEF ShapeInv, CreateKeyframe, UpdateKeyframe, DeleteKeyframe, Attempts,
                   FrameOps
<1>2. Doc(r) # Absent => From(Doc(r))
  BY <1>1 DEF StoreInv, Doc
<1>3. ASSUME CreateKeyframe(r) \/ UpdateKeyframe(r)
      PROVE  /\ e \in Seq(Entry) /\ ParseFrameBody(body) = ParseFrame(e)
             /\ e \in Sent(k)[a][f]
  <2>1. call[r].op \in {"frame_create", "frame_update"}
    BY <1>3 DEF CreateKeyframe, UpdateKeyframe, Attempts
  <2>2. body.numbered \in BOOLEAN /\ body.entries \in Seq(Entry)
    BY <1>1, <2>1, CallTypes
  <2>3. e \in Sent(k)[a][f]
    BY <1>1, <2>1, FrameSent
  <2> QED
    BY <2>2, <2>3, FrameBodyParsed
<1> HIDE DEF e
<1>4. CASE CreateKeyframe(r)
  <2> DEFINE frame == NewFrame(ParseFrame(e))
  <2>1. FrameFrom(frame, Sent(k)[a][f])
    BY <1>3, <1>4, NewFrameFrom
  <2>2. frame = NewFrame(ParseFrameBody(body))
    BY <1>3, <1>4, Zenon
  <2> HIDE DEF frame
  <2>3. Doc(r) # Absent /\ ActionExists(Doc(r), a) => From(SetFrame(Doc(r), a, f, frame))
    BY <1>1, <1>2, <2>1, SetFrameFrom
  <2>4. UpdateOne(r, ActionExists(Doc(r), a), SetFrame(Doc(r), a, f, frame))
    BY <1>4, <2>2 DEF CreateKeyframe
  <2> QED
    BY <1>1, <2>3, <2>4, UpdateStores
<1>5. CASE UpdateKeyframe(r)
  <2> DEFINE old == Doc(r).actions[a].frames[f]
             frame == [old EXCEPT !.slots = UpdateSlots(@, ParseFrame(e))]
  <2>1. ASSUME Doc(r) # Absent, FrameExists(Doc(r), a, f)
        PROVE  ActionExists(Doc(r), a) /\ FrameFrom(frame, Sent(k)[a][f])
    <3>1. old # Absent /\ Doc(r).actions[a] # Absent /\ From(Doc(r))
      BY <1>2, <2>1 DEF FrameExists
    <3>2. FrameFrom(old, Sent(k)[a][f])
      BY <1>1, <3>1 DEF DocFrom, ActionFrom
    <3>3. old \in FrameDoc /\ old.numbered
      BY <3>2 DEF FrameFrom
    <3> HIDE DEF old
    <3>4. FrameFrom(frame, Sent(k)[a][f])
      BY <1>3, <1>5, <3>3, UpdatedFrameFrom, Zenon
    <3> QED
      BY <3>1, <3>4 DEF ActionExists
  <2>2. frame = [old EXCEPT !.slots = UpdateSlots(@, ParseFrameBody(body))]
    <3>1. ParseFrameBody(body) = ParseFrame(e)
      BY <1>3, <1>5, Zenon
    <3> HIDE DEF old
    <3> QED
      BY <3>1, Zenon
  <2>3. UpdateOne(r, FrameExists(Doc(r), a, f), SetFrame(Doc(r), a, f, frame))
    BY <1>5, <2>2 DEF UpdateKeyframe
  <2> HIDE DEF frame
  <2>4. Doc(r) # Absent /\ FrameExists(Doc(r), a, f) => From(SetFrame(Doc(r), a, f, frame))
    BY <1>1, <1>2, <2>1, SetFrameFrom
  <2> QED
    BY <1>1, <2>3, <2>4, UpdateStores
<1>6. CASE DeleteKeyframe(r)
  <2>1. Doc(r) # Absent /\ FrameExists(Doc(r), a, f) => From(SetFrame(Doc(r), a, f, Absent))
    BY <1>1, <1>2, SetFrameFrom DEF FrameExists, ActionExists
  <2>2. UpdateOne(r, FrameExists(Doc(r), a, f), SetFrame(Doc(r), a, f, Absent))
    BY <1>6 DEF DeleteKeyframe
  <2> QED
    BY <1>1, <2>1, <2>2, UpdateStores
<1> QED
  BY <1>4, <1>5, <1>6, Zenon

LEMMA DeleteStores ==
  ASSUME ShapeInv, StoreInv, NEW r \in Requests, DeleteProperty(r)
  PROVE  StoreStep(r)
<1> DEFINE k == call[r].key
<1>1. k \in Keys
  BY CallTypes DEF ShapeInv, DeleteProperty, Attempts, KeyOps
<1>2. CASE Doc(r) # Absent
  <2>1. store' = [store EXCEPT ![k] = Absent] /\ inserted' = inserted
    BY <1>2 DEF DeleteProperty, Write
  <2>2. k \in inserted /\ inserted \subseteq Keys
    BY <1>1, <1>2 DEF StoreInv, Doc
  <2> QED
    BY <1>1, <2>1, <2>2 DEF StoreStep
<1>3. CASE Doc(r) = Absent
  BY <1>3 DEF DeleteProperty, StoreStep
<1> QED
  BY <1>2, <1>3

LEMMA StoreSteps ==
  ASSUME Inv, StoreInv, NEW r \in Requests, Begin(r) \/ Step(r)
  PROVE  StoreInv'
<1>1. ShapeInv /\ Goes(r)
  BY StepsGo DEF Inv
<1>2. ASSUME Answered(r), response'[r].records = response[r].records
      PROVE  \A q \in Requests : FoundKeys(q)' \subseteq FoundKeys(q) \union inserted
  BY <1>2 DEF FoundKeys, Answered
<1>3. CASE \/ CreateProperty(r) \/ UpdateProperty(r) \/ CreatePropertyAction(r)
           \/ UpdatePropertyAction(r) \/ RefuseEmptyUpdate(r) \/ DeletePropertyAction(r)
           \/ CreateKeyframe(r) \/ UpdateKeyframe(r) \/ DeleteKeyframe(r)
           \/ DeleteProperty(r) \/ Refused(r)
  <2>1. Changes(r) \/ Misses(r) \/ Fails(r)
    BY <1>3, ChangingSteps
  <2>2. Answered(r) /\ response'[r].records = response[r].records
    BY <1>1, <2>1, FieldUpdates
    DEF Changes, Misses, Fails, Executed, LeaveAfterException, Codes
  <2>3. RefuseEmptyUpdate(r) \/ Refused(r) => StoreStep(r)
    BY DEF RefuseEmptyUpdate, Refused, StoreStep
  <2>4. StoreStep(r)
    BY <1>1, <1>3, <2>3, PropertyStores, ActionStores, FrameStores, DeleteStores
  <2> QED
    BY <1>1, <1>2, <2>2, <2>4, StoreKept
<1>4. ASSUME NEW k \in Keys, store[k] # Absent, AddRecord(r, k), UNCHANGED <<store, inserted>>
      PROVE  StoreInv'
  <2>1. Answered(r) /\ {response'[r].records[i].key : i \in DOMAIN response'[r].records}
                          = FoundKeys(r) \union {k}
    BY <1>1, <1>4, RecordAdded
  <2>2. k \in inserted
    BY <1>4 DEF StoreInv
  <2>3. \A q \in Requests : FoundKeys(q)' \subseteq FoundKeys(q) \union inserted
    <3>1. FoundKeys(r)' = FoundKeys(r) \union {k}
      BY <2>1 DEF FoundKeys
    <3>2. \A q \in Requests : q # r => FoundKeys(q)' = FoundKeys(q)
      BY <2>1 DEF FoundKeys, Answered
    <3> QED
      BY <2>2, <3>1, <3>2
  <2>4. StoreStep(r)
    BY <1>4 DEF StoreStep
  <2> QED
    BY <1>1, <2>3, <2>4, StoreKept
<1>5. ASSUME UNCHANGED <<store, inserted>>,
             \/ response' = response
             \/ response' = [response EXCEPT ![r].error = TRUE]
             \/ Fail(r, "PROCESSING_ERROR")
      PROVE  StoreInv'
  <2>1. Answered(r) /\ response'[r].records = response[r].records
    BY <1>1, <1>5, FieldUpdates DEF Codes
  <2>2. StoreStep(r)
    BY <1>5 DEF StoreStep
  <2> QED
    BY <1>1, <1>2, <2>1, <2>2, StoreKept
<1>6. CASE GetProperty(r)
  <2>1. call[r].key \in Keys
    BY <1>1, <1>6, CallTypes DEF ShapeInv, GetProperty, Attempts, KeyOps
  <2> QED
    BY <1>4, <1>5, <1>6, <2>1 DEF GetProperty, Doc
<1>7. CASE Fetch(r)
  <2>1. PICK k \in Keys : store[k] # Absent /\ AddRecord(r, k)
    BY <1>7 DEF Fetch, Matching, Matches
  <2> QED
    BY <1>4, <1>7, <2>1 DEF Fetch
<1>8. CASE Begin(r) \/ OpenCursor(r) \/ EndQuery(r) \/ AbandonQuery(r) \/ Interrupted(r)
  BY <1>5, <1>8 DEF Begin, OpenCursor, EndQuery, AbandonQuery, Interrupted
<1> QED
  BY <1>3, <1>6, <1>7, <1>8 DEF Step

LEMMA StoreAlways == Spec => []StoreInv
<1>1. Init => StoreInv
  <2> SUFFICES ASSUME Init PROVE StoreInv
    OBVIOUS
  <2> DEFINE new == CreateDoc(InitialBody)
  <2>1. InitialBody \in PropsSent /\ InitialBody \in PropBodies
    BY PropertyAssumption DEF PropsSent
  <2>2. \A k : DocFrom(new, ValuesSent(k), Sent(k))
    BY <2>1, PropSent, CreatedDocFrom
  <2> HIDE DEF new
  <2>3. \A k \in Keys : store[k] = IF k \in Stored THEN new ELSE Absent
    BY DEF Init, new
  <2>4. store \in [Keys -> PropDoc \union {Absent}]
    <3>1. \A k \in Keys : (IF k \in Stored THEN new ELSE Absent) \in PropDoc \union {Absent}
      BY <2>2 DEF DocFrom
    <3> QED
      BY <3>1 DEF Init, new
  <2>5. \A r \in Requests : FoundKeys(r) = {}
    BY DEF Init, NoResponse, FoundKeys
  <2> QED
    BY <2>2, <2>3, <2>4, <2>5, PropertyAssumption DEF Init, StoreInv
<1>2. Inv /\ StoreInv /\ [Next]_vars => StoreInv'
  <2> SUFFICES ASSUME Inv, StoreInv, [Next]_vars PROVE StoreInv'
    OBVIOUS
  <2>1. ASSUME UNCHANGED vars PROVE StoreInv'
    <3>1. \A k : ValuesSent(k)' = ValuesSent(k) /\ Sent(k)' = Sent(k)
      BY <2>1 DEF vars, ValuesSent, Sent, FramesSent, ActionsSent, PropsSent, Begun, About
    <3>2. \A r \in Requests : FoundKeys(r)' = FoundKeys(r)
      BY <2>1 DEF vars, FoundKeys
    <3> QED
      BY <2>1, <3>1, <3>2 DEF vars, StoreInv
  <2> QED
    BY <2>1, StoreSteps DEF Next, Terminated
<1> QED
  BY <1>1, <1>2, InvAlways, PTL DEF Spec

(***************************************************************************)
(* Every document, call and answer has its type, and every record that a   *)
(* query or get has returned is of a document that was stored.             *)
(***************************************************************************)
THEOREM TypeCorrect == Spec => []TypeOK
<1>1. Inv /\ StoreInv => TypeOK
  <2> SUFFICES ASSUME Inv, StoreInv PROVE TypeOK
    OBVIOUS
  <2>1. ASSUME NEW r \in Requests
        PROVE  /\ response[r].success \in BOOLEAN /\ response[r].error \in BOOLEAN
               /\ response[r].code \in Codes
    <3>1. ResponseShape(response[r])
      BY DEF Inv, ShapeInv
    <3> QED
      BY <3>1 DEF ResponseShape
  <2>2. ASSUME NEW r \in Requests, NEW i \in DOMAIN response[r].records
        PROVE  response[r].records[i].key \in inserted
    BY DEF StoreInv, FoundKeys
  <2> QED
    BY <2>1, <2>2 DEF TypeOK, Inv, ShapeInv, StoreInv
<1> QED
  BY <1>1, InvAlways, StoreAlways, PTL

(***************************************************************************)
(* Whatever keyframes, and values of a property, are written over one      *)
(* another, in whatever order: what is read is what one request sent, up   *)
(* to the four slots there are for it.                                     *)
(***************************************************************************)
THEOREM ReadsAreOneRequest == Spec => []ReadsOneRequest
<1>1. StoreInv => ReadsOneRequest
  <2> SUFFICES ASSUME StoreInv PROVE ReadsOneRequest
    OBVIOUS
  <2>1. ASSUME NEW k \in Keys, NEW a \in ActionNames, NEW f \in FrameIds, Readable(k, a, f)
        PROVE  Read(k, a, f) \in
                 {FirstFour(WriteFrame(ParseFrame(e))) : e \in FramesSent(k, a, f)}
    <3> DEFINE frame == store[k].actions[a].frames[f]
    <3>1. /\ store[k] # Absent /\ store[k].actions[a] # Absent
          /\ frame # Absent
      BY <2>1 DEF Readable
    <3>2. FrameFrom(frame, FramesSent(k, a, f))
      BY <3>1 DEF StoreInv, DocFrom, ActionFrom, Sent
    <3>3. PICK e \in FramesSent(k, a, f) :
            Whole(ParseFrame(e)) /\ HoldFrame(frame.slots, ParseFrame(e))
      BY <3>2 DEF FrameFrom
    <3>4. WriteFrame(ReadSlots(frame.slots)) = FirstFour(WriteFrame(ParseFrame(e)))
      BY <3>3, FrameRead, Zenon
    <3>5. Read(k, a, f) = ReadFrame(frame)
      BY <3>1, <3>2 DEF Read, ReadDoc, ReadAction, FrameFrom
    <3> QED
      BY <3>3, <3>4, <3>5 DEF ReadFrame
  <2>2. ASSUME NEW k \in Keys, store[k] # Absent
        PROVE  ReadDoc(store[k]).values \in {FirstFour(ParseValues(v)) : v \in ValuesSent(k)}
    <3>1. PICK v \in ValuesSent(k) :
            ParseValues(v) \in Seq(Numbers) /\ Hold(store[k].slots, ParseValues(v))
      BY <2>2 DEF StoreInv, DocFrom
    <3>2. ReadSlots(store[k].slots).values = FirstFour(ParseValues(v))
      BY <3>1, ValuesRead
    <3> QED
      BY <3>2 DEF ReadDoc
  <2> QED
    BY <2>1, <2>2 DEF ReadsOneRequest
<1> QED
  BY <1>1, StoreAlways, PTL

(***************************************************************************)
(* No request brings part of an action or keyframe back that another has   *)
(* removed, and the slots in use are the first ones.                       *)
(***************************************************************************)
THEOREM StaysWhole == Spec => []StoredWhole
<1>1. StoreInv => StoredWhole
  <2> SUFFICES ASSUME StoreInv, NEW k \in Keys, NEW a \in ActionNames,
                      store[k] # Absent, store[k].actions[a] # Absent
               PROVE  /\ store[k].actions[a].description # Absent
                      /\ \A f \in FrameIds : Readable(k, a, f) =>
                           /\ store[k].actions[a].frames[f].numbered
                           /\ UsedFirst(store[k].actions[a].frames[f].slots)
    BY DEF StoredWhole
  <2>1. ActionFrom(store[k].actions[a], Sent(k)[a])
    BY DEF StoreInv, DocFrom
  <2>2. ASSUME NEW f \in FrameIds, Readable(k, a, f)
        PROVE  FrameFrom(store[k].actions[a].frames[f], Sent(k)[a][f])
    BY <2>1, <2>2 DEF ActionFrom, Readable
  <2>3. \A f \in FrameIds : Readable(k, a, f) =>
          /\ store[k].actions[a].frames[f].numbered
          /\ UsedFirst(store[k].actions[a].frames[f].slots)
    BY <2>2, FrameRead DEF FrameFrom
  <2> QED
    BY <2>1, <2>3 DEF ActionFrom
<1> QED
  BY <1>1, StoreAlways, PTL

\* A list of entries that nothing is lost of: numbers have a decimal point, there
\* is a slot for each, and the coordinate that the parser drops is 0.
Plain(e) ==
  Len(e) <= 4 /\ \A i \in DOMAIN e : e[i].double /\ e[i].handle.right_x = Zero

LEMMA RoundTrip ==
  ASSUME NEW e \in Seq(Entry), Plain(e)
  PROVE  FirstFour(WriteFrame(ParseFrame(e))) = e
<1> DEFINE values == [i \in DOMAIN e |-> e[i].value]
           handles == [i \in DOMAIN e |-> ParseHandle(e[i].handle)]
<1>1. e = [i \in DOMAIN e |-> e[i]] /\ DOMAIN e = 1 .. Len(e) /\ Len(e) \in Nat
  OBVIOUS
<1>2. ASSUME NEW i \in DOMAIN e
      PROVE  e[i] = [value |-> e[i].value, double |-> TRUE, handle |-> ParseHandle(e[i].handle)]
  <2>1. e[i] \in Entry
    OBVIOUS
  <2>2. /\ e[i] = [value |-> e[i].value, double |-> e[i].double, handle |-> e[i].handle]
        /\ e[i].double \in BOOLEAN /\ e[i].handle \in Handle
    BY <2>1 DEF Entry
  <2>3. e[i].double = TRUE /\ e[i].handle.right_x = Zero
    BY <2>2 DEF Plain
  <2>4. ParseHandle(e[i].handle) = e[i].handle
    BY <2>2, <2>3 DEF ParseHandle, Handle
  <2> QED
    BY <2>2, <2>3, <2>4, Zenon
<1>3. ParseFrame(e) = [values |-> values, handles |-> handles]
  BY ParsedDoubles DEF ParseFrame, Plain
<1>4. /\ ParseFrame(e).values = values /\ ParseFrame(e).handles = handles
      /\ DOMAIN values = DOMAIN e /\ DOMAIN handles = DOMAIN e
      /\ \A i \in DOMAIN e : /\ values[i] = e[i].value
                             /\ handles[i] = ParseHandle(e[i].handle)
  BY <1>3
<1> HIDE DEF values, handles
<1>5. WriteFrame(ParseFrame(e)) =
        [i \in DOMAIN e |-> [value |-> values[i], double |-> TRUE, handle |-> handles[i]]]
  BY <1>4 DEF WriteFrame
<1>6. \A i \in DOMAIN e : [value |-> values[i], double |-> TRUE, handle |-> handles[i]] = e[i]
  BY <1>2, <1>4, Zenon
<1>7. WriteFrame(ParseFrame(e)) = e
  BY <1>1, <1>5, <1>6, Zenon
<1>8. DOMAIN e \intersect SlotIds = DOMAIN e
  BY <1>1 DEF Plain, SlotIds
<1> QED
  BY <1>1, <1>7, <1>8, Zenon DEF FirstFour

LEMMA SentTypes ==
  ASSUME ShapeInv, NEW k \in Keys, NEW a \in ActionNames, NEW f \in FrameIds,
         NEW e \in FramesSent(k, a, f)
  PROVE  e \in Seq(Entry)
<1>1. \A r \in Requests : call[r] \in Calls
  BY DEF ShapeInv
<1>2. PropsSent \subseteq PropBodies
  <2>1. \A r \in Begun({"create"}) : call[r].body \in PropBodies
    BY <1>1, CallTypes DEF Begun
  <2> QED
    BY <2>1, PropertyAssumption DEF PropsSent
<1>3. ActionsSent(k, a) \subseteq ActionBodies
  <2>1. \A r \in Begun({"action_create"}) : call[r].body \in ActionBodies
    BY <1>1, CallTypes DEF Begun
  <2>2. \A body \in PropBodies : body.actions[a] # Absent => body.actions[a] \in ActionBodies
    BY DEF PropBodies
  <2> QED
    BY <1>2, <2>1, <2>2 DEF ActionsSent
<1>4. \A body \in ActionBodies : EntriesOf(body.keyframes, f) \in Seq(Entry)
  BY EntriesType DEF ActionBodies
<1>5. \A r \in Begun({"frame_create", "frame_update"}) :
        SentEntries(call[r].body) \in Seq(Entry)
  BY <1>1, CallTypes, FrameBodyParsed DEF Begun
<1> QED
  BY <1>3, <1>4, <1>5 DEF FramesSent, SentEntries

(***************************************************************************)
(* KeyframesAsPosted fails for three reasons and no other: when every list *)
(* that was sent for a keyframe has its numbers with a decimal point, four *)
(* entries at most, and right_x = 0 in their handles, then one of them is  *)
(* what is read, entry by entry, for every list and whatever overlaps.     *)
(***************************************************************************)
PlainKeyframesAsPosted ==
  \A k \in Keys, a \in ActionNames, f \in FrameIds :
    Readable(k, a, f) /\ (\A e \in FramesSent(k, a, f) : Plain(e)) =>
      Read(k, a, f) \in FramesSent(k, a, f)

THEOREM PlainKeyframesKept == Spec => []PlainKeyframesAsPosted
<1>1. Inv /\ ReadsOneRequest => PlainKeyframesAsPosted
  <2> SUFFICES ASSUME Inv, ReadsOneRequest, NEW k \in Keys, NEW a \in ActionNames,
                      NEW f \in FrameIds, Readable(k, a, f),
                      \A e \in FramesSent(k, a, f) : Plain(e)
               PROVE  Read(k, a, f) \in FramesSent(k, a, f)
    BY DEF PlainKeyframesAsPosted
  <2>1. PICK e \in FramesSent(k, a, f) :
          Read(k, a, f) = FirstFour(WriteFrame(ParseFrame(e)))
    BY DEF ReadsOneRequest
  <2>2. e \in Seq(Entry)
    BY SentTypes DEF Inv
  <2> QED
    BY <2>1, <2>2, RoundTrip
<1> QED
  BY <1>1, InvAlways, ReadsAreOneRequest, PTL

-----------------------------------------------------------------------------
(***************************************************************************)
(* How many steps a call takes at most: an attempt of a query opens its    *)
(* cursor, fetches one record more than it was asked for and ends; any     *)
(* other attempt is one step.  StepsLeft is what is left of that.          *)
(***************************************************************************)
Cost(r) == IF call[r].op = "query" THEN call[r].max + 3 ELSE 1

StepsLeft(r) ==
  CASE pc[r] = "idle"     -> MaxRetries * Cost(r) + 1
    [] pc[r] = "running"  -> (MaxRetries - attempts[r]) * Cost(r)
    [] pc[r] = "fetching" -> (MaxRetries - attempts[r]) * Cost(r) - 1 - Cardinality(seen[r])
    [] OTHER              -> 0

\* A step of one call, as far as it moves on in its loop.
Opens(r) == pc[r] = "running" /\ pc'[r] = "fetching" /\ seen'[r] = {}
Fetches(r) ==
  /\ pc[r] = "fetching" /\ pc'[r] = "fetching"
  /\ Cardinality(seen[r]) <= call[r].max
  /\ \E k \in Keys \ seen[r] : seen'[r] = seen[r] \union {k}
Ends(r) ==
  /\ pc[r] \in {"running", "fetching"}
  /\ \/ pc'[r] = "returned"
     \/ pc'[r] = "running" /\ attempts'[r] = attempts[r] + 1

Moves(r) ==
  /\ call' = call
  /\ \A s \in Requests \ {r} :
       pc'[s] = pc[s] /\ attempts'[s] = attempts[s] /\ seen'[s] = seen[s]
  /\ \/ pc[r] = "idle" /\ pc'[r] = "running" /\ attempts[r] = 0 /\ attempts'[r] = 0
     \/ Opens(r) /\ call[r].op = "query" /\ attempts'[r] = attempts[r]
     \/ Fetches(r) /\ call[r].op = "query" /\ attempts'[r] = attempts[r]
     \/ Ends(r)

\* A call that has not begun has made no attempt.
IdleInv == \A r \in Requests : pc[r] = "idle" => attempts[r] = 0

LEMMA StepMoves ==
  ASSUME Inv, IdleInv, NEW r \in Requests, Begin(r) \/ Step(r)
  PROVE  Moves(r)
<1>1. ShapeInv /\ LoopInv(r)
  BY DEF Inv, Sound
<1>2. ASSUME pc[r] \in {"running", "fetching"}, Retry(r) \/ Leave(r), UNCHANGED <<call, seen>>
      PROVE  Moves(r)
  <2>1. /\ \A s \in Requests : s # r => pc'[s] = pc[s] /\ attempts'[s] = attempts[s]
        /\ pc'[r] \in {"running", "returned"}
        /\ Retry(r) => attempts'[r] = attempts[r] + 1
        /\ Leave(r) => pc'[r] = "returned"
    BY <1>1, <1>2, LoopEnds
  <2> QED
    BY <1>2, <2>1 DEF Moves, Ends
<1>3. CASE \/ CreateProperty(r) \/ UpdateProperty(r) \/ CreatePropertyAction(r)
           \/ UpdatePropertyAction(r) \/ RefuseEmptyUpdate(r) \/ DeletePropertyAction(r)
           \/ CreateKeyframe(r) \/ UpdateKeyframe(r) \/ DeleteKeyframe(r)
           \/ DeleteProperty(r) \/ Refused(r)
  <2>1. pc[r] = "running" /\ UNCHANGED <<call, seen>> /\ (Changes(r) \/ Misses(r) \/ Fails(r))
    BY <1>3, ChangingSteps
  <2>2. Retry(r) \/ Leave(r)
    BY <2>1 DEF Changes, Misses, Fails, Executed, LeaveAfterException
  <2> QED
    BY <1>2, <2>1, <2>2
<1>4. CASE GetProperty(r) \/ EndQuery(r) \/ AbandonQuery(r) \/ Interrupted(r)
  <2>1. /\ pc[r] \in {"running", "fetching"} /\ UNCHANGED <<call, seen>>
        /\ Retry(r) \/ Leave(r)
    BY <1>4 DEF GetProperty, EndQuery, AbandonQuery, Interrupted, Attempts,
                LeaveAfterException
  <2> QED
    BY <1>2, <2>1
<1>5. CASE OpenCursor(r)
  <2>1. /\ pc[r] = "running" /\ call[r].op = "query" /\ UNCHANGED <<call, attempts>>
        /\ pc' = [pc EXCEPT ![r] = "fetching"] /\ seen' = [seen EXCEPT ![r] = {}]
    BY <1>5 DEF OpenCursor, Attempts, Goto
  <2> QED
    BY <1>1, <2>1 DEF Moves, Opens, ShapeInv
<1>6. CASE Fetch(r)
  <2>1. /\ pc[r] = "fetching" /\ call[r].op = "query" /\ UNCHANGED <<call, pc, attempts>>
        /\ ~(Cardinality(seen[r]) > call[r].max)
    BY <1>1, <1>6 DEF Fetch, LoopInv, ProcessedEnough
  <2>2. PICK k \in Keys \ seen[r] : seen' = [seen EXCEPT ![r] = seen[r] \union {k}]
    BY <1>6 DEF Fetch, Matching
  <2>3. Cardinality(seen[r]) <= call[r].max
    <3>1. IsFiniteSet(seen[r]) /\ call[r].max \in Nat
      BY <1>1, <2>1, QueryFacts DEF Inv, Sound, SeenInv
    <3> QED
      BY <2>1, <3>1, FS_CardinalityType
  <2>4. seen'[r] = seen[r] \union {k} /\ \A s \in Requests \ {r} : seen'[s] = seen[s]
    BY <1>1, <2>2 DEF ShapeInv
  <2> QED
    BY <2>1, <2>3, <2>4 DEF Moves, Fetches
<1>7. CASE Begin(r)
  <2>1. /\ pc[r] = "idle" /\ UNCHANGED <<call, attempts, seen>>
        /\ pc' = [pc EXCEPT ![r] = "running"] /\ attempts[r] = 0
    BY <1>7 DEF Begin, Goto, IdleInv
  <2> QED
    BY <1>1, <2>1 DEF Moves, ShapeInv
<1> QED
  BY <1>3, <1>4, <1>5, <1>6, <1>7 DEF Step

LEMMA IdleAlways == Spec => []IdleInv
<1>1. Init => IdleInv
  BY DEF Init, IdleInv
<1>2. Inv /\ IdleInv /\ [Next]_vars => IdleInv'
  <2> SUFFICES ASSUME Inv, IdleInv, [Next]_vars PROVE IdleInv'
    OBVIOUS
  <2>1. ASSUME NEW r \in Requests, Begin(r) \/ Step(r) PROVE IdleInv'
    <3>1. Moves(r)
      BY <2>1, StepMoves
    <3> QED
      BY <3>1 DEF Moves, Opens, Fetches, Ends, IdleInv
  <2>2. CASE UNCHANGED vars
    BY <2>2 DEF vars, IdleInv
  <2> QED
    BY <2>1, <2>2 DEF Next, Terminated
<1> QED
  BY <1>1, <1>2, InvAlways, PTL DEF Spec

\* Of the attempts that are left, this one is not the last or is.
LEMMA AttemptsLeft ==
  ASSUME NEW m \in Nat, NEW a \in Nat, NEW w \in Nat, a < m
  PROVE  /\ (m - a) * w \in Nat /\ (m - (a + 1)) * w \in Nat
         /\ (m - a) * w = (m - (a + 1)) * w + w
<1> DEFINE d == m - (a + 1)
<1>1. d \in Nat /\ m - a = d + 1
  OBVIOUS
<1>2. \A x \in Nat : (x + 1) * w = x * w + w /\ x * w \in Nat /\ (x + 1) * w \in Nat
  OBVIOUS
<1> HIDE DEF d
<1>3. (m - a) * w = d * w + w /\ d * w \in Nat /\ (d + 1) * w \in Nat
  BY <1>1, <1>2
<1> QED
  BY <1>1, <1>3 DEF d

\* What is left while a call is in its loop.
LEMMA LeftInLoop ==
  ASSUME Inv, NEW r \in Requests, pc[r] \in {"running", "fetching"}
  PROVE  /\ attempts[r] \in Nat /\ attempts[r] < MaxRetries /\ MaxRetries \in Nat
         /\ Cost(r) \in Nat /\ Cost(r) >= 1
         /\ StepsLeft(r) \in Nat /\ StepsLeft(r) >= 1
         /\ StepsLeft(r) > (MaxRetries - (attempts[r] + 1)) * Cost(r)
<1> DEFINE rest == (MaxRetries - (attempts[r] + 1)) * Cost(r)
<1>1. /\ ShapeInv /\ Sound(r) /\ attempts[r] \in Nat /\ attempts[r] < MaxRetries
      /\ MaxRetries \in Nat
  BY PropertyAssumption DEF Inv, ShapeInv, Sound, LoopInv
<1>2. call[r].op = "query" => call[r].max \in Nat
  BY <1>1, QueryFacts
<1>3. Cost(r) \in Nat /\ Cost(r) >= 1
  BY <1>2 DEF Cost
<1>4. rest \in Nat /\ (MaxRetries - attempts[r]) * Cost(r) = rest + Cost(r)
  BY <1>1, <1>3, AttemptsLeft
<1> HIDE DEF rest
<1>5. CASE pc[r] = "running"
  <2>1. StepsLeft(r) = rest + Cost(r)
    BY <1>4, <1>5 DEF StepsLeft
  <2>2. StepsLeft(r) \in Nat /\ StepsLeft(r) >= 1 /\ StepsLeft(r) > rest
    BY <1>3, <1>4, <2>1
  <2> QED
    BY <1>1, <1>3, <2>2 DEF rest
<1>6. CASE pc[r] = "fetching"
  <2>1. call[r].op = "query" /\ call[r].max \in Nat
    BY <1>1, <1>2, <1>6 DEF Sound, LoopInv
  <2>2. Cardinality(seen[r]) \in Nat /\ Cardinality(seen[r]) <= call[r].max + 1
    BY <1>1, <1>6, <2>1, FS_CardinalityType DEF Sound, SeenInv
  <2>3. StepsLeft(r) = rest + Cost(r) - 1 - Cardinality(seen[r])
    <3> DEFINE all == (MaxRetries - attempts[r]) * Cost(r)
    <3>1. StepsLeft(r) = all - 1 - Cardinality(seen[r])
      BY <1>6, Zenon DEF StepsLeft
    <3>2. all = rest + Cost(r) /\ rest \in Nat
      BY <1>4
    <3> HIDE DEF all
    <3> QED
      BY <1>3, <2>2, <3>1, <3>2
  <2>4. Cost(r) = call[r].max + 3
    BY <2>1 DEF Cost
  <2>5. StepsLeft(r) \in Nat /\ StepsLeft(r) >= 1 /\ StepsLeft(r) > rest
    BY <1>4, <2>1, <2>2, <2>3, <2>4
  <2> QED
    BY <1>1, <1>3, <2>5 DEF rest
<1> QED
  BY <1>5, <1>6

LEMMA MovesLeave ==
  ASSUME Inv, NEW r \in Requests, Moves(r)
  PROVE  StepsLeft(r)' < StepsLeft(r)
<1>1. /\ Cost(r)' = Cost(r) /\ ShapeInv /\ MaxRetries \in Nat \ {0}
      /\ StepsLeft(r)' =
           CASE pc'[r] = "idle"     -> MaxRetries * Cost(r) + 1
             [] pc'[r] = "running"  -> (MaxRetries - attempts'[r]) * Cost(r)
             [] pc'[r] = "fetching" -> (MaxRetries - attempts'[r]) * Cost(r) - 1
                                         - Cardinality(seen'[r])
             [] OTHER               -> 0
  BY PropertyAssumption DEF Moves, Cost, StepsLeft, Inv
<1>2. CASE pc[r] = "idle" /\ pc'[r] = "running" /\ attempts'[r] = 0
  <2>1. StepsLeft(r) = MaxRetries * Cost(r) + 1 /\ StepsLeft(r)' = (MaxRetries - 0) * Cost(r)
    BY <1>1, <1>2 DEF StepsLeft
  <2>2. Cost(r) \in Nat
    BY <1>1, QueryFacts DEF Cost
  <2>3. MaxRetries - 0 = MaxRetries /\ MaxRetries * Cost(r) \in Nat
    BY <1>1, <2>2
  <2> QED
    BY <2>1, <2>3
<1>3. CASE Opens(r) /\ call[r].op = "query" /\ attempts'[r] = attempts[r]
  <2>1. /\ StepsLeft(r) = (MaxRetries - attempts[r]) * Cost(r) /\ StepsLeft(r) \in Nat
        /\ StepsLeft(r)' = (MaxRetries - attempts[r]) * Cost(r) - 1 - Cardinality({})
    BY <1>1, <1>3, LeftInLoop DEF Opens, StepsLeft
  <2> QED
    BY <2>1, FS_EmptySet
<1>4. CASE Fetches(r) /\ call[r].op = "query" /\ attempts'[r] = attempts[r]
  <2>1. PICK k \in Keys \ seen[r] : seen'[r] = seen[r] \union {k}
    BY <1>4 DEF Fetches
  <2>2. IsFiniteSet(seen[r])
    BY <1>4 DEF Fetches, Inv, Sound, SeenInv
  <2>3. Cardinality(seen'[r]) = Cardinality(seen[r]) + 1 /\ Cardinality(seen[r]) \in Nat
    BY <2>1, <2>2, FS_AddElement, FS_CardinalityType
  <2> DEFINE all == (MaxRetries - attempts[r]) * Cost(r)
  <2>4. /\ StepsLeft(r) = all - 1 - Cardinality(seen[r])
        /\ StepsLeft(r)' = all - 1 - Cardinality(seen'[r])
    BY <1>1, <1>4 DEF Fetches, StepsLeft
  <2>5. all \in Nat
    BY <1>4, LeftInLoop, AttemptsLeft DEF Fetches
  <2> HIDE DEF all
  <2> QED
    BY <2>3, <2>4, <2>5
<1>5. CASE Ends(r)
  <2>1. StepsLeft(r) >= 1 /\ StepsLeft(r) > (MaxRetries - (attempts[r] + 1)) * Cost(r)
    BY <1>5, LeftInLoop DEF Ends
  <2>2. CASE pc'[r] = "returned"
    <3>1. StepsLeft(r)' = 0 /\ StepsLeft(r) \in Nat
      BY <1>1, <1>5, <2>2, LeftInLoop DEF Ends
    <3> QED
      BY <2>1, <3>1
  <2>3. CASE pc'[r] = "running" /\ attempts'[r] = attempts[r] + 1
    <3>1. StepsLeft(r)' = (MaxRetries - (attempts[r] + 1)) * Cost(r)
      BY <1>1, <2>3
    <3>2. StepsLeft(r)' \in Nat /\ StepsLeft(r) \in Nat
      BY <1>5, <3>1, LeftInLoop, AttemptsLeft DEF Ends
    <3> QED
      BY <2>1, <3>1, <3>2
  <2> QED
    BY <1>5, <2>2, <2>3 DEF Ends
<1> QED
  BY <1>2, <1>3, <1>4, <1>5 DEF Moves

(***************************************************************************)
(* CallsReturn cannot hang on an endless loop: every step of a call leaves *)
(* it fewer steps to take, none of another call gives it more, and it has  *)
(* at most MaxRetries * Cost + 1 of them, though the documents change      *)
(* under its cursor and every attempt may be interrupted.                  *)
(***************************************************************************)
StepsLeftBounded == \A r \in Requests : StepsLeft(r) \in 0 .. MaxRetries * Cost(r) + 1

StepsTaken ==
  [][\A r \in Requests :
       /\ StepsLeft(r)' <= StepsLeft(r)
       /\ Begin(r) \/ Step(r) => StepsLeft(r)' < StepsLeft(r)]_vars

THEOREM CallsTakeBoundedSteps ==
  Spec => []StepsLeftBounded /\ StepsTaken
<1>1. Inv => StepsLeftBounded
  <2> SUFFICES ASSUME Inv, NEW r \in Requests
               PROVE  StepsLeft(r) \in 0 .. MaxRetries * Cost(r) + 1
    BY DEF StepsLeftBounded
  <2>1. MaxRetries \in Nat /\ ShapeInv
    BY PropertyAssumption DEF Inv
  <2>2. Cost(r) \in Nat
    BY <2>1, QueryFacts DEF Cost
  <2>3. MaxRetries * Cost(r) \in Nat
    BY <2>1, <2>2
  <2>4. CASE pc[r] \in {"idle", "returned"}
    BY <2>3, <2>4 DEF StepsLeft
  <2>5. CASE pc[r] \in {"running", "fetching"}
    <3>1. StepsLeft(r) \in Nat /\ attempts[r] \in Nat /\ attempts[r] < MaxRetries
      BY <2>5, LeftInLoop
    <3>2. StepsLeft(r) <= (MaxRetries - attempts[r]) * Cost(r)
      <4>1. Cardinality(seen[r]) \in Nat \/ pc[r] = "running"
        BY <2>5, FS_CardinalityType DEF Inv, Sound, LoopInv, SeenInv
      <4>2. (MaxRetries - attempts[r]) * Cost(r) \in Nat
        BY <2>1, <2>2, <3>1, AttemptsLeft
      <4> QED
        BY <2>5, <4>1, <4>2 DEF StepsLeft
    <3>3. (MaxRetries - attempts[r]) * Cost(r) <= MaxRetries * Cost(r)
      <4>1. \A m, a, w \in Nat : a < m => (m - a) * w <= m * w
        <5> TAKE m, a, w \in Nat
        <5>1. a * w \in Nat /\ m * w \in Nat /\ (m - a) * w = m * w - a * w
          OBVIOUS
        <5> QED
          BY <5>1
      <4> QED
        BY <2>1, <2>2, <3>1, <4>1
    <3>4. (MaxRetries - attempts[r]) * Cost(r) \in Nat
      BY <2>1, <2>2, <3>1, AttemptsLeft
    <3> QED
      BY <2>3, <3>1, <3>2, <3>3, <3>4
  <2> QED
    BY <2>4, <2>5, <2>1 DEF ShapeInv
<1>2. Inv /\ IdleInv /\ StepsLeftBounded /\ StepsLeftBounded' /\ [Next]_vars =>
        [\A r \in Requests :
           /\ StepsLeft(r)' <= StepsLeft(r)
           /\ Begin(r) \/ Step(r) => StepsLeft(r)' < StepsLeft(r)]_vars
  <2> SUFFICES ASSUME Inv, IdleInv, StepsLeftBounded, StepsLeftBounded', Next,
                      NEW r \in Requests, ~UNCHANGED vars
               PROVE  /\ StepsLeft(r)' <= StepsLeft(r)
                      /\ Begin(r) \/ Step(r) => StepsLeft(r)' < StepsLeft(r)
    OBVIOUS
  <2>1. PICK q \in Requests : Begin(q) \/ Step(q)
    BY DEF Next, Terminated
  <2>2. Moves(q)
    BY <2>1, StepMoves
  <2>3. Begin(r) \/ Step(r) => StepsLeft(r)' < StepsLeft(r)
    BY StepMoves, MovesLeave
  <2>4. StepsLeft(r) \in Int /\ StepsLeft(r)' \in Int
    BY DEF StepsLeftBounded
  <2>5. CASE q = r
    BY <2>1, <2>3, <2>4, <2>5
  <2>6. CASE q # r
    <3>1. Cost(r)' = Cost(r) /\ StepsLeft(r)' = StepsLeft(r)
      BY <2>2, <2>6 DEF Moves, Cost, StepsLeft
    <3> QED
      BY <2>3, <2>4, <3>1
  <2> QED
    BY <2>5, <2>6
<1> QED
  BY <1>1, <1>2, InvAlways, IdleAlways, PTL DEF Spec, StepsTaken
=============================================================================
