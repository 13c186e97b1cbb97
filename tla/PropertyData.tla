---------------------------- MODULE PropertyData ----------------------------
(***************************************************************************)
(* The three forms in which CLyman holds a property and its keyframes, and *)
(* the conversions between them: the JSON of a request or response (class  *)
(* JsonFactory, JsonProperty::to_json_writer), the objects PropertyFrame   *)
(* and JsonProperty in memory, and the documents of Mongo                  *)
(* (PropertyDatabaseManager, CoreDatabaseManager).                         *)
(*                                                                         *)
(* In JSON a keyframe has a list of entries, each with a number and a      *)
(* graph handle.  In memory these are two lists, which grow separately.    *)
(* In a document they are the slots w, x, y and z, each with a flag that   *)
(* says whether it is in use.                                              *)
(***************************************************************************)
EXTENDS Naturals, Sequences, FiniteSets

CONSTANTS
  Numbers,      \* values and coordinates
  Zero,         \* 0.0
  NoHandle      \* a slot without the fields of a handle

ASSUME DataAssumption ==
  /\ Zero \in Numbers
  /\ NoHandle \notin [left : Numbers, right_x : Numbers, right_y : Numbers]

-----------------------------------------------------------------------------
(***************************************************************************)
(* JSON.  The coordinates of the left side of a handle stand for           *)
(* everything that is copied field by field.                               *)
(***************************************************************************)
Handle == [left : Numbers, right_x : Numbers, right_y : Numbers]
DefaultHandle == [left |-> Zero, right_x |-> Zero, right_y |-> Zero]

\* A number may be written with or without a decimal point.
Entry == [value : Numbers, double : BOOLEAN, handle : Handle]

\* A keyframe, and a property as the values at its top level.
Frame == [values : Seq(Numbers), handles : Seq(Handle)]
EmptyFrame == [values |-> <<>>, handles |-> <<>>]

\* parse_json_graph_handle stores right_x in right_y, which right_y replaces.
ParseHandle(h) == [h EXCEPT !.right_x = Zero]

\* The numbers a factory accepts: those that rapidjson holds as a double.
Accepted(number) == IF number.double THEN <<number.value>> ELSE <<>>
ParseValues(numbers) ==
  LET values[n \in 0 .. Len(numbers)] ==
        IF n = 0 THEN <<>> ELSE values[n - 1] \o Accepted(numbers[n])
  IN  values[Len(numbers)]

\* property_frame_from_iterator adds a value only for a double, and a handle
\* for every entry.
ParseFrame(entries) ==
  [values  |-> ParseValues(entries),
   handles |-> [i \in DOMAIN entries |-> ParseHandle(entries[i].handle)]]

\* build_property_frame leaves a body without a frame number unread.
ParseFrameBody(body) ==
  IF body.numbered THEN ParseFrame(body.entries) ELSE EmptyFrame

\* to_json_writer.
WriteFrame(frame) ==
  [i \in DOMAIN frame.values |->
     [value |-> frame.values[i], double |-> TRUE,
      handle |-> IF i \in DOMAIN frame.handles THEN frame.handles[i]
                 ELSE DefaultHandle]]

-----------------------------------------------------------------------------
(***************************************************************************)
(* Documents.                                                              *)
(***************************************************************************)
SlotIds == 1 .. 4   \* w, x, y and z

Slot  == [active : BOOLEAN, value : Numbers, handle : Handle \union {NoHandle}]
Slots == [SlotIds -> Slot]

\* add_prop_frame_to_doc; build_prop_doc writes the values of a property in the
\* same way, without handles.
SlotOf(frame, i) ==
  [active |-> i \in DOMAIN frame.values,
   value  |-> IF i \in DOMAIN frame.values THEN frame.values[i] ELSE Zero,
   handle |-> IF i \in DOMAIN frame.values /\ i \in DOMAIN frame.handles
              THEN frame.handles[i] ELSE NoHandle]
FrameSlots(frame) == [i \in SlotIds |-> SlotOf(frame, i)]
ValueSlots(values) == FrameSlots([values |-> values, handles |-> <<>>])

\* The update of a keyframe sets flag and value of every slot; the fields of a
\* handle stay when there is none to write.
UpdateGivenSlots(slots, frame) ==  \* mutant: slots without a value are kept
  [i \in SlotIds |-> IF i \in DOMAIN frame.values THEN SlotOf(frame, i)
                     ELSE slots[i]]
UpdateSlots(slots, frame) ==
  [i \in SlotIds |->
     [SlotOf(frame, i) EXCEPT
        !.handle = IF @ = NoHandle THEN slots[i].handle ELSE @]]

\* bson_to_prop reads the slots in use.  A handle is appended for each, and the
\* one at the index of the slot is filled in, which is the same one as long as
\* the slots in use come first.
InUse(slots) == {i \in SlotIds : slots[i].active}
UsedFirst(slots) == InUse(slots) = 1 .. Cardinality(InUse(slots))

ReadHandle(handle) == IF handle = NoHandle THEN DefaultHandle ELSE handle
Used(slots) ==
  LET IfUsed(i) == IF slots[i].active THEN <<i>> ELSE <<>>
  IN  IfUsed(1) \o IfUsed(2) \o IfUsed(3) \o IfUsed(4)
ReadSlots(slots) ==
  LET used == Used(slots)
  IN  [values  |-> [n \in DOMAIN used |-> slots[used[n]].value],
       handles |-> [n \in DOMAIN used |-> ReadHandle(slots[used[n]].handle)]]
=============================================================================
