------------------------------- MODULE Items -------------------------------
(***************************************************************************)
(* The item list of one teensy_t and the packet it collects its output in  *)
(* (memory.cpp, io.cpp), as operators without variables.  An item is one   *)
(* data reference a Teensy has registered: its value here, its value as    *)
(* last seen from or sent to the Teensy, and whether the Teensy changed it *)
(* since the last update.  The list has the newest item first.             *)
(*                                                                         *)
(* intval and floatval are one field: a Teensy writes an item with the     *)
(* type it registered it with.  Items of type 0 (commands) are never       *)
(* created, so command_queue is left out; strings are never read.          *)
(*                                                                         *)
(* Numbers are counted in a unit finer than a thousandth, so that the      *)
(* places where the code truncates or rounds can be told apart.            *)
(***************************************************************************)
EXTENDS Naturals, Sequences, SequencesExt

CONSTANTS
  Value,        \* what an int or float can be
  NoValue,      \* MAXINT, "no value known"
  Thousandth,   \* how many units a thousandth has
  One,          \* how many units 1 has
  Narrow,       \* Narrow[v]: the float nearest to the double v
  PacketBytes   \* 64

\* Conversion of a double to an int.
Whole(v) == v - (v % One)

\* "floatTrunc = floatval * 1000.0; floatval = floatTrunc / 1000.0"
Truncated(v) == v - (v % Thousandth)

\* "round(value * 1000.0) / 1000.0"
Rounded(v) == Truncated(v + Thousandth \div 2)

\* A value as an item of the type holds it when it is read, when it comes
\* from a Teensy and when it is sent: items hold doubles, but a float is
\* decoded into a float, and sent as one.
OfType(type, v) == IF type = "int" THEN Whole(v) ELSE v
Heard(type, v) == IF type = "int" THEN v ELSE Narrow[Truncated(v)]
AsSent(type, v) == IF type = "int" THEN v ELSE Narrow[v]

HasItem(items, id) == \E i \in 1 .. Len(items) : items[i].id = id

\* Wrong on purpose: an id that is registered again gets another item.
RegisterItemAgain(items, id, type, mapped) ==
  IF ~mapped THEN items
  ELSE <<[id |-> id, type |-> type, val |-> NoValue, remote |-> NoValue,
          changed |-> FALSE]>> \o items

\* TeensyControls_new_item.  mapped: dataRefNum knows the name.  An item
\* that exists already is kept as it is.
RegisterItem(items, id, type, mapped) ==
  IF ~mapped \/ HasItem(items, id) THEN items
  ELSE <<[id |-> id, type |-> type, val |-> NoValue, remote |-> NoValue,
          changed |-> FALSE]>> \o items

\* Wrong on purpose: the Teensy's value is not remembered as remote.
WriteItemEcho(items, id, v) ==
  [i \in 1 .. Len(items) |->
     IF items[i].id # id THEN items[i]
     ELSE [items[i] EXCEPT !.val = Heard(items[i].type, v), !.changed = TRUE]]

\* Wrong on purpose: changed_by_teensy is not set.
WriteItemUnchanged(items, id, v) ==
  [i \in 1 .. Len(items) |->
     IF items[i].id # id THEN items[i]
     ELSE [items[i] EXCEPT !.val = Heard(items[i].type, v),
                           !.remote = Heard(items[i].type, v)]]

\* decode_packet, write data: ignored for an id that is not in the list; a
\* float loses what is below a thousandth, and is then a float again.
WriteItem(items, id, v) ==
  [i \in 1 .. Len(items) |->
     IF items[i].id # id THEN items[i]
     ELSE [items[i] EXCEPT !.val = Heard(items[i].type, v),
                           !.remote = Heard(items[i].type, v),
                           !.changed = TRUE]]

\* Wrong on purpose: a value read is taken for sent.
ReadItemSent(item, v) == [item EXCEPT !.val = v, !.remote = v]

\* TeensyControls_update_xplane, step 3 for one item: v is what dataRefRead
\* returns.  Only an int forgets its own value when there is none.
ReadItem(item, v) ==
  IF v # NoValue
  THEN [item EXCEPT !.val = OfType(item.type, v)]
  ELSE IF item.type = "int" THEN [item EXCEPT !.val = v, !.remote = v]
  ELSE [item EXCEPT !.remote = v]

Differs(item) == item.val # item.remote

-----------------------------------------------------------------------------
(***************************************************************************)
(* Commands to the Teensy and the packet they are collected in.  out is a  *)
(* record of the packet being filled and the output buffer behind it.      *)
(***************************************************************************)
Enable(ids)  == [op |-> "enable", ids |-> ids]
Data(id, v)  == [op |-> "data", id |-> id, val |-> v]
Bytes(cmd)   == IF cmd.op = "enable" THEN 4 ELSE 10
PacketLen(p) ==
  LET len[n \in 0 .. Len(p)] ==
        IF n = 0 THEN 0 ELSE len[n - 1] + Bytes(p[n])
  IN  len[Len(p)]

\* output_packet: the buffer takes it, or drops it when it is full.
OutputPacket(out, cap) ==
  [packet |-> <<>>,
   ring |-> IF Len(out.ring) < cap THEN Append(out.ring, out.packet)
            ELSE out.ring]

\* Wrong on purpose: "if (output_packet_len > 64)", without datalen.
OutputDataOverfull(out, cmd, cap) ==
  LET room == IF PacketLen(out.packet) > PacketBytes
              THEN OutputPacket(out, cap) ELSE out
  IN  [room EXCEPT !.packet = Append(@, cmd)]

\* output_data
OutputData(out, cmd, cap) ==
  LET room == IF PacketLen(out.packet) + Bytes(cmd) > PacketBytes
              THEN OutputPacket(out, cap) ELSE out
  IN  [room EXCEPT !.packet = Append(@, cmd)]

\* output_flush
OutputFlush(out, cap) ==
  IF out.packet # <<>> THEN OutputPacket(out, cap) ELSE out

\* The loop over the items in TeensyControls_output: a write-data command
\* for each item that differs.
OutputItems(out, items, cap) ==
  LET after[n \in 0 .. Len(items)] ==
        IF n = 0 THEN out
        ELSE IF Differs(items[n])
        THEN OutputData(after[n - 1],
                        Data(items[n].id, AsSent(items[n].type, items[n].val)),
                        cap)
        ELSE after[n - 1]
  IN  after[Len(items)]

\* "item->intval_remote = item->intval", whether or not the buffer took it.
MarkSent(items) ==
  [i \in 1 .. Len(items) |-> [items[i] EXCEPT !.remote = items[i].val]]
=============================================================================
