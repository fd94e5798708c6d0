---------------------------- MODULE SparseBacking ----------------------------
(***************************************************************************)
(* What the sparse binds of an image promise: each unit of its address      *)
(* ranges is backed by the memory the last bind that named it gave.  Where a *)
(* unit lies among the tiles and mip tails of the layers follows from its    *)
(* place; a bind is asked of every unit, not walked through in rows.         *)
(***************************************************************************)
EXTENDS Integers, Sequences

CONSTANTS NoMem, Tile

VARIABLES
  shape,    \* tiles w, h, d and tail of a layer, layers, first; sizes of the plane and the temporary
  call,     \* the last bind: whole, tail or tiles; its range or box, memory, and the planes it reached
  backing   \* per plane and unit the memory and offset that back it; <<>> when there is no image

Unbound == <<>>

TileUnits(s) == s.w * s.h * s.d * Tile
Layer(s)     == TileUnits(s) + s.tail

(* The place of unit o of plane n in the whole image, and in its mip tail:   *)
(* the tails of the layers, then the temporary.                             *)
InWhole(s, n, o) == IF n = 1 THEN o ELSE s.sizes[1] + o

Nowhere == -1
InTail(s, n, o) ==
  LET behind == (o % Layer(s)) - TileUnits(s)
  IN CASE s.first = 0 -> InWhole(s, n, o)
       [] s.first # 0 /\ n = 2 -> s.layers * s.tail + o
       [] s.first # 0 /\ n = 1 -> IF behind < 0 THEN Nowhere ELSE (o \div Layer(s)) * s.tail + behind

(* The place of a unit in a box of tiles, and whether it is in it.           *)
TileAt(s, o) ==
  LET t == (o % Layer(s)) \div Tile
  IN [x |-> t % s.w, y |-> (t \div s.w) % s.h, z |-> t \div (s.w * s.h)]

Between(n, first, size) == n \in first .. first + size - 1

InBox(s, c, n, o) ==
  /\ n = 1 /\ o \div Layer(s) = c.layer /\ o % Layer(s) < TileUnits(s)
  /\ LET t == TileAt(s, o)
     IN Between(t.x, c.x, c.w) /\ Between(t.y, c.y, c.h) /\ Between(t.z, c.z, c.d)

BoxPlace(s, c, o) ==
  LET t == TileAt(s, o)
  IN (t.x - c.x + (t.y - c.y + (t.z - c.z) * c.h) * c.w) * Tile + (o % Tile)

Page(c, place) == IF c.mem = NoMem THEN Unbound ELSE <<c.mem, c.from + place>>

(* What backs a unit after a bind.                                          *)
Backed(s, c, n, o, old) ==
  IF c.kind = "tiles"
  THEN IF InBox(s, c, n, o) THEN Page(c, BoxPlace(s, c, o)) ELSE old
  ELSE LET place == IF c.kind = "whole" THEN InWhole(s, n, o) ELSE InTail(s, n, o)
       IN IF n <= c.reached /\ Between(place, c.offset, c.size) THEN Page(c, place - c.offset) ELSE old

Bind ==
  LET s   == shape
      c   == call'
      old == backing
  IN /\ call' # <<>>
     /\ backing' = [n \in DOMAIN old |-> [o \in DOMAIN old[n] |-> Backed(s, c, n, o, old[n][o])]]

Nothing ==
  LET s == shape IN [n \in DOMAIN s.sizes |-> [o \in 0 .. s.sizes[n] - 1 |-> Unbound]]

Init == backing = <<>>

(* The image is made without backing, bound or destroyed.                   *)
Next ==
  /\ UNCHANGED shape
  /\ \/ backing = <<>> /\ backing' = Nothing
     \/ backing' = <<>>
     \/ Bind

Spec == Init /\ [][Next]_<<shape, call, backing>>
==============================================================================
