------------------------------ MODULE TileMap -------------------------------
(***************************************************************************)
(* Map::convertCoords(), getTile() and the TILE line of loadMap(): where a *)
(* tile is filed and where it is found.  A tile is reduced to the place of *)
(* the line that made it; size is m_maxMapSize, which a SIZE line sets.    *)
(***************************************************************************)
EXTENDS Integers, TLAPS

CONSTANTS
    Num_Layers,     \* Map.h: Sheet, 4
    UIntRange       \* 2^32, of unsigned int

Places == [x : Nat, y : Nat, layer : Nat]

Sizes == [x : Nat \ {0}, y : Nat \ {0}]

Row(size, p) == p.layer * size.y + p.y

ConvertCoords(size, p) == (Row(size, p) * size.x + p.x) % UIntRange

(* The test of getTile().                                                  *)
InMap(size, p) == p.x < size.x /\ p.y < size.y /\ p.layer < Num_Layers

(* The test of loadMap() on a TILE line.                                   *)
Accepted(size, p) == p.x <= size.x /\ p.y <= size.y /\ p.layer < Num_Layers

(* The first tile of an index stays.                                       *)
LoadTile(tiles, size, p) ==
    IF Accepted(size, p) /\ ConvertCoords(size, p) \notin DOMAIN tiles
    THEN [i \in DOMAIN tiles \cup {ConvertCoords(size, p)} |->
             IF i \in DOMAIN tiles THEN tiles[i] ELSE p]
    ELSE tiles

(* No tile is the empty set.                                               *)
GetTile(tiles, size, p) ==
    IF InMap(size, p) /\ ConvertCoords(size, p) \in DOMAIN tiles
    THEN {tiles[ConvertCoords(size, p)]} ELSE {}

(* What loading leaves if no TILE line names the edge (x the width or y    *)
(* the height, which Accepted lets through) and none precedes the SIZE.    *)
Faithful(tiles, size) ==
    \A i \in DOMAIN tiles :
        /\ tiles[i] \in Places
        /\ InMap(size, tiles[i])
        /\ i = ConvertCoords(size, tiles[i])

(* The indices of the map do not wrap around.                              *)
Fits(size) ==
    /\ UIntRange \in Nat /\ Num_Layers \in Nat
    /\ (Num_Layers * size.y) * size.x <= UIntRange

-----------------------------------------------------------------------------
(* Rows of a width lie apart.                                              *)
LEMMA RowsApart ==
    ASSUME NEW w \in Nat, NEW r \in Nat, NEW s \in Nat, NEW x \in Nat,
           NEW y \in Nat, x < w, r < s
    PROVE  r * w + x < s * w + y
<1>1. PICK d \in Nat : s = (r + 1) + d
  <2>1. s - (r + 1) \in Nat /\ s = (r + 1) + (s - (r + 1))
    OBVIOUS
  <2> QED
    BY <2>1
<1>2. s * w = r * w + w + d * w
  BY <1>1, SMT
<1>3. d * w \in Nat /\ r * w \in Nat
  BY SMT
<1> QED
  BY <1>2, <1>3, SMT

(* Inside the map the index is not reduced by the width of unsigned int.   *)
LEMMA IndexFits ==
    ASSUME NEW size \in Sizes, NEW p \in Places, Fits(size), InMap(size, p)
    PROVE  /\ Row(size, p) \in Nat
           /\ Row(size, p) < Num_Layers * size.y
           /\ Row(size, p) * size.x + p.x \in 0..(UIntRange - 1)
           /\ ConvertCoords(size, p) = Row(size, p) * size.x + p.x
<1> DEFINE w == size.x
           h == size.y
<1>1. w \in Nat /\ h \in Nat /\ p.x \in Nat /\ p.y \in Nat /\ p.layer \in Nat
      /\ p.x < w /\ p.y < h /\ p.layer < Num_Layers
      /\ Num_Layers \in Nat /\ UIntRange \in Nat
  BY DEF Sizes, Places, Fits, InMap
<1>2. Row(size, p) \in Nat
  BY <1>1, SMT DEF Row
<1>3. Row(size, p) < Num_Layers * h
  <2> HIDE DEF h
  <2>1. p.layer * h + p.y < Num_Layers * h + 0
    BY <1>1, RowsApart
  <2>2. Num_Layers * h \in Nat
    BY <1>1, SMT
  <2> QED
    BY <2>1, <2>2, SMT DEF Row, h
<1>4. Row(size, p) * w + p.x < (Num_Layers * h) * w + 0
  <2>1. Num_Layers * h \in Nat
    BY <1>1, SMT
  <2> HIDE DEF w, h
  <2> QED
    BY <1>1, <1>2, <1>3, <2>1, RowsApart
<1>5. Row(size, p) * w + p.x \in Nat /\ (Num_Layers * h) * w \in Nat
  BY <1>1, <1>2, SMT
<1>6. (Num_Layers * h) * w <= UIntRange
  BY DEF Fits
<1>7. Row(size, p) * w + p.x \in 0..(UIntRange - 1)
  <2> HIDE DEF w, h
  <2> QED
    BY <1>1, <1>4, <1>5, <1>6, SMT
<1>8. (Row(size, p) * w + p.x) % UIntRange = Row(size, p) * w + p.x
  <2> DEFINE i == Row(size, p) * w + p.x
  <2>1. i \in 0..(UIntRange - 1)
    BY <1>7
  <2> HIDE DEF i
  <2> QED
    BY <1>1, <2>1, SMT DEF i
<1> QED
  BY <1>2, <1>3, <1>7, <1>8 DEF ConvertCoords

(* No two places of the map share an index (Map.cpp:9-17, 127-129).        *)
THEOREM IndicesApart ==
    ASSUME NEW size \in Sizes, Fits(size), NEW p \in Places, NEW q \in Places,
           InMap(size, p), InMap(size, q),
           ConvertCoords(size, p) = ConvertCoords(size, q)
    PROVE  p = q
<1>1. /\ p.x \in Nat /\ p.y \in Nat /\ p.layer \in Nat
      /\ q.x \in Nat /\ q.y \in Nat /\ q.layer \in Nat
      /\ p = [x |-> p.x, y |-> p.y, layer |-> p.layer]
      /\ q = [x |-> q.x, y |-> q.y, layer |-> q.layer]
      /\ size.x \in Nat /\ size.y \in Nat
      /\ p.x < size.x /\ q.x < size.x /\ p.y < size.y /\ q.y < size.y
  BY DEF Sizes, Places, InMap
<1>2. Row(size, p) \in Nat /\ Row(size, q) \in Nat
      /\ Row(size, p) * size.x + p.x = Row(size, q) * size.x + q.x
  BY IndexFits
<1>3. Row(size, p) = Row(size, q) /\ p.x = q.x
  <2> DEFINE r == Row(size, p)
             s == Row(size, q)
             w == size.x
             a == p.x
             b == q.x
  <2>1. r \in Nat /\ s \in Nat /\ w \in Nat /\ a \in Nat /\ b \in Nat
        /\ a < w /\ b < w /\ r * w + a = s * w + b
    BY <1>1, <1>2
  <2> HIDE DEF r, s, w, a, b
  <2>2. r * w \in Nat /\ s * w \in Nat
    BY <2>1, SMT
  <2>3. ~(r < s)
    BY <2>1, <2>2, RowsApart, SMT
  <2>4. ~(s < r)
    BY <2>1, <2>2, RowsApart, SMT
  <2>5. r = s
    BY <2>1, <2>3, <2>4, SMT
  <2>6. a = b
    BY <2>1, <2>2, <2>5, SMT
  <2> QED
    BY <2>5, <2>6 DEF r, s, a, b
<1>4. p.layer = q.layer /\ p.y = q.y
  <2> DEFINE r == p.layer
             s == q.layer
             w == size.y
             a == p.y
             b == q.y
  <2>1. r \in Nat /\ s \in Nat /\ w \in Nat /\ a \in Nat /\ b \in Nat
        /\ a < w /\ b < w /\ r * w + a = s * w + b
    BY <1>1, <1>3 DEF Row
  <2> HIDE DEF r, s, w, a, b
  <2>2. r * w \in Nat /\ s * w \in Nat
    BY <2>1, SMT
  <2>3. ~(r < s)
    BY <2>1, <2>2, RowsApart, SMT
  <2>4. ~(s < r)
    BY <2>1, <2>2, RowsApart, SMT
  <2>5. r = s
    BY <2>1, <2>3, <2>4, SMT
  <2>6. a = b
    BY <2>1, <2>2, <2>5, SMT
  <2> QED
    BY <2>5, <2>6 DEF r, s, a, b
<1> QED
  BY <1>1, <1>3, <1>4

(* A TILE line inside the map keeps what is on file faithful               *)
(* (Map.cpp:54-68).                                                        *)
LEMMA LoadTileFaithful ==
    ASSUME NEW size \in Sizes, NEW tiles, NEW p \in Places,
           Faithful(tiles, size), InMap(size, p)
    PROVE  Faithful(LoadTile(tiles, size, p), size)
BY DEF Faithful, LoadTile

(* What is found in a faithful map at a place was put there: then movement *)
(* and collision see the tiles the file describes (Map.cpp:9-17).          *)
THEOREM FoundWhereItWasPut ==
    ASSUME NEW size \in Sizes, Fits(size), NEW tiles, Faithful(tiles, size),
           NEW p \in Places
    PROVE  GetTile(tiles, size, p) \subseteq {p}
<1>1. CASE InMap(size, p) /\ ConvertCoords(size, p) \in DOMAIN tiles
  <2> DEFINE q == tiles[ConvertCoords(size, p)]
  <2>1. q \in Places /\ InMap(size, q)
        /\ ConvertCoords(size, p) = ConvertCoords(size, q)
    BY <1>1 DEF Faithful
  <2>2. p = q
    BY <1>1, <2>1, IndicesApart
  <2> QED
    BY <1>1, <2>2 DEF GetTile
<1>2. CASE ~(InMap(size, p) /\ ConvertCoords(size, p) \in DOMAIN tiles)
  BY <1>2 DEF GetTile
<1> QED
  BY <1>1, <1>2

(* Why the edge is excepted: the test of Map.cpp:54 says > where it should *)
(* say >=, and a tile with x = width is found at the start of the next row.*)
THEOREM EdgeIsFoundElsewhere ==
    ASSUME NEW size \in Sizes, NEW p \in Places, p.x = size.x,
           p.y + 1 < size.y, p.layer < Num_Layers, Num_Layers \in Nat,
           NEW q \in Places,
           q = [x |-> 0, y |-> p.y + 1, layer |-> p.layer],
           NEW tiles, ConvertCoords(size, q) \notin DOMAIN tiles
    PROVE  GetTile(LoadTile(tiles, size, p), size, q) = {p}
<1>1. /\ p.x \in Nat /\ p.y \in Nat /\ p.layer \in Nat
      /\ size.x \in Nat \ {0} /\ size.y \in Nat \ {0}
      /\ q.x = 0 /\ q.y = p.y + 1 /\ q.layer = p.layer
  BY DEF Sizes, Places
<1>2. Row(size, q) = Row(size, p) + 1 /\ Row(size, p) \in Nat
  BY <1>1, SMT DEF Row
<1>3. Row(size, q) * size.x + q.x = Row(size, p) * size.x + p.x
  <2> DEFINE r == Row(size, p)
             w == size.x
  <2>1. r \in Nat /\ w \in Nat
    BY <1>1, <1>2
  <2> HIDE DEF r, w
  <2>2. (r + 1) * w + 0 = r * w + w
    BY <2>1, SMT
  <2> QED
    BY <1>1, <1>2, <2>2 DEF r, w
<1>4. ConvertCoords(size, q) = ConvertCoords(size, p)
  BY <1>3 DEF ConvertCoords
<1>5. Accepted(size, p) /\ InMap(size, q)
  BY <1>1, SMT DEF Accepted, InMap
<1> QED
  BY <1>4, <1>5 DEF LoadTile, GetTile
=============================================================================
