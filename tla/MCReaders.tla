----------------------------- MODULE MCReaders ------------------------------
(* Files for both readers.                                                   *)
EXTENDS Readers, Functions

Add(a, b) == a + b

BytesBefore(units, k) ==
  FoldFunctionOnSet(Add, 0, [j \in DOMAIN units |-> units[j].size], 1 .. k - 1)

(* Units next to the limits of a block of 12 bytes: 8 and a long start code  *)
(* or 9 and a short one fill it, 13 does not fit.                            *)
Units == {u \in [size : {4, 5, 8, 9, 13}, len : {3, 4}] : u.size > u.len}

FileOf(units) ==
  [size  |-> BytesBefore(units, Len(units) + 1),
   codes |-> {[at |-> BytesBefore(units, k), len |-> units[k].len] : k \in DOMAIN units}]

MCFiles == {FileOf(units) : units \in UNION {[1 .. n -> Units] : n \in 1 .. 4}}

-----------------------------------------------------------------------------
(* Frames with lengths at the limits of the three bytes, a header that tells *)
(* less than its own size, one without contents, and a file that is cut off. *)
AdtsLengths == {3, 7, 8, 255, 2047, 2048, 8191}

AacUnits == [length : AdtsLengths, other : {0, 31}]

AacBytes(units) == [k \in DOMAIN units |-> [size |-> IF units[k].length < 7 THEN 7 ELSE units[k].length]]

AacFileOf(units, cut) ==
  [size    |-> BytesBefore(AacBytes(units), Len(units) + 1) - cut,
   headers |-> {[at |-> BytesBefore(AacBytes(units), k), length |-> units[k].length,
                 other |-> units[k].other] : k \in DOMAIN units}]

MCAacFiles ==
  {AacFileOf(units, cut) : units \in UNION {[1 .. n -> AacUnits] : n \in 1 .. 3},
                           cut \in {0, 1}}
=============================================================================
