-------------------------------- MODULE ByKey --------------------------------
(***************************************************************************)
(* Lists of chunks sorted by key (src/chunk/by_key.go). A chunk is its     *)
(* key, and keys are numbers in the order of the external keys.            *)
(***************************************************************************)
EXTENDS Integers, Sequences

(* The list without the repetitions of a sorted one.                       *)
RECURSIVE unique(_)
unique(cs) ==
  IF Len(cs) <= 1 THEN cs
  ELSE IF cs[1] = cs[2] THEN unique(Tail(cs)) ELSE <<cs[1]>> \o unique(Tail(cs))

(* Mutant: what is left of the second list is forgotten.                   *)
RECURSIVE mergeMutant(_, _)
mergeMutant(a, b) ==
  IF a = << >> \/ b = << >> THEN a
  ELSE IF Head(a) < Head(b) THEN <<Head(a)>> \o mergeMutant(Tail(a), b)
  ELSE IF Head(a) > Head(b) THEN <<Head(b)>> \o mergeMutant(a, Tail(b))
  ELSE <<Head(a)>> \o mergeMutant(Tail(a), Tail(b))

RECURSIVE merge(_, _)
merge(a, b) ==
  IF a = << >> \/ b = << >> THEN a \o b
  ELSE IF Head(a) < Head(b) THEN <<Head(a)>> \o merge(Tail(a), b)
  ELSE IF Head(a) > Head(b) THEN <<Head(b)>> \o merge(a, Tail(b))
  ELSE <<Head(a)>> \o merge(Tail(a), Tail(b))

(* Two lists: the one with the smaller head moves on.                      *)
RECURSIVE intersect(_, _)
intersect(left, right) ==
  IF left = << >> \/ right = << >> THEN << >>
  ELSE LET both == IF Head(left) = Head(right) THEN <<Head(left)>> ELSE << >>
       IN both \o (IF Head(left) < Head(right) THEN intersect(Tail(left), right)
                   ELSE intersect(left, Tail(right)))

RECURSIVE nWayIntersect(_)
nWayIntersect(sets) ==
  LET l == Len(sets)
      split == l \div 2
  IN IF l = 0 THEN << >>
     ELSE IF l = 1 THEN sets[1]
     ELSE IF l = 2 THEN intersect(sets[1], sets[2])
     ELSE nWayIntersect(<<nWayIntersect(SubSeq(sets, 1, split)),
                          nWayIntersect(SubSeq(sets, split + 1, l))>>)
====
