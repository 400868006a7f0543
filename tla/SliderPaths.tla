----------------------------- MODULE SliderPaths -----------------------------
(***************************************************************************)
(* convert_path_str: the control points of a slider, from the parts of its *)
(* path: letters that begin a segment of some type, and positions, which   *)
(* are relative to the slider here.  A part may be neither.                *)
(***************************************************************************)
EXTENDS Integers, SequencesExt, FiniteSetsExt

Type(t) == [is |-> "type", type |-> t]
Pos(x, y) == [is |-> "pos", pos |-> <<x, y>>]
Broken == [is |-> "broken"]   \* read as a position, it is an error
Empty == [is |-> "empty"]     \* so is a part without a first character

Origin == <<0, 0>>
Untyped == "none"

IsLinear(p, q, r) == (q[2] - p[2]) * (r[1] - p[1]) = (q[1] - p[1]) * (r[2] - p[2])

-----------------------------------------------------------------------------
(* convert_points, of one segment; end_point is << >> or the part behind the *)
(* next letter                                                               *)

\* The parts whose positions become vertices.
ReadParts(parts, end_point) == Tail(parts) \o end_point

Vertices(parts, end_point, first) ==
  LET read == ReadParts(parts, end_point)
  IN (IF first THEN <<Origin>> ELSE << >>) \o [i \in DOMAIN read |-> read[i].pos]

\* A perfect curve needs three points that are not on a line.
PathType(parts, vertices) ==
  LET given == IF Head(parts).is = "type" THEN Head(parts).type ELSE "Catmull"
  IN IF given # "PerfectCurve" THEN given
     ELSE IF Len(vertices) # 3 THEN "Bezier"
     ELSE IF IsLinear(vertices[1], vertices[2], vertices[3]) THEN "Linear" ELSE given

\* The vertices that repeat the one before them: each ends a segment and is left out.
\* Neither the last one nor the later ones of a catmull curve do.
Repeats(vertices, end_len, type) ==
  {i \in 2..(Len(vertices) - end_len - 1) :
     vertices[i] = vertices[i - 1] /\ ~(type = "Catmull" /\ i > 2)}

\* Variant of Emitted that takes the first point of the next segment too.
EmittedWithEnd(vertices, end_len, type) ==
  LET Kept(i) == i \notin Repeats(vertices, end_len, type)
  IN SelectSeq([i \in DOMAIN vertices |-> i], Kept)

\* The first point of the next segment is left to that segment, unless there is no other.
Emitted(vertices, end_len, type) ==
  LET Kept(i) == i \notin Repeats(vertices, end_len, type)
  IN SelectSeq([i \in 1..Max({1, Len(vertices) - end_len}) |-> i], Kept)

ConvertPoints(parts, end_point, first) ==
  LET v       == Vertices(parts, end_point, first)
      type    == PathType(parts, v)
      repeats == Repeats(v, Len(end_point), type)
      emitted == Emitted(v, Len(end_point), type)
  IN [k \in DOMAIN emitted |->
        [pos |-> v[emitted[k]],
         type |-> IF emitted[k] = 1 \/ emitted[k] + 1 \in repeats THEN type ELSE Untyped]]

Convertible(parts, end_point, first) ==
  /\ \A p \in Range(ReadParts(parts, end_point)) : p.is = "pos"
  /\ first \/ ReadParts(parts, end_point) # << >>

-----------------------------------------------------------------------------
(* convert_path_str *)

\* Segments begin at the first part and at each letter behind it; the numbers of those
\* before the part that has no first character.
Begins(parts) ==
  {1} \union {i \in 2..Len(parts) : /\ parts[i].is = "type"
                                    /\ \A j \in 2..i : parts[j].is # "empty"}
Whole(parts) == \A j \in 2..Len(parts) : parts[j].is # "empty"

\* The segment that begins at b, with what follows it.  The last one of a path that breaks
\* off is not converted.
Following(parts, b) ==
  LET later == {i \in Begins(parts) : i > b} IN IF later = {} THEN Len(parts) + 1 ELSE Min(later)
Segment(parts, b) == SubSeq(parts, b, Following(parts, b) - 1)
EndPoint(parts, b) == IF Following(parts, b) < Len(parts) THEN <<parts[Following(parts, b) + 1]>>
                      ELSE << >>
Attempted(parts) == IF Whole(parts) THEN Begins(parts) ELSE Begins(parts) \ {Max(Begins(parts))}

Converts(parts, b) == Convertible(Segment(parts, b), EndPoint(parts, b), b = 1)

\* What is converted before the first segment that cannot be.
Converted(parts) ==
  {b \in Attempted(parts) : \A c \in Attempted(parts) : c <= b => Converts(parts, c)}

PathError(parts) == ~Whole(parts) \/ Converted(parts) # Begins(parts)

\* What convert_path_str leaves in curve_points.
CurvePoints(parts) ==
  FlattenSeq([i \in DOMAIN parts |->
    IF i \in Converted(parts)
    THEN ConvertPoints(Segment(parts, i), EndPoint(parts, i), i = 1)
    ELSE << >>])
=============================================================================
