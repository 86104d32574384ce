--------------------------- MODULE MCCustomSlots ---------------------------
(* Responses of every shape the walks tell apart: each scalar, lists of      *)
(* numbers, of one, of mixed things and of none, an object in an object, a   *)
(* key no path can spell, more fields and more depth than are offered, and a *)
(* response that is no object at all.                                        *)
EXTENDS CustomSlots

MCBodies ==
  LET n == Scalar("number")  t == Scalar("text") IN
  { Object(<<"a", "b", "c">>, <<n, Scalar("image"), n>>),
    Object(<<"a", "b", "c">>, <<Scalar("null"), Scalar("flag"), t>>),
    Object(<<"a", "b">>, <<List(<<n, n>>), List(<<t>>)>>),
    Object(<<"a", "b", "c">>, <<List(<<>>), Scalar("infinite"), n>>),
    Object(<<Unspeakable, "b">>, <<n, Object(<<"a">>, <<Object(<<"a">>, <<n>>)>>)>>),
    List(<<n>>) }

MCKeys == {"a", "b", "c", Unspeakable}

Inside(values) == values \cup UNION {ToSet(v.items) : v \in values}
MCValues == Inside(Inside(Inside(MCBodies)))

\* A key that is too long for a path.
MCLongPaths == {<<"c">>}

MCTypedPaths == {<<"a">>, <<"b", "a">>, <<Unspeakable>>}
=============================================================================
