---------------------------- MODULE MCSimPerception ----------------------------
EXTENDS SimPerceptionProperties, TLC

SomeFovs == {[angle |-> 2, depth |-> 3], [angle |-> 12, depth |-> 3], [angle |-> 12, depth |-> 2]}
SomeAngles == {-2, 0, 36}
SomeHeadings == {0, 4}
Gate == <<"right", "left">>
SomeFields ==
  {[obstacles |-> {"wide", "narrow", "beside"}, arTags |-> {}, gates |-> {}],
   [obstacles |-> {}, arTags |-> {"tag1", "tag2"}, gates |-> {Gate}],
   [obstacles |-> {"beside"}, arTags |-> {"tag2"}, gates |-> {}]}
WideFovs == {[angle |-> 12, depth |-> 3]}
OnlyObstacles == {[obstacles |-> {"wide", "narrow"}, arTags |-> {}, gates |-> {}]}

MinSizes == (2 :> 10) @@ (3 :> 6)

Item(bearing, dist, half, margin, block, corners) ==
  [bearing |-> bearing, dist |-> dist, half |-> half, margin |-> margin, block |-> block,
   corners |-> corners]

\* From one spot the narrow obstacle stands before the wide one, which stands among
\* others; from the other spot the rover stands on an obstacle and before a post.
FromHere ==
  ("wide"   :> Item(2, 3, 6, 4, 10, 0)) @@ ("narrow" :> Item(0, 2, 2, 0, 6, 0))
  @@ ("beside" :> Item(8, 1, 4, 8, 10, 0))
  @@ ("tag1" :> Item(0, 3, 2, 0, 0, 3)) @@ ("tag2" :> Item(2, 2, 2, 0, 0, 2))
  @@ ("right" :> Item(4, 2, 2, 0, 0, 2)) @@ ("left" :> Item(70, 4, 2, 0, 0, 3))
FromThere ==
  ("wide"   :> Item(0, 0, 12, 12, 36, 0)) @@ ("narrow" :> Item(68, 2, 4, 2, 8, 0))
  @@ ("beside" :> Item(66, 3, 4, 2, 4, 0))
  @@ ("tag1" :> Item(36, 1, 4, 0, 0, 1)) @@ ("tag2" :> Item(0, 2, 2, 0, 0, 2))
  @@ ("right" :> Item(2, 1, 4, 0, 0, 1)) @@ ("left" :> Item(4, 0, 4, 0, 0, 0))
TwoSpots == ("here" :> FromHere) @@ ("there" :> FromThere)

\* Seen all round: the nearer post stands before the other one, both behind the ZED.
AllRoundFovs == {[angle |-> 36, depth |-> 3]}
OnlyTags == {[obstacles |-> {}, arTags |-> {"tag1", "tag2"}, gates |-> {}]}
Behind == "here" :> (("tag1" :> Item(36, 2, 2, 0, 0, 2)) @@ ("tag2" :> Item(35, 1, 4, 0, 0, 1)))
===============================================================================
