--------------------------- MODULE SimFieldProperties ---------------------------
(***************************************************************************)
(* What holds of the simulator's field whatever the operator draws, edits, *)
(* uploads and collapses.                                                  *)
(***************************************************************************)
EXTENDS SimField

\* What the items of each list look like
Items ==
  [waypoints |-> [gate : BOOLEAN, search : BOOLEAN],
   arTags |-> [id : 0 .. MaxId],
   gates |-> [orientation : 0 .. Circle - 1],
   obstacles |-> [size : Steps.small .. MaxSize],
   referencePoints |-> {"point"}, repeater |-> {"repeater"}]

IsField(f) ==
  /\ DOMAIN f = Lists
  /\ \A list \in Lists : /\ \A i \in DOMAIN f[list] : f[list][i] \in Items[list]
                         /\ Len(f[list]) <= MaxItems

TypeOK ==
  /\ session \in Sessions
  /\ autonOn \in BOOLEAN /\ roverPath \in BOOLEAN
  /\ drawMode \in Modes \cup {"MOVE_ROVER"} /\ prevDrawMode \in Modes \cup {NoMode}
  /\ \A list \in DOMAIN drawOptions : drawOptions[list] \in Items[list]
  /\ IsField(field) /\ Len(field["repeater"]) <= 1
  /\ testCase = NoFile \/ IsField(testCase)
  /\ reading = NoFile \/ IsField(reading)
  /\ minimized \subseteq Modes /\ collapsed \subseteq Lists
  /\ odomFormat \in Formats /\ itemFormat \in Formats /\ behind \in 0 .. 2
  /\ \A list \in Lists : heights[list] \in Nat

\* A point with a gate is a search point: navigation looks for a gate only when it
\* searches.  It holds of what will be drawn, what is on the field and what is in a
\* test case, whichever of the two boxes is toggled, in the draw module or in an item,
\* before or after an upload (the toggle methods of DrawModule.vue, WaypointItem.vue).
GateIsSearched ==
  LET ok(wp) == wp.gate => wp.search
  IN  /\ ok(drawOptions["waypoints"])
      /\ \A f \in {field, testCase, reading} \ {NoFile} :
           \A i \in DOMAIN f["waypoints"] : ok(f["waypoints"][i])

\* The operator can always leave the mode that moves the rover: it is entered with the
\* mode to return to at hand, however often the held key repeats and whatever mode is
\* picked meanwhile (HotKeys.vue, prevDrawMode).  Neither the mode keys' rotation nor a
\* click leaves that mode.
CanMoveBack ==
  drawMode = "MOVE_ROVER" => prevDrawMode \in Modes

\* The containers of the lists are as high as what they show, after every edit, upload
\* and click on a heading: at the latest when the lists were rendered or measured twice
\* since the odometry format changed.  Once is not enough: what is measured first is
\* items that still have the height of the format before, and if no container's height
\* seems to change by it nothing is measured again (FieldItems.vue, onUpdate and its callers).
HeightsFit == behind = 0 => heights = HeightsIn(odomFormat)

\* The input of a list's draw option: its range, its step, and the value it shows
Input(list) ==
  LET item == drawOptions[list]
  IN  CASE list = "arTags" -> [min |-> 0, max |-> MaxId, step |-> 1, val |-> item.id]
        [] list = "gates" ->
             [min |-> -1, max |-> Circle, step |-> 1, val |-> item.orientation]
        [] list = "obstacles" ->
             [min |-> SizeStep(item.size), max |-> MaxSize, step |-> SizeStep(item.size),
              val |-> item.size]

\* Whatever is typed, and from whatever value earlier entries led to, a number input
\* takes a value of its range that its steps reach from its least one, it takes such a
\* value as it is typed, and it goes the way the operator went unless it is at the end
\* of its range (NumberInput.vue, updateVal).  An obstacle's steps and least size grow with its size.
NumbersAreValid ==
  \A list \in Numbered \cap session :
    LET input == Input(list)
        reached(v) == v \in input.min .. input.max /\ (v - input.min) % input.step = 0
    IN  \A typed \in -input.max - 2 .. 2 * input.max :
          LET new == UpdateVal(typed, input.val, input.min, input.max, input.step)
          IN  /\ reached(new)
              /\ reached(typed) => new = typed
              /\ typed > input.val => new > input.val \/ input.val = input.max
              /\ typed < input.val => new < input.val \/ input.val = input.min
===============================================================================
