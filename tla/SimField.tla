-------------------------------- MODULE SimField --------------------------------
(***************************************************************************)
(* simulators/nav: the field of the simulator and what the operator draws  *)
(* on it: the draw modes and options (HotKeys, DrawModule), the field      *)
(* (Field.vue, store/modules/fieldState.ts) and the lists of its items     *)
(* (FieldItems.vue and the item components).                               *)
(*                                                                         *)
(* A draw mode is named by the list a click adds to.  Where an item lies   *)
(* on the field is left out.                                               *)
(***************************************************************************)
EXTENDS Integers, SequencesExt

CONSTANTS
  MaxItems,    \* bound: items in a list
  MaxId,       \* the largest AR tag id
  Circle,      \* degrees in a circle
  SmallCutoff, MedCutoff,   \* SMALL_OBS_CUTOFF, MED_OBS_CUTOFF
  Steps,       \* [small, med, large |-> .]: the step sizes of an obstacle's size
  MaxSize,     \* the largest size of an obstacle
  Typed,       \* what may be typed into a number input
  ItemLines,   \* [Formats -> .]: how many lines of text an item takes
  Sessions     \* bound: what is used in a session, as sets of Features

\* FieldItemType without MOVE_ROVER, in the order of the draw modes
ModeOrder == <<"waypoints", "arTags", "gates", "obstacles", "referencePoints">>
Modes == ToSet(ModeOrder)
Lists == Modes \cup {"repeater"}
Formats == {"D", "DM", "DMS"}
\* The keys of the draw modes and the rover; the layout of the page; test cases
Features == Lists \cup {"keys", "page", "files"}

\* The steps grow with the size, up to the largest one, and where a step begins the size
\* is one step at least; ((max - min) % step) is 0 for every NumberInput.
ASSUME FieldConstants ==
  /\ MaxItems \in Nat \ {0} /\ MaxId \in Nat /\ Circle \in Nat \ {0}
  /\ Typed \subseteq Int /\ Sessions \subseteq SUBSET Features
  /\ ItemLines \in [Formats -> Nat \ {0}]
  /\ SmallCutoff \in Int /\ MedCutoff \in Int /\ MaxSize \in Nat
  /\ Steps \in [small : Nat \ {0}, med : Nat \ {0}, large : Nat \ {0}]
  /\ Steps.small <= Steps.med /\ Steps.med <= Steps.large
  /\ Steps.med <= SmallCutoff /\ Steps.large <= MedCutoff
  /\ Steps.large <= MaxSize /\ 2 * Steps.small <= MaxSize
  /\ \A step \in {Steps.small, Steps.med, Steps.large} : MaxSize % step = 0

VARIABLES
  session,        \* one of Sessions
  autonOn,
  drawMode, prevDrawMode,
  drawOptions,    \* the next item of each list
  field,          \* [Lists -> Seq of items]; the repeater is a list of at most one
  roverPath,      \* longer than 1
  testCase,       \* the test case downloaded last
  reading,        \* a FileReader is reading it
  odomFormat,
  minimized, collapsed,   \* lists
  heights,        \* of the lists' containers, in lines
  itemFormat,     \* each item's element has the height of this format (style.height)
  behind          \* history: renderings to wait for until the heights fit the format

modes == <<drawMode, prevDrawMode>>
files == <<testCase, reading>>
shown == <<minimized, collapsed>>
layout == <<heights, itemFormat, behind>>
vars == <<session, autonOn, modes, drawOptions, field, roverPath, files, odomFormat,
          shown, layout>>

NoMode == "null"
NoFile == <<>>

-------------------------------------------------------------------------------
(* NumberInput.                                                            *)

\* The remainder of JavaScript has the sign of the dividend.
JsRem(a, b) == IF a >= 0 THEN a % b ELSE -((-a) % b)

\* Mutant: down to the next step, whatever the direction of the change.
UpdateValDown(typed, val, min, max, step) ==
  LET valid == typed - JsRem(typed - min, step)
  IN  IF valid <= min THEN min ELSE IF valid > max THEN max ELSE valid

\* updateVal: to the next step in the direction of the change, then into the range
UpdateVal(typed, val, min, max, step) ==
  LET over == JsRem(typed - min, step)
      valid == IF over = 0 THEN typed
               ELSE IF typed > val THEN typed + step - over ELSE typed - over
  IN  IF valid <= min THEN min ELSE IF valid > max THEN max ELSE valid

\* obstacleSizeStep of the draw module, stepSize of an obstacle's item
SizeStep(size) ==
  IF size < SmallCutoff THEN Steps.small ELSE IF size < MedCutoff THEN Steps.med ELSE Steps.large

\* Mutant: the remainder of a negative angle is taken as it is.
CompassRem(angle) == JsRem(angle, Circle)

\* compassModDeg
CompassMod(angle) == ((angle % Circle) + Circle) % Circle

\* An item with a number typed into its input: the id of a tag, the orientation of a
\* gate (one more than a circle each way), the size of an obstacle.
Entered(list, item, typed) ==
  CASE list = "arTags" -> [id |-> UpdateVal(typed, item.id, 0, MaxId, 1)]
    [] list = "gates" ->
         [orientation |-> CompassMod(UpdateVal(typed, item.orientation, -1, Circle, 1))]
    [] list = "obstacles" ->
         LET step == SizeStep(item.size)
         IN  [size |-> UpdateVal(typed, item.size, step, MaxSize, step)]

\* Mutant: a gate is switched on without the search.
GateToggledAlone(wp) == [wp EXCEPT !.gate = ~@]

\* toggleIsGateSearchPoint and toggleIsSearchPoint, of the draw module and of an item
GateToggled(wp) == [gate |-> ~wp.gate, search |-> wp.search \/ ~wp.gate]
SearchToggled(wp) == [search |-> ~wp.search, gate |-> wp.gate /\ ~wp.search]

-------------------------------------------------------------------------------
(* FieldItems: the height of a list's container.  It is measured, in the   *)
(* format that is on the screen; then each item's element is given the     *)
(* height of its contents, which it keeps until it is measured again.      *)

Higher(a, b) == IF a < b THEN b ELSE a
Fewer(a, b) == IF a < b THEN a ELSE b

\* scrollHeight of a list with n items: `kept' of them are as high as they were given
\* before, the others as their contents.  The contents of the last one may overflow.
ScrollHeight(n, kept, given, content) ==
  IF n > kept THEN kept * given + (n - kept) * content
  ELSE (n - 1) * given + Higher(given, content)

\* update...Height; the repeater is not given a height (updateRrHeight).
Height(list, n, kept, given, content, min, coll) ==
  IF n = 0 \/ list \in coll THEN 0
  ELSE IF list = "repeater" THEN content
  ELSE IF list \in min THEN ScrollHeight(1, Fewer(kept, 1), given, content)
  ELSE ScrollHeight(n, kept, given, content)

\* What the lists on the page take in a format
HeightsIn(format) ==
  [list \in Lists |-> Height(list, Len(field[list]), 0, 0, ItemLines[format],
                            minimized, collapsed)]

\* What is measured of the rendered lists.  The elements are keyed by index: the first
\* ones stay, with the height they were given.
Measured(list, given, content) ==
  Height(list, Len(field'[list]), Fewer(Len(field[list]), Len(field'[list])),
         ItemLines[given], ItemLines[content], minimized', collapsed')

\* Only heights that are new are rendered, and what is rendered is measured again, with
\* items as high as their contents by then.
Settled(before, measured, format) ==
  IF measured = before THEN before ELSE [list \in Lists |-> Measured(list, format, format)]

\* The lists were rendered, or measured, once more.
OnceMore == behind' = IF behind = 0 THEN 0 ELSE behind - 1

\* Mutant: the lists are measured before they are rendered.
MeasuredEarly ==
  heights' = HeightsIn(odomFormat) /\ itemFormat' = odomFormat /\ OnceMore

\* updated(): onUpdate, once the lists on the page are the new ones
Updated ==
  /\ heights' = Settled(heights, [list \in Lists |-> Measured(list, itemFormat, odomFormat)],
                        odomFormat)
  /\ itemFormat' = odomFormat
  /\ OnceMore

-------------------------------------------------------------------------------
(* Draw modes.                                                             *)

\* setTo...DrawMode, selectDrawMode
SetDrawMode(mode) ==
  /\ mode \in session \/ "keys" \in session
  /\ drawMode' = mode
  /\ UNCHANGED <<session, autonOn, prevDrawMode, drawOptions, field, roverPath, files,
                 odomFormat, shown, layout>>

PlaceIn(mode) == SelectInSeq(ModeOrder, LAMBDA m : m = mode)
Rotate(n) == (n % Len(ModeOrder)) + 1

\* Not out of MOVE_ROVER
SetToNextDrawMode ==
  drawMode \in Modes /\ SetDrawMode(ModeOrder[Rotate(PlaceIn(drawMode))])
SetToPrevDrawMode ==
  drawMode \in Modes /\ SetDrawMode(ModeOrder[Rotate(PlaceIn(drawMode) + Len(ModeOrder) - 2)])

\* Mutant: a repeated key saves the mode again.
MoveRoverModeOnAgain ==
  /\ "keys" \in session
  /\ prevDrawMode' = drawMode
  /\ drawMode' = "MOVE_ROVER"
  /\ UNCHANGED <<session, autonOn, drawOptions, field, roverPath, files, odomFormat, shown,
                 layout>>

\* keydown, repeated while the key is held
ToggleMoveRoverModeOn ==
  /\ "keys" \in session
  /\ drawMode # "MOVE_ROVER"
  /\ prevDrawMode' = drawMode
  /\ drawMode' = "MOVE_ROVER"
  /\ UNCHANGED <<session, autonOn, drawOptions, field, roverPath, files, odomFormat, shown,
                 layout>>

ToggleMoveRoverModeOff ==
  /\ prevDrawMode # NoMode
  /\ drawMode' = prevDrawMode
  /\ prevDrawMode' = NoMode
  /\ UNCHANGED <<session, autonOn, drawOptions, field, roverPath, files, odomFormat, shown,
                 layout>>

SetDrawOptions(list, item) ==
  /\ drawOptions' = [drawOptions EXCEPT ![list] = item]
  /\ UNCHANGED <<session, autonOn, modes, field, roverPath, files, odomFormat, shown, layout>>

ToggleOption ==
  /\ drawMode = "waypoints" /\ "waypoints" \in session
  /\ \/ SetDrawOptions("waypoints", SearchToggled(drawOptions["waypoints"]))
     \/ SetDrawOptions("waypoints", GateToggled(drawOptions["waypoints"]))

\* The inputs of the other modes are invisible, not disabled.
EnterOption(list, typed) ==
  /\ list \in session
  /\ SetDrawOptions(list, Entered(list, drawOptions[list], typed))

-------------------------------------------------------------------------------
(* The field and its items.                                                *)

SetField(newField) ==
  /\ field' = newField
  /\ UNCHANGED <<session, autonOn, modes, drawOptions, odomFormat, shown>>
  /\ Updated

\* handleFieldClick
HandleFieldClick ==
  \/ /\ drawMode \in session \cap Modes
     /\ Len(field[drawMode]) < MaxItems
     /\ SetField([field EXCEPT ![drawMode] = Append(@, drawOptions[drawMode])])
     /\ UNCHANGED <<roverPath, files>>
  \/ /\ drawMode = "MOVE_ROVER" /\ ~autonOn
     /\ roverPath' = FALSE
     /\ SetField(field)
     /\ UNCHANGED files

\* The setters of an item: the store changes the item in place, and FieldItems is
\* not rendered again.
EditItem(list, i, item) ==
  /\ field' = [field EXCEPT ![list][i] = item]
  /\ UNCHANGED <<session, autonOn, modes, drawOptions, roverPath, files, odomFormat, shown,
                 layout>>

ToggleItem(i) ==
  \/ EditItem("waypoints", i, SearchToggled(field["waypoints"][i]))
  \/ EditItem("waypoints", i, GateToggled(field["waypoints"][i]))

EnterItem(list, i, typed) == EditItem(list, i, Entered(list, field[list][i], typed))

\* deleteArTagItem, ... ; removeArTag, ...
DeleteItem(list, i) ==
  /\ SetField([field EXCEPT ![list] = RemoveAt(@, i)])
  /\ UNCHANGED <<roverPath, files>>

\* clearArs, ..., and resetRr: the buttons of empty lists are disabled.
ClearList(list) ==
  /\ field[list] # <<>>
  /\ SetField([field EXCEPT ![list] = <<>>])
  /\ UNCHANGED <<roverPath, files>>

ClearRoverPath ==
  /\ roverPath
  /\ roverPath' = FALSE
  /\ SetField(field)
  /\ UNCHANGED files

\* clearField: by shift+backspace even when the button is disabled
ClearField ==
  /\ SetField([list \in Lists |-> IF list = "repeater" THEN field[list] ELSE <<>>])
  /\ roverPath' = FALSE
  /\ UNCHANGED files

\* NavSimulator
DropRepeater ==
  /\ "repeater" \in session /\ field["repeater"] = <<>>
  /\ SetField([field EXCEPT !["repeater"] = <<"repeater">>])
  /\ UNCHANGED <<roverPath, files>>

Drive ==
  /\ "keys" \in session /\ ~roverPath
  /\ roverPath' = TRUE
  /\ SetField(field)
  /\ UNCHANGED files

FlipAutonState ==
  /\ "keys" \in session
  /\ autonOn' = ~autonOn
  /\ UNCHANGED <<session, modes, drawOptions, field, roverPath, files, odomFormat, shown, layout>>

-------------------------------------------------------------------------------
(* Test cases.                                                             *)

\* downloadTestCase: the whole field
DownloadTestCase ==
  /\ "files" \in session
  /\ testCase' = field
  /\ UNCHANGED <<session, autonOn, modes, drawOptions, field, roverPath, reading, odomFormat,
                 shown, layout>>

\* uploadTestCase: what the file holds now is read, one file at a time (bound) ...
UploadTestCase ==
  /\ testCase # NoFile /\ reading = NoFile
  /\ reading' = testCase
  /\ UNCHANGED <<session, autonOn, modes, drawOptions, field, roverPath, testCase, odomFormat,
                 shown, layout>>

\* ... and takes the place of the field when the reader is done (setFieldState),
\* but for the reference points and the rover's path.
Onload ==
  /\ reading # NoFile
  /\ SetField([reading EXCEPT !["referencePoints"] = field["referencePoints"]])
  /\ reading' = NoFile
  /\ UNCHANGED <<roverPath, testCase>>

-------------------------------------------------------------------------------
(* The lists on the page.                                                  *)

\* collapseWps, ...: expanded, minimized, collapsed, in this order; the repeater
\* is only collapsed and expanded (collapseRr).  This list is measured at once, and
\* again with all of them when they are rendered.
Collapse(list) ==
  /\ {"page", list} \subseteq session
  /\ IF list \in minimized THEN minimized' = minimized \ {list} /\ collapsed' = collapsed \cup {list}
     ELSE IF list \in collapsed THEN collapsed' = collapsed \ {list} /\ UNCHANGED minimized
     ELSE IF list = "repeater" THEN collapsed' = collapsed \cup {list} /\ UNCHANGED minimized
     ELSE minimized' = minimized \cup {list} /\ UNCHANGED collapsed
  /\ UNCHANGED <<session, autonOn, modes, drawOptions, field, roverPath, files, odomFormat>>
  /\ heights' = Settled([heights EXCEPT ![list] = Measured(list, itemFormat, odomFormat)],
                        [l \in Lists |-> Measured(l, IF l = list THEN odomFormat ELSE itemFormat,
                                                  odomFormat)],
                        odomFormat)
  /\ itemFormat' = odomFormat
  /\ OnceMore

\* onOdomFormatChange runs before the items are rendered in the new format.  FieldItems
\* itself is rendered only if that changes a height.
SetOdomFormat(format) ==
  LET before == [list \in Lists |-> Measured(list, itemFormat, odomFormat)]
      after == [list \in Lists |-> Measured(list, odomFormat, format)]
  IN  /\ "page" \in session /\ format # odomFormat
      /\ odomFormat' = format
      /\ UNCHANGED <<session, autonOn, modes, drawOptions, field, roverPath, files, shown>>
      /\ \/ /\ before = heights
            /\ heights' = heights /\ itemFormat' = odomFormat /\ behind' = 2
         \/ /\ before # heights
            /\ heights' = Settled(before, after, format) /\ itemFormat' = format /\ behind' = 1

\* The window's resize event: onUpdate
Resize ==
  /\ "page" \in session
  /\ UNCHANGED <<session, autonOn, modes, drawOptions, field, roverPath, files, odomFormat, shown>>
  /\ Updated

Init ==
  /\ session \in Sessions
  /\ autonOn = FALSE
  /\ drawMode = "waypoints" /\ prevDrawMode = NoMode
  /\ drawOptions = [waypoints |-> [gate |-> FALSE, search |-> TRUE],
                    arTags |-> [id |-> 0], gates |-> [orientation |-> 0],
                    obstacles |-> [size |-> 2 * Steps.small],
                    referencePoints |-> "point"]
  /\ field = [list \in Lists |-> <<>>]
  /\ roverPath = FALSE
  /\ testCase = NoFile /\ reading = NoFile
  /\ odomFormat = "DM"
  /\ minimized = {} /\ collapsed = {}
  /\ heights = [list \in Lists |-> 0] /\ itemFormat = "DM" /\ behind = 0

Numbered == {"arTags", "gates", "obstacles"}

Draw ==
  \/ \E mode \in Modes : SetDrawMode(mode)
  \/ SetToNextDrawMode \/ SetToPrevDrawMode
  \/ ToggleMoveRoverModeOn \/ ToggleMoveRoverModeOff
  \/ ToggleOption
  \/ \E list \in Numbered, typed \in Typed : EnterOption(list, typed)
  \/ HandleFieldClick

Edit ==
  \/ \E i \in DOMAIN field["waypoints"] : ToggleItem(i)
  \/ \E list \in Numbered, typed \in Typed : \E i \in DOMAIN field[list] : EnterItem(list, i, typed)
  \/ \E list \in Modes : \E i \in DOMAIN field[list] : DeleteItem(list, i)
  \/ \E list \in Lists : ClearList(list)
  \/ ClearRoverPath \/ ClearField

Next ==
  \/ Draw \/ Edit
  \/ FlipAutonState \/ DropRepeater \/ Drive
  \/ DownloadTestCase \/ UploadTestCase \/ Onload
  \/ \E list \in Lists : Collapse(list)
  \/ \E format \in Formats : SetOdomFormat(format)
  \/ Resize

Spec == Init /\ [][Next]_vars
===============================================================================
