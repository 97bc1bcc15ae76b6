----------------------------- MODULE SimFieldProofs -----------------------------
(***************************************************************************)
(* The simulator's field, for any lists, numbers typed and use of the      *)
(* features: what is drawn, edited and uploaded stays valid, the mode that *)
(* moves the rover can be left, and the lists fit on the page.             *)
(***************************************************************************)
EXTENDS SimFieldProperties, TLAPS

\* The items of a list; a waypoint with a gate is searched for.
Valid(list) ==
  {item \in Items[list] : list = "waypoints" => (item.gate => item.search)}

\* A field, of valid items; there is one repeater at most.
FieldOk(f) ==
  /\ DOMAIN f = Lists
  /\ \A list \in Lists : f[list] \in Seq(Valid(list)) /\ Len(f[list]) <= MaxItems
  /\ Len(f["repeater"]) <= 1

OptionsOk ==
  DOMAIN drawOptions = Modes /\ \A list \in Modes : drawOptions[list] \in Valid(list)

ModesOk == drawMode \in Modes \cup {"MOVE_ROVER"} /\ prevDrawMode \in Modes \cup {NoMode}

FileOk(f) == f = NoFile \/ FieldOk(f)

PageOk ==
  /\ odomFormat \in Formats /\ minimized \subseteq Modes /\ collapsed \subseteq Lists
  /\ itemFormat \in Formats /\ behind \in 0 .. 2 /\ (behind # 2 => itemFormat = odomFormat)
  /\ \A list \in Lists : heights[list] \in Nat

\* The inductive invariant.
FInv ==
  /\ session \in Sessions /\ autonOn \in BOOLEAN /\ roverPath \in BOOLEAN
  /\ ModesOk /\ CanMoveBack
  /\ OptionsOk /\ FieldOk(field) /\ FileOk(testCase) /\ FileOk(reading)
  /\ PageOk /\ HeightsFit

-------------------------------------------------------------------------------
(* Numbers.                                                                *)

\* A number is so many times a divisor, and a remainder.
LEMMA Quotient ==
  ASSUME NEW n \in Int, NEW d \in Nat \ {0}
  PROVE  n \div d \in Int /\ n % d \in 0 .. d - 1 /\ n = d * (n \div d) + (n % d)
OBVIOUS

\* Without the remainder, it is a multiple of the divisor.
LEMMA RoundedDown ==
  ASSUME NEW n \in Int, NEW d \in Nat \ {0} PROVE (n - (n % d)) % d = 0
OBVIOUS

\* The remainder of a number that is not negative is not larger than it.
LEMMA SmallRemainder == ASSUME NEW n \in Nat, NEW d \in Nat \ {0} PROVE n % d <= n
OBVIOUS

LEMMA Multiples ==
  ASSUME NEW n \in Int, NEW d \in Nat \ {0}
  PROVE  n % d = 0 <=> \E k \in Int : n = d * k
<1>1. ASSUME NEW k \in Int, n = d * k PROVE n % d = 0
  BY <1>1
<1>2. ASSUME n % d = 0 PROVE n = d * (n \div d)
  BY <1>2, Quotient
<1>. QED BY <1>1, <1>2, Quotient

\* Sums, differences and negatives of multiples are multiples.
LEMMA MultiplesAddUp ==
  ASSUME NEW n \in Int, NEW m \in Int, NEW d \in Nat \ {0}, n % d = 0, m % d = 0
  PROVE  (n + m) % d = 0 /\ (n - m) % d = 0 /\ (-n) % d = 0
<1>1. PICK k \in Int : n = d * k
  BY Multiples
<1>2. PICK l \in Int : m = d * l
  BY Multiples
<1>3. n + m = d * (k + l) /\ n - m = d * (k - l) /\ -n = d * (-k)
  BY <1>1, <1>2
<1>4. k + l \in Int /\ k - l \in Int /\ -k \in Int
  OBVIOUS
<1>5. n + m \in Int /\ n - m \in Int /\ -n \in Int
  OBVIOUS
<1>. QED BY <1>3, <1>4, <1>5, Multiples

\* The remainder of JavaScript leads to a multiple of the divisor too, toward 0: it has
\* the sign of the number and is not larger.
LEMMA JsRemainder ==
  ASSUME NEW n \in Int, NEW d \in Nat \ {0}
  PROVE  /\ JsRem(n, d) \in Int /\ (n - JsRem(n, d)) % d = 0
         /\ n >= 0 => JsRem(n, d) \in 0 .. d - 1
         /\ n < 0 => JsRem(n, d) \in n .. 0
<1>1. CASE n >= 0
  <2>1. JsRem(n, d) = n % d
    BY <1>1 DEF JsRem
  <2>2. JsRem(n, d) \in 0 .. d - 1 /\ (n - JsRem(n, d)) % d = 0
    BY <2>1, Quotient, RoundedDown
  <2>. QED BY <1>1, <2>2
<1>2. CASE n < 0
  <2>1. -n \in Nat /\ JsRem(n, d) = -((-n) % d)
    BY <1>2 DEF JsRem
  <2>2. (-n) % d \in 0 .. d - 1 /\ (-n) % d <= -n /\ ((-n) - ((-n) % d)) % d = 0
    <3>1. -n \in Int
      OBVIOUS
    <3>2. ((-n) - ((-n) % d)) % d = 0
      BY <3>1, RoundedDown
    <3>. QED BY <2>1, <3>1, <3>2, Quotient, SmallRemainder
  <2>3. PICK rem \in Int : rem = (-n) % d
    BY <2>2
  <2>4. JsRem(n, d) = -rem /\ rem \in 0 .. d - 1 /\ rem <= -n /\ ((-n) - rem) % d = 0
    BY <2>1, <2>2, <2>3
  <2>5. (-n) - rem \in Int /\ -((-n) - rem) = n - JsRem(n, d)
    BY <2>3, <2>4
  <2>6. (n - JsRem(n, d)) % d = 0
    BY <2>4, <2>5, MultiplesAddUp
  <2>. QED BY <1>2, <2>3, <2>4, <2>6
<1>. QED BY <1>1, <1>2

\* A number input takes values of its range only.
LEMMA UpdateValInRange ==
  ASSUME NEW typed \in Int, NEW val \in Int, NEW min \in Int, NEW max \in Int, min <= max,
         NEW step \in Nat \ {0}
  PROVE  UpdateVal(typed, val, min, max, step) \in min .. max
<1>1. JsRem(typed - min, step) \in Int
  BY DEF JsRem
<1>. DEFINE over == JsRem(typed - min, step)
            valid == IF over = 0 THEN typed
                     ELSE IF typed > val THEN typed + step - over ELSE typed - over
<1>2. valid \in Int
  BY <1>1
<1>3. UpdateVal(typed, val, min, max, step) =
        IF valid <= min THEN min ELSE IF valid > max THEN max ELSE valid
  BY DEF UpdateVal
<1>. HIDE DEF valid
<1>. QED BY <1>2, <1>3

\* From a value of its range, a number input goes to a value its steps reach, takes such
\* a value as it is typed, and goes the way the operator went unless it is at the end.
LEMMA UpdateValSteps ==
  ASSUME NEW typed \in Int, NEW min \in Int, NEW max \in Int, NEW val \in min .. max,
         NEW step \in Nat \ {0}, (max - min) % step = 0
  PROVE  LET new == UpdateVal(typed, val, min, max, step)
             reached(v) == v \in min .. max /\ (v - min) % step = 0
         IN  /\ reached(new)
             /\ reached(typed) => new = typed
             /\ typed > val => new > val \/ val = max
             /\ typed < val => new < val \/ val = min
<1>. DEFINE over == JsRem(typed - min, step)
            valid == IF over = 0 THEN typed
                     ELSE IF typed > val THEN typed + step - over ELSE typed - over
            new == UpdateVal(typed, val, min, max, step)
<1>1. typed - min \in Int
  OBVIOUS
<1>2. /\ over \in Int /\ ((typed - min) - over) % step = 0
      /\ typed >= min => over \in 0 .. step - 1
      /\ typed < min => over \in typed - min .. 0
  BY <1>1, JsRemainder
<1>3. new = IF valid <= min THEN min ELSE IF valid > max THEN max ELSE valid
  BY DEF UpdateVal
<1>4. (typed - min) % step = 0 /\ typed >= min => over = 0
  BY <1>1 DEF JsRem
<1>. HIDE DEF over
<1>5. valid \in Int
  BY <1>2
<1>6. (valid - min) % step = 0
  <2>1. step % step = 0 /\ step \in Int
    OBVIOUS
  <2>. PICK rounded \in Int : rounded = (typed - min) - over
    BY <1>2
  <2>2. (rounded + step) % step = 0
    BY <1>2, <2>1, MultiplesAddUp
  <2>3. valid - min = (typed - min) - over \/ valid - min = ((typed - min) - over) + step
    BY <1>2
  <2>. QED BY <1>2, <2>2, <2>3
<1>7. typed > val => valid > val
  BY <1>2
<1>8. typed <= val => IF typed >= min THEN valid <= typed ELSE valid <= min
  BY <1>2
<1>9. over = 0 => valid = typed
  OBVIOUS
<1>. HIDE DEF valid, new
<1>10. new \in min .. max /\ (new - min) % step = 0
  <2>1. (min - min) % step = 0
    OBVIOUS
  <2>. QED BY <1>3, <1>5, <1>6, <2>1
<1>11. typed \in min .. max /\ (typed - min) % step = 0 => new = typed
  BY <1>3, <1>4, <1>9
<1>12. typed > val => new > val \/ val = max
  BY <1>3, <1>5, <1>7
<1>13. typed < val => new < val \/ val = min
  BY <1>3, <1>5, <1>8
<1>. QED BY <1>10, <1>11, <1>12, <1>13 DEF new

\* An obstacle is one of its steps large at least.
LEMMA StepFits ==
  ASSUME NEW size \in Steps.small .. MaxSize
  PROVE  /\ SizeStep(size) \in Nat \ {0} /\ SizeStep(size) <= size
         /\ MaxSize \in Int /\ (MaxSize - SizeStep(size)) % SizeStep(size) = 0
<1>1. /\ SizeStep(size) \in {Steps.small, Steps.med, Steps.large}
      /\ SizeStep(size) \in Nat \ {0} /\ SizeStep(size) <= size
  BY FieldConstants DEF SizeStep
<1>2. MaxSize \in Int /\ MaxSize % SizeStep(size) = 0
  BY <1>1, FieldConstants
<1>. PICK step \in Nat \ {0} : step = SizeStep(size)
  BY <1>1
<1>3. step \in Int /\ step % step = 0 /\ MaxSize % step = 0
  BY <1>2
<1>4. (MaxSize - step) % step = 0
  BY <1>2, <1>3, MultiplesAddUp
<1>. QED BY <1>1, <1>2, <1>4

\* A remainder is less than its divisor.
LEMMA RemainderInRange ==
  ASSUME NEW n \in Int, NEW divisor \in Int, divisor > 0
  PROVE  n % divisor \in 0 .. divisor - 1
OBVIOUS

\* An orientation is an angle of the circle.
LEMMA CompassModInRange ==
  ASSUME NEW angle \in Int PROVE CompassMod(angle) \in 0 .. Circle - 1
<1>1. Circle \in Int /\ Circle > 0
  BY FieldConstants
<1>2. angle % Circle \in 0 .. Circle - 1
  BY <1>1, RemainderInRange
<1>. DEFINE turned == (angle % Circle) + Circle
<1>3. turned \in Int /\ CompassMod(angle) = turned % Circle
  BY <1>1, <1>2 DEF CompassMod
<1>. HIDE DEF turned
<1>. QED BY <1>1, <1>3, RemainderInRange

\* Whatever is typed into an item's input, the item stays one of its list.
LEMMA EnteredIsItem ==
  ASSUME NEW list \in Numbered, NEW item \in Items[list], NEW typed \in Int
  PROVE  Entered(list, item, typed) \in Items[list]
<1>1. CASE list = "arTags"
  <2>1. item.id \in Int /\ MaxId \in Nat
    BY <1>1, FieldConstants DEF Items
  <2>2. UpdateVal(typed, item.id, 0, MaxId, 1) \in 0 .. MaxId
    BY <2>1, UpdateValInRange
  <2>. QED BY <1>1, <2>2 DEF Entered, Items
<1>2. CASE list = "gates"
  <2>1. item.orientation \in Int /\ Circle \in Nat /\ -1 <= Circle
    BY <1>2, FieldConstants DEF Items
  <2>2. UpdateVal(typed, item.orientation, -1, Circle, 1) \in Int
    <3>. DEFINE min == -1
    <3>1. min \in Int /\ min <= Circle /\ 1 \in Nat \ {0}
      BY <2>1
    <3>. HIDE DEF min
    <3>2. UpdateVal(typed, item.orientation, min, Circle, 1) \in min .. Circle
      BY <2>1, <3>1, UpdateValInRange
    <3>3. UpdateVal(typed, item.orientation, min, Circle, 1) \in Int
      BY <2>1, <3>1, <3>2
    <3>. QED BY <3>3 DEF min
  <2>3. CompassMod(UpdateVal(typed, item.orientation, -1, Circle, 1)) \in 0 .. Circle - 1
    BY <2>2, CompassModInRange
  <2>. QED BY <1>2, <2>3 DEF Entered, Items
<1>3. CASE list = "obstacles"
  <2>1. item.size \in Int /\ MaxSize \in Nat
    BY <1>3, FieldConstants DEF Items
  <2>2. /\ SizeStep(item.size) \in Nat \ {0}
        /\ Steps.small <= SizeStep(item.size) /\ SizeStep(item.size) <= MaxSize
    <3>1. SizeStep(item.size) \in {Steps.small, Steps.med, Steps.large}
      BY DEF SizeStep
    <3>2. /\ Steps.small \in Nat \ {0} /\ Steps.med \in Nat \ {0} /\ Steps.large \in Nat \ {0}
          /\ Steps.small <= Steps.med /\ Steps.med <= Steps.large /\ Steps.large <= MaxSize
      BY FieldConstants
    <3>. QED BY <2>1, <3>1, <3>2
  <2>. DEFINE step == SizeStep(item.size)
  <2>3. UpdateVal(typed, item.size, step, MaxSize, step) \in step .. MaxSize
    <3>1. /\ step \in Nat \ {0} /\ step \in Int /\ MaxSize \in Int
          /\ step <= MaxSize
      BY <2>1, <2>2
    <3>. HIDE DEF step
    <3>. QED BY <2>1, <3>1, UpdateValInRange
  <2>4. Entered(list, item, typed) = [size |-> UpdateVal(typed, item.size, step, MaxSize, step)]
    BY <1>3 DEF Entered
  <2>5. Items[list] = [size : Steps.small .. MaxSize]
    BY <1>3 DEF Items
  <2>6. Steps.small \in Nat
    BY FieldConstants
  <2>. HIDE DEF step
  <2>7. UpdateVal(typed, item.size, step, MaxSize, step) \in Steps.small .. MaxSize
    BY <2>1, <2>2, <2>3, <2>6 DEF step
  <2>. QED BY <2>4, <2>5, <2>7
<1>. QED BY <1>1, <1>2, <1>3 DEF Numbered

\* Toggling either box leaves a point with a gate a search point.
LEMMA ToggledIsSearched ==
  ASSUME NEW wp \in Items["waypoints"]
  PROVE  /\ SearchToggled(wp) \in Items["waypoints"] /\ GateToggled(wp) \in Items["waypoints"]
         /\ SearchToggled(wp).gate => SearchToggled(wp).search
         /\ GateToggled(wp).gate => GateToggled(wp).search
<1>1. wp.gate \in BOOLEAN /\ wp.search \in BOOLEAN
  BY DEF Items
<1>. QED BY <1>1 DEF SearchToggled, GateToggled, Items

\* An item taken away leaves a list of such items, one shorter.
LEMMA RemovedIsShorter ==
  ASSUME NEW S, NEW s \in Seq(S), NEW i \in DOMAIN s
  PROVE  RemoveAt(s, i) \in Seq(S) /\ Len(RemoveAt(s, i)) = Len(s) - 1
<1>1. i \in 1 .. Len(s) /\ Len(s) \in Nat
  OBVIOUS
<1>2. SubSeq(s, 1, i - 1) \in Seq(S) /\ Len(SubSeq(s, 1, i - 1)) = i - 1
  BY <1>1
<1>3. SubSeq(s, i + 1, Len(s)) \in Seq(S) /\ Len(SubSeq(s, i + 1, Len(s))) = Len(s) - i
  BY <1>1
<1>4. ASSUME NEW a \in Seq(S), NEW b \in Seq(S)
      PROVE  a \o b \in Seq(S) /\ Len(a \o b) = Len(a) + Len(b)
  OBVIOUS
<1>. DEFINE a == SubSeq(s, 1, i - 1)
            b == SubSeq(s, i + 1, Len(s))
<1>5. RemoveAt(s, i) = a \o b
  BY DEF RemoveAt
<1>6. a \o b \in Seq(S) /\ Len(a \o b) = Len(a) + Len(b)
  BY <1>2, <1>3, <1>4
<1>7. Len(a) = i - 1 /\ Len(b) = Len(s) - i /\ i \in Int /\ Len(s) \in Int
  BY <1>1, <1>2, <1>3
<1>. HIDE DEF a, b
<1>. QED BY <1>5, <1>6, <1>7

-------------------------------------------------------------------------------
(* The page.                                                               *)

\* A height is a number of lines; it is that of the contents, once the items were given
\* the height of these.
LEMMA HeightOfList ==
  ASSUME NEW list, NEW n \in Nat, NEW kept \in 0 .. n, NEW given \in Nat, NEW content \in Nat,
         NEW min, NEW coll
  PROVE  /\ Height(list, n, kept, given, content, min, coll) \in Nat
         /\ Height(list, n, kept, content, content, min, coll)
              = Height(list, n, 0, 0, content, min, coll)
<1>1. ASSUME NEW m \in Nat \ {0}, NEW k \in 0 .. m, NEW g \in Nat
      PROVE  ScrollHeight(m, k, g, content) \in Nat
  <2>1. k * g \in Nat /\ (m - k) * content \in Nat /\ (m - 1) * g \in Nat
    <3>1. k \in Nat /\ m - k \in Nat /\ m - 1 \in Nat
      OBVIOUS
    <3>2. \A a, b \in Nat : a * b \in Nat
      OBVIOUS
    <3>. QED BY <3>1, <3>2
  <2>2. Higher(g, content) \in Nat
    BY DEF Higher
  <2>. QED BY <2>1, <2>2 DEF ScrollHeight
<1>2. ASSUME NEW m \in Nat \ {0}, NEW k \in 0 .. m
      PROVE  ScrollHeight(m, k, content, content) = m * content
  <2>1. k * content + (m - k) * content = m * content /\ (m - 1) * content + content = m * content
    OBVIOUS
  <2>. QED BY <2>1 DEF ScrollHeight, Higher
<1>3. ASSUME NEW m \in Nat \ {0} PROVE ScrollHeight(m, 0, 0, content) = m * content
  <2>1. 0 * 0 + (m - 0) * content = m * content
    OBVIOUS
  <2>. QED BY <2>1 DEF ScrollHeight
<1>4. Fewer(kept, 1) \in 0 .. 1 /\ Fewer(0, 1) = 0 /\ 1 \in Nat \ {0}
  BY DEF Fewer
<1>5. ASSUME n # 0 PROVE n \in Nat \ {0}
  BY <1>5
<1>6. Height(list, n, kept, given, content, min, coll) \in Nat
  BY <1>1, <1>4, <1>5 DEF Height
<1>7. ScrollHeight(1, Fewer(kept, 1), content, content) = ScrollHeight(1, Fewer(0, 1), 0, content)
  BY <1>2, <1>3, <1>4
<1>8. n # 0 => ScrollHeight(n, kept, content, content) = ScrollHeight(n, 0, 0, content)
  BY <1>2, <1>3, <1>5
<1>. QED BY <1>6, <1>7, <1>8 DEF Height

\* The lists a click adds to; no one is the repeater.
LEMMA ModesAre ==
  /\ Modes = {"waypoints", "arTags", "gates", "obstacles", "referencePoints"}
  /\ "repeater" \notin Modes /\ "MOVE_ROVER" \notin Modes /\ NoMode \notin Modes
<1>1. ModeOrder = <<"waypoints", "arTags", "gates", "obstacles", "referencePoints">>
  BY DEF ModeOrder
<1>2. Modes = {"waypoints", "arTags", "gates", "obstacles", "referencePoints"}
  BY <1>1 DEF Modes, ToSet
<1>. QED BY <1>2 DEF NoMode

\* The keys that rotate the draw modes reach draw modes only.
LEMMA RotatedIsMode ==
  ASSUME NEW mode \in Modes
  PROVE  /\ ModeOrder[Rotate(PlaceIn(mode))] \in Modes
         /\ ModeOrder[Rotate(PlaceIn(mode) + Len(ModeOrder) - 2)] \in Modes
<1>1. ModeOrder = <<"waypoints", "arTags", "gates", "obstacles", "referencePoints">>
  BY DEF ModeOrder
<1>2. Len(ModeOrder) = 5 /\ \A k \in 1 .. 5 : ModeOrder[k] \in Modes
  BY <1>1, ModesAre
<1>3. PlaceIn(mode) \in Int
  <2>. DEFINE places == {k \in 1 .. Len(ModeOrder) : ModeOrder[k] = mode}
  <2>1. PICK k \in 1 .. 5 : ModeOrder[k] = mode
    BY <1>1, ModesAre
  <2>2. places = {k}
    BY <1>1, <1>2, <2>1
  <2>3. Min(places) = k
    BY <2>2 DEF Min
  <2>4. PlaceIn(mode) = IF places # {} THEN Min(places) ELSE 0
    BY DEF PlaceIn, SelectInSeq
  <2>. QED BY <2>2, <2>3, <2>4
<1>4. \A n \in Int : Rotate(n) \in 1 .. 5
  BY <1>2 DEF Rotate
<1>. QED BY <1>2, <1>3, <1>4

\* A field keeps its form when one of its lists becomes another one of such items.
LEMMA OneListKeeps ==
  ASSUME NEW f, FieldOk(f), NEW list \in Lists, NEW listed \in Seq(Valid(list)),
         Len(listed) <= MaxItems, list = "repeater" => Len(listed) <= 1
  PROVE  FieldOk([f EXCEPT ![list] = listed])
BY DEF FieldOk, Lists

\* A height that is measured is a number; measured again it is what the list takes.
LEMMA MeasuredFits ==
  ASSUME FieldOk(field), FieldOk(field'), NEW list \in Lists,
         NEW given \in Formats, NEW content \in Formats
  PROVE  /\ Measured(list, given, content) \in Nat
         /\ Measured(list, content, content) = HeightsIn(content)'[list]
<1>1. Len(field[list]) \in Nat /\ Len(field'[list]) \in Nat
  BY DEF FieldOk
<1>2. ItemLines[given] \in Nat /\ ItemLines[content] \in Nat
  BY FieldConstants
<1>3. Fewer(Len(field[list]), Len(field'[list])) \in 0 .. Len(field'[list])
  BY <1>1 DEF Fewer
<1>4. HeightsIn(content)'[list]
        = Height(list, Len(field'[list]), 0, 0, ItemLines[content], minimized', collapsed')
  BY DEF HeightsIn
<1>. QED BY <1>1, <1>2, <1>3, <1>4, HeightOfList DEF Measured

\* If what is measured fits, so does what the page settles on.
LEMMA Settles ==
  ASSUME FieldOk(field), FieldOk(field'), NEW format \in Formats, NEW before, NEW measured,
         \A list \in Lists : measured[list] \in Nat
  PROVE  /\ \A list \in Lists : Settled(before, measured, format)[list] \in Nat
         /\ measured = HeightsIn(format)' => Settled(before, measured, format) = HeightsIn(format)'
<1>1. \A list \in Lists : /\ Measured(list, format, format) \in Nat
                         /\ Measured(list, format, format) = HeightsIn(format)'[list]
  BY MeasuredFits
<1>2. [list \in Lists |-> Measured(list, format, format)] = HeightsIn(format)'
  <2>1. HeightsIn(format)' = [list \in Lists |-> HeightsIn(format)'[list]]
    BY DEF HeightsIn
  <2>. QED BY <1>1, <2>1
<1>3. CASE measured = before
  BY <1>3 DEF Settled
<1>4. CASE measured # before
  BY <1>1, <1>2, <1>4 DEF Settled
<1>. QED BY <1>3, <1>4

\* Measured once more, after the items were given the height of the format on the page,
\* the lists fit.  `given' is the format of each list's items before.
LEMMA MeasuredAgainFits ==
  ASSUME FInv, FieldOk(field'), UNCHANGED odomFormat, OnceMore, itemFormat' = odomFormat,
         minimized' \subseteq Modes, collapsed' \subseteq Lists,
         NEW before, NEW given, \A list \in Lists : given[list] \in {itemFormat, odomFormat},
         heights' = Settled(before, [list \in Lists |-> Measured(list, given[list], odomFormat)],
                            odomFormat)
  PROVE  PageOk' /\ HeightsFit'
<1>. DEFINE measured == [list \in Lists |-> Measured(list, given[list], odomFormat)]
<1>1. /\ FieldOk(field) /\ itemFormat \in Formats /\ odomFormat \in Formats
      /\ behind \in 0 .. 2 /\ (behind # 2 => itemFormat = odomFormat)
  BY DEF FInv, PageOk
<1>2. \A list \in Lists : measured[list] \in Nat
  BY <1>1, MeasuredFits
<1>3. behind # 2 => measured = HeightsIn(odomFormat)'
  <2>. SUFFICES ASSUME behind # 2 PROVE measured = HeightsIn(odomFormat)'
    OBVIOUS
  <2>. PICK format \in Formats : format = odomFormat
    BY <1>1
  <2>1. HeightsIn(format)' = [list \in Lists |-> HeightsIn(format)'[list]]
    BY DEF HeightsIn
  <2>2. \A list \in Lists : measured[list] = HeightsIn(format)'[list]
    BY <1>1, MeasuredFits
  <2>3. HeightsIn(odomFormat)' = HeightsIn(format)'
    BY DEF HeightsIn
  <2>. QED BY <2>1, <2>2, <2>3
<1>4. behind' \in 0 .. 2 /\ behind' # 2 /\ (behind' = 0 => behind # 2)
  BY <1>1 DEF OnceMore
<1>. HIDE DEF measured
<1>5. \A list \in Lists : heights'[list] \in Nat
  BY <1>1, <1>2, Settles DEF measured
<1>6. behind' = 0 => heights' = HeightsIn(odomFormat)'
  <2>. PICK format \in Formats : format = odomFormat
    BY <1>1
  <2>1. HeightsIn(odomFormat)' = HeightsIn(format)'
    BY DEF HeightsIn
  <2>. QED BY <1>1, <1>2, <1>3, <1>4, <2>1, Settles DEF measured
<1>. QED BY <1>1, <1>4, <1>5, <1>6 DEF PageOk, HeightsFit

\* The lists fit once they were rendered twice in the same format.
LEMMA UpdatedFits ==
  ASSUME FInv, Updated, UNCHANGED odomFormat, FieldOk(field'),
         minimized' \subseteq Modes, collapsed' \subseteq Lists
  PROVE  PageOk' /\ HeightsFit'
<1>. DEFINE given == [list \in Lists |-> itemFormat]
<1>1. heights' = Settled(heights, [list \in Lists |-> Measured(list, given[list], odomFormat)],
                         odomFormat)
  BY DEF Updated
<1>2. \A list \in Lists : given[list] \in {itemFormat, odomFormat}
  OBVIOUS
<1>. HIDE DEF given
<1>. QED BY <1>1, <1>2, MeasuredAgainFits DEF Updated

-------------------------------------------------------------------------------
(* Steps.                                                                  *)

\* A new field of valid items keeps the invariant.
LEMMA SetFieldKeeps ==
  ASSUME FInv, NEW f, FieldOk(f), SetField(f),
         roverPath' \in BOOLEAN, FileOk(testCase'), FileOk(reading')
  PROVE  FInv'
<1>1. field' = f /\ Updated /\ UNCHANGED <<session, autonOn, modes, drawOptions, odomFormat, shown>>
  BY DEF SetField
<1>2. PageOk' /\ HeightsFit'
  BY <1>1, UpdatedFits DEF FInv, PageOk, shown
<1>3. ModesOk' /\ CanMoveBack'
  BY <1>1 DEF FInv, ModesOk, CanMoveBack, modes
<1>4. OptionsOk' /\ FieldOk(field')
  BY <1>1 DEF FInv, OptionsOk
<1>. QED BY <1>1, <1>2, <1>3, <1>4 DEF FInv

\* The item changed in place by an editor is valid, and its list as long as before.
LEMMA EditItemKeeps ==
  ASSUME FInv, NEW list \in Lists, NEW i \in DOMAIN field[list], NEW item \in Valid(list),
         EditItem(list, i, item)
  PROVE  FInv'
<1>. USE DEF modes, files, shown, layout
<1>1. field' = [field EXCEPT ![list] = [field[list] EXCEPT ![i] = item]]
  BY DEF EditItem
<1>2. \A l \in Lists : field[l] \in Seq(Valid(l)) /\ Len(field[l]) <= MaxItems
  BY DEF FInv, FieldOk
<1>. DEFINE edited == [field[list] EXCEPT ![i] = item]
<1>3. edited \in Seq(Valid(list)) /\ Len(edited) = Len(field[list])
  BY <1>2
<1>4. edited = <<>> <=> field[list] = <<>>
  BY <1>2, <1>3
<1>. HIDE DEF edited
<1>5. field' = [field EXCEPT ![list] = edited]
  BY <1>1 DEF edited
<1>6. DOMAIN field = Lists /\ DOMAIN field' = Lists
  BY <1>5 DEF FInv, FieldOk
<1>7. \A l \in Lists : /\ field'[l] \in Seq(Valid(l))
                       /\ Len(field'[l]) = Len(field[l])
                       /\ field'[l] = <<>> <=> field[l] = <<>>
  BY <1>2, <1>3, <1>4, <1>5, <1>6
<1>8. FieldOk(field')
  BY <1>2, <1>6, <1>7 DEF FInv, FieldOk, Lists
<1>9. HeightsFit'
  <2>1. UNCHANGED <<odomFormat, minimized, collapsed, heights, itemFormat, behind>>
    BY DEF EditItem
  <2>2. \A l \in Lists, format \in Formats :
          Height(l, Len(field'[l]), 0, 0, ItemLines[format], minimized, collapsed)
            = Height(l, Len(field[l]), 0, 0, ItemLines[format], minimized, collapsed)
    BY <1>7
  <2>. QED BY <2>1, <2>2 DEF FInv, PageOk, HeightsFit, HeightsIn
<1>. QED BY <1>8, <1>9 DEF EditItem, FInv, ModesOk, CanMoveBack, OptionsOk, FileOk, PageOk

\* A list may be empty, and the repeater's list may hold the repeater.
LEMMA ShortLists ==
  /\ Len(<<>>) = 0 /\ Len(<<>>) <= MaxItems /\ \A S : <<>> \in Seq(S)
  /\ Len(<<"repeater">>) = 1 /\ Len(<<"repeater">>) <= MaxItems
  /\ <<"repeater">> \in Seq(Valid("repeater"))
<1>1. MaxItems \in Nat /\ 1 <= MaxItems /\ 0 <= MaxItems
  BY FieldConstants
<1>2. Len(<<>>) = 0 /\ \A S : <<>> \in Seq(S)
  OBVIOUS
<1>3. "repeater" \in Valid("repeater")
  BY DEF Valid, Items
<1>4. Len(<<"repeater">>) = 1 /\ <<"repeater">> \in Seq(Valid("repeater"))
  BY <1>3
<1>. QED BY <1>1, <1>2, <1>4

\* At first the field is empty and the first mode is on.
LEMMA InitOk == ASSUME Init PROVE FInv
<1>. USE DEF Init
<1>1. ModesOk /\ CanMoveBack
  BY DEF ModesOk, CanMoveBack, NoMode, Modes, ModeOrder, ToSet
<1>2. OptionsOk
  <2>1. Modes = {"waypoints", "arTags", "gates", "obstacles", "referencePoints"}
    BY ModesAre
  <2>2. /\ drawOptions["waypoints"] \in Valid("waypoints")
        /\ drawOptions["arTags"] \in Valid("arTags")
        /\ drawOptions["gates"] \in Valid("gates")
        /\ drawOptions["referencePoints"] \in Valid("referencePoints")
    BY FieldConstants DEF Valid, Items
  <2>3. drawOptions["obstacles"] \in Valid("obstacles")
    BY FieldConstants DEF Valid, Items
  <2>. QED BY <2>1, <2>2, <2>3 DEF OptionsOk
<1>3. FieldOk(field) /\ FileOk(testCase) /\ FileOk(reading)
  BY FieldConstants DEF FieldOk, FileOk, Lists
<1>4. PageOk /\ HeightsFit
  <2>1. \A list \in Lists : Height(list, Len(<<>>), 0, 0, ItemLines["DM"], {}, {}) = 0
    BY DEF Height
  <2>. QED BY <2>1 DEF PageOk, HeightsFit, HeightsIn, Formats
<1>. QED BY <1>1, <1>2, <1>3, <1>4 DEF FInv

\* What is drawn next changes, by the boxes and the inputs of the draw module.
LEMMA SetDrawOptionsKeeps ==
  ASSUME FInv, NEW list \in Modes, NEW item \in Valid(list), SetDrawOptions(list, item)
  PROVE  FInv'
<1>1. OptionsOk'
  BY DEF FInv, OptionsOk, SetDrawOptions
<1>. QED BY <1>1 DEF SetDrawOptions, FInv, ModesOk, CanMoveBack, FileOk, PageOk, HeightsFit,
     HeightsIn, modes, files, shown, layout

\* A draw mode replaces another one.
LEMMA SetDrawModeKeeps ==
  ASSUME FInv, NEW mode \in Modes, SetDrawMode(mode) PROVE FInv'
<1>1. ModesOk' /\ CanMoveBack'
  BY ModesAre DEF FInv, ModesOk, CanMoveBack, SetDrawMode
<1>. QED BY <1>1 DEF SetDrawMode, FInv, OptionsOk, FileOk, PageOk, HeightsFit, HeightsIn,
     files, shown, layout

\* Drawing keeps the invariant.
LEMMA DrawKeeps == ASSUME FInv, Draw PROVE FInv'
<1>1. ASSUME NEW mode \in Modes, SetDrawMode(mode) PROVE FInv'
  BY <1>1, SetDrawModeKeeps
<1>2. CASE SetToNextDrawMode
  <2>1. drawMode \in Modes
    BY <1>2 DEF SetToNextDrawMode
  <2>2. ModeOrder[Rotate(PlaceIn(drawMode))] \in Modes
    BY <2>1, RotatedIsMode
  <2>. QED BY <1>2, <2>2, SetDrawModeKeeps DEF SetToNextDrawMode
<1>3. CASE SetToPrevDrawMode
  <2>1. drawMode \in Modes
    BY <1>3 DEF SetToPrevDrawMode
  <2>2. ModeOrder[Rotate(PlaceIn(drawMode) + Len(ModeOrder) - 2)] \in Modes
    BY <2>1, RotatedIsMode
  <2>. QED BY <1>3, <2>2, SetDrawModeKeeps DEF SetToPrevDrawMode
<1>4. CASE ToggleMoveRoverModeOn
  <2>1. ModesOk' /\ CanMoveBack'
    BY <1>4 DEF ToggleMoveRoverModeOn, FInv, ModesOk, CanMoveBack
  <2>. QED BY <1>4, <2>1 DEF ToggleMoveRoverModeOn, FInv, OptionsOk, FileOk, PageOk,
       HeightsFit, HeightsIn, files, shown, layout
<1>5. CASE ToggleMoveRoverModeOff
  <2>1. ModesOk' /\ CanMoveBack'
    BY <1>5, ModesAre DEF ToggleMoveRoverModeOff, FInv, ModesOk, CanMoveBack
  <2>. QED BY <1>5, <2>1 DEF ToggleMoveRoverModeOff, FInv, OptionsOk, FileOk, PageOk,
       HeightsFit, HeightsIn, files, shown, layout
<1>6. CASE ToggleOption
  <2>1. "waypoints" \in Modes /\ drawOptions["waypoints"] \in Items["waypoints"]
    BY ModesAre DEF FInv, OptionsOk, Valid
  <2>2. /\ SearchToggled(drawOptions["waypoints"]) \in Valid("waypoints")
        /\ GateToggled(drawOptions["waypoints"]) \in Valid("waypoints")
    BY <2>1, ToggledIsSearched DEF Valid
  <2>. QED BY <1>6, <2>1, <2>2, SetDrawOptionsKeeps DEF ToggleOption
<1>7. ASSUME NEW list \in Numbered, NEW typed \in Typed, EnterOption(list, typed) PROVE FInv'
  <2>1. list \in Modes /\ list # "waypoints" /\ typed \in Int
    BY ModesAre, FieldConstants DEF Numbered
  <2>2. drawOptions[list] \in Items[list]
    BY <2>1 DEF FInv, OptionsOk, Valid
  <2>3. Entered(list, drawOptions[list], typed) \in Valid(list)
    BY <2>1, <2>2, EnteredIsItem DEF Valid
  <2>. QED BY <1>7, <2>1, <2>3, SetDrawOptionsKeeps DEF EnterOption
<1>8. CASE HandleFieldClick
  <2>1. CASE /\ drawMode \in session \cap Modes
             /\ Len(field[drawMode]) < MaxItems
             /\ SetField([field EXCEPT ![drawMode] = Append(@, drawOptions[drawMode])])
             /\ UNCHANGED <<roverPath, files>>
    <3>1. drawMode \in Lists /\ drawMode # "repeater" /\ field[drawMode] \in Seq(Valid(drawMode))
          /\ drawOptions[drawMode] \in Valid(drawMode)
      BY <2>1, ModesAre DEF FInv, FieldOk, OptionsOk, Lists
    <3>. DEFINE longer == Append(field[drawMode], drawOptions[drawMode])
    <3>2. longer \in Seq(Valid(drawMode)) /\ Len(longer) = Len(field[drawMode]) + 1
          /\ Len(field[drawMode]) \in Nat
      BY <3>1
    <3>3. Len(longer) <= MaxItems
      BY <2>1, <3>2, FieldConstants
    <3>. HIDE DEF longer
    <3>4. FieldOk([field EXCEPT ![drawMode] = longer])
      BY <3>1, <3>2, <3>3, OneListKeeps DEF FInv
    <3>. QED BY <2>1, <3>4, SetFieldKeeps DEF FInv, files, longer
  <2>2. CASE roverPath' = FALSE /\ SetField(field) /\ UNCHANGED files
    BY <2>2, SetFieldKeeps DEF FInv, files
  <2>. QED BY <1>8, <2>1, <2>2 DEF HandleFieldClick
<1>. QED BY <1>1, <1>2, <1>3, <1>4, <1>5, <1>6, <1>7, <1>8 DEF Draw

\* Editing keeps the invariant.
LEMMA EditKeeps == ASSUME FInv, Edit PROVE FInv'
<1>1. ASSUME NEW i \in DOMAIN field["waypoints"], ToggleItem(i) PROVE FInv'
  <2>1. "waypoints" \in Lists /\ field["waypoints"] \in Seq(Valid("waypoints"))
    BY ModesAre DEF FInv, FieldOk, Lists
  <2>2. field["waypoints"][i] \in Items["waypoints"]
    BY <2>1 DEF Valid
  <2>3. /\ SearchToggled(field["waypoints"][i]) \in Valid("waypoints")
        /\ GateToggled(field["waypoints"][i]) \in Valid("waypoints")
    BY <2>2, ToggledIsSearched DEF Valid
  <2>. QED BY <1>1, <2>1, <2>3, EditItemKeeps DEF ToggleItem
<1>2. ASSUME NEW list \in Numbered, NEW typed \in Typed, NEW i \in DOMAIN field[list],
             EnterItem(list, i, typed)
      PROVE  FInv'
  <2>1. list \in Lists /\ list # "waypoints" /\ typed \in Int
    BY ModesAre, FieldConstants DEF Numbered, Lists
  <2>2. field[list] \in Seq(Valid(list))
    BY <2>1 DEF FInv, FieldOk
  <2>3. field[list][i] \in Items[list]
    BY <2>2 DEF Valid
  <2>4. Entered(list, field[list][i], typed) \in Valid(list)
    BY <2>1, <2>3, EnteredIsItem DEF Valid
  <2>. QED BY <1>2, <2>1, <2>4, EditItemKeeps DEF EnterItem
<1>3. ASSUME NEW list \in Modes, NEW i \in DOMAIN field[list], DeleteItem(list, i) PROVE FInv'
  <2>1. list \in Lists /\ list # "repeater" /\ field[list] \in Seq(Valid(list))
        /\ Len(field[list]) <= MaxItems
    BY ModesAre DEF FInv, FieldOk, Lists
  <2>. DEFINE shorter == RemoveAt(field[list], i)
  <2>2. shorter \in Seq(Valid(list)) /\ Len(shorter) = Len(field[list]) - 1
    BY <2>1, RemovedIsShorter
  <2>3. Len(shorter) <= MaxItems
    BY <2>1, <2>2, FieldConstants
  <2>. HIDE DEF shorter
  <2>4. FieldOk([field EXCEPT ![list] = shorter])
    BY <2>1, <2>2, <2>3, OneListKeeps DEF FInv
  <2>. QED BY <1>3, <2>4, SetFieldKeeps DEF DeleteItem, FInv, files, shorter
<1>4. ASSUME NEW list \in Lists, ClearList(list) PROVE FInv'
  <2>1. FieldOk([field EXCEPT ![list] = <<>>])
    <3>. DEFINE none == <<>>
    <3>1. none \in Seq(Valid(list)) /\ Len(none) <= MaxItems /\ Len(none) <= 1
      BY ShortLists
    <3>. HIDE DEF none
    <3>2. FieldOk([field EXCEPT ![list] = none])
      BY <3>1, OneListKeeps DEF FInv
    <3>. QED BY <3>2 DEF none
  <2>. QED BY <1>4, <2>1, SetFieldKeeps DEF ClearList, FInv, files
<1>5. CASE ClearRoverPath
  BY <1>5, SetFieldKeeps DEF ClearRoverPath, FInv, files
<1>6. CASE ClearField
  <2>. DEFINE cleared == [list \in Lists |-> IF list = "repeater" THEN field[list] ELSE <<>>]
  <2>1. FieldOk(cleared)
    <3>1. \A list \in Lists : cleared[list] = IF list = "repeater" THEN field[list] ELSE <<>>
      OBVIOUS
    <3>2. DOMAIN cleared = Lists
      OBVIOUS
    <3>3. \A list \in Lists : field[list] \in Seq(Valid(list)) /\ Len(field[list]) <= MaxItems
      BY DEF FInv, FieldOk
    <3>4. Len(field["repeater"]) <= 1 /\ "repeater" \in Lists
      BY DEF FInv, FieldOk, Lists
    <3>5. Len(<<>>) <= MaxItems
      BY ShortLists
    <3>. HIDE DEF cleared
    <3>6. \A list \in Lists : cleared[list] \in Seq(Valid(list)) /\ Len(cleared[list]) <= MaxItems
      BY <3>1, <3>3, <3>5, ShortLists
    <3>. QED BY <3>1, <3>2, <3>4, <3>6 DEF FieldOk
  <2>. QED BY <1>6, <2>1, SetFieldKeeps DEF ClearField, FInv, files
<1>. QED BY <1>1, <1>2, <1>3, <1>4, <1>5, <1>6 DEF Edit

\* Every step keeps the invariant.
LEMMA NextKeeps == ASSUME FInv, [Next]_vars PROVE FInv'
<1>1. CASE Draw
  BY <1>1, DrawKeeps
<1>2. CASE Edit
  BY <1>2, EditKeeps
<1>3. CASE FlipAutonState
  BY <1>3 DEF FlipAutonState, FInv, ModesOk, CanMoveBack, OptionsOk, FileOk, PageOk,
     HeightsFit, HeightsIn, modes, files, shown, layout
<1>4. CASE DropRepeater
  <2>1. "repeater" \in Lists
    BY DEF Lists
  <2>2. FieldOk([field EXCEPT !["repeater"] = <<"repeater">>])
    <3>. DEFINE one == <<"repeater">>
    <3>1. one \in Seq(Valid("repeater")) /\ Len(one) <= MaxItems /\ Len(one) <= 1
      BY ShortLists
    <3>. HIDE DEF one
    <3>2. FieldOk([field EXCEPT !["repeater"] = one])
      BY <2>1, <3>1, OneListKeeps DEF FInv
    <3>. QED BY <3>2 DEF one
  <2>. QED BY <1>4, <2>2, SetFieldKeeps DEF DropRepeater, FInv, files
<1>5. CASE Drive
  BY <1>5, SetFieldKeeps DEF Drive, FInv, files
<1>6. CASE DownloadTestCase \/ UploadTestCase
  <2>1. FileOk(testCase') /\ FileOk(reading')
    BY <1>6 DEF DownloadTestCase, UploadTestCase, FInv, FileOk
  <2>2. UNCHANGED <<session, autonOn, modes, drawOptions, field, roverPath, odomFormat, shown,
                    layout>>
    <3>1. CASE DownloadTestCase
      BY <3>1 DEF DownloadTestCase
    <3>2. CASE UploadTestCase
      BY <3>2 DEF UploadTestCase
    <3>. QED BY <1>6, <3>1, <3>2
  <2>. QED BY <2>1, <2>2 DEF FInv, ModesOk, CanMoveBack, OptionsOk, PageOk, HeightsFit,
       HeightsIn, modes, shown, layout
<1>7. CASE Onload
  <2>. DEFINE points == field["referencePoints"]
  <2>1. FieldOk(reading)
    BY <1>7 DEF Onload, FInv, FileOk
  <2>2. "referencePoints" \in Lists /\ points \in Seq(Valid("referencePoints"))
        /\ Len(points) <= MaxItems
    BY ModesAre DEF FInv, FieldOk, Lists
  <2>. HIDE DEF points
  <2>3. FieldOk([reading EXCEPT !["referencePoints"] = points])
    BY <2>1, <2>2, OneListKeeps
  <2>. QED BY <1>7, <2>3, SetFieldKeeps DEF Onload, FInv, FileOk, points
<1>8. ASSUME NEW list \in Lists, Collapse(list) PROVE FInv'
  <2>1. UNCHANGED <<session, autonOn, modes, drawOptions, field, roverPath, files, odomFormat>>
    BY <1>8 DEF Collapse
  <2>2. minimized' \subseteq Modes /\ collapsed' \subseteq Lists
    BY <1>8 DEF Collapse, FInv, PageOk, Lists
  <2>. DEFINE given == [l \in Lists |-> IF l = list THEN odomFormat ELSE itemFormat]
              before == [heights EXCEPT ![list] = Measured(list, itemFormat, odomFormat)]
  <2>3. heights' = Settled(before, [l \in Lists |-> Measured(l, given[l], odomFormat)], odomFormat)
    BY <1>8 DEF Collapse
  <2>4. \A l \in Lists : given[l] \in {itemFormat, odomFormat}
    OBVIOUS
  <2>. HIDE DEF given, before
  <2>5. PageOk' /\ HeightsFit'
    <3>1. OnceMore /\ itemFormat' = odomFormat
      BY <1>8 DEF Collapse
    <3>2. FieldOk(field')
      BY <2>1 DEF FInv
    <3>. QED BY <2>1, <2>2, <2>3, <2>4, <3>1, <3>2, MeasuredAgainFits
  <2>. QED BY <2>1, <2>5 DEF FInv, ModesOk, CanMoveBack, OptionsOk, FileOk, modes, files
<1>9. ASSUME NEW format \in Formats, SetOdomFormat(format) PROVE FInv'
  <2>. DEFINE before == [list \in Lists |-> Measured(list, itemFormat, odomFormat)]
              after == [list \in Lists |-> Measured(list, odomFormat, format)]
  <2>1. FieldOk(field) /\ FieldOk(field') /\ itemFormat \in Formats /\ odomFormat \in Formats
    BY <1>9 DEF SetOdomFormat, FInv, PageOk
  <2>2. \A list \in Lists : after[list] \in Nat
    BY <2>1, MeasuredFits
  <2>3. \/ heights' = heights /\ itemFormat' = odomFormat /\ behind' = 2
        \/ heights' = Settled(before, after, format) /\ itemFormat' = format /\ behind' = 1
    BY <1>9 DEF SetOdomFormat
  <2>. HIDE DEF before, after
  <2>4. \A list \in Lists : heights'[list] \in Nat
    BY <2>1, <2>2, <2>3, Settles DEF FInv, PageOk
  <2>5. odomFormat' = format /\ UNCHANGED shown
    BY <1>9 DEF SetOdomFormat
  <2>6. PageOk' /\ HeightsFit'
    BY <2>1, <2>3, <2>4, <2>5 DEF FInv, PageOk, HeightsFit, shown
  <2>. QED BY <1>9, <2>6 DEF SetOdomFormat, FInv, ModesOk, CanMoveBack, OptionsOk, FileOk,
       modes, files
<1>10. CASE Resize
  <2>1. Updated /\ UNCHANGED <<session, autonOn, modes, drawOptions, field, roverPath, files,
                              odomFormat, shown>>
    BY <1>10 DEF Resize
  <2>2. PageOk' /\ HeightsFit'
    BY <2>1, UpdatedFits DEF FInv, PageOk, shown
  <2>. QED BY <2>1, <2>2 DEF FInv, ModesOk, CanMoveBack, OptionsOk, FileOk, modes, files
<1>11. CASE UNCHANGED vars
  BY <1>11 DEF vars, FInv, ModesOk, CanMoveBack, OptionsOk, FileOk, PageOk, HeightsFit,
     HeightsIn, modes, files, shown, layout
<1>. QED BY <1>1, <1>2, <1>3, <1>4, <1>5, <1>6, <1>7, <1>8, <1>9, <1>10, <1>11 DEF Next

-------------------------------------------------------------------------------
\* The inductive invariant holds of every session.
THEOREM Invariant == Spec => []FInv
BY InitOk, NextKeeps, PTL DEF Spec

\* Everything drawn, edited, saved and uploaded keeps its type and its range.
THEOREM TypeCorrect == Spec => []TypeOK
<1>1. FInv => TypeOK
  <2>. SUFFICES ASSUME FInv PROVE TypeOK
    OBVIOUS
  <2>1. \A f : FieldOk(f) => IsField(f) /\ Len(f["repeater"]) <= 1
    <3>1. \A list, S : S \in {Valid(list)} => S \subseteq Items[list]
      BY DEF Valid
    <3>2. ASSUME NEW list, NEW s \in Seq(Valid(list)) PROVE \A i \in DOMAIN s : s[i] \in Items[list]
      BY <3>1
    <3>. QED BY <3>2 DEF FieldOk, IsField
  <2>2. \A list \in DOMAIN drawOptions : drawOptions[list] \in Items[list]
    BY DEF FInv, OptionsOk, Valid
  <2>. QED BY <2>1, <2>2 DEF FInv, FileOk, ModesOk, PageOk, TypeOK
<1>. QED BY <1>1, Invariant, PTL

\* A point with a gate is a search point, drawn, edited, saved or uploaded.
THEOREM GatesAreSearched == Spec => []GateIsSearched
<1>1. FInv => GateIsSearched
  <2>. SUFFICES ASSUME FInv PROVE GateIsSearched
    OBVIOUS
  <2>1. \A f : FieldOk(f) => \A i \in DOMAIN f["waypoints"] :
                               f["waypoints"][i].gate => f["waypoints"][i].search
    <3>1. ASSUME NEW s \in Seq(Valid("waypoints"))
          PROVE  \A i \in DOMAIN s : s[i].gate => s[i].search
      BY DEF Valid
    <3>. QED BY <3>1, ModesAre DEF FieldOk, Lists
  <2>2. drawOptions["waypoints"].gate => drawOptions["waypoints"].search
    BY ModesAre DEF FInv, OptionsOk, Valid
  <2>. QED BY <2>1, <2>2 DEF FInv, FileOk, GateIsSearched
<1>. QED BY <1>1, Invariant, PTL

\* The mode that moves the rover can always be left.
THEOREM CanAlwaysMoveBack == Spec => []CanMoveBack
BY Invariant, PTL DEF FInv

\* The lists' containers are as high as what they show, but for a change of format.
THEOREM HeightsAlwaysFit == Spec => []HeightsFit
BY Invariant, PTL DEF FInv

\* What an input shows is a value of its range, which its steps divide.
LEMMA InputIsValid ==
  ASSUME OptionsOk, NEW list \in Numbered
  PROVE  LET input == Input(list)
         IN  /\ input.min \in Int /\ input.max \in Int /\ input.step \in Nat \ {0}
             /\ input.val \in input.min .. input.max
             /\ (input.max - input.min) % input.step = 0
<1>1. list \in Modes /\ drawOptions[list] \in Items[list]
  BY ModesAre DEF OptionsOk, Valid, Numbered
<1>2. CASE list = "arTags"
  <2>1. Input(list) = [min |-> 0, max |-> MaxId, step |-> 1, val |-> drawOptions[list].id]
    BY <1>2 DEF Input
  <2>2. MaxId \in Int /\ drawOptions[list].id \in 0 .. MaxId
    BY <1>1, <1>2, FieldConstants DEF Items
  <2>3. (MaxId - 0) % 1 = 0
    BY <2>2
  <2>. QED BY <2>1, <2>2, <2>3
<1>3. CASE list = "gates"
  <2>1. Input(list) = [min |-> -1, max |-> Circle, step |-> 1,
                       val |-> drawOptions[list].orientation]
    BY <1>3 DEF Input
  <2>2. Circle \in Int /\ drawOptions[list].orientation \in 0 .. Circle - 1
    BY <1>1, <1>3, FieldConstants DEF Items
  <2>3. (Circle - (-1)) % 1 = 0
    BY <2>2
  <2>. QED BY <2>1, <2>2, <2>3
<1>4. CASE list = "obstacles"
  <2>. DEFINE size == drawOptions[list].size
  <2>1. Input(list) = [min |-> SizeStep(size), max |-> MaxSize, step |-> SizeStep(size),
                       val |-> size]
    BY <1>4 DEF Input
  <2>2. size \in Steps.small .. MaxSize
    BY <1>1, <1>4 DEF Items
  <2>3. Steps.small \in Int /\ MaxSize \in Int
    BY FieldConstants
  <2>. HIDE DEF size
  <2>4. SizeStep(size) \in Nat \ {0} /\ size \in SizeStep(size) .. MaxSize
    BY <2>2, <2>3, StepFits
  <2>. QED BY <2>1, <2>2, <2>4, StepFits
<1>. QED BY <1>2, <1>3, <1>4 DEF Numbered

\* Whatever is typed into a number input, and from whatever value earlier entries led to,
\* the input takes a value of its range that its steps reach, takes such a value as it is
\* typed, and goes the way the operator went unless it is at the end of its range.
THEOREM NumbersStayValid == Spec => []NumbersAreValid
<1>1. ASSUME FInv PROVE NumbersAreValid
  <2>. SUFFICES ASSUME NEW list \in Numbered,
                       NEW typed \in -Input(list).max - 2 .. 2 * Input(list).max
         PROVE  LET input == Input(list)
                    reached(v) == v \in input.min .. input.max
                                    /\ (v - input.min) % input.step = 0
                    new == UpdateVal(typed, input.val, input.min, input.max, input.step)
                IN  /\ reached(new)
                    /\ reached(typed) => new = typed
                    /\ typed > input.val => new > input.val \/ input.val = input.max
                    /\ typed < input.val => new < input.val \/ input.val = input.min
    BY DEF NumbersAreValid
  <2>1. LET input == Input(list)
        IN  /\ input.min \in Int /\ input.max \in Int /\ input.step \in Nat \ {0}
            /\ input.val \in input.min .. input.max
            /\ (input.max - input.min) % input.step = 0
    BY <1>1, InputIsValid DEF FInv
  <2>2. typed \in Int
    BY <2>1
  <2>. HIDE DEF Input
  <2>. QED BY <2>1, <2>2, UpdateValSteps
<1>. QED BY <1>1, Invariant, PTL
===============================================================================
