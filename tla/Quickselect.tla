---------------------------- MODULE Quickselect -----------------------------
(***************************************************************************)
(* shared::median step by step: quickselect narrows a window of the vector *)
(* around the wanted rank, one Lomuto partition at a time; a vector of     *)
(* even length is selected from twice, the second time as the first        *)
(* selection left it.                                                      *)
(*                                                                         *)
(* AcbuMath!Median says what the result should be.                         *)
(***************************************************************************)
EXTENDS AcbuMath

CONSTANTS
    Numbers,    \* values an element may have
    MaxLength   \* length of the longest vector of the instance

ASSUME QuickselectAssumption == Numbers \subseteq Int /\ MaxLength \in Nat \ {0}

VARIABLES
    original,       \* the argument (history)
    values,         \* the vector, indexed from 0, permuted in place
    rank,           \* k: the index whose final value is wanted
    left, right,    \* the window that still holds it
    i, j,           \* partition: end of the smaller part, element under test
    val1,           \* the lower of the two middle elements, once selected
    answer,
    pc              \* "select", "partition", "selected", "done"

selectVars == <<original, values, rank, left, right, i, j, val1, answer, pc>>

Size == Cardinality(DOMAIN values)
Mid == Size \div 2
EvenSize == Size % 2 = 0

SelectInit ==
    /\ \E n \in 1 .. MaxLength : original \in [0 .. n - 1 -> Numbers]
    /\ values = original
    /\ rank = IF EvenSize THEN Mid - 1 ELSE Mid
    /\ left = 0 /\ right = Size - 1
    /\ i = 0 /\ j = 0
    /\ val1 = 0 /\ answer = 0
    /\ pc = "select"

Swapped(a, b) == [values EXCEPT ![a] = values[b], ![b] = values[a]]

-----------------------------------------------------------------------------
\* The window still has a choice: partition it around its last element.
StartPartition ==
    /\ pc = "select" /\ left < right
    /\ i' = left - 1 /\ j' = left
    /\ pc' = "partition"
    /\ UNCHANGED <<original, values, rank, left, right, val1, answer>>

WindowClosed ==
    /\ pc = "select" /\ left >= right
    /\ pc' = "selected"
    /\ UNCHANGED <<original, values, rank, left, right, i, j, val1, answer>>

Pivot == values[right]

KeepLarger ==
    /\ pc = "partition" /\ j < right /\ values[j] >= Pivot
    /\ j' = j + 1
    /\ UNCHANGED <<original, values, rank, left, right, i, val1, answer, pc>>

MoveSmaller ==
    /\ pc = "partition" /\ j < right /\ values[j] < Pivot
    /\ values' = Swapped(i + 1, j)
    /\ i' = i + 1 /\ j' = j + 1
    /\ UNCHANGED <<original, rank, left, right, val1, answer, pc>>

PivotPlace == i + 1

\* Mutant: the pivot stays in the window above it.
UpperWindowWithPivot == PivotPlace

UpperWindow == PivotPlace + 1

\* The pivot goes between the parts; the window shrinks to the part that
\* holds the rank, or the rank is the pivot's place.
PlacePivot ==
    /\ pc = "partition" /\ j = right
    /\ values' = Swapped(PivotPlace, right)
    /\ right' = IF rank < PivotPlace THEN PivotPlace - 1 ELSE right
    /\ left' = IF rank > PivotPlace THEN UpperWindow ELSE left
    /\ pc' = IF rank = PivotPlace THEN "selected" ELSE "select"
    /\ UNCHANGED <<original, rank, i, j, val1, answer>>

\* Mutant: the second selection keeps the window of the first.
SelectUpperInWindow ==
    /\ pc = "selected" /\ rank = Mid - 1
    /\ val1' = values[Mid - 1]
    /\ rank' = Mid
    /\ pc' = "select"
    /\ UNCHANGED <<original, values, left, right, i, j, answer>>

SelectUpper ==
    /\ pc = "selected" /\ rank = Mid - 1
    /\ val1' = values[Mid - 1]
    /\ rank' = Mid
    /\ left' = 0 /\ right' = Size - 1
    /\ pc' = "select"
    /\ UNCHANGED <<original, values, i, j, answer>>

Answer ==
    /\ pc = "selected" /\ rank = Mid
    /\ answer' = IF EvenSize THEN TruncDiv(val1 + values[Mid], 2) ELSE values[Mid]
    /\ pc' = "done"
    /\ UNCHANGED <<original, values, rank, left, right, i, j, val1>>

SelectNext ==
    \/ StartPartition
    \/ WindowClosed
    \/ KeepLarger
    \/ MoveSmaller
    \/ PlacePivot
    \/ SelectUpper
    \/ Answer

\* One thread of execution: a step that can be taken is taken.
SelectSpec == SelectInit /\ [][SelectNext]_selectVars /\ WF_selectVars(SelectNext)

-----------------------------------------------------------------------------
\* The answer is the median of the argument, whatever the order of the
\* vector, its repetitions, and the state the first selection left it in.
MedianCorrect == pc = "done" => answer = Median(original)

\* Selection never loses the rank: it lies in the window, and what is before
\* (after) the window is no larger (smaller) than what is not.
RankBracketed ==
    pc = "select" =>
        /\ left <= rank /\ rank <= right
        /\ \A a, b \in DOMAIN values :
             (a < left /\ left <= b) \/ (a <= right /\ right < b) => values[a] <= values[b]

\* Every access of a partition is inside the window, so the unwrap_or(0)
\* fallbacks are never taken, and the scanned part is split around the pivot.
PartitionSplit ==
    pc = "partition" =>
        /\ 0 <= left /\ left - 1 <= i /\ i < j /\ j <= right /\ right < Size
        /\ \A a \in left .. i : values[a] < Pivot
        /\ \A a \in i + 1 .. j - 1 : values[a] >= Pivot

\* The three together: at every phase the vector is as the next one needs it.
SelectionCorrect == RankBracketed /\ PartitionSplit /\ MedianCorrect

\* Selection ends: the loop makes progress on every vector.
Terminates == <>(pc = "done")
=============================================================================
