----------------------------- MODULE HomeLayout -----------------------------
(***************************************************************************)
(* The widgets of the home page: the grid host and its drag controller,    *)
(* the page that owns them, the widget service with the ordered visible    *)
(* widgets and the hidden ones, the editor window that adds hidden ones    *)
(* back, and the layout the backend keeps from set_config. The handlers    *)
(* run on the UI thread one at a time; what interleaves with them is what  *)
(* they leave behind: the answer to a save, after which a handler goes on, *)
(* and the relayout queued for a new number of columns.                    *)
(*                                                                         *)
(* Edit mode is on throughout: leaving it only disables what is modelled.  *)
(* Pixels, scrolling and animations are left out.                          *)
(***************************************************************************)
EXTENDS GridLayout

CONSTANTS
  MaxSaves,       \* saves on the way
  MaxFaults,      \* loads and saves that do not reach the backend
  MaxGestures,    \* presses and clicks of the user
  None

ASSUME SaveAssumption == MaxSaves \in Nat \ {0} /\ MaxFaults \in Nat /\ MaxGestures \in Nat

VARIABLES
  list,       \* _widgets of the grid host
  contained,  \* ids that have a container on the canvas
  shown,      \* _currentPositions
  hostCols,   \* Columns of the grid host
  drag,       \* the drag controller
  order,      \* _configWidgetIds
  rows,       \* _widgetSpans: the rows of an id, 0 when the id has no entry
  hidden,     \* _hiddenWidgetIds
  offered,    \* hidden widgets the editor window shows
  columns,    \* _columns
  relayout,   \* OnWidgetServiceChanged has queued a relayout
  saving,     \* saves sent and not answered
  stored,     \* home_layout of the backend's configuration
  differs,    \* history: the last load or save to end did not reach the backend
  faults,
  gestures

grid == <<list, contained, shown, hostCols>>
service == <<order, rows, hidden, columns>>
vars == <<grid, drag, service, offered, relayout, saving, stored, differs, faults, gestures>>

Ids(l) == [i \in DOMAIN l |-> l[i].id]

Idle == [mode |-> "idle", widget |-> None, stale |-> FALSE, index |-> 0, at |-> None,
         origin |-> None, disturbed |-> FALSE]

\* a layout other than the drag's own preview is applied
Disturbed == [drag EXCEPT !.disturbed = TRUE]

DefaultRows(id) == IF id \in AlwaysFillRow THEN 2 ELSE 1

\* the widgets a fresh page, or a refresh, builds
BuiltFrom(ids, spans) ==
  IF ids # <<>>
  THEN [i \in DOMAIN ids |-> [id |-> ids[i], rows |-> MaxOf(1, spans[ids[i]])]]
  ELSE [i \in DOMAIN DefaultOrder |->
          [id |-> DefaultOrder[i], rows |-> DefaultRows(DefaultOrder[i])]]

SetupWidgets(ids, spans, cols) ==
  LET built == BuiltFrom(ids, spans)
  IN  /\ list' = built
      /\ contained' = ToSet(Ids(built))
      /\ hostCols' = cols
      /\ shown' = Pack(built, cols)

\* of an id that occurs twice the dictionary keeps the last entry
RowsOf(l) ==
  [id \in Id |-> IF id \in ToSet(Ids(l))
                 THEN l[SelectLastInSeq(l, LAMBDA w : w.id = id)].rows ELSE 0]

Loaded(layout) ==
  /\ order' = Ids(layout.widgets)
  /\ rows' = RowsOf(layout.widgets)
  /\ hidden' = layout.hidden
  /\ columns' = layout.columns
  /\ SetupWidgets(Ids(layout.widgets), RowsOf(layout.widgets), layout.columns)

\* What the service has when its get_config fails: nothing, in MinColumns columns.
NotLoaded == [widgets |-> <<>>, hidden |-> {}, columns |-> 2]

FirstRun == [widgets |-> <<>>, hidden |-> {}, columns |-> 3]

EverythingShown ==
  [widgets |-> [i \in DOMAIN DefaultOrder |->
                  [id |-> DefaultOrder[i], rows |-> DefaultRows(DefaultOrder[i])]],
   hidden |-> {}, columns |-> 3]

TypeOK ==
  /\ ToSet(list) \subseteq Widget /\ Len(list) <= MaxWidgets
  /\ contained \subseteq Id
  /\ hostCols \in Columns
  /\ drag.mode \in {"idle", "pending", "drag", "resize"}
  /\ drag.mode # "idle" => drag.widget \in Widget /\ drag.index \in 0 .. MaxWidgets
  /\ drag.mode = "drag" => drag.at \in 0 .. MaxWidgets
  /\ ToSet(order) \subseteq Id
  /\ \A i \in DOMAIN order : rows[order[i]] \in 0 .. MaxRowSpan
  /\ hidden \subseteq Id /\ offered \subseteq Id
  /\ columns \in Columns
  /\ stored.columns \in Columns \cap {3, 4}
  /\ {relayout, differs} \subseteq BOOLEAN
  /\ Len(saving) <= MaxSaves
  /\ faults \in 0 .. MaxFaults /\ gestures \in 0 .. MaxGestures

-----------------------------------------------------------------------------
(* Saves. The payload is the layout of the moment of the call; the backend *)
(* takes the saves in order. Without a connection a save ends at once,     *)
(* which is the case of a failing answer before anything else happens.     *)

LayoutOf(ids, spans, away, cols) ==
  [widgets |-> [i \in DOMAIN ids |-> [id |-> ids[i], rows |-> MaxOf(1, spans[ids[i]])]],
   hidden |-> away, columns |-> cols]

\* Seeded bug: the layout is saved as it was before the change.
SaveLayoutAsync_Fault(then) ==
  /\ Len(saving) < MaxSaves
  /\ saving' = Append(saving, [layout |-> LayoutOf(order, rows, hidden, columns'),
                               then |-> then])

SaveLayoutAsync(then) ==
  /\ Len(saving) < MaxSaves
  /\ saving' = Append(saving, [layout |-> LayoutOf(order', rows', hidden', columns'),
                               then |-> then])

\* Seeded bug: any number of columns is stored.
Applied_Fault(old, layout) == layout

\* what set_config makes of the stored layout
Applied(old, layout) ==
  [layout EXCEPT !.columns = IF @ \in {3, 4} THEN @ ELSE old.columns]

\* The answer comes, or the save fails, before or after the backend took it;
\* then the handler that awaited it goes on.
SaveEnds ==
  /\ saving # <<>>
  /\ saving' = Tail(saving)
  /\ \/ stored' = Applied(stored, Head(saving).layout) /\ differs' = FALSE
     \/ faults < MaxFaults /\ UNCHANGED stored /\ differs' = TRUE
  /\ faults' = IF differs' THEN faults + 1 ELSE faults
  /\ IF Head(saving).then = "refresh"
     THEN /\ SetupWidgets(order, rows, columns)
          /\ drag' = IF drag.mode = "idle" THEN drag
                     ELSE [Disturbed EXCEPT !.stale = TRUE]
     ELSE UNCHANGED <<grid, drag>>
  /\ offered' = IF Head(saving).then = "nothing" THEN offered ELSE hidden
  /\ UNCHANGED <<service, relayout, gestures>>

Gesture == gestures < MaxGestures /\ gestures' = gestures + 1

-----------------------------------------------------------------------------
(* The drag controller.                                                    *)

Pressed(mode, w) ==
  /\ Gesture
  /\ drag.mode = "idle"
  /\ w.id \in contained
  /\ drag' = [Idle EXCEPT !.mode = mode, !.widget = w, !.index = IndexOf(list, w.id),
                          !.origin = PositionOf(Pack(list, hostCols), w.id)]
  /\ UNCHANGED <<grid, service, offered, relayout, saving, stored, differs, faults>>

\* Only a widget that may grow has a resize button.
Press ==
  \E id \in ToSet(Ids(list)) :
    LET w == list[IndexOf(list, id) + 1]
    IN  Pressed("pending", w) \/ (id \in AlwaysFillRow /\ Pressed("resize", w))

Remaining == Without(list, drag.widget.id)

DragTo(at, current) ==
  IF at # current
  THEN shown' = PackWithInserted(Remaining, drag.widget, at, hostCols)
  ELSE UNCHANGED shown

CurrentInsertionIndex == IF drag.mode = "pending" THEN drag.index ELSE drag.at

\* the indices the places of the pointer give
NewIndices ==
  {ComputeInsertionIndex(candidates, centre, drag.origin, drag.index) :
     candidates \in {Candidates(Remaining, drag.widget, hostCols)},
     centre \in Centres(hostCols, MaxWidgets)}

\* The first move past the threshold turns the press into a drag.
DragMove ==
  /\ drag.mode \in {"pending", "drag"}
  /\ \E at \in NewIndices :
       /\ DragTo(at, CurrentInsertionIndex)
       /\ drag' = [drag EXCEPT !.mode = "drag", !.at = at,
                               !.disturbed = @ /\ at = CurrentInsertionIndex]
  /\ UNCHANGED <<list, contained, hostCols, service, offered, relayout, saving, stored, differs, faults, gestures>>

ResizeMove ==
  /\ drag.mode = "resize"
  /\ \E r \in 1 .. MaxRowSpan \ {drag.widget.rows} :
       LET resized == [drag.widget EXCEPT !.rows = r]
       IN  /\ drag' = [drag EXCEPT !.widget = resized]
           /\ list' = IF drag.stale THEN list
                      ELSE [list EXCEPT ![IndexOf(list, resized.id) + 1] = resized]
           /\ shown' = PackWithInserted(Remaining, resized, drag.index, hostCols)
  /\ UNCHANGED <<contained, hostCols, service, offered, relayout, saving, stored, differs, faults, gestures>>

\* Seeded bug: the widget goes back where it was picked up.
Dropped_Fault ==
  LET rest == IF drag.stale THEN list
              ELSE RemoveAt(list, IndexOf(list, drag.widget.id) + 1)
  IN  Inserted(rest, drag.widget, drag.index)

\* Widgets.Remove takes out the very object, which a refresh has replaced.
Dropped ==
  LET rest == IF drag.stale THEN list
              ELSE RemoveAt(list, IndexOf(list, drag.widget.id) + 1)
  IN  Inserted(rest, drag.widget, drag.at)

OnLayoutChanged(l) ==
  /\ order' = Ids(l)
  /\ rows' = RowsOf(l)
  /\ UNCHANGED <<hidden, columns>>
  /\ SaveLayoutAsync("nothing")

Released(l) ==
  /\ list' = l
  /\ shown' = Pack(l, hostCols)
  /\ OnLayoutChanged(l)
  /\ UNCHANGED <<contained, hostCols>>

Release ==
  /\ \/ drag.mode = "pending" /\ UNCHANGED <<grid, service, saving>>
     \/ drag.mode = "drag" /\ Len(Dropped) <= MaxWidgets /\ Released(Dropped)
     \/ drag.mode = "resize" /\ Released(list)
  /\ drag' = Idle
  /\ UNCHANGED <<offered, relayout, stored, differs, faults, gestures>>

-----------------------------------------------------------------------------
(* The page, the editor window and the main window.                        *)

\* Seeded bug: the widget stays in the order of the visible ones.
HideWidget_Fault(id) ==
  /\ rows' = [rows EXCEPT ![id] = 0]
  /\ hidden' = hidden \cup {id}
  /\ UNCHANGED <<order, columns>>

HideWidget(id) ==
  /\ order' = RemoveFirst(order, id)
  /\ rows' = [rows EXCEPT ![id] = 0]
  /\ hidden' = hidden \cup {id}
  /\ UNCHANGED columns

RemoveWidget(id) ==
  LET Gone(w) == w.id = id
  IN  /\ list' = RemoveFirstMatch(list, Gone)
      /\ contained' = contained \ {id}
      /\ shown' = Pack(RemoveFirstMatch(list, Gone), hostCols)
      /\ UNCHANGED hostCols

OnWidgetCloseClicked ==
  \E id \in contained :
    /\ Gesture
    /\ RemoveWidget(id)
    /\ HideWidget(id)
    /\ SaveLayoutAsync("offer")
    /\ drag' = IF drag.mode = "idle" THEN drag
               ELSE [Disturbed EXCEPT !.stale = @ \/ drag.widget.id = id]
    /\ UNCHANGED <<offered, relayout, stored, differs, faults>>

ShowWidget(id) ==
  /\ hidden' = hidden \ {id}
  /\ IF id \in ToSet(order)
     THEN UNCHANGED <<order, rows>>
     ELSE order' = Append(order, id) /\ rows' = [rows EXCEPT ![id] = 1]
  /\ UNCHANGED columns

\* The page shows the widget only when the save has ended.
OnAddWidgetClick ==
  \E id \in offered :
    /\ Gesture
    /\ Len(order) < MaxWidgets
    /\ ShowWidget(id)
    /\ SaveLayoutAsync("refresh")
    /\ UNCHANGED <<grid, drag, offered, relayout, stored, differs, faults>>

ShowEditorWindow ==
  /\ offered # hidden
  /\ offered' = hidden
  /\ UNCHANGED <<grid, drag, service, relayout, saving, stored, differs, faults, gestures>>

ChangeColumns(c) ==
  /\ columns' = c
  /\ relayout' = (relayout \/ c # columns)
  /\ UNCHANGED <<order, rows, hidden>>

\* The settings page; the left edge of the window saves what it has set when it
\* is let go, which is this step late.
SetColumns ==
  \E c \in Columns \ {columns} :
    /\ Gesture
    /\ ChangeColumns(c)
    /\ SaveLayoutAsync("nothing")
    /\ UNCHANGED <<grid, drag, offered, stored, differs, faults>>

LayoutAgain(cols) ==
  /\ hostCols' = cols
  /\ shown' = Pack(list, cols)
  /\ drag' = IF drag.mode = "idle" THEN drag ELSE Disturbed
  /\ UNCHANGED <<list, contained>>

OnWidgetServiceChanged ==
  /\ relayout
  /\ relayout' = FALSE
  /\ LayoutAgain(columns)
  /\ UNCHANGED <<service, offered, saving, stored, differs, faults, gestures>>

\* The window changes size: the host lays out its list, a preview or not.
OnSizeChanged ==
  /\ LayoutAgain(hostCols)
  /\ UNCHANGED <<service, offered, relayout, saving, stored, differs, faults, gestures>>

\* A page built anew, after the settings page: a drag does not outlive its page.
NavigateHome ==
  /\ SetupWidgets(order, rows, columns)
  /\ drag' = Idle
  /\ UNCHANGED <<service, offered, relayout, saving, stored, differs, faults, gestures>>

\* The frontend ends and starts again. The saves on the way are those the backend
\* does not read any more: one it still takes is a SaveEnds before this step, which
\* leaves nothing else behind. A get_config that fails, as before the pipe is
\* connected, is caught and not repeated.
Restart ==
  /\ \E found \in {stored, NotLoaded} :
       /\ Loaded(found)
       /\ offered' = found.hidden
       /\ differs' = (found # stored)
  /\ differs' => faults < MaxFaults
  /\ faults' = IF differs' THEN faults + 1 ELSE faults
  /\ drag' = Idle
  /\ saving' = <<>>
  /\ relayout' = FALSE
  /\ UNCHANGED <<stored, gestures>>

Init ==
  /\ stored \in {FirstRun, EverythingShown}
  /\ order = Ids(stored.widgets)
  /\ rows = RowsOf(stored.widgets)
  /\ hidden = {}
  /\ offered = {}
  /\ columns = 3
  /\ list = BuiltFrom(order, rows)
  /\ contained = Id
  /\ hostCols = 3
  /\ shown = Pack(list, 3)
  /\ drag = Idle
  /\ relayout = FALSE
  /\ saving = <<>>
  /\ differs = FALSE
  /\ faults = 0
  /\ gestures = 0

Next ==
  \/ SaveEnds
  \/ Press
  \/ DragMove
  \/ ResizeMove
  \/ Release
  \/ OnWidgetCloseClicked
  \/ OnAddWidgetClick
  \/ ShowEditorWindow
  \/ SetColumns
  \/ OnWidgetServiceChanged
  \/ OnSizeChanged
  \/ NavigateHome
  \/ Restart

Spec == Init /\ [][Next]_vars

-----------------------------------------------------------------------------
(* Properties.                                                             *)

\* What is shown is a layout: every position within the columns the host has,
\* no two on one cell, and, unless a preview is on, every widget of the list
\* in the place the packing of the list gives it. (GridLayoutEngine.Pack and
\* every caller of ApplyPositions.)
LayoutIsSound ==
  /\ \A i, j \in DOMAIN shown :
       /\ i # j => Cells(shown[i]) \cap Cells(shown[j]) = {}
       /\ shown[i].col + shown[i].cols <= hostCols
  /\ drag.mode \in {"idle", "pending"} => Ids(shown) = Ids(list)
  /\ drag.mode = "idle" => shown = Pack(list, hostCols)

\* The page and the service agree on the visible widgets and their order
\* whenever no refresh is due, whatever drops, closes and late answers came
\* between: else the next save would store what the user does not see. A page
\* without a configuration shows the defaults and is left out.
GridMirrorsService ==
  (order # <<>> /\ \A i \in DOMAIN saving : saving[i].then # "refresh")
    => Ids(list) = order

\* When the last save has reached the backend and nothing is being changed,
\* the backend holds the layout of the service; of the columns it takes 3 and
\* 4 only (transport.cpp:1279). Nothing else parts the two but a layout that
\* could not be loaded (MainWindow.xaml.cs:680), until the next save that gets
\* through. (SaveLayoutAsync after every change.)
StoredIsCurrent ==
  (saving = <<>> /\ ~differs) =>
    /\ Ids(stored.widgets) = order
    /\ stored.hidden = hidden
    /\ columns \in {3, 4} => stored.columns = columns

\* Letting a widget go leaves it, and all others, where the preview has them,
\* unless a relayout has wiped the preview out or the page was refreshed
\* under the drag. (OnPointerReleased against HandleDragMove.)
DropIsPreview ==
  [][(/\ drag.mode = "drag" /\ drag'.mode = "idle" /\ Len(saving') > Len(saving)
      /\ ~drag.stale /\ ~drag.disturbed /\ IsInjective(Ids(list))) => shown' = shown]_vars

\* WidgetService.cs:151 has it that a widget moves from the hidden to the
\* visible list: every widget is shown or offered for adding once the
\* handlers are through.
NoWidgetLost == saving = <<>> => ToSet(Ids(list)) \cup hidden = Id
=============================================================================
