----------------------------- MODULE ChartResize -----------------------------
(***************************************************************************)
(* The handle that resizes a chart (portal/dashboard.js 2030-2177): it is  *)
(* dragged, or clicked twice.  A press hooks the mouse events of the whole *)
(* document for the chart, a second press within the double click speed    *)
(* changes the height by itself.  Heights and positions are whole numbers; *)
(* MinDrag stands for the 70 pixels.                                       *)
(***************************************************************************)
EXTENDS Integers

CONSTANTS Handles,        \* the charts with a handle: positive numbers
          MaxHeight,      \* the largest height of a chart, and position of the mouse
          MinDrag         \* the smallest height a chart can be dragged to

ASSUME ResizeAssumption ==
    Handles \subseteq Nat \ {0} /\ MaxHeight \in Nat /\ MinDrag \in Nat

VARIABLE resize

NoHandle == 0

Heights == 1 .. MaxHeight

NoPress == [set |-> FALSE, orig |-> 0, start |-> 0, last |-> 0, y |-> 0, recent |-> FALSE]

\* `page`: height_original; `fit`: the height that shows the whole legend;
\* `ev`: event_resize of a chart, `recent`: its last press is not older than
\* the double click speed; `hook`: the chart that document.onmousemove and
\* onmouseup belong to; `down`: the chart whose handle is held; `missed`
\* (history): how many of the last clicks of a chart, in a row, were second
\* clicks that left a part of the legend hidden.
ResizeInit ==
    \E h, page, fit \in [Handles -> Heights] :
        resize = [height |-> h, page |-> page, fit |-> fit,
                  ev |-> [c \in Handles |-> NoPress], hook |-> NoHandle,
                  down |-> NoHandle, y |-> 1, missed |-> [c \in Handles |-> 0]]

\* The first press of a handle notes the height the chart has.
Pressed(s, c) ==
    [s EXCEPT !.down = c,
              !.ev[c] = [s.ev[c] EXCEPT !.set = TRUE,
                                        !.orig = IF s.ev[c].set THEN @ ELSE s.height[c],
                                        !.start = s.height[c], !.last = s.height[c],
                                        !.y = s.y]]

\* The height of the whole legend: the current height, and what its scroller
\* hides.
Optimal(s, c) == IF s.fit[c] > s.height[c] THEN s.fit[c] ELSE s.height[c]

\* Mutant: the height at the first press is tried before the legend.
Mut_SecondPress(s, c) ==
    IF s.height[c] # s.ev[c].orig THEN s.ev[c].orig
    ELSE IF s.height[c] # s.page[c] THEN s.page[c]
    ELSE IF s.height[c] # Optimal(s, c) THEN Optimal(s, c)
    ELSE s.fit[c]

\* The height after a second click: of the whole legend, else at the first
\* press, else of the page, else what the legend needs.
SecondPress(s, c) ==
    IF s.height[c] # Optimal(s, c) THEN Optimal(s, c)
    ELSE IF s.height[c] # s.ev[c].orig THEN s.ev[c].orig
    ELSE IF s.height[c] # s.page[c] THEN s.page[c]
    ELSE s.fit[c]

\* resizeHandler(): a handle is pressed.
PressHandle(c) ==
    /\ resize.down = NoHandle
    /\ LET s == Pressed(resize, c)
           h == SecondPress(s, c)
       IN  resize' = IF resize.ev[c].recent
                     THEN [s EXCEPT !.height[c] = h,
                                    !.missed[c] = IF h >= s.fit[c] THEN 0 ELSE @ + 1]
                     ELSE [s EXCEPT !.hook = c, !.ev[c].recent = TRUE, !.missed[c] = 0]

\* Mutant: the height of the last move is not kept, so that a move back to it is
\* ignored.
Mut_MoveTo(s, y) ==
    LET c == s.hook
        h == s.ev[c].start + y - s.ev[c].y
    IN  IF h >= MinDrag /\ h # s.ev[c].last THEN [s EXCEPT !.height[c] = h] ELSE s

\* The hook of a move: the height follows the mouse.
MoveTo(s, y) ==
    LET c == s.hook
        h == s.ev[c].start + y - s.ev[c].y
    IN  IF h >= MinDrag /\ h # s.ev[c].last
        THEN [s EXCEPT !.height[c] = h, !.ev[c].last = h] ELSE s

\* The mouse moves, as far as no chart grows beyond MaxHeight.
MoveMouse ==
    \E y \in Heights :
        LET s == [resize EXCEPT !.y = y]
            moved == IF s.hook = NoHandle THEN s ELSE MoveTo(s, y)
        IN  /\ \A c \in Handles : moved.height[c] <= MaxHeight
            /\ resize' = moved

\* Mutant: the hooks of the document stay.
Mut_Released(s) == [s EXCEPT !.down = NoHandle]

\* The hook of the end: all hooks are removed.
Released(s) == [s EXCEPT !.down = NoHandle, !.hook = NoHandle]

ReleaseHandle == resize.down # NoHandle /\ resize' = Released(resize)

\* The double click speed has passed since the last press of a chart.
PressIsOld ==
    \E c \in Handles :
        /\ resize.ev[c].recent
        /\ resize' = [resize EXCEPT !.ev[c].recent = FALSE, !.missed[c] = 0]

\* The dimensions of a chart, and so the height of its legend, change.
LegendGrows ==
    \E c \in Handles, fit \in Heights :
        resize' = [resize EXCEPT !.fit[c] = fit, !.missed[c] = 0]

ResizeNext ==
    \/ \E c \in Handles : PressHandle(c)
    \/ MoveMouse \/ ReleaseHandle \/ PressIsOld \/ LegendGrows

ResizeSpec == ResizeInit /\ [][ResizeNext]_resize

-----------------------------------------------------------------------------
(***************************************************************************)
(* Properties                                                              *)
(***************************************************************************)

\* While a chart is dragged, its height is where the mouse is, however the mouse
\* got there: also after it was below the least height, and when the chart was
\* dragged before (2136-2151).
HeightFollows ==
    LET c == resize.hook
    IN  c # NoHandle =>
            LET h == resize.ev[c].start + resize.y - resize.ev[c].y
            IN  h >= MinDrag => resize.height[c] = h

\* The document is hooked only while the handle of that very chart is held: a
\* move of the free mouse resizes nothing, also after a double click, whose
\* second press sets no hooks (2130-2174).
HookIsHeld == resize.hook # NoHandle => resize.hook = resize.down

\* Clicking on shows the whole legend: of two second clicks in a row at least
\* one does (2082-2124).
LegendIsShown == \A c \in Handles : resize.missed[c] < 2

=============================================================================
