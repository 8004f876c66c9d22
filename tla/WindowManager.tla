---------------------------- MODULE WindowManager ----------------------------
(***************************************************************************)
(* gui/wm.c: the window table, the focus, the taskbar and the mouse        *)
(* handler.  A window is its index in g_Windows; the fields of struct      *)
(* Window are functions of that index.  Mouse events come from the IRQ12   *)
(* handler with interrupts disabled, so each one is a single step; the     *)
(* applications create their windows from the main thread between them.    *)
(***************************************************************************)
EXTENDS Memory

CONSTANTS
  MAX_WINDOWS, MAX_TASKBAR_ITEMS,
  ScreenW, ScreenH,          \* fb_width(), fb_height()
  TITLE_BAR_HEIGHT,
  BtnSize, BtnInset,         \* the minimize button and its distance to the edge
  TaskbarHeight,             \* g_Taskbar.height
  ItemW, ItemMargin,         \* layout of the taskbar items
  AppRects,                  \* AppRects[n]: what may be asked for when n windows exist
  Points                     \* the pointer positions the mouse reports

Screen == [x : 0 .. ScreenW - 1, y : 0 .. ScreenH - 1]
Rect == [x : Int, y : Int, w : Nat, h : Nat]

ASSUME GeometryAssumption ==
  /\ MAX_WINDOWS \in Nat \ {0} /\ MAX_TASKBAR_ITEMS \in Nat
  /\ ScreenW \in Nat /\ ScreenH \in Nat /\ TITLE_BAR_HEIGHT \in Nat
  /\ BtnSize \in Nat /\ BtnInset \in Nat /\ TaskbarHeight \in Nat
  /\ ItemW \in Nat /\ ItemMargin \in Nat
  /\ AppRects \in [0 .. MAX_WINDOWS -> SUBSET Rect]
  /\ \A n \in 0 .. MAX_WINDOWS : \A r \in AppRects[n] : r.w * r.h * 4 < Word
  /\ Points \subseteq Screen

\* The accounting cannot wrap round, even for windows that got no buffer; and as
\* many of the largest windows as there may be fit below the buffer of fb.c.
ASSUME BufferAssumption ==
  \E M \in 0 .. Word : /\ \A n \in 0 .. MAX_WINDOWS : \A r \in AppRects[n] : r.w * r.h * 4 <= M
                       /\ TotalRam + MAX_WINDOWS * M < Word
                       /\ KernelEnd + 3 + MAX_WINDOWS * M <= g_BackBuffer

\* Every window fits into the taskbar.
ASSUME TaskbarAssumption == MAX_WINDOWS <= MAX_TASKBAR_ITEMS

VARIABLES
  rect, backbuffer, has_focus, minimized, taskbar_index,  \* struct Window
  g_WindowCount, g_FocusedWindow,
  items, count,                                           \* g_Taskbar
  g_IsDragging, g_DragOffset,
  last_buttons,  \* bit 0 of the static in wm_handle_mouse_event
  button         \* ghost: bit 0 of the latest packet of the mouse

focusVars == <<has_focus, g_FocusedWindow>>
taskbarVars == <<minimized, taskbar_index, items, count>>
dragVars == <<g_IsDragging, g_DragOffset>>
wmVars == <<memVars, rect, backbuffer, focusVars, taskbarVars, dragVars,
            g_WindowCount, last_buttons, button>>

Windows == 0 .. MAX_WINDOWS - 1
NoWindow == -1          \* a NULL Window*
Slots == 0 .. MAX_TASKBAR_ITEMS - 1
Created == 0 .. g_WindowCount - 1

IsTop(w, S) == w \in S /\ \A v \in S : v <= w
IsLowest(i, S) == i \in S /\ \A j \in S : i <= j

TypeOK ==
  /\ rect \in [Windows -> Rect]
  /\ backbuffer \in [Windows -> 0 .. Word - 1]
  /\ has_focus \in [Windows -> BOOLEAN]
  /\ minimized \in [Windows -> BOOLEAN]
  /\ taskbar_index \in [Windows -> Slots \cup {-1}]
  /\ g_WindowCount \in 0 .. MAX_WINDOWS
  /\ g_FocusedWindow \in Windows \cup {NoWindow}
  /\ items \in [Slots -> Windows \cup {NoWindow}]
  /\ count \in 0 .. MAX_TASKBAR_ITEMS
  /\ g_IsDragging \in BOOLEAN
  /\ g_DragOffset \in [x : Int, y : Int]
  /\ last_buttons \in BOOLEAN /\ button \in BOOLEAN

-----------------------------------------------------------------------------
(* Hit testing. *)

Within(n, lo, len) == n >= lo /\ n < lo + len

tb_y == ScreenH - TaskbarHeight
item_x(i) == i * (ItemW + ItemMargin) + ItemMargin

\* The taskbar slots under the pointer.
ItemsAt(p) == {i \in 0 .. count - 1 : p.y >= tb_y /\ Within(p.x, item_x(i), ItemW)}

InTitle(w, p) == /\ Within(p.x, rect[w].x, rect[w].w)
                 /\ Within(p.y, rect[w].y - TITLE_BAR_HEIGHT, TITLE_BAR_HEIGHT)

InButton(w, p) ==
  /\ Within(p.x, rect[w].x + rect[w].w - BtnSize - BtnInset, BtnSize)
  /\ Within(p.y, rect[w].y - TITLE_BAR_HEIGHT + BtnInset, BtnSize)

InContent(w, p) == /\ Within(p.x, rect[w].x, rect[w].w)
                   /\ Within(p.y, rect[w].y, rect[w].h)

\* The windows under the pointer; the handler takes the topmost.
Hit(p) == {w \in Created : ~minimized[w] /\ (InTitle(w, p) \/ InContent(w, p))}

-----------------------------------------------------------------------------
(* Focus, minimize, restore, create. *)

\* has_focus after the focus has moved from window f to window w.
FocusMoved(f, w) ==
  [v \in Windows |-> IF v = w THEN TRUE ELSE IF v = f THEN FALSE ELSE has_focus[v]]

\* Mutant: the window that loses the focus keeps its flag.
wm_set_focusMut(w) ==
  /\ has_focus' = [has_focus EXCEPT ![w] = TRUE]
  /\ g_FocusedWindow' = w

wm_set_focus(w) ==
  /\ has_focus' = FocusMoved(g_FocusedWindow, w)
  /\ g_FocusedWindow' = w

\* The window, or NoWindow, that takes the focus when w is minimized.
IsHeir(h, w) == LET shown == {v \in Created \ {w} : ~minimized[v]}
                IN IF shown = {} THEN h = NoWindow ELSE IsTop(h, shown)

\* Mutant: a minimized window keeps the focus.
wm_minimizeMut(w) ==
  /\ minimized' = [minimized EXCEPT ![w] = TRUE]
  /\ taskbar_index' = [taskbar_index EXCEPT ![w] = count]
  /\ items' = [items EXCEPT ![count] = w]
  /\ count' = count + 1
  /\ UNCHANGED focusVars

wm_minimize(w) ==
  IF minimized[w] \/ count >= MAX_TASKBAR_ITEMS
  THEN UNCHANGED <<taskbarVars, focusVars>>
  ELSE /\ minimized' = [minimized EXCEPT ![w] = TRUE]
       /\ taskbar_index' = [taskbar_index EXCEPT ![w] = count]
       /\ items' = [items EXCEPT ![count] = w]
       /\ count' = count + 1
       /\ IF has_focus[w]
          THEN \E h \in Windows \cup {NoWindow} :
                 /\ IsHeir(h, w)
                 /\ has_focus' = FocusMoved(w, h)
                 /\ g_FocusedWindow' = h
          ELSE UNCHANGED focusVars

\* The slots that move down when the item at idx leaves the taskbar.
Moved(idx) == IF idx = -1 THEN {} ELSE idx .. count - 2

\* Mutant: the items move down but keep the index they had.
ReindexedMut(w, idx) == [taskbar_index EXCEPT ![w] = -1]

\* taskbar_index once the items above idx have moved down and w has left.
Reindexed(w, idx) ==
  [v \in Windows |->
     LET at == {i \in Moved(idx) : items[i + 1] = v}
     IN IF v = w THEN -1
        ELSE IF at = {} THEN taskbar_index[v] ELSE CHOOSE i \in at : IsTop(i, at)]

\* Mutant: the last item leaves the taskbar, whichever window is restored.
wm_restoreMut(w) ==
  /\ minimized[w]
  /\ count' = count - 1
  /\ minimized' = [minimized EXCEPT ![w] = FALSE]
  /\ taskbar_index' = [taskbar_index EXCEPT ![w] = -1]
  /\ wm_set_focus(w)
  /\ UNCHANGED items

\* Mutant: the count of the taskbar is not taken back.
wm_restoreCountMut(w) ==
  /\ minimized[w]
  /\ items' = [i \in Slots |-> IF i \in Moved(taskbar_index[w]) THEN items[i + 1] ELSE items[i]]
  /\ taskbar_index' = Reindexed(w, taskbar_index[w])
  /\ minimized' = [minimized EXCEPT ![w] = FALSE]
  /\ wm_set_focus(w)
  /\ UNCHANGED count

wm_restore(w) ==
  IF w = NoWindow \/ ~minimized[w]
  THEN UNCHANGED <<taskbarVars, focusVars>>
  ELSE LET idx == taskbar_index[w]
       IN /\ items' = [i \in Slots |-> IF i \in Moved(idx) THEN items[i + 1] ELSE items[i]]
          /\ taskbar_index' = Reindexed(w, idx)
          /\ count' = IF idx = -1 THEN count ELSE count - 1
          /\ minimized' = [minimized EXCEPT ![w] = FALSE]
          /\ wm_set_focus(w)

\* Mutant: the limit on windows is off by one.
wm_create_windowMut(r) ==
  /\ g_WindowCount <= MAX_WINDOWS
  /\ g_WindowCount' = g_WindowCount + 1
  /\ wm_set_focus(g_WindowCount)
  /\ UNCHANGED <<memVars, rect, backbuffer, taskbarVars, dragVars, last_buttons, button>>

\* An application creates its window.  A NULL backbuffer is not an error here.
wm_create_window(r) ==
  LET w == g_WindowCount
      size == r.w * r.h * 4
  IN /\ g_WindowCount < MAX_WINDOWS
     /\ AllocBackbuffer(size)
     /\ rect' = [rect EXCEPT ![w] = r]
     /\ backbuffer' = [backbuffer EXCEPT ![w] = AllocResult(size)]
     /\ minimized' = [minimized EXCEPT ![w] = FALSE]
     /\ taskbar_index' = [taskbar_index EXCEPT ![w] = -1]
     /\ g_WindowCount' = w + 1
     /\ wm_set_focus(w)
     /\ UNCHANGED <<items, count, dragVars, last_buttons, button>>

-----------------------------------------------------------------------------
(* wm_handle_mouse_event(x, y, buttons), one action per path through it.   *)
(* Every path but the taskbar's ends in EndOfEvent.                        *)

\* Lines 287-293: a drag moves the focused window, and the buttons are kept.
EndOfEvent(p, held) ==
  /\ rect' = IF g_IsDragging' /\ g_FocusedWindow' # NoWindow
             THEN [rect EXCEPT ![g_FocusedWindow'].x = p.x - g_DragOffset'.x,
                               ![g_FocusedWindow'].y = p.y - g_DragOffset'.y]
             ELSE rect
  /\ last_buttons' = held
  /\ button' = held
  /\ UNCHANGED <<memVars, backbuffer, g_WindowCount>>

\* The handler takes a packet for a click when its own last_buttons was up.
LeftClick == ~last_buttons

\* A click on a taskbar item restores its window and returns at once: the
\* handler does not record that the button is down.
ClickTaskbar(p) ==
  /\ LeftClick
  /\ \E i \in Slots : IsLowest(i, ItemsAt(p)) /\ wm_restore(items[i])
  /\ button' = TRUE
  /\ UNCHANGED <<memVars, rect, backbuffer, dragVars, g_WindowCount, last_buttons>>

\* A click that reaches the windows, w being the topmost one under it.
ClickOn(w, p) == LeftClick /\ ItemsAt(p) = {} /\ IsTop(w, Hit(p))

ClickMinimize(p) ==
  /\ \E w \in Windows : ClickOn(w, p) /\ InTitle(w, p) /\ InButton(w, p) /\ wm_minimize(w)
  /\ UNCHANGED dragVars
  /\ EndOfEvent(p, TRUE)

\* Mutant: the grip is measured only when the window had no focus yet.
ClickTitleMut(p) ==
  /\ \E w \in Windows :
       /\ ClickOn(w, p) /\ InTitle(w, p) /\ ~InButton(w, p)
       /\ wm_set_focus(w)
       /\ g_DragOffset' = IF w = g_FocusedWindow THEN g_DragOffset
                          ELSE [x |-> p.x - rect[w].x, y |-> p.y - rect[w].y]
  /\ g_IsDragging' = TRUE
  /\ UNCHANGED taskbarVars
  /\ EndOfEvent(p, TRUE)

ClickTitle(p) ==
  /\ \E w \in Windows :
       /\ ClickOn(w, p) /\ InTitle(w, p) /\ ~InButton(w, p)
       /\ wm_set_focus(w)
       /\ g_DragOffset' = [x |-> p.x - rect[w].x, y |-> p.y - rect[w].y]
  /\ g_IsDragging' = TRUE
  /\ UNCHANGED taskbarVars
  /\ EndOfEvent(p, TRUE)

\* on_mouse is the application's business and leaves the window manager alone.
ClickContent(p) ==
  /\ \E w \in Windows : ClickOn(w, p) /\ ~InTitle(w, p) /\ wm_set_focus(w)
  /\ UNCHANGED <<taskbarVars, dragVars>>
  /\ EndOfEvent(p, TRUE)

\* A click beside every window; above the taskbar it takes the focus away.
ClickDesktop(p) ==
  /\ LeftClick /\ ItemsAt(p) = {} /\ Hit(p) = {}
  /\ IF p.y < tb_y
     THEN /\ has_focus' = FocusMoved(g_FocusedWindow, NoWindow)
          /\ g_FocusedWindow' = NoWindow
     ELSE UNCHANGED focusVars
  /\ UNCHANGED <<taskbarVars, dragVars>>
  /\ EndOfEvent(p, TRUE)

\* The button stays down: a motion, and a drag if one is under way.
Drag(p) ==
  /\ last_buttons
  /\ UNCHANGED <<focusVars, taskbarVars, dragVars>>
  /\ EndOfEvent(p, TRUE)

\* Mutant: letting the button go does not end the drag.
ReleaseMut(p) ==
  /\ UNCHANGED <<focusVars, taskbarVars, dragVars>>
  /\ EndOfEvent(p, FALSE)

\* The button is up: the drag ends, wherever the pointer is.
Release(p) ==
  /\ g_IsDragging' = FALSE
  /\ UNCHANGED <<focusVars, taskbarVars, g_DragOffset>>
  /\ EndOfEvent(p, FALSE)

wm_handle_mouse_event(p) ==
  \/ ClickTaskbar(p) \/ ClickMinimize(p) \/ ClickTitle(p) \/ ClickContent(p)
  \/ ClickDesktop(p) \/ Drag(p) \/ Release(p)

-----------------------------------------------------------------------------
\* The statics after mem_init(), fb_init() and wm_init().
wm_init ==
  /\ mem_init
  /\ rect = [w \in Windows |-> [x |-> 0, y |-> 0, w |-> 0, h |-> 0]]
  /\ backbuffer = [w \in Windows |-> NULL]
  /\ has_focus = [w \in Windows |-> FALSE]
  /\ minimized = [w \in Windows |-> FALSE]
  /\ taskbar_index = [w \in Windows |-> 0]
  /\ g_WindowCount = 0
  /\ g_FocusedWindow = NoWindow
  /\ items = [i \in Slots |-> NoWindow]
  /\ count = 0
  /\ g_IsDragging = FALSE
  /\ g_DragOffset = [x |-> 0, y |-> 0]
  /\ last_buttons = FALSE /\ button = FALSE

Next ==
  \/ \E r \in AppRects[g_WindowCount] : wm_create_window(r)
  \/ \E p \in Points : wm_handle_mouse_event(p)

Spec == wm_init /\ [][Next]_wmVars

-----------------------------------------------------------------------------
(* Safety.                                                                 *)

\* At most one window believes it has the focus, and it is the one that
\* g_FocusedWindow names: the flag and the pointer are updated separately in
\* wm_set_focus, wm_minimize and the desktop click.
FocusExclusive == \A w \in Windows : has_focus[w] <=> w = g_FocusedWindow

\* Keystrokes (wm_handle_key_event) go to an existing window that is on the
\* screen, never to a minimized one.
FocusShown == g_FocusedWindow # NoWindow =>
                g_FocusedWindow \in Created /\ ~minimized[g_FocusedWindow]

\* The taskbar lists the minimized windows, each once, and every window knows
\* its slot: clicking an item restores the window drawn there (wm_restore).
TaskbarExact ==
  /\ \A i \in 0 .. count - 1 : /\ items[i] \in Created
                              /\ minimized[items[i]]
                              /\ taskbar_index[items[i]] = i
  /\ \A w \in Created :
       IF minimized[w]
       THEN taskbar_index[w] \in 0 .. count - 1 /\ items[taskbar_index[w]] = w
       ELSE taskbar_index[w] = -1

\* A window on the screen can be minimized: the limit test of wm_minimize,
\* which would swallow the click, never bites.
NeverRefused == (\E w \in Created : ~minimized[w]) => count < MAX_TASKBAR_ITEMS

\* No window follows the pointer once the button is up, although the taskbar
\* path returns without recording the button.
DragHeld == g_IsDragging => g_FocusedWindow # NoWindow /\ last_buttons /\ button

\* Some pixel of the window's title bar is on the screen, so it can be dragged.
Reachable(w) == \E p \in Screen : InTitle(w, p)

\* The pointer is on the title bar of the window being dragged.
Gripped == g_IsDragging =>
             /\ Within(g_DragOffset.x, 0, rect[g_FocusedWindow].w)
             /\ Within(g_DragOffset.y, -TITLE_BAR_HEIGHT, TITLE_BAR_HEIGHT)

\* No mouse event loses a window: if every title bar can be reached and the
\* pointer grips the dragged one, both still hold afterwards.  Creating a
\* window moves the focus, and a drag under way then moves that window.
KeepsReachable ==
  g_WindowCount' = g_WindowCount /\ Gripped /\ (\A w \in Created : Reachable(w))
    => Gripped' /\ \A w \in Created : Reachable(w)'

DragKeepsReachable == [][KeepsReachable]_wmVars

\* No allocation of a backbuffer has failed.
AllBuffered == \A w \in Created : backbuffer[w] # NULL

\* The classes of memory make up what is used.  As long as every window got its
\* backbuffer, the figures of memstats agree with the bump pointer: every byte
\* handed out is counted once, and used and free make up the RAM.
StatsHonest ==
  /\ memstats.used = memstats.kernel_static + memstats.framebuffer
                     + memstats.backbuffer + memstats.heap
  /\ AllBuffered =>
       /\ memstats.used = KernelEnd - KernelStart + FbSize + g_NextAlloc - AlignUp(KernelEnd)
       /\ memstats.used <= TotalRam /\ memstats.free = TotalRam - memstats.used

\* A window is restored only by a press of the button, as the test "Left click"
\* of the handler says; holding it down restores nothing.
PressRestoresOnce ==
  [][ (\E w \in Created : minimized[w] /\ ~minimized'[w]) => ~button ]_wmVars

-----------------------------------------------------------------------------
\* The live part of the taskbar array.
Tray == [i \in 1 .. count |-> items[i - 1]]

\* What a user is promised: see Desktop.
D == INSTANCE Desktop WITH Window <- Windows, None <- NoWindow,
       opened <- Created, focus <- g_FocusedWindow, tray <- Tray

\* The taskbar array, its indices and the focus flags together behave as the
\* ordered tray and single focus of Desktop.
ImplementsDesktop == D!Spec
=============================================================================
