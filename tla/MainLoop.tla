------------------------------- MODULE MainLoop -------------------------------
(***************************************************************************)
(* The main loop of kernel/main.c with interrupts enabled.  The loop       *)
(* clicks the mouse itself ("Test Automation"), by calling                 *)
(* wm_handle_mouse_event from the main thread: that call is made of many   *)
(* statements (the kernel is built without optimisation), and the IRQ12    *)
(* handler runs whole mouse events of the user between any two of them.    *)
(* Before it, the main thread creates the applications' windows, each in   *)
(* one step.                                                               *)
(***************************************************************************)
EXTENDS WindowManager

CONSTANTS
  FrameMinimize, FrameRestore,  \* the frames of the two scripted clicks
  ClickMin, ClickRestore,       \* where they point
  LastFrame,                    \* bound: the last frame the model counts to
  MaxPresses,                   \* bound: how often the user presses the button
  Apps                          \* the number of applications

\* Both scripted clicks lie above the taskbar, so the taskbar path of the
\* handler is not one that the main thread takes.
ASSUME ScriptAssumption ==
  /\ {FrameMinimize, FrameRestore, LastFrame, MaxPresses} \subseteq Nat
  /\ Apps \in 1 .. MAX_WINDOWS
  /\ {ClickMin, ClickRestore} \subseteq [x : 0 .. ScreenW - 1, y : 0 .. tb_y - 1]

VARIABLES
  pc,         \* the statement the main thread is about to execute
  frame,
  event,      \* the arguments of the scripted call: x, y and bit 0 of buttons
  win,        \* the local variables i and win
  ret,        \* where wm_set_focus returns to
  slot,       \* the register that holds g_Taskbar.count in items[count++] = win
  presses,    \* ghost: how often the user has pressed the button
  disturbed,  \* ghost: a press of the user came in while a call was under way
  nullWrite   \* ghost: the main thread has written through a NULL Window*

localVars == <<frame, event, win, ret, slot, presses, disturbed>>
vars == <<wmVars, pc, localVars, nullWrite>>

Press(p) == [p |-> p, held |-> TRUE]
LetGo(p) == [p |-> p, held |-> FALSE]

\* The statements of wm_handle_mouse_event, wm_minimize and wm_set_focus.
Statements ==
  {"edge", "hit", "guard", "room", "hide", "index", "load", "bump", "store", "had",
   "drop", "none", "heir", "unfocus", "clear", "point", "flag", "set",
   "grab", "gripx", "gripy", "up", "drag", "movex", "movey", "last"}

MainTypeOK ==
  /\ TypeOK
  /\ pc \in Statements \cup {"boot", "loop"}
  /\ frame \in 0 .. LastFrame
  /\ event \in [p : {ClickMin, ClickRestore}, held : BOOLEAN]
  /\ win \in Windows \cup {NoWindow}
  /\ ret \in {"grab", "up"}
  /\ slot \in Slots
  /\ presses \in 0 .. MaxPresses
  /\ disturbed \in BOOLEAN /\ nullWrite \in BOOLEAN

-----------------------------------------------------------------------------
(* One statement of the main thread.                                       *)

Goto(from, to) == pc = from /\ pc' = to

\* What a statement leaves alone.
KeepWindows == UNCHANGED <<memVars, backbuffer, g_WindowCount, button>>
KeepRest == KeepWindows /\ UNCHANGED <<localVars, nullWrite>>
\* A statement that only reads the window manager's state.
Reads == UNCHANGED <<wmVars, nullWrite, frame, event, slot, presses, disturbed>>

\* notepad_init() and the others, each creating one window.
Boot ==
  /\ pc = "boot"
  /\ \E r \in AppRects[g_WindowCount] : wm_create_window(r)
  /\ pc' = IF g_WindowCount' = Apps THEN "loop" ELSE "boot"
  /\ UNCHANGED <<localVars, nullWrite>>

\* The next frame: at two frames the script presses the button and lets it go.
Loop ==
  /\ pc = "loop" /\ frame < LastFrame
  /\ frame' = frame + 1
  /\ event' = CASE frame' = FrameMinimize -> Press(ClickMin)
                [] frame' = FrameRestore -> Press(ClickRestore)
                [] OTHER -> event
  /\ pc' = IF frame' \in {FrameMinimize, FrameRestore} THEN "edge" ELSE "loop"
  /\ UNCHANGED <<wmVars, nullWrite, win, ret, slot, presses, disturbed>>

\* Mutant: the loop over the windows starts one too high.
EdgeMut ==
  /\ pc = "edge"
  /\ pc' = IF event.held /\ ~last_buttons THEN "hit" ELSE "up"
  /\ win' = g_WindowCount
  /\ Reads /\ UNCHANGED ret

\* Is it a click?  tb_y is local and both clicks lie above it.
Edge ==
  /\ pc = "edge"
  /\ pc' = IF event.held /\ ~last_buttons THEN "hit" ELSE "up"
  /\ win' = g_WindowCount - 1
  /\ Reads /\ UNCHANGED ret

\* Mutant: a minimized window is skipped with continue before the decrement.
HitTestMut ==
  /\ pc = "hit"
  /\ IF win = NoWindow
     THEN pc' = "unfocus" /\ ret' = "up" /\ UNCHANGED win
     ELSE IF win \notin Hit(event.p)
     THEN /\ win' = IF minimized[win] THEN win ELSE win - 1
          /\ UNCHANGED <<pc, ret>>
     ELSE /\ pc' = IF InTitle(win, event.p) /\ InButton(win, event.p)
                   THEN "guard" ELSE "unfocus"
          /\ ret' = IF InTitle(win, event.p) THEN "grab" ELSE "up"
          /\ UNCHANGED win
  /\ Reads

\* One round of the loop over the windows.
HitTest ==
  /\ pc = "hit"
  /\ IF win = NoWindow
     THEN pc' = "unfocus" /\ ret' = "up" /\ UNCHANGED win
     ELSE IF win \notin Hit(event.p)
     THEN win' = win - 1 /\ UNCHANGED <<pc, ret>>
     ELSE /\ pc' = IF InTitle(win, event.p) /\ InButton(win, event.p)
                   THEN "guard" ELSE "unfocus"
          /\ ret' = IF InTitle(win, event.p) THEN "grab" ELSE "up"
          /\ UNCHANGED win
  /\ Reads

\* wm_minimize(win): the two guards, and the loop that looks for an heir.
Guards ==
  /\ \/ pc = "guard" /\ pc' = IF minimized[win] THEN "up" ELSE "room"
     \/ pc = "room" /\ pc' = IF count < MAX_TASKBAR_ITEMS THEN "hide" ELSE "up"
     \/ pc = "had" /\ pc' = IF has_focus[win] THEN "drop" ELSE "up"
  /\ Reads /\ UNCHANGED <<win, ret>>

Hide == /\ Goto("hide", "index")
        /\ minimized' = [minimized EXCEPT ![win] = TRUE]
        /\ UNCHANGED <<rect, focusVars, taskbar_index, items, count, dragVars, last_buttons>>
        /\ KeepRest

Index == /\ Goto("index", "load")
         /\ taskbar_index' = [taskbar_index EXCEPT ![win] = count]
         /\ UNCHANGED <<rect, focusVars, minimized, items, count, dragVars, last_buttons>>
         /\ KeepRest

\* items[count++] = win: a load, and two stores.
Load == /\ Goto("load", "bump")
        /\ slot' = count
        /\ UNCHANGED <<wmVars, nullWrite, frame, event, win, ret, presses, disturbed>>

Bump == /\ Goto("bump", "store")
        /\ count' = slot + 1
        /\ UNCHANGED <<rect, focusVars, minimized, taskbar_index, items, dragVars, last_buttons>>
        /\ KeepRest

Store == /\ Goto("store", "had")
         /\ items' = [items EXCEPT ![slot] = win]
         /\ UNCHANGED <<rect, focusVars, minimized, taskbar_index, count, dragVars, last_buttons>>
         /\ KeepRest

\* Mutant: a minimized window keeps its focus flag.
DropMut == /\ Goto("drop", "none")
           /\ UNCHANGED <<rect, focusVars, taskbarVars, dragVars, last_buttons>>
           /\ KeepRest

Drop == /\ Goto("drop", "none")
        /\ has_focus' = [has_focus EXCEPT ![win] = FALSE]
        /\ UNCHANGED <<rect, g_FocusedWindow, taskbarVars, dragVars, last_buttons>>
        /\ KeepRest

Forget == /\ Goto("none", "heir")
        /\ g_FocusedWindow' = NoWindow
        /\ win' = g_WindowCount - 1
        /\ UNCHANGED <<rect, has_focus, taskbarVars, dragVars, last_buttons, nullWrite,
                       frame, event, ret, slot, presses, disturbed>>
        /\ KeepWindows

Heir ==
  /\ pc = "heir"
  /\ ret' = "up"
  /\ IF win = NoWindow THEN pc' = "up" /\ UNCHANGED win
     ELSE IF minimized[win] THEN win' = win - 1 /\ UNCHANGED pc
     ELSE pc' = "unfocus" /\ UNCHANGED win
  /\ Reads

\* Mutant: the flag is stored without testing the pointer.
TestsMut ==
  /\ \/ Goto("unfocus", "clear")
     \/ Goto("flag", "set")
  /\ Reads /\ UNCHANGED <<win, ret>>

\* wm_set_focus(win); for NoWindow, the two statements of a desktop click.
\* Each "if (g_FocusedWindow)" reads the pointer, and the store after it
\* reads it again.
Tests ==
  /\ \/ pc = "unfocus" /\ pc' = IF g_FocusedWindow = NoWindow THEN "point" ELSE "clear"
     \/ pc = "flag" /\ pc' = IF g_FocusedWindow = NoWindow THEN ret ELSE "set"
  /\ Reads /\ UNCHANGED <<win, ret>>

\* g_FocusedWindow->has_focus = b.
StoreFlag(b) ==
  /\ has_focus' = [w \in Windows |-> IF w = g_FocusedWindow THEN b ELSE has_focus[w]]
  /\ nullWrite' = (nullWrite \/ g_FocusedWindow = NoWindow)
  /\ UNCHANGED <<rect, g_FocusedWindow, taskbarVars, dragVars, last_buttons, localVars>>
  /\ KeepWindows

Clear == Goto("clear", "point") /\ StoreFlag(FALSE)
Set == Goto("set", ret) /\ StoreFlag(TRUE)

Point == /\ Goto("point", IF win = NoWindow THEN ret ELSE "flag")
         /\ g_FocusedWindow' = win
         /\ UNCHANGED <<rect, has_focus, taskbarVars, dragVars, last_buttons>>
         /\ KeepRest

\* A drag starts, and the tail of the handler.
Grab == /\ Goto("grab", "gripx")
        /\ g_IsDragging' = TRUE
        /\ UNCHANGED <<rect, focusVars, taskbarVars, g_DragOffset, last_buttons>>
        /\ KeepRest

Grip == /\ \/ /\ Goto("gripx", "gripy")
              /\ g_DragOffset' = [g_DragOffset EXCEPT !.x = event.p.x - rect[win].x]
           \/ /\ Goto("gripy", "up")
              /\ g_DragOffset' = [g_DragOffset EXCEPT !.y = event.p.y - rect[win].y]
        /\ UNCHANGED <<rect, focusVars, taskbarVars, g_IsDragging, last_buttons>>
        /\ KeepRest

\* Mutant: the script's release does not end a drag.
UpMut == /\ Goto("up", "drag")
         /\ UNCHANGED <<rect, focusVars, taskbarVars, dragVars, last_buttons>>
         /\ KeepRest

Up == /\ Goto("up", "drag")
      /\ g_IsDragging' = (g_IsDragging /\ event.held)
      /\ UNCHANGED <<rect, focusVars, taskbarVars, g_DragOffset, last_buttons>>
      /\ KeepRest

DragTest ==
  /\ pc = "drag"
  /\ pc' = IF g_IsDragging /\ g_FocusedWindow # NoWindow THEN "movex" ELSE "last"
  /\ Reads /\ UNCHANGED <<win, ret>>

\* g_FocusedWindow->x = x - g_DragOffsetX, and the same for y.
StorePos(axis) ==
  /\ rect' = IF g_FocusedWindow = NoWindow THEN rect
             ELSE [rect EXCEPT ![g_FocusedWindow][axis] = event.p[axis] - g_DragOffset[axis]]
  /\ nullWrite' = (nullWrite \/ g_FocusedWindow = NoWindow)
  /\ UNCHANGED <<focusVars, taskbarVars, dragVars, last_buttons, localVars>>
  /\ KeepWindows

MoveX == Goto("movex", "movey") /\ StorePos("x")
MoveY == Goto("movey", "last") /\ StorePos("y")

\* The call returns; after the press comes the release.
Last ==
  /\ Goto("last", IF event.held THEN "edge" ELSE "loop")
  /\ last_buttons' = event.held
  /\ event' = LetGo(event.p)
  /\ UNCHANGED <<rect, focusVars, taskbarVars, dragVars, nullWrite,
                 frame, win, ret, slot, presses, disturbed>>
  /\ KeepWindows

Call == \/ Edge \/ HitTest \/ Guards \/ Hide \/ Index \/ Load \/ Bump \/ Store
        \/ Drop \/ Forget \/ Heir \/ Tests \/ Clear \/ Set \/ Point \/ Grab \/ Grip
        \/ Up \/ DragTest \/ MoveX \/ MoveY \/ Last

Main == Boot \/ Loop \/ Call

-----------------------------------------------------------------------------
\* IRQ12: a whole mouse event of the user between two statements.
mouse_irq ==
  /\ \E p \in Points : wm_handle_mouse_event(p)
  /\ presses' = IF button' /\ ~button THEN presses + 1 ELSE presses
  /\ presses' <= MaxPresses
  /\ disturbed' = (disturbed \/ (pc \in Statements /\ ~last_buttons /\ button'))
  /\ UNCHANGED <<pc, frame, event, win, ret, slot, nullWrite>>

Init ==
  /\ wm_init
  /\ pc = "boot" /\ frame = 0 /\ event = LetGo(ClickMin)
  /\ win = NoWindow /\ ret = "up" /\ slot = 0
  /\ presses = 0 /\ disturbed = FALSE /\ nullWrite = FALSE

\* The processor runs the main thread whenever no handler is running.
LoopSpec == Init /\ [][Main \/ mouse_irq]_vars /\ WF_vars(Main)

-----------------------------------------------------------------------------
(* Properties.                                                             *)

Quiet == pc = "loop" /\ ~disturbed

\* Motions, drags and releases of the user may fall anywhere into a scripted
\* click, and presses between the clicks: the focus and the taskbar are right
\* once the call has returned.
QuietConsistent == Quiet => FocusExclusive /\ FocusShown /\ TaskbarExact

\* Nor does the script leave a window stuck to the pointer.
QuietDragHeld == Quiet => DragHeld

\* The tests of g_FocusedWindow protect the stores behind them from any user
\* event but a press.
NoNullWrite == nullWrite => disturbed

\* However the user moves and clicks, the scripted call comes to its end:
\* neither loop over the windows can be kept going.
CallReturns == (pc \in Statements) ~> (pc = "loop")

\* "Item 0 (Notepad)": after the second click the window the first one
\* minimized is back.
TestRestores == Quiet /\ frame >= FrameRestore => ~minimized[0]

\* "Remove from taskbar": a window on the screen is not in the taskbar.
ShownNotListed ==
  pc = "loop" => \A i \in 0 .. count - 1 : minimized[items[i]]
=============================================================================
