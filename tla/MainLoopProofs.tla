---------------------------- MODULE MainLoopProofs ----------------------------
(* Theorems about MainLoop, for every number of windows, every geometry and *)
(* every place of the two scripted clicks: what the user does to the mouse  *)
(* between two statements of the call does no harm, a press excepted.       *)
EXTENDS MainLoop, WindowManagerProofs

-----------------------------------------------------------------------------
(* The inductive invariant: what is true at each statement of the call as  *)
(* long as the user has not pressed the button in the middle of one.       *)

\* Statements of wm_minimize between hiding the window and the focus moving on.
Listing == {"index", "load", "bump", "store"}
Leaving == Listing \cup {"had", "drop", "none"}

\* Statements that only a scripted press reaches.
Clicking == Statements \ {"edge", "gripx", "gripy", "up", "drag", "movex", "movey", "last"}

\* wm_set_focus, the statements where no window has the flag, and where the
\* pointer has moved already.
Focusing == {"unfocus", "clear", "point", "flag", "set"}
Unflagged == {"none", "heir", "point", "flag", "set"}
Pointed == {"flag", "set", "grab", "gripx", "gripy"}

\* The taskbar is exact but for win, which is to get slot n.
ExactBut(n) ==
  /\ n < MAX_TASKBAR_ITEMS /\ win \in Created /\ minimized[win]
  /\ \A i \in 0 .. n - 1 : /\ items[i] \in Created /\ items[i] # win
                           /\ minimized[items[i]] /\ taskbar_index[items[i]] = i
  /\ \A v \in Created \ {win} :
       IF minimized[v] THEN taskbar_index[v] \in 0 .. n - 1 /\ items[taskbar_index[v]] = v
                       ELSE taskbar_index[v] = -1

TaskbarAt ==
  /\ pc \notin Listing => TaskbarExact
  /\ pc \in {"index", "load", "bump"} => ExactBut(count)
  /\ pc \in {"load", "bump"} => taskbar_index[win] = count
  /\ pc = "bump" => slot = count
  /\ pc = "store" => ExactBut(slot) /\ count = slot + 1 /\ taskbar_index[win] = slot

FocusAt ==
  /\ pc \in Unflagged => \A w \in Windows : ~has_focus[w]
  /\ pc \notin {"none", "point", "flag", "set"} => FocusExclusive
  /\ pc \notin Leaving => FocusShown
  /\ pc \in Leaving => \/ g_FocusedWindow \in {NoWindow, win}
                       \/ g_FocusedWindow \in Created /\ ~minimized[g_FocusedWindow]
  /\ pc = "heir" => g_FocusedWindow = NoWindow
  /\ pc \in {"clear", "movex", "movey"} => g_FocusedWindow # NoWindow
  /\ pc \in Pointed => g_FocusedWindow = win /\ win # NoWindow

WinAt ==
  /\ pc \in {"hit", "heir"} \cup Focusing => win \in Created \cup {NoWindow}
  /\ pc \in {"guard", "room", "hide"} => win \in Created
  /\ pc \in {"room", "hide"} => ~minimized[win]
  /\ pc = "hide" => count < MAX_TASKBAR_ITEMS
  /\ pc \in {"had", "drop"} => win \in Created /\ minimized[win]
  /\ pc = "drop" => has_focus[win]
  /\ pc \in Focusing => win = NoWindow \/ ~minimized[win]
  /\ pc \in Focusing /\ ret = "grab" => win # NoWindow

DragAt ==
  /\ pc \in {"boot", "loop"} => DragHeld
  /\ pc = "edge" /\ event.held /\ g_IsDragging => last_buttons
  /\ pc \in Clicking => event.held /\ ~last_buttons /\ ~g_IsDragging
  /\ pc \in {"gripx", "gripy"} => event.held
  /\ pc \in {"drag", "movex", "movey", "last"} /\ g_IsDragging => event.held

CallInv ==
  /\ MainTypeOK /\ MemoryTypeOK /\ ~nullWrite
  /\ TaskbarAt /\ FocusAt /\ WinAt /\ DragAt

LoopInv == disturbed \in BOOLEAN /\ (~disturbed => CallInv)

-----------------------------------------------------------------------------
(* What a statement does not touch keeps its meaning.                       *)

LEMMA SameTaskbar ==
  ASSUME UNCHANGED <<taskbarVars, g_WindowCount>>
  PROVE  TaskbarExact' <=> TaskbarExact
BY DEF taskbarVars, TaskbarExact, Created

LEMMA SameListing ==
  ASSUME UNCHANGED <<taskbarVars, g_WindowCount, win>>, NEW n, NEW m, m = n
  PROVE  ExactBut(n)' <=> ExactBut(m)
BY DEF taskbarVars, ExactBut, Created

LEMMA SameFocus ==
  ASSUME UNCHANGED <<focusVars, minimized, g_WindowCount>>
  PROVE  (FocusShown' <=> FocusShown) /\ (FocusExclusive' <=> FocusExclusive)
BY DEF focusVars, FocusShown, FocusExclusive, Created

\* The types that no statement of the call endangers.
LEMMA SameMemory ==
  ASSUME MemoryTypeOK, UNCHANGED memVars
  PROVE  MemoryTypeOK'
BY DEF MemoryTypeOK, memVars

\* A statement that only reads, if it leads to a statement whose conditions hold.
LEMMA ReadsKeep ==
  ASSUME CallInv, Reads, pc' \in Statements, win' \in Windows \cup {NoWindow},
         ret' \in {"grab", "up"}
  PROVE  /\ MainTypeOK' /\ MemoryTypeOK' /\ ~nullWrite'
         /\ TaskbarExact' <=> TaskbarExact
         /\ FocusShown' <=> FocusShown
         /\ FocusExclusive' <=> FocusExclusive
         /\ Created' = Created
         /\ UNCHANGED <<minimized, count, taskbar_index, items, has_focus, g_FocusedWindow,
                        g_IsDragging, last_buttons, event, slot>>
<1>1. UNCHANGED <<memVars, rect, backbuffer, focusVars, taskbarVars, dragVars,
                  g_WindowCount, last_buttons, button>>
  BY DEF Reads, wmVars
<1>2. MemoryTypeOK'
  BY <1>1, SameMemory DEF CallInv
<1>3. TypeOK'
  BY <1>1 DEF CallInv, MainTypeOK, TypeOK, focusVars, taskbarVars, dragVars
<1>4. MainTypeOK'
  BY <1>3 DEF CallInv, MainTypeOK, Reads
<1>5. ~nullWrite'
  BY DEF CallInv, Reads
<1>6. UNCHANGED minimized
  BY <1>1 DEF taskbarVars
<1>. QED BY <1>1, <1>2, <1>4, <1>5, <1>6, SameTaskbar, SameFocus DEF focusVars, taskbarVars, dragVars, Reads, Created

LEMMA EdgeKeeps ==
  ASSUME CallInv, Edge
  PROVE  CallInv'
<1>1. /\ pc = "edge" /\ pc' = IF event.held /\ ~last_buttons THEN "hit" ELSE "up"
      /\ win' = g_WindowCount - 1 /\ Reads /\ ret' = ret
  BY DEF Edge
<1>2. win' \in Created \cup {NoWindow} /\ win' \in Windows \cup {NoWindow}
  BY <1>1, CreatedWindows DEF CallInv, MainTypeOK, TypeOK, Created, NoWindow
<1>3. ret' \in {"grab", "up"} /\ pc' \in Statements
  BY <1>1 DEF CallInv, MainTypeOK, Statements
<1>4. TaskbarExact /\ FocusExclusive /\ FocusShown /\ (event.held /\ g_IsDragging => last_buttons)
  BY <1>1 DEF CallInv, TaskbarAt, FocusAt, DragAt, Listing, Leaving
<1>5. TaskbarAt'
  BY <1>1, <1>2, <1>3, <1>4, ReadsKeep DEF TaskbarAt, Listing
<1>6. FocusAt'
  BY <1>1, <1>2, <1>3, <1>4, ReadsKeep DEF FocusAt, Listing, Leaving, Unflagged, Pointed
<1>7. WinAt'
  BY <1>1, <1>2, <1>3, ReadsKeep DEF WinAt, Focusing
<1>8. DragAt'
  BY <1>1, <1>2, <1>3, <1>4, ReadsKeep DEF DragAt, Clicking, Statements
<1>. QED BY <1>1, <1>2, <1>3, <1>5, <1>6, <1>7, <1>8, ReadsKeep DEF CallInv

LEMMA HitTestKeeps ==
  ASSUME CallInv, HitTest
  PROVE  CallInv'
<1>1. /\ pc = "hit" /\ Reads /\ win \in Created \cup {NoWindow}
      /\ TaskbarExact /\ FocusExclusive /\ FocusShown
      /\ event.held /\ ~last_buttons /\ ~g_IsDragging
  BY DEF HitTest, CallInv, TaskbarAt, FocusAt, DragAt, WinAt, Listing, Leaving, Clicking, Statements
<1>2. /\ pc' \in {"hit", "unfocus", "guard"} /\ win' \in Created \cup {NoWindow}
      /\ ret' \in {"grab", "up"}
      /\ pc' = "guard" => win' \in Created
      /\ pc' = "unfocus" => win' = NoWindow \/ ~minimized[win']
      /\ pc' = "unfocus" /\ ret' = "grab" => win' # NoWindow
  <2>1. g_WindowCount \in Nat /\ ret \in {"grab", "up"}
    BY DEF CallInv, MainTypeOK, TypeOK
  <2>2. CASE win = NoWindow
    BY <1>1, <2>1, <2>2 DEF HitTest
  <2>3. CASE win # NoWindow /\ win \notin Hit(event.p)
    BY <1>1, <2>1, <2>3 DEF HitTest, Created, NoWindow
  <2>4. CASE win # NoWindow /\ win \in Hit(event.p)
    <3>1. win \in Created /\ ~minimized[win]
      BY <2>4 DEF Hit
    <3>. QED BY <1>1, <2>1, <2>4, <3>1 DEF HitTest
  <2>. QED BY <2>2, <2>3, <2>4
<1>3. win' \in Windows \cup {NoWindow} /\ pc' \in Statements
  BY <1>2, CreatedWindows DEF CallInv, MainTypeOK, TypeOK, Statements
<1>5. TaskbarAt'
  BY <1>1, <1>2, <1>3, ReadsKeep DEF TaskbarAt, Listing
<1>6. FocusAt'
  BY <1>1, <1>2, <1>3, ReadsKeep DEF FocusAt, Listing, Leaving, Unflagged, Pointed
<1>7. WinAt'
  BY <1>1, <1>2, <1>3, ReadsKeep DEF WinAt, Focusing
<1>8. DragAt'
  BY <1>1, <1>2, <1>3, ReadsKeep DEF DragAt, Clicking, Statements
<1>. QED BY <1>1, <1>2, <1>3, <1>5, <1>6, <1>7, <1>8, ReadsKeep DEF CallInv

LEMMA GuardsKeep ==
  ASSUME CallInv, Guards
  PROVE  CallInv'
<1>1. /\ pc \in {"guard", "room", "had"} /\ Reads /\ UNCHANGED <<win, ret>>
      /\ TaskbarExact /\ FocusExclusive /\ win \in Created
      /\ event.held /\ ~last_buttons /\ ~g_IsDragging
  BY DEF Guards, CallInv, TaskbarAt, FocusAt, DragAt, WinAt, Listing, Clicking, Statements
<1>2. win \in Windows /\ win' \in Windows \cup {NoWindow} /\ ret' \in {"grab", "up"}
  BY <1>1, CreatedWindows DEF CallInv, MainTypeOK, TypeOK
<1>3. pc' \in {"up", "room", "hide", "drop"} /\ pc' \in Statements
  BY DEF Guards, Statements
<1>4. /\ pc' \in {"room", "hide"} => ~minimized[win]
      /\ pc' = "hide" => count < MAX_TASKBAR_ITEMS
      /\ pc' = "drop" => minimized[win] /\ has_focus[win] /\ pc = "had"
  BY DEF Guards, CallInv, WinAt
<1>5. pc' # "drop" => FocusShown
  <2>1. CASE pc # "had"
    BY <1>1, <2>1 DEF CallInv, FocusAt, Leaving, Listing
  <2>2. CASE pc = "had" /\ pc' = "up"
    <3>1. g_FocusedWindow # win
      BY <1>1, <1>2, <2>2 DEF Guards, FocusExclusive
    <3>. QED BY <2>2, <3>1 DEF CallInv, FocusAt, Leaving, FocusShown
  <2>. QED BY <1>3, <2>1, <2>2 DEF Guards
<1>6. TaskbarAt'
  BY <1>1, <1>2, <1>3, ReadsKeep DEF TaskbarAt, Listing
<1>7. FocusAt'
  <2>1. pc' = "drop" => g_FocusedWindow = win
    BY <1>1, <1>2, <1>4 DEF FocusExclusive
  <2>. QED BY <1>1, <1>2, <1>3, <1>5, <2>1, ReadsKeep DEF FocusAt, Listing, Leaving, Unflagged, Pointed
<1>8. WinAt'
  BY <1>1, <1>2, <1>3, <1>4, ReadsKeep DEF WinAt, Focusing
<1>9. DragAt'
  BY <1>1, <1>2, <1>3, ReadsKeep DEF DragAt, Clicking, Statements
<1>. QED BY <1>1, <1>2, <1>3, <1>6, <1>7, <1>8, <1>9, ReadsKeep DEF CallInv

LEMMA HeirKeeps ==
  ASSUME CallInv, Heir
  PROVE  CallInv'
<1>1. /\ pc = "heir" /\ Reads /\ win \in Created \cup {NoWindow} /\ ret' = "up"
      /\ TaskbarExact /\ FocusExclusive /\ FocusShown
      /\ event.held /\ ~last_buttons /\ ~g_IsDragging
      /\ \A w \in Windows : ~has_focus[w]
  BY DEF Heir, CallInv, TaskbarAt, FocusAt, DragAt, WinAt, Listing, Leaving, Unflagged,
         Clicking, Statements
<1>2. /\ pc' \in {"heir", "unfocus", "up"} /\ win' \in Created \cup {NoWindow}
      /\ pc' = "unfocus" => ~minimized[win']
      /\ pc' = "heir" => g_FocusedWindow = NoWindow
  <2>1. g_WindowCount \in Nat
    BY DEF CallInv, MainTypeOK, TypeOK
  <2>. QED BY <1>1, <2>1 DEF Heir, Created, NoWindow, CallInv, FocusAt
<1>3. win' \in Windows \cup {NoWindow} /\ pc' \in Statements
  BY <1>2, CreatedWindows DEF CallInv, MainTypeOK, TypeOK, Statements
<1>4. TaskbarAt'
  BY <1>1, <1>2, <1>3, ReadsKeep DEF TaskbarAt, Listing
<1>5. FocusAt'
  BY <1>1, <1>2, <1>3, ReadsKeep DEF FocusAt, Listing, Leaving, Unflagged, Pointed
<1>6. WinAt'
  BY <1>1, <1>2, <1>3, ReadsKeep DEF WinAt, Focusing
<1>7. DragAt'
  BY <1>1, <1>2, <1>3, ReadsKeep DEF DragAt, Clicking, Statements
<1>. QED BY <1>1, <1>3, <1>4, <1>5, <1>6, <1>7, ReadsKeep DEF CallInv

LEMMA TestsKeep ==
  ASSUME CallInv, Tests
  PROVE  CallInv'
<1>1. /\ pc \in {"unfocus", "flag"} /\ Reads /\ UNCHANGED <<win, ret>>
      /\ TaskbarExact /\ FocusShown /\ win \in Created \cup {NoWindow}
      /\ win = NoWindow \/ ~minimized[win]
      /\ ret = "grab" => win # NoWindow
      /\ event.held /\ ~last_buttons /\ ~g_IsDragging
  BY DEF Tests, CallInv, TaskbarAt, FocusAt, DragAt, WinAt, Listing, Leaving, Focusing,
         Clicking, Statements
<1>2. /\ pc = "unfocus" => FocusExclusive
      /\ pc = "flag" => /\ g_FocusedWindow = win /\ win # NoWindow
                        /\ \A w \in Windows : ~has_focus[w]
  BY DEF CallInv, FocusAt, Pointed, Unflagged
<1>3. /\ pc = "unfocus" => \/ pc' = "clear" /\ g_FocusedWindow # NoWindow
                           \/ pc' = "point" /\ g_FocusedWindow = NoWindow
      /\ pc = "flag" => pc' = "set"
  BY <1>1, <1>2 DEF Tests
<1>4. pc' \in Statements /\ win' \in Windows \cup {NoWindow} /\ ret' \in {"grab", "up"}
  BY <1>1, <1>3 DEF CallInv, MainTypeOK, Statements
<1>5. pc' = "point" => \A w \in Windows : ~has_focus[w]
  <2>1. NoWindow \notin Windows
    BY DEF NoWindow, Windows
  <2>. QED BY <1>1, <1>2, <1>3, <2>1 DEF FocusExclusive
<1>6. TaskbarAt'
  BY <1>1, <1>3, <1>4, ReadsKeep DEF TaskbarAt, Listing
<1>7. FocusAt'
  BY <1>1, <1>2, <1>3, <1>4, <1>5, ReadsKeep DEF FocusAt, Listing, Leaving, Unflagged, Pointed
<1>8. WinAt'
  BY <1>1, <1>3, <1>4, ReadsKeep DEF WinAt, Focusing
<1>9. DragAt'
  BY <1>1, <1>3, <1>4, ReadsKeep DEF DragAt, Clicking, Statements
<1>. QED BY <1>1, <1>4, <1>6, <1>7, <1>8, <1>9, ReadsKeep DEF CallInv

LEMMA DragTestKeeps ==
  ASSUME CallInv, DragTest
  PROVE  CallInv'
<1>1. /\ pc = "drag" /\ Reads /\ UNCHANGED <<win, ret>>
      /\ TaskbarExact /\ FocusExclusive /\ FocusShown
      /\ g_IsDragging => event.held
  BY DEF DragTest, CallInv, TaskbarAt, FocusAt, DragAt, Listing, Leaving
<1>2. /\ pc' \in {"movex", "last"} /\ pc' \in Statements
      /\ pc' = "movex" => g_FocusedWindow # NoWindow
  BY DEF DragTest, Statements
<1>3. win' \in Windows \cup {NoWindow} /\ ret' \in {"grab", "up"}
  BY <1>1 DEF CallInv, MainTypeOK
<1>4. TaskbarAt' /\ FocusAt' /\ WinAt' /\ DragAt'
  BY <1>1, <1>2, <1>3, ReadsKeep
     DEF TaskbarAt, FocusAt, WinAt, DragAt, Listing, Leaving, Unflagged, Pointed,
         Focusing, Clicking, Statements
<1>. QED BY <1>1, <1>2, <1>3, <1>4, ReadsKeep DEF CallInv

-----------------------------------------------------------------------------
(* wm_minimize, store by store.                                            *)

LEMMA HideKeeps ==
  ASSUME CallInv, Hide
  PROVE  CallInv'
<1>1. /\ pc = "hide" /\ pc' = "index" /\ minimized' = [minimized EXCEPT ![win] = TRUE]
      /\ UNCHANGED <<rect, focusVars, taskbar_index, items, count, dragVars, last_buttons,
                     memVars, backbuffer, g_WindowCount, button, localVars, nullWrite>>
  BY DEF Hide, Goto, KeepRest, KeepWindows
<1>2. /\ win \in Created /\ ~minimized[win] /\ count < MAX_TASKBAR_ITEMS
      /\ TaskbarExact /\ FocusExclusive /\ FocusShown
      /\ event.held /\ ~last_buttons /\ ~g_IsDragging
  BY <1>1 DEF CallInv, TaskbarAt, FocusAt, WinAt, DragAt, Listing, Leaving, Clicking, Statements
<1>3. /\ TypeOK /\ Created \subseteq Windows /\ win \in Windows /\ Created' = Created /\ win' = win
  BY <1>1, <1>2, CreatedWindows DEF CallInv, MainTypeOK, TypeOK, Created, localVars
<1>4. TypeOK'
  BY <1>1, <1>3 DEF TypeOK, focusVars, dragVars
<1>5. MainTypeOK' /\ MemoryTypeOK' /\ ~nullWrite'
  BY <1>1, <1>4, SameMemory DEF CallInv, MainTypeOK, localVars, Statements
<1>6. ExactBut(count)'
  BY <1>1, <1>2, <1>3 DEF ExactBut, TaskbarExact, TypeOK
<1>7. TaskbarAt'
  BY <1>1, <1>6 DEF TaskbarAt, Listing
<1>8. FocusExclusive' /\ g_FocusedWindow' = g_FocusedWindow
  BY <1>1, <1>2 DEF FocusExclusive, focusVars
<1>9. \/ g_FocusedWindow' \in {NoWindow, win'}
      \/ g_FocusedWindow' \in Created' /\ ~minimized'[g_FocusedWindow']
  BY <1>1, <1>2, <1>3, <1>8 DEF FocusShown, TypeOK
<1>10. FocusAt'
  BY <1>1, <1>8, <1>9 DEF FocusAt, Listing, Leaving, Unflagged, Pointed
<1>11. WinAt' /\ DragAt'
  BY <1>1, <1>2 DEF WinAt, DragAt, Focusing, Clicking, Statements, localVars, dragVars
<1>. QED BY <1>5, <1>7, <1>10, <1>11 DEF CallInv

\* Between "index" and "store" the focus, the windows and the drag are as "hide"
\* left them, whatever becomes of the taskbar.
LEMMA ListingKeeps ==
  ASSUME CallInv, pc \in Listing, pc' \in Listing \cup {"had"},
         UNCHANGED <<rect, focusVars, minimized, dragVars, last_buttons,
                     memVars, backbuffer, g_WindowCount, button,
                     frame, event, win, ret, presses, disturbed, nullWrite>>,
         slot' \in Slots,
         taskbar_index' \in [Windows -> Slots \cup {-1}],
         items' \in [Slots -> Windows \cup {NoWindow}],
         count' \in 0 .. MAX_TASKBAR_ITEMS,
         TaskbarAt'
  PROVE  CallInv'
<1>1. FocusExclusive /\ event.held /\ ~last_buttons /\ ~g_IsDragging
  BY DEF CallInv, FocusAt, DragAt, Listing, Clicking, Statements
<1>2. win \in Created /\ minimized[win]
  BY DEF CallInv, TaskbarAt, Listing, ExactBut
<1>3. Created' = Created /\ FocusExclusive' /\ g_FocusedWindow' = g_FocusedWindow
  BY <1>1 DEF Created, FocusExclusive, focusVars
<1>4. \/ g_FocusedWindow \in {NoWindow, win}
      \/ g_FocusedWindow \in Created /\ ~minimized[g_FocusedWindow]
  BY DEF CallInv, FocusAt, Leaving
<1>5. MainTypeOK' /\ MemoryTypeOK' /\ ~nullWrite'
  <2>1. TypeOK'
    BY DEF CallInv, MainTypeOK, TypeOK, focusVars, dragVars
  <2>. QED BY <2>1, SameMemory DEF CallInv, MainTypeOK, Statements, Listing
<1>6. FocusAt'
  BY <1>3, <1>4 DEF FocusAt, Listing, Leaving, Unflagged, Pointed
<1>7. WinAt' /\ DragAt'
  BY <1>1, <1>2, <1>3 DEF WinAt, DragAt, Listing, Focusing, Clicking, Statements, dragVars
<1>. QED BY <1>5, <1>6, <1>7 DEF CallInv

LEMMA IndexKeeps ==
  ASSUME CallInv, Index
  PROVE  CallInv'
<1>1. /\ pc = "index" /\ pc' = "load"
      /\ taskbar_index' = [taskbar_index EXCEPT ![win] = count]
      /\ UNCHANGED <<rect, focusVars, minimized, items, count, dragVars, last_buttons,
                     memVars, backbuffer, g_WindowCount, button, localVars, nullWrite>>
  BY DEF Index, Goto, KeepRest, KeepWindows
<1>2. ExactBut(count) /\ TypeOK /\ slot \in Slots
  BY <1>1 DEF CallInv, TaskbarAt, MainTypeOK
<1>3. Created \subseteq Windows /\ win \in Windows /\ Created' = Created
  BY <1>1, <1>2, CreatedWindows DEF TypeOK, ExactBut, Created
<1>4. count \in Slots /\ taskbar_index' \in [Windows -> Slots \cup {-1}] /\ taskbar_index'[win] = count
  BY <1>1, <1>2, <1>3, GeometryAssumption DEF TypeOK, ExactBut, Slots, GeometryAssumption
<1>5. ExactBut(count)'
  BY <1>1, <1>2, <1>3 DEF ExactBut, TypeOK, localVars
<1>6. TaskbarAt'
  BY <1>1, <1>4, <1>5 DEF TaskbarAt, Listing, localVars
<1>. QED BY <1>1, <1>2, <1>4, <1>6, ListingKeeps DEF Listing, localVars, TypeOK

LEMMA LoadKeeps ==
  ASSUME CallInv, Load
  PROVE  CallInv'
<1>1. /\ pc = "load" /\ pc' = "bump" /\ slot' = count
      /\ UNCHANGED <<rect, focusVars, taskbarVars, dragVars, last_buttons,
                     memVars, backbuffer, g_WindowCount, button>>
      /\ UNCHANGED <<frame, event, win, ret, presses, disturbed, nullWrite>>
  BY DEF Load, Goto, wmVars
<1>2. ExactBut(count) /\ taskbar_index[win] = count /\ TypeOK
  BY <1>1 DEF CallInv, TaskbarAt, MainTypeOK
<1>3. slot' \in Slots
  BY <1>1, <1>2, GeometryAssumption DEF TypeOK, ExactBut, Slots, GeometryAssumption
<1>4. ExactBut(count)'
  BY <1>1, <1>2 DEF ExactBut, taskbarVars, Created
<1>5. TaskbarAt'
  BY <1>1, <1>2, <1>4 DEF TaskbarAt, Listing, taskbarVars
<1>. QED BY <1>1, <1>2, <1>3, <1>5, ListingKeeps DEF Listing, TypeOK, taskbarVars

LEMMA BumpKeeps ==
  ASSUME CallInv, Bump
  PROVE  CallInv'
<1>1. /\ pc = "bump" /\ pc' = "store" /\ count' = slot + 1
      /\ UNCHANGED <<rect, focusVars, minimized, taskbar_index, items, dragVars, last_buttons,
                     memVars, backbuffer, g_WindowCount, button, localVars, nullWrite>>
  BY DEF Bump, Goto, KeepRest, KeepWindows
<1>2. ExactBut(count) /\ taskbar_index[win] = count /\ slot = count /\ TypeOK /\ slot \in Slots
  BY <1>1 DEF CallInv, TaskbarAt, MainTypeOK
<1>3. count' \in 0 .. MAX_TASKBAR_ITEMS
  BY <1>1, <1>2, GeometryAssumption DEF Slots, GeometryAssumption
<1>4. ExactBut(slot)'
  BY <1>1, <1>2 DEF ExactBut, Created, localVars
<1>5. TaskbarAt'
  BY <1>1, <1>2, <1>4 DEF TaskbarAt, Listing, localVars
<1>. QED BY <1>1, <1>2, <1>3, <1>5, ListingKeeps DEF Listing, TypeOK, localVars

LEMMA StoreKeeps ==
  ASSUME CallInv, Store
  PROVE  CallInv'
<1>1. /\ pc = "store" /\ pc' = "had" /\ items' = [items EXCEPT ![slot] = win]
      /\ UNCHANGED <<rect, focusVars, minimized, taskbar_index, count, dragVars, last_buttons,
                     memVars, backbuffer, g_WindowCount, button, localVars, nullWrite>>
  BY DEF Store, Goto, KeepRest, KeepWindows
<1>2. ExactBut(slot) /\ taskbar_index[win] = slot /\ count = slot + 1 /\ TypeOK /\ slot \in Slots
  BY <1>1 DEF CallInv, TaskbarAt, MainTypeOK
<1>3. Created \subseteq Windows /\ win \in Windows /\ Created' = Created
  BY <1>1, <1>2, CreatedWindows DEF TypeOK, ExactBut, Created
<1>4. items' \in [Slots -> Windows \cup {NoWindow}]
  BY <1>1, <1>2, <1>3 DEF TypeOK
<1>5. TaskbarExact'
  <2>1. ASSUME NEW i \in 0 .. count - 1
        PROVE  items'[i] \in Created /\ minimized[items'[i]] /\ taskbar_index[items'[i]] = i
    <3>1. slot \in Nat /\ i \in Slots
      BY <1>2, GeometryAssumption DEF Slots, GeometryAssumption, TypeOK
    <3>2. CASE i = slot
      BY <1>1, <1>2, <3>1, <3>2 DEF ExactBut, TypeOK
    <3>3. CASE i # slot
      BY <1>1, <1>2, <3>1, <3>3 DEF ExactBut, TypeOK
    <3>. QED BY <3>2, <3>3
  <2>2. ASSUME NEW v \in Created
        PROVE  IF minimized[v]
               THEN taskbar_index[v] \in 0 .. count - 1 /\ items'[taskbar_index[v]] = v
               ELSE taskbar_index[v] = -1
    <3>1. CASE v = win
      BY <1>1, <1>2, <3>1, GeometryAssumption DEF ExactBut, TypeOK, Slots, GeometryAssumption
    <3>2. CASE v # win
      BY <1>1, <1>2, <3>2, GeometryAssumption DEF ExactBut, TypeOK, Slots, GeometryAssumption
    <3>. QED BY <3>1, <3>2
  <2>. QED BY <1>1, <1>3, <2>1, <2>2 DEF TaskbarExact
<1>6. TaskbarAt'
  BY <1>1, <1>5 DEF TaskbarAt, Listing
<1>. QED BY <1>1, <1>2, <1>4, <1>6, ListingKeeps DEF Listing, TypeOK, localVars

\* The window that leaves the screen gives up its flag, and the pointer after it.
LEMMA DropKeeps ==
  ASSUME CallInv, Drop
  PROVE  CallInv'
<1>1. /\ pc = "drop" /\ pc' = "none" /\ has_focus' = [has_focus EXCEPT ![win] = FALSE]
      /\ UNCHANGED <<rect, g_FocusedWindow, taskbarVars, dragVars, last_buttons,
                     memVars, backbuffer, g_WindowCount, button, localVars, nullWrite>>
  BY DEF Drop, Goto, KeepRest, KeepWindows
<1>2. /\ win \in Created /\ has_focus[win] /\ TaskbarExact /\ FocusExclusive /\ TypeOK
      /\ event.held /\ ~last_buttons /\ ~g_IsDragging
  BY <1>1 DEF CallInv, TaskbarAt, FocusAt, WinAt, DragAt, MainTypeOK, Listing, Clicking, Statements
<1>3. win \in Windows /\ g_FocusedWindow = win /\ win' = win
  BY <1>1, <1>2, CreatedWindows DEF TypeOK, FocusExclusive, localVars
<1>4. TypeOK'
  BY <1>1, <1>2 DEF TypeOK, taskbarVars, dragVars
<1>5. MainTypeOK' /\ MemoryTypeOK' /\ ~nullWrite'
  BY <1>1, <1>4, SameMemory DEF CallInv, MainTypeOK, localVars, Statements
<1>6. \A w \in Windows : ~has_focus'[w]
  BY <1>1, <1>2, <1>3 DEF FocusExclusive, TypeOK
<1>7. TaskbarAt'
  BY <1>1, <1>2, SameTaskbar DEF TaskbarAt, Listing
<1>8. FocusAt'
  BY <1>1, <1>3, <1>6 DEF FocusAt, Listing, Leaving, Unflagged, Pointed
<1>9. WinAt' /\ DragAt'
  BY <1>1, <1>2 DEF WinAt, DragAt, Focusing, Clicking, Statements, localVars, dragVars
<1>. QED BY <1>5, <1>7, <1>8, <1>9 DEF CallInv

LEMMA ForgetKeeps ==
  ASSUME CallInv, Forget
  PROVE  CallInv'
<1>1. /\ pc = "none" /\ pc' = "heir" /\ g_FocusedWindow' = NoWindow /\ win' = g_WindowCount - 1
      /\ UNCHANGED <<rect, has_focus, taskbarVars, dragVars, last_buttons, nullWrite,
                     frame, event, ret, slot, presses, disturbed,
                     memVars, backbuffer, g_WindowCount, button>>
  BY DEF Forget, Goto, KeepWindows
<1>2. /\ TaskbarExact /\ TypeOK /\ \A w \in Windows : ~has_focus[w]
      /\ event.held /\ ~last_buttons /\ ~g_IsDragging
  BY <1>1 DEF CallInv, TaskbarAt, FocusAt, DragAt, MainTypeOK, Listing, Unflagged, Clicking, Statements
<1>3. win' \in Created' \cup {NoWindow} /\ win' \in Windows \cup {NoWindow}
  BY <1>1, <1>2, CreatedWindows DEF TypeOK, Created, NoWindow
<1>4. TypeOK'
  BY <1>1, <1>2 DEF TypeOK, taskbarVars, dragVars
<1>5. MainTypeOK' /\ MemoryTypeOK' /\ ~nullWrite'
  BY <1>1, <1>3, <1>4, SameMemory DEF CallInv, MainTypeOK, Statements
<1>6. FocusExclusive' /\ FocusShown'
  BY <1>1, <1>2 DEF FocusExclusive, FocusShown, NoWindow, Windows
<1>7. TaskbarAt'
  BY <1>1, <1>2, SameTaskbar DEF TaskbarAt, Listing
<1>8. FocusAt'
  BY <1>1, <1>2, <1>6 DEF FocusAt, Listing, Leaving, Unflagged, Pointed
<1>9. WinAt' /\ DragAt'
  BY <1>1, <1>2, <1>3 DEF WinAt, DragAt, Focusing, Clicking, Statements, dragVars
<1>. QED BY <1>5, <1>7, <1>8, <1>9 DEF CallInv

-----------------------------------------------------------------------------
(* wm_set_focus, store by store.                                            *)

LEMMA ClearKeeps ==
  ASSUME CallInv, Clear
  PROVE  CallInv'
<1>1. /\ pc = "clear" /\ pc' = "point"
      /\ has_focus' = [w \in Windows |-> IF w = g_FocusedWindow THEN FALSE ELSE has_focus[w]]
      /\ UNCHANGED <<rect, g_FocusedWindow, taskbarVars, dragVars, last_buttons, localVars,
                     memVars, backbuffer, g_WindowCount, button>>
  BY DEF Clear, StoreFlag, Goto, KeepWindows
<1>2. /\ TaskbarExact /\ TypeOK /\ FocusExclusive /\ FocusShown /\ g_FocusedWindow # NoWindow
      /\ win \in Created \cup {NoWindow} /\ (win = NoWindow \/ ~minimized[win])
      /\ ret = "grab" => win # NoWindow
      /\ event.held /\ ~last_buttons /\ ~g_IsDragging
  BY <1>1 DEF CallInv, TaskbarAt, FocusAt, WinAt, DragAt, MainTypeOK, Listing, Leaving,
              Focusing, Clicking, Statements
<1>3. TypeOK'
  BY <1>1, <1>2 DEF TypeOK, taskbarVars, dragVars
<1>4. ~nullWrite' /\ nullWrite' \in BOOLEAN
  <2>1. nullWrite' = (nullWrite \/ g_FocusedWindow = NoWindow) /\ ~nullWrite
    BY DEF Clear, StoreFlag, CallInv
  <2>2. ~nullWrite'
    BY <1>2, <2>1, Zenon
  <2>3. nullWrite' \in BOOLEAN
    BY <2>1, Zenon
  <2>. QED BY <2>2, <2>3
<1>5. MainTypeOK' /\ MemoryTypeOK'
  BY <1>1, <1>3, <1>4, SameMemory DEF CallInv, MainTypeOK, localVars, Statements
<1>6. \A w \in Windows : ~has_focus'[w]
  BY <1>1, <1>2 DEF FocusExclusive
<1>7. TaskbarAt'
  BY <1>1, <1>2, SameTaskbar DEF TaskbarAt, Listing
<1>8. FocusShown'
  BY <1>1, <1>2 DEF FocusShown, taskbarVars, Created
<1>9. FocusAt'
  BY <1>1, <1>6, <1>8 DEF FocusAt, Listing, Leaving, Unflagged, Pointed
<1>10. WinAt' /\ DragAt'
  BY <1>1, <1>2 DEF WinAt, DragAt, Focusing, Clicking, Statements, localVars, dragVars,
     taskbarVars, Created
<1>. QED BY <1>4, <1>5, <1>7, <1>9, <1>10 DEF CallInv

LEMMA PointKeeps ==
  ASSUME CallInv, Point
  PROVE  CallInv'
<1>1. /\ pc = "point" /\ pc' = (IF win = NoWindow THEN ret ELSE "flag") /\ g_FocusedWindow' = win
      /\ UNCHANGED <<rect, has_focus, taskbarVars, dragVars, last_buttons, localVars, nullWrite,
                     memVars, backbuffer, g_WindowCount, button>>
  BY DEF Point, Goto, KeepRest, KeepWindows
<1>2. /\ TaskbarExact /\ TypeOK /\ \A w \in Windows : ~has_focus[w]
      /\ win \in Created \cup {NoWindow} /\ (win = NoWindow \/ ~minimized[win])
      /\ win \in Windows \cup {NoWindow}
      /\ ret \in {"grab", "up"} /\ (ret = "grab" => win # NoWindow)
      /\ event.held /\ ~last_buttons /\ ~g_IsDragging
  BY <1>1 DEF CallInv, TaskbarAt, FocusAt, WinAt, DragAt, MainTypeOK, Listing, Leaving,
              Unflagged, Focusing, Clicking, Statements
<1>3. TypeOK'
  BY <1>1, <1>2 DEF TypeOK, taskbarVars, dragVars
<1>4. \/ pc' = "flag" /\ win # NoWindow
      \/ pc' = "up" /\ win = NoWindow
  BY <1>1, <1>2
<1>5. MainTypeOK' /\ MemoryTypeOK' /\ ~nullWrite'
  BY <1>1, <1>3, <1>4, SameMemory DEF CallInv, MainTypeOK, localVars, Statements
<1>6. /\ FocusShown'
      /\ win = NoWindow => FocusExclusive'
  BY <1>1, <1>2 DEF FocusShown, FocusExclusive, NoWindow, Windows, taskbarVars, Created
<1>7. TaskbarAt'
  BY <1>1, <1>2, <1>4, SameTaskbar DEF TaskbarAt, Listing
<1>8. FocusAt'
  BY <1>1, <1>2, <1>4, <1>6 DEF FocusAt, Listing, Leaving, Unflagged, Pointed, localVars
<1>9. WinAt' /\ DragAt'
  BY <1>1, <1>2, <1>4 DEF WinAt, DragAt, Focusing, Clicking, Statements, localVars, dragVars,
     taskbarVars, Created
<1>. QED BY <1>5, <1>7, <1>8, <1>9 DEF CallInv

LEMMA SetKeeps ==
  ASSUME CallInv, Set
  PROVE  CallInv'
<1>1. /\ pc = "set" /\ pc' = ret
      /\ has_focus' = [w \in Windows |-> IF w = g_FocusedWindow THEN TRUE ELSE has_focus[w]]
      /\ UNCHANGED <<rect, g_FocusedWindow, taskbarVars, dragVars, last_buttons, localVars,
                     memVars, backbuffer, g_WindowCount, button>>
  BY DEF Set, StoreFlag, Goto, KeepWindows
<1>2. /\ TaskbarExact /\ TypeOK /\ FocusShown /\ \A w \in Windows : ~has_focus[w]
      /\ g_FocusedWindow = win /\ win # NoWindow
      /\ ret \in {"grab", "up"}
      /\ event.held /\ ~last_buttons /\ ~g_IsDragging
  BY <1>1 DEF CallInv, TaskbarAt, FocusAt, WinAt, DragAt, MainTypeOK, Listing, Leaving,
              Unflagged, Pointed, Clicking, Statements
<1>3. TypeOK'
  BY <1>1, <1>2 DEF TypeOK, taskbarVars, dragVars
<1>4. ~nullWrite' /\ nullWrite' \in BOOLEAN
  <2>1. nullWrite' = (nullWrite \/ g_FocusedWindow = NoWindow) /\ ~nullWrite
    BY DEF Set, StoreFlag, CallInv
  <2>2. ~nullWrite'
    BY <1>2, <2>1, Zenon
  <2>3. nullWrite' \in BOOLEAN
    BY <2>1, Zenon
  <2>. QED BY <2>2, <2>3
<1>5. MainTypeOK' /\ MemoryTypeOK'
  BY <1>1, <1>2, <1>3, <1>4, SameMemory DEF CallInv, MainTypeOK, localVars, Statements
<1>6. FocusExclusive'
  BY <1>1, <1>2 DEF FocusExclusive
<1>7. TaskbarAt'
  BY <1>1, <1>2, SameTaskbar DEF TaskbarAt, Listing
<1>8. FocusShown'
  BY <1>1, <1>2 DEF FocusShown, taskbarVars, Created
<1>9. FocusAt'
  BY <1>1, <1>2, <1>6, <1>8 DEF FocusAt, Listing, Leaving, Unflagged, Pointed, localVars
<1>10. WinAt' /\ DragAt'
  BY <1>1, <1>2 DEF WinAt, DragAt, Focusing, Clicking, Statements, localVars, dragVars
<1>. QED BY <1>4, <1>5, <1>7, <1>9, <1>10 DEF CallInv

-----------------------------------------------------------------------------
(* The drag, and the end of the call.                                       *)

\* From "grab" on the focus and the taskbar are those of wm_set_focus.
LEMMA TailKeeps ==
  ASSUME CallInv, pc \in {"grab", "gripx", "gripy", "up", "movex", "movey"},
         pc' \in {"gripx", "gripy", "up", "drag", "movey", "last"},
         UNCHANGED <<focusVars, taskbarVars, last_buttons, localVars, nullWrite,
                     memVars, backbuffer, g_WindowCount, button>>,
         rect' \in [Windows -> Rect], g_IsDragging' \in BOOLEAN,
         g_DragOffset' \in [x : Int, y : Int],
         pc' \in Pointed => pc \in Pointed /\ event.held,
         pc' = "movey" => g_FocusedWindow # NoWindow,
         pc' \in {"drag", "movey", "last"} /\ g_IsDragging' => event.held
  PROVE  CallInv'
<1>1. /\ TaskbarExact /\ TypeOK /\ FocusExclusive /\ FocusShown
      /\ pc \in Pointed => g_FocusedWindow = win /\ win # NoWindow
  BY DEF CallInv, TaskbarAt, FocusAt, MainTypeOK, Listing, Leaving
<1>2. TypeOK'
  BY <1>1 DEF TypeOK, taskbarVars, focusVars
<1>3. MainTypeOK' /\ MemoryTypeOK' /\ ~nullWrite'
  BY <1>2, SameMemory DEF CallInv, MainTypeOK, localVars, Statements
<1>4. UNCHANGED <<minimized, focusVars, taskbarVars, g_WindowCount, event, win, g_FocusedWindow>>
  BY DEF taskbarVars, localVars, focusVars
<1>5. TaskbarAt'
  BY <1>1, <1>4, SameTaskbar DEF TaskbarAt, Listing
<1>6. FocusExclusive' /\ FocusShown'
  BY <1>1, <1>4, SameFocus
<1>7. FocusAt'
  BY <1>1, <1>4, <1>6 DEF FocusAt, Listing, Leaving, Unflagged, Pointed
<1>8. WinAt' /\ DragAt'
  BY <1>4 DEF WinAt, DragAt, Focusing, Clicking, Pointed, Statements
<1>. QED BY <1>3, <1>5, <1>7, <1>8 DEF CallInv

LEMMA GrabKeeps ==
  ASSUME CallInv, Grab
  PROVE  CallInv'
<1>1. /\ pc = "grab" /\ pc' = "gripx" /\ g_IsDragging' = TRUE
      /\ UNCHANGED <<rect, g_DragOffset, focusVars, taskbarVars, last_buttons, localVars, nullWrite,
                     memVars, backbuffer, g_WindowCount, button>>
  BY DEF Grab, Goto, KeepRest, KeepWindows
<1>2. event.held
  BY <1>1 DEF CallInv, DragAt, Clicking, Statements
<1>3. TypeOK
  BY DEF CallInv, MainTypeOK
<1>. QED BY <1>1, <1>2, <1>3, TailKeeps DEF Pointed, TypeOK

LEMMA GripKeeps ==
  ASSUME CallInv, Grip
  PROVE  CallInv'
<1>1. /\ pc \in {"gripx", "gripy"} /\ pc' \in {"gripy", "up"}
      /\ UNCHANGED <<rect, g_IsDragging, focusVars, taskbarVars, last_buttons, localVars, nullWrite,
                     memVars, backbuffer, g_WindowCount, button>>
  BY DEF Grip, Goto, KeepRest, KeepWindows
<1>2. /\ event.held /\ TypeOK /\ win \in Windows
      /\ event.p \in {ClickMin, ClickRestore}
  BY <1>1 DEF CallInv, DragAt, FocusAt, MainTypeOK, Pointed
<1>3. /\ event.p.x - rect[win].x \in Int /\ event.p.y - rect[win].y \in Int
      /\ g_DragOffset \in [x : Int, y : Int]
  <2>1. event.p.x \in Int /\ event.p.y \in Int
    BY <1>2, ScriptAssumption DEF ScriptAssumption
  <2>2. rect[win] \in Rect /\ g_DragOffset \in [x : Int, y : Int]
    BY <1>2 DEF TypeOK
  <2>. QED BY <2>1, <2>2 DEF Rect
<1>4. g_DragOffset' \in [x : Int, y : Int]
  BY <1>3 DEF Grip
<1>. QED BY <1>1, <1>2, <1>4, TailKeeps DEF Pointed, TypeOK

LEMMA UpKeeps ==
  ASSUME CallInv, Up
  PROVE  CallInv'
<1>1. /\ pc = "up" /\ pc' = "drag"
      /\ UNCHANGED <<rect, g_DragOffset, focusVars, taskbarVars, last_buttons, localVars, nullWrite,
                     memVars, backbuffer, g_WindowCount, button>>
      /\ g_IsDragging' = (g_IsDragging /\ event.held)
  BY DEF Up, Goto, KeepRest, KeepWindows
<1>2. g_IsDragging' \in BOOLEAN /\ (g_IsDragging' => event.held)
  <2>1. g_IsDragging' => event.held
    BY <1>1, Zenon
  <2>2. g_IsDragging' \in BOOLEAN
    BY <1>1, Zenon
  <2>. QED BY <2>1, <2>2
<1>3. TypeOK
  BY DEF CallInv, MainTypeOK
<1>4. /\ rect' \in [Windows -> Rect] /\ g_DragOffset' \in [x : Int, y : Int]
      /\ pc' \notin Pointed
  BY <1>1, <1>3 DEF TypeOK, Pointed
<1>. QED BY <1>1, <1>2, <1>4, TailKeeps

\* A store to the position of the window that is being dragged.
LEMMA MoveKeeps ==
  ASSUME CallInv, MoveX \/ MoveY
  PROVE  CallInv'
<1>1. PICK axis \in {"x", "y"} :
        /\ \/ pc = "movex" /\ pc' = "movey"
           \/ pc = "movey" /\ pc' = "last"
        /\ StorePos(axis)
  BY DEF MoveX, MoveY, Goto
<1>2. /\ UNCHANGED <<focusVars, taskbarVars, dragVars, last_buttons, localVars,
                     memVars, backbuffer, g_WindowCount, button>>
  BY <1>1 DEF StorePos, KeepWindows
<1>3. /\ TypeOK /\ g_FocusedWindow \in Windows /\ g_FocusedWindow # NoWindow
      /\ event.p \in {ClickMin, ClickRestore} /\ (g_IsDragging => event.held)
  BY <1>1 DEF CallInv, FocusAt, DragAt, MainTypeOK, TypeOK
<1>4. UNCHANGED nullWrite
  <2>1. nullWrite' = (nullWrite \/ g_FocusedWindow = NoWindow) /\ nullWrite \in BOOLEAN
    BY <1>1 DEF StorePos, CallInv, MainTypeOK
  <2>. QED BY <1>3, <2>1, Zenon
<1>5. rect' \in [Windows -> Rect]
  <2>1. rect' = [rect EXCEPT ![g_FocusedWindow][axis] = event.p[axis] - g_DragOffset[axis]]
    BY <1>1, <1>3 DEF StorePos
  <2>2. event.p[axis] - g_DragOffset[axis] \in Int
    BY <1>3, ScriptAssumption DEF ScriptAssumption, TypeOK
  <2>3. rect \in [Windows -> Rect] /\ rect[g_FocusedWindow] \in Rect
    BY <1>3 DEF TypeOK
  <2>4. [rect[g_FocusedWindow] EXCEPT ![axis] = event.p[axis] - g_DragOffset[axis]] \in Rect
    BY <2>2, <2>3 DEF Rect
  <2>. QED BY <2>1, <2>3, <2>4
<1>6. /\ g_IsDragging' \in BOOLEAN /\ g_DragOffset' \in [x : Int, y : Int]
      /\ g_IsDragging' = g_IsDragging
  BY <1>2, <1>3 DEF TypeOK, dragVars
<1>. QED BY <1>1, <1>2, <1>3, <1>4, <1>5, <1>6, TailKeeps DEF Pointed

\* The call of the press returns into that of the release, which has ended the
\* drag before it returns to the loop.
LEMMA LastKeeps ==
  ASSUME CallInv, Last
  PROVE  CallInv'
<1>1. /\ pc = "last" /\ pc' = (IF event.held THEN "edge" ELSE "loop")
      /\ last_buttons' = event.held /\ event' = LetGo(event.p)
      /\ UNCHANGED <<rect, focusVars, taskbarVars, dragVars, nullWrite,
                     frame, win, ret, slot, presses, disturbed,
                     memVars, backbuffer, g_WindowCount, button>>
  BY DEF Last, Goto, KeepWindows
<1>2. /\ TaskbarExact /\ TypeOK /\ FocusExclusive /\ FocusShown
      /\ g_IsDragging => event.held
      /\ event \in [p : {ClickMin, ClickRestore}, held : BOOLEAN]
  BY <1>1 DEF CallInv, TaskbarAt, FocusAt, DragAt, MainTypeOK, Listing, Leaving
<1>3. /\ event' \in [p : {ClickMin, ClickRestore}, held : BOOLEAN] /\ event'.held = FALSE
      /\ last_buttons' \in BOOLEAN
  BY <1>1, <1>2 DEF LetGo
<1>4. \/ pc' = "edge"
      \/ pc' = "loop" /\ ~g_IsDragging
  BY <1>1, <1>2
<1>5. TypeOK'
  BY <1>1, <1>2, <1>3 DEF TypeOK, taskbarVars, focusVars, dragVars
<1>6. MainTypeOK' /\ MemoryTypeOK' /\ ~nullWrite'
  BY <1>1, <1>3, <1>4, <1>5, SameMemory DEF CallInv, MainTypeOK, Statements
<1>7. TaskbarAt'
  BY <1>1, <1>2, <1>4, SameTaskbar DEF TaskbarAt, Listing
<1>8. FocusExclusive' /\ FocusShown'
  BY <1>1, <1>2, SameFocus DEF taskbarVars
<1>9. FocusAt'
  BY <1>4, <1>8 DEF FocusAt, Listing, Leaving, Unflagged, Pointed
<1>10. WinAt' /\ DragAt'
  BY <1>1, <1>3, <1>4 DEF WinAt, DragAt, DragHeld, Focusing, Clicking, Statements, dragVars
<1>. QED BY <1>6, <1>7, <1>9, <1>10 DEF CallInv

LEMMA CallKeeps ==
  ASSUME CallInv, Call
  PROVE  CallInv'
BY EdgeKeeps, HitTestKeeps, GuardsKeep, HideKeeps, IndexKeeps, LoadKeeps, BumpKeeps,
   StoreKeeps, DropKeeps, ForgetKeeps, HeirKeeps, TestsKeep, ClearKeeps, SetKeeps, PointKeeps,
   GrabKeeps, GripKeeps, UpKeeps, DragTestKeeps, MoveKeeps, LastKeeps DEF Call

-----------------------------------------------------------------------------
(* Between the calls the window manager's own invariant holds, so that      *)
(* WindowManagerProofs has the steps.                                       *)

Between == {"boot", "loop"}
Outside == pc \in Between \cup {"edge"}

LEMMA BetweenCalls ==
  IInv /\ MainTypeOK /\ ~nullWrite /\ Outside => CallInv
<1>. SUFFICES ASSUME IInv, MainTypeOK, ~nullWrite, Outside
              PROVE  CallInv
  OBVIOUS
<1>1. /\ FocusExclusive /\ FocusShown /\ TaskbarExact /\ DragHeld /\ MemoryTypeOK
      /\ g_IsDragging => last_buttons
  BY DEF IInv, DragHeld
<1>2. TaskbarAt /\ FocusAt
  BY <1>1 DEF TaskbarAt, FocusAt, Outside, Between, Listing, Leaving, Unflagged, Pointed
<1>3. WinAt /\ DragAt
  BY <1>1 DEF WinAt, DragAt, Outside, Between, Focusing, Clicking, Statements
<1>. QED BY <1>1, <1>2, <1>3 DEF CallInv

LEMMA CallInvBetween ==
  ASSUME CallInv, pc \in Between
  PROVE  IInv
BY DEF CallInv, IInv, MainTypeOK, TaskbarAt, FocusAt, DragAt, Between, Listing, Leaving

LEMMA BootKeeps ==
  ASSUME CallInv, Boot
  PROVE  CallInv'
<1>1. /\ pc = "boot" /\ pc' \in Between
      /\ UNCHANGED <<localVars, nullWrite>>
  BY DEF Boot, Between
<1>2. IInv'
  BY <1>1, CallInvBetween, CreateStep DEF Boot, Between
<1>3. MainTypeOK' /\ ~nullWrite'
  BY <1>1, <1>2 DEF IInv, CallInv, MainTypeOK, localVars, Between
<1>4. Outside'
  BY <1>1 DEF Outside
<1>. QED BY <1>2, <1>3, <1>4, BetweenCalls, PTL

LEMMA LoopKeeps ==
  ASSUME CallInv, Loop
  PROVE  CallInv'
<1>1. /\ pc = "loop" /\ frame < LastFrame /\ frame' = frame + 1
      /\ pc' \in {"edge", "loop"}
      /\ UNCHANGED <<wmVars, nullWrite, win, ret, slot, presses, disturbed>>
  BY DEF Loop
<1>2. IInv
  BY <1>1, CallInvBetween DEF Between
<1>3. IInv'
  BY <1>1, <1>2, IInvStep
<1>4. event' \in [p : {ClickMin, ClickRestore}, held : BOOLEAN]
  BY DEF Loop, Press, CallInv, MainTypeOK
<1>5. frame' \in 0 .. LastFrame
  BY <1>1, ScriptAssumption DEF CallInv, MainTypeOK, ScriptAssumption
<1>6. MainTypeOK' /\ ~nullWrite'
  BY <1>1, <1>3, <1>4, <1>5 DEF IInv, CallInv, MainTypeOK, Statements
<1>7. Outside'
  BY <1>1 DEF Outside, Between
<1>. QED BY <1>3, <1>6, <1>7, BetweenCalls, PTL

-----------------------------------------------------------------------------
(* The user.                                                                *)

\* A window moves to where the pointer drags it, a place of integers.
LEMMA EndRect ==
  ASSUME TypeOK, NEW p \in Points, NEW held, EndOfEvent(p, held),
         UNCHANGED <<g_FocusedWindow, g_IsDragging, g_DragOffset>>
  PROVE  rect' \in [Windows -> Rect]
<1>1. p.x \in Int /\ p.y \in Int
  BY GeometryAssumption DEF GeometryAssumption, Screen
<1>2. p.x - g_DragOffset.x \in Int /\ p.y - g_DragOffset.y \in Int
  BY <1>1 DEF TypeOK
<1>3. rect \in [Windows -> Rect] /\ g_FocusedWindow \in Windows \cup {NoWindow}
  BY DEF TypeOK
<1>. QED BY <1>2, <1>3 DEF EndOfEvent, Rect

\* In the middle of a call the user can move the pointer, drag on, and let the
\* button go: all three leave the focus and the taskbar alone, and a drag can
\* only end by them.
LEMMA UserDrags ==
  ASSUME CallInv, pc \in Statements, NEW p \in Points, wm_handle_mouse_event(p),
         last_buttons \/ ~button'
  PROVE  /\ UNCHANGED <<focusVars, taskbarVars, g_DragOffset, memVars, backbuffer, g_WindowCount>>
         /\ rect' \in [Windows -> Rect]
         /\ g_IsDragging' \in BOOLEAN /\ last_buttons' \in BOOLEAN /\ button' \in BOOLEAN
         /\ g_IsDragging' => g_IsDragging /\ (last_buttons => last_buttons')
         /\ last_buttons' => last_buttons
<1>1. CASE Drag(p)
  <2>1. last_buttons /\ UNCHANGED <<focusVars, taskbarVars, dragVars>> /\ EndOfEvent(p, TRUE)
    BY <1>1 DEF Drag
  <2>2. g_IsDragging' = g_IsDragging /\ g_DragOffset' = g_DragOffset /\ g_FocusedWindow' = g_FocusedWindow
    BY <2>1 DEF dragVars, focusVars
  <2>3. last_buttons' = TRUE /\ button' = TRUE /\ UNCHANGED <<memVars, backbuffer, g_WindowCount>>
    BY <2>1 DEF EndOfEvent
  <2>4. rect' \in [Windows -> Rect]
    BY <2>1, <2>2, EndRect DEF CallInv, MainTypeOK
  <2>5. g_IsDragging \in BOOLEAN
    BY DEF CallInv, MainTypeOK, TypeOK
  <2>. QED BY <2>1, <2>2, <2>3, <2>4, <2>5
<1>2. CASE Release(p)
  <2>1. g_IsDragging' = FALSE /\ UNCHANGED <<focusVars, taskbarVars, g_DragOffset>> /\ EndOfEvent(p, FALSE)
    BY <1>2 DEF Release
  <2>2. rect' = rect /\ last_buttons' = FALSE /\ button' = FALSE /\ UNCHANGED <<memVars, backbuffer, g_WindowCount>>
    BY <2>1 DEF EndOfEvent
  <2>. QED BY <2>1, <2>2 DEF CallInv, MainTypeOK, TypeOK
<1>3. ASSUME ClickTaskbar(p) \/ ClickMinimize(p) \/ ClickTitle(p) \/ ClickContent(p) \/ ClickDesktop(p)
      PROVE  FALSE
  <2>1. ~last_buttons /\ button' = TRUE
    <3>1. CASE ClickTaskbar(p)
      BY <3>1 DEF ClickTaskbar, LeftClick
    <3>2. CASE ClickMinimize(p)
      BY <3>2 DEF ClickMinimize, ClickOn, LeftClick, EndOfEvent
    <3>3. CASE ClickTitle(p)
      BY <3>3 DEF ClickTitle, ClickOn, LeftClick, EndOfEvent
    <3>4. CASE ClickContent(p)
      BY <3>4 DEF ClickContent, ClickOn, LeftClick, EndOfEvent
    <3>5. CASE ClickDesktop(p)
      BY <3>5 DEF ClickDesktop, LeftClick, EndOfEvent
    <3>. QED BY <1>3, <3>1, <3>2, <3>3, <3>4, <3>5
  <2>. QED BY <2>1
<1>. QED BY <1>1, <1>2, <1>3 DEF wm_handle_mouse_event

LEMMA UserKeeps ==
  ASSUME CallInv, pc \in Statements, NEW p \in Points, wm_handle_mouse_event(p),
         last_buttons \/ ~button', presses' \in 0 .. MaxPresses, disturbed' \in BOOLEAN,
         UNCHANGED <<pc, frame, event, win, ret, slot, nullWrite>>
  PROVE  CallInv'
<1>1. /\ UNCHANGED <<focusVars, taskbarVars, g_DragOffset, memVars, backbuffer, g_WindowCount>>
      /\ rect' \in [Windows -> Rect]
      /\ g_IsDragging' \in BOOLEAN /\ last_buttons' \in BOOLEAN /\ button' \in BOOLEAN
      /\ g_IsDragging' => g_IsDragging /\ (last_buttons => last_buttons')
      /\ last_buttons' => last_buttons
  BY UserDrags
<1>2. UNCHANGED <<minimized, taskbar_index, items, count, has_focus, g_FocusedWindow>>
  BY <1>1 DEF taskbarVars, focusVars
<1>3. TypeOK'
  BY <1>1, <1>2 DEF CallInv, MainTypeOK, TypeOK
<1>4. MainTypeOK' /\ MemoryTypeOK' /\ ~nullWrite'
  BY <1>1, <1>3, SameMemory DEF CallInv, MainTypeOK
<1>5. /\ TaskbarExact' <=> TaskbarExact
      /\ FocusExclusive' <=> FocusExclusive
      /\ FocusShown' <=> FocusShown
      /\ Created' = Created
  BY <1>1, <1>2, SameTaskbar, SameFocus DEF Created
<1>6. ExactBut(count)' <=> ExactBut(count)
  BY <1>1, <1>2 DEF ExactBut, Created
<1>7. ExactBut(slot)' <=> ExactBut(slot)
  BY <1>1, <1>2 DEF ExactBut, Created
<1>8. TaskbarAt'
  BY <1>2, <1>5, <1>6, <1>7 DEF CallInv, TaskbarAt
<1>9. FocusAt'
  BY <1>2, <1>5 DEF CallInv, FocusAt
<1>10. WinAt'
  BY <1>2, <1>5 DEF CallInv, WinAt
<1>11. DragAt'
  BY <1>1 DEF CallInv, DragAt, Statements
<1>. QED BY <1>4, <1>8, <1>9, <1>10, <1>11 DEF CallInv

\* An event of the user that is no press in the middle of a call.
LEMMA MouseKeeps ==
  ASSUME CallInv, ~disturbed, mouse_irq, ~disturbed'
  PROVE  CallInv'
<1>1. PICK p \in Points : wm_handle_mouse_event(p)
  BY DEF mouse_irq
<1>2. UNCHANGED <<pc, frame, event, win, ret, slot, nullWrite>>
  BY DEF mouse_irq
<1>3. presses' \in 0 .. MaxPresses
  BY ScriptAssumption DEF mouse_irq, CallInv, MainTypeOK, ScriptAssumption
<1>4. disturbed' \in BOOLEAN /\ (pc \in Statements => last_buttons \/ ~button')
  <2>1. disturbed' = (disturbed \/ (pc \in Statements /\ ~last_buttons /\ button'))
    BY DEF mouse_irq
  <2>2. disturbed' \in BOOLEAN
    BY <2>1, Zenon
  <2>3. pc \in Statements => last_buttons \/ ~button'
    BY <2>1, Zenon
  <2>. QED BY <2>2, <2>3
<1>5. CASE pc \in Statements
  BY <1>1, <1>2, <1>3, <1>4, <1>5, UserKeeps
<1>6. CASE pc \in Between
  <2>1. IInv'
    BY <1>1, <1>6, CallInvBetween, MouseStep
  <2>2. MainTypeOK' /\ ~nullWrite'
    BY <1>2, <1>3, <1>4, <2>1 DEF IInv, CallInv, MainTypeOK
  <2>3. Outside'
    BY <1>2, <1>6 DEF Outside
  <2>. QED BY <2>1, <2>2, <2>3, BetweenCalls, PTL
<1>7. pc \in Statements \/ pc \in Between
  BY DEF CallInv, MainTypeOK, Between
<1>. QED BY <1>5, <1>6, <1>7

LEMMA LoopInvInit == Init => LoopInv
<1>. SUFFICES ASSUME Init PROVE LoopInv
  OBVIOUS
<1>1. /\ IInv /\ pc = "boot" /\ frame = 0 /\ event = LetGo(ClickMin)
      /\ win = NoWindow /\ ret = "up" /\ slot = 0
      /\ presses = 0 /\ disturbed = FALSE /\ nullWrite = FALSE
  BY IInvInit DEF Init
<1>2. 0 \in Slots
  BY GeometryAssumption, TaskbarAssumption DEF GeometryAssumption, TaskbarAssumption, Slots
<1>3. MainTypeOK
  <2>1. LastFrame \in Nat /\ MaxPresses \in Nat
    BY ScriptAssumption DEF ScriptAssumption
  <2>2. frame \in 0 .. LastFrame /\ presses \in 0 .. MaxPresses
    BY <1>1, <2>1
  <2>3. event \in [p : {ClickMin, ClickRestore}, held : BOOLEAN]
    BY <1>1 DEF LetGo
  <2>. QED BY <1>1, <1>2, <2>2, <2>3 DEF MainTypeOK, IInv
<1>4. Outside
  BY <1>1 DEF Outside, Between
<1>. QED BY <1>1, <1>3, <1>4, BetweenCalls DEF LoopInv

\* No statement of the main thread is a press of the user.
LEMMA MainUndisturbed ==
  ASSUME Main
  PROVE  disturbed' = disturbed
<1>1. CASE Boot \/ Loop
  BY <1>1 DEF Boot, Loop, localVars
<1>2. CASE Edge \/ HitTest \/ Guards \/ Heir \/ Tests \/ DragTest
  BY <1>2 DEF Edge, HitTest, Guards, Heir, Tests, DragTest, Reads
<1>3. CASE Hide \/ Index \/ Load \/ Bump \/ Store
  BY <1>3 DEF Hide, Index, Load, Bump, Store, KeepRest, localVars
<1>4. CASE Drop \/ Forget \/ Clear \/ Set \/ Point
  BY <1>4 DEF Drop, Forget, Clear, Set, Point, StoreFlag, KeepRest, localVars
<1>5. CASE Grab \/ Grip \/ Up \/ MoveX \/ MoveY \/ Last
  BY <1>5 DEF Grab, Grip, Up, MoveX, MoveY, StorePos, Last, KeepRest, localVars
<1>. QED BY <1>1, <1>2, <1>3, <1>4, <1>5 DEF Main, Call

LEMMA LoopInvStep == LoopInv /\ [Main \/ mouse_irq]_vars => LoopInv'
<1>. SUFFICES ASSUME LoopInv, [Main \/ mouse_irq]_vars PROVE LoopInv'
  OBVIOUS
<1>1. CASE UNCHANGED vars
  <2>1. UNCHANGED <<wmVars, pc, frame, event, win, ret, slot, presses, disturbed, nullWrite>>
    BY <1>1 DEF vars, localVars
  <2>2. CallInv => CallInv'
    <3>. SUFFICES ASSUME CallInv PROVE CallInv'
      OBVIOUS
    <3>1. UNCHANGED <<memVars, rect, backbuffer, focusVars, taskbarVars, dragVars,
                      g_WindowCount, last_buttons, button>>
      BY <2>1 DEF wmVars
    <3>2. UNCHANGED <<minimized, taskbar_index, items, count, has_focus, g_FocusedWindow, g_IsDragging>>
      BY <3>1 DEF taskbarVars, focusVars, dragVars
    <3>3. MainTypeOK' /\ MemoryTypeOK' /\ ~nullWrite'
      BY <2>1, <3>1, SameMemory
         DEF CallInv, MainTypeOK, TypeOK, taskbarVars, focusVars, dragVars
    <3>4. /\ TaskbarExact' <=> TaskbarExact
          /\ FocusExclusive' <=> FocusExclusive
          /\ FocusShown' <=> FocusShown
          /\ DragHeld' <=> DragHeld
          /\ Created' = Created
      BY <3>1, <3>2, SameTaskbar, SameFocus DEF Created, DragHeld
    <3>5. (ExactBut(count)' <=> ExactBut(count)) /\ (ExactBut(slot)' <=> ExactBut(slot))
      BY <2>1, <3>2, <3>4 DEF ExactBut
    <3>6. TaskbarAt'
      BY <2>1, <3>2, <3>4, <3>5 DEF CallInv, TaskbarAt
    <3>7. FocusAt'
      BY <2>1, <3>2, <3>4 DEF CallInv, FocusAt
    <3>8. WinAt'
      BY <2>1, <3>2, <3>4 DEF CallInv, WinAt
    <3>9. DragAt'
      BY <2>1, <3>1, <3>2, <3>4 DEF CallInv, DragAt
    <3>. QED BY <3>3, <3>6, <3>7, <3>8, <3>9 DEF CallInv
  <2>. QED BY <2>1, <2>2 DEF LoopInv
<1>2. CASE Main
  <2>1. CallInv => CallInv'
    BY <1>2, BootKeeps, LoopKeeps, CallKeeps DEF Main
  <2>. QED BY <1>2, <2>1, MainUndisturbed DEF LoopInv
<1>3. CASE mouse_irq
  <2>1. disturbed' \in BOOLEAN /\ (disturbed => disturbed')
    <3>1. disturbed' = (disturbed \/ (pc \in Statements /\ ~last_buttons /\ button'))
      BY <1>3 DEF mouse_irq
    <3>2. disturbed' \in BOOLEAN
      BY <3>1, Zenon
    <3>3. disturbed => disturbed'
      BY <3>1, Zenon
    <3>. QED BY <3>2, <3>3
  <2>. QED BY <1>3, <2>1, MouseKeeps DEF LoopInv
<1>. QED BY <1>1, <1>2, <1>3

\* The inductive invariant holds at every statement.
LEMMA LoopInvAlways == LoopSpec => []LoopInv
BY LoopInvInit, LoopInvStep, PTL DEF LoopSpec

-----------------------------------------------------------------------------
(* The theorems.                                                            *)

\* No index leaves its table and no variable its type: the taskbar has a slot
\* for the window the script minimizes, and the loops over the windows end at
\* NULL.  (A user who presses in the middle of the call can fill the taskbar
\* after the guard "room", and the store goes behind it: hence the condition.)
THEOREM MainTypeCorrect == LoopSpec => [](~disturbed => MainTypeOK)
<1>1. LoopInv => (~disturbed => MainTypeOK)
  BY DEF LoopInv, CallInv
<1>. QED BY <1>1, LoopInvAlways, PTL

\* When the scripted call is over the focus and the taskbar are right, wherever
\* in it the user moved the mouse, dragged or let the button go.
THEOREM QuietConsistentCorrect == LoopSpec => []QuietConsistent
<1>1. LoopInv => QuietConsistent
  BY DEF LoopInv, CallInv, QuietConsistent, Quiet, TaskbarAt, FocusAt, Listing, Leaving
<1>. QED BY <1>1, LoopInvAlways, PTL

\* No window is left stuck to the pointer by a release of the script or of the
\* user, in whichever order they come.
THEOREM QuietDragCorrect == LoopSpec => []QuietDragHeld
<1>1. LoopInv => QuietDragHeld
  BY DEF LoopInv, CallInv, QuietDragHeld, Quiet, DragAt
<1>. QED BY <1>1, LoopInvAlways, PTL

\* The main thread stores through g_FocusedWindow only what it has just tested
\* against NULL, and nothing but a press of the user comes in between.
THEOREM NoNullWriteCorrect == LoopSpec => []NoNullWrite
<1>1. LoopInv => NoNullWrite
  BY DEF LoopInv, CallInv, NoNullWrite
<1>. QED BY <1>1, LoopInvAlways, PTL
=============================================================================
