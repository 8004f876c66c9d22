------------------------- MODULE WindowManagerProofs -------------------------
(* Theorems about WindowManager for every number of windows, every screen  *)
(* geometry and every RAM size that its assumptions admit, and about what  *)
(* the task manager shows of its memory.                                   *)
EXTENDS TaskManager, FiniteSetTheorems, TLAPS, SequenceTheorems

\* uint32_t arithmetic on two uint32_t values stays in range.
LEMMA WrapRange ==
  ASSUME NEW n \in Int, -Word <= n, n < 2 * Word
  PROVE  Wrap(n) \in 0 .. Word - 1
BY MemoryAssumption DEF Wrap, MemoryAssumption

\* The buffer of a window needs no rounding.
LEMMA BufferAligned ==
  ASSUME NEW n \in 0 .. MAX_WINDOWS, NEW r \in AppRects[n]
  PROVE  /\ r \in Rect
         /\ r.w * r.h * 4 \in 0 .. Word - 1
         /\ AlignUp(r.w * r.h * 4) = r.w * r.h * 4
<1>1. r \in Rect /\ r.w * r.h * 4 < Word
  BY GeometryAssumption DEF GeometryAssumption
<1>2. r.w * r.h \in Nat
  BY <1>1 DEF Rect
<1>3. ASSUME NEW k \in Nat PROVE k * 4 \in Nat /\ AlignUp(k * 4) = k * 4
  BY <1>3, SMT DEF AlignUp
<1>. QED BY <1>1, <1>2, <1>3, MemoryAssumption DEF MemoryAssumption
\* Charging the frame buffer or a backbuffer leaves every figure a uint32_t.
LEMMA ChargeType ==
  ASSUME NEW S \in MemStats, NEW size \in 0 .. Word - 1
  PROVE  /\ Charge(S, "backbuffer", size) \in MemStats
         /\ Charge(S, "framebuffer", size) \in MemStats
<1>1. ASSUME NEW c \in {"used", "free", "backbuffer", "framebuffer"}
      PROVE  /\ Wrap(S[c] + size) \in 0 .. Word - 1
             /\ Wrap(S[c] - size) \in 0 .. Word - 1
  <2>1. S[c] \in 0 .. Word - 1
    BY <1>1 DEF MemStats
  <2>. QED BY <2>1, WrapRange, MemoryAssumption DEF MemoryAssumption
<1>. QED BY <1>1 DEF Charge, MemStats

LEMMA MemoryInit == mem_init => MemoryTypeOK
<1>. SUFFICES ASSUME mem_init PROVE MemoryTypeOK
  OBVIOUS
<1>. USE MemoryAssumption DEF MemoryAssumption
<1>1. AlignUp(KernelEnd) \in 0 .. Word - 1
  BY SMT DEF AlignUp
<1>2. KernelStats \in MemStats
  BY DEF KernelStats, MemStats
<1>3. memstats \in MemStats
  BY <1>2, ChargeType DEF mem_init, fb_init
<1>. QED BY <1>1, <1>3 DEF mem_init, fb_init, MemoryTypeOK

LEMMA BackbufferType ==
  ASSUME MemoryTypeOK,
         NEW n \in 0 .. MAX_WINDOWS, NEW r \in AppRects[n],
         AllocBackbuffer(r.w * r.h * 4)
  PROVE  MemoryTypeOK' /\ AllocResult(r.w * r.h * 4) \in 0 .. Word - 1
<1>. DEFINE size == r.w * r.h * 4
<1>1. size \in 0 .. Word - 1 /\ AlignUp(size) = size
  BY BufferAligned
<1>. HIDE DEF size
<1>2. g_NextAlloc \in 0 .. Word - 1 /\ Word \in Nat
  BY MemoryAssumption DEF MemoryTypeOK, MemoryAssumption
<1>3. Wrap(g_NextAlloc + AlignUp(size)) \in 0 .. Word - 1
  BY <1>1, <1>2, WrapRange
<1>4. kalloc_raw(size) /\ memstats' = Charge(memstats, "backbuffer", size)
  BY DEF AllocBackbuffer, size
<1>5. /\ g_NextAlloc' \in 0 .. Word - 1
      /\ blocks' \subseteq [addr : 0 .. Word - 1, size : 0 .. Word - 1]
  BY <1>1, <1>2, <1>3, <1>4 DEF kalloc_raw, MemoryTypeOK
<1>6. AllocResult(size) \in 0 .. Word - 1
  BY <1>2, MemoryAssumption DEF AllocResult, NULL, MemoryAssumption
<1>. QED BY <1>1, <1>4, <1>5, <1>6, ChargeType DEF MemoryTypeOK, size

-----------------------------------------------------------------------------
(* The focus and the taskbar depend on each other: a window that leaves     *)
(* the screen must give up the focus, and the clicked item must be there.   *)

FocusTaskbar ==
  /\ has_focus \in [Windows -> BOOLEAN]
  /\ minimized \in [Windows -> BOOLEAN]
  /\ taskbar_index \in [Windows -> Slots \cup {-1}]
  /\ g_WindowCount \in 0 .. MAX_WINDOWS
  /\ g_FocusedWindow \in Windows \cup {NoWindow}
  /\ items \in [Slots -> Windows \cup {NoWindow}]
  /\ count \in 0 .. MAX_TASKBAR_ITEMS
  /\ FocusExclusive /\ FocusShown /\ TaskbarExact

LEMMA CreatedWindows ==
  ASSUME g_WindowCount \in 0 .. MAX_WINDOWS
  PROVE  Created \subseteq Windows /\ NoWindow \notin Windows
BY GeometryAssumption DEF Created, Windows, NoWindow, GeometryAssumption

\* Moving the focus along wm_set_focus, from the window that has it, keeps
\* exactly the new one flagged.
LEMMA FocusMove ==
  ASSUME NEW h \in Windows \cup {NoWindow}, NEW f, FocusExclusive,
         has_focus \in [Windows -> BOOLEAN], g_FocusedWindow = f,
         has_focus' = FocusMoved(f, h), g_FocusedWindow' = h
  PROVE  has_focus' \in [Windows -> BOOLEAN] /\ FocusExclusive'
BY GeometryAssumption DEF FocusMoved, FocusExclusive, Windows, NoWindow, GeometryAssumption

LEMMA MinimizeKeeps ==
  ASSUME FocusTaskbar, NEW w \in Created, wm_minimize(w),
         g_WindowCount' = g_WindowCount
  PROVE  FocusTaskbar'
<1>. USE GeometryAssumption DEF GeometryAssumption
<1>1. w \in Windows /\ Created \subseteq Windows /\ NoWindow \notin Windows /\ Created' = Created
  BY CreatedWindows DEF FocusTaskbar, Created
<1>2. CASE minimized[w] \/ count >= MAX_TASKBAR_ITEMS
  BY <1>1, <1>2 DEF wm_minimize, taskbarVars, focusVars, FocusTaskbar,
     FocusExclusive, FocusShown, TaskbarExact
<1>3. CASE ~(minimized[w] \/ count >= MAX_TASKBAR_ITEMS)
  <2>1. count \in Slots /\ count \in Nat
    BY <1>3 DEF FocusTaskbar, Slots
  <2>2. /\ minimized' = [minimized EXCEPT ![w] = TRUE]
        /\ taskbar_index' = [taskbar_index EXCEPT ![w] = count]
        /\ items' = [items EXCEPT ![count] = w]
        /\ count' = count + 1
    BY <1>3 DEF wm_minimize
  <2>3. /\ minimized' \in [Windows -> BOOLEAN]
        /\ taskbar_index' \in [Windows -> Slots \cup {-1}]
        /\ items' \in [Slots -> Windows \cup {NoWindow}]
        /\ count' \in 0 .. MAX_TASKBAR_ITEMS
    BY <1>1, <1>3, <2>1, <2>2 DEF FocusTaskbar
  <2>4. TaskbarExact'
    <3>1. ASSUME NEW i \in 0 .. count' - 1
          PROVE  /\ items'[i] \in Created /\ minimized'[items'[i]]
                 /\ taskbar_index'[items'[i]] = i
      <4>1. CASE i = count
        BY <1>1, <2>1, <2>2, <4>1 DEF FocusTaskbar
      <4>2. CASE i # count
        <5>1. i \in 0 .. count - 1 /\ i \in Slots
          BY <2>1, <2>2, <3>1, <4>2 DEF Slots
        <5>2. items[i] \in Created /\ minimized[items[i]] /\ taskbar_index[items[i]] = i
          BY <5>1 DEF FocusTaskbar, TaskbarExact
        <5>. QED BY <1>1, <1>3, <2>2, <4>2, <5>1, <5>2 DEF FocusTaskbar
      <4>. QED BY <4>1, <4>2
    <3>2. ASSUME NEW v \in Created
          PROVE  IF minimized'[v]
                 THEN taskbar_index'[v] \in 0 .. count' - 1 /\ items'[taskbar_index'[v]] = v
                 ELSE taskbar_index'[v] = -1
      <4>1. CASE v = w
        BY <1>1, <2>1, <2>2, <4>1 DEF FocusTaskbar
      <4>2. CASE v # w
        <5>1. IF minimized[v]
              THEN taskbar_index[v] \in 0 .. count - 1 /\ items[taskbar_index[v]] = v
              ELSE taskbar_index[v] = -1
          BY DEF FocusTaskbar, TaskbarExact
        <5>. QED BY <1>1, <2>1, <2>2, <4>2, <5>1 DEF FocusTaskbar, Slots
      <4>. QED BY <4>1, <4>2
    <3>. QED BY <1>1, <3>1, <3>2 DEF TaskbarExact
  <2>5. /\ has_focus' \in [Windows -> BOOLEAN] /\ FocusExclusive'
        /\ g_FocusedWindow' \in Windows \cup {NoWindow} /\ FocusShown'
    <3>1. CASE has_focus[w]
      <4>1. PICK h \in Windows \cup {NoWindow} :
              IsHeir(h, w) /\ has_focus' = FocusMoved(w, h) /\ g_FocusedWindow' = h
        BY <1>3, <3>1 DEF wm_minimize
      <4>2. g_FocusedWindow = w
        BY <1>1, <3>1 DEF FocusTaskbar, FocusExclusive
      <4>3. has_focus' \in [Windows -> BOOLEAN] /\ FocusExclusive'
        BY <4>1, <4>2, FocusMove DEF FocusTaskbar
      <4>4. h # NoWindow => h \in Created /\ h # w /\ ~minimized[h]
        BY <4>1 DEF IsHeir, IsTop
      <4>. QED BY <1>1, <2>2, <4>1, <4>3, <4>4 DEF FocusShown, FocusTaskbar
    <3>2. CASE ~has_focus[w]
      <4>1. has_focus' = has_focus /\ g_FocusedWindow' = g_FocusedWindow
        BY <1>3, <3>2 DEF wm_minimize, focusVars
      <4>2. g_FocusedWindow # w
        BY <1>1, <3>2 DEF FocusTaskbar, FocusExclusive
      <4>. QED BY <1>1, <2>2, <4>1, <4>2 DEF FocusShown, FocusTaskbar, FocusExclusive
    <3>. QED BY <3>1, <3>2
  <2>. QED BY <2>3, <2>4, <2>5 DEF FocusTaskbar
<1>. QED BY <1>2, <1>3

\* Restoring the window of slot k closes the gap: the windows above it move
\* down by one slot and their indices with them.
LEMMA RestoreKeeps ==
  ASSUME FocusTaskbar, NEW k \in 0 .. count - 1, wm_restore(items[k]),
         g_WindowCount' = g_WindowCount
  PROVE  FocusTaskbar'
<1>. DEFINE w == items[k]
<1>. USE GeometryAssumption DEF GeometryAssumption
<1>1. Created \subseteq Windows /\ NoWindow \notin Windows /\ Created' = Created
  BY CreatedWindows DEF FocusTaskbar, Created
<1>2. w \in Created /\ minimized[w] /\ taskbar_index[w] = k
  BY DEF FocusTaskbar, TaskbarExact
<1>3. count \in 0 .. MAX_TASKBAR_ITEMS /\ k \in Slots /\ count \in Int /\ k \in Int
  BY DEF FocusTaskbar, Slots
<1>4. Moved(k) = k .. count - 2 /\ \A i \in Moved(k) : i \in Slots /\ i + 1 \in Slots
  BY <1>3 DEF Moved, Slots
<1>5. /\ items' = [i \in Slots |-> IF i \in Moved(k) THEN items[i + 1] ELSE items[i]]
      /\ taskbar_index' = Reindexed(w, k)
      /\ count' = count - 1
      /\ minimized' = [minimized EXCEPT ![w] = FALSE]
      /\ wm_set_focus(w)
  BY <1>1, <1>2, <1>3 DEF wm_restore
<1>. HIDE DEF w
<1>6. ASSUME NEW i \in 0 .. count - 1
      PROVE  /\ items[i] \in Created /\ items[i] \in Windows
             /\ minimized[items[i]] /\ taskbar_index[items[i]] = i
             /\ items[i] = w => i = k
  BY <1>1, <1>2 DEF FocusTaskbar, TaskbarExact
\* The index of a window v that is not the restored one.
<1>7. ASSUME NEW v \in Windows, v # w
      PROVE  /\ taskbar_index'[v] \in Slots \cup {-1}
             /\ \A i \in Moved(k) : items[i + 1] = v => taskbar_index'[v] = i
             /\ (\A i \in Moved(k) : items[i + 1] # v) => taskbar_index'[v] = taskbar_index[v]
  <2>. DEFINE at == {i \in Moved(k) : items[i + 1] = v}
  <2>1. taskbar_index'[v] = IF at = {} THEN taskbar_index[v] ELSE CHOOSE i \in at : IsTop(i, at)
    BY <1>5, <1>7 DEF Reindexed
  <2>2. \A i, j \in at : i = j
    <3>1. \A i \in at : i \in 0 .. count - 2 /\ items[i + 1] = v
      BY <1>3, <1>4
    <3>2. \A i \in at : taskbar_index[v] = i + 1
      BY <3>1, <1>6, <1>3
    <3>. QED BY <3>1, <3>2, <1>3
  <2>3. \A i \in at : IsTop(i, at) /\ at = {i}
    BY <2>2, <1>3, <1>4 DEF IsTop
  <2>4. ASSUME NEW i \in at PROVE taskbar_index'[v] = i
    BY <2>1, <2>3, <2>4
  <2>5. taskbar_index[v] \in Slots \cup {-1}
    BY DEF FocusTaskbar
  <2>. QED BY <2>1, <2>4, <2>5, <1>4
<1>8. taskbar_index'[w] = -1
  BY <1>1, <1>2, <1>5 DEF Reindexed
<1>9. /\ minimized' \in [Windows -> BOOLEAN]
      /\ count' \in 0 .. MAX_TASKBAR_ITEMS
      /\ items' \in [Slots -> Windows \cup {NoWindow}]
  <2>1. minimized' \in [Windows -> BOOLEAN]
    BY <1>5 DEF FocusTaskbar
  <2>2. count' \in 0 .. MAX_TASKBAR_ITEMS
    BY <1>3, <1>5
  <2>3. \A i \in Slots : items[i] \in Windows \cup {NoWindow}
    BY DEF FocusTaskbar
  <2>4. items' \in [Slots -> Windows \cup {NoWindow}]
    BY <1>4, <1>5, <2>3
  <2>. QED BY <2>1, <2>2, <2>4
<1>10. taskbar_index' \in [Windows -> Slots \cup {-1}]
  <2>1. \A v \in Windows : taskbar_index'[v] \in Slots \cup {-1}
    BY <1>7, <1>8
  <2>2. taskbar_index' = [v \in Windows |-> taskbar_index'[v]]
    BY <1>5 DEF Reindexed
  <2>. QED BY <2>1, <2>2
<1>11. TaskbarExact'
  <2>1. ASSUME NEW i \in 0 .. count' - 1
        PROVE  /\ items'[i] \in Created /\ minimized'[items'[i]]
               /\ taskbar_index'[items'[i]] = i
    <3>1. i \in 0 .. count - 2 /\ i \in Slots
      BY <1>3, <1>5 DEF Slots
    <3>2. CASE i < k
      <4>1. items'[i] = items[i] /\ i \in 0 .. count - 1
        BY <1>3, <1>4, <1>5, <3>1, <3>2
      <4>2. items[i] # w /\ \A j \in Moved(k) : items[j + 1] # items[i]
        BY <1>3, <1>4, <1>6, <3>2, <4>1
      <4>. QED BY <1>5, <1>6, <1>7, <4>1, <4>2 DEF FocusTaskbar
    <3>3. CASE i >= k
      <4>1. i \in Moved(k) /\ items'[i] = items[i + 1] /\ i + 1 \in 0 .. count - 1
        BY <1>3, <1>4, <1>5, <3>1, <3>3
      <4>2. items[i + 1] # w
        BY <1>3, <1>6, <3>1, <3>3, <4>1
      <4>. QED BY <1>5, <1>6, <1>7, <4>1, <4>2 DEF FocusTaskbar
    <3>. QED BY <1>3, <3>1, <3>2, <3>3
  <2>2. ASSUME NEW v \in Created
        PROVE  IF minimized'[v]
               THEN taskbar_index'[v] \in 0 .. count' - 1 /\ items'[taskbar_index'[v]] = v
               ELSE taskbar_index'[v] = -1
    <3>1. CASE v = w
      BY <1>1, <1>5, <1>8, <3>1 DEF FocusTaskbar
    <3>2. CASE v # w /\ ~minimized[v]
      <4>1. taskbar_index[v] = -1 /\ v \in Windows
        BY <1>1, <3>2 DEF FocusTaskbar, TaskbarExact
      <4>2. \A i \in Moved(k) : items[i + 1] # v
        BY <1>3, <1>4, <1>6, <3>2
      <4>. QED BY <1>5, <1>7, <3>2, <4>1, <4>2 DEF FocusTaskbar
    <3>3. CASE v # w /\ minimized[v]
      <4>. DEFINE j == taskbar_index[v]
      <4>1. j \in 0 .. count - 1 /\ items[j] = v /\ v \in Windows /\ minimized'[v]
        BY <1>1, <1>5, <3>3 DEF FocusTaskbar, TaskbarExact
      <4>2. j # k
        BY <3>3, <4>1 DEF w
      <4>3. CASE j < k
        <5>1. \A i \in Moved(k) : items[i + 1] # v
          BY <1>3, <1>4, <1>6, <4>1, <4>3
        <5>2. taskbar_index'[v] = j
          BY <1>7, <3>3, <4>1, <5>1
        <5>3. j \in 0 .. count' - 1 /\ j \in Slots /\ j \notin Moved(k)
          BY <1>3, <1>4, <1>5, <4>1, <4>3 DEF Slots
        <5>. QED BY <1>5, <4>1, <5>2, <5>3
      <4>4. CASE j > k
        <5>1. j - 1 \in Moved(k) /\ (j - 1) + 1 = j
          BY <1>3, <1>4, <4>1, <4>4
        <5>2. taskbar_index'[v] = j - 1
          BY <1>7, <3>3, <4>1, <5>1
        <5>3. j - 1 \in 0 .. count' - 1 /\ items'[j - 1] = v
          BY <1>3, <1>4, <1>5, <4>1, <4>4, <5>1
        <5>. QED BY <4>1, <5>2, <5>3
      <4>. QED BY <1>3, <4>1, <4>2, <4>3, <4>4
    <3>. QED BY <3>1, <3>2, <3>3
  <2>. QED BY <1>1, <2>1, <2>2 DEF TaskbarExact
<1>12. /\ has_focus' \in [Windows -> BOOLEAN] /\ FocusExclusive'
       /\ g_FocusedWindow' = w
  BY <1>1, <1>2, <1>5, FocusMove DEF wm_set_focus, FocusTaskbar
<1>13. FocusShown'
  BY <1>1, <1>2, <1>5, <1>12 DEF FocusShown, FocusTaskbar
<1>. QED BY <1>1, <1>2, <1>9, <1>10, <1>11, <1>12, <1>13 DEF FocusTaskbar

\* A click on a window that is on the screen, or on no window at all.
LEMMA FocusKeeps ==
  ASSUME FocusTaskbar, NEW h,
         h = NoWindow \/ (h \in Created /\ ~minimized[h]),
         has_focus' = FocusMoved(g_FocusedWindow, h), g_FocusedWindow' = h,
         UNCHANGED taskbarVars, g_WindowCount' = g_WindowCount
  PROVE  FocusTaskbar'
<1>1. Created \subseteq Windows /\ Created' = Created /\ h \in Windows \cup {NoWindow}
  BY CreatedWindows DEF FocusTaskbar, Created
<1>2. has_focus' \in [Windows -> BOOLEAN] /\ FocusExclusive'
  BY <1>1, FocusMove DEF FocusTaskbar
<1>3. FocusShown' /\ TaskbarExact'
  BY <1>1 DEF FocusTaskbar, FocusShown, TaskbarExact, taskbarVars
<1>. QED BY <1>1, <1>2, <1>3 DEF FocusTaskbar, taskbarVars

\* A new window gets the focus and takes no slot of the taskbar.
LEMMA CreateKeeps ==
  ASSUME FocusTaskbar, NEW r, wm_create_window(r)
  PROVE  FocusTaskbar'
<1>. DEFINE w == g_WindowCount
<1>. USE GeometryAssumption DEF GeometryAssumption
<1>1. /\ g_WindowCount \in 0 .. MAX_WINDOWS - 1
      /\ minimized' = [minimized EXCEPT ![w] = FALSE]
      /\ taskbar_index' = [taskbar_index EXCEPT ![w] = -1]
      /\ g_WindowCount' = w + 1
      /\ wm_set_focus(w)
      /\ items' = items /\ count' = count
  BY DEF wm_create_window, FocusTaskbar
<1>2. /\ Created \subseteq Windows /\ w \in Windows /\ w \notin Created
      /\ NoWindow \notin Windows /\ Created' = Created \cup {w}
  BY <1>1 DEF Created, Windows, NoWindow
<1>. HIDE DEF w
<1>3. has_focus' \in [Windows -> BOOLEAN] /\ FocusExclusive' /\ g_FocusedWindow' = w
  BY <1>1, <1>2, FocusMove DEF wm_set_focus, FocusTaskbar
<1>4. FocusShown'
  BY <1>1, <1>2, <1>3 DEF FocusShown, FocusTaskbar
<1>5. TaskbarExact'
  <2>1. ASSUME NEW i \in 0 .. count - 1
        PROVE  /\ items'[i] \in Created' /\ minimized'[items'[i]]
               /\ taskbar_index'[items'[i]] = i
    <3>1. items[i] \in Created /\ minimized[items[i]] /\ taskbar_index[items[i]] = i
      BY DEF FocusTaskbar, TaskbarExact
    <3>. QED BY <1>1, <1>2, <3>1 DEF FocusTaskbar
  <2>2. ASSUME NEW v \in Created'
        PROVE  IF minimized'[v]
               THEN taskbar_index'[v] \in 0 .. count' - 1 /\ items'[taskbar_index'[v]] = v
               ELSE taskbar_index'[v] = -1
    <3>1. CASE v = w
      BY <1>1, <1>2, <3>1 DEF FocusTaskbar
    <3>2. CASE v \in Created
      BY <1>1, <1>2, <3>2 DEF FocusTaskbar, TaskbarExact
    <3>. QED BY <1>2, <3>1, <3>2
  <2>. QED BY <1>1, <2>1, <2>2 DEF TaskbarExact
<1>6. minimized' \in [Windows -> BOOLEAN] /\ taskbar_index' \in [Windows -> Slots \cup {-1}]
  BY <1>1, <1>2 DEF FocusTaskbar
<1>7. g_WindowCount' \in 0 .. MAX_WINDOWS
  BY <1>1 DEF w
<1>. QED BY <1>1, <1>2, <1>3, <1>4, <1>5, <1>6, <1>7 DEF FocusTaskbar

-----------------------------------------------------------------------------
(* The inductive invariant of the window manager.                           *)

IInv == TypeOK /\ MemoryTypeOK /\ FocusExclusive /\ FocusShown /\ TaskbarExact /\ DragHeld

LEMMA IInvFocusTaskbar == IInv => FocusTaskbar
BY DEF IInv, FocusTaskbar, TypeOK

\* The end of the handler: the move of the dragged window and the buttons.
LEMMA EndKeeps ==
  ASSUME IInv, NEW p \in Points, NEW held \in BOOLEAN, EndOfEvent(p, held),
         FocusTaskbar',
         g_IsDragging' \in BOOLEAN, g_DragOffset' \in [x : Int, y : Int],
         g_IsDragging' => held /\ g_FocusedWindow' # NoWindow
  PROVE  IInv'
<1>1. p.x \in Int /\ p.y \in Int
  BY GeometryAssumption DEF GeometryAssumption, Screen
<1>2. rect' \in [Windows -> Rect]
  <2>1. g_FocusedWindow' # NoWindow => g_FocusedWindow' \in Windows
    BY DEF FocusTaskbar
  <2>2. p.x - g_DragOffset'.x \in Int /\ p.y - g_DragOffset'.y \in Int
    BY <1>1
  <2>3. rect \in [Windows -> Rect]
    BY DEF IInv, TypeOK
  <2>. QED BY <2>1, <2>2, <2>3 DEF EndOfEvent, Rect
<1>3. last_buttons' = held /\ button' = held /\ UNCHANGED <<memVars, backbuffer, g_WindowCount>>
  BY DEF EndOfEvent
<1>4. MemoryTypeOK'
  BY <1>3 DEF IInv, MemoryTypeOK, memVars
<1>5. DragHeld'
  BY <1>3 DEF DragHeld
<1>6. TypeOK'
  BY <1>2, <1>3 DEF IInv, TypeOK, FocusTaskbar
<1>. QED BY <1>4, <1>5, <1>6 DEF IInv, FocusTaskbar

LEMMA IInvInit == wm_init => IInv
<1>. SUFFICES ASSUME wm_init PROVE IInv
  OBVIOUS
<1>. USE GeometryAssumption, TaskbarAssumption DEF GeometryAssumption, TaskbarAssumption
<1>1. MemoryTypeOK
  BY MemoryInit DEF wm_init
<1>2. 0 \in Slots /\ NULL \in 0 .. Word - 1 /\ NoWindow \notin Windows /\ Created = {}
  BY MemoryAssumption DEF Slots, NULL, MemoryAssumption, NoWindow, Windows, Created, wm_init
<1>3. TypeOK
  <2>1. rect \in [Windows -> Rect] /\ g_DragOffset \in [x : Int, y : Int]
    BY DEF wm_init, Rect
  <2>2. /\ backbuffer \in [Windows -> 0 .. Word - 1]
        /\ has_focus \in [Windows -> BOOLEAN]
        /\ minimized \in [Windows -> BOOLEAN]
        /\ taskbar_index \in [Windows -> Slots \cup {-1}]
        /\ items \in [Slots -> Windows \cup {NoWindow}]
    BY <1>2 DEF wm_init
  <2>3. g_WindowCount \in 0 .. MAX_WINDOWS /\ count \in 0 .. MAX_TASKBAR_ITEMS
    BY DEF wm_init
  <2>. QED BY <2>1, <2>2, <2>3 DEF wm_init, TypeOK
<1>4. FocusExclusive /\ FocusShown /\ TaskbarExact /\ DragHeld
  BY <1>2 DEF wm_init, FocusExclusive, FocusShown, TaskbarExact, DragHeld
<1>. QED BY <1>1, <1>3, <1>4 DEF IInv

LEMMA CreateStep ==
  ASSUME IInv, NEW r \in AppRects[g_WindowCount], wm_create_window(r)
  PROVE  IInv'
<1>. DEFINE size == r.w * r.h * 4
<1>1. g_WindowCount \in 0 .. MAX_WINDOWS - 1 /\ g_WindowCount \in Windows
  BY GeometryAssumption DEF IInv, TypeOK, wm_create_window, Windows, GeometryAssumption
<1>2. r \in Rect /\ MemoryTypeOK' /\ AllocResult(size) \in 0 .. Word - 1
  BY <1>1, BufferAligned, BackbufferType, GeometryAssumption
     DEF wm_create_window, IInv, GeometryAssumption
<1>. HIDE DEF size
<1>3. /\ rect' = [rect EXCEPT ![g_WindowCount] = r]
      /\ backbuffer' = [backbuffer EXCEPT ![g_WindowCount] = AllocResult(size)]
      /\ UNCHANGED <<dragVars, last_buttons, button>>
      /\ g_FocusedWindow' = g_WindowCount
  BY DEF wm_create_window, size, wm_set_focus
<1>4. FocusTaskbar'
  BY IInvFocusTaskbar, CreateKeeps
<1>5. TypeOK'
  BY <1>2, <1>3, <1>4 DEF IInv, TypeOK, FocusTaskbar, dragVars
<1>6. DragHeld'
  BY <1>1, <1>3 DEF IInv, DragHeld, dragVars, NoWindow, Windows
<1>. QED BY <1>2, <1>4, <1>5, <1>6 DEF IInv, FocusTaskbar

LEMMA MouseStep ==
  ASSUME IInv, NEW p \in Points, wm_handle_mouse_event(p)
  PROVE  IInv'
<1>. USE IInvFocusTaskbar
<1>1. /\ g_IsDragging \in BOOLEAN /\ g_DragOffset \in [x : Int, y : Int]
      /\ LeftClick => ~g_IsDragging
      /\ g_IsDragging => g_FocusedWindow # NoWindow /\ last_buttons
  BY DEF IInv, TypeOK, DragHeld, LeftClick
<1>2. \A w : w \in Hit(p) => w \in Created /\ ~minimized[w]
  BY DEF Hit
<1>3. CASE ClickTaskbar(p)
  <2>1. PICK i \in Slots : IsLowest(i, ItemsAt(p)) /\ wm_restore(items[i])
    BY <1>3 DEF ClickTaskbar
  <2>2. i \in 0 .. count - 1
    BY <2>1 DEF IsLowest, ItemsAt
  <2>3. FocusTaskbar'
    BY <1>3, <2>1, <2>2, RestoreKeeps DEF ClickTaskbar
  <2>4. /\ UNCHANGED <<memVars, rect, backbuffer, dragVars, g_WindowCount, last_buttons>>
        /\ button' = TRUE /\ ~g_IsDragging
    BY <1>1, <1>3 DEF ClickTaskbar
  <2>. QED BY <2>3, <2>4
       DEF IInv, TypeOK, MemoryTypeOK, memVars, dragVars, DragHeld, FocusTaskbar
<1>4. CASE ClickMinimize(p)
  <2>1. PICK w \in Windows : ClickOn(w, p) /\ wm_minimize(w)
    BY <1>4 DEF ClickMinimize
  <2>2. /\ w \in Created /\ ~g_IsDragging /\ UNCHANGED dragVars
        /\ EndOfEvent(p, TRUE) /\ g_WindowCount' = g_WindowCount
    BY <1>1, <1>2, <1>4, <2>1 DEF ClickMinimize, ClickOn, IsTop, EndOfEvent
  <2>3. FocusTaskbar'
    BY <2>1, <2>2, MinimizeKeeps
  <2>. QED BY <1>1, <2>2, <2>3, EndKeeps DEF dragVars
<1>5. CASE ClickTitle(p)
  <2>1. PICK w \in Windows :
          /\ ClickOn(w, p) /\ wm_set_focus(w)
          /\ g_DragOffset' = [x |-> p.x - rect[w].x, y |-> p.y - rect[w].y]
    BY <1>5 DEF ClickTitle
  <2>2. /\ w \in Created /\ ~minimized[w] /\ g_IsDragging' = TRUE
        /\ UNCHANGED taskbarVars /\ EndOfEvent(p, TRUE) /\ g_WindowCount' = g_WindowCount
    BY <1>2, <1>5, <2>1 DEF ClickTitle, ClickOn, IsTop, EndOfEvent
  <2>3. FocusTaskbar' /\ g_FocusedWindow' = w
    BY <2>1, <2>2, FocusKeeps DEF wm_set_focus
  <2>4. g_DragOffset' \in [x : Int, y : Int]
    BY <2>1, GeometryAssumption DEF IInv, TypeOK, Rect, GeometryAssumption, Screen
  <2>5. w # NoWindow
    BY DEF Windows, NoWindow
  <2>. QED BY <2>2, <2>3, <2>4, <2>5, EndKeeps
<1>6. CASE ClickContent(p)
  <2>1. PICK w \in Windows : ClickOn(w, p) /\ wm_set_focus(w)
    BY <1>6 DEF ClickContent
  <2>2. /\ w \in Created /\ ~minimized[w] /\ ~g_IsDragging
        /\ UNCHANGED <<taskbarVars, dragVars>> /\ EndOfEvent(p, TRUE)
        /\ g_WindowCount' = g_WindowCount
    BY <1>1, <1>2, <1>6, <2>1 DEF ClickContent, ClickOn, IsTop, EndOfEvent
  <2>3. FocusTaskbar'
    BY <2>1, <2>2, FocusKeeps DEF wm_set_focus
  <2>. QED BY <1>1, <2>2, <2>3, EndKeeps DEF dragVars
<1>7. CASE ClickDesktop(p)
  <2>1. /\ ~g_IsDragging /\ UNCHANGED <<taskbarVars, dragVars>>
        /\ EndOfEvent(p, TRUE) /\ g_WindowCount' = g_WindowCount
    BY <1>1, <1>7 DEF ClickDesktop, EndOfEvent
  <2>2. FocusTaskbar'
    <3>1. CASE p.y < tb_y
      BY <1>7, <2>1, <3>1, FocusKeeps DEF ClickDesktop
    <3>2. CASE ~(p.y < tb_y)
      BY <1>7, <2>1, <3>2 DEF ClickDesktop, focusVars, taskbarVars, FocusTaskbar,
         FocusExclusive, FocusShown, TaskbarExact, Created
    <3>. QED BY <3>1, <3>2
  <2>. QED BY <1>1, <2>1, <2>2, EndKeeps DEF dragVars
<1>8. ASSUME UNCHANGED <<focusVars, taskbarVars, g_WindowCount>> PROVE FocusTaskbar'
  BY <1>8 DEF focusVars, taskbarVars, FocusTaskbar, FocusExclusive, FocusShown,
     TaskbarExact, Created
<1>9. CASE Drag(p)
  BY <1>1, <1>8, <1>9, EndKeeps DEF Drag, EndOfEvent, dragVars, focusVars
<1>10. CASE Release(p)
  BY <1>1, <1>8, <1>10, EndKeeps DEF Release, EndOfEvent
<1>. QED BY <1>3, <1>4, <1>5, <1>6, <1>7, <1>9, <1>10 DEF wm_handle_mouse_event

LEMMA IInvStep == IInv /\ [Next]_wmVars => IInv'
<1>1. ASSUME IInv, UNCHANGED wmVars PROVE IInv'
  BY <1>1 DEF IInv, TypeOK, MemoryTypeOK, FocusExclusive, FocusShown, TaskbarExact,
     DragHeld, wmVars, memVars, focusVars, taskbarVars, dragVars, Created
<1>. QED BY <1>1, CreateStep, MouseStep DEF Next

LEMMA IInvAlways == Spec => []IInv
BY IInvInit, IInvStep, PTL DEF Spec

\* Every variable of the window manager and of the allocator keeps its type: no
\* index leaves its array and no figure its 32 bits.
THEOREM TypeCorrect == Spec => [](TypeOK /\ MemoryTypeOK)
<1>1. IInv => TypeOK /\ MemoryTypeOK
  BY DEF IInv
<1>. QED BY <1>1, IInvAlways, PTL

\* One window at most has the focus flag, and it is g_FocusedWindow.
THEOREM FocusCorrect == Spec => []FocusExclusive
<1>1. IInv => FocusExclusive
  BY DEF IInv
<1>. QED BY <1>1, IInvAlways, PTL

\* The window with the focus exists and is on the screen: keystrokes never go to
\* a minimized window, whichever window inherits the focus.
THEOREM FocusShownCorrect == Spec => []FocusShown
<1>1. IInv => FocusShown
  BY DEF IInv
<1>. QED BY <1>1, IInvAlways, PTL

\* The taskbar lists exactly the minimized windows, each in the slot its
\* taskbar_index names, whatever the order of minimizing and restoring.
THEOREM TaskbarCorrect == Spec => []TaskbarExact
<1>1. IInv => TaskbarExact
  BY DEF IInv
<1>. QED BY <1>1, IInvAlways, PTL

\* A window moves with the pointer only while the button is held.
THEOREM DragCorrect == Spec => []DragHeld
<1>1. IInv => DragHeld
  BY DEF IInv
<1>. QED BY <1>1, IInvAlways, PTL

\* A taskbar with a slot per window never turns down the minimize button:
\* full, it would hold one window twice or the one still on the screen.
THEOREM NeverRefusedCorrect == Spec => []NeverRefused
<1>1. ASSUME IInv PROVE NeverRefused
  <2>. SUFFICES ASSUME NEW w \in Created, ~minimized[w], ~(count < MAX_TASKBAR_ITEMS)
                PROVE  FALSE
    BY DEF NeverRefused
  <2>. DEFINE S == 0 .. count - 1
              T == Windows \ {w}
              f == [i \in S |-> items[i]]
  <2>1. count \in Nat /\ MAX_WINDOWS \in Nat /\ MAX_WINDOWS <= count /\ w \in Windows
    BY <1>1, CreatedWindows, GeometryAssumption, TaskbarAssumption
       DEF IInv, TypeOK, GeometryAssumption, TaskbarAssumption
  <2>2. IsFiniteSet(S) /\ Cardinality(S) = count
    BY <2>1, FS_Interval
  <2>3. IsFiniteSet(Windows) /\ Cardinality(Windows) = MAX_WINDOWS
    <3>1. /\ IsFiniteSet(0 .. MAX_WINDOWS - 1) /\ MAX_WINDOWS # 0
          /\ Cardinality(0 .. MAX_WINDOWS - 1) = IF 0 > MAX_WINDOWS - 1 THEN 0 ELSE MAX_WINDOWS - 1 - 0 + 1
      BY <2>1, FS_Interval, GeometryAssumption DEF GeometryAssumption
    <3>. QED BY <2>1, <3>1 DEF Windows
  <2>4. IsFiniteSet(T) /\ Cardinality(T) = MAX_WINDOWS - 1
    BY <2>1, <2>3, FS_RemoveElement
  <2>5. \A i \in S : /\ items[i] \in Created /\ minimized[items[i]]
                     /\ taskbar_index[items[i]] = i
    BY <1>1 DEF IInv, TaskbarExact
  <2>6. f \in [S -> T]
    BY <1>1, <2>5, CreatedWindows DEF IInv, TypeOK
  <2>7. Cardinality(T) < Cardinality(S)
    BY <2>1, <2>2, <2>4
  <2>8. \E i, j \in S : i # j /\ f[i] = f[j]
    <3>. HIDE DEF S, T, f
    <3>. QED BY <2>2, <2>4, <2>6, <2>7, FS_PigeonHole
  <2>. QED BY <2>5, <2>8
<1>. QED BY <1>1, IInvAlways, PTL

-----------------------------------------------------------------------------
(* Dragging.                                                                *)

\* A window whose title bar is under the pointer can be reached.
LEMMA DragReachable ==
  ASSUME IInv, NEW p \in Points, NEW held, EndOfEvent(p, held), Gripped',
         \A w \in Created : Reachable(w), FocusTaskbar', TypeOK',
         NEW w \in Created
  PROVE  Reachable(w)'
<1>. USE GeometryAssumption DEF GeometryAssumption
<1>1. w \in Windows /\ rect \in [Windows -> Rect]
  BY CreatedWindows DEF IInv, TypeOK
<1>2. CASE rect'[w] = rect[w]
  BY <1>2 DEF Reachable, InTitle, Within
<1>3. CASE rect'[w] # rect[w]
  <2>1. /\ g_IsDragging' /\ g_FocusedWindow' = w
        /\ rect'[w].x = p.x - g_DragOffset'.x /\ rect'[w].y = p.y - g_DragOffset'.y
    BY <1>1, <1>3 DEF EndOfEvent, Rect
  <2>2. /\ Within(g_DragOffset'.x, 0, rect'[w].w)
        /\ Within(g_DragOffset'.y, -TITLE_BAR_HEIGHT, TITLE_BAR_HEIGHT)
    BY <2>1 DEF Gripped, Within
  <2>3. rect'[w] \in Rect /\ g_DragOffset' \in [x : Int, y : Int]
    BY <1>1 DEF TypeOK
  <2>4. p.x \in Int /\ p.y \in Int /\ p \in Screen
    BY DEF Screen
  <2>5. Within(p.x, rect'[w].x, rect'[w].w)
    BY <2>1, <2>2, <2>3, <2>4 DEF Within, Rect
  <2>6. Within(p.y, rect'[w].y - TITLE_BAR_HEIGHT, TITLE_BAR_HEIGHT)
    BY <2>1, <2>2, <2>3, <2>4 DEF Within, Rect
  <2>7. InTitle(w, p)'
    BY <2>5, <2>6 DEF InTitle, Within
  <2>. QED BY <2>4, <2>7 DEF Reachable, Screen
<1>. QED BY <1>2, <1>3

LEMMA MouseReachable ==
  ASSUME IInv, IInv', NEW p \in Points, wm_handle_mouse_event(p)
  PROVE  KeepsReachable
<1>. SUFFICES ASSUME Gripped, \A w \in Created : Reachable(w)
              PROVE  Gripped' /\ \A w \in Created : Reachable(w)'
  BY DEF KeepsReachable
<1>. USE GeometryAssumption DEF GeometryAssumption
<1>1. FocusTaskbar' /\ TypeOK'
  BY IInvFocusTaskbar, PTL DEF IInv
<1>2. LeftClick => ~g_IsDragging
  BY DEF IInv, DragHeld, LeftClick
<1>3. ASSUME NEW held, EndOfEvent(p, held), Gripped' PROVE Gripped' /\ \A w \in Created : Reachable(w)'
  BY <1>1, <1>3, DragReachable
<1>4. CASE ClickTaskbar(p)
  <2>1. rect' = rect /\ ~g_IsDragging'
    BY <1>2, <1>4 DEF ClickTaskbar, dragVars
  <2>. QED BY <2>1 DEF Gripped, Reachable, InTitle
<1>5. CASE ClickMinimize(p) \/ ClickContent(p) \/ ClickDesktop(p)
  <2>1. LeftClick /\ UNCHANGED dragVars /\ EndOfEvent(p, TRUE)
    <3>1. CASE ClickMinimize(p)
      BY <3>1, Zenon DEF ClickMinimize, ClickOn
    <3>2. CASE ClickContent(p)
      BY <3>2, Zenon DEF ClickContent, ClickOn
    <3>3. CASE ClickDesktop(p)
      BY <3>3, Zenon DEF ClickDesktop
    <3>. QED BY <1>5, <3>1, <3>2, <3>3
  <2>2. ~g_IsDragging'
    BY <1>2, <2>1 DEF dragVars
  <2>. QED BY <1>3, <2>1, <2>2 DEF Gripped
<1>6. CASE ClickTitle(p)
  <2>1. PICK w \in Windows :
          /\ InTitle(w, p) /\ wm_set_focus(w)
          /\ g_DragOffset' = [x |-> p.x - rect[w].x, y |-> p.y - rect[w].y]
    BY <1>6 DEF ClickTitle
  <2>2. g_FocusedWindow' = w /\ EndOfEvent(p, TRUE) /\ rect[w] \in Rect /\ p.x \in Int /\ p.y \in Int
    <3>1. EndOfEvent(p, TRUE)
      BY <1>6, Zenon DEF ClickTitle
    <3>2. p.x \in Int /\ p.y \in Int
      BY DEF Screen
    <3>. QED BY <2>1, <3>1, <3>2 DEF wm_set_focus, IInv, TypeOK
  <2>3. rect'[w].w = rect[w].w
    BY <2>2 DEF EndOfEvent, IInv, TypeOK
  <2>4. /\ Within(g_DragOffset'.x, 0, rect'[w].w)
        /\ Within(g_DragOffset'.y, -TITLE_BAR_HEIGHT, TITLE_BAR_HEIGHT)
    <3>1. g_DragOffset'.x = p.x - rect[w].x /\ g_DragOffset'.y = p.y - rect[w].y
      BY <2>1
    <3>2. rect[w].x \in Int /\ rect[w].y \in Int /\ rect[w].w \in Nat
      BY <2>2 DEF Rect
    <3>3. /\ p.x >= rect[w].x /\ p.x < rect[w].x + rect[w].w
          /\ p.y >= rect[w].y - TITLE_BAR_HEIGHT
          /\ p.y < rect[w].y - TITLE_BAR_HEIGHT + TITLE_BAR_HEIGHT
      BY <2>1 DEF InTitle, Within
    <3>. QED BY <2>2, <2>3, <3>1, <3>2, <3>3 DEF Within
  <2>5. Gripped'
    BY <2>2, <2>4 DEF Gripped, Within
  <2>. QED BY <1>3, <2>2, <2>5
<1>7. CASE Drag(p)
  <2>1. /\ UNCHANGED <<g_FocusedWindow, g_IsDragging, g_DragOffset>> /\ EndOfEvent(p, TRUE)
    BY <1>7 DEF Drag, focusVars, dragVars
  <2>2. g_IsDragging => g_FocusedWindow \in Windows
    BY DEF IInv, TypeOK, DragHeld
  <2>3. g_IsDragging => rect'[g_FocusedWindow].w = rect[g_FocusedWindow].w
    BY <2>1, <2>2 DEF EndOfEvent, IInv, TypeOK
  <2>4. Gripped'
    BY <2>1, <2>3 DEF Gripped, Within
  <2>. QED BY <1>3, <2>1, <2>4
<1>8. CASE Release(p)
  BY <1>3, <1>8 DEF Release, Gripped
<1>. QED BY <1>4, <1>5, <1>6, <1>7, <1>8 DEF wm_handle_mouse_event

\* No mouse event drags a window off the screen: its title bar stays under the
\* pointer, which the screen holds, and no other window moves.
THEOREM DragKeepsReachableCorrect == Spec => DragKeepsReachable
<1>1. ASSUME IInv, IInv', Next PROVE KeepsReachable
  <2>1. ASSUME NEW r \in AppRects[g_WindowCount], wm_create_window(r) PROVE KeepsReachable
    <3>1. g_WindowCount' # g_WindowCount
      BY <1>1, <2>1 DEF wm_create_window, IInv, TypeOK
    <3>. QED BY <3>1 DEF KeepsReachable
  <2>. QED BY <1>1, <2>1, MouseReachable DEF Next
<1>. QED BY <1>1, IInvAlways, PTL DEF Spec, DragKeepsReachable

-----------------------------------------------------------------------------
(* The heap.  A failed allocation is charged all the same, after which used *)
(* exceeds the RAM and nothing fits any more: so the bump pointer and the   *)
(* figures can only part once a window has no buffer.                       *)

MaxBuffer ==
  CHOOSE M \in 0 .. Word : /\ \A n \in 0 .. MAX_WINDOWS : \A r \in AppRects[n] : r.w * r.h * 4 <= M
                          /\ TotalRam + MAX_WINDOWS * M < Word
                          /\ KernelEnd + 3 + MAX_WINDOWS * M <= g_BackBuffer

HeapInv ==
  /\ KernelEnd <= g_NextAlloc
  /\ g_NextAlloc <= KernelEnd + 3 + g_WindowCount * MaxBuffer
  /\ memstats.used <= TotalRam + g_WindowCount * MaxBuffer
  /\ ~AllBuffered => memstats.used > TotalRam
  /\ StatsHonest
  /\ BlocksDisjoint

LEMMA MaxBufferBounds ==
  /\ MaxBuffer \in Nat
  /\ \A n \in 0 .. MAX_WINDOWS : \A r \in AppRects[n] : r.w * r.h * 4 <= MaxBuffer
  /\ TotalRam + MAX_WINDOWS * MaxBuffer < Word
  /\ KernelEnd + 3 + MAX_WINDOWS * MaxBuffer <= g_BackBuffer
<1>1. /\ MaxBuffer \in 0 .. Word
      /\ \A n \in 0 .. MAX_WINDOWS : \A r \in AppRects[n] : r.w * r.h * 4 <= MaxBuffer
      /\ TotalRam + MAX_WINDOWS * MaxBuffer < Word
      /\ KernelEnd + 3 + MAX_WINDOWS * MaxBuffer <= g_BackBuffer
  BY BufferAssumption, Zenon DEF MaxBuffer, BufferAssumption
<1>. QED BY <1>1

LEMMA AlignUpBounds ==
  AlignUp(KernelEnd) \in KernelEnd .. KernelEnd + 3
BY MemoryAssumption, SMT DEF AlignUp, MemoryAssumption

LEMMA HeapInit == wm_init => HeapInv
<1>. SUFFICES ASSUME wm_init PROVE HeapInv
  OBVIOUS
<1>. USE MemoryAssumption DEF MemoryAssumption
<1>. DEFINE static == KernelEnd - KernelStart
<1>1. KernelStats \in MemStats /\ KernelStats.used = static /\ KernelStats.free = TotalRam - static
  BY DEF KernelStats, MemStats
<1>2. /\ memstats.used = Wrap(KernelStats.used + FbSize)
      /\ memstats.free = Wrap(KernelStats.free - FbSize)
  BY <1>1 DEF wm_init, mem_init, fb_init, Charge, MemStats
<1>3. memstats.used = static + FbSize /\ memstats.free = TotalRam - (static + FbSize)
  BY <1>1, <1>2 DEF Wrap
<1>6. /\ memstats.kernel_static = static /\ memstats.framebuffer = FbSize
      /\ memstats.backbuffer = 0 /\ memstats.heap = 0
  <2>1. /\ memstats.kernel_static = static /\ memstats.framebuffer = Wrap(0 + FbSize)
        /\ memstats.backbuffer = 0 /\ memstats.heap = 0
    BY <1>1 DEF wm_init, mem_init, fb_init, Charge, KernelStats, MemStats
  <2>. QED BY <2>1 DEF Wrap
<1>4. Created = {} /\ g_WindowCount = 0 /\ blocks = {} /\ g_NextAlloc = AlignUp(KernelEnd)
  BY DEF wm_init, mem_init, Created
<1>5. AllBuffered /\ BlocksDisjoint
  BY <1>4 DEF AllBuffered, BlocksDisjoint
<1>. QED BY <1>3, <1>4, <1>5, <1>6, AlignUpBounds, MaxBufferBounds DEF HeapInv, StatsHonest

LEMMA HeapCreate ==
  ASSUME IInv, HeapInv, NEW r \in AppRects[g_WindowCount], wm_create_window(r)
  PROVE  HeapInv'
<1>. DEFINE size == r.w * r.h * 4
            w == g_WindowCount
            static == KernelEnd - KernelStart
<1>. USE MemoryAssumption DEF MemoryAssumption
<1>1. w \in 0 .. MAX_WINDOWS - 1 /\ w \in Windows /\ MAX_WINDOWS \in Nat
  BY GeometryAssumption DEF IInv, TypeOK, wm_create_window, Windows, GeometryAssumption
<1>2. size \in 0 .. Word - 1 /\ AlignUp(size) = size /\ size <= MaxBuffer
  BY <1>1, BufferAligned, MaxBufferBounds
<1>. HIDE DEF size
<1>3. /\ memstats \in MemStats /\ memstats.used \in 0 .. Word - 1
      /\ memstats.free \in 0 .. Word - 1 /\ g_NextAlloc \in 0 .. Word - 1
  BY DEF IInv, MemoryTypeOK, MemStats
<1>4. /\ kalloc_raw(size) /\ memstats' = Charge(memstats, "backbuffer", size)
      /\ backbuffer' = [backbuffer EXCEPT ![w] = AllocResult(size)]
      /\ backbuffer \in [Windows -> 0 .. Word - 1]
      /\ g_WindowCount' = w + 1
  BY DEF wm_create_window, AllocBackbuffer, size, IInv, TypeOK
\* used stays below the word.
<1>5. memstats.used + size <= TotalRam + (w + 1) * MaxBuffer /\ memstats.used + size < Word
  <2>1. w * MaxBuffer \in Nat /\ (w + 1) * MaxBuffer = w * MaxBuffer + MaxBuffer
    BY <1>1, MaxBufferBounds
  <2>2. memstats.used + size <= TotalRam + (w + 1) * MaxBuffer
    BY <1>2, <1>3, <2>1, MaxBufferBounds DEF HeapInv
  <2>3. (w + 1) * MaxBuffer <= MAX_WINDOWS * MaxBuffer
    BY <1>1, MaxBufferBounds
  <2>4. (w + 1) * MaxBuffer \in Nat /\ MAX_WINDOWS * MaxBuffer \in Nat
    BY <1>1, MaxBufferBounds
  <2>. QED BY <1>2, <1>3, <2>2, <2>3, <2>4, MaxBufferBounds
<1>6. /\ memstats'.used = memstats.used + size
      /\ memstats'.free = Wrap(memstats.free - size)
      /\ Fits(size) <=> memstats.used + size <= TotalRam
  <2>1. /\ memstats'.used = Wrap(memstats.used + size)
        /\ memstats'.free = Wrap(memstats.free - size)
    BY <1>3, <1>4 DEF Charge, MemStats
  <2>2. Wrap(memstats.used + size) = memstats.used + size
    BY <1>2, <1>3, <1>5 DEF Wrap
  <2>. QED BY <1>2, <2>1, <2>2 DEF Fits
<1>11. memstats'.used = memstats'.kernel_static + memstats'.framebuffer
                        + memstats'.backbuffer + memstats'.heap
  <2>1. /\ memstats.used = memstats.kernel_static + memstats.framebuffer
                           + memstats.backbuffer + memstats.heap
        /\ memstats.kernel_static \in Nat /\ memstats.framebuffer \in Nat
        /\ memstats.backbuffer \in Nat /\ memstats.heap \in Nat
    BY <1>3 DEF HeapInv, StatsHonest, MemStats
  <2>2. /\ memstats'.kernel_static = memstats.kernel_static
        /\ memstats'.framebuffer = memstats.framebuffer
        /\ memstats'.heap = memstats.heap
        /\ memstats'.backbuffer = Wrap(memstats.backbuffer + size)
    BY <1>3, <1>4 DEF Charge, MemStats
  <2>3. Wrap(memstats.backbuffer + size) = memstats.backbuffer + size
    BY <1>2, <1>3, <1>5, <2>1 DEF Wrap
  <2>. QED BY <1>2, <1>3, <1>6, <2>1, <2>2, <2>3
<1>7. Created' = Created \cup {w} /\ w \notin Created
  BY <1>1, <1>4 DEF Created
<1>8. AllBuffered' <=> AllBuffered /\ AllocResult(size) # NULL
  <2>1. Created \subseteq Windows
    BY CreatedWindows DEF IInv, TypeOK
  <2>. QED BY <1>1, <1>4, <1>7, <2>1 DEF AllBuffered
<1>12. /\ w * MaxBuffer \in Nat /\ (w + 1) * MaxBuffer = w * MaxBuffer + MaxBuffer
       /\ MAX_WINDOWS * MaxBuffer \in Nat /\ (w + 1) * MaxBuffer <= MAX_WINDOWS * MaxBuffer
  BY <1>1, MaxBufferBounds
<1>13. g_NextAlloc <= KernelEnd + 3 + w * MaxBuffer
  BY DEF HeapInv
<1>. HIDE DEF w
<1>9. CASE Fits(size)
  <2>1. AllBuffered /\ memstats.used + size <= TotalRam
    BY <1>2, <1>3, <1>6, <1>9 DEF HeapInv
  <2>2. /\ memstats.used = static + FbSize + g_NextAlloc - AlignUp(KernelEnd)
        /\ memstats.free = TotalRam - memstats.used
    BY <2>1 DEF HeapInv, StatsHonest
  <2>3. g_NextAlloc + size < Word
    BY <1>2, <1>3, <2>1, <2>2, AlignUpBounds
  <2>4. /\ g_NextAlloc' = g_NextAlloc + size
        /\ blocks' = blocks \cup {[addr |-> g_NextAlloc, size |-> size]}
        /\ AllocResult(size) = g_NextAlloc
    BY <1>2, <1>3, <1>4, <1>9, <2>3 DEF kalloc_raw, Wrap, AllocResult
  <2>5. memstats'.free = TotalRam - memstats'.used
    BY <1>2, <1>3, <1>6, <2>1, <2>2 DEF Wrap
  <2>6. StatsHonest'
    BY <1>2, <1>3, <1>6, <1>11, <2>1, <2>2, <2>4, <2>5, AlignUpBounds DEF StatsHonest
  <2>7. KernelEnd <= g_NextAlloc' /\ AllBuffered'
    BY <1>2, <1>3, <1>8, <2>1, <2>4 DEF HeapInv, NULL
  <2>8. g_NextAlloc' <= KernelEnd + 3 + (w + 1) * MaxBuffer
    BY <1>2, <1>3, <1>12, <1>13, <2>4, MaxBufferBounds
  <2>9. BlocksDisjoint'
    <3>1. \A b \in blocks : b.addr \in Nat /\ b.size \in Nat
      BY DEF IInv, MemoryTypeOK
    <3>2. \A b \in blocks : KernelEnd <= b.addr /\ b.addr + b.size <= g_NextAlloc
      BY DEF HeapInv, BlocksDisjoint
    <3>3. KernelEnd <= g_NextAlloc
      BY DEF HeapInv
    <3>4. \A b \in blocks' : KernelEnd <= b.addr /\ b.addr + b.size <= g_NextAlloc'
      BY <1>2, <1>3, <2>4, <3>1, <3>2, <3>3
    <3>5. ASSUME NEW b \in blocks', NEW c \in blocks', b # c
          PROVE  b.addr + b.size <= c.addr \/ c.addr + c.size <= b.addr
      <4>1. CASE b \in blocks /\ c \in blocks
        BY <3>5, <4>1 DEF HeapInv, BlocksDisjoint
      <4>2. CASE b \notin blocks \/ c \notin blocks
        BY <1>2, <1>3, <2>4, <3>1, <3>2, <3>5, <4>2
      <4>. QED BY <4>1, <4>2
    <3>6. g_NextAlloc' <= g_BackBuffer
      BY <1>2, <1>3, <1>12, <2>4, <2>8, MaxBufferBounds
    <3>7. \A b \in blocks' : b.addr + b.size <= g_BackBuffer
      BY <1>2, <1>3, <2>4, <3>1, <3>4, <3>6
    <3>. QED BY <3>4, <3>5, <3>7 DEF BlocksDisjoint
  <2>. QED BY <1>4, <1>5, <1>6, <2>6, <2>7, <2>8, <2>9 DEF HeapInv
<1>10. CASE ~Fits(size)
  <2>1. UNCHANGED <<g_NextAlloc, blocks>> /\ AllocResult(size) = NULL
    BY <1>4, <1>10 DEF kalloc_raw, AllocResult
  <2>2. ~AllBuffered' /\ memstats'.used > TotalRam
    BY <1>2, <1>3, <1>6, <1>8, <1>10, <2>1
  <2>3. g_NextAlloc' <= KernelEnd + 3 + (w + 1) * MaxBuffer
    BY <1>2, <1>3, <1>12, <1>13, <2>1, MaxBufferBounds
  <2>. QED BY <1>4, <1>5, <1>6, <1>11, <2>1, <2>2, <2>3 DEF HeapInv, StatsHonest, BlocksDisjoint
<1>. QED BY <1>9, <1>10

\* Mouse events neither create windows nor allocate.
LEMMA MouseLeaves ==
  ASSUME NEW p, wm_handle_mouse_event(p)
  PROVE  UNCHANGED <<memVars, backbuffer, g_WindowCount>>
BY DEF wm_handle_mouse_event, ClickTaskbar, ClickMinimize, ClickTitle, ClickContent,
   ClickDesktop, Drag, Release, EndOfEvent

LEMMA HeapStep == IInv /\ HeapInv /\ [Next]_wmVars => HeapInv'
<1>1. ASSUME HeapInv, UNCHANGED <<memVars, backbuffer, g_WindowCount>> PROVE HeapInv'
  BY <1>1 DEF HeapInv, memVars, AllBuffered, StatsHonest, BlocksDisjoint, Created
<1>. QED BY <1>1, MouseLeaves, HeapCreate DEF Next, wmVars

\* The strengthened invariant of the heap, which needs the types of IInv.
LEMMA HeapAlways == Spec => []HeapInv
BY HeapInit, HeapStep, IInvAlways, PTL DEF Spec

\* Backbuffers never overlap each other, the kernel, or the buffer at 10 MiB.
THEOREM HeapCorrect == Spec => []BlocksDisjoint
<1>1. HeapInv => BlocksDisjoint
  BY DEF HeapInv
<1>. QED BY <1>1, HeapAlways, PTL

\* The classes of memory always add up to what is used, and while every window
\* has a backbuffer that is exactly what the bump pointer has handed out.
THEOREM StatsCorrect == Spec => []StatsHonest
<1>1. HeapInv => StatsHonest
  BY DEF HeapInv
<1>. QED BY <1>1, HeapAlways, PTL

-----------------------------------------------------------------------------
(* The task manager's figures.                                             *)

\* Rounding down four numbers loses less than four.
LEMMA FourFloors ==
  ASSUME NEW a \in Nat, NEW b \in Nat, NEW c \in Nat, NEW d \in Nat
  PROVE  (a \div 1024) + (b \div 1024) + (c \div 1024) + (d \div 1024)
         \in ((a + b + c + d) \div 1024) - 3 .. (a + b + c + d) \div 1024
OBVIOUS

\* The four classes that are painted line by line make up the used RAM.
THEOREM BreakdownCorrect == Spec => []BreakdownAddsUp
<1>1. ASSUME MemoryTypeOK, StatsHonest PROVE BreakdownAddsUp
  <2>1. /\ memstats.kernel_static \in Nat /\ memstats.framebuffer \in Nat
        /\ memstats.backbuffer \in Nat /\ memstats.heap \in Nat
    BY <1>1, MemoryAssumption DEF MemoryTypeOK, MemStats, MemoryAssumption
  <2>2. memstats.used = memstats.kernel_static + memstats.framebuffer
                        + memstats.backbuffer + memstats.heap
    BY <1>1 DEF StatsHonest
  <2>. QED BY <2>1, <2>2, FourFloors DEF BreakdownAddsUp, Kilobytes
<1>. QED BY <1>1, TypeCorrect, StatsCorrect, PTL

\* A part of at most the whole fills at most the bar.
LEMMA PartOfBar ==
  ASSUME NEW n \in Nat, NEW used \in Nat, NEW total \in Nat \ {0}, used <= total
  PROVE  (n * used) \div total \in 0 .. n
<1>1. n * used \in Nat /\ n * used <= n * total
  OBVIOUS
<1>. QED BY <1>1

\* The bar never leaves its frame while every window has a backbuffer.
THEOREM BarCorrect == Spec => []BarInside
<1>1. ASSUME TypeOK, MemoryTypeOK, StatsHonest PROVE BarInside
  <2>. SUFFICES ASSUME AllBuffered, NEW w \in Created, bar_w(w) >= 2
                PROVE  fill_w(w) \in 0 .. bar_w(w) - 2
    BY DEF BarInside
  <2>1. memstats.used \in Nat /\ memstats.used <= TotalRam /\ TotalRam \in Nat \ {0}
    BY <1>1, MemoryAssumption DEF MemoryTypeOK, MemStats, MemoryAssumption, StatsHonest
  <2>2. w \in Windows
    BY <1>1, CreatedWindows DEF TypeOK
  <2>3. bar_w(w) - 2 \in Nat
    BY <1>1, <2>2 DEF TypeOK, Rect, bar_w
  <2>. QED BY <2>1, <2>3, PartOfBar DEF fill_w
<1>. QED BY <1>1, TypeCorrect, StatsCorrect, PTL

-----------------------------------------------------------------------------
(* The window manager implements Desktop: every step of the C code is a step *)
(* of the ordered tray and the single focus, or leaves both alone.           *)

LEMMA TrayIsSeq ==
  ASSUME FocusTaskbar
  PROVE  /\ Tray \in Seq(Windows) /\ Len(Tray) = count /\ DOMAIN Tray = 1 .. count
         /\ \A i \in 1 .. count : Tray[i] = items[i - 1]
<1>1. count \in Nat
  BY GeometryAssumption DEF FocusTaskbar, GeometryAssumption
<1>2. \A i \in 1 .. count : items[i - 1] \in Windows
  BY <1>1, CreatedWindows DEF FocusTaskbar, TaskbarExact
<1>3. Tray \in [1 .. count -> Windows]
  BY <1>2 DEF Tray
<1>4. Tray \in Seq(Windows)
  BY <1>1, <1>3
<1>. QED BY <1>1, <1>3, <1>4 DEF Tray

\* The shown windows of Desktop are those the code has not minimized.
LEMMA ShownWindows ==
  ASSUME FocusTaskbar
  PROVE  \A w : w \in D!Shown <=> w \in Created /\ ~minimized[w]
<1>1. count \in Nat
  BY GeometryAssumption DEF FocusTaskbar, GeometryAssumption
<1>2. D!Range(Tray) = {items[i] : i \in 0 .. count - 1}
  <2>1. ASSUME NEW i \in 0 .. count - 1 PROVE items[i] \in D!Range(Tray)
    <3>1. i + 1 \in 1 .. count /\ items[i] = Tray[i + 1]
      BY <1>1, TrayIsSeq
    <3>. QED BY <3>1, TrayIsSeq DEF D!Range
  <2>2. ASSUME NEW i \in 1 .. count PROVE Tray[i] \in {items[j] : j \in 0 .. count - 1}
    BY <1>1, TrayIsSeq
  <2>. QED BY <2>1, <2>2, TrayIsSeq DEF D!Range
<1>3. \A w \in Created : minimized[w] <=> w \in {items[i] : i \in 0 .. count - 1}
  BY DEF FocusTaskbar, TaskbarExact
<1>. QED BY <1>2, <1>3 DEF D!Shown
LEMMA DesktopInit == wm_init => D!Init
<1>. SUFFICES ASSUME wm_init PROVE D!Init
  OBVIOUS
<1>1. count = 0 /\ g_WindowCount = 0 /\ g_FocusedWindow = NoWindow
  BY DEF wm_init
<1>2. Created = {} /\ Tray = <<>>
  BY <1>1 DEF Created, Tray
<1>. QED BY <1>1, <1>2 DEF D!Init

\* The window manager's view of Desktop's variables.
View == <<Created, Tray, g_FocusedWindow>>

LEMMA DesktopMinimize ==
  ASSUME FocusTaskbar, NEW w \in Created, wm_minimize(w), ~minimized[w],
         g_WindowCount' = g_WindowCount
  PROVE  D!Minimize(w) \/ UNCHANGED View
<1>1. w \in Windows /\ Created' = Created /\ Created \subseteq Windows
  BY CreatedWindows DEF FocusTaskbar, Created
<1>2. CASE count >= MAX_TASKBAR_ITEMS
  BY <1>1, <1>2 DEF wm_minimize, taskbarVars, focusVars, View, Tray
<1>3. CASE ~(count >= MAX_TASKBAR_ITEMS)
  <2>1. count \in Nat /\ count \in Slots
    BY <1>3, GeometryAssumption DEF FocusTaskbar, GeometryAssumption, Slots
  <2>2. /\ items' = [items EXCEPT ![count] = w]
        /\ count' = count + 1 /\ items \in [Slots -> Windows \cup {NoWindow}]
    BY <1>3 DEF wm_minimize, FocusTaskbar
  <2>3. Tray' = Append(Tray, w)
    <3>1. Tray' = [i \in 1 .. count + 1 |-> items'[i - 1]]
      BY <2>2 DEF Tray
    <3>2. Append(Tray, w) = [i \in 1 .. count + 1 |-> IF i <= count THEN Tray[i] ELSE w]
      <4>. DEFINE A == Append(Tray, w)
      <4>1. /\ A \in Seq(Windows) /\ Len(A) = count + 1 /\ A[count + 1] = w
            /\ \A i \in 1 .. count : A[i] = Tray[i]
        BY <1>1, TrayIsSeq, AppendProperties
      <4>2. A = [i \in 1 .. count + 1 |-> A[i]]
        <5>. HIDE DEF A
        <5>1. A \in [1 .. count + 1 -> Windows]
          BY <4>1, LenProperties
        <5>. QED BY <5>1
      <4>. HIDE DEF A
      <4>3. \A i \in 1 .. count + 1 : A[i] = IF i <= count THEN Tray[i] ELSE w
        BY <2>1, <4>1
      <4>4. A = [i \in 1 .. count + 1 |-> IF i <= count THEN Tray[i] ELSE w]
        BY <4>2, <4>3
      <4>. QED BY <4>4 DEF A
    <3>3. \A i \in 1 .. count : i - 1 \in 0 .. count - 1 /\ Tray[i] = items[i - 1]
      BY <2>1, TrayIsSeq
    <3>4. \A i \in 1 .. count : items'[i - 1] = items[i - 1]
      BY <2>1, <2>2, GeometryAssumption DEF Slots, GeometryAssumption
    <3>5. items'[(count + 1) - 1] = w
      BY <2>1, <2>2
    <3>. QED BY <2>1, <3>1, <3>2, <3>3, <3>4, <3>5
  <2>4. w \in D!Shown
    BY ShownWindows
  <2>5. g_FocusedWindow' \in D!PassedOn(w)
    <3>1. CASE has_focus[w]
      <4>1. PICK h \in Windows \cup {NoWindow} : IsHeir(h, w) /\ g_FocusedWindow' = h
        BY <1>3, <3>1 DEF wm_minimize
      <4>2. g_FocusedWindow = w
        BY <1>1, <3>1 DEF FocusTaskbar, FocusExclusive
      <4>3. {v \in Created \ {w} : ~minimized[v]} = D!Shown \ {w}
        BY ShownWindows
      <4>4. CASE D!Shown = {w}
        BY <4>1, <4>2, <4>3, <4>4 DEF IsHeir, D!PassedOn
      <4>5. CASE D!Shown # {w}
        BY <2>4, <4>1, <4>2, <4>3, <4>5 DEF IsHeir, IsTop, D!PassedOn
      <4>. QED BY <4>4, <4>5
    <3>2. CASE ~has_focus[w]
      <4>1. g_FocusedWindow # w /\ g_FocusedWindow' = g_FocusedWindow
        BY <1>1, <1>3, <3>2 DEF wm_minimize, focusVars, FocusTaskbar, FocusExclusive
      <4>. QED BY <4>1 DEF D!PassedOn
    <3>. QED BY <3>1, <3>2
  <2>. QED BY <1>1, <2>3, <2>4, <2>5 DEF D!Minimize
<1>. QED BY <1>2, <1>3

LEMMA DesktopRestore ==
  ASSUME FocusTaskbar, NEW k \in 0 .. count - 1, wm_restore(items[k]),
         g_WindowCount' = g_WindowCount
  PROVE  D!Restore(items[k])
<1>1. /\ items[k] \in Created /\ minimized[items[k]] /\ taskbar_index[items[k]] = k
      /\ Created' = Created /\ items[k] # NoWindow
  BY DEF FocusTaskbar, TaskbarExact, Created, NoWindow
<1>2. count \in Nat /\ k \in Int /\ 0 .. count - 1 \subseteq Slots
  BY GeometryAssumption DEF FocusTaskbar, GeometryAssumption, Slots
<1>3. /\ items' = [i \in Slots |-> IF i \in k .. count - 2 THEN items[i + 1] ELSE items[i]]
      /\ count' = count - 1 /\ g_FocusedWindow' = items[k]
  BY <1>1, <1>2 DEF wm_restore, wm_set_focus, Moved
<1>4. Tray' = D!Without(Tray, k + 1)
  <2>1. Tray' = [j \in 1 .. count - 1 |-> items'[j - 1]]
    BY <1>3 DEF Tray
  <2>2. D!Without(Tray, k + 1) =
          [j \in 1 .. count - 1 |-> IF j < k + 1 THEN Tray[j] ELSE Tray[j + 1]]
    BY <1>2, TrayIsSeq DEF D!Without
  <2>3. ASSUME NEW j \in 1 .. count - 1
        PROVE  items'[j - 1] = IF j < k + 1 THEN Tray[j] ELSE Tray[j + 1]
    <3>1. /\ j - 1 \in Slots /\ j \in 1 .. count /\ j + 1 \in 1 .. count
          /\ (j + 1) - 1 = j /\ (j - 1) + 1 = j
      BY <1>2
    <3>2. Tray[j] = items[j - 1] /\ Tray[j + 1] = items[j]
      BY <3>1, TrayIsSeq
    <3>3. items'[j - 1] = IF j - 1 \in k .. count - 2 THEN items[j] ELSE items[j - 1]
      BY <1>3, <3>1
    <3>4. j - 1 \in k .. count - 2 <=> ~(j < k + 1)
      BY <1>2
    <3>. QED BY <3>2, <3>3, <3>4
  <2>. QED BY <2>1, <2>2, <2>3
<1>5. k + 1 \in DOMAIN Tray /\ Tray[k + 1] = items[k]
  BY <1>2, TrayIsSeq
<1>. QED BY <1>1, <1>3, <1>4, <1>5 DEF D!Restore

LEMMA DesktopStep == IInv /\ IInv' /\ [Next]_wmVars => D!Next \/ UNCHANGED View
<1>. SUFFICES ASSUME IInv, IInv', [Next]_wmVars PROVE D!Next \/ UNCHANGED View
  OBVIOUS
<1>. USE IInvFocusTaskbar
<1>1. ASSUME UNCHANGED <<g_WindowCount, items, count>> PROVE Created' = Created /\ Tray' = Tray
  BY <1>1 DEF Created, Tray
<1>2. ASSUME NEW r, wm_create_window(r) PROVE D!Open(g_WindowCount) /\ g_WindowCount \in Windows
  <2>1. /\ g_WindowCount' = g_WindowCount + 1 /\ g_FocusedWindow' = g_WindowCount
        /\ g_WindowCount \in 0 .. MAX_WINDOWS - 1 /\ items' = items /\ count' = count
    BY <1>2, GeometryAssumption DEF wm_create_window, wm_set_focus, IInv, TypeOK, GeometryAssumption
  <2>2. /\ Created' = Created \cup {g_WindowCount} /\ g_WindowCount \notin Created
        /\ g_WindowCount \in Windows
    BY <2>1 DEF Created, Windows
  <2>. QED BY <2>1, <2>2 DEF D!Open, Tray
<1>3. ASSUME NEW p \in Points, wm_handle_mouse_event(p)
      PROVE  D!Next \/ UNCHANGED View
  <2>1. g_WindowCount' = g_WindowCount
    BY <1>3, MouseLeaves
  <2>2. \A w \in Windows : ClickOn(w, p) => w \in Created /\ ~minimized[w] /\ w \in D!Shown
    BY ShownWindows DEF ClickOn, IsTop, Hit
  <2>3. CASE ClickTaskbar(p)
    <3>1. PICK i \in Slots : IsLowest(i, ItemsAt(p)) /\ wm_restore(items[i])
      BY <2>3 DEF ClickTaskbar
    <3>2. i \in 0 .. count - 1 /\ items[i] \in Windows
      BY <3>1, CreatedWindows DEF IsLowest, ItemsAt, IInv, TaskbarExact, TypeOK
    <3>. QED BY <2>1, <3>1, <3>2, DesktopRestore DEF D!Next
  <2>4. CASE ClickMinimize(p)
    <3>1. PICK w \in Windows : ClickOn(w, p) /\ wm_minimize(w)
      BY <2>4 DEF ClickMinimize
    <3>. QED BY <2>1, <2>2, <3>1, DesktopMinimize DEF D!Next
  <2>5. CASE ClickTitle(p) \/ ClickContent(p)
    <3>1. PICK w \in Windows : ClickOn(w, p) /\ wm_set_focus(w)
      BY <2>5, Zenon DEF ClickTitle, ClickContent
    <3>2. UNCHANGED taskbarVars
      BY <2>5 DEF ClickTitle, ClickContent
    <3>3. D!Focus(w)
      BY <1>1, <2>1, <2>2, <3>1, <3>2 DEF D!Focus, wm_set_focus, taskbarVars
    <3>. QED BY <3>3 DEF D!Next
  <2>6. CASE ClickDesktop(p)
    <3>1. UNCHANGED taskbarVars /\ g_FocusedWindow' \in {NoWindow, g_FocusedWindow}
      BY <2>6 DEF ClickDesktop, focusVars
    <3>. QED BY <1>1, <2>1, <3>1 DEF D!Next, D!Unfocus, View, taskbarVars
  <2>7. CASE Drag(p) \/ Release(p)
    <3>1. UNCHANGED <<focusVars, taskbarVars>>
      BY <2>7 DEF Drag, Release
    <3>. QED BY <1>1, <2>1, <3>1 DEF View, focusVars, taskbarVars
  <2>. QED BY <1>3, <2>3, <2>4, <2>5, <2>6, <2>7 DEF wm_handle_mouse_event
<1>4. CASE UNCHANGED wmVars
  BY <1>1, <1>4 DEF wmVars, focusVars, taskbarVars, View
<1>. QED BY <1>2, <1>3, <1>4 DEF Next, D!Next

\* The taskbar array with its shifting, the indices kept in the windows and the
\* focus flags implement a tray in order of minimizing and a single focus.
THEOREM DesktopImplemented == Spec => ImplementsDesktop
BY DesktopInit, DesktopStep, IInvAlways, PTL DEF Spec, ImplementsDesktop, D!Spec, View
=============================================================================
