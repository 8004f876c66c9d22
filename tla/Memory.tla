------------------------------- MODULE Memory -------------------------------
(***************************************************************************)
(* The bump allocator of kernel/memory.c and the accounting record         *)
(* `memstats` it shares with fb_init (drivers/fb.c) and wm_create_window   *)
(* (gui/wm.c).  Addresses and byte counts are uint32_t: every addition and *)
(* subtraction of the accounting goes through Wrap.                        *)
(***************************************************************************)
EXTENDS Integers, FiniteSets

CONSTANTS
  TotalRam,     \* memstats.total_ram_bytes (32 MiB in the code)
  KernelStart,  \* &__entry_start
  KernelEnd,    \* &__end
  FbSize,       \* FB_WIDTH * FB_HEIGHT * 4
  g_BackBuffer, \* the fixed address of the desktop's own buffer (10 MiB), in fb.c
  Word          \* 2^32, the modulus of uint32_t

ASSUME MemoryAssumption ==
  /\ {TotalRam, KernelStart, KernelEnd, FbSize, g_BackBuffer, Word} \subseteq Nat
  /\ 0 < KernelStart /\ KernelStart <= KernelEnd /\ KernelEnd <= TotalRam
  /\ KernelEnd - KernelStart + FbSize <= TotalRam
  /\ 2 * TotalRam + 4 <= Word

VARIABLES
  memstats,     \* the MemStats record, total_ram_bytes being TotalRam
  g_NextAlloc,  \* the bump pointer
  blocks        \* ghost: the blocks kalloc_raw has handed out

memVars == <<memstats, g_NextAlloc, blocks>>

NULL == 0

\* The result of one uint32_t addition or subtraction of two uint32_t values.
Wrap(n) == IF n < 0 THEN n + Word ELSE IF n >= Word THEN n - Word ELSE n

\* Round up to the next multiple of 4, as mem_init and kalloc_raw do.
AlignUp(n) == IF n % 4 = 0 THEN n ELSE n + (4 - (n % 4))

\* Adds size to one class of memory, and moves it from free to used.
Charge(stats, class, size) ==
  [stats EXCEPT ![class] = Wrap(@ + size),
                !.used   = Wrap(@ + size),
                !.free   = Wrap(@ - size)]

Fits(size) == Wrap(memstats.used + AlignUp(size)) <= TotalRam

\* What kalloc_raw(size) returns: it charges nothing to memstats.
AllocResult(size) == IF Fits(size) THEN g_NextAlloc ELSE NULL

\* Mutant: the bump pointer advances by words instead of bytes.
kalloc_rawMut(size) ==
  IF Fits(size)
  THEN /\ g_NextAlloc' = Wrap(g_NextAlloc + size \div 4)
       /\ blocks' = blocks \cup {[addr |-> g_NextAlloc, size |-> size]}
  ELSE UNCHANGED <<g_NextAlloc, blocks>>

kalloc_raw(size) ==
  IF Fits(size)
  THEN /\ g_NextAlloc' = Wrap(g_NextAlloc + AlignUp(size))
       /\ blocks' = blocks \cup {[addr |-> g_NextAlloc, size |-> size]}
  ELSE UNCHANGED <<g_NextAlloc, blocks>>

MemStats == [used : 0 .. Word - 1, free : 0 .. Word - 1,
             kernel_static : 0 .. Word - 1, framebuffer : 0 .. Word - 1,
             backbuffer : 0 .. Word - 1, heap : 0 .. Word - 1]

\* memstats when mem_init() returns: only the kernel image is in use.
KernelStats ==
  LET static == KernelEnd - KernelStart
  IN [used |-> static, free |-> TotalRam - static, kernel_static |-> static,
      framebuffer |-> 0, backbuffer |-> 0, heap |-> 0]

\* fb_init() charges the desktop's own back buffer, which lies at a fixed
\* address and not in the heap.
fb_init(stats) == Charge(stats, "framebuffer", FbSize)

\* The state after mem_init() and fb_init().
mem_init ==
  /\ memstats = fb_init(KernelStats)
  /\ g_NextAlloc = AlignUp(KernelEnd)
  /\ blocks = {}

\* Mutant: wm_create_window charges its backbuffer to the wrong total.
AllocBackbufferMut(size) ==
  /\ kalloc_raw(size)
  /\ memstats' = [Charge(memstats, "backbuffer", size) EXCEPT !.free = memstats.free]

\* What wm_create_window does for its backbuffer: the charge is made whether
\* or not kalloc_raw returned NULL.
AllocBackbuffer(size) ==
  /\ kalloc_raw(size)
  /\ memstats' = Charge(memstats, "backbuffer", size)

-----------------------------------------------------------------------------
(* Properties, for the modules that drive the allocator. *)

MemoryTypeOK ==
  /\ memstats \in MemStats
  /\ g_NextAlloc \in 0 .. Word - 1
  /\ blocks \subseteq [addr : 0 .. Word - 1, size : 0 .. Word - 1]

\* Two different blocks handed out share no byte, all end at or below the bump
\* pointer, and none touches the kernel image or the buffer at a fixed address
\* that the allocator does not know (kalloc_raw, fb.c).
BlocksDisjoint ==
  /\ \A b \in blocks : KernelEnd <= b.addr /\ b.addr + b.size <= g_NextAlloc
  /\ \A b \in blocks : \/ b.addr + b.size <= g_BackBuffer
                         \/ g_BackBuffer + FbSize <= b.addr
  /\ \A b, c \in blocks : b # c => \/ b.addr + b.size <= c.addr
                                   \/ c.addr + c.size <= b.addr
=============================================================================
