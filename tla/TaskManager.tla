----------------------------- MODULE TaskManager -----------------------------
(***************************************************************************)
(* apps/taskmgr.c: what the task manager paints of memstats on each frame, *)
(* in kilobytes and as a bar.  It has no state of its own.                 *)
(***************************************************************************)
EXTENDS WindowManager

\* The figures: uint32_t divisions, each rounded down by itself.
Kilobytes(bytes) == bytes \div 1024

\* The bar, and the part of it that is filled.  The quotient of two floats is
\* rounded, but never past 1 when used is not larger than the RAM.
bar_w(w) == rect[w].w - 20
fill_w(w) == ((bar_w(w) - 2) * memstats.used) \div TotalRam

-----------------------------------------------------------------------------
\* The lines of the breakdown add up to the line of the used RAM, but for the
\* three kilobytes that four roundings may lose.
BreakdownAddsUp ==
  LET shown == Kilobytes(memstats.kernel_static) + Kilobytes(memstats.framebuffer)
               + Kilobytes(memstats.backbuffer) + Kilobytes(memstats.heap)
  IN shown \in Kilobytes(memstats.used) - 3 .. Kilobytes(memstats.used)

\* In a window wide enough for a frame, the bar stays within it as long as every
\* window has its backbuffer; a charge for a buffer that was not to be had may
\* push it over the edge.
BarInside ==
  AllBuffered => \A w \in Created : bar_w(w) >= 2 => fill_w(w) \in 0 .. bar_w(w) - 2
=============================================================================
