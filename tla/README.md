# TLA+ models of FloppyOS

FloppyOS boots from a floppy image (stage 1, stage 2 with a FAT12 reader) into a
32-bit kernel with a graphical desktop: five applications in windows, a PS/2
mouse and keyboard driver, a bump allocator. There is one processor and no
scheduler. Yet the system is concurrent: **the keyboard and mouse handlers do
the window manager's and the applications' work inside the interrupt**, while
the main loop does the same kind of work outside it with interrupts on, and
nothing disables them. Most of what is worth checking follows from that.

Paths below are relative to the repository; the kernel's sources are in `src/`.
The kernel is built without optimisation (`build_scripts/config.mk:13`), so a C
statement is a sequence of loads and stores in the order written. The statement
by statement models rest on this.

## Inventory

| component | state | operations | hard behaviour | what makes it correct |
|---|---|---|---|---|
| window manager, `gui/wm.c` | window table, focus (a flag in each window and a pointer), taskbar array and the index each window keeps of it, drag, the last buttons | create, set focus, minimize, restore, mouse event, key event, tick | the same fact kept twice; called from the handler and from the main loop | one focus, on a visible window; the taskbar lists exactly the minimized windows; a drag ends; no window is lost |
| memory, `kernel/memory.c`, `mm/memstats.h` | bump pointer, accounting record | `mem_init`, `kalloc_raw`, charges made by others | the limit is tested against the accounting, which other files maintain; 32-bit sums | blocks disjoint; the figures agree with the pointer |
| framebuffer, `drivers/fb.c` | pixels, fixed back buffer at 10 MiB | init, draw, flip | the allocator does not know the fixed buffer | the heap stays below it |
| main loop, `kernel/main.c` | frame counter, script | creates the applications, ticks, paints, clicks a scripted test | preempted anywhere by the handlers | the desktop is consistent after every scripted call |
| mouse driver, `drivers/ps2mouse.c` | packet cycle and bytes, position, buttons | polling initialisation, handler | shares one output buffer with the keyboard; polls it with interrupts on; waits that time out | packets keep their framing; pointer on the screen; no byte left behind |
| keyboard driver, `drivers/keyboard.c` | Shift, CapsLock | handler, serial input | modifiers follow from transitions that can be missed | letters have the right case |
| interrupts, `kernel/arch/i686/*` | IDT, handler tables, masks and in-service registers of two controllers | set gate, register, dispatch, unmask, end of interrupt | enabled before the devices have handlers; gates changed while enabled | every interrupt finds a handler and leaves nothing in service |
| Snake, `apps/snake.c` | body, direction and next direction, food, score | tick (main loop), key (handler) | a key between any two statements of a move | the snake is one piece and does not turn into its neck |
| Terminal, Shell | screen buffer, cursor, command line | key, command, output | output longer than the buffer | cursor inside the buffer |
| Notepad | 1 KiB text, cursor | insert, delete, paint | the buffer at its limit | the text is what was typed |
| Calculator | display, pending operation | keys | number conversion at its limits | the figures are right |
| Task manager | none | paint | figures that are rounded one by one, and are wrong after a failed allocation | the classes add up; the bar stays in its frame |
| console, `drivers/vga.c` | cursor, text screen, serial port | print, scroll, hook | called from handlers and the main thread at once, load by load | cursor on the screen, no byte lost |
| printf, strings | none between calls | print, sprintf | an automaton with several flags, two copies that differ | what a format says is printed |
| stage 1, stage 2, FAT | open file table, sector buffers | open, read, close, disk read with retries | short reads, cluster chains, a failed read in the middle | the bytes of the file, in order |
| GDT, port I/O, fonts, wallpaper, generated stubs, host tool | constant or none | - | - | - |

How they interact: IRQ12 -> `mouse_handler` -> `wm_handle_mouse_event` -> window
callbacks; IRQ1 -> `keyboard_handler_c` -> `wm_handle_key_event` -> the focused
window's `on_key`; main loop -> `wm_tick` -> `on_tick`, painting, and, in two
frames, `wm_handle_mouse_event` again; `wm_create_window` -> `kalloc_raw` and
`memstats`. Everything is shared memory, nothing is locked.

The hazards this exposes the code to are listed, each at its line, in
`PROJECT.json`.

## The modules

| module | models | lines of code it stands for |
|---|---|---|
| `Memory` | the allocator, the accounting and the charges to it | `memory.c`, parts of `fb.c` and `wm.c` |
| `WindowManager` (extends `Memory`) | every path of `wm_handle_mouse_event`, creation, minimize, restore, focus | `wm.c` |
| `Desktop` | abstract: an ordered tray and one focus | what `WindowManager` implements |
| `MainLoop` (extends `WindowManager`) | the main thread, statement by statement, and user events between its statements | `main.c`, `wm.c` again |
| `Input` | both PS/2 drivers, their initialisation, the 8042 | `ps2mouse.c`, `keyboard.c`, `irq.c`, `idt.c` |
| `Snake` | the game, statement by statement, with keys in between | `snake.c` |
| `Disk` | the floppy, its addresses, the tries of a read, the FAT | `disk.c`, parts of `fat.c` and `boot.asm` |
| `Stage1` (extends `Disk`) | the boot sector: finding and loading stage 2 | `boot.asm` |
| `Fat` (extends `Disk`) | the FAT12 driver and the loop that loads the kernel | `fat.c`, `stage2/main.c` |
| `Boot` (extends `Stage1`, `Fat`) | the way from power-on to the jump into the kernel | both loaders |
| `Startup` | the kernel up to the desktop: gates, controllers, what is printed, load by load, and interrupts in between | `main.c`, `hal.c`, `idt.c`, `isr.c`, `isrs_gen.c`, `irq.c`, `pic.c`, `vga.c` |
| `PowerOn` (extends `Boot`, `Startup`) | the two composed | |
| `Terminal` | the terminal and the shell, and the main thread printing into it load by load | `terminal.c`, `shell.c`, the hook in `vga.c` |
| `Notepad` | the text and its editing | `notepad.c` |
| `Calculator` | buttons, display, conversions | `calculator.c` |
| `Adder` | abstract: sums and differences of numbers | what `Calculator` implements |
| `Printf` | `printf` and `sprintf`, the kernel's and the loader's, and the loader's cursor | both `stdio.c` |
| `Apps` (extends the four) | sessions with the applications, and calls of `printf` | `wm_handle_key_event`, `main.c` |
| `TaskManager` (extends `WindowManager`) | the figures the task manager paints, as operators | `taskmgr.c` |
| `Numbers` | the powers of a number | |
| `Recursion` | facts about folds and recursive functions in general, instantiated by `AppsProofs` | |
| `WindowManagerProofs`, `MainLoopProofs`, `StartupProofs`, `InputProofs`, `SnakeProofs`, `AppsProofs`, `BootProofs` | theorems | |
| `MC*` | instances for TLC | |

### WindowManager and Memory

A window is its index in `g_Windows`; each field of `struct Window` that the
logic reads is a function of it (`rect`, `minimized`, `taskbar_index`,
`has_focus`, `backbuffer`). A `NULL` pointer is `NoWindow`. `wm_handle_mouse_event`
runs with interrupts off, so one packet is one step; the action per path is
`ClickTaskbar`, `ClickMinimize`, `ClickTitle`, `ClickContent`, `ClickDesktop`,
`Drag` and `Release`. All but the first end in `EndOfEvent`, the last lines of the
function; the taskbar path returns early, without `last_buttons = buttons`.
Which pixel lies in what is computed as in the code, from the same constants,
so that TLC's instances and the program's differ in numbers only.

`wm_create_window` is called from the main thread. In this module it is one step;
a mouse event inside it would see a window without title or callbacks, and only
in the first moments after the start, before anything is on the screen to be
clicked. This is an assumption, not something shown.

Every addition and subtraction of the accounting is taken modulo `Word`, 2^32 in
the code. `g_BackBuffer` is the fixed
address of the desktop's own buffer, which the allocator does not know. Ghosts: `blocks`, what `kalloc_raw` has handed out; `button`, bit 0 of
the latest packet, which differs from `last_buttons` after a taskbar click.

### Desktop

The specification a user would recognise: opening a window gives it the focus;
minimizing appends to the tray and passes the focus to some visible window or,
if there is none, to nobody; restoring takes a window out of the tray, the others
keeping their order, and gives it the focus. `WindowManager!D` instantiates it:
the tray is the live part of the array `items`, opened windows are the indices
below `g_WindowCount`. What the refinement says is that array, counter, indices,
flags and pointer, five representations updated in three functions, never show.

### MainLoop

The scripted test of the main loop (a click on Notepad's minimize button, later
one on the taskbar) calls `wm_handle_mouse_event` with interrupts on. `pc` is the
next statement of the main thread inside that call and the functions it calls;
`items[count++] = win` is a load and two stores, `if (g_FocusedWindow)
g_FocusedWindow->...` is a test and a store that reads the pointer again.
`mouse_irq` runs any whole event of `WindowManager` between two of them. The hit
test reads one window per step. The window creation of the start (`Boot`) is one
step per application, as above.

Ghosts: `disturbed`, a press of the user came in during a scripted call;
`nullWrite`, the main thread stored through a null window pointer; `presses`
bounds the user.

### Input

`pc` is the statement of `mouse_init` or `keyboard_init`; interrupts are on, and a
requested interrupt is taken before the next statement. The 8042 is external and
modelled from how the drivers use it: one output buffer for its own answers, the
keyboard and the mouse, a configuration byte that enables interrupts and
disables devices, a byte that reading empties but that stays readable. A handler
is one step. Before a driver has set its gate, its interrupt goes to
`i686_IRQ_Handler`, which reads nothing. Keys are scan codes; they are pressed, released
and, held down, repeat. The translation table is kept by what the handler makes of a key:
`Letters`, which Shift and CapsLock turn into capitals; `Symbols`, the twelve keys whose
shifted character the handler knows (`keyboard.c:71`-`82`); and `Lacking`, the keys 2 to 8,
backquote and backslash, which have a shifted character on every keyboard (`Meant`) and none in
the driver (`Shifted`): Shift and 2 type a 2. With `TimesOut` a polling wait may give up early,
in which case the read returns the old byte.

Ghosts: every byte carries where it comes from (`src`, and `tag`, its place in
the packet, or whether the shifted character is meant); `down` and `caps` are the
user's hands; `early` records that a wait timed out or that input came before the
drivers were ready; `muddled`, that the user did what the code cannot follow:
typed early, held both Shifts at once (one flag stands for the two), or held CapsLock
until it repeated (each repetition toggles the flag). `mistyped` is what never happens to
anyone else: that a letter or one of the twelve symbols comes out other than it was meant, or a
key of `Lacking` other than plain.

### Snake

`snake_tick` moves the snake on the main thread, statement by statement: copying
`next_dir` (a load and a store), the new head, the collision test, the shift of
the body one segment at a time, eating, growing, scoring, and the search for a
free cell. `snake_on_key` is one step of an interrupt handler anywhere between.
Random numbers are any numbers. Ghosts: `disturbed`, a reset fell inside a move;
`late`, a direction key fell between that load and that store.

### Disk, Stage1, Fat, Boot

The loaders are one thread without interrupts; what is hard is the drive. A read
(`Read`) is a state of its own, `pc = "disk"`, in which the BIOS succeeds
(`Arrive`) or reports an error (`Retry`) that may have spoilt the buffer; after
three errors the read returns to the place its caller goes on at after a
failure: for stage 1 the message and the restart, for stage 2 whatever the
driver does with `false`. One action goes from a read or call to the next.

The unit of data is 32 bytes, a directory entry, which is what `FAT_ReadEntry`
reads and divides a sector. Sectors hold their own number, so a buffer is the
number of the sector it was last filled from, a unit that `FAT_Read` delivers is
a pair of this number and an offset, and what the kernel memory holds can be
compared with what the file consists of. The FAT keeps its 12-bit entries in
bytes (`FatByte`), from which `FAT_NextCluster` takes them as the code does;
`Content` reads the image's chain directly and is the reference. Sector numbers go
through cylinder, head and sector with the geometry the loader was told
(`LBA2CHS`) and back with the floppy's own (`SectorAt`).

Three places follow the code rather than its intention. `DISK_Initialize` asks
for the parameters of `disk->id` before assigning it (`disk.c:10`): any drive
answers, or none. A name without an extension of three letters is compared with a
byte nobody set (`fat.c:333`, `fat.c:340`), so it may become `"garbled"`. The test
for a directory in the middle of a path (`fat.c:352`) never holds. Where the
program would use a `NULL` file, the model stops in `"null"`: `start()` does not
test what `FAT_Open` returns.

Ghosts: `failed`, a read of this boot has failed three times; `opening`, the path
asked for.

### Startup and PowerOn

`at` is the statement of `start()` and of what it calls up to the terminal's hook,
`put` the place inside `vga_putc` (or inside `i686_IDT_SetGate`, which stores a gate
in pieces), with `r` and `k` for the two registers that hold copies of the cursor.
The processor's and the controllers' part is external: `irr`, `imr`, `isr`, one
after the other by priority, the second controller on line 2. From
`i686_EnableInterrupts` on, `Accept`, `Spurious` and `NonMaskable` enter a handler
between any two steps of the main thread. Which one depends on the two halves of
the address that the gate holds at that moment (`Target`), so that a half-written
gate may lead astray; the model knows the stubs by such halves (`Address`).
`i686_ISR_Handler` and `i686_IRQ_Handler` print what they print by `HandlerPutc`,
on the same cursor and the same port, and end the interrupt by writing to one
controller or to both. Exceptions end in `i686_Panic`.

Three things look odd and are the code's. `i686_PIC_Unmask` chooses a port and then
uses the first controller's (`pic.c:133`), so unmasking the mouse's line 12 clears the
mask of line 4. The direct write of `start()`, "Boot" and a line feed, sends byte by byte to
the port without looking at it (`DirectWrite`), so that each byte may overrun the one before. And a handler's wait for the port is not a wait for the main thread, which looks and sends
in two instructions. Tabs and backspaces are not among the characters: nothing that
is printed before the hook contains them.

The hardware cursor (`vga_set_cursor`, `vga.c:138`) is left out: the code only ever writes it, and
nothing depends on where it blinks.

Ghosts: `lost`, the bytes that were still in the transmitter when the next was sent
(`Transmitted`); `events` counts and bounds the interrupts.

`PowerOn` runs the loaders first. Only if what they loaded is the kernel does the
kernel start; the state of the loaders is then reset, their memory not being used again.

### Printf

The automaton `auto` has the states and flags of `printf`, and a step is a character
of the format. An argument is a machine word, of which `%ll` takes two. The copies
in the kernel and in the loader differ in one place: the loader's does not clear
`number`. Integers have `IntBits` bits. That `%X` prints lower-case digits, that `h`
and `hh` do not narrow, and that `%p` has no prefix is taken from the code; the
reference definition (`Meaning`) is otherwise C's, with the digits from the front. Of the
loader's `putc` the case of a tab is left out, as no message of the loader has one.

### TaskManager

No state, and no run of its own: the theorems about it need nothing but
`StatsHonest`. The quotient of two floats is an integer division here.

### Terminal, Notepad, Calculator, Apps

Everything the kernel prints after `terminal_init` ends in `terminal_write_char`.
`Terminal` has it twice: as an operator on the record `term`, for what handlers do in
one step (`terminal_key` with the shell, `Log`), and as the statements of the main
thread, whose loads and stores follow the compiler's order for
`term_buffer[term_row][term_col++] = c`: both indices are loaded, the column is
stored, then the character. The column is tested before, the terminator written
after, each with loads of their own. A row is copied up by `strcpy`, to its
terminator. Commands are words of one or two letters; the shell splits lines as in
the code.

Ghosts: `torn`, a handler printed in one of the three windows in which it does damage
(see below), after which nothing is said and the model stops; `alone`, since the
last prompt there were only keys, and no more than fit into the row; `erased`, the
characters of the command that Backspace has taken since one was typed; in `Notepad`
`typed`, the text a user expects.

Characters from the serial port (`timer`, `keyboard_process_char`) are keys, with one
difference: the Enter key at the other end sends a carriage return, which the notepad takes
for a newline and the terminal ignores, so that no command can be executed from there.

`Calculator` keeps the display as digits; `Adder` knows numbers only, and
`Calculator!A` maps one to the other by `str_to_int`. In `Apps` a key goes to the
terminal or the notepad and a click to the calculator, which prints; `app` is what
the whole session is about: an application, or a call of `printf`.

## What the runs show

| run | instance | result |
|---|---|---|
| `window_manager` | 3 windows, 3x4 screen, 4 pointer positions | everything below holds |
| `press_once` | the same | **violated**: one press restores two windows |
| `main_loop` | Notepad and Terminal, real geometry, 2 presses of the user | holds |
| `test_restores` | 5 applications, real geometry and frames, no user | **violated**: the script's second click restores nothing |
| `remove_from_taskbar` | as `main_loop` | **violated**: a visible window stays in the taskbar |
| `snake` | 3x5 grid, up to 5 segments | holds |
| `snake_turn` | the same | **violated**: a late key turns the snake into its neck |
| `input` | 2 packets, 6 keys, at most two of them held at once, waits that time out | holds |
| `acknowledge` | the same without time-outs | **violated**: bytes read as acknowledgements are not |
| `boot` | 3 file systems, 2 paths, up to 4 faults of the drive; then the kernel with a text screen of 2x2, 3 interrupts | holds |
| `apps` | a terminal of 2 rows of 4 characters, a notepad of 4, numbers of 2 digits, 4 inputs; all formats of two parts, words of 4 bits | holds |
| `kernel_loaded` | as `boot`, the program's path, 3 faults | **violated**: the kernel executed is not the kernel |

*window_manager.* `FocusExclusive` and `FocusShown`: the focus flag and pointer
agree and name a visible window. `TaskbarExact`: items, indices and flags agree.
`NeverRefused`: a full taskbar never swallows a click on the minimize button.
`DragHeld`: a drag has a window and ends with the button, although one path does
not record the button. `BlocksDisjoint`: backbuffers overlap neither each other nor
the kernel nor the desktop's buffer at its fixed address. `StatsHonest`: the classes of
memory add up to what is used in any case; the accounting agrees with the pointer as long as
every allocation succeeded (after a failure it does not: the charge is made all the
same).
`DragKeepsReachable`: no event drags the last pixel of a title bar off the
screen. `ImplementsDesktop`: the refinement.

*main_loop.* After a scripted call during which the user moved, dragged and
released but did not press, focus and taskbar are right (`QuietConsistent`), no
window sticks to the pointer (`QuietDragHeld`), and no null pointer was written
through (`NoNullWrite`); whatever the user does, the call returns (`CallReturns`).
`remove_from_taskbar` shows why the exception is needed: a press that minimizes
the window the script is minimizing leaves it in the taskbar twice.

*snake.* `BodyConnected`, `FoodFree`, `ScoreHonest` hold between moves unless a
reset falls inside one; `NeckSafe`, that no number of keys turns the snake into
its neck, holds unless one of them falls into the copying of the direction.

*input.* `PacketsFramed`, `CaseRight` (whatever keys are pressed, repeated and released around it, a
letter has the case that is meant, a symbol key gives the character that is meant, and a key
whose shifted character the driver lacks its plain one, whatever is meant) and `BufferDrained` (a full output buffer is
always read in the end) hold provided no input came before both gates were set.
`PointerOnScreen` holds regardless. `acknowledge` shows what such input does.

*boot.* `Stage2Whole`: stage 1 enters stage 2 only with all its clusters in memory,
in order, whatever the drive does. `KernelWhole`: as long as every read succeeds in
the end, and the geometry is the floppy's, the kernel in memory is the file, every
unit once, for files that end with a sector, inside one, or with a call of
`FAT_Read`. `BufferCurrent` is the invariant behind it: between calls the buffer
holds the sector of the position, fetched ahead. `NullMeansAbsent`: `FAT_Open` fails only
for a file that is not there (names that end in a stale byte aside).
`HandlesBalanced`: no path leaves a handle in use. In the kernel, `ConsoleIntact`: a
handler that prints between any two instructions of `vga_putc` leaves the cursor
on the screen, and the main thread, with its stale copies, stores on the screen.
`SerialLosses`: the port loses no more than the bytes of "Boot" but one, which `start()` sends
without a look, and one byte for each interrupt, whose handler may send between the main
thread's look and its byte. The bound is reached. A handler's message costs one byte however long
it is, and the carriage return after a line feed none. `InterruptsReturn`: every interrupt finds its handler,
also while gates are being replaced, and leaves nothing in service; the masks, wrongly
computed, do no harm because nothing is masked. `Stops`: the machine comes to rest, the
loaders with an error, the kernel at its desktop or in a panic: no wait for the drive or
the port and no interrupt holds it up for ever.

*apps.* `ScreenIntact`: no store leaves its row and every row keeps a terminator
although handlers and the main thread write to the same screen without
protection, unless a handler prints (1) after the main thread has tested the column
and before it has loaded the row, (2) before it has loaded the column, or (3) while
`term_row` is past the last row. TLC finds a violation when any of the three is
struck from `torn`, so the exceptions are the defect, exactly: a key at those moments
overwrites the next row's first byte or what lies behind the buffer. `PromptShown`:
as long as only keys came and the command fits, the cursor stands behind the prompt and the
command, and the row holds these and then what was erased since the last character typed, up to
the terminator. Backspace only moves the cursor (`terminal.c:30`); the character stays in
`term_buffer`, where `terminal_paint` goes on drawing it, and is not the visual backspace that the
comment at `terminal.c:104` speaks of. `TextKept`: the notepad's text is
what was typed, terminated, and its cursor always at the end, so that the shift at
`notepad.c:73` moves nothing but the terminator. `CalcImplements`: the refinement.
`FormatsRight`: what `printf` and `sprintf` print is what the format says, and they take the
arguments it names, for each pair of directives with each length and the numbers at
which digits and signs change. Formats in which a text or a percent sign follows a number
are excepted for the loader: its automaton prints a further argument there. None of its
messages is of this kind.

### Findings

1. *One click, two windows* (`gui/wm.c:227`). The taskbar path returns before
   `last_buttons = buttons`; the next packet of the same press is another click
   on what is now the first item.
2. *The scripted test tests nothing* (`kernel/main.c:98`). It clicks where the
   taskbar of a 480-pixel screen would be; the screen has 600.
3. *A window in the taskbar for good* (`gui/wm.c:84`). See above.
4. *The 180-degree turn* (`apps/snake.c:165`). The protection compares with a
   direction that is about to be replaced.
5. *Start-up with a key in the buffer* (`drivers/ps2mouse.c:77`). The scan code
   becomes the controller's configuration, and every later answer is read one
   too early.
6. *A kernel with a hole* (`stage2/main.c:36`). A sector that cannot be read ends
   one call of `FAT_Read` short, with the file already moved on to it. `start()`
   calls again, gets the buffer the failed read left, and jumps.

### Bounds, and why they are enough

- Three windows: the taskbar's compaction has a first, a middle and a last item,
  and the heir of the focus a choice. The screen has 3x4 cells and the pointer
  visits four of them, which hit title, button, content, both taskbar ends and
  the bare desktop, and let a window hang over each edge it can leave by.
  `TotalRam` is such that two wide windows exhaust it. `Word` is 256 there.
- `Word` is 2^30 where the real sizes are used, as TLC's integers have 32 bits
  with a sign; the largest sum of the program is far below either.
- The script's frames 50 and 150 are 1 and 2 in `main_loop`: nothing depends on
  the frames between. `test_restores` uses the real ones. `LastFrame` bounds the
  counter, `MaxPresses = 2` the user: a minimize and a restore, two clicks of one
  kind, or a drag and a click.
- Snake: `MaxLength = 5` on a grid of 15 cells leaves room to meet itself, both
  walls and the food; longer games repeat this. `Skip` is 2 instead of 5 ticks
  per move. A snake that a reset has spoilt is not moved on.
- Input: `MaxKeys` is the number of scan codes the keyboard holds back. The screen
  is 3x1 and a packet can cross all of it; one packet has bit 3 set in all its
  bytes, so the framing is not helped by the data. The six keys are the three modifiers and
  one of each kind that the handler distinguishes; `MaxDown = 2` keys are held at once, a
  modifier and another or both Shifts. The theorems need neither bound and cover every key.

- Boot: sectors of two units, so that a position has an inside and an end; a root
  directory of two sectors; calls of `FAT_Read` of two sectors (`LoadSize`), so that
  files end with a call, with a sector and inside one. Files have up to three
  clusters, not in order. The track has four sectors and the floppy two heads and
  two cylinders, so that addresses carry over in all three parts. `MaxFaults = 4`:
  a read that fails for good and one fault elsewhere, or four faults got over.
  One sector per cluster, which stage 1 takes for granted (`Stage1Assumption`).
- Startup: a screen of 2x2 wraps and scrolls with almost every character. Messages
  have up to three characters and a line feed; one wraps, one fills the last column. "Boot"
  is two characters and a line feed, so that two of its bytes may be lost.
  Lines 0, 1 and 12 are the devices the kernel uses, one on the second controller.
  Three interrupts (`MaxEvents`) are one in service, one requested meanwhile, and a
  third after it, or one between each two of an instruction's three loads. The
  theorems need none of these bounds.
- Printf: an automaton that resets itself after each directive shows what is left
  over with two; `IntBits = 4` gives numbers of one to three digits in every radix, and
  eight bits for `long long`.

- Apps: the prompt and two letters fit into a row, so that a letter typed and erased
  stays behind one that is left; commands have one or two letters,
  and two rows make every line scroll. Four inputs type, erase and execute a
  command with arguments, overfill the notepad, exceed the digits of a number, or
  compute with a negative result. The main loop prints once, and the banner may be
  cut as well. One application per session: the three share nothing but the screen
  the calculator prints to.

### Fairness

`MainLoop` assumes weak fairness of the main thread: the processor runs it
whenever no handler does, and a user cannot produce packets without pause.
`PowerOn` assumes it of the processor and the BIOS (the user need not press the key),
of the kernel's main thread and handlers together, and of the serial port, which sends what it
was given; interrupts need not come, and their number is bounded, as a processor that is
interrupted without pause makes no progress.
`Input` assumes it of the main thread, the handlers and the controller: hardware
keeps delivering and the processor takes requested interrupts. Nothing is
assumed of the user, and safety properties use no fairness. `MCInput` checks no
deadlock: a key pressed too early can block both devices, and the system then
comes to a halt.

## What is proved

`WindowManagerProofs`, for every value of the constants allowed by the assumptions of
`WindowManager` and the one of `Memory`: any screen, any windows and places to create them,
any set of pointer positions.

- `TypeCorrect`, `FocusCorrect`, `FocusShownCorrect`, `TaskbarCorrect`, `DragCorrect`. None
  is inductive alone: restoring moves items by the indices the windows keep, and
  is right only if those are; the focus passes to a window found not minimized,
  which must not be in the taskbar. `IInv` is their conjunction with the types of
  the allocator. Its lemmas are one per function (`MinimizeKeeps`, `RestoreKeeps`,
  `FocusKeeps`, `CreateKeeps`, `EndKeeps`), and `MouseStep` puts them together,
  a step per path of the handler.
- `NeverRefusedCorrect`, from `TaskbarExact` and `TaskbarAssumption`: distinct windows
  have distinct slots, so a full taskbar has minimized them all.
- `DragKeepsReachableCorrect`. The pointer is on the screen and on the title bar it
  drags; this pixel is the witness.
- `HeapCorrect` and `StatsCorrect`: `HeapInv` adds to `BlocksDisjoint` and `StatsHonest`
  that the bump pointer lies beyond the kernel and advances by at most a largest
  buffer per window, that a failed allocation leaves the used bytes above the RAM (so
  that nothing fits afterwards), and that they stay below the RAM plus a largest buffer
  per window, which excludes a wrap of the sum. Both bounds rest on `BufferAssumption`:
  with the program's numbers, ten windows of 320x260 pixels are 3.3 MB, and the
  buffer at 10 MiB is far above.
- `DesktopImplemented`: initial states map to initial states and each step to a step
  of `Desktop` or a stutter (`DesktopStep`), using `IInv`.
- `BreakdownCorrect` and `BarCorrect`: the lines of the task
  manager's breakdown add up to the total but for the three kilobytes four roundings may
  lose, and the bar stays within its frame while every window has its backbuffer.

`StartupProofs`, for screens of at least one column and two rows, any messages,
any addresses of the stubs within one segment of 64 KiB, any interrupt lines but the
cascade, and any number of interrupts: `ConsoleIntactHolds`, `SerialLossesHolds`,
`InterruptsReturnHolds`, from the invariant `StartInv`. Its parts are where the main
thread can be (`ControlInv`); at which places of `vga_putc` the cursor may have left the
screen, in which coordinate, and what the copies in registers then are
(`CursorInv`: a column past the last one only before the wrap, never together with a row
past the last); what has been set up before each statement, in particular that the
high half of no gate ever changes once interrupts are enabled (`TablesInv`, from
`SegmentAssumption`); that exactly the interrupt being handled is in service
(`ServiceInv`); and what the serial port has lost and may still lose (`SerialInv`): `lost` itself is not
inductive, as a byte is lost only after its interrupt has been counted; to it are added the
requests not yet accepted, a handler at work or a byte of its in the transmitter behind the main
thread's look (`Met`), and the bytes of "Boot" still to be sent (`Owed`). There is one lemma per part and kind of
step. `ServiceInv` types a handler's text over `STRING` with the carriage return added,
because the provers do not know of a literal that it is a string; nothing depends on it.

`MainLoopProofs`, for any script, any number of windows and any user who may move, drag
and release between all statements of the scripted call: `QuietConsistentCorrect`,
`QuietDragCorrect`, `NoNullWriteCorrect`, `MainTypeCorrect`. The properties speak of the
moments at which no call is under way; the invariant `CallInv` says what is true at each
statement inside it. Its parts are the taskbar (`TaskbarAt`: exact, or exact but for the
one window that is on its way into slot `n`, from before `items[n]` is stored until the
counter is), the focus (`FocusAt`: one flag, the pointer behind it by at most the
statements that move both), the window the call works on (`WinAt`: created, not minimized
before the store that minimizes it) and the drag (`DragAt`). There is one lemma per
statement of the main thread and one, `MouseKeeps`, for the events of the user, which
rests on the lemmas of `WindowManagerProofs` about the handler's own functions.
All of this holds as long as the user does not press a button during the call (`disturbed`),
and the type theorem carries that condition as well: with two windows and a taskbar of two
slots, a user who minimizes both windows between the test for room and the load of the counter
makes the main thread store behind the array, as TLC shows. With the program's five windows
and ten slots it takes more presses inside one call than a user can make.

`InputProofs`, for any screen, any packets and any number of scan codes, whatever
times out: `PointerCorrect`, `PacketsCorrect`, `CaseCorrect`, `InputTypeCorrect`. The invariant
follows each byte from the device to the handler. `Requested`: an interrupt is requested
only for the byte in the output buffer. `Answered`: what the controller answers and that each
queue holds bytes of its own device. `Framed`, unless input came early: while the drivers come up
(`ComingUp`) nothing is under way but the answer that the main thread waits for, and afterwards
(`Running`) the tags of the packet bytes received, of the byte in the buffer and of those still
in the mouse follow each other. `InStep`: the scan codes on their way lead, one by one, from
the driver's Shift and CapsLock flags to the user's hands, and each is tagged for the state
in which it will be handled.

`SnakeProofs`, for every grid, every maximal length and any keys at any moment:
`BodyConnectedCorrect`, `FoodFreeCorrect`, `ScoreHonestCorrect`, `NeckSafeCorrect`,
`SnakeTypeCorrect`. While a move is under way the body has a hole: the segments that have been
shifted are a piece, so are those that have not, and the place in between appears in
both; the new head is adjacent to the old one. That the head is free follows from the
collision test, made before the shift on the same body. That the length stays below the
array's, although nothing in `snake_tick` says so for small grids, is the pigeonhole principle
(`SnakeFits`, `GrowthFits`): segments are distinct cells. `NeckSafeCorrect` needs
`AheadBack`: two moves in directions that are not opposite do not lead back.

`AppsProofs`: `TextKeptCorrect`. The text in the buffer is what was typed, terminated, for a
buffer of any size; `NotepadInv` adds that the cursor is the length of the text, so that
neither shift of `notepad_on_key` moves more than the terminator. It assumes that no key is the
character 0 (`AppsAssumption`, the drivers drop it) and that the greeting fits and does not
contain it (`NotepadAssumption`).

`ScreenIntactCorrect`: for screens of every size, messages of any length and handlers that print
at any statement of the main thread, no store leaves its row and every row keeps a terminator
(outside the windows that `torn` marks). `ScreenInv` is stronger: the last column, which
the code never shows, holds a terminator in every row; what the main thread has in its registers
at each statement still fits (`r`, `k`); and where a handler may print, the screen is not about
to scroll, so that the handler leaves it as ready as it found it (`StringKeeps`).
`PromptShownCorrect`: what the shell executes ends in a new line (`EnterKeeps`), so that the next
prompt begins its row; a key puts its character and a terminator behind the line (`Longer`), and a
Backspace moves the cursor over the last one (`Shorter`), so that the row stays what it was: the
command and what is gone from it, put together, are the same as before (`Regrouped`). `terminal_write_string` is a fold, which `Recursion` unfolds character by
character: a fold's table of partial results exists because there is no least text without
one. They assume that the replies of the shell are lines (`TerminalAssumption`, as in `shell.c`).

`CalcImplementsCorrect`: `Calculator` implements `Adder`, for every number of digits. What `int_to_str`
writes `str_to_int` reads (`RoundTrip`), signs and zero included; `CalcInv` says that a number being
entered has no zero before it and lies between two powers of ten, so that the limit on its
characters is the limit on its value (`DigitAdds`). `Digits` and `Tens` are recursive functions:
`Recursion` shows that there are such functions, again because there is no least argument up
to which they do not exist. The numbers are integers: a `long long` is one as long as no sum reaches 2^63,
which takes more than nine thousand operations on numbers of 15 digits.

`FormatsRightCorrect`: what `printf` and `sprintf` print is what the format says, for integers of
any width, formats of any length and every number a type holds. `FormatInv` says that what is
left of the format takes the automaton from where it is to where the whole format takes it from
the start; a step only moves a character from one side to the other. What remains is what a
whole format does (`FormatFed`): there is no least number of pieces for which it prints
anything else, as each piece, fed to an automaton between two directives, appends its meaning,
takes its words and leaves the flags reset, or, in the loader, `number` as it was
(`PieceFed`). A piece is fed its length, then its letter; `NumeralPrinted` is the number: the
digits printed from the remainders are those of the definition, which begins at the highest place, because
there is no least number of which they are not. The two words of a `long long` put together
are its value modulo 2^64 (`TwoWords`), and a negative number is found in its two's complement
(`SignedKept`). It assumes of the callers what no compiler checks (`FormatsAssumption`): a text
contains no percent sign, a number lies in the range of the directive it is passed for, and
each directive has its argument; a `long long` is passed as two words, the lower first. The
alphabet `Glyphs` lists the literal characters next to `STRING`, since the provers do not know
of a literal that it is a string.

`BootProofs`, for every floppy geometry, size of a sector and of the directories, table of open
files, file system without errors and path, and a drive that fails as often as it likes, at any
read. All of it is stated of `PowerSpec`, the loaders and the kernel together.

- `BootTypes`, `Balanced`: from `BootInv`, the types, where a read returns to
  (`ReturnsOK`), that a file stands in a cluster or at its end (`PositionsOK`), and that no handle
  but the one in use is open (`HandlesOK`).
- `Stage2Loaded`: `StageOK` says that what has been loaded are the first clusters of the chain
  and `stage2_cluster` is the next.
- `KernelComplete`, `NullHonest`, `BufferKept`: from `LoadInv`, which says something of files only
  while no read has failed for good and the geometry is right. Its parts: which directory or
  file is in use, what is left of the path, and the entry of the image it belongs to
  (`RouteOK`); cluster, sector and position agree, unless the file has been read to its end
  (`StandOK`); the buffer, or the read under way, is of that sector (`BufferOK`); what `FAT_Read`
  has delivered are the units before the position (`OutOK`), what has been copied those before
  them (`KernelOK`), and none of the entries passed is the one sought (`SearchOK`).
  `ReadMoreLoads` is the core: a step of `FAT_Read` inside a sector, across sectors, across
  clusters, to the end of the file and to the end of a directory.
- The lemmas below are about the FAT (`NextCluster`: 12-bit entries, two in three bytes, whole again),
  addresses (`FoundThere`: CHS and back) and chains (`ClusterSteps`, `ChainEnds`). A chain is a
  recursive function; what it computes is shown by its least counterexample
  (`LeastMember`), which needs no induction rule.
- `KernelFromPower`: the three theorems of `StartupProofs` hold behind the loaders too; it adds
  nothing to them but the way there.

They rest on `DiskAssumption`, `Stage1Assumption`, `ImageAssumption` and `FatAssumption`: the root
directory fills whole sectors (224 entries, `src/bootloader/stage1/boot.asm:19`, are 14 sectors); chains stay
inside the FAT and are as long as their files; a path names a file in the root directory or in
a directory of it, which is what `start()` opens. No theorem speaks of a damaged file
system, of which the code checks nothing.
`PowerTypes` puts the types of both halves together; a handler's text and its interrupt come from
`StartInv`.

The assumptions are weak: sizes are natural numbers, a taskbar slot for every
window (10 and 10 in the code), a RAM whose accounting does not wrap.

Only model-checked is liveness (`CallReturns`, `BufferDrained`, `Stops`), which is out of reach
of the prover. Every other property of a passing run, the two refinements among them, is stated by a
theorem.

## Not modelled, and why

Painting, fonts and wallpaper have no state but pixels. Nor is it modelled that a
window without a backbuffer would be painted through `NULL`: the five windows
take 1.1 MB of 32 MiB, and no allocation fails. `wm_handle_key_event` and `wm_tick` call
the applications and change nothing of their own. Which character a key stands for is not
modelled, only whether it is plain, shifted or in capitals. The hardware cursor of the text screen
is written and never read. GDT and mode switches have no changing state. The
string functions are used through their meaning. The host tool is a copy of the stage 2
driver. `kmalloc`, `i686_PIC_Mask`, `i686_PIC_Disable` and `print_buffer` have no caller.

## Plan

Done, in this order: `Memory`, `WindowManager`, `Desktop`, their proofs, `MainLoop`,
`Snake`, `Input`, `Disk`, `Stage1`, `Fat`, `Boot`, `Terminal`, `Notepad`, `Calculator`,
`Apps`, `Startup` with its proofs, `PowerOn`, `Printf`, `TaskManager` with its proofs, the
proofs about `Snake`, `Input`, `MainLoop`, the loaders, the applications and `printf`. What
would come next:

- an abstract file for `Fat` (`Open`, `Read` returns the next units, `Close`), which
  a driver without failures implements.
