# openYanase kernel: TLA+ models, checks and proofs

A verification project for the openYanase kernel, a small 32-bit x86 kernel in C
and assembly: multiboot entry, a VGA text shell, a heap, an initial ramdisk, an
ISO 9660 reader, a Java class-file interpreter and a graphical mode with a mouse
pointer. All state lives in global variables; there are no threads. What is hard
in it is that **interrupt handlers share those variables with the main program
without disabling interrupts**, and that several pieces of hardware (two 8259
interrupt controllers, the 8042 with a single output buffer, the VGA adapter's
cursor registers, an ATAPI drive) keep state of their own. The other hard part is
**parsing without checks**: a ramdisk, a disc, an archive and a class file are
walked by lengths that they carry themselves.

Every definition of a model is translated from the source; `PROJECT.json` names
the lines under `map`. Line numbers below are relative to `src/src/`.

## 1. Inventory

### Components, their state and operations

| component | source | state | operations | model |
|---|---|---|---|---|
| kernel heap | `memory/heap.c` | block list `free_list` in the arena | `heap_init`, `kmalloc`, `kfree` | `Heap`, `Allocator` |
| shell | `keyboard.c`, `main.c:243-515, 757-779` | `shell_buffer`, `shell_ptr`, `command_ready` | `keyboard_handler` (IRQ 1), main loop, `execute_command` | `Shell`, `LineDiscipline` |
| interrupt delivery | `interrupt.S`, `cpu/idt.c`, `main.c:669-681`, `drivers/mouse.c:154-158` | the two 8259s, gates | `pic_remap`, three wrappers, end of interrupt | `Pic` |
| VGA text console | `vga_buffer.c` | cells, `cursor_x`, `cursor_y`, adapter's cursor | `vga_putc`, `vga_puts`, `vga_backspace`, `vga_clear`, `vga_scroll`, `update_cursor` | `Console`, `Terminal`, `ConsoleRace` |
| PS/2 mouse packets | `drivers/mouse.c:101-158` | `mouse_x`, `mouse_y`, `mouse_cycle`, `mouse_byte`, `mouse_buttons`, `mouse_updated` | `mouse_handler` (IRQ 12) | `Mouse` |
| 8042 set-up | `drivers/mouse.c:24-86` | command byte, output buffer (hardware) | `init_mouse`, `mouse_wait`, `mouse_read`, `mouse_write` | `I8042` |
| graphical pointer, bitmaps | `main.c:372-429, 449-490`, `graphics/vesa.c`, `graphics/cursors.c`, `graphics/bmp.c` | `back_buffer`, `vesa_mem`, cursor image, save buffer, last position | image and cursor decoding, GUI loops, save / restore / draw / flush | `Pointer`, `Bitmap` |
| initial ramdisk | `fs/initrd.c` | `initrd_addr`, `initrd_size` | `initrd_init`, `initrd_list`, `initrd_read_file` | `Initrd`, `Files` |
| configuration | `main.c:175-239` | none | `parse_yanase_config` | `YanaseConfig`, `Files` |
| ISO 9660, ATAPI | `fs/iso9660.c` | `current_atapi_base`, `fs_ready`; the drive's phases | `iso9660_mount`, `atapi_read_sector`, `iso_list_directory`, `iso9660_read_file` | `Atapi`, `Iso9660`, `Files` |
| bytecode interpreter | `runtime/bytecode.c`, `runtime/bytecode.h` | `stack`, `sp`, `locals`, `pc` | `execute_bytecode`, `push`, `pop`, `handle_native_call` and the natives | `Interpreter`, `Jvm`, `ClassFile` |
| class files, JAR | `runtime/jar.c` | constant pool on the heap | `jar_execute`, `jar_scan_entries`, `jar_find_entry`, `parse_manifest_for_main`, `class_execute`, `parse_constant_pool` | `Jar`, `ClassLoader`, `Files` |
| GDT, entry | `gdt.c`, `entry.S` | descriptors | straight-line set-up | left out |
| framebuffer text | `graphics/vesa.c`, `font.S` | glyphs | draws nothing, as no font is ever loaded | left out |
| OpenGL stubs | `graphics/opengl/` | - | no caller | left out |
| memory functions, echo, video registers | `lib/strings.c`, `applications/echo.c`, `io.h` | - | primitives; `app_echo` and `vga_switch_to_text_mode` have no caller | left out |

No command reaches `shell_input`, `parse_init_yc`, `load_system_config`,
`vga_switch_to_text_mode`, `app_echo`, `test_opengl_ui` and `vesa_render_frame`;
they are not modelled.

### Interaction

* The keyboard interrupt writes `shell_buffer`, `shell_ptr` and `command_ready`
  and **echoes through `vga_putc`**, whose variables the main loop uses as well.
* The main loop polls `command_ready`, sleeps with `hlt`, reads `shell_buffer`
  in place while the handler may still write to it, and resets both variables
  after the command.
* `startx` and `imgview` call `init_mouse` with interrupts on; then the GUI
  loops poll `mouse_updated` and read `mouse_x` and `mouse_y` that the mouse
  interrupt writes.
* Keyboard, mouse and controller answers go through one 8042 output buffer;
  both handlers and `init_mouse` read it without asking whose byte it is.
* All interrupts pass the 8259s; `mouse_handler` and its wrapper both
  acknowledge them.
* `class_execute` is the heap's only caller.
* `kernel_main` takes the ramdisk from the boot loader, reads `init.yc` from it
  and scans for a CD-ROM drive, all with interrupts off; then `ls`, `cat` and
  `java` use ramdisk and disc. The drive works while the driver polls.

### What is hard, and what correctness means

| component | hard behaviour | property |
|---|---|---|
| heap | split and join rewrite the list by hand; long call sequences; loops over stored pointers | the list tiles the arena, stays coalesced, calls return, nothing is handed out twice, nothing refused while room is left |
| shell | keys during the scan of the line; flag and buffer reset after the command; test of the flag and `hlt` are two steps | no scan leaves the buffer, no command that was not entered, a line wakes the loop, a waiting user's lines run as typed |
| interrupts | doubled and misdirected end of interrupt, stray interrupts, ten-write set-up with firmware state left over | each device reaches its handler, no line stays blocked, every request is delivered |
| console | wrap, scroll and erase in combination; echo in the middle of `vga_putc` | screen = end of the printed text; cursor returns to the screen; no store outside the window |
| mouse | signed nine-bit movements; a lost byte | the movements made are those reported; the handler finds the packet start again |
| 8042 set-up | handlers take the bytes `init_mouse` polls for | the mouse is on afterwards, the keyboard and the rest of the command byte untouched, and `init_mouse` returns |
| pointer, bitmaps | coordinates change between reads; save/restore areas overlap; two geometries; rows padded and upside down | the picture as its file has it, no trace left, a resting pointer is shown where it rests |
| ramdisk | steps computed from octal sizes; two different tests for the end; data that look like a header | every member is listed, the first one of a name is read, whole |
| configuration | line ends of both kinds, long and empty lines, no last line end | the settings are those of the lines, read one by one |
| disc | bounded waits whose result is ignored; a drive that is late, refuses, is the slave or is not there; directories of several sectors | sectors come whole or the drive was at fault, trouble does not last, the drive is found, every command returns |
| class files, JAR | two-slot and unknown constants, early ends, compressed entries, entries without sizes | `java` runs the main method and nothing else, the pool is released once on every way out |
| interpreter | branch distances counted in bytes, operand order, division and shifts of negative numbers; an array without bounds tests; skipped instructions; names without an end | every step is the one a compiler expects; the stack stays in its array and `pc` on the opcodes |

`PROJECT.json` lists every hazard at its line, those that no property covers
with the reason.

## 2. The modules

**`Heap`** (with `MCHeap`). `hdr` maps the addresses of block headers to
`[size, free, next]`; the free list is followed by address as in C. One action
per loop iteration: `kmalloc` starts the walk, `ScanNext`, `TakeBlock` (with
`Split`), `OutOfMemory`; `kfree` marks and starts the second walk, `MergeJoin`,
`MergeNext`, `MergeDone`. `SLACK` is the literal 4 of `heap.c:25`, `HDR` the
size of a header. `kfree` is called with what `kmalloc` returned and nothing
else, as `class_execute` does. Sizes do not wrap: the arena has 4 MiB
and the code's sums of two sizes stay far below 2^32 for requests its caller makes.

**`Allocator`** is what callers may rely on: live blocks, `Grant`, `Refuse` only
when no contiguous room is left, `Release`. `Heap` implements it with
`live` = the payloads of the headers marked used, `request` = the size sought.

**`Shell`** (with `MCShell`). Handler actions `KeyEnter`, `KeyBackspace`,
`KeyChar` may fire between any two steps of the main loop; main steps are
`PollReady`, `PollIdle`, `Hlt`, the scan of the line (`SkipBlank`, `SkipDone`),
the chain of prefix tests (`Mismatch`, `Match`, `NoMatch`), then, according to the
command's kind, `Return`, `StayForever` (`startx`, `imgview`), `PowerOff`,
`Reboot`, and the two resets `ResetPtr`, `ClearReady`. The command
table is a constant: the order of the `if` chain matters, its texts do not. Two
history variables are not in the code: `owed` counts Enters minus commands taken
up; `user` says whether a key came while the shell was busy.

**`LineDiscipline`** is the abstract shell: a line is typed, erased, entered and
executed as the first command it is a prefix match of. `Shell` implements it
for the stretches in which `user = "patient"`.

**`Pic`** (with `MCPic`). The bytes `pic_remap` and each handler writes, in
program order, run against the two chips: initialisation words, mask register,
non-specific end of interrupt, nested priorities, cascade. `PicInit` lets the
firmware leave any masks and requests. `idt` maps vectors to handlers.

**`Console`** holds the operators of `vga_buffer.c` on a record of cells and
cursors. **`Terminal`** (with `MCTerminal`) composes them as the kernel does: printing, clearing,
prompting, keys at the prompt, each call whole. **`ConsoleRace`** (with `MCConsoleRace`) cuts
`vga_putc` into its loads, stores, tests and port writes and lets `Key` (a
whole echo, interrupts being off in a handler) come in between.

**`Mouse`** (with `MCMouse`) is the packet state machine with a device that reports
movements and a link that may lose bytes.

**`I8042`** (with `MCI8042`) EXTENDS `Mouse` and sets up the controller: `init_mouse` one port
access per action, `KeyboardHandler` and `MouseHandler` in between, the output
buffer with the byte it last held. Controller and devices are external. Whether
a request is forgotten when its byte has been read by polling differs
between machines and is a nondeterministic choice.

**`Pointer`** (with `MCPointer`) EXTENDS `Mouse` and models the start-up and the loop of
`startx`/`imgview` (they differ in the size of the flushed region, the constant
`REGION`) over the pixels of the back buffer and the
framebuffer, the mouse interrupt between any two accesses to what they share.
`Init` stands for everything up to `main.c:397`: the cursor is decoded from
`cursor.bmp` or taken from the default, and `imgview`'s picture is drawn.
**`Bitmap`** holds the decoding of `bmp.c` on sequences of bytes, next to the
encoding a paint program uses; each pixel of the picture has a colour of its
own, so a displaced background or row shows.

**`Interpreter`** (with `MCInterpreter`) executes compiled methods as the code
does, on byte addresses: `pc` runs through opcodes and operand bytes, the stack
is an array with an index that nothing tests, arithmetic wraps. A method is a
sequence of instructions that hold what their constant-pool entries lead to; a branch
carries the distance in bytes, a call the byte that lies behind its names in the
class file, because `handle_native_call` needs a NUL there. One action per group of `switch` cases and per
native. `plain` is a history variable: it says that no instruction has been
skipped so far. Calls through an object, calls of methods that are not
found, opcodes without a case, and `println(String)` are skipped by the code.
**`Jvm`** is the machine a compiler has in mind: numbered instructions, the
stack a sequence, quotients and remainders by their defining equation.
`Interpreter` implements it step by step, with the stack's lower part as the sequence
and the instruction at `pc` as the next one. **`ClassFile`**
holds what both need of the class-file format, among it the verifier's rule
(one stack depth at each instruction), which selects the methods that are run. An
address is the number of bytes before it, so that it can be reasoned about without recursion.

**`Files`** (with `MCFiles`) composes the modules below as `kernel_main` and the commands
`ls`, `cat` and `java` do. Its `Init` chooses one of the machines of
`Worlds`: the boot modules, the ramdisk's members, what is plugged in where, the
disc, and the commands that may be entered. The main program is sequential;
what interleaves with it is the drive. A read-only walk over memory is one
step with a recursive function, a polling loop one step, a word transferred to
or from the drive one step, an iteration of the class loader one step.

* **`Initrd`**: the walks of `initrd_list` and `initrd_read_file` from header to
  header, in blocks, with octal sizes, over archives as `tar` writes them (the format is
  external: `Archive`). A block of data is a possible header, too.
* **`YanaseConfig`**: `parse_yanase_config`, character by character.
  `Settings` says what it is to report.
* **`Atapi`**: the scan for a drive and `atapi_read_sector`, access by access,
  against the drive's phases `idle`, `reset`, `prepare`, `packet`, `busy`,
  `data`. A drive may refuse any command, come later than any wait lasts, or be
  absent (an empty bus reads as all ones). `trouble` is a history variable:
  2 after a wait that has run out, 1 after a refusal, one less at each further read.
* **`Iso9660`**: `find_file_record`, `iso9660_read_file` and `iso_list_directory`
  on top of it, one action per sector that comes back. `sound` is a history variable:
  no sector of this call was read in trouble.
* **`Jar`**: the local headers, the manifest's lines, the name of the class file.
* **`ClassLoader`**: `class_execute` with `parse_constant_pool`, one action per
  loop iteration, over the heap's promise `Allocator`, so that the proof that `Heap`
  implements it closes the gap to `kmalloc`. `ran` is a history variable: the code handed
  to `execute_bytecode`.
* **`Text`**: characters as numbers, the comparisons of `main.c`, lines.

**`HeapProofs`**, **`FilesProofs`** and **`InterpreterProofs`** hold the theorems about
the module they are named after, **`InterruptProofs`** those about `Pic` and `Shell`,
**`ConsoleProofs`** those about `ConsoleRace` and `Terminal`, **`MouseProofs`** those
about `Mouse`, `I8042`, `Bitmap` and `Pointer`; `FilesProofs` covers all that `Files`
is composed of. **`FormatProofs`** holds the lemmas about what the code reads of a
ramdisk, a configuration file and a JAR archive (`Initrd`, `YanaseConfig`, `Jar`: functions of
the data, without a state), **`Induction`** those that several of these share: see section 5.

Definitions headed "Mutant" are plausible bugs of the definition that follows them.
Nothing uses them; replacing the definition by its mutant must break a property.

## 3. The runs

| run | checks | bounds and why they are enough |
|---|---|---|
| `heap` | `TypeOK`, `Tiling`, `Coalesced`, `IInv`, `ImplementsAllocator`, `CallsReturn` | arena of 15 bytes, header 2, slack 1, requests 0..4: up to six blocks, so splits, exact fits, refusals, and joins to the left, right and both sides all happen; the proofs cover every size |
| `shell` | `TerminatorAhead`, `NoPhantomCommand`, `IInv`, `WakesForLine`, `FollowsDiscipline` | buffer of 4 cells, two letters and the blank, five commands of all kinds with one a prefix match of others; `MaxOwed` = 2 Enters outstanding: one more than the flag can hold |
| `pic` | `PicTypeOK`, `WorkingLinesFree`, `OwnHandler`, `Delivered` | timer, keyboard, mouse, both disk lines; all masks and requests at the start |
| `terminal` | `TerminalTypeOK`, `ScreenShowsPaper`, `CursorBehindText` | 4 rows of 5, ten characters and ends of rows (`MaxPrinted`), two characters that nothing tells apart (symmetry): wraps, scrolls and does both at once, in output and in a line being edited; lines are erased back over the left edge of the last row and of the row above it |
| `console_race` | `TypeOK`, `RestInBounds`, `StoresInWindow` | 3 rows of 5 in a window of 35 cells, in the proportion of the adapter's memory; any number of echoes |
| `pointer` | `TypeOK`, `NoTrace`, `PointerFollows`, `MovesAsReported` | 4 by 3 pixels, cursor 2 by 2 with a transparent pixel; a picture larger than the screen with padded rows, or none; a cursor file of the right size, of another size, or none; a small step and one beyond every edge with the largest negative value, one lost byte; `EarlyMotion` = FALSE and equal geometries, see below |
| `interpreter` | `TypeOK`, `StaysInside`, `FollowsJvm` | ints of 4 bits, so that sums, products, shifts and negation wrap; a stack of three, which `drawPixel` fills; two locals. Methods: the loop of `assets/test.jar` with smaller numbers, every operation on 36 pairs and every comparison on pairs of all signs, all verified methods of three instructions over an alphabet of twenty, a pixel left of the screen, and four with skipped instructions. Calls have names that end in a NUL, and the archive's loop also runs with names as compiled |
| `i8042` | `SetupTypeOK`, `MouseOn`, `InitReturns` | two command bytes the firmware may leave, press and release of Enter (the key that started `startx`), two keys during set-up |
| `files` | `TypeOK`, `WholeSector`, `MountFinds`, `Balanced`, `ReadsSettings`, `ListsAll`, `CatShowsFile`, `JavaRuns`, `CommandsReturn` | 92 machines, each with up to three commands, entered in any order and as often as one likes: see below |

The bounds of `files` keep proportions, not sizes. A sector has four words and a
packet two, so that a file and a directory take two sectors and a packet can be
torn between two reads. A block holds four units, and some files fill one
exactly, some not. A line of the configuration keeps four characters
(`LineMax`), a line of the manifest eight (`ManifestMax`), a class name six
(`ClassMax`): longer lines and a name of just that length occur. The pool
is limited to eight entries (`MaxPool`) and the heap to eight with its header, so that pools of seven, eight and nine are accepted,
refused by the heap, and refused by the loader.

The machines: seven with the drive master or slave of a bus, absent, or without a
boot module, and a directory in which one name is the beginning of another; five
configuration files; six classes (a constant with two slots, overloaded `main`
without code, no `main`, an unknown constant, two pools too large); every proper
beginning of a class file; and ten archives (stored, compressed and streamed
entries in different orders, an empty streamed one before the manifest, lines that
are cut, a manifest that does not end with a line's end, none at all).

Three runs show where the code does something else than its comments say
(`findings` in `PROJECT.json`; TLC gives the shortest trace):

| run | property | what happens |
|---|---|---|
| `pic_stray` | `StrayAcknowledged` | a stray slave interrupt is "acknowledged" by a write to the mask register 0xA1 (`interrupt.S:58`): it stays in service and line 13 is masked |
| `natives` | `CallsNatives` | the loop of `assets/test.jar` skips its first call, `Screen.clear`: `handle_native_call` compares C strings (`bytecode.c:82`), but in the class file the tag of the next constant lies behind a name (`jar.c:76`) and no NUL. So no native is found for any class a compiler writes |
| `mouse_loss` | `Resynchronises` | after one lost byte, a steady movement whose bytes have bit 3 set is misread for ever (`mouse.c:114`) |

Deadlock is checked except where the system may stop: in `shell` (power off),
in `interpreter` (the method returns)
and in `i8042` (when a scancode was written back as the command byte, keyboard
and mouse are both silent for good).

### Scope of some passing properties

* `NoTrace` holds if the framebuffer has the size the drawing code assumes and
  the mouse rests until the loop is reached. With `Width` different from
  `SCREEN_W` (`vesa.c:270, 315`), or `EarlyMotion` = TRUE
  (`main.c:402-406, 463-467`), TLC finds it violated.
* `ScreenShowsPaper` says what a key that erases at column 0 does, not what it
  should do: `vga_backspace` assigns the last column to `cursor_y` where it means
  `cursor_x` (`vga_buffer.c:31`), so the blank lands below the screen, the screen
  scrolls and the character stays. On the paper these are empty rows (`FeedOn`). The
  property says that nothing else happens, however often such keys come. The
  main program's own output erases only on the row of the cursor.
* `CursorBehindText` allows the lag of one column that `vga_backspace` leaves,
  since it tells the adapter before its last step (`vga_buffer.c:38-47`).
* `StoresInWindow` allows a store below the last visible row: an echo between
  the newline and the scroll test is stored there and not shown.
* `FollowsDiscipline` speaks of lines in which no key comes while the shell is
  busy. A key between Enter and the choice of the command edits the line that
  was entered, and a line entered during a command is dropped by the reset
  (`main.c:768-769`).
* `MouseOn` speaks of a set-up during which no key is pressed. It holds even if
  the handlers take every answer, because the data port returns the last byte
  again. The mouse handler may take an acknowledgement `init_mouse` polls for and
  count it as the first byte of a movement (0xFA has bit 3 set, `mouse.c:80-85, 114`); the
  model shows that, no property forbids it.
* `NoTrace` does not forbid that the coordinates read at `main.c:416-417` mix two
  places: the mouse interrupt may come between the two reads, whatever the comment at
  `main.c:415` says. The mixed place is drawn, left without a trace at the
  next redraw, and `PointerFollows` says that this redraw comes.
* `StaysInside` and `FollowsJvm` speak of methods up to the first skipped
  instruction. Behind it the stack is out of step with what the compiler
  computed (`bytecode.c:89, 200, 210`), and nothing stops `sp` at either end of
  the array; the states "corrupt" and "lost" are reached by the methods the run
  contains for this purpose.
* `FollowsJvm` says what happens when natives are found, that is, for class files
  whose names end in a NUL of their own (run `natives` shows the others). Coordinates
  given to `drawPixel` are cut to 16 bits (`bytecode.c:49`): a pixel left of the screen
  is not drawn where Java says. The first attempt to prove `FollowsJvm` failed there,
  as no method of the run did it; the property now excludes that call
  (`InScreenRange`), and a method of the run makes it.
* A method's local variables have numbers below 64 (`Compiled`), as those of a small
  method have: `execute_bytecode` does not test them (`bytecode.c:130, 137`).
* All entries of `assets/test.jar` are compressed and have their sizes behind their data, so
  that `java` finds no class in it (`JavaRuns`); its class by itself can be run.
* `ListsAll` and `CatShowsFile`, for the disc, speak of a drive that
  is the master of its bus: the scan finds a slave as well (`MountFinds`), but
  `atapi_read_sector` always selects the master (`iso9660.c:25`). `WholeSector` says
  that nothing of a slave's disc is then read. For a master it excludes the
  sector a drive refused and, after a wait that ran out, the next one
  too; that trouble ends there is what it says.
* `CatShowsFile`: on the disc only the first sector of the root directory is
  searched (`iso9660.c:84`), and a name matches every argument that begins with
  it (`iso9660.c:64-69`). The property says which file is shown for
  every argument, so also that a file behind such an entry is not.
* `ReadsSettings`: the last character of a file without a final line end is lost
  (`main.c:188`), and keys match by their beginning.
* `JavaRuns` leaves out pools with a constant of a kind the parser does not know
  (method handles and the like): parsing then stops in the middle of the pool
  (`jar.c:104`) and only `Balanced` and `CommandsReturn` hold. An archive
  entry whose sizes stand behind its data hides the entries after it. Behind the
  end of a class file the model reads zeros.
* `CommandsReturn` takes the execution of a method for one step (`ran`): a Java program
  that loops, or divides the least int by -1, holds up the `java` command, and
  `Interpreter` is the model of that.
* Not among the inputs: ramdisk members of 4 GiB, disc files that do not fit
  the 8192 bytes of `cat` (`main.c:298`), directory records longer than the 34
  bytes copied at `iso9660.c:93`, class names of more than about 120
  characters (`jar.c:249`).
* The least int divided by -1 traps on the processor; the model stops before it.
* In `I8042` the input buffer is ready before `mouse_wait(1)` gives up, and an
  answer comes before `mouse_wait(0)` does.

## 4. Fairness

* `Heap`: `WF(Loop)`; a call that has begun is executed on.
* `Shell`: `WF(Main)` and `WF(Timer)`; the processor runs, and the timer, unmasked by
  `pic_remap`, ticks: `WakesForLine` needs it, as `hlt` may be reached with
  the flag up. Nothing is assumed of the user.
* `Pic`: `WF(Processor)`; nothing of the devices.
* `Pointer`: `WF(Gui)`; nothing of the mouse. `PointerFollows` is about a
  pointer that comes to rest.
* `I8042`: `WF` of each device's answer and of the handlers, `SF(init_mouse)`:
  handlers are much shorter than the time between two bytes, so the
  interrupted program gets on between them.
* `Files`: `WF(Work)`, the processor goes on with what it has begun. Nothing is
  assumed of the drive, which may fall silent in any phase, nor of the user.
* `Mouse`: `WF(Deliver)`, for the counterexample of `mouse_loss` only: the
  device goes on sending and the handler goes on reading.

## 5. What is proved

The theorems hold for all values of the constants that satisfy the named assumptions
of the modules, and for every length of behaviour; the bounds of the models
(`MaxOwed`, `MaxLost` and the like) are constants among the others. Two theorems
have a hypothesis of their own, which is named below: `WorkingFree` and
`PointerLeavesNoTrace`.

**`Induction`** makes recursion provable. The library's induction theorems take an
operator as a parameter, which no installed prover can instantiate; these lemmas take
sets and functions. `LeastNumber` gives every non-empty set of numbers a least member,
from which `ByNumber` and `ByRank` say that a set closed under a step is everything;
`Recursion` says that a recursive function of the shape all walks of the model have (stop,
or one step and go on at a place of lower rank) exists and satisfies its equation, as a
`CHOOSE` alone does not. On these rest the lemmas about `FlattenSeq` (what it yields at
which place: `FlattenedAt`, `Starts`), quotients (`DivideNat`, `OnlyQuotient`), pieces of
sequences (`Between`, `TwoParts`), what lies where in a file that is put together of parts
(`Lies`, `LieBehind`, `LieInFlat`), `Min` and `Max`.

**`HeapProofs`**, from `HeapAssumption` (a non-empty arena with room for one header,
positive header size):

* `HeapInvariant`: `Spec => []IInv`. `Tiling` alone is not inductive: joining needs
  that the next pointer is the neighbour, the refusal of `OutOfMemory` needs to know
  that all blocks were looked at, and `Coalesced` is false in the middle of `kfree`.
  `IInv` adds `ScanSeen` (the blocks the walk has passed do not fit) and `MergeSeen`
  (no two free neighbours behind the merge pointer). The lemmas follow the actions:
  `SplitInductive`, `TakeWholeInductive`, `FreeInductive`, `JoinInductive`, put
  together in `StepIInv`. `HeapTyped`, `HeapTiled` and `HeapCoalesced` are its
  parts.
* `HeapRefinesAllocator`: `Spec => Alloc!Spec`. Granting uses that blocks are
  disjoint; refusing uses `NoRoom`: in a coalesced tiling, every stretch that is
  clear of used blocks lies in one free block, which the walk has found too small.
  Joining and walking are stuttering steps.

**`InterruptProofs`**, of `Shell`, from `ShellAssumption`, for every buffer length,
character set and command table:

* `ShellInvariant`: `Spec => []IInv`. What makes it inductive: the last cell is
  never typed into (`keyboard.c:40` stops one short), and a flag the loop has not
  yet seen stands for a line still owed. `ScansStayInside` and `NoCommandUnasked`
  follow from it.
* `ShellFollowsDiscipline`: `Spec => FollowsDiscipline`, step by step onto
  `LineDiscipline`. The invariant `LineInv` says, for a patient user, that the line
  ends where it was entered, that the blanks skipped are its first ones, that the
  commands tried do not match and that the index is still 0 at the second reset.
  `MatchIsPrefix` shows that `vga_strncmp` in the buffer is the prefix test on the
  line, because the terminator is no character of a command; `MeaningFound` that
  going through the chain finds the first such command.

Of `Pic`, for every set of interrupting lines:

* `PicInvariant`. `PicInv` says how far each chip's initialisation is after *k* of
  the ten writes, whatever masks, services and vectors the firmware left, and, in a
  handler, which of its writes are left and what is still in service on the master.
  `PicTyped` is a part of it.
* `MasterFree`: back in the main program, nothing is in service on the master, also
  after stray interrupts. `EntersOwnHandler` is the action property `OwnHandler`.
* `WorkingFree`: `WorkingLinesFree` under the hypothesis that none of the lines 8 to
  11 interrupts: nothing in the kernel uses them, and a stray one would stay in
  service, as `pic_stray` shows for the lines of the disks, and outrank the mouse
  for good. The strengthening `SlaveInv` keeps the mouse's line in service only
  until its handler's first write.

**`ConsoleProofs`**, from `ConsoleAssumption` (wider than high, and a window of
at least `W + 2` rows) and any number of register values:

* `RaceInvariant`. The inductive invariant `Race` says for each place in `vga_putc`
  how far off the screen the coordinates can be, given that a key may come at that
  very place: the column equals the width only between its increment and its test;
  the row passes the height only before its own test; an echoed backspace meeting
  column 0 may throw the row to the last column's number.
* `RaceTyped`, `CursorRests` (`RestInBounds`) and `StoresStayInside`
  (`StoresInWindow`) follow.
* `TerminalTyped` (`TerminalTypeOK`) of `Terminal`. The invariant `Paged` needs
  little: the cursor is on the screen between calls, and only printed characters are
  in the cells. The work is in the lemmas about the driver's functions, which both
  specifications share.
* `PaperShown` (`ScreenShowsPaper`), with input lines as long as they
  come. `paper` is a history variable: all rows printed since the last clear, which no
  action reads but the bound and the property. The argument is the relation `Rolls`
  between a screen and the paper from row `g` on, which also holds between the parts of
  `vga_putc`, when the cursor is a column or a row too far: storing, wrapping and
  scrolling each keep it (`RollsChar`, `RollsNewLine`, `RollsWrap`, `RollsScroll`), with
  `g` one larger after a scroll, and so do both ways of erasing on a row (`RollsErase`,
  `EraseTidy`) and the one at its left edge (`EdgeTidy`; `Fed` says that the
  empty rows show nothing). `Tidy` adds that nothing has left the screen unless the cursor is on its
  last row, from which `g` is the number of rows that `ScreenShowsPaper` counts. It
  takes `TerminalAssumption` too: what is shown is neither a new line nor a backspace,
  the characters the switch of `vga_putc` treats apart (`vga_buffer.c:79-92`).
* `AdapterFollows` (`CursorBehindText`), from the same invariant `Sheet`: an erasure
  leaves the cursor a column short of the right edge, so the adapter's, one further,
  is on the same row; and a line is edited below the row of the prompt's new line, so
  its left edge is never that of the first row.

**`MouseProofs`**: `MouseInvariant`, for every screen size, set of movements
and number of losses: the position stays on the screen, and as long as no byte is
lost, handler and device are at the same byte of the same packet and the bytes kept
are the packet's. `Decoding` shows that the nine-bit numbers are read as the device
sent them.

Of `I8042`, for every command byte the firmware leaves and any keys:

* `I8042Typed`, `I8042Invariant`; `SetUpSucceeds` (`MouseOn`) and `MouseReports`.
  The invariant `SetUp` splits into `Told`, true whatever is pressed (the two
  commands to the mouse are sent in their order, whoever takes the answers), and
  `Followed`, true while no key has been pressed: the controller's answer is the
  only byte in the machine, and the data port returns it even after a handler has
  taken it.

Of `Bitmap` and `Pointer`, for every screen, cursor and picture size, from
`RamdisksAssumption` (what lies in the ramdisk are pictures of 24 or 32 bits, `IsImage`):

* `BitmapReadBack`: decoding a bitmap file gives back, pixel by pixel, the picture it was
  made from. `RowHolds` finds a pixel in its padded row, `EvenStarts` the row in the file,
  and `PixelHolds` puts three bytes together again.
* `PointerMoves`: `MovesAsReported`, under the graphical loops (`PointerMouse`
  carries the mouse's invariant over).
* `PointerTyped` (`TypeOK`): it rests on `BitmapReadBack`, as what is drawn comes from
  the files.
* `PointerLeavesNoTrace`: `NoTrace`, under equal geometries
  (`Fits`) and a mouse that rests until the loop (`~EarlyMotion`); without either
  TLC finds it false (section 3). The invariant `SceneInv` says for
  each place of the loop which pixels of the back buffer and of the framebuffer show
  the picture, the cursor at the old and the cursor at the new position, and that
  the saved area is the picture behind the cursor.

**`FilesProofs`**, for every machine, disc and sector, packet, block, line and pool length.
The assumptions say what a ramdisk, a disc and a command are: `InitrdAssumption` (a size
that fits a word fits the octal digits of a header), `WorldsAssumption` (a member's size can be
counted, names are sequences of characters, `IsDisc`: there is a root directory, records lie in one
sector, names have no NUL), `TextAssumption`, `ConfigAssumption`, `IsoAssumption`; for `java`,
`JarAssumption`, `ClassAssumption` and `ProgramsAssumption` (a member is a text, a class as a compiler writes it, an
archive, or the units of a damaged file; no other file begins like an archive, no text
like a class; the line of the manifest that names the class, and the name, fit what the
parser keeps).

* `FilesWhere`: main program, driver and loader are never in places that do not go
  together. Everything else here builds on it.
* `PoolReleased` (`Balanced`), for every class file, well formed or not: the loader
  holds one block exactly in the loops between `kmalloc` and `kfree` (`Held`).
* `ScanFinds` (`MountFinds`): as long as no wait has run out, the positions passed
  hold no drive (`Scanned`).
* `SectorsWhole` (`WholeSector`). `DiscPressed` shows that a disc laid out from any
  entries consists of whole sectors. The inductive invariant `Served` has two layers: with `trouble` at most
  1 the drive can be in a phase from which the driver's access does not make it
  worse (`Calm`); with `trouble` = 0 phase, packet, buffer and words left fit the
  driver's place exactly (`Exact`), so that what is in the buffer and what the drive
  still offers make up the sector. For a drive that is a slave, `Unserved` says that the master
  stays selected through the read and that all words gathered came from no drive.
* `FileRead` (`CatReadsDisc`): what `iso9660_read_file` hands to
  `cat` is the file on the disc. It joins the driver to the reader: `SectorsWhole` gives
  each sector (`SectorBack`), and `Progress` says of every place of the reader which
  sector it waits for and that the words gathered are those of the file's first sectors.
  `PlaceInFile` and `Rounding` are the arithmetic of sectors and places. Which records a
  sector holds (`Records`) stays as it is defined, and nothing is claimed of a record
  without a numeric size and place.
* `SettingsRead` (`ReadsSettings`): the settings are those of `init.yc`, for every
  ramdisk and every text. `RamdiskRead` joins `SizeRead` (the octal field gives back the
  size), `HeaderNext` (from one header the walk gets to the next, over data blocks that may
  look like headers) and `Pieces` (the blocks put together are the file); `SettingsAre`
  is an induction over the text, from its end: what the parser, which keeps a line
  as it goes, still reports is what the lines from here on say.
* `AllListed` (`ListsAll`): what `ls` prints of the ramdisk are all its members
  (`RamdiskListed`). Of the disc, the invariant `Listing` says that the records
  gathered are those of the directory's first sectors, in order: `DiscLaid` finds each
  sector on the disc, `RecordsRead` shows that stepping from record to record gives a
  sector's entries, whatever their lengths.
* `CatShown` (`CatShowsFile`): `RamdiskSearched` for the ramdisk; for the disc `NameMatches`
  (comparing up to `;` with the NUL included is comparing the name without its version),
  `FileLaid` (an extent starts behind all files before it) and `TextsOf` join
  `FileRead` to the text of the file.
* `JavaRun` (`JavaRuns`): `java` runs the main method of the class that is meant, and
  nothing else. It has three parts.
  *The archive* (`FormatProofs`): `JarIsLaid` says at which place each entry lies,
  `JarEntriesAre` that the walk over the local headers finds the entries in order, up to
  the first one whose sizes stand behind its data - there it stops in that entry's data,
  which does not begin like a header -, `StoredRead` that an entry's data are the stored file. `ParseIs` is an
  induction over the manifest, character by character: `StandsFor` says of the line kept
  so far which line of the text it is the beginning of, and that the value of the first
  line with the key is what is reported (`LinesKept`: that line and its name are not cut).
  *The class file*: `ClassIsLaid` and the three lemmas behind it (`EntriesLie`, `FieldsLie`,
  `MethodsLie`) say where each constant, field, attribute and method stands. The invariant
  `Executing` says for each loop of the loader where in that layout it is and what it
  has found: in the pool, that the constants up to here are stored under their numbers
  (`PoolRead`; a long or double takes two); then that no method before this one was a main
  method with code, and that the code at hand is that of the attributes passed
  (`CodeBefore`). `NameLookup` ties the comparison of names in the pool to the names of the class.
  One lemma per action, put together in `LoaderWalks`.
  *The command*: `FileOpened` joins them, with `RamdiskRead` for the ramdisk, to what `java`
  opens; the invariant `JavaInv` carries the file through the call (`LoadsBegins`,
  `LoadsEnds`). A file that is no class of known constants is not followed.
* `FilesTyped` (`TypeOK`). What the loader is given is always a sequence of numbers
  (`OpenStep`), and so is what it takes from it.
* `LoaderUsesHeap`: the loader is a behaviour of `Allocator`, whatever file it is given.
  With `HeapRefinesAllocator` this closes the gap between `class_execute` and
  `heap.c`: the loader asks only as the heap's model assumes, and gets only what the
  heap gives.

**`InterpreterProofs`**, from `InterpreterAssumption` (numbers of at least two bits;
methods as a compiler writes them, `Compiled`), for every set of methods, every size
of stack and locals and every width of the numbers:

* `StaysInsideMethod` (`StaysInside`). The invariant `Inside` says that, until
  something is skipped, `pc` is the address of an instruction whose depth in the
  verifier's map is the depth of the stack (`Place`). `NextAddress` and `AddressOfOne`
  tie bytes to instructions, `TakesWidth` the operand bytes of each case to the
  format, `Known` what the map says of the next instruction; `StraightMoves` and
  `BranchMoves` go through the cases.
* `InterpreterTyped` (`TypeOK`), with `Contents` added, also behind a skipped
  instruction. The laws of powers of two (`Exponents`), that numbers are told apart by
  their bits (`BitsTell`) and that every set of bits is some number's (`BitsOfSum`) are
  proved by induction over the width.
* `InterpreterFollowsJvm` (`FollowsJvm`): the refinement of `Jvm`. To the invariant
  above it adds that the stack pointer is in the array (`Room`). `Replaces` shows that
  popping and pushing in the array is replacing the end of a sequence, `HereNext` that
  the address reached is the instruction meant, `Dividing` that C's quotient is the
  only one that satisfies the machine's equation, `BitIs` and `Combines` that the sums
  the bitwise operators are modelled by have the machine's bits.

Only model-checked:

* Liveness and fairness (`CallsReturn`, `WakesForLine`, `Delivered`,
  `PointerFollows`, `InitReturns`, `CommandsReturn`): out of the prover's reach.

## 6. Plan

All parts that carry logic of their own are modelled and model-checked, and every
safety property a run checks is proved, for every value of the constants. What could
be added:

* Archives with sizes of 4 GiB, directory records longer than 34 bytes and disc files
  longer than the buffer of `cat`: memory would have to be modelled by the byte.
* Exceptions of the processor, for the division that traps.

## 7. What is left out, and why

* GDT and entry: straight-line code before interrupts are on.
* Text on the framebuffer: `vesa_load_font` has no caller, so `vesa_draw_char` returns
  at once (`vesa.c:155`); `imgview`'s captions draw nothing. Lines, circles and
  rectangles belong to the stubs below. Colours of the text console are attributes
  that nothing reads.
* Bitmap headers that do not fit the file, and palettes (fewer than 24 bits a pixel).
* OpenGL stubs and the functions without a caller.
* Processor exceptions: none is raised on purpose; the default handler returns
  from those with an error code without removing it (`idt.c:39`), an effect of
  the processor that `Pic` does not model.
* In `Interpreter`, the places of the constants in the pool: how a pool is read is
  the matter of `ClassLoader`.
* Log lines, wording and timing.

Run a model with `tlc -config MCHeap.cfg MCHeap`, and a proof with
`tlapm HeapProofs.tla`.
