------------------------------ MODULE Pointer -------------------------------
(***************************************************************************)
(* The pointer on the graphical screen: startx and imgview from the image  *)
(* to their loops (src/src/main.c:372-429, 449-490) and the pixel          *)
(* functions they use (src/src/graphics/vesa.c:123-150, 300-325,           *)
(* src/src/graphics/cursors.c), with the mouse interrupt of Mouse coming   *)
(* in between any two accesses to mouse_x, mouse_y and mouse_updated.      *)
(***************************************************************************)
EXTENDS Mouse, Bitmap, FiniteSets

CONSTANTS
    Width, Height,      (* vesa_main: the framebuffer the loader reported  *)
    CURSOR,             (* side of the cursor image and of the save area   *)
    DefaultCursor,      (* <<dx, dy>> -> 0, 1 or 2                         *)
    None,               (* "no such file"                                  *)
    Ramdisks,           (* [image, cursor]: the images found there, or     *)
                        (* None                                            *)
    REGION,             (* side of the region flushed, 24 or 16            *)
    EarlyMotion         (* may the mouse move before the loop is reached?  *)

ASSUME PointerAssumption ==
    /\ Width \in Nat \ {0} /\ Height \in Nat \ {0}
    /\ CURSOR \in Nat \ {0} /\ REGION \in Nat /\ CURSOR <= REGION
    /\ DefaultCursor \in [Places(CURSOR, CURSOR) -> 0 .. 2]
    /\ EarlyMotion \in BOOLEAN

ASSUME RamdisksAssumption == \A r \in Ramdisks : \A image \in {r.image, r.cursor} \ {None} : IsImage(image)

VARIABLES
    files,                          (* what is in this ramdisk             *)
    cursor_pixels,                  (* cursor_pixels where cursor_mask is  *)
                                    (* set: <<dx, dy>> -> colour           *)
    back_buffer, vesa_mem,          (* pixel index -> colour               *)
    mouse_save_buffer,              (* <<dx, dy>> -> colour                *)
    last_mouse_x, last_mouse_y,
    nx, ny,         (* the coordinates read last by the main program       *)
    pc,             (* its next access                                     *)
    phase           (* what the start-up does with the coordinates         *)

fileVars == <<files, cursor_pixels>>
guiVars == <<fileVars, back_buffer, vesa_mem, mouse_save_buffer, last_mouse_x, last_mouse_y,
             nx, ny, pc, phase>>
vars == <<mouseVars, guiVars>>

-----------------------------------------------------------------------------
(* Pixels *)

Larger(a, b) == IF a > b THEN a ELSE b
Pixels == 0 .. Larger(Width * Height, SCREEN_W * SCREEN_H) - 1
Square == Places(CURSOR, CURSOR)

Blue == 2003199
Grey == 1973790     \* the background
Black == 0          \* what vesa_get_pixel returns outside the screen

\* vesa_put_pixel goes by the reported geometry ...
put_index(x, y) == y * Width + x
can_put(x, y) == x < Width /\ y < Height

\* ... vesa_get_pixel by 800 x 600.
vesa_get_pixel(buf, x, y) ==
    IF x < SCREEN_W /\ y < SCREEN_H THEN buf[y * SCREEN_W + x] ELSE Black

\* The buffer after the pixels of image, a function of offsets from (x, y), are put.
PutAll(buf, x, y, image) ==
    LET hit == {o \in DOMAIN image : can_put(x + o[1], y + o[2])}
    IN  [i \in Pixels |->
            IF \E o \in hit : i = put_index(x + o[1], y + o[2])
            THEN image[CHOOSE o \in hit : i = put_index(x + o[1], y + o[2])]
            ELSE buf[i]]

mouse_save_back(buf, x, y) == [o \in Square |-> vesa_get_pixel(buf, x + o[1], y + o[2])]

mouse_restore_back(buf, x, y) == PutAll(buf, x, y, mouse_save_buffer)

cursor_draw(buf, x, y) == PutAll(buf, x, y, cursor_pixels)

\* vesa_update_region copies these pixels.
InRegion(i, x, y) ==
    /\ i % SCREEN_W \in x .. x + REGION - 1
    /\ i \div SCREEN_W \in y .. y + REGION - 1
    /\ i < SCREEN_W * SCREEN_H

-----------------------------------------------------------------------------
(* Start-up *)

load_default_cursor ==
    [o \in {q \in Square : DefaultCursor[q] # 0} |-> IF DefaultCursor[o] = 1 THEN White ELSE Blue]

cursor_load_bmp(file) ==
    LET parsed == bmp_parse_to_buffer(file, CURSOR, CURSOR)
    IN IF parsed = <<>> THEN load_default_cursor ELSE parsed[1]

\* The cursor is loaded, the image, if any, drawn and flushed.  The texts of
\* imgview draw nothing, as no font is ever loaded.
Init ==
    /\ MouseInit
    /\ files \in Ramdisks
    /\ cursor_pixels = IF files.cursor = None THEN load_default_cursor
                       ELSE cursor_load_bmp(EncodeBmp(files.cursor))
    /\ back_buffer = PutAll([i \in Pixels |-> Grey], 0, 0,
                            IF files.image = None THEN <<>> ELSE draw_bmp(EncodeBmp(files.image)))
    /\ vesa_mem = back_buffer
    /\ mouse_save_buffer = [o \in Square |-> Black]
    /\ last_mouse_x = 0 /\ last_mouse_y = 0
    /\ nx = 0 /\ ny = 0
    /\ pc = "lastX" /\ phase = "save"

LastX ==
    /\ pc = "lastX" /\ pc' = "lastY"
    /\ last_mouse_x' = mouse_x
    /\ UNCHANGED <<fileVars, back_buffer, vesa_mem, mouse_save_buffer, last_mouse_y, nx, ny, phase>>

LastY ==
    /\ pc = "lastY" /\ pc' = "argY"
    /\ last_mouse_y' = mouse_y
    /\ UNCHANGED <<fileVars, back_buffer, vesa_mem, mouse_save_buffer, last_mouse_x, nx, ny, phase>>

\* The arguments of the three calls are read afresh for each, the last first.
ArgY ==
    /\ pc = "argY" /\ pc' = "argX"
    /\ ny' = mouse_y
    /\ UNCHANGED <<fileVars, back_buffer, vesa_mem, mouse_save_buffer, last_mouse_x, last_mouse_y, nx,
                   phase>>

ArgX ==
    /\ pc = "argX" /\ pc' = "call"
    /\ nx' = mouse_x
    /\ UNCHANGED <<fileVars, back_buffer, vesa_mem, mouse_save_buffer, last_mouse_x, last_mouse_y, ny,
                   phase>>

SaveFirst ==
    /\ pc = "call" /\ phase = "save" /\ phase' = "draw" /\ pc' = "argY"
    /\ mouse_save_buffer' = mouse_save_back(back_buffer, nx, ny)
    /\ UNCHANGED <<fileVars, back_buffer, vesa_mem, last_mouse_x, last_mouse_y, nx, ny>>

DrawFirst ==
    /\ pc = "call" /\ phase = "draw" /\ phase' = "flush" /\ pc' = "argY"
    /\ back_buffer' = cursor_draw(back_buffer, nx, ny)
    /\ UNCHANGED <<fileVars, vesa_mem, mouse_save_buffer, last_mouse_x, last_mouse_y, nx, ny>>

FlushFirst ==
    /\ pc = "call" /\ phase = "flush" /\ phase' = "loop" /\ pc' = "poll"
    /\ vesa_mem' = [i \in Pixels |-> IF InRegion(i, nx, ny) THEN back_buffer[i] ELSE vesa_mem[i]]
    /\ UNCHANGED <<fileVars, back_buffer, mouse_save_buffer, last_mouse_x, last_mouse_y, nx, ny>>

-----------------------------------------------------------------------------
(* The loop *)

pixelVars == <<fileVars, back_buffer, vesa_mem, mouse_save_buffer, last_mouse_x, last_mouse_y, phase>>

Poll ==
    /\ pc = "poll" /\ mouse_updated = 1 /\ pc' = "clear"
    /\ UNCHANGED <<mouseVars, pixelVars, nx, ny>>

Clear ==
    /\ pc = "clear" /\ pc' = "readX"
    /\ mouse_updated' = 0
    /\ UNCHANGED <<mouse_x, mouse_y, mouse_cycle, mouse_byte, mouse_buttons, movement, sent, lost,
                   pixelVars, nx, ny>>

ReadX ==
    /\ pc = "readX" /\ pc' = "readY"
    /\ nx' = mouse_x
    /\ UNCHANGED <<mouseVars, pixelVars, ny>>

\* Mutant: the flag is cleared once the coordinates have been read.
ReadYClearing ==
    /\ pc = "readY" /\ pc' = "redraw"
    /\ ny' = mouse_y
    /\ mouse_updated' = 0
    /\ UNCHANGED <<mouse_x, mouse_y, mouse_cycle, mouse_byte, mouse_buttons, movement, sent, lost,
                   pixelVars, nx>>

ReadY ==
    /\ pc = "readY" /\ pc' = "redraw"
    /\ ny' = mouse_y
    /\ UNCHANGED <<mouseVars, pixelVars, nx>>

\* Mutant: the new background is saved before the old one is restored.
RedrawSavingFirst ==
    /\ pc = "redraw" /\ pc' = "poll"
    /\ mouse_save_buffer' = mouse_save_back(back_buffer, nx, ny)
    /\ back_buffer' = cursor_draw(mouse_restore_back(back_buffer, last_mouse_x, last_mouse_y), nx, ny)
    /\ vesa_mem' = [i \in Pixels |->
                        IF InRegion(i, last_mouse_x, last_mouse_y) \/ InRegion(i, nx, ny)
                        THEN back_buffer'[i] ELSE vesa_mem[i]]
    /\ last_mouse_x' = nx /\ last_mouse_y' = ny
    /\ UNCHANGED <<mouseVars, fileVars, nx, ny, phase>>

\* Nothing below reads what the handler writes.
Redraw ==
    LET restored == mouse_restore_back(back_buffer, last_mouse_x, last_mouse_y)
    IN  /\ pc = "redraw" /\ pc' = "poll"
        /\ mouse_save_buffer' = mouse_save_back(restored, nx, ny)
        /\ back_buffer' = cursor_draw(restored, nx, ny)
        /\ vesa_mem' = [i \in Pixels |->
                            IF InRegion(i, last_mouse_x, last_mouse_y) \/ InRegion(i, nx, ny)
                            THEN back_buffer'[i] ELSE vesa_mem[i]]
        /\ last_mouse_x' = nx /\ last_mouse_y' = ny
        /\ UNCHANGED <<mouseVars, fileVars, nx, ny, phase>>

Startup == LastX \/ LastY \/ ArgY \/ ArgX \/ SaveFirst \/ DrawFirst \/ FlushFirst

Loop == Poll \/ Clear \/ ReadX \/ ReadY \/ Redraw

Gui == (Startup /\ UNCHANGED mouseVars) \/ Loop

Interrupt ==
    /\ MouseNext
    /\ EarlyMotion \/ phase = "loop"
    /\ UNCHANGED <<pixelVars, nx, ny, pc>>

Next == Gui \/ Interrupt

\* The loop runs on; nothing is assumed of the mouse.
Spec == Init /\ [][Next]_vars /\ WF_vars(Gui)

-----------------------------------------------------------------------------
(* Properties *)

TypeOK ==
    /\ MouseTypeOK
    /\ back_buffer \in [Pixels -> Colours]
    /\ vesa_mem \in [Pixels -> Colours]
    /\ mouse_save_buffer \in [Square -> Colours]
    /\ nx \in 0 .. SCREEN_W - 1 /\ ny \in 0 .. SCREEN_H - 1

\* The image's pixel there, or the background.
Picture(x, y) ==
    IF files.image # None /\ x < files.image.width /\ y < files.image.height
    THEN files.image.colour[<<x, y>>] ELSE Grey

\* The cursor's pixel at an offset from its corner: the one of cursor.bmp if that
\* has the right size, else of the default; Magenta where none is drawn.
Look(o) ==
    IF o \notin Square THEN Magenta
    ELSE IF files.cursor # None /\ files.cursor.width = CURSOR /\ files.cursor.height = CURSOR
         THEN files.cursor.colour[o]
         ELSE <<Magenta, White, Blue>>[DefaultCursor[o] + 1]

\* The picture with the cursor drawn at (x, y) and nowhere else.
WithCursor(x, y) ==
    [i \in Pixels |->
        LET px == i % SCREEN_W
            py == i \div SCREEN_W
            c == Look(<<px - x, py - y>>)
        IN IF c = Magenta THEN Picture(px, py) ELSE c]

\* Between two redraws the screen and the back buffer show the image as the
\* bitmap has it, with its cursor at one place: wherever the mouse went, no trace
\* of the cursor, no displaced background and no row of the image out of place
\* is left (main.c:419-428, vesa.c:300-325, bmp.c:20-90).  This needs a
\* framebuffer of the assumed size and a mouse at rest during the start-up.
NoTrace ==
    phase = "loop" =>
        /\ back_buffer = WithCursor(last_mouse_x, last_mouse_y)
        /\ \A i \in 0 .. SCREEN_W * SCREEN_H - 1 : vesa_mem[i] = back_buffer[i]

\* A pointer that comes to rest is shown where it rests: the flag is cleared
\* before the coordinates are read, so no movement is forgotten
\* (mouse.c:149, main.c:408-428, 471-489).
PointerFollows ==
    <>[][UNCHANGED <<mouse_x, mouse_y>>]_<<mouse_x, mouse_y>>
        => <>[](last_mouse_x = mouse_x /\ last_mouse_y = mouse_y)
=============================================================================
