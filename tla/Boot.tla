-------------------------------- MODULE Boot --------------------------------
(***************************************************************************)
(* The boot sequence of main/kernel_main.c, with what it composes: the     *)
(* mailbox, init_framebuffer, identity_map, the timer interrupt and the    *)
(* text both main and the interrupt draw.  The framebuffer and the buffer  *)
(* of the mailbox end up in neighbouring 2 MB pages of one map, so a draw  *)
(* that leaves the one overwrites the other.                               *)
(*                                                                         *)
(* What a draw does is kept as the rectangles it covers: draw_rect covers  *)
(* one, and a line of text covers one glyph of 8 by 8 per character.       *)
(* Virtual and physical addresses are in bytes.                            *)
(***************************************************************************)
EXTENDS Mailbox, FiniteSets

CONSTANTS
  MaxTicks,    \* bound: timer interrupts
  MaxLines     \* bound: traced calls

ASSUME BootAssumption == MaxTicks \in Nat /\ MaxLines \in Nat

VARIABLES
  pc,          \* how many steps of Main are done
  irq,         \* interrupts are enabled (DAIF clear)
  gic,         \* the interrupt controller passes interrupt 31 to core 0
  vectors,     \* vbar_el1 is set
  timer,       \* the ARM timer runs and raises interrupts
  tick,        \* tick_counter
  info,        \* __info: where the next traced call is printed
  pt,          \* the map identity_map built, or NoMap
  drawn,       \* the rectangles the last step drew
  area,        \* the area of the screen it may draw in
  lines        \* traced calls printed below the history's title

bootvars == <<pc, irq, gic, vectors, timer, tick, info, pt, drawn, area, lines>>
vars == <<mailvars, bootvars>>

PT_SIZE == 2 * MB
FONT == 8
COLOR == 11870240
NoMap == [vc |-> 0, pages |-> 0, from |-> 0, to |-> 0]

-----------------------------------------------------------------------------
(***************************************************************************)
(* Drawing.                                                                *)
(***************************************************************************)
Rect(x1, y1, x2, y2) == [x1 |-> x1, y1 |-> y1, x2 |-> x2, y2 |-> y2]

\* print_screen of n characters from the cursor on, without a line break.
Text(x, y, n) == Rect(x, y, x + FONT * n - 1, y + FONT - 1)

\* draw_pixel: the virtual address of a pixel.
Pixel(fb, x, y) == fb.buf + 4 * x + y * fb.pitch

\* identity_map: a page is mapped to itself, but for the framebuffer's.
Translate(map, page) ==
  IF page \in map.to .. map.to + map.pages - 1 THEN map.from + page - map.to ELSE page

Physical(map, v) == Translate(map, v \div PT_SIZE) * PT_SIZE + (v % PT_SIZE)

\* The bytes from lo to hi fall, page by page, inside the firmware's buffer.
Inside(map, lo, hi) ==
  \A page \in lo \div PT_SIZE .. hi \div PT_SIZE :
    LET first == IF page * PT_SIZE < lo THEN lo ELSE page * PT_SIZE
        last == IF (page + 1) * PT_SIZE - 1 > hi THEN hi ELSE (page + 1) * PT_SIZE - 1
    IN /\ Physical(map, first) >= fw.base
       /\ Physical(map, last) < fw.base + fw.size
       /\ Physical(map, last) - Physical(map, first) = last - first

\* The address of mbox: early_mbox until identity_map moves it.
MboxAt(map) == IF map = NoMap THEN -1 ELSE (map.vc - 1) * PT_SIZE

\* The words of the mailbox that the rectangles cover.
Hit(rects) ==
  {k \in WORDS :
     /\ pt # NoMap
     /\ \E r \in rects :
          LET d == MboxAt(pt) + 4 * k - kept.buf
          IN /\ d >= 0
             /\ d \div kept.pitch \in r.y1 .. r.y2
             /\ (d % kept.pitch) \div 4 \in r.x1 .. r.x2}

Draw(rects, where) ==
  /\ drawn' = rects
  /\ area' = where
  /\ mbox' = [k \in WORDS |-> IF k \in Hit(rects) THEN COLOR ELSE mbox[k]]
  /\ UNCHANGED <<outbox, inbox, mail, at, kept, ret, fw, noise>>

NoDraw == drawn' = {} /\ area' = area

Screen == Rect(0, 0, 1919, 1079)
History == Rect(0, 32, 647, 1079)
Clock == Rect(0, 0, 95, 31)

-----------------------------------------------------------------------------
(***************************************************************************)
(* The steps of main.  A step is a call of the mailbox, or an operation.   *)
(* uart_init, memory_init and the rest that neither use the mailbox nor    *)
(* draw nor bear on interrupts leave this state alone and are not steps.   *)
(***************************************************************************)
Mail(f) == [op |-> "mail", f |-> f]
Do(op) == [op |-> op, f |-> NoCall]

init_framebuffer_EarlyPitch ==
  <<Mail(get_display_wh), Do("fallback"), Mail(get_pitch),
    Mail(set_display_wh(1920, 1080)), Mail(set_virt_wh(1920, 1080)),
    Mail(set_virt_offset(0, 0)), Mail(set_display_depth(32)), Mail(set_pixel_order(1)),
    Mail(allocate_framebuffer(4096))>>

\* The width and height passed in, and the fallback to 640 x 480, never reach
\* the firmware: 1920 x 1080 is asked for in every case.
init_framebuffer ==
  <<Mail(get_display_wh), Do("fallback"), Mail(set_display_wh(1920, 1080)),
    Mail(set_virt_wh(1920, 1080)), Mail(set_virt_offset(0, 0)),
    Mail(set_display_depth(32)), Mail(set_pixel_order(1)),
    Mail(allocate_framebuffer(4096)), Mail(get_pitch)>>

sd_clk ==
  <<Mail(sd_get_base_clock_hz), Mail(sd_set_clock_state(0)),
    Mail(sd_set_clock_state(1)), Mail(sd_get_clock_state)>>

Main ==
  <<Do("push_trace"), Do("set_info"), Do("gic400_init"), Do("init_vectors"),
    Do("enable_interrupts"), Mail(get_arm_address)>>
  \o init_framebuffer
  \o <<Mail(get_vc_address), Do("identity_map"), Do("timer_init"),
       Mail(bcm_2708_get_state), Do("disable_interrupts"), Do("history"), Do("title")>>
  \o sd_clk \o sd_clk
  \o <<Do("enable_interrupts"), Do("shell"), Do("disable_interrupts"),
       Mail(sd_power_off)>>

Shell == CHOOSE i \in 1 .. Len(Main) : Main[i].op = "shell"
InitFb == 6 + Len(init_framebuffer)

Step(op) == pc < Len(Main) /\ at = "idle" /\ Main[pc + 1].op = op

mail_start ==
  /\ Step("mail")
  /\ mail_fill(Main[pc + 1].f)
  /\ NoDraw
  /\ UNCHANGED <<pc, irq, gic, vectors, timer, tick, info, pt, lines>>

mail_go ==
  /\ mail_send
  /\ NoDraw
  /\ UNCHANGED <<pc, irq, gic, vectors, timer, tick, info, pt, lines>>

mail_loop ==
  /\ mail_read
  /\ pc' = IF at' = "idle" THEN pc + 1 ELSE pc
  /\ NoDraw
  /\ UNCHANGED <<irq, gic, vectors, timer, tick, info, pt, lines>>

firmware ==
  /\ firmware_answers \/ other_channel
  /\ NoDraw
  /\ UNCHANGED <<pc, irq, gic, vectors, timer, tick, info, pt, lines>>

\* push_trace prints one line at the cursor and moves it down.
NextLine_Tall(c) == [c EXCEPT !.x = c.x0, !.y = @ + FONT + 1]

NextLine(c) == [c EXCEPT !.x = c.x0, !.y = @ + FONT]

push_trace ==
  /\ Step("push_trace")
  /\ \E n \in {1, 75} : Draw({Text(info.x, info.y, n)}, Screen)
  /\ info' = NextLine(info)
  /\ pc' = pc + 1
  /\ UNCHANGED <<irq, gic, vectors, timer, tick, pt, lines>>

set_info ==
  /\ Step("set_info")
  /\ info' = [x0 |-> 4, y0 |-> 44, x |-> 4, y |-> 44]
  /\ pc' = pc + 1
  /\ NoDraw
  /\ UNCHANGED <<mailvars, irq, gic, vectors, timer, tick, pt, lines>>

\* The distributor is off while all interrupts are masked, cleared, given to core 0
\* and made level-triggered; then 31 alone is enabled, and the core takes interrupts.
gic400_init ==
  /\ Step("gic400_init")
  /\ gic' = TRUE
  /\ pc' = pc + 1
  /\ NoDraw
  /\ UNCHANGED <<mailvars, irq, vectors, timer, tick, info, pt, lines>>

init_vectors ==
  /\ Step("init_vectors")
  /\ vectors' = TRUE
  /\ pc' = pc + 1
  /\ NoDraw
  /\ UNCHANGED <<mailvars, irq, gic, timer, tick, info, pt, lines>>

set_irq(op, on) ==
  /\ Step(op)
  /\ irq' = on
  /\ pc' = pc + 1
  /\ NoDraw
  /\ UNCHANGED <<mailvars, gic, vectors, timer, tick, info, pt, lines>>

enable_interrupts == set_irq("enable_interrupts", TRUE)
disable_interrupts == set_irq("disable_interrupts", FALSE)

timer_init ==
  /\ Step("timer_init")
  /\ timer' = TRUE
  /\ pc' = pc + 1
  /\ NoDraw
  /\ UNCHANGED <<mailvars, irq, gic, vectors, tick, info, pt, lines>>

\* The answer of get_display_wh is put within bounds.
InBounds(fb) == fb.width \in 640 .. 4096 /\ fb.height \in 480 .. 2160

fallback ==
  /\ Step("fallback")
  /\ kept' = IF InBounds(kept) THEN kept
             ELSE [kept EXCEPT !.width = 640, !.height = 480]
  /\ pc' = pc + 1
  /\ NoDraw
  /\ UNCHANGED <<mbox, outbox, inbox, mail, at, ret, fw, noise, irq, gic, vectors, timer,
                 tick, info, pt, lines>>

-----------------------------------------------------------------------------
(***************************************************************************)
(* identity_map: pages of 2 MB.  The mailbox moves to the page below       *)
(* vc_base_address; the framebuffer is remapped to the pages below that.   *)
(* The new buffer of the mailbox holds whatever that memory held.          *)
(***************************************************************************)
FbPages_Exact(fb) == fb.buf_size \div PT_SIZE

FbPages(fb) == fb.buf_size \div PT_SIZE + 1

MapOf(k) ==
  LET vc == k.vc_base_address \div PT_SIZE
  IN [vc |-> vc, pages |-> FbPages(k), from |-> k.buf \div PT_SIZE,
      to |-> vc - 1 - FbPages(k)]

identity_map ==
  /\ Step("identity_map")
  /\ pt' = MapOf(kept)
  /\ kept' = [kept EXCEPT !.buf = MapOf(kept).to * PT_SIZE + (@ % PT_SIZE)]
  /\ \E w \in {0, COLOR} : mbox' = [k \in WORDS |-> w]
  /\ pc' = pc + 1
  /\ NoDraw
  /\ UNCHANGED <<outbox, inbox, mail, at, ret, fw, noise, irq, gic, vectors, timer, tick,
                 info, lines>>

\* draw_rect over the history area, then its title.
history ==
  /\ Step("history")
  /\ Draw({Rect(0, 32, 647, 1079)}, History)
  /\ pc' = pc + 1
  /\ UNCHANGED <<irq, gic, vectors, timer, tick, info, pt, lines>>

title ==
  /\ Step("title")
  /\ Draw({Text(info.x, info.y - 8, 16)}, History)
  /\ pc' = pc + 1
  /\ UNCHANGED <<irq, gic, vectors, timer, tick, info, pt, lines>>

\* A traced call prints a line: those that read the file system between sd_init
\* and enable_interrupts, and those of each command of the shell.
traced_call ==
  /\ Step("shell") \/ (Step("enable_interrupts") /\ pc > InitFb)
  /\ lines < MaxLines
  /\ \E n \in {1, 75} : Draw({Text(info.x, info.y, n)}, History)
  /\ info' = NextLine(info)
  /\ lines' = lines + 1
  /\ UNCHANGED <<pc, irq, gic, vectors, timer, tick, pt>>

\* The shell ends on shutdown.
shutdown ==
  /\ Step("shell")
  /\ pc' = pc + 1
  /\ NoDraw
  /\ UNCHANGED <<mailvars, irq, gic, vectors, timer, tick, info, pt, lines>>

\* handle_irq on the timer: the count (at most 11 characters) and the stack
\* pointer (10) are printed over two rectangles in the corner.
handle_irq ==
  /\ irq /\ gic /\ vectors /\ timer
  /\ tick < MaxTicks
  /\ tick' = tick + 1
  /\ \E n \in {1, 11} :
       Draw({Rect(0, 0, 95, 15), Text(4, 4, n), Rect(0, 16, 95, 31), Text(4, 19, 10)},
            Clock)
  /\ UNCHANGED <<pc, irq, gic, vectors, timer, info, pt, lines>>

Init ==
  /\ MailInit
  /\ pc = 0
  /\ irq = FALSE
  /\ gic = FALSE
  /\ vectors = FALSE
  /\ timer = FALSE
  /\ tick = 0
  /\ info = [x0 |-> 0, y0 |-> 0, x |-> 0, y |-> 0]
  /\ pt = NoMap
  /\ drawn = {}
  /\ area = Screen
  /\ lines = 0

MainStep ==
  \/ mail_start \/ mail_go \/ mail_loop
  \/ push_trace \/ set_info \/ gic400_init \/ init_vectors
  \/ enable_interrupts \/ disable_interrupts \/ timer_init \/ fallback \/ identity_map \/ history \/ title
  \/ shutdown

Next == MainStep \/ traced_call \/ firmware \/ handle_irq

\* main always runs on, and the firmware answers what it is handed.
Spec == Init /\ [][Next]_vars /\ WF_vars(MainStep) /\ WF_vars(firmware)

-----------------------------------------------------------------------------
TypeOK ==
  /\ at \in {"idle", "send", "wait"}
  /\ pc \in 0 .. Len(Main)
  /\ DOMAIN mbox = WORDS
  /\ tick \in 0 .. MaxTicks /\ lines \in 0 .. MaxLines
  /\ {irq, gic, vectors, timer, outbox} \subseteq BOOLEAN

(***************************************************************************)
(* Every message the firmware is handed is one tag closed by its end tag,  *)
(* although sd_get_base_clock_hz and sd_get_clock_state do not write the   *)
(* end: it must survive from the message before, through a change of the   *)
(* buffer's address and everything drawn since (mailbox.c 230-236).  The   *)
(* functions nothing calls at boot would do so too, at any time between    *)
(* two calls; two of them only if the third value they pass is 0.          *)
(***************************************************************************)
Uncalled ==
  {bcm_2708_power_off, bcm_2708_power_on, release_framebuffer, blank_screen(1),
   get_display_depth, get_pixel_order, sd_disable_low_power,
   sd_set_base_clock_hz(EMMC_CLOCK_ID, 25 * MB, 0), allocate_GPU_memory(4096, 16, 0)}

MessagesClosed ==
  /\ outbox => OneTag(mbox)
  /\ at = "idle" => \A f \in Uncalled : OneTag(Filled(f, mbox))

(***************************************************************************)
(* Once init_framebuffer is done, what is drawn, by main, by a traced call *)
(* or by the timer interrupt between any two steps, lands in the memory of *)
(* the framebuffer, through the remapping of identity_map, provided the    *)
(* firmware granted the mode it was asked for.  The history is never       *)
(* scrolled, so this holds for as many lines as fit below its title.       *)
(***************************************************************************)
HistoryLines == (History.y2 + 1 - 44) \div FONT

DrawsInside ==
  pc >= InitFb /\ fw.obeys /\ lines <= HistoryLines =>
    \A r \in drawn : Inside(pt, Pixel(kept, r.x1, r.y1), Pixel(kept, r.x2, r.y2) + 3)

(***************************************************************************)
(* The interrupt and the code it interrupts never draw on the same part of *)
(* the screen: each stays in its area, the areas are apart, and the cursor *)
(* of the history is not the interrupt's (interrupts.c 85-90, strace.h).   *)
(***************************************************************************)
OwnAreas ==
  pc >= InitFb /\ lines <= HistoryLines =>
    \A r \in drawn : /\ r.x1 >= area.x1 /\ r.x2 <= area.x2
                     /\ r.y1 >= area.y1 /\ r.y2 <= area.y2

(***************************************************************************)
(* What the code knows of the framebuffer is what the firmware has set up: *)
(* the pitch it multiplies by, and the size it maps, are those of the last *)
(* mode asked for, not of an earlier one.                                  *)
(***************************************************************************)
FbAgrees ==
  /\ TypeOK
  /\ pc >= InitFb =>
       /\ kept.pitch = Pitch(fw)
       /\ kept.buf_size = kept.pitch * fw.virtual[2]
       /\ <<kept.width, kept.height>> = fw.display
       /\ Physical(pt, kept.buf) = fw.base

(***************************************************************************)
(* The boot reaches the shell: no call of the mailbox waits for ever.      *)
(***************************************************************************)
ReachesShell == <>(pc + 1 >= Shell)
=============================================================================
