------------------------------ MODULE Mailbox ------------------------------
(***************************************************************************)
(* drivers/mailbox.c: property messages to the VideoCore firmware.  Every  *)
(* function of that file writes a message into the words of one shared     *)
(* buffer, hands its address over, and loops until the firmware answers    *)
(* that address and has marked the buffer as a success.  A function is     *)
(* here a record: the words it writes from word 2 on (send), the length in *)
(* words it announces (total), the variables it keeps from the answer and  *)
(* the word each is taken from (keep), and its result (ret).               *)
(*                                                                         *)
(* Addresses are in bytes; the codes 0x80000000 and 0x80000001, which are  *)
(* beyond TLC's integers, are SUCCESS and FAILURE.                         *)
(***************************************************************************)
EXTENDS Integers, Sequences, TLC

CONSTANTS
  Displays,    \* the modes <<width, height>> the firmware may start in
  FbBases,     \* the addresses at which it may put the framebuffer
  VcBase,      \* where the memory of the VideoCore starts
  MaxNoise     \* bound: answers of other channels met on the way

\* The framebuffer is an address the code can hold once it has dropped the two bits of the
\* bus alias: below 1 GB.
ASSUME MailAssumption ==
  /\ Displays \subseteq Nat \X Nat
  /\ \A b \in FbBases : b \in Nat /\ b < 1024 * 1024 * 1024
  /\ VcBase \in Nat /\ MaxNoise \in Nat

VARIABLES
  mbox,        \* words 0..8 of the buffer the code is using
  outbox,      \* TRUE: MAIL_FULL, a message the firmware has not taken
  inbox,       \* what MAIL_READ will give: <<>> is MAIL_EMPTY
  mail,        \* the function in progress, or NoCall
  at,          \* where it is: "send", "wait", or "idle"
  kept,        \* the variables the functions fill (fb, arm_base_address, ...)
  ret,         \* the result of the last function that returned
  fw,          \* the firmware's own state
  noise

mailvars == <<mbox, outbox, inbox, mail, at, kept, ret, fw, noise>>

WORDS == 0 .. 8
REQUEST == 0
SUCCESS == 1
FAILURE == 2
MB == 1024 * 1024

\* mailbox.h: the tags.  BLANK_SCREEN and RELEASE_FRAME_BUFFER are one number.
ARM_MEMORY == 65541
VC_MEMORY == 65542
GET_POWER_STATE == 131073
SET_POWER_STATE == 163841
GET_CLOCK_STATE == 196609
SET_CLOCK_STATE == 229377
GET_CLOCK_RATE == 196610
SET_CLOCK_RATE == 229378
SET_GPIO == 229441
ALLOCATE_MEMORY == 196620
ALLOCATE_FRAME_BUFFER == 262145
RELEASE_FRAME_BUFFER == 262146
BLANK_SCREEN == 262146
GET_DISPLAY == 262147
SET_DISPLAY == 294915
SET_VIRTUAL == 294916
GET_DEPTH == 262149
SET_DEPTH == 294917
GET_PIXEL_ORDER == 262150
SET_PIXEL_ORDER == 294918
GET_PITCH == 262152
SET_VIRT_OFFSET == 294921
EMMC_CLOCK_ID == 1

TAGS == {ARM_MEMORY, VC_MEMORY, GET_POWER_STATE, SET_POWER_STATE, GET_CLOCK_STATE,
         SET_CLOCK_STATE, GET_CLOCK_RATE, SET_CLOCK_RATE, SET_GPIO, ALLOCATE_MEMORY,
         ALLOCATE_FRAME_BUFFER, BLANK_SCREEN, GET_DISPLAY, SET_DISPLAY, SET_VIRTUAL,
         GET_DEPTH, SET_DEPTH, GET_PIXEL_ORDER, SET_PIXEL_ORDER, GET_PITCH,
         SET_VIRT_OFFSET}

-----------------------------------------------------------------------------
(***************************************************************************)
(* The functions.  ret: "0", a word of the answer, or "agrees" and         *)
(* "differs" for the functions that compare the answer with what they      *)
(* asked: set_pixel_order answers the other way round from the rest.       *)
(* "never": get_display_depth has no return inside its loop.  A variable   *)
(* kept from word -1 is set to 0.                                          *)
(***************************************************************************)
NoKeep == << >>

Tag(send, keep, r) == [send |-> send, total |-> 8, keep |-> keep, ret |-> r]

NoCall == Tag(<<>>, NoKeep, "0")

get_arm_address ==
  Tag(<<ARM_MEMORY, 8, 8, 0, 0, 0>>, [arm_base_address |-> 5, arm_size |-> 6], "0")

get_vc_address ==
  Tag(<<VC_MEMORY, 8, 8, 0, 0, 0>>, [vc_base_address |-> 5, vc_size |-> 6], "0")

bcm_2708_power_off == Tag(<<SET_POWER_STATE, 8, 8, 0, 2, 0>>, NoKeep, "0")

bcm_2708_power_on == Tag(<<SET_POWER_STATE, 8, 8, 0, 3, 0>>, NoKeep, "0")

bcm_2708_get_state_NoEnd == Tag(<<GET_POWER_STATE, 8, 8, 0, 0>>, NoKeep, "0")

bcm_2708_get_state == Tag(<<GET_POWER_STATE, 8, 8, 0, 0, 0>>, NoKeep, "0")

\* Word 7, the end tag, is not written: it is what the message before left.
sd_get_base_clock_hz ==
  Tag(<<GET_CLOCK_RATE, 8, 4, EMMC_CLOCK_ID, 0>>, NoKeep, "word 6")

\* Three values behind a size of two: the third is where the next tag starts.
sd_set_base_clock_hz(clock, val1, val2) ==
  [Tag(<<SET_CLOCK_RATE, 8, 8, clock, val1, val2, 0>>, NoKeep, "word 6")
     EXCEPT !.total = 9]

sd_get_clock_state ==
  Tag(<<GET_CLOCK_STATE, 8, 4, EMMC_CLOCK_ID, 0>>, NoKeep, "word 6")

sd_set_clock_state(state) ==
  Tag(<<SET_CLOCK_STATE, 8, 8, EMMC_CLOCK_ID, state, 0>>, NoKeep, "word 6")

allocate_GPU_memory(size, alignment, flags) ==
  [Tag(<<ALLOCATE_MEMORY, 8, 8, size, alignment, flags, 0>>, NoKeep, "word 5")
     EXCEPT !.total = 9]

allocate_framebuffer(alignment) ==
  Tag(<<ALLOCATE_FRAME_BUFFER, 8, 8, alignment, 0, 0>>, [buf |-> 5, buf_size |-> 6], "0")

release_framebuffer ==
  Tag(<<RELEASE_FRAME_BUFFER, 8, 8, 0, 0, 0>>, [buf |-> -1, buf_size |-> -1], "0")

blank_screen(state) == Tag(<<BLANK_SCREEN, 8, 8, state, 0, 0>>, NoKeep, "0")

get_display_wh == Tag(<<GET_DISPLAY, 8, 8, 0, 0, 0>>, [width |-> 5, height |-> 6], "0")

set_display_wh(width, height) ==
  Tag(<<SET_DISPLAY, 8, 0, width, height, 0>>, [width |-> 5, height |-> 6], "agrees")

get_display_depth == Tag(<<GET_DEPTH, 8, 8, 0, 0, 0>>, [depth |-> 5], "never")

set_display_depth(depth) ==
  Tag(<<SET_DEPTH, 4, 4, depth, 0, 0>>, [depth |-> 5], "agrees")

get_pitch_NoReturn == Tag(<<GET_PITCH, 4, 4, 0, 0, 0>>, [pitch |-> 5], "never")

get_pitch == Tag(<<GET_PITCH, 4, 4, 0, 0, 0>>, [pitch |-> 5], "0")

set_virt_wh(virtWidth, virtHeight) ==
  Tag(<<SET_VIRTUAL, 8, 8, virtWidth, virtHeight, 0>>,
      [virtWidth |-> 5, virtHeight |-> 6], "agrees")

set_virt_offset(x, y) == Tag(<<SET_VIRT_OFFSET, 8, 8, x, y, 0>>, NoKeep, "0")

get_pixel_order == Tag(<<GET_PIXEL_ORDER, 8, 8, 0, 0, 0>>, [pixel_order |-> 5], "0")

set_pixel_order(state) ==
  Tag(<<SET_PIXEL_ORDER, 4, 4, state, 0, 0>>, [pixel_order |-> 5], "differs")

sd_disable_low_power == Tag(<<SET_GPIO, 8, 8, 132, 0, 0>>, NoKeep, "0")

sd_power_off == Tag(<<SET_POWER_STATE, 8, 8, 0, 0, 0>>, NoKeep, "0")

-----------------------------------------------------------------------------
(***************************************************************************)
(* The steps every one of those functions makes.                           *)
(***************************************************************************)
Filled(f, words) ==
  [k \in WORDS |-> CASE k = 0 -> 4 * f.total
                     [] k = 1 -> REQUEST
                     [] k \in 2 .. 1 + Len(f.send) -> f.send[k - 1]
                     [] OTHER -> words[k]]

mail_fill(f) ==
  /\ at = "idle"
  /\ mbox' = Filled(f, mbox)
  /\ mail' = f
  /\ at' = "send"
  /\ UNCHANGED <<outbox, inbox, kept, ret, fw, noise>>

\* do nop while MAIL_FULL, then chip_write(r, MAIL_WRITE).
mail_send ==
  /\ at = "send"
  /\ ~outbox
  /\ outbox' = TRUE
  /\ at' = "wait"
  /\ UNCHANGED <<mbox, inbox, mail, kept, ret, fw, noise>>

\* fb.buf drops the two bits of the bus alias; the bases get an offset.
Keep(v, w) ==
  CASE v = "buf" -> w % (1024 * MB)
    [] v = "arm_base_address" -> w + MB
    [] v = "vc_base_address" -> w + 8 * MB
    [] OTHER -> w

Result(f, words) ==
  CASE f.ret = "word 5" -> words[5]
    [] f.ret = "word 6" -> words[6]
    [] f.ret \in {"agrees", "differs"} ->
         LET same == \A v \in DOMAIN f.keep : words[f.keep[v]] = f.send[f.keep[v] - 1]
         IN IF same <=> f.ret = "agrees" THEN 0 ELSE 1
    [] OTHER -> 0

Taken(f, words) ==
  [v \in DOMAIN kept |->
     IF v \notin DOMAIN f.keep THEN kept[v]
     ELSE IF f.keep[v] = -1 THEN 0 ELSE Keep(v, words[f.keep[v]])]

\* One turn of the loop: an answer for another channel, or a failure, is
\* dropped and the loop waits again.
mail_read ==
  /\ at = "wait"
  /\ inbox # <<>>
  /\ inbox' = Tail(inbox)
  /\ IF Head(inbox) = "r" /\ mbox[1] = SUCCESS
       THEN /\ kept' = Taken(mail, mbox)
            /\ IF mail.ret = "never" THEN UNCHANGED <<mail, at, ret>>
               ELSE /\ ret' = Result(mail, mbox)
                    /\ mail' = NoCall
                    /\ at' = "idle"
       ELSE UNCHANGED <<kept, mail, at, ret>>
  /\ UNCHANGED <<mbox, outbox, fw, noise>>

-----------------------------------------------------------------------------
(***************************************************************************)
(* The firmware (external).  It walks the tags from word 2: a tag, the     *)
(* size of its values, and the values, up to a tag 0 within the length of  *)
(* the message.  A message that has no such end is answered by a failure.  *)
(***************************************************************************)
Parses(m) ==
  LET ends[i \in Nat] ==
        /\ 4 * i < m[0]
        /\ \/ m[i] = 0
           \/ m[i] \in TAGS /\ ends[i + 3 + m[i + 1] \div 4]
  IN ends[2]

\* Exactly one tag, closed by its end tag.
OneTag(m) == m[2] \in TAGS /\ 4 * (5 + m[3] \div 4) < m[0] /\ m[5 + m[3] \div 4] = 0

\* What the firmware does with the first tag, and the words it answers.
Pitch(d) == d.virtual[1] * (d.depth \div 8)

Grant(d, want, have) == IF d.obeys THEN want ELSE have

Obeyed(d, m) ==
  CASE m[2] = SET_DISPLAY -> [d EXCEPT !.display = Grant(d, <<m[5], m[6]>>, @)]
    [] m[2] = SET_VIRTUAL -> [d EXCEPT !.virtual = Grant(d, <<m[5], m[6]>>, @)]
    [] m[2] = SET_DEPTH -> [d EXCEPT !.depth = Grant(d, m[5], @)]
    [] m[2] = SET_PIXEL_ORDER -> [d EXCEPT !.order = Grant(d, m[5], @)]
    [] m[2] = ALLOCATE_FRAME_BUFFER -> [d EXCEPT !.size = Pitch(d) * d.virtual[2]]
    [] OTHER -> d

Answer(d, m) ==
  CASE m[2] = ARM_MEMORY -> <<0, VcBase>>
    [] m[2] = VC_MEMORY -> <<VcBase, 64 * MB>>
    [] m[2] \in {GET_DISPLAY, SET_DISPLAY} -> d.display
    [] m[2] = SET_VIRTUAL -> d.virtual
    [] m[2] \in {GET_DEPTH, SET_DEPTH} -> <<d.depth, m[6]>>
    [] m[2] \in {GET_PIXEL_ORDER, SET_PIXEL_ORDER} -> <<d.order, m[6]>>
    [] m[2] = GET_PITCH -> <<Pitch(d), m[6]>>
    [] m[2] = ALLOCATE_FRAME_BUFFER -> <<d.base + 1024 * MB, d.size>>
    [] OTHER -> <<m[5], m[6]>>

firmware_answers ==
  /\ outbox
  /\ outbox' = FALSE
  /\ inbox' = Append(inbox, "r")
  /\ IF Parses(mbox)
       THEN LET d == Obeyed(fw, mbox)
            IN /\ fw' = d
               /\ mbox' = [mbox EXCEPT ![1] = SUCCESS, ![5] = Answer(d, mbox)[1],
                                       ![6] = Answer(d, mbox)[2]]
       ELSE /\ fw' = fw
            /\ mbox' = [mbox EXCEPT ![1] = FAILURE]
  /\ UNCHANGED <<mail, at, kept, ret, noise>>

other_channel ==
  /\ noise < MaxNoise
  /\ inbox = <<>>
  /\ inbox' = <<"other">>
  /\ noise' = noise + 1
  /\ UNCHANGED <<mbox, outbox, mail, at, kept, ret, fw>>

MailInit ==
  /\ mbox = [k \in WORDS |-> 0]
  /\ outbox = FALSE
  /\ inbox = <<>>
  /\ mail = NoCall
  /\ at = "idle"
  /\ kept = [arm_base_address |-> 0, arm_size |-> 0, vc_base_address |-> 0,
             vc_size |-> 0, width |-> 0, height |-> 0, depth |-> 0, virtWidth |-> 0,
             virtHeight |-> 0, pixel_order |-> 0, buf |-> 0, buf_size |-> 0, pitch |-> 0]
  /\ ret = 0
  /\ fw \in [display : Displays, virtual : {<<640, 480>>}, depth : {16}, order : {0},
             base : FbBases, size : {0}, obeys : BOOLEAN]
  /\ noise = 0
=============================================================================
