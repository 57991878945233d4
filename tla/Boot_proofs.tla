----------------------------- MODULE Boot_proofs -----------------------------
(***************************************************************************)
(* That the boot closes every message to the firmware, knows the           *)
(* framebuffer it was given, and draws only in it, each of main and the    *)
(* timer interrupt in its own area: for every monitor, every place of the  *)
(* framebuffer that leaves room in its last page, any number of interrupts *)
(* and any number of answers of other channels.                            *)
(*                                                                         *)
(* The properties speak of what is handed over and of what is drawn; both  *)
(* rest on how far main has come.  BootInv says, for every step of main,   *)
(* what the message in the buffer is (Posted), that its end survives       *)
(* where the next message does not write it (Survives), which mode the     *)
(* firmware is in (Granted) and what its answer says (Answers), what the   *)
(* code has kept of the answers (Known), and where it draws (Placed).      *)
(***************************************************************************)
EXTENDS Boot, SequenceTheorems, TLAPS

\* The framebuffer ends within the pages identity_map gives it (the run boot_window shows what
\* happens to one that does not).
Room == \A b \in FbBases : (b % PT_SIZE) + 1080 * 7680 <= 4 * PT_SIZE

\* The steps after which main is inside a call of the mailbox.
Calls == {5, 6} \cup 8 .. 15 \cup {18} \cup 22 .. 29 \cup {33}

KEPT == {"arm_base_address", "arm_size", "vc_base_address", "vc_size", "width", "height",
         "depth", "virtWidth", "virtHeight", "pixel_order", "buf", "buf_size", "pitch"}

FW == [display : Nat \X Nat, virtual : Nat \X Nat, depth : Nat, order : Nat,
       base : FbBases, size : Nat, obeys : BOOLEAN]

\* Types.
BootType ==
  /\ pc \in 0 .. 34 /\ at \in {"idle", "send", "wait"}
  /\ mbox \in [WORDS -> Nat]
  /\ fw \in FW
  /\ kept \in [KEPT -> Int]
  /\ tick \in 0 .. MaxTicks /\ lines \in 0 .. MaxLines
  /\ irq \in BOOLEAN /\ gic \in BOOLEAN /\ vectors \in BOOLEAN
  /\ timer \in BOOLEAN /\ outbox \in BOOLEAN

\* The message of step n has been answered.
InHand == at = "wait" /\ ~outbox
Answered(n) == pc >= n \/ (pc = n - 1 /\ InHand)

\* The message in the buffer is that of the call main is in, until it is answered.
Posted ==
  /\ outbox => at = "wait"
  /\ at # "idle" => pc \in Calls /\ mail = Main[pc + 1].f
  /\ at # "idle" /\ ~InHand =>
       /\ OneTag(mbox) /\ mbox[0] = 32
       /\ mbox[2] = mail.send[1] /\ mbox[5] = mail.send[4] /\ mbox[6] = mail.send[5]
  /\ InHand => mbox[1] = SUCCESS
  /\ inbox \in IF InHand THEN {<<"r">>, <<"other", "r">>} ELSE {<< >>, <<"other">>}

\* The end tag that bcm_2708_get_state wrote is there for the messages that rely on it.
Survives == pc \in 19 .. 29 \/ (pc = 18 /\ at # "idle") => mbox[7] = 0

\* The mode the firmware is in.
Granted ==
  /\ fw.virtual = IF fw.obeys /\ Answered(10) THEN <<1920, 1080>> ELSE <<640, 480>>
  /\ fw.depth = IF fw.obeys /\ Answered(12) THEN 32 ELSE 16
  /\ Answered(14) => fw.size = Pitch(fw) * fw.virtual[2]

\* What an answer that main has not read yet says.
Answers ==
  InHand =>
    /\ pc = 8 => <<mbox[5], mbox[6]>> = fw.display
    /\ pc = 13 => mbox[5] = fw.base + 1024 * MB /\ mbox[6] = fw.size
    /\ pc = 14 => mbox[5] = Pitch(fw)
    /\ pc = 15 => mbox[5] = VcBase

\* What the code has kept of the answers, and the map it made of that.
Known ==
  /\ pc >= 9 => <<kept["width"], kept["height"]>> = fw.display
  /\ pc >= 14 => kept["buf_size"] = fw.size
  /\ pc \in 14 .. 16 => kept["buf"] = fw.base
  /\ pc >= 15 => kept["pitch"] = Pitch(fw)
  /\ pc >= 16 => kept["vc_base_address"] = VcBase + 8 * MB
  /\ pc < 17 => pt = NoMap
  /\ pc >= 17 =>
       /\ pt = [vc |-> (VcBase + 8 * MB) \div PT_SIZE, pages |-> fw.size \div PT_SIZE + 1,
                from |-> fw.base \div PT_SIZE,
                to |-> (VcBase + 8 * MB) \div PT_SIZE - 1 - (fw.size \div PT_SIZE + 1)]
       /\ kept["buf"] = pt.to * PT_SIZE + (fw.base % PT_SIZE)

\* A rectangle of the screen, within an area.
Within(r, a) ==
  /\ r.x1 \in a.x1 .. a.x2 /\ r.x2 \in r.x1 .. a.x2
  /\ r.y1 \in a.y1 .. a.y2 /\ r.y2 \in r.y1 .. a.y2

\* Where main and the interrupt draw.
Placed ==
  /\ pc >= 2 => info = [x0 |-> 4, y0 |-> 44, x |-> 4, y |-> 44 + FONT * lines]
  /\ lines > 0 => pc >= 30
  /\ timer => pc >= 18
  /\ pc \in 2 .. 17 => drawn = {}
  /\ area \in {Screen, History, Clock}
  /\ pc >= 2 /\ lines <= HistoryLines => \A r \in drawn : Within(r, area)

\* The inductive invariant.
BootInv ==
  BootType /\ Posted /\ Survives /\ Granted /\ Answers /\ Known /\ Placed

-----------------------------------------------------------------------------
(***************************************************************************)
(* The steps of main, and what the calls among them send.                  *)
(***************************************************************************)
\* The steps, one by one.
LEMMA MainIs ==
  /\ Len(Main) = 34
  /\ Main[1] = Do("push_trace") /\ Main[2] = Do("set_info") /\ Main[3] = Do("gic400_init")
  /\ Main[4] = Do("init_vectors") /\ Main[5] = Do("enable_interrupts")
  /\ Main[6] = Mail(get_arm_address) /\ Main[7] = Mail(get_display_wh)
  /\ Main[8] = Do("fallback") /\ Main[9] = Mail(set_display_wh(1920, 1080))
  /\ Main[10] = Mail(set_virt_wh(1920, 1080)) /\ Main[11] = Mail(set_virt_offset(0, 0))
  /\ Main[12] = Mail(set_display_depth(32)) /\ Main[13] = Mail(set_pixel_order(1))
  /\ Main[14] = Mail(allocate_framebuffer(4096)) /\ Main[15] = Mail(get_pitch)
  /\ Main[16] = Mail(get_vc_address) /\ Main[17] = Do("identity_map")
  /\ Main[18] = Do("timer_init") /\ Main[19] = Mail(bcm_2708_get_state)
  /\ Main[20] = Do("disable_interrupts") /\ Main[21] = Do("history") /\ Main[22] = Do("title")
  /\ Main[23] = Mail(sd_get_base_clock_hz) /\ Main[24] = Mail(sd_set_clock_state(0))
  /\ Main[25] = Mail(sd_set_clock_state(1)) /\ Main[26] = Mail(sd_get_clock_state)
  /\ Main[27] = Mail(sd_get_base_clock_hz) /\ Main[28] = Mail(sd_set_clock_state(0))
  /\ Main[29] = Mail(sd_set_clock_state(1)) /\ Main[30] = Mail(sd_get_clock_state)
  /\ Main[31] = Do("enable_interrupts") /\ Main[32] = Do("shell")
  /\ Main[33] = Do("disable_interrupts") /\ Main[34] = Mail(sd_power_off)
  /\ InitFb = 15
<1> DEFINE a == <<Do("push_trace"), Do("set_info"), Do("gic400_init"), Do("init_vectors"),
                  Do("enable_interrupts"), Mail(get_arm_address)>>
           c == <<Mail(get_vc_address), Do("identity_map"), Do("timer_init"),
                  Mail(bcm_2708_get_state), Do("disable_interrupts"), Do("history"), Do("title")>>
           e == <<Do("enable_interrupts"), Do("shell"), Do("disable_interrupts"),
                  Mail(sd_power_off)>>
           b == init_framebuffer
           d == sd_clk
<1>0. Main = a \o b \o c \o d \o d \o e
  BY DEF Main
<1> DEFINE S == {a[i] : i \in 1 .. 6} \cup {b[i] : i \in 1 .. 9} \cup {c[i] : i \in 1 .. 7}
                \cup {d[i] : i \in 1 .. 4} \cup {e[i] : i \in 1 .. 4}
<1>1. a \in Seq(S) /\ Len(a) = 6 /\ c \in Seq(S) /\ Len(c) = 7 /\ e \in Seq(S) /\ Len(e) = 4
  OBVIOUS
<1>2. b \in Seq(S) /\ Len(b) = 9
  BY DEF init_framebuffer
<1>3. d \in Seq(S) /\ Len(d) = 4
  BY DEF sd_clk
<1>4. /\ a[1] = Do("push_trace") /\ a[2] = Do("set_info") /\ a[3] = Do("gic400_init")
      /\ a[4] = Do("init_vectors") /\ a[5] = Do("enable_interrupts") /\ a[6] = Mail(get_arm_address)
  OBVIOUS
<1>5. /\ b[1] = Mail(get_display_wh) /\ b[2] = Do("fallback") /\ b[3] = Mail(set_display_wh(1920, 1080))
      /\ b[4] = Mail(set_virt_wh(1920, 1080)) /\ b[5] = Mail(set_virt_offset(0, 0))
      /\ b[6] = Mail(set_display_depth(32)) /\ b[7] = Mail(set_pixel_order(1))
      /\ b[8] = Mail(allocate_framebuffer(4096)) /\ b[9] = Mail(get_pitch)
  BY DEF init_framebuffer
<1>6. /\ c[1] = Mail(get_vc_address) /\ c[2] = Do("identity_map") /\ c[3] = Do("timer_init")
      /\ c[4] = Mail(bcm_2708_get_state) /\ c[5] = Do("disable_interrupts")
      /\ c[6] = Do("history") /\ c[7] = Do("title")
  OBVIOUS
<1>7. /\ d[1] = Mail(sd_get_base_clock_hz) /\ d[2] = Mail(sd_set_clock_state(0))
      /\ d[3] = Mail(sd_set_clock_state(1)) /\ d[4] = Mail(sd_get_clock_state)
  BY DEF sd_clk
<1>8. /\ e[1] = Do("enable_interrupts") /\ e[2] = Do("shell") /\ e[3] = Do("disable_interrupts")
      /\ e[4] = Mail(sd_power_off)
  OBVIOUS
<1>9. InitFb = 15
  BY DEF InitFb, init_framebuffer
<1> HIDE DEF a, b, c, d, e, S
<1> DEFINE ab == a \o b
           abc == ab \o c
           abcd == abc \o d
           abcdd == abcd \o d
           all == abcdd \o e
<1>10. /\ ab \in Seq(S) /\ Len(ab) = 15
       /\ \A i \in 1 .. 6 : ab[i] = a[i]
       /\ \A i \in 1 .. 9 : ab[6 + i] = b[i]
  <2>1. a \in Seq(S) /\ b \in Seq(S)
    BY <1>1, <1>2
  <2>2. Len(a) = 6 /\ Len(b) = 9
    BY <1>1, <1>2
  <2>3. /\ ab \in Seq(S) /\ Len(ab) = Len(a) + Len(b)
        /\ \A i \in 1 .. Len(a) : ab[i] = a[i]
        /\ \A i \in 1 .. Len(b) : ab[Len(a) + i] = b[i]
    BY <2>1 DEF ab
  <2> HIDE DEF ab
  <2>4. QED
    BY <2>1, <2>2, <2>3
<1> HIDE DEF ab
<1>11. /\ abc \in Seq(S) /\ Len(abc) = 22
       /\ \A i \in 1 .. 15 : abc[i] = ab[i]
       /\ \A i \in 1 .. 7 : abc[15 + i] = c[i]
  <2>1. ab \in Seq(S) /\ c \in Seq(S)
    BY <1>10, <1>1
  <2>2. Len(ab) = 15 /\ Len(c) = 7
    BY <1>10, <1>1
  <2>3. /\ abc \in Seq(S) /\ Len(abc) = Len(ab) + Len(c)
        /\ \A i \in 1 .. Len(ab) : abc[i] = ab[i]
        /\ \A i \in 1 .. Len(c) : abc[Len(ab) + i] = c[i]
    BY <2>1 DEF abc
  <2> HIDE DEF abc
  <2>4. QED
    BY <2>1, <2>2, <2>3
<1> HIDE DEF abc
<1>12. /\ abcd \in Seq(S) /\ Len(abcd) = 26
       /\ \A i \in 1 .. 22 : abcd[i] = abc[i]
       /\ \A i \in 1 .. 4 : abcd[22 + i] = d[i]
  <2>1. abc \in Seq(S) /\ d \in Seq(S)
    BY <1>11, <1>3
  <2>2. Len(abc) = 22 /\ Len(d) = 4
    BY <1>11, <1>3
  <2>3. /\ abcd \in Seq(S) /\ Len(abcd) = Len(abc) + Len(d)
        /\ \A i \in 1 .. Len(abc) : abcd[i] = abc[i]
        /\ \A i \in 1 .. Len(d) : abcd[Len(abc) + i] = d[i]
    BY <2>1 DEF abcd
  <2> HIDE DEF abcd
  <2>4. QED
    BY <2>1, <2>2, <2>3
<1> HIDE DEF abcd
<1>13. /\ abcdd \in Seq(S) /\ Len(abcdd) = 30
       /\ \A i \in 1 .. 26 : abcdd[i] = abcd[i]
       /\ \A i \in 1 .. 4 : abcdd[26 + i] = d[i]
  <2>1. abcd \in Seq(S) /\ d \in Seq(S)
    BY <1>12, <1>3
  <2>2. Len(abcd) = 26 /\ Len(d) = 4
    BY <1>12, <1>3
  <2>3. /\ abcdd \in Seq(S) /\ Len(abcdd) = Len(abcd) + Len(d)
        /\ \A i \in 1 .. Len(abcd) : abcdd[i] = abcd[i]
        /\ \A i \in 1 .. Len(d) : abcdd[Len(abcd) + i] = d[i]
    BY <2>1 DEF abcdd
  <2> HIDE DEF abcdd
  <2>4. QED
    BY <2>1, <2>2, <2>3
<1> HIDE DEF abcdd
<1>14. /\ all \in Seq(S) /\ Len(all) = 34
       /\ \A i \in 1 .. 30 : all[i] = abcdd[i]
       /\ \A i \in 1 .. 4 : all[30 + i] = e[i]
  <2>1. abcdd \in Seq(S) /\ e \in Seq(S)
    BY <1>13, <1>1
  <2>2. Len(abcdd) = 30 /\ Len(e) = 4
    BY <1>13, <1>1
  <2>3. /\ all \in Seq(S) /\ Len(all) = Len(abcdd) + Len(e)
        /\ \A i \in 1 .. Len(abcdd) : all[i] = abcdd[i]
        /\ \A i \in 1 .. Len(e) : all[Len(abcdd) + i] = e[i]
    BY <2>1 DEF all
  <2> HIDE DEF all
  <2>4. QED
    BY <2>1, <2>2, <2>3
<1>15. Main = all
  BY <1>0 DEF all, abcdd, abcd, abc, ab
<1> HIDE DEF all
<1>16. Len(Main) = 34
  BY <1>14, <1>15
<1>a. \A i \in 1 .. 15 : abc[i] = ab[i]
  BY <1>11
<1>b. \A i \in 1 .. 22 : abcd[i] = abc[i]
  BY <1>12
<1>c. \A i \in 1 .. 26 : abcdd[i] = abcd[i]
  BY <1>13
<1>d. \A i \in 1 .. 30 : all[i] = abcdd[i]
  BY <1>14
<1>17. \A i \in 1 .. 15 : Main[i] = ab[i]
  <2>1. TAKE i \in 1 .. 15
  <2>2. all[i] = abcdd[i] /\ abcdd[i] = abcd[i] /\ abcd[i] = abc[i] /\ abc[i] = ab[i]
    BY <1>a, <1>b, <1>c, <1>d
  <2>3. QED
    BY <2>2, <1>15
<1>18. \A i \in 1 .. 7 : Main[15 + i] = c[i]
  <2>1. TAKE i \in 1 .. 7
  <2>2. 15 + i \in 1 .. 22
    OBVIOUS
  <2>3. all[15 + i] = abcdd[15 + i] /\ abcdd[15 + i] = abcd[15 + i] /\ abcd[15 + i] = abc[15 + i]
    BY <1>b, <1>c, <1>d, <2>2
  <2>4. abc[15 + i] = c[i]
    BY <1>11
  <2>5. QED
    BY <2>3, <2>4, <1>15
<1>19. \A i \in 1 .. 4 : Main[22 + i] = d[i] /\ Main[26 + i] = d[i] /\ Main[30 + i] = e[i]
  <2>1. TAKE i \in 1 .. 4
  <2>2. 22 + i \in 1 .. 26 /\ 26 + i \in 1 .. 30
    OBVIOUS
  <2>3. all[22 + i] = abcdd[22 + i] /\ abcdd[22 + i] = abcd[22 + i] /\ all[26 + i] = abcdd[26 + i]
    BY <1>c, <1>d, <2>2
  <2>4. abcd[22 + i] = d[i] /\ abcdd[26 + i] = d[i] /\ all[30 + i] = e[i]
    BY <1>12, <1>13, <1>14
  <2>5. QED
    BY <2>3, <2>4, <1>15
<1>20. \A i \in 1 .. 9 : Main[6 + i] = b[i]
  BY <1>10, <1>17
<1>21. \A i \in 1 .. 6 : Main[i] = a[i]
  BY <1>10, <1>17
<1>22. /\ Main[1] = a[1] /\ Main[2] = a[2] /\ Main[3] = a[3] /\ Main[4] = a[4]
       /\ Main[5] = a[5] /\ Main[6] = a[6]
  BY <1>21
<1>23. /\ Main[7] = b[1] /\ Main[8] = b[2] /\ Main[9] = b[3] /\ Main[10] = b[4] /\ Main[11] = b[5]
       /\ Main[12] = b[6] /\ Main[13] = b[7] /\ Main[14] = b[8] /\ Main[15] = b[9]
  <2>1. \A i \in 1 .. 9 : Main[6 + i] = b[i]
    BY <1>20
  <2>2. Main[6 + 1] = b[1] /\ Main[6 + 2] = b[2] /\ Main[6 + 3] = b[3] /\ Main[6 + 4] = b[4]
    BY <2>1
  <2>3. /\ Main[6 + 5] = b[5] /\ Main[6 + 6] = b[6] /\ Main[6 + 7] = b[7] /\ Main[6 + 8] = b[8]
        /\ Main[6 + 9] = b[9]
    BY <2>1
  <2>4. QED
    BY <2>2, <2>3
<1>24. /\ Main[16] = c[1] /\ Main[17] = c[2] /\ Main[18] = c[3] /\ Main[19] = c[4]
       /\ Main[20] = c[5] /\ Main[21] = c[6] /\ Main[22] = c[7]
  <2>1. /\ Main[15 + 1] = c[1] /\ Main[15 + 2] = c[2] /\ Main[15 + 3] = c[3]
        /\ Main[15 + 4] = c[4] /\ Main[15 + 5] = c[5] /\ Main[15 + 6] = c[6]
        /\ Main[15 + 7] = c[7]
    BY <1>18
  <2>2. QED
    BY <2>1
<1>25. /\ Main[23] = d[1] /\ Main[24] = d[2] /\ Main[25] = d[3] /\ Main[26] = d[4]
       /\ Main[27] = d[1] /\ Main[28] = d[2] /\ Main[29] = d[3] /\ Main[30] = d[4]
       /\ Main[31] = e[1] /\ Main[32] = e[2] /\ Main[33] = e[3] /\ Main[34] = e[4]
  <2>1. /\ Main[22 + 1] = d[1] /\ Main[22 + 2] = d[2] /\ Main[22 + 3] = d[3]
        /\ Main[22 + 4] = d[4] /\ Main[26 + 1] = d[1] /\ Main[26 + 2] = d[2]
        /\ Main[26 + 3] = d[3] /\ Main[26 + 4] = d[4]
    BY <1>19
  <2>2. /\ Main[30 + 1] = e[1] /\ Main[30 + 2] = e[2] /\ Main[30 + 3] = e[3] /\ Main[30 + 4] = e[4]
    BY <1>19
  <2>3. QED
    BY <2>1, <2>2
<1>26. QED
  BY <1>4, <1>5, <1>6, <1>7, <1>8, <1>9, <1>16, <1>22, <1>23, <1>24, <1>25

\* Where main is when it does something else than a call.
LEMMA StepAt ==
  ASSUME pc \in 0 .. 34, NEW op, Step(op)
  PROVE  /\ at = "idle" /\ pc \in 0 .. 33
         /\ op = "mail" => pc \in Calls
         /\ op = "push_trace" => pc = 0
         /\ op = "set_info" => pc = 1
         /\ op = "gic400_init" => pc = 2
         /\ op = "init_vectors" => pc = 3
         /\ op = "enable_interrupts" => pc \in {4, 30}
         /\ op = "fallback" => pc = 7
         /\ op = "identity_map" => pc = 16
         /\ op = "timer_init" => pc = 17
         /\ op = "disable_interrupts" => pc \in {19, 32}
         /\ op = "history" => pc = 20
         /\ op = "title" => pc = 21
         /\ op = "shell" => pc = 31
<1> DEFINE m == Main
<1>1. Len(m) = 34 /\ pc < Len(m) /\ at = "idle" /\ m[pc + 1].op = op
  BY MainIs DEF Step
<1>2. /\ m[1].op = "push_trace" /\ m[2].op = "set_info" /\ m[3].op = "gic400_init"
      /\ m[4].op = "init_vectors" /\ m[5].op = "enable_interrupts" /\ m[8].op = "fallback"
      /\ m[17].op = "identity_map" /\ m[18].op = "timer_init" /\ m[20].op = "disable_interrupts"
      /\ m[21].op = "history" /\ m[22].op = "title" /\ m[31].op = "enable_interrupts"
      /\ m[32].op = "shell" /\ m[33].op = "disable_interrupts"
  BY MainIs DEF Do
<1>3. /\ m[6].op = "mail" /\ m[7].op = "mail" /\ m[9].op = "mail" /\ m[10].op = "mail"
      /\ m[11].op = "mail" /\ m[12].op = "mail" /\ m[13].op = "mail" /\ m[14].op = "mail"
      /\ m[15].op = "mail" /\ m[16].op = "mail" /\ m[19].op = "mail" /\ m[23].op = "mail"
      /\ m[24].op = "mail" /\ m[25].op = "mail" /\ m[26].op = "mail" /\ m[27].op = "mail"
      /\ m[28].op = "mail" /\ m[29].op = "mail" /\ m[30].op = "mail" /\ m[34].op = "mail"
  BY MainIs DEF Mail
<1> HIDE DEF m
<1>4. pc \in 0 .. 33
  BY <1>1
<1>5. CASE pc \in Calls
  <2>1. pc + 1 \in {6, 7} \cup 9 .. 16 \cup {19} \cup 23 .. 30 \cup {34}
    BY <1>5 DEF Calls
  <2>2. m[pc + 1].op = "mail"
    BY <2>1, <1>3
  <2>3. QED
    BY <2>2, <1>1, <1>4, <1>5
<1>6. CASE pc \notin Calls
  <2>1. \/ pc = 0 \/ pc = 1 \/ pc = 2 \/ pc = 3 \/ pc = 4 \/ pc = 7 \/ pc = 16 \/ pc = 17
        \/ pc = 19 \/ pc = 20 \/ pc = 21 \/ pc = 30 \/ pc = 31 \/ pc = 32
    BY <1>4, <1>6 DEF Calls
  <2>2. QED
    BY <2>1, <1>1, <1>2, <1>4
<1>7. QED
  BY <1>5, <1>6

\* A message of one tag; its end is the last word sent, or is not sent at all.
WellMade(f) ==
  /\ f.total = 8 /\ f.ret # "never"
  /\ f.send \in Seq(Nat) /\ Len(f.send) \in {5, 6}
  /\ f.send[1] \in TAGS /\ f.send[2] \in {4, 8}
  /\ Len(f.send) = 6 => f.send[6] = 0
  /\ f.send[2] = 4 => f.send[5] = 0

\* The words of a message.
Words(f, w) == f.send = w /\ f.total = 8 /\ f.ret # "never"

\* The message of step p + 1.
Good(p, f) ==
  /\ WellMade(f)
  /\ Len(f.send) = 5 => p \in 22 .. 29
  /\ p \in {18} \cup 22 .. 29 => f.send[2] = 8
  /\ p = 18 => Len(f.send) = 6
  /\ f.send[1] = SET_DISPLAY <=> p = 8
  /\ f.send[1] = SET_VIRTUAL <=> p = 9
  /\ f.send[1] = SET_DEPTH <=> p = 11
  /\ f.send[1] = SET_PIXEL_ORDER <=> p = 12
  /\ f.send[1] = ALLOCATE_FRAME_BUFFER <=> p = 13
  /\ p = 9 => f.send[4] = 1920 /\ f.send[5] = 1080
  /\ p = 11 => f.send[4] = 32
  /\ p = 14 => f.send[1] = GET_PITCH
  /\ p = 15 => f.send[1] = VC_MEMORY

\* The messages that main sends.
LEMMA MessagesMade == \A p \in Calls : Good(p, Main[p + 1].f)
<1>t. /\ ARM_MEMORY \in TAGS /\ GET_DISPLAY \in TAGS /\ SET_DISPLAY \in TAGS
      /\ SET_VIRTUAL \in TAGS /\ SET_VIRT_OFFSET \in TAGS /\ SET_DEPTH \in TAGS
      /\ SET_PIXEL_ORDER \in TAGS /\ ALLOCATE_FRAME_BUFFER \in TAGS /\ GET_PITCH \in TAGS
      /\ VC_MEMORY \in TAGS /\ GET_POWER_STATE \in TAGS /\ GET_CLOCK_RATE \in TAGS
      /\ SET_CLOCK_STATE \in TAGS /\ GET_CLOCK_STATE \in TAGS /\ SET_POWER_STATE \in TAGS
  BY DEF TAGS
<1>1. Good(5, get_arm_address)
  <2> DEFINE f == get_arm_address
  <2>1. Words(f, <<ARM_MEMORY, 8, 8, 0, 0, 0>>)
    BY DEF get_arm_address, Tag, Words
  <2> HIDE DEF f
  <2>2. ARM_MEMORY \in Nat
    BY DEF ARM_MEMORY
  <2>3. /\ f.total = 8 /\ f.ret # "never" /\ f.send \in Seq(Nat) /\ Len(f.send) = 6
        /\ f.send[1] = ARM_MEMORY /\ f.send[2] = 8 /\ f.send[4] = 0 /\ f.send[5] = 0 /\ f.send[6] = 0
    BY <2>1, <2>2 DEF Words
  <2>4. WellMade(f)
    BY <2>3, <1>t DEF WellMade
  <2>5. Good(5, f)
    BY <2>3, <2>4 DEF Good, ALLOCATE_FRAME_BUFFER, ARM_MEMORY, SET_DEPTH, SET_DISPLAY, SET_PIXEL_ORDER, SET_VIRTUAL
  <2>q. QED
    BY <2>5 DEF f
<1>2. Good(6, get_display_wh)
  <2> DEFINE f == get_display_wh
  <2>1. Words(f, <<GET_DISPLAY, 8, 8, 0, 0, 0>>)
    BY DEF get_display_wh, Tag, Words
  <2> HIDE DEF f
  <2>2. GET_DISPLAY \in Nat
    BY DEF GET_DISPLAY
  <2>3. /\ f.total = 8 /\ f.ret # "never" /\ f.send \in Seq(Nat) /\ Len(f.send) = 6
        /\ f.send[1] = GET_DISPLAY /\ f.send[2] = 8 /\ f.send[4] = 0 /\ f.send[5] = 0 /\ f.send[6] = 0
    BY <2>1, <2>2 DEF Words
  <2>4. WellMade(f)
    BY <2>3, <1>t DEF WellMade
  <2>5. Good(6, f)
    BY <2>3, <2>4 DEF Good, ALLOCATE_FRAME_BUFFER, GET_DISPLAY, SET_DEPTH, SET_DISPLAY, SET_PIXEL_ORDER, SET_VIRTUAL
  <2>q. QED
    BY <2>5 DEF f
<1>3. Good(8, set_display_wh(1920, 1080))
  <2> DEFINE f == set_display_wh(1920, 1080)
  <2>1. Words(f, <<SET_DISPLAY, 8, 0, 1920, 1080, 0>>)
    BY DEF set_display_wh, Tag, Words
  <2> HIDE DEF f
  <2>2. SET_DISPLAY \in Nat
    BY DEF SET_DISPLAY
  <2>3. /\ f.total = 8 /\ f.ret # "never" /\ f.send \in Seq(Nat) /\ Len(f.send) = 6
        /\ f.send[1] = SET_DISPLAY /\ f.send[2] = 8 /\ f.send[4] = 1920 /\ f.send[5] = 1080 /\ f.send[6] = 0
    BY <2>1, <2>2 DEF Words
  <2>4. WellMade(f)
    BY <2>3, <1>t DEF WellMade
  <2>5. Good(8, f)
    BY <2>3, <2>4 DEF Good, ALLOCATE_FRAME_BUFFER, SET_DEPTH, SET_DISPLAY, SET_PIXEL_ORDER, SET_VIRTUAL
  <2>q. QED
    BY <2>5 DEF f
<1>4. Good(9, set_virt_wh(1920, 1080))
  <2> DEFINE f == set_virt_wh(1920, 1080)
  <2>1. Words(f, <<SET_VIRTUAL, 8, 8, 1920, 1080, 0>>)
    BY DEF set_virt_wh, Tag, Words
  <2> HIDE DEF f
  <2>2. SET_VIRTUAL \in Nat
    BY DEF SET_VIRTUAL
  <2>3. /\ f.total = 8 /\ f.ret # "never" /\ f.send \in Seq(Nat) /\ Len(f.send) = 6
        /\ f.send[1] = SET_VIRTUAL /\ f.send[2] = 8 /\ f.send[4] = 1920 /\ f.send[5] = 1080 /\ f.send[6] = 0
    BY <2>1, <2>2 DEF Words
  <2>4. WellMade(f)
    BY <2>3, <1>t DEF WellMade
  <2>5. Good(9, f)
    BY <2>3, <2>4 DEF Good, ALLOCATE_FRAME_BUFFER, SET_DEPTH, SET_DISPLAY, SET_PIXEL_ORDER, SET_VIRTUAL
  <2>q. QED
    BY <2>5 DEF f
<1>5. Good(10, set_virt_offset(0, 0))
  <2> DEFINE f == set_virt_offset(0, 0)
  <2>1. Words(f, <<SET_VIRT_OFFSET, 8, 8, 0, 0, 0>>)
    BY DEF set_virt_offset, Tag, Words
  <2> HIDE DEF f
  <2>2. SET_VIRT_OFFSET \in Nat
    BY DEF SET_VIRT_OFFSET
  <2>3. /\ f.total = 8 /\ f.ret # "never" /\ f.send \in Seq(Nat) /\ Len(f.send) = 6
        /\ f.send[1] = SET_VIRT_OFFSET /\ f.send[2] = 8 /\ f.send[4] = 0 /\ f.send[5] = 0 /\ f.send[6] = 0
    BY <2>1, <2>2 DEF Words
  <2>4. WellMade(f)
    BY <2>3, <1>t DEF WellMade
  <2>5. Good(10, f)
    BY <2>3, <2>4 DEF Good, ALLOCATE_FRAME_BUFFER, SET_DEPTH, SET_DISPLAY, SET_PIXEL_ORDER, SET_VIRTUAL, SET_VIRT_OFFSET
  <2>q. QED
    BY <2>5 DEF f
<1>6. Good(11, set_display_depth(32))
  <2> DEFINE f == set_display_depth(32)
  <2>1. Words(f, <<SET_DEPTH, 4, 4, 32, 0, 0>>)
    BY DEF set_display_depth, Tag, Words
  <2> HIDE DEF f
  <2>2. SET_DEPTH \in Nat
    BY DEF SET_DEPTH
  <2>3. /\ f.total = 8 /\ f.ret # "never" /\ f.send \in Seq(Nat) /\ Len(f.send) = 6
        /\ f.send[1] = SET_DEPTH /\ f.send[2] = 4 /\ f.send[4] = 32 /\ f.send[5] = 0 /\ f.send[6] = 0
    BY <2>1, <2>2 DEF Words
  <2>4. WellMade(f)
    BY <2>3, <1>t DEF WellMade
  <2>5. Good(11, f)
    BY <2>3, <2>4 DEF Good, ALLOCATE_FRAME_BUFFER, SET_DEPTH, SET_DISPLAY, SET_PIXEL_ORDER, SET_VIRTUAL
  <2>q. QED
    BY <2>5 DEF f
<1>7. Good(12, set_pixel_order(1))
  <2> DEFINE f == set_pixel_order(1)
  <2>1. Words(f, <<SET_PIXEL_ORDER, 4, 4, 1, 0, 0>>)
    BY DEF set_pixel_order, Tag, Words
  <2> HIDE DEF f
  <2>2. SET_PIXEL_ORDER \in Nat
    BY DEF SET_PIXEL_ORDER
  <2>3. /\ f.total = 8 /\ f.ret # "never" /\ f.send \in Seq(Nat) /\ Len(f.send) = 6
        /\ f.send[1] = SET_PIXEL_ORDER /\ f.send[2] = 4 /\ f.send[4] = 1 /\ f.send[5] = 0 /\ f.send[6] = 0
    BY <2>1, <2>2 DEF Words
  <2>4. WellMade(f)
    BY <2>3, <1>t DEF WellMade
  <2>5. Good(12, f)
    BY <2>3, <2>4 DEF Good, ALLOCATE_FRAME_BUFFER, SET_DEPTH, SET_DISPLAY, SET_PIXEL_ORDER, SET_VIRTUAL
  <2>q. QED
    BY <2>5 DEF f
<1>8. Good(13, allocate_framebuffer(4096))
  <2> DEFINE f == allocate_framebuffer(4096)
  <2>1. Words(f, <<ALLOCATE_FRAME_BUFFER, 8, 8, 4096, 0, 0>>)
    BY DEF allocate_framebuffer, Tag, Words
  <2> HIDE DEF f
  <2>2. ALLOCATE_FRAME_BUFFER \in Nat
    BY DEF ALLOCATE_FRAME_BUFFER
  <2>3. /\ f.total = 8 /\ f.ret # "never" /\ f.send \in Seq(Nat) /\ Len(f.send) = 6
        /\ f.send[1] = ALLOCATE_FRAME_BUFFER /\ f.send[2] = 8 /\ f.send[4] = 4096 /\ f.send[5] = 0 /\ f.send[6] = 0
    BY <2>1, <2>2 DEF Words
  <2>4. WellMade(f)
    BY <2>3, <1>t DEF WellMade
  <2>5. Good(13, f)
    BY <2>3, <2>4 DEF Good, ALLOCATE_FRAME_BUFFER, SET_DEPTH, SET_DISPLAY, SET_PIXEL_ORDER, SET_VIRTUAL
  <2>q. QED
    BY <2>5 DEF f
<1>9. Good(14, get_pitch)
  <2> DEFINE f == get_pitch
  <2>1. Words(f, <<GET_PITCH, 4, 4, 0, 0, 0>>)
    BY DEF get_pitch, Tag, Words
  <2> HIDE DEF f
  <2>2. GET_PITCH \in Nat
    BY DEF GET_PITCH
  <2>3. /\ f.total = 8 /\ f.ret # "never" /\ f.send \in Seq(Nat) /\ Len(f.send) = 6
        /\ f.send[1] = GET_PITCH /\ f.send[2] = 4 /\ f.send[4] = 0 /\ f.send[5] = 0 /\ f.send[6] = 0
    BY <2>1, <2>2 DEF Words
  <2>4. WellMade(f)
    BY <2>3, <1>t DEF WellMade
  <2>5. Good(14, f)
    BY <2>3, <2>4 DEF Good, ALLOCATE_FRAME_BUFFER, GET_PITCH, SET_DEPTH, SET_DISPLAY, SET_PIXEL_ORDER, SET_VIRTUAL
  <2>q. QED
    BY <2>5 DEF f
<1>10. Good(15, get_vc_address)
  <2> DEFINE f == get_vc_address
  <2>1. Words(f, <<VC_MEMORY, 8, 8, 0, 0, 0>>)
    BY DEF get_vc_address, Tag, Words
  <2> HIDE DEF f
  <2>2. VC_MEMORY \in Nat
    BY DEF VC_MEMORY
  <2>3. /\ f.total = 8 /\ f.ret # "never" /\ f.send \in Seq(Nat) /\ Len(f.send) = 6
        /\ f.send[1] = VC_MEMORY /\ f.send[2] = 8 /\ f.send[4] = 0 /\ f.send[5] = 0 /\ f.send[6] = 0
    BY <2>1, <2>2 DEF Words
  <2>4. WellMade(f)
    BY <2>3, <1>t DEF WellMade
  <2>5. Good(15, f)
    BY <2>3, <2>4 DEF Good, ALLOCATE_FRAME_BUFFER, SET_DEPTH, SET_DISPLAY, SET_PIXEL_ORDER, SET_VIRTUAL, VC_MEMORY
  <2>q. QED
    BY <2>5 DEF f
<1>11. Good(18, bcm_2708_get_state)
  <2> DEFINE f == bcm_2708_get_state
  <2>1. Words(f, <<GET_POWER_STATE, 8, 8, 0, 0, 0>>)
    BY DEF bcm_2708_get_state, Tag, Words
  <2> HIDE DEF f
  <2>2. GET_POWER_STATE \in Nat
    BY DEF GET_POWER_STATE
  <2>3. /\ f.total = 8 /\ f.ret # "never" /\ f.send \in Seq(Nat) /\ Len(f.send) = 6
        /\ f.send[1] = GET_POWER_STATE /\ f.send[2] = 8 /\ f.send[4] = 0 /\ f.send[5] = 0 /\ f.send[6] = 0
    BY <2>1, <2>2 DEF Words
  <2>4. WellMade(f)
    BY <2>3, <1>t DEF WellMade
  <2>5. Good(18, f)
    BY <2>3, <2>4 DEF Good, ALLOCATE_FRAME_BUFFER, GET_POWER_STATE, SET_DEPTH, SET_DISPLAY, SET_PIXEL_ORDER, SET_VIRTUAL
  <2>q. QED
    BY <2>5 DEF f
<1>12. Good(22, sd_get_base_clock_hz) /\ Good(26, sd_get_base_clock_hz)
  <2> DEFINE f == sd_get_base_clock_hz
  <2>1. Words(f, <<GET_CLOCK_RATE, 8, 4, 1, 0>>)
    BY DEF sd_get_base_clock_hz, Tag, Words, EMMC_CLOCK_ID
  <2> HIDE DEF f
  <2>2. GET_CLOCK_RATE \in Nat
    BY DEF GET_CLOCK_RATE
  <2>3. /\ f.total = 8 /\ f.ret # "never" /\ f.send \in Seq(Nat) /\ Len(f.send) = 5
        /\ f.send[1] = GET_CLOCK_RATE /\ f.send[2] = 8 /\ f.send[4] = 1 /\ f.send[5] = 0
    BY <2>1, <2>2 DEF Words
  <2>4. WellMade(f)
    BY <2>3, <1>t DEF WellMade
  <2>5. Good(22, f)
    BY <2>3, <2>4 DEF Good, ALLOCATE_FRAME_BUFFER, GET_CLOCK_RATE, SET_DEPTH, SET_DISPLAY, SET_PIXEL_ORDER, SET_VIRTUAL
  <2>6. Good(26, f)
    BY <2>3, <2>4 DEF Good, ALLOCATE_FRAME_BUFFER, GET_CLOCK_RATE, SET_DEPTH, SET_DISPLAY, SET_PIXEL_ORDER, SET_VIRTUAL
  <2>q. QED
    BY <2>5, <2>6 DEF f
<1>13. Good(23, sd_set_clock_state(0)) /\ Good(27, sd_set_clock_state(0))
  <2> DEFINE f == sd_set_clock_state(0)
  <2>1. Words(f, <<SET_CLOCK_STATE, 8, 8, 1, 0, 0>>)
    BY DEF sd_set_clock_state, Tag, Words, EMMC_CLOCK_ID
  <2> HIDE DEF f
  <2>2. SET_CLOCK_STATE \in Nat
    BY DEF SET_CLOCK_STATE
  <2>3. /\ f.total = 8 /\ f.ret # "never" /\ f.send \in Seq(Nat) /\ Len(f.send) = 6
        /\ f.send[1] = SET_CLOCK_STATE /\ f.send[2] = 8 /\ f.send[4] = 1 /\ f.send[5] = 0 /\ f.send[6] = 0
    BY <2>1, <2>2 DEF Words
  <2>4. WellMade(f)
    BY <2>3, <1>t DEF WellMade
  <2>5. Good(23, f)
    BY <2>3, <2>4 DEF Good, ALLOCATE_FRAME_BUFFER, SET_CLOCK_STATE, SET_DEPTH, SET_DISPLAY, SET_PIXEL_ORDER, SET_VIRTUAL
  <2>6. Good(27, f)
    BY <2>3, <2>4 DEF Good, ALLOCATE_FRAME_BUFFER, SET_CLOCK_STATE, SET_DEPTH, SET_DISPLAY, SET_PIXEL_ORDER, SET_VIRTUAL
  <2>q. QED
    BY <2>5, <2>6 DEF f
<1>14. Good(24, sd_set_clock_state(1)) /\ Good(28, sd_set_clock_state(1))
  <2> DEFINE f == sd_set_clock_state(1)
  <2>1. Words(f, <<SET_CLOCK_STATE, 8, 8, 1, 1, 0>>)
    BY DEF sd_set_clock_state, Tag, Words, EMMC_CLOCK_ID
  <2> HIDE DEF f
  <2>2. SET_CLOCK_STATE \in Nat
    BY DEF SET_CLOCK_STATE
  <2>3. /\ f.total = 8 /\ f.ret # "never" /\ f.send \in Seq(Nat) /\ Len(f.send) = 6
        /\ f.send[1] = SET_CLOCK_STATE /\ f.send[2] = 8 /\ f.send[4] = 1 /\ f.send[5] = 1 /\ f.send[6] = 0
    BY <2>1, <2>2 DEF Words
  <2>4. WellMade(f)
    BY <2>3, <1>t DEF WellMade
  <2>5. Good(24, f)
    BY <2>3, <2>4 DEF Good, ALLOCATE_FRAME_BUFFER, SET_CLOCK_STATE, SET_DEPTH, SET_DISPLAY, SET_PIXEL_ORDER, SET_VIRTUAL
  <2>6. Good(28, f)
    BY <2>3, <2>4 DEF Good, ALLOCATE_FRAME_BUFFER, SET_CLOCK_STATE, SET_DEPTH, SET_DISPLAY, SET_PIXEL_ORDER, SET_VIRTUAL
  <2>q. QED
    BY <2>5, <2>6 DEF f
<1>15. Good(25, sd_get_clock_state) /\ Good(29, sd_get_clock_state)
  <2> DEFINE f == sd_get_clock_state
  <2>1. Words(f, <<GET_CLOCK_STATE, 8, 4, 1, 0>>)
    BY DEF sd_get_clock_state, Tag, Words, EMMC_CLOCK_ID
  <2> HIDE DEF f
  <2>2. GET_CLOCK_STATE \in Nat
    BY DEF GET_CLOCK_STATE
  <2>3. /\ f.total = 8 /\ f.ret # "never" /\ f.send \in Seq(Nat) /\ Len(f.send) = 5
        /\ f.send[1] = GET_CLOCK_STATE /\ f.send[2] = 8 /\ f.send[4] = 1 /\ f.send[5] = 0
    BY <2>1, <2>2 DEF Words
  <2>4. WellMade(f)
    BY <2>3, <1>t DEF WellMade
  <2>5. Good(25, f)
    BY <2>3, <2>4 DEF Good, ALLOCATE_FRAME_BUFFER, GET_CLOCK_STATE, SET_DEPTH, SET_DISPLAY, SET_PIXEL_ORDER, SET_VIRTUAL
  <2>6. Good(29, f)
    BY <2>3, <2>4 DEF Good, ALLOCATE_FRAME_BUFFER, GET_CLOCK_STATE, SET_DEPTH, SET_DISPLAY, SET_PIXEL_ORDER, SET_VIRTUAL
  <2>q. QED
    BY <2>5, <2>6 DEF f
<1>16. Good(33, sd_power_off)
  <2> DEFINE f == sd_power_off
  <2>1. Words(f, <<SET_POWER_STATE, 8, 8, 0, 0, 0>>)
    BY DEF sd_power_off, Tag, Words
  <2> HIDE DEF f
  <2>2. SET_POWER_STATE \in Nat
    BY DEF SET_POWER_STATE
  <2>3. /\ f.total = 8 /\ f.ret # "never" /\ f.send \in Seq(Nat) /\ Len(f.send) = 6
        /\ f.send[1] = SET_POWER_STATE /\ f.send[2] = 8 /\ f.send[4] = 0 /\ f.send[5] = 0 /\ f.send[6] = 0
    BY <2>1, <2>2 DEF Words
  <2>4. WellMade(f)
    BY <2>3, <1>t DEF WellMade
  <2>5. Good(33, f)
    BY <2>3, <2>4 DEF Good, ALLOCATE_FRAME_BUFFER, SET_DEPTH, SET_DISPLAY, SET_PIXEL_ORDER, SET_POWER_STATE, SET_VIRTUAL
  <2>q. QED
    BY <2>5 DEF f
<1> SUFFICES ASSUME NEW p \in Calls PROVE Good(p, Main[p + 1].f)
  OBVIOUS
<1> DEFINE m == Main
<1>m. /\ m[6].f = get_arm_address
      /\ m[7].f = get_display_wh
      /\ m[9].f = set_display_wh(1920, 1080)
      /\ m[10].f = set_virt_wh(1920, 1080)
      /\ m[11].f = set_virt_offset(0, 0)
      /\ m[12].f = set_display_depth(32)
      /\ m[13].f = set_pixel_order(1)
      /\ m[14].f = allocate_framebuffer(4096)
      /\ m[15].f = get_pitch
      /\ m[16].f = get_vc_address
      /\ m[19].f = bcm_2708_get_state
      /\ m[23].f = sd_get_base_clock_hz
      /\ m[24].f = sd_set_clock_state(0)
      /\ m[25].f = sd_set_clock_state(1)
      /\ m[26].f = sd_get_clock_state
      /\ m[27].f = sd_get_base_clock_hz
      /\ m[28].f = sd_set_clock_state(0)
      /\ m[29].f = sd_set_clock_state(1)
      /\ m[30].f = sd_get_clock_state
      /\ m[34].f = sd_power_off
  BY MainIs DEF Mail
<1> HIDE DEF m
<1>p. p = 5 \/ p = 6 \/ p = 8 \/ p = 9 \/ p = 10 \/ p = 11 \/ p = 12 \/ p = 13 \/ p = 14 \/ p = 15
      \/ p = 18 \/ p = 22 \/ p = 23 \/ p = 24 \/ p = 25 \/ p = 26 \/ p = 27 \/ p = 28 \/ p = 29 \/ p = 33
  BY DEF Calls
<1>r. Good(p, m[p + 1].f)
  <2>5. CASE p = 5
    <3>1. m[p + 1].f = get_arm_address
      BY <2>5, <1>m
    <3>2. QED
      BY <3>1, <2>5, <1>1
  <2>6. CASE p = 6
    <3>1. m[p + 1].f = get_display_wh
      BY <2>6, <1>m
    <3>2. QED
      BY <3>1, <2>6, <1>2
  <2>8. CASE p = 8
    <3>1. m[p + 1].f = set_display_wh(1920, 1080)
      BY <2>8, <1>m
    <3>2. QED
      BY <3>1, <2>8, <1>3
  <2>9. CASE p = 9
    <3>1. m[p + 1].f = set_virt_wh(1920, 1080)
      BY <2>9, <1>m
    <3>2. QED
      BY <3>1, <2>9, <1>4
  <2>10. CASE p = 10
    <3>1. m[p + 1].f = set_virt_offset(0, 0)
      BY <2>10, <1>m
    <3>2. QED
      BY <3>1, <2>10, <1>5
  <2>11. CASE p = 11
    <3>1. m[p + 1].f = set_display_depth(32)
      BY <2>11, <1>m
    <3>2. QED
      BY <3>1, <2>11, <1>6
  <2>12. CASE p = 12
    <3>1. m[p + 1].f = set_pixel_order(1)
      BY <2>12, <1>m
    <3>2. QED
      BY <3>1, <2>12, <1>7
  <2>13. CASE p = 13
    <3>1. m[p + 1].f = allocate_framebuffer(4096)
      BY <2>13, <1>m
    <3>2. QED
      BY <3>1, <2>13, <1>8
  <2>14. CASE p = 14
    <3>1. m[p + 1].f = get_pitch
      BY <2>14, <1>m
    <3>2. QED
      BY <3>1, <2>14, <1>9
  <2>15. CASE p = 15
    <3>1. m[p + 1].f = get_vc_address
      BY <2>15, <1>m
    <3>2. QED
      BY <3>1, <2>15, <1>10
  <2>18. CASE p = 18
    <3>1. m[p + 1].f = bcm_2708_get_state
      BY <2>18, <1>m
    <3>2. QED
      BY <3>1, <2>18, <1>11
  <2>22. CASE p = 22
    <3>1. m[p + 1].f = sd_get_base_clock_hz
      BY <2>22, <1>m
    <3>2. QED
      BY <3>1, <2>22, <1>12
  <2>23. CASE p = 23
    <3>1. m[p + 1].f = sd_set_clock_state(0)
      BY <2>23, <1>m
    <3>2. QED
      BY <3>1, <2>23, <1>13
  <2>24. CASE p = 24
    <3>1. m[p + 1].f = sd_set_clock_state(1)
      BY <2>24, <1>m
    <3>2. QED
      BY <3>1, <2>24, <1>14
  <2>25. CASE p = 25
    <3>1. m[p + 1].f = sd_get_clock_state
      BY <2>25, <1>m
    <3>2. QED
      BY <3>1, <2>25, <1>15
  <2>26. CASE p = 26
    <3>1. m[p + 1].f = sd_get_base_clock_hz
      BY <2>26, <1>m
    <3>2. QED
      BY <3>1, <2>26, <1>12
  <2>27. CASE p = 27
    <3>1. m[p + 1].f = sd_set_clock_state(0)
      BY <2>27, <1>m
    <3>2. QED
      BY <3>1, <2>27, <1>13
  <2>28. CASE p = 28
    <3>1. m[p + 1].f = sd_set_clock_state(1)
      BY <2>28, <1>m
    <3>2. QED
      BY <3>1, <2>28, <1>14
  <2>29. CASE p = 29
    <3>1. m[p + 1].f = sd_get_clock_state
      BY <2>29, <1>m
    <3>2. QED
      BY <3>1, <2>29, <1>15
  <2>33. CASE p = 33
    <3>1. m[p + 1].f = sd_power_off
      BY <2>33, <1>m
    <3>2. QED
      BY <3>1, <2>33, <1>16
  <2>q. QED
    BY <1>p, <2>5, <2>6, <2>8, <2>9, <2>10, <2>11, <2>12, <2>13, <2>14, <2>15, <2>18, <2>22, <2>23, <2>24, <2>25, <2>26, <2>27, <2>28, <2>29, <2>33
<1>s. QED
  BY <1>r DEF m

\* What the call of step p + 1 keeps of the answer.
Keeps(p, k) ==
  /\ \A v \in DOMAIN k : k[v] \in 5 .. 6
  /\ p \notin {6, 8} => "width" \notin DOMAIN k /\ "height" \notin DOMAIN k
  /\ p = 8 => /\ "width" \in DOMAIN k /\ k["width"] = 5
              /\ "height" \in DOMAIN k /\ k["height"] = 6
  /\ p # 13 => "buf" \notin DOMAIN k /\ "buf_size" \notin DOMAIN k
  /\ p = 13 => /\ "buf" \in DOMAIN k /\ k["buf"] = 5
               /\ "buf_size" \in DOMAIN k /\ k["buf_size"] = 6
  /\ p # 14 => "pitch" \notin DOMAIN k
  /\ p = 14 => "pitch" \in DOMAIN k /\ k["pitch"] = 5
  /\ p # 15 => "vc_base_address" \notin DOMAIN k
  /\ p = 15 => "vc_base_address" \in DOMAIN k /\ k["vc_base_address"] = 5

LEMMA MessagesKeep == \A p \in Calls : Keeps(p, Main[p + 1].f.keep)
<1>1. Keeps(5, get_arm_address.keep)
  <2> DEFINE k == get_arm_address.keep
  <2>1. k = [arm_base_address |-> 5, arm_size |-> 6]
    BY DEF get_arm_address, Tag
  <2>2. DOMAIN k = {"arm_base_address", "arm_size"} /\ k["arm_base_address"] = 5 /\ k["arm_size"] = 6
    BY <2>1
  <2> HIDE DEF k
  <2>3. Keeps(5, k)
    BY <2>2 DEF Keeps
  <2>4. QED
    BY <2>3 DEF k
<1>2. Keeps(6, get_display_wh.keep)
  <2> DEFINE k == get_display_wh.keep
  <2>1. k = [width |-> 5, height |-> 6]
    BY DEF get_display_wh, Tag
  <2>2. DOMAIN k = {"width", "height"} /\ k["width"] = 5 /\ k["height"] = 6
    BY <2>1
  <2> HIDE DEF k
  <2>3. Keeps(6, k)
    BY <2>2 DEF Keeps
  <2>4. QED
    BY <2>3 DEF k
<1>3. Keeps(8, set_display_wh(1920, 1080).keep)
  <2> DEFINE k == set_display_wh(1920, 1080).keep
  <2>1. k = [width |-> 5, height |-> 6]
    BY DEF set_display_wh, Tag
  <2>2. DOMAIN k = {"width", "height"} /\ k["width"] = 5 /\ k["height"] = 6
    BY <2>1
  <2> HIDE DEF k
  <2>3. Keeps(8, k)
    BY <2>2 DEF Keeps
  <2>4. QED
    BY <2>3 DEF k
<1>4. Keeps(9, set_virt_wh(1920, 1080).keep)
  <2> DEFINE k == set_virt_wh(1920, 1080).keep
  <2>1. k = [virtWidth |-> 5, virtHeight |-> 6]
    BY DEF set_virt_wh, Tag
  <2>2. DOMAIN k = {"virtWidth", "virtHeight"} /\ k["virtWidth"] = 5 /\ k["virtHeight"] = 6
    BY <2>1
  <2> HIDE DEF k
  <2>3. Keeps(9, k)
    BY <2>2 DEF Keeps
  <2>4. QED
    BY <2>3 DEF k
<1>5. Keeps(10, set_virt_offset(0, 0).keep)
  <2>1. set_virt_offset(0, 0).keep = NoKeep
    BY DEF set_virt_offset, Tag
  <2>2. QED
    BY <2>1 DEF Keeps, NoKeep
<1>6. Keeps(11, set_display_depth(32).keep)
  <2> DEFINE k == set_display_depth(32).keep
  <2>1. k = [depth |-> 5]
    BY DEF set_display_depth, Tag
  <2>2. DOMAIN k = {"depth"} /\ k["depth"] = 5
    BY <2>1
  <2> HIDE DEF k
  <2>3. Keeps(11, k)
    BY <2>2 DEF Keeps
  <2>4. QED
    BY <2>3 DEF k
<1>7. Keeps(12, set_pixel_order(1).keep)
  <2> DEFINE k == set_pixel_order(1).keep
  <2>1. k = [pixel_order |-> 5]
    BY DEF set_pixel_order, Tag
  <2>2. DOMAIN k = {"pixel_order"} /\ k["pixel_order"] = 5
    BY <2>1
  <2> HIDE DEF k
  <2>3. Keeps(12, k)
    BY <2>2 DEF Keeps
  <2>4. QED
    BY <2>3 DEF k
<1>8. Keeps(13, allocate_framebuffer(4096).keep)
  <2> DEFINE k == allocate_framebuffer(4096).keep
  <2>1. k = [buf |-> 5, buf_size |-> 6]
    BY DEF allocate_framebuffer, Tag
  <2>2. DOMAIN k = {"buf", "buf_size"} /\ k["buf"] = 5 /\ k["buf_size"] = 6
    BY <2>1
  <2> HIDE DEF k
  <2>3. Keeps(13, k)
    BY <2>2 DEF Keeps
  <2>4. QED
    BY <2>3 DEF k
<1>9. Keeps(14, get_pitch.keep)
  <2> DEFINE k == get_pitch.keep
  <2>1. k = [pitch |-> 5]
    BY DEF get_pitch, Tag
  <2>2. DOMAIN k = {"pitch"} /\ k["pitch"] = 5
    BY <2>1
  <2> HIDE DEF k
  <2>3. Keeps(14, k)
    BY <2>2 DEF Keeps
  <2>4. QED
    BY <2>3 DEF k
<1>10. Keeps(15, get_vc_address.keep)
  <2> DEFINE k == get_vc_address.keep
  <2>1. k = [vc_base_address |-> 5, vc_size |-> 6]
    BY DEF get_vc_address, Tag
  <2>2. DOMAIN k = {"vc_base_address", "vc_size"} /\ k["vc_base_address"] = 5 /\ k["vc_size"] = 6
    BY <2>1
  <2> HIDE DEF k
  <2>3. Keeps(15, k)
    BY <2>2 DEF Keeps
  <2>4. QED
    BY <2>3 DEF k
<1>11. Keeps(18, bcm_2708_get_state.keep)
  <2>1. bcm_2708_get_state.keep = NoKeep
    BY DEF bcm_2708_get_state, Tag
  <2>2. QED
    BY <2>1 DEF Keeps, NoKeep
<1>12. Keeps(22, sd_get_base_clock_hz.keep) /\ Keeps(26, sd_get_base_clock_hz.keep)
  <2>1. sd_get_base_clock_hz.keep = NoKeep
    BY DEF sd_get_base_clock_hz, Tag
  <2>2. QED
    BY <2>1 DEF Keeps, NoKeep
<1>13. Keeps(23, sd_set_clock_state(0).keep) /\ Keeps(27, sd_set_clock_state(0).keep)
  <2>1. sd_set_clock_state(0).keep = NoKeep
    BY DEF sd_set_clock_state, Tag
  <2>2. QED
    BY <2>1 DEF Keeps, NoKeep
<1>14. Keeps(24, sd_set_clock_state(1).keep) /\ Keeps(28, sd_set_clock_state(1).keep)
  <2>1. sd_set_clock_state(1).keep = NoKeep
    BY DEF sd_set_clock_state, Tag
  <2>2. QED
    BY <2>1 DEF Keeps, NoKeep
<1>15. Keeps(25, sd_get_clock_state.keep) /\ Keeps(29, sd_get_clock_state.keep)
  <2>1. sd_get_clock_state.keep = NoKeep
    BY DEF sd_get_clock_state, Tag
  <2>2. QED
    BY <2>1 DEF Keeps, NoKeep
<1>16. Keeps(33, sd_power_off.keep)
  <2>1. sd_power_off.keep = NoKeep
    BY DEF sd_power_off, Tag
  <2>2. QED
    BY <2>1 DEF Keeps, NoKeep
<1> SUFFICES ASSUME NEW p \in Calls PROVE Keeps(p, Main[p + 1].f.keep)
  OBVIOUS
<1> DEFINE m == Main
<1>m. /\ m[6].f = get_arm_address
      /\ m[7].f = get_display_wh
      /\ m[9].f = set_display_wh(1920, 1080)
      /\ m[10].f = set_virt_wh(1920, 1080)
      /\ m[11].f = set_virt_offset(0, 0)
      /\ m[12].f = set_display_depth(32)
      /\ m[13].f = set_pixel_order(1)
      /\ m[14].f = allocate_framebuffer(4096)
      /\ m[15].f = get_pitch
      /\ m[16].f = get_vc_address
      /\ m[19].f = bcm_2708_get_state
      /\ m[23].f = sd_get_base_clock_hz
      /\ m[24].f = sd_set_clock_state(0)
      /\ m[25].f = sd_set_clock_state(1)
      /\ m[26].f = sd_get_clock_state
      /\ m[27].f = sd_get_base_clock_hz
      /\ m[28].f = sd_set_clock_state(0)
      /\ m[29].f = sd_set_clock_state(1)
      /\ m[30].f = sd_get_clock_state
      /\ m[34].f = sd_power_off
  BY MainIs DEF Mail
<1> HIDE DEF m
<1>p. p = 5 \/ p = 6 \/ p = 8 \/ p = 9 \/ p = 10 \/ p = 11 \/ p = 12 \/ p = 13 \/ p = 14 \/ p = 15
      \/ p = 18 \/ p = 22 \/ p = 23 \/ p = 24 \/ p = 25 \/ p = 26 \/ p = 27 \/ p = 28 \/ p = 29 \/ p = 33
  BY DEF Calls
<1>r. Keeps(p, m[p + 1].f.keep)
  <2>5. CASE p = 5
    <3>1. m[p + 1].f = get_arm_address
      BY <2>5, <1>m
    <3>2. QED
      BY <3>1, <2>5, <1>1
  <2>6. CASE p = 6
    <3>1. m[p + 1].f = get_display_wh
      BY <2>6, <1>m
    <3>2. QED
      BY <3>1, <2>6, <1>2
  <2>8. CASE p = 8
    <3>1. m[p + 1].f = set_display_wh(1920, 1080)
      BY <2>8, <1>m
    <3>2. QED
      BY <3>1, <2>8, <1>3
  <2>9. CASE p = 9
    <3>1. m[p + 1].f = set_virt_wh(1920, 1080)
      BY <2>9, <1>m
    <3>2. QED
      BY <3>1, <2>9, <1>4
  <2>10. CASE p = 10
    <3>1. m[p + 1].f = set_virt_offset(0, 0)
      BY <2>10, <1>m
    <3>2. QED
      BY <3>1, <2>10, <1>5
  <2>11. CASE p = 11
    <3>1. m[p + 1].f = set_display_depth(32)
      BY <2>11, <1>m
    <3>2. QED
      BY <3>1, <2>11, <1>6
  <2>12. CASE p = 12
    <3>1. m[p + 1].f = set_pixel_order(1)
      BY <2>12, <1>m
    <3>2. QED
      BY <3>1, <2>12, <1>7
  <2>13. CASE p = 13
    <3>1. m[p + 1].f = allocate_framebuffer(4096)
      BY <2>13, <1>m
    <3>2. QED
      BY <3>1, <2>13, <1>8
  <2>14. CASE p = 14
    <3>1. m[p + 1].f = get_pitch
      BY <2>14, <1>m
    <3>2. QED
      BY <3>1, <2>14, <1>9
  <2>15. CASE p = 15
    <3>1. m[p + 1].f = get_vc_address
      BY <2>15, <1>m
    <3>2. QED
      BY <3>1, <2>15, <1>10
  <2>18. CASE p = 18
    <3>1. m[p + 1].f = bcm_2708_get_state
      BY <2>18, <1>m
    <3>2. QED
      BY <3>1, <2>18, <1>11
  <2>22. CASE p = 22
    <3>1. m[p + 1].f = sd_get_base_clock_hz
      BY <2>22, <1>m
    <3>2. QED
      BY <3>1, <2>22, <1>12
  <2>23. CASE p = 23
    <3>1. m[p + 1].f = sd_set_clock_state(0)
      BY <2>23, <1>m
    <3>2. QED
      BY <3>1, <2>23, <1>13
  <2>24. CASE p = 24
    <3>1. m[p + 1].f = sd_set_clock_state(1)
      BY <2>24, <1>m
    <3>2. QED
      BY <3>1, <2>24, <1>14
  <2>25. CASE p = 25
    <3>1. m[p + 1].f = sd_get_clock_state
      BY <2>25, <1>m
    <3>2. QED
      BY <3>1, <2>25, <1>15
  <2>26. CASE p = 26
    <3>1. m[p + 1].f = sd_get_base_clock_hz
      BY <2>26, <1>m
    <3>2. QED
      BY <3>1, <2>26, <1>12
  <2>27. CASE p = 27
    <3>1. m[p + 1].f = sd_set_clock_state(0)
      BY <2>27, <1>m
    <3>2. QED
      BY <3>1, <2>27, <1>13
  <2>28. CASE p = 28
    <3>1. m[p + 1].f = sd_set_clock_state(1)
      BY <2>28, <1>m
    <3>2. QED
      BY <3>1, <2>28, <1>14
  <2>29. CASE p = 29
    <3>1. m[p + 1].f = sd_get_clock_state
      BY <2>29, <1>m
    <3>2. QED
      BY <3>1, <2>29, <1>15
  <2>33. CASE p = 33
    <3>1. m[p + 1].f = sd_power_off
      BY <2>33, <1>m
    <3>2. QED
      BY <3>1, <2>33, <1>16
  <2>q. QED
    BY <1>p, <2>5, <2>6, <2>8, <2>9, <2>10, <2>11, <2>12, <2>13, <2>14, <2>15, <2>18, <2>22, <2>23, <2>24, <2>25, <2>26, <2>27, <2>28, <2>29, <2>33
<1>s. QED
  BY <1>r DEF m

-----------------------------------------------------------------------------
(***************************************************************************)
(* The buffer of the mailbox.                                              *)
(***************************************************************************)
\* What a call writes into the buffer.
LEMMA FilledIs ==
  ASSUME NEW words, NEW f, f.send \in Seq(Nat), Len(f.send) \in 5 .. 7
  PROVE  LET m == Filled(f, words)
         IN  /\ DOMAIN m = WORDS
             /\ m[0] = 4 * f.total /\ m[1] = 0
             /\ m[2] = f.send[1] /\ m[3] = f.send[2] /\ m[4] = f.send[3]
             /\ m[5] = f.send[4] /\ m[6] = f.send[5]
             /\ m[7] = IF Len(f.send) = 5 THEN words[7] ELSE f.send[6]
             /\ m[8] = IF Len(f.send) = 7 THEN f.send[7] ELSE words[8]
<1> DEFINE m == Filled(f, words)
           s == f.send
           n == Len(s)
<1>0. n \in 5 .. 7
  OBVIOUS
<1>1. DOMAIN m = WORDS
  BY DEF Filled
<1>2. ASSUME NEW k \in WORDS
      PROVE  m[k] = CASE k = 0 -> 4 * f.total
                      [] k = 1 -> REQUEST
                      [] k \in 2 .. 1 + n -> s[k - 1]
                      [] OTHER -> words[k]
  BY DEF Filled
<1> HIDE DEF m, s, n
<1>3. m[0] = 4 * f.total /\ m[1] = 0
  <2>1. 0 \in WORDS /\ 1 \in WORDS
    BY DEF WORDS
  <2>2. QED
    BY <1>2, <2>1 DEF REQUEST
<1>4. ASSUME NEW k \in 2 .. 1 + n
      PROVE  m[k] = s[k - 1]
  <2>1. k \in WORDS /\ k # 0 /\ k # 1
    BY <1>0 DEF WORDS
  <2>2. QED
    BY <1>2, <2>1
<1>5. ASSUME NEW k \in 2 + n .. 8
      PROVE  m[k] = words[k]
  <2>1. k \in WORDS /\ k # 0 /\ k # 1 /\ ~(k \in 2 .. 1 + n)
    BY <1>0 DEF WORDS
  <2>2. QED
    BY <1>2, <2>1
<1>6. m[2] = s[1] /\ m[3] = s[2] /\ m[4] = s[3] /\ m[5] = s[4] /\ m[6] = s[5]
  <2>1. /\ 2 \in 2 .. 1 + n /\ 3 \in 2 .. 1 + n /\ 4 \in 2 .. 1 + n /\ 5 \in 2 .. 1 + n
        /\ 6 \in 2 .. 1 + n
    BY <1>0
  <2>2. m[2] = s[2 - 1] /\ m[3] = s[3 - 1] /\ m[4] = s[4 - 1] /\ m[5] = s[5 - 1] /\ m[6] = s[6 - 1]
    BY <1>4, <2>1
  <2>3. QED
    BY <2>2
<1>7. m[7] = IF n = 5 THEN words[7] ELSE s[6]
  <2>1. CASE n = 5
    <3>1. 7 \in 2 + n .. 8
      BY <2>1
    <3>2. QED
      BY <3>1, <2>1, <1>5
  <2>2. CASE n # 5
    <3>1. 7 \in 2 .. 1 + n
      BY <2>2, <1>0
    <3>2. m[7] = s[7 - 1]
      BY <3>1, <1>4
    <3>3. QED
      BY <3>2, <2>2
  <2>3. QED
    BY <2>1, <2>2
<1>8. m[8] = IF n = 7 THEN s[7] ELSE words[8]
  <2>1. CASE n # 7
    <3>1. 8 \in 2 + n .. 8
      BY <2>1, <1>0
    <3>2. QED
      BY <3>1, <2>1, <1>5
  <2>2. CASE n = 7
    <3>1. 8 \in 2 .. 1 + n
      BY <2>2
    <3>2. m[8] = s[8 - 1]
      BY <3>1, <1>4
    <3>3. QED
      BY <3>2, <2>2
  <2>3. QED
    BY <2>1, <2>2
<1>9. QED
  BY <1>1, <1>3, <1>6, <1>7, <1>8 DEF m, s, n

\* A message that main sends is closed, by its own last word or by the one before.
LEMMA FilledClosed ==
  ASSUME NEW words \in [WORDS -> Nat], NEW f, WellMade(f),
         Len(f.send) = 5 => f.send[2] = 8 /\ words[7] = 0
  PROVE  LET m == Filled(f, words)
         IN  /\ m \in [WORDS -> Nat] /\ m[0] = 32 /\ OneTag(m)
             /\ m[2] = f.send[1] /\ m[5] = f.send[4] /\ m[6] = f.send[5]
             /\ f.send[2] = 8 => m[7] = 0
<1> DEFINE m == Filled(f, words)
           s == f.send
<1>1. /\ f.total = 8 /\ s \in Seq(Nat) /\ Len(s) \in {5, 6} /\ s[1] \in TAGS /\ s[2] \in {4, 8}
      /\ Len(s) = 6 => s[6] = 0
      /\ s[2] = 4 => s[5] = 0
      /\ Len(s) = 5 => s[2] = 8 /\ words[7] = 0
  BY DEF WellMade
<1>2. /\ DOMAIN m = WORDS /\ m[0] = 4 * f.total /\ m[1] = 0
      /\ m[2] = s[1] /\ m[3] = s[2] /\ m[4] = s[3] /\ m[5] = s[4] /\ m[6] = s[5]
      /\ m[7] = IF Len(s) = 5 THEN words[7] ELSE s[6]
      /\ m[8] = IF Len(s) = 7 THEN s[7] ELSE words[8]
  <2>1. f.send \in Seq(Nat) /\ Len(f.send) \in 5 .. 7
    BY <1>1
  <2>2. QED
    BY <2>1, FilledIs, ZenonT(60)
<1>3. m = [k \in WORDS |-> m[k]]
  BY DEF Filled
<1> HIDE DEF m, s
<1>4. s[1] \in Nat /\ s[2] \in Nat /\ s[3] \in Nat /\ s[4] \in Nat /\ s[5] \in Nat
  <2>0. Len(s) = 5 \/ Len(s) = 6
    BY <1>1, Zenon
  <2>1. s \in Seq(Nat)
    BY <1>1, Zenon
  <2>2. \A i \in 1 .. Len(s) : s[i] \in Nat
    BY <2>1
  <2>3. QED
    BY <2>0, <2>2
<1>5. m[0] = 32 /\ m[7] = 0 /\ m[8] \in Nat
  <2>1. m[0] = 4 * 8
    BY <1>1, <1>2
  <2>2. m[7] = 0
    BY <1>1, <1>2
  <2>3. words[8] \in Nat
    BY DEF WORDS
  <2>4. m[8] = words[8]
    <3>1. Len(s) = 5 \/ Len(s) = 6
      BY <1>1, Zenon
    <3>2. Len(s) # 7
      BY <3>1
    <3>3. QED
      BY <3>2, <1>2
  <2>5. QED
    BY <2>1, <2>2, <2>3, <2>4
<1>6. \A k \in WORDS : m[k] \in Nat
  BY <1>2, <1>4, <1>5 DEF WORDS
<1>7. m \in [WORDS -> Nat]
  BY <1>3, <1>6
<1>8. OneTag(m)
  <2>1. CASE s[2] = 8
    <3>1. 5 + m[3] \div 4 = 7
      BY <2>1, <1>2
    <3>2. m[2] \in TAGS
      BY <1>1, <1>2
    <3>3. QED
      BY <3>1, <3>2, <1>5 DEF OneTag
  <2>2. CASE s[2] = 4
    <3>1. 5 + m[3] \div 4 = 6
      BY <2>2, <1>2
    <3>2. m[6] = 0
      BY <2>2, <1>1, <1>2
    <3>3. m[2] \in TAGS
      BY <1>1, <1>2
    <3>4. QED
      BY <3>1, <3>2, <3>3, <1>5 DEF OneTag
  <2>3. QED
    BY <1>1, <2>1, <2>2
<1>9. QED
  BY <1>2, <1>5, <1>7, <1>8 DEF m, s

\* Zero is no tag.
LEMMA TagNumbers == TAGS \subseteq Nat \ {0}
BY DEF TAGS, ARM_MEMORY, VC_MEMORY, GET_POWER_STATE, SET_POWER_STATE, GET_CLOCK_STATE,
       SET_CLOCK_STATE, GET_CLOCK_RATE, SET_CLOCK_RATE, SET_GPIO, ALLOCATE_MEMORY,
       ALLOCATE_FRAME_BUFFER, BLANK_SCREEN, GET_DISPLAY, SET_DISPLAY, SET_VIRTUAL,
       GET_DEPTH, SET_DEPTH, GET_PIXEL_ORDER, SET_PIXEL_ORDER, GET_PITCH, SET_VIRT_OFFSET

\* The firmware takes a message of one tag.  The walk over the tags is a recursion that ends
\* within three steps, because each one moves on by three words at least.
LEMMA OneTagParses ==
  ASSUME NEW m \in [WORDS -> Nat], m[0] = 32, OneTag(m)
  PROVE  Parses(m)
<1> DEFINE E(i) == 4 * i < m[0] /\ m[i] = 0
           T(i) == 4 * i < m[0] /\ m[i] \in TAGS
           n(i) == i + 3 + m[i + 1] \div 4
           H(i) == E(i) \/ (T(i) /\ (E(n(i)) \/ (T(n(i)) /\ E(n(n(i))))))
           f == [i \in Nat |-> H(i)]
           R(e) == e = [i \in Nat |-> /\ 4 * i < m[0]
                                      /\ \/ m[i] = 0
                                         \/ m[i] \in TAGS /\ e[i + 3 + m[i + 1] \div 4]]
<1>1. ASSUME NEW i \in Nat, i < 8
      PROVE  n(i) \in Nat /\ n(i) >= i + 3
  <2>1. m[i + 1] \in Nat
    BY <1>1 DEF WORDS
  <2>2. QED
    BY <2>1
<1>2. ASSUME NEW i \in Nat
      PROVE  (T(i) => i < 8) /\ (E(i) => i < 8)
  OBVIOUS
<1> HIDE DEF E, T, n
<1>3. ASSUME NEW i \in Nat, T(i)
      PROVE  n(i) \in Nat /\ n(i) >= i + 3
  BY <1>1, <1>2, <1>3
<1>4. ASSUME NEW i \in Nat, T(i)
      PROVE  H(n(i)) <=> E(n(i)) \/ (T(n(i)) /\ E(n(n(i))))
  <2>1. n(i) \in Nat /\ n(i) >= 3
    BY <1>3, <1>4
  <2>2. ASSUME T(n(i)), T(n(n(i)))
        PROVE  ~E(n(n(n(i))))
    <3>1. n(n(i)) \in Nat /\ n(n(i)) >= 6
      BY <2>1, <2>2, <1>3
    <3>2. n(n(n(i))) \in Nat /\ n(n(n(i))) >= 9
      BY <3>1, <2>2, <1>3
    <3>3. QED
      BY <3>2, <1>2
  <2>3. QED
    BY <2>2
<1>5. ASSUME NEW i \in Nat
      PROVE  H(i) <=> E(i) \/ (T(i) /\ H(n(i)))
  BY <1>4
<1>6. ASSUME NEW i \in Nat
      PROVE  f[i] <=> E(i) \/ (T(i) /\ f[n(i)])
  <2>1. f[i] <=> H(i)
    BY Zenon
  <2>2. ASSUME T(i) PROVE f[n(i)] <=> H(n(i))
    <3>1. n(i) \in Nat
      BY <2>2, <1>3
    <3>2. QED
      BY <3>1, Zenon
  <2>3. QED
    BY <2>1, <2>2, <1>5
<1>7. R(f)
  <2>1. ASSUME NEW i \in Nat
        PROVE  f[i] = (/\ 4 * i < m[0]
                       /\ \/ m[i] = 0
                          \/ m[i] \in TAGS /\ f[i + 3 + m[i + 1] \div 4])
    <3>1. f[i] \in BOOLEAN
      BY Zenon DEF E, T, H
    <3> HIDE DEF f
    <3>2. f[i] <=> (/\ 4 * i < m[0]
                    /\ \/ m[i] = 0
                       \/ m[i] \in TAGS /\ f[i + 3 + m[i + 1] \div 4])
      BY <1>6, Zenon DEF E, T, n
    <3>3. QED
      BY <3>1, <3>2, Zenon
  <2>2. f = [i \in Nat |-> f[i]]
    BY Zenon
  <2> HIDE DEF f
  <2>3. QED
    BY <2>1, <2>2, Zenon
<1> HIDE DEF f
<1>8. ASSUME NEW e, R(e)
      PROVE  e[2] = TRUE
  <2>1. \A i \in Nat : e[i] = (/\ 4 * i < m[0]
                               /\ \/ m[i] = 0
                                  \/ m[i] \in TAGS /\ e[i + 3 + m[i + 1] \div 4])
    BY <1>8, Zenon
  <2> HIDE DEF R
  <2> DEFINE k == 2 + 3 + m[3] \div 4
  <2>2. m[3] \in Nat /\ k \in Nat /\ 4 * k < m[0] /\ m[k] = 0 /\ m[2] \in TAGS /\ 8 < m[0]
    BY DEF OneTag, WORDS
  <2>3. e[k] = TRUE
    <3> HIDE DEF k
    <3>1. QED
      BY <2>1, <2>2, Zenon
  <2>4. 2 \in Nat /\ 2 + 1 = 3 /\ 4 * 2 = 8
    OBVIOUS
  <2>5. e[2] = (/\ 4 * 2 < m[0]
                /\ \/ m[2] = 0
                   \/ m[2] \in TAGS /\ e[2 + 3 + m[2 + 1] \div 4])
    BY <2>1, <2>4, Zenon
  <2>6. 2 + 3 + m[2 + 1] \div 4 = k
    OBVIOUS
  <2> HIDE DEF k
  <2>7. QED
    BY <2>2, <2>3, <2>4, <2>5, <2>6, Zenon
<1>9. R(CHOOSE e : R(e))
  <2> HIDE DEF R
  <2>1. QED
    BY <1>7, Zenon
<1>10. (CHOOSE e : R(e))[2] = TRUE
  BY <1>8, <1>9, Zenon
<1>11. QED
  BY <1>10, Zenon DEF Parses

-----------------------------------------------------------------------------
(***************************************************************************)
(* The firmware's side.                                                    *)
(***************************************************************************)
\* The mode after the message of step p + 1.
LEMMA Obeys ==
  ASSUME NEW d \in FW, NEW m \in [WORDS -> Nat], NEW p \in Calls, NEW f, Good(p, f),
         m[2] = f.send[1], m[5] = f.send[4], m[6] = f.send[5]
  PROVE  LET o == Obeyed(d, m)
         IN  /\ o \in FW /\ o.obeys = d.obeys /\ o.base = d.base
             /\ p # 8 => o.display = d.display
             /\ o.virtual = IF d.obeys /\ p = 9 THEN <<1920, 1080>> ELSE d.virtual
             /\ o.depth = IF d.obeys /\ p = 11 THEN 32 ELSE d.depth
             /\ o.size = IF p = 13 THEN Pitch(d) * d.virtual[2] ELSE d.size
<1> DEFINE o == Obeyed(d, m)
           x == Grant(d, <<m[5], m[6]>>, d.display)
           v == Grant(d, <<m[5], m[6]>>, d.virtual)
           h == Grant(d, m[5], d.depth)
           q == Grant(d, m[5], d.order)
           z == Pitch(d) * d.virtual[2]
<1>0. m[5] \in Nat /\ m[6] \in Nat
  BY DEF WORDS
<1>1. /\ m[2] = SET_DISPLAY <=> p = 8
      /\ m[2] = SET_VIRTUAL <=> p = 9
      /\ m[2] = SET_DEPTH <=> p = 11
      /\ m[2] = SET_PIXEL_ORDER <=> p = 12
      /\ m[2] = ALLOCATE_FRAME_BUFFER <=> p = 13
      /\ p = 9 => m[5] = 1920 /\ m[6] = 1080
      /\ p = 11 => m[5] = 32
  BY DEF Good
<1>2. x \in Nat \X Nat
  BY <1>0 DEF Grant, FW
<1>3. v \in Nat \X Nat /\ (p = 9 => v = IF d.obeys THEN <<1920, 1080>> ELSE d.virtual)
  BY <1>0, <1>1 DEF Grant, FW
<1>4. h \in Nat /\ (p = 11 => h = IF d.obeys THEN 32 ELSE d.depth)
  BY <1>0, <1>1 DEF Grant, FW
<1>5. q \in Nat
  BY <1>0 DEF Grant, FW
<1>6. z \in Nat
  <2>1. d.virtual[1] \in Nat /\ d.virtual[2] \in Nat /\ d.depth \in Nat
    BY DEF FW
  <2>2. d.depth \div 8 \in Nat
    BY <2>1
  <2>3. Pitch(d) \in Nat
    BY <2>1, <2>2 DEF Pitch
  <2>4. QED
    BY <2>1, <2>3
<1>7. o = CASE p = 8 -> [d EXCEPT !.display = x]
            [] p = 9 -> [d EXCEPT !.virtual = v]
            [] p = 11 -> [d EXCEPT !.depth = h]
            [] p = 12 -> [d EXCEPT !.order = q]
            [] p = 13 -> [d EXCEPT !.size = z]
            [] OTHER -> d
  BY <1>1 DEF Obeyed
<1> HIDE DEF o, x, v, h, q, z
<1>8. p \in Int
  BY DEF Calls
<1>9. CASE p = 8
  BY <1>2, <1>7, <1>8, <1>9 DEF FW, o
<1>10. CASE p = 9
  <2>1. o = [d EXCEPT !.virtual = v]
    BY <1>7, <1>10
  <2>2. QED
    BY <1>3, <1>10, <2>1 DEF FW, o
<1>11. CASE p = 11
  BY <1>4, <1>7, <1>8, <1>11 DEF FW, o
<1>12. CASE p = 12
  BY <1>5, <1>7, <1>8, <1>12 DEF FW, o
<1>13. CASE p = 13
  BY <1>6, <1>7, <1>8, <1>13 DEF FW, o, z
<1>14. CASE p \notin {8, 9, 11, 12, 13}
  BY <1>7, <1>8, <1>14 DEF o
<1>15. QED
  BY <1>9, <1>10, <1>11, <1>12, <1>13, <1>14

\* Addresses are numbers.
LEMMA Addresses ==
  /\ VcBase \in Nat
  /\ \A b \in FbBases : b \in Nat /\ b < 1024 * MB /\ (b + 1024 * MB) % (1024 * MB) = b
<1>1. VcBase \in Nat /\ \A b \in FbBases : b \in Nat /\ b < 1024 * 1024 * 1024
  BY MailAssumption
<1>2. QED
  BY <1>1 DEF MB

\* The words of the answer to the message of step p + 1.
LEMMA AnswersIt ==
  ASSUME NEW d \in FW, NEW m \in [WORDS -> Nat], NEW p \in Calls, NEW f, Good(p, f),
         m[2] = f.send[1]
  PROVE  LET a == Answer(d, m)
         IN  /\ a[1] \in Nat /\ a[2] \in Nat
             /\ p = 8 => <<a[1], a[2]>> = d.display
             /\ p = 13 => a[1] = d.base + 1024 * MB /\ a[2] = d.size
             /\ p = 14 => a[1] = Pitch(d)
             /\ p = 15 => a[1] = VcBase
<1> USE DEF ARM_MEMORY, VC_MEMORY, GET_DISPLAY, SET_DISPLAY, SET_VIRTUAL, GET_DEPTH, SET_DEPTH,
            GET_PIXEL_ORDER, SET_PIXEL_ORDER, GET_PITCH, ALLOCATE_FRAME_BUFFER
<1> DEFINE t == m[2]
           w5 == m[5]
           w6 == m[6]
           b == d.base + 1024 * MB
           c == Pitch(d)
<1>0. w5 \in Nat /\ w6 \in Nat /\ t \in Nat
  BY DEF WORDS
<1>1. /\ t = SET_DISPLAY <=> p = 8
      /\ t = ALLOCATE_FRAME_BUFFER <=> p = 13
      /\ p = 14 => t = GET_PITCH
      /\ p = 15 => t = VC_MEMORY
  BY DEF Good
<1>2. /\ d.display \in Nat \X Nat /\ d.virtual \in Nat \X Nat /\ d.depth \in Nat /\ d.order \in Nat
      /\ d.size \in Nat /\ d.base \in Nat
  BY Addresses DEF FW
<1>3. b \in Nat
  BY <1>2 DEF MB
<1>4. c \in Nat
  <2>1. d.virtual[1] \in Nat /\ d.depth \div 8 \in Nat
    BY <1>2
  <2>2. QED
    BY <2>1 DEF Pitch
<1>5. VcBase \in Nat /\ 64 * MB \in Nat
  BY Addresses DEF MB
<1>6. Answer(d, m) =
        CASE t = ARM_MEMORY -> <<0, VcBase>>
          [] t = VC_MEMORY -> <<VcBase, 64 * MB>>
          [] t \in {GET_DISPLAY, SET_DISPLAY} -> d.display
          [] t = SET_VIRTUAL -> d.virtual
          [] t \in {GET_DEPTH, SET_DEPTH} -> <<d.depth, w6>>
          [] t \in {GET_PIXEL_ORDER, SET_PIXEL_ORDER} -> <<d.order, w6>>
          [] t = GET_PITCH -> <<c, w6>>
          [] t = ALLOCATE_FRAME_BUFFER -> <<b, d.size>>
          [] OTHER -> <<w5, w6>>
  BY DEF Answer
<1> DEFINE a == Answer(d, m)
           g == 64 * MB
<1> HIDE DEF a, t, w5, w6, b, c, g
<1>7. CASE t = ARM_MEMORY
  <2>1. a = <<0, VcBase>>
    BY <1>6, <1>7 DEF a
  <2>2. p \notin {8, 13, 14, 15}
    BY <1>1, <1>7
  <2>3. QED
    BY <2>1, <2>2, <1>5 DEF a
<1>8. CASE t = VC_MEMORY
  <2>1. a = <<VcBase, g>>
    BY <1>6, <1>8 DEF a, g
  <2>2. p \notin {8, 13, 14}
    BY <1>1, <1>8
  <2>3. QED
    BY <2>1, <2>2, <1>5 DEF a, g
<1>9. CASE t \in {GET_DISPLAY, SET_DISPLAY}
  <2>1. a = d.display
    BY <1>6, <1>9 DEF a
  <2>2. p \notin {13, 14, 15}
    BY <1>1, <1>9
  <2>3. QED
    BY <2>1, <2>2, <1>2 DEF a
<1>10. CASE t = SET_VIRTUAL
  <2>1. a = d.virtual
    BY <1>6, <1>10 DEF a
  <2>2. p \notin {8, 13, 14, 15}
    BY <1>1, <1>10
  <2>3. QED
    BY <2>1, <2>2, <1>2 DEF a
<1>11. CASE t \in {GET_DEPTH, SET_DEPTH}
  <2>1. a = <<d.depth, w6>>
    BY <1>6, <1>11 DEF a
  <2>2. p \notin {8, 13, 14, 15}
    BY <1>1, <1>11
  <2>3. QED
    BY <2>1, <2>2, <1>0, <1>2 DEF a
<1>12. CASE t \in {GET_PIXEL_ORDER, SET_PIXEL_ORDER}
  <2>1. a = <<d.order, w6>>
    BY <1>6, <1>12 DEF a
  <2>2. p \notin {8, 13, 14, 15}
    BY <1>1, <1>12
  <2>3. QED
    BY <2>1, <2>2, <1>0, <1>2 DEF a
<1>13. CASE t = GET_PITCH
  <2>1. a = <<c, w6>>
    BY <1>6, <1>13 DEF a
  <2>2. p \notin {8, 13, 15}
    BY <1>1, <1>13
  <2>3. QED
    BY <2>1, <2>2, <1>0, <1>4 DEF a, c
<1>14. CASE t = ALLOCATE_FRAME_BUFFER
  <2>1. a = <<b, d.size>>
    BY <1>6, <1>14 DEF a
  <2>2. p = 13
    BY <1>1, <1>14
  <2>3. QED
    BY <2>1, <2>2, <1>2, <1>3 DEF a, b
<1>15. CASE t \notin {ARM_MEMORY, VC_MEMORY, GET_DISPLAY, SET_DISPLAY, SET_VIRTUAL, GET_DEPTH,
                      SET_DEPTH, GET_PIXEL_ORDER, SET_PIXEL_ORDER, GET_PITCH,
                      ALLOCATE_FRAME_BUFFER}
  <2>1. a = <<w5, w6>>
    BY <1>6, <1>15 DEF a
  <2>2. p \notin {8, 13, 14, 15}
    BY <1>1, <1>15
  <2>3. QED
    BY <2>1, <2>2, <1>0 DEF a
<1>16. QED
  BY <1>7, <1>8, <1>9, <1>10, <1>11, <1>12, <1>13, <1>14, <1>15

\* What the code keeps of it.
LEMMA TakenIs ==
  ASSUME kept \in [KEPT -> Int], NEW m \in [WORDS -> Nat], NEW p \in Calls, NEW f,
         Keeps(p, f.keep)
  PROVE  LET k == Taken(f, m)
         IN  /\ k \in [KEPT -> Int]
             /\ p \notin {6, 8} => k["width"] = kept["width"] /\ k["height"] = kept["height"]
             /\ p = 8 => k["width"] = m[5] /\ k["height"] = m[6]
             /\ p # 13 => k["buf"] = kept["buf"] /\ k["buf_size"] = kept["buf_size"]
             /\ p = 13 => k["buf"] = m[5] % (1024 * MB) /\ k["buf_size"] = m[6]
             /\ p # 14 => k["pitch"] = kept["pitch"]
             /\ p = 14 => k["pitch"] = m[5]
             /\ p # 15 => k["vc_base_address"] = kept["vc_base_address"]
             /\ p = 15 => k["vc_base_address"] = m[5] + 8 * MB
<1> DEFINE k == Taken(f, m)
           e == f.keep
           D == DOMAIN e
<1>1. k = [v \in KEPT |-> IF v \notin D THEN kept[v]
                          ELSE IF e[v] = -1 THEN 0 ELSE Keep(v, m[e[v]])]
  BY DEF Taken
<1>2. Keeps(p, e)
  OBVIOUS
<1>3. m[5] \in Nat /\ m[6] \in Nat
  BY DEF WORDS
<1> HIDE DEF k, e
<1>4. ASSUME NEW v \in KEPT, v \notin D
      PROVE  k[v] = kept[v]
  BY <1>1, <1>4
<1>5. ASSUME NEW v \in KEPT, v \in D
      PROVE  k[v] = Keep(v, m[e[v]]) /\ m[e[v]] \in Nat
  <2>1. e[v] \in 5 .. 6
    BY <1>2, <1>5 DEF Keeps
  <2>2. e[v] # -1 /\ m[e[v]] \in Nat
    BY <2>1, <1>3
  <2>3. QED
    BY <1>1, <1>5, <2>2
<1>6. ASSUME NEW v, NEW w \in Nat
      PROVE  Keep(v, w) \in Int
  BY DEF Keep, MB
<1>7. k \in [KEPT -> Int]
  <2>1. \A v \in KEPT : k[v] \in Int
    BY <1>4, <1>5, <1>6
  <2>2. QED
    BY <1>1, <2>1
<1>8. /\ "width" \in KEPT /\ "height" \in KEPT /\ "buf" \in KEPT /\ "buf_size" \in KEPT
      /\ "pitch" \in KEPT /\ "vc_base_address" \in KEPT
  BY DEF KEPT
<1>9. ASSUME NEW w
      PROVE  /\ Keep("width", w) = w /\ Keep("height", w) = w /\ Keep("buf_size", w) = w
             /\ Keep("pitch", w) = w /\ Keep("buf", w) = w % (1024 * MB)
             /\ Keep("vc_base_address", w) = w + 8 * MB
  BY DEF Keep
<1>10. /\ p \notin {6, 8} => k["width"] = kept["width"] /\ k["height"] = kept["height"]
       /\ p # 13 => k["buf"] = kept["buf"] /\ k["buf_size"] = kept["buf_size"]
       /\ p # 14 => k["pitch"] = kept["pitch"]
       /\ p # 15 => k["vc_base_address"] = kept["vc_base_address"]
  BY <1>2, <1>4, <1>8 DEF Keeps
<1>11. p = 8 => k["width"] = m[5] /\ k["height"] = m[6]
  BY <1>2, <1>5, <1>8, <1>9 DEF Keeps
<1>12. p = 13 => k["buf"] = m[5] % (1024 * MB) /\ k["buf_size"] = m[6]
  BY <1>2, <1>5, <1>8, <1>9 DEF Keeps
<1>13. p = 14 => k["pitch"] = m[5]
  BY <1>2, <1>5, <1>8, <1>9 DEF Keeps
<1>14. p = 15 => k["vc_base_address"] = m[5] + 8 * MB
  BY <1>2, <1>5, <1>8, <1>9 DEF Keeps
<1>15. QED
  BY <1>7, <1>10, <1>11, <1>12, <1>13, <1>14 DEF k

-----------------------------------------------------------------------------
(***************************************************************************)
(* The framebuffer.                                                        *)
(***************************************************************************)
\* The two modes the firmware may be in once the framebuffer is there.
LEMMA ModeIs ==
  ASSUME BootType, Granted, pc >= 14
  PROVE  /\ Pitch(fw) \in Nat /\ fw.size = Pitch(fw) * fw.virtual[2]
         /\ fw.obeys => Pitch(fw) = 7680 /\ fw.size = 8294400
         /\ ~fw.obeys => Pitch(fw) = 1280 /\ fw.size = 614400
<1>1. pc \in Int
  BY DEF BootType
<1>2. Answered(10) /\ Answered(12) /\ Answered(14)
  BY <1>1 DEF Answered
<1>3. CASE fw.obeys
  <2>1. fw.virtual = <<1920, 1080>> /\ fw.depth = 32
    BY <1>2, <1>3 DEF Granted
  <2>2. fw.virtual[1] = 1920 /\ fw.virtual[2] = 1080
    BY <2>1
  <2>3. Pitch(fw) = 7680
    BY <2>1, <2>2 DEF Pitch
  <2>4. QED
    BY <1>2, <1>3, <2>2, <2>3 DEF Granted
<1>4. CASE ~fw.obeys
  <2>1. fw.virtual = <<640, 480>> /\ fw.depth = 16
    BY <1>2, <1>4 DEF Granted
  <2>2. fw.virtual[1] = 640 /\ fw.virtual[2] = 480
    BY <2>1
  <2>3. Pitch(fw) = 1280
    BY <2>1, <2>2 DEF Pitch
  <2>4. QED
    BY <1>2, <1>4, <2>2, <2>3 DEF Granted
<1>5. QED
  BY <1>3, <1>4

\* Where identity_map puts the framebuffer: in the last pages below that of the mailbox.
LEMMA MapIs ==
  ASSUME BootType, Granted, Known, pc >= 17
  PROVE  /\ pt.vc \in Int /\ pt.pages \in Nat \ {0} /\ pt.from \in Nat /\ pt.to \in Int
         /\ pt.to = pt.vc - 1 - pt.pages
         /\ fw.obeys => pt.pages = 4
         /\ ~fw.obeys => pt.pages = 1
         /\ pt # NoMap
         /\ fw.base \in FbBases /\ fw.base \in Nat
         /\ fw.base = pt.from * PT_SIZE + (fw.base % PT_SIZE)
         /\ kept["buf"] = pt.to * PT_SIZE + (fw.base % PT_SIZE)
         /\ kept["pitch"] = Pitch(fw) /\ kept["buf_size"] = fw.size
<1>1. pc >= 14 /\ pc >= 15 /\ pc \in Int
  BY DEF BootType
<1>2. /\ fw.obeys => fw.size = 8294400
      /\ ~fw.obeys => fw.size = 614400
  BY <1>1, ModeIs
<1>3. fw.base \in FbBases /\ fw.base \in Nat
  BY Addresses DEF BootType, FW
<1> DEFINE v == (VcBase + 8 * MB) \div PT_SIZE
           n == fw.size \div PT_SIZE + 1
<1>4. v \in Int
  BY Addresses DEF MB, PT_SIZE
<1>5. n \in Nat \ {0} /\ (fw.obeys => n = 4) /\ (~fw.obeys => n = 1)
  BY <1>2 DEF MB, PT_SIZE
<1>6. fw.base \div PT_SIZE \in Nat /\ fw.base = (fw.base \div PT_SIZE) * PT_SIZE + (fw.base % PT_SIZE)
  BY <1>3 DEF MB, PT_SIZE
<1> DEFINE g == fw.base \div PT_SIZE
<1>7. /\ pt = [vc |-> v, pages |-> n, from |-> g, to |-> v - 1 - n]
      /\ kept["buf"] = pt.to * PT_SIZE + (fw.base % PT_SIZE)
      /\ kept["pitch"] = Pitch(fw) /\ kept["buf_size"] = fw.size
  BY <1>1 DEF Known
<1> HIDE DEF v, n, g
<1>8. pt.vc = v /\ pt.pages = n /\ pt.from = g /\ pt.to = v - 1 - n
  BY <1>7
<1>9. pt # NoMap
  BY <1>5, <1>8 DEF NoMap
<1>10. g \in Nat /\ fw.base = g * PT_SIZE + (fw.base % PT_SIZE)
  BY <1>6 DEF g
<1>11. QED
  BY <1>3, <1>4, <1>5, <1>7, <1>8, <1>9, <1>10

\* What stays on the screen does not reach the mailbox behind it.
LEMMA NoHit ==
  ASSUME BootType, Granted, Known, Room, pc >= 17 \/ pt = NoMap,
         NEW rects, \A r \in rects : r.y1 \in Int /\ r.y2 \in Int /\ r.y2 <= 1079
  PROVE  Hit(rects) = {}
<1>1. CASE pt = NoMap
  BY <1>1 DEF Hit
<1>2. CASE pc >= 17 /\ pt # NoMap
  <2>1. SUFFICES ASSUME NEW k \in WORDS, NEW r \in rects
                 PROVE  LET d == MboxAt(pt) + 4 * k - kept.buf
                        IN  ~(d \div kept.pitch \in r.y1 .. r.y2)
    BY DEF Hit
  <2> DEFINE d == MboxAt(pt) + 4 * k - kept.buf
             off == fw.base % PT_SIZE
  <2>2. pc \in Int /\ pc >= 14
    BY <1>2 DEF BootType
  <2>3. /\ pt.vc \in Int /\ pt.pages \in Nat \ {0} /\ pt.to = pt.vc - 1 - pt.pages
        /\ fw.obeys => pt.pages = 4
        /\ ~fw.obeys => pt.pages = 1
        /\ fw.base \in FbBases /\ fw.base \in Nat
        /\ kept.buf = pt.to * PT_SIZE + off /\ kept.pitch = Pitch(fw)
    BY <1>2, MapIs
  <2>4. /\ fw.obeys => Pitch(fw) = 7680
        /\ ~fw.obeys => Pitch(fw) = 1280
    BY <2>2, ModeIs
  <2>5. off \in Nat /\ off + 1080 * 7680 <= 4 * PT_SIZE
    BY <2>3 DEF Room, PT_SIZE, MB
  <2>6. k \in Nat
    BY DEF WORDS
  <2> HIDE DEF off
  <2>7. d = pt.pages * PT_SIZE - off + 4 * k
    <3> DEFINE a == pt.vc
               n == pt.pages
    <3>1. MboxAt(pt) = (a - 1) * PT_SIZE /\ kept.buf = (a - 1 - n) * PT_SIZE + off
      BY <1>2, <2>3 DEF MboxAt
    <3>2. a \in Int /\ n \in Int
      BY <2>3
    <3> HIDE DEF a, n
    <3>3. d = n * PT_SIZE - off + 4 * k
      BY <3>1, <3>2, <2>5, <2>6 DEF PT_SIZE, MB
    <3>4. QED
      BY <3>3 DEF n
  <2> HIDE DEF d
  <2>8. CASE fw.obeys
    <3>1. d \in Int /\ d >= 1080 * 7680
      BY <2>8, <2>3, <2>5, <2>6, <2>7 DEF PT_SIZE, MB
    <3>2. d \div 7680 >= 1080
      BY <3>1
    <3>3. d \div 7680 \in Int
      BY <3>1
    <3>4. QED
      BY <3>2, <3>3, <2>3, <2>4, <2>8 DEF d
  <2>9. CASE ~fw.obeys
    <3>1. d \in Int /\ d >= 1080 * 1280
      BY <2>9, <2>3, <2>5, <2>6, <2>7 DEF PT_SIZE, MB
    <3>2. d \div 1280 >= 1080
      BY <3>1
    <3>3. d \div 1280 \in Int
      BY <3>1
    <3>4. QED
      BY <3>2, <3>3, <2>3, <2>4, <2>9 DEF d
  <2>10. QED
    BY <2>8, <2>9
<1>3. QED
  BY <1>1, <1>2

\* The address behind the map of a byte of the framebuffer.
LEMMA Shifted ==
  ASSUME NEW map, map.pages \in Nat, map.from \in Int, map.to \in Int,
         NEW v \in Int, v \div PT_SIZE \in map.to .. map.to + map.pages - 1
  PROVE  Physical(map, v) = v + (map.from - map.to) * PT_SIZE
<1> DEFINE q == v \div PT_SIZE
           a == map.from
           b == map.to
<1>1. Translate(map, q) = a + q - b
  BY DEF Translate
<1>2. q \in Int /\ v = q * PT_SIZE + (v % PT_SIZE) /\ v % PT_SIZE \in Int
  BY DEF PT_SIZE, MB
<1> HIDE DEF q, a, b
<1>3. Physical(map, v) = (a + q - b) * PT_SIZE + (v % PT_SIZE)
  BY <1>1 DEF Physical, q
<1>4. a \in Int /\ b \in Int
  BY DEF a, b
<1> DEFINE m == v % PT_SIZE
<1> HIDE DEF m
<1>5. (a + q - b) * PT_SIZE + m = v + (a - b) * PT_SIZE
  BY <1>2, <1>4 DEF PT_SIZE, MB, m
<1>6. QED
  BY <1>3, <1>5 DEF a, b, m

\* A rectangle of the screen lies in the memory of the framebuffer.
LEMMA OnScreen ==
  ASSUME BootType, Granted, Known, Room, pc >= 17, fw.obeys,
         NEW r, r.x1 \in Nat, r.x2 \in Nat, r.x1 <= r.x2, r.x2 <= 1919,
         r.y1 \in Nat, r.y2 \in Nat, r.y1 <= r.y2, r.y2 <= 1079
  PROVE  Inside(pt, Pixel(kept, r.x1, r.y1), Pixel(kept, r.x2, r.y2) + 3)
<1> DEFINE lo == Pixel(kept, r.x1, r.y1)
           hi == Pixel(kept, r.x2, r.y2) + 3
           off == fw.base % PT_SIZE
           b == pt.to
           g == pt.from
           P == PT_SIZE
<1>0. P = 2097152
  BY DEF PT_SIZE, MB
<1>1. pc \in Int /\ pc >= 14
  BY DEF BootType
<1>2. /\ pt.pages = 4 /\ g \in Nat /\ b \in Int
      /\ fw.base \in FbBases /\ fw.base \in Nat /\ fw.base = g * P + off
      /\ kept.buf = b * P + off
      /\ kept.pitch = 7680 /\ fw.size = 8294400
  BY <1>1, MapIs, ModeIs
<1>3. off \in Nat /\ off + 1080 * 7680 <= 4 * P
  BY <1>2 DEF Room, PT_SIZE, MB
<1> HIDE DEF off, b, g, P
<1>4. lo = b * P + off + 4 * r.x1 + r.y1 * 7680 /\ hi = b * P + off + 4 * r.x2 + r.y2 * 7680 + 3
  BY <1>0, <1>2, <1>3, SMT DEF Pixel
<1> HIDE DEF lo, hi
<1>5. /\ lo \in Int /\ hi \in Int /\ lo <= hi
      /\ lo >= b * P + off
      /\ hi <= b * P + off + 8294400 - 1
  <2> DEFINE x1 == r.x1
             x2 == r.x2
             y1 == r.y1
             y2 == r.y2
             B == b * P + off
  <2>1. /\ x1 \in Nat /\ x2 \in Nat /\ x1 <= x2 /\ x2 <= 1919
        /\ y1 \in Nat /\ y2 \in Nat /\ y1 <= y2 /\ y2 <= 1079
    OBVIOUS
  <2>2. lo = B + 4 * x1 + y1 * 7680 /\ hi = B + 4 * x2 + y2 * 7680 + 3
    BY <1>4
  <2>3. B \in Int
    BY <1>0, <1>2, <1>3, SMT
  <2> HIDE DEF x1, x2, y1, y2, B
  <2>4. lo \in Int /\ hi \in Int /\ lo <= hi /\ lo >= B /\ hi <= B + 8294400 - 1
    BY <2>1, <2>2, <2>3, SMT
  <2>5. QED
    BY <2>4, SMT DEF B
<1>6. lo \div P >= b /\ hi \div P <= b + 3
  BY <1>0, <1>2, <1>3, <1>5, SMT
<1>7. SUFFICES ASSUME NEW page \in lo \div P .. hi \div P
               PROVE  LET first == IF page * P < lo THEN lo ELSE page * P
                          last == IF (page + 1) * P - 1 > hi THEN hi ELSE (page + 1) * P - 1
                      IN  /\ Physical(pt, first) >= fw.base
                          /\ Physical(pt, last) < fw.base + fw.size
                          /\ Physical(pt, last) - Physical(pt, first) = last - first
  BY DEF Inside, lo, hi, P
<1> DEFINE first == IF page * P < lo THEN lo ELSE page * P
           last == IF (page + 1) * P - 1 > hi THEN hi ELSE (page + 1) * P - 1
<1>8. page \in Int /\ page >= b /\ page <= b + 3
  BY <1>0, <1>2, <1>5, <1>6, SMT
<1>9. first \in Int /\ first >= lo /\ first \div P = page
  BY <1>0, <1>5, <1>8, SMT
<1>10. last \in Int /\ last <= hi /\ last \div P = page
  BY <1>0, <1>5, <1>8, SMT
<1> HIDE DEF first, last
<1>11. pt.to = b /\ pt.from = g /\ pt.pages = 4
  BY <1>2 DEF b, g
<1>12. page \in pt.to .. pt.to + pt.pages - 1
  BY <1>2, <1>8, <1>11
<1>13. /\ Physical(pt, first) = first + (g - b) * P
       /\ Physical(pt, last) = last + (g - b) * P
  BY <1>2, <1>9, <1>10, <1>11, <1>12, Shifted DEF P
<1>14. QED
  BY <1>0, <1>2, <1>3, <1>5, <1>9, <1>10, <1>13, SMT DEF first, last

-----------------------------------------------------------------------------
(***************************************************************************)
(* The steps.                                                              *)
(***************************************************************************)
LEMMA BootStarts == Init => BootInv
<1> SUFFICES ASSUME Init PROVE BootInv
  OBVIOUS
<1>1. BootType
  <2>1. fw \in FW
    <3>1. fw \in [display : Displays, virtual : {<<640, 480>>}, depth : {16}, order : {0},
                  base : FbBases, size : {0}, obeys : BOOLEAN]
      BY DEF Init, MailInit
    <3>2. \A d \in Displays : d \in Nat \X Nat
      BY MailAssumption, Zenon
    <3>3. QED
      BY <3>1, <3>2 DEF FW
  <2>2. kept \in [KEPT -> Int]
    BY DEF Init, MailInit, KEPT
  <2>3. mbox \in [WORDS -> Nat]
    BY DEF Init, MailInit
  <2>4. tick \in 0 .. MaxTicks /\ lines \in 0 .. MaxLines
    BY BootAssumption DEF Init
  <2>5. pc = 0 /\ at = "idle"
    BY DEF Init, MailInit
  <2>6. /\ irq \in BOOLEAN /\ gic \in BOOLEAN /\ vectors \in BOOLEAN
        /\ timer \in BOOLEAN /\ outbox \in BOOLEAN
    BY ZenonT(30) DEF Init, MailInit
  <2>7. QED
    BY <2>1, <2>2, <2>3, <2>4, <2>5, <2>6 DEF BootType
<1>2. pc = 0 /\ at = "idle" /\ ~outbox /\ inbox = << >> /\ pt = NoMap /\ drawn = {} /\ lines = 0
      /\ timer = FALSE /\ area = Screen /\ fw.virtual = <<640, 480>> /\ fw.depth = 16
  BY DEF Init, MailInit
<1>3. ~InHand /\ ~Answered(10) /\ ~Answered(12) /\ ~Answered(14)
  BY <1>2 DEF InHand, Answered
<1>4. Posted /\ Survives /\ Granted /\ Answers /\ Known /\ Placed
  BY <1>2, <1>3 DEF Posted, Survives, Granted, Answers, Known, Placed
<1>5. QED
  BY <1>1, <1>4 DEF BootInv

\* A step of main that is no call leaves what is known of the firmware as it is.
LEMMA Onward ==
  ASSUME BootInv, at = "idle", pc \in 0 .. 33, pc \notin Calls, pc # 16, pc' = pc + 1,
         UNCHANGED <<outbox, inbox, mail, at, fw, pt>>,
         pc \in 19 .. 29 => mbox' = mbox, pc >= 9 => kept' = kept
  PROVE  Posted' /\ Survives' /\ Granted' /\ Answers' /\ Known'
<1>0. pc \in Int /\ ~InHand /\ ~InHand'
  BY DEF InHand
<1>1. pc \notin {5, 6, 8, 9, 10, 11, 12, 13, 14, 15, 18}
  BY DEF Calls
<1>2. Posted'
  BY <1>0 DEF BootInv, Posted
<1>3. Survives'
  <2>1. pc' \in 19 .. 30 => pc \in 19 .. 29
    BY <1>0, <1>1
  <2>2. QED
    BY <2>1 DEF BootInv, Survives
<1>4. /\ Answered(10)' <=> Answered(10)
      /\ Answered(12)' <=> Answered(12)
      /\ Answered(14)' <=> Answered(14)
  BY <1>0, <1>1 DEF Answered
<1>5. Granted'
  BY <1>4 DEF BootInv, Granted, Pitch
<1>6. Answers'
  BY <1>0 DEF Answers
<1>7. Known'
  <2>1. /\ pc' >= 9 <=> pc >= 9
        /\ pc' >= 14 <=> pc >= 14
        /\ pc' >= 15 <=> pc >= 15
        /\ pc' >= 16 <=> pc >= 16
        /\ pc' >= 17 <=> pc >= 17
        /\ pc' < 17 <=> pc < 17
        /\ pc' \in 14 .. 16 <=> pc \in 14 .. 16
    BY <1>0, <1>1
  <2>2. pc >= 14 \/ pc >= 15 \/ pc >= 16 \/ pc >= 17 \/ pc \in 14 .. 16 => pc >= 9
    BY <1>0
  <2>3. fw' = fw /\ pt' = pt /\ Pitch(fw)' = Pitch(fw)
    BY DEF Pitch
  <2>4. Known
    BY DEF BootInv
  <2>5. CASE pc >= 9
    <3>1. kept' = kept
      BY <2>5
    <3>2. QED
      BY <2>1, <2>3, <2>4, <3>1 DEF Known
  <2>6. CASE ~(pc >= 9)
    <3>1. /\ ~(pc' >= 9) /\ ~(pc' >= 14) /\ ~(pc' >= 15) /\ ~(pc' >= 16) /\ ~(pc' >= 17)
          /\ pc' \notin 14 .. 16 /\ pc < 17
      BY <2>1, <2>2, <2>6, <1>0
    <3>2. QED
      BY <3>1, <2>3, <2>4 DEF Known
  <2>7. QED
    BY <2>5, <2>6
<1>8. QED
  BY <1>2, <1>3, <1>5, <1>6, <1>7

\* A step of main that neither calls nor draws.
LEMMA Quiet ==
  ASSUME BootInv, at = "idle", pc \in 1 .. 33, pc \notin Calls, pc # 16, pc' = pc + 1, NoDraw,
         UNCHANGED <<mbox, outbox, inbox, mail, at, fw, pt, tick, lines>>,
         kept' \in [KEPT -> Int], pc >= 9 => kept' = kept,
         info' = IF pc = 1 THEN [x0 |-> 4, y0 |-> 44, x |-> 4, y |-> 44] ELSE info,
         irq' \in BOOLEAN, gic' \in BOOLEAN, vectors' \in BOOLEAN, timer' \in BOOLEAN,
         timer' => timer \/ pc = 17
  PROVE  BootInv'
<1>1. Posted' /\ Survives' /\ Granted' /\ Answers' /\ Known'
  BY Onward
<1>2. BootType'
  <2>1. BootType
    BY DEF BootInv
  <2>2. pc' \in 0 .. 34
    OBVIOUS
  <2>3. QED
    BY <2>1, <2>2 DEF BootType
<1>3. Placed'
  <2>1. Placed /\ pc \in Int /\ lines \in Nat
    BY BootAssumption DEF BootInv, BootType
  <2>2. drawn' = {} /\ area' = area /\ lines' = lines
    BY DEF NoDraw
  <2>3. info' = [x0 |-> 4, y0 |-> 44, x |-> 4, y |-> 44 + FONT * lines]
    <3>1. CASE pc = 1
      <4>1. ~(lines > 0)
        BY <2>1, <3>1 DEF Placed
      <4>2. 44 + FONT * lines = 44
        BY <4>1, <2>1 DEF FONT
      <4>3. QED
        BY <4>2, <3>1
    <3>2. CASE pc # 1
      BY <3>2, <2>1 DEF Placed
    <3>3. QED
      BY <3>1, <3>2
  <2>4. (lines' > 0 => pc' >= 30) /\ (timer' => pc' >= 18)
    BY <2>1, <2>2 DEF Placed
  <2>5. area' \in {Screen, History, Clock}
    BY <2>1, <2>2 DEF Placed
  <2>6. info' = [x0 |-> 4, y0 |-> 44, x |-> 4, y |-> 44 + FONT * lines']
    BY <2>2, <2>3
  <2>7. QED
    BY <2>2, <2>4, <2>5, <2>6 DEF Placed
<1>4. QED
  BY <1>1, <1>2, <1>3 DEF BootInv

LEMMA QuietSteps ==
  ASSUME BootInv,
         \/ set_info \/ gic400_init \/ init_vectors \/ enable_interrupts \/ disable_interrupts
         \/ timer_init \/ fallback \/ shutdown
  PROVE  BootInv'
<1>0. /\ pc \in 0 .. 34 /\ kept \in [KEPT -> Int]
      /\ irq \in BOOLEAN /\ gic \in BOOLEAN /\ vectors \in BOOLEAN /\ timer \in BOOLEAN
  BY DEF BootInv, BootType
<1>1. CASE set_info
  <2>1. at = "idle" /\ pc = 1
    BY <1>0, <1>1, StepAt DEF set_info
  <2>2. QED
    BY <1>0, <1>1, <2>1, Quiet DEF set_info, mailvars, Calls
<1>2. CASE gic400_init
  <2>1. at = "idle" /\ pc = 2
    BY <1>0, <1>2, StepAt DEF gic400_init
  <2>2. QED
    BY <1>0, <1>2, <2>1, Quiet DEF gic400_init, mailvars, Calls
<1>3. CASE init_vectors
  <2>1. at = "idle" /\ pc = 3
    BY <1>0, <1>3, StepAt DEF init_vectors
  <2>2. QED
    BY <1>0, <1>3, <2>1, Quiet DEF init_vectors, mailvars, Calls
<1>4. CASE enable_interrupts
  <2>1. at = "idle" /\ (pc = 4 \/ pc = 30)
    BY <1>0, <1>4, StepAt DEF enable_interrupts, set_irq
  <2>2. QED
    BY <1>0, <1>4, <2>1, Quiet DEF enable_interrupts, set_irq, mailvars, Calls
<1>5. CASE disable_interrupts
  <2>1. at = "idle" /\ (pc = 19 \/ pc = 32)
    BY <1>0, <1>5, StepAt DEF disable_interrupts, set_irq
  <2>2. pc \in 1 .. 33 /\ pc \notin Calls /\ pc # 16 /\ pc # 1 /\ pc # 17
    BY <2>1 DEF Calls
  <2>3. QED
    BY <1>0, <1>5, <2>1, <2>2, Quiet DEF disable_interrupts, set_irq, mailvars
<1>6. CASE timer_init
  <2>1. at = "idle" /\ pc = 17
    BY <1>0, <1>6, StepAt DEF timer_init
  <2>2. QED
    BY <1>0, <1>6, <2>1, Quiet DEF timer_init, mailvars, Calls
<1>7. CASE fallback
  <2>1. at = "idle" /\ pc = 7
    BY <1>0, <1>7, StepAt DEF fallback
  <2>2. kept' \in [KEPT -> Int]
    <3> DEFINE k1 == [kept EXCEPT !.width = 640]
               k2 == [k1 EXCEPT !.height = 480]
               k == [kept EXCEPT !.width = 640, !.height = 480]
    <3>1. k1 \in [KEPT -> Int]
      BY <1>0, SMT
    <3>2. k = k2
      BY SMT
    <3>3. k2 \in [KEPT -> Int]
      <4> HIDE DEF k1
      <4>1. QED
        BY <3>1, SMT
    <3> HIDE DEF k1, k2
    <3>4. kept' = IF InBounds(kept) THEN kept ELSE k
      BY <1>7, Zenon DEF fallback
    <3> HIDE DEF k
    <3>5. QED
      BY <1>0, <3>2, <3>3, <3>4
  <2>3. /\ NoDraw /\ pc' = pc + 1
        /\ UNCHANGED <<mbox, outbox, inbox, mail, at, fw, pt, tick, lines>>
        /\ UNCHANGED <<irq, gic, vectors, timer, info>>
    BY <1>7 DEF fallback
  <2>4. QED
    BY <1>0, <2>1, <2>2, <2>3, Quiet DEF Calls
<1>8. CASE shutdown
  <2>1. at = "idle" /\ pc = 31
    BY <1>0, <1>8, StepAt DEF shutdown
  <2>2. QED
    BY <1>0, <1>8, <2>1, Quiet DEF shutdown, mailvars, Calls
<1>9. QED
  BY <1>1, <1>2, <1>3, <1>4, <1>5, <1>6, <1>7, <1>8

\* Where nothing is drawn, and main has its cursor already.
LEMMA PlacedStill ==
  ASSUME BootInv, NoDraw, UNCHANGED <<info, lines, timer>>,
         pc' = pc \/ (pc' = pc + 1 /\ pc >= 2)
  PROVE  Placed'
<1>1. Placed /\ pc \in Int
  BY DEF BootInv, BootType
<1>2. drawn' = {} /\ area' = area
  BY DEF NoDraw
<1>3. pc' >= pc /\ (pc' >= 2 => pc >= 2)
  BY <1>1
<1>4. (lines' > 0 => pc' >= 30) /\ (timer' => pc' >= 18)
  <2>1. /\ pc >= 30 => pc' >= 30
        /\ pc >= 18 => pc' >= 18
    BY <1>1
  <2>2. QED
    BY <1>1, <2>1 DEF Placed
<1>5. QED
  BY <1>1, <1>2, <1>3, <1>4 DEF Placed

\* A call of the mailbox writes its message.
LEMMA StartStep ==
  ASSUME BootInv, mail_start
  PROVE  BootInv'
<1> DEFINE f == Main[pc + 1].f
<1>0. BootType /\ Posted /\ Survives /\ Granted /\ Known
  BY DEF BootInv
<1>1. Step("mail") /\ pc \in 0 .. 34
  BY <1>0 DEF mail_start, BootType
<1>2. at = "idle" /\ pc \in 0 .. 33 /\ pc \in Calls
  BY <1>1, StepAt
<1>3. /\ mbox' = Filled(f, mbox) /\ mail' = f /\ at' = "send"
      /\ UNCHANGED <<outbox, inbox, kept, ret, fw, noise>>
      /\ UNCHANGED <<pc, irq, gic, vectors, timer, tick, info, pt, lines>>
      /\ NoDraw
  BY DEF mail_start, mail_fill
<1>4. Good(pc, f)
  BY <1>2, MessagesMade
<1> HIDE DEF f
<1>5. ~outbox /\ inbox \in {<< >>, <<"other">>} /\ ~InHand /\ ~InHand'
  BY <1>0, <1>2, <1>3 DEF Posted, InHand
<1>6. WellMade(f) /\ mbox \in [WORDS -> Nat]
  BY <1>0, <1>4 DEF Good, BootType
<1>7. Len(f.send) = 5 => f.send[2] = 8 /\ mbox[7] = 0
  <2>1. SUFFICES ASSUME Len(f.send) = 5 PROVE f.send[2] = 8 /\ mbox[7] = 0
    OBVIOUS
  <2>2. pc \in 22 .. 29
    BY <1>4, <2>1 DEF Good
  <2>3. pc \in 19 .. 29 /\ f.send[2] = 8
    BY <1>4, <2>2 DEF Good
  <2>4. QED
    BY <1>0, <2>3 DEF Survives
<1>8. /\ mbox' \in [WORDS -> Nat] /\ mbox'[0] = 32 /\ OneTag(mbox')
      /\ mbox'[2] = f.send[1] /\ mbox'[5] = f.send[4] /\ mbox'[6] = f.send[5]
      /\ f.send[2] = 8 => mbox'[7] = 0
  BY <1>3, <1>6, <1>7, FilledClosed
<1>9. BootType'
  BY <1>0, <1>3, <1>8 DEF BootType
<1>10. Posted'
  BY <1>2, <1>3, <1>5, <1>8 DEF Posted, f
<1>11. Survives'
  <2>1. pc' = pc
    BY <1>3
  <2>2. pc \in 19 .. 30 \/ pc = 18 => pc \in {18} \cup 22 .. 29
    BY <1>2 DEF Calls
  <2>3. pc \in 19 .. 30 \/ pc = 18 => mbox'[7] = 0
    BY <2>2, <1>4, <1>8 DEF Good
  <2>4. QED
    BY <2>1, <2>3 DEF Survives
<1>12. Granted'
  BY <1>0, <1>3, <1>5 DEF Granted, Answered, Pitch
<1>13. Answers'
  BY <1>5 DEF Answers
<1>14. Known'
  BY <1>0, <1>3 DEF Known, Pitch
<1>15. Placed'
  BY <1>3, PlacedStill
<1>16. QED
  BY <1>9, <1>10, <1>11, <1>12, <1>13, <1>14, <1>15 DEF BootInv

\* It hands the message over.
LEMMA GoStep ==
  ASSUME BootInv, mail_go
  PROVE  BootInv'
<1>0. BootType /\ Posted /\ Survives /\ Granted /\ Known
  BY DEF BootInv
<1>1. /\ at = "send" /\ at' = "wait" /\ outbox' = TRUE
      /\ UNCHANGED <<mbox, inbox, mail, kept, ret, fw, noise>>
      /\ UNCHANGED <<pc, irq, gic, vectors, timer, tick, info, pt, lines>>
      /\ NoDraw
  BY DEF mail_go, mail_send
<1>2. ~InHand /\ ~InHand'
  BY <1>1 DEF InHand
<1>3. BootType'
  BY <1>0, <1>1 DEF BootType
<1>4. Posted'
  BY <1>0, <1>1, <1>2 DEF Posted, OneTag
<1>5. Survives'
  BY <1>0, <1>1 DEF Survives
<1>6. Granted'
  BY <1>0, <1>1, <1>2 DEF Granted, Answered, Pitch
<1>7. Answers'
  BY <1>2 DEF Answers
<1>8. Known'
  BY <1>0, <1>1 DEF Known, Pitch
<1>9. Placed'
  BY <1>1, PlacedStill
<1>10. QED
  BY <1>3, <1>4, <1>5, <1>6, <1>7, <1>8, <1>9 DEF BootInv

\* An answer of another channel.
LEMMA OtherStep ==
  ASSUME BootInv, other_channel, NoDraw,
         UNCHANGED <<pc, irq, gic, vectors, timer, tick, info, pt, lines>>
  PROVE  BootInv'
<1>0. BootType /\ Posted /\ Survives /\ Granted /\ Known
  BY DEF BootInv
<1>1. /\ inbox = << >> /\ inbox' = <<"other">>
      /\ UNCHANGED <<mbox, outbox, mail, at, kept, ret, fw>>
  BY DEF other_channel
<1>2. ~InHand
  <2>1. << >> # <<"r">> /\ << >> # <<"other", "r">>
    OBVIOUS
  <2>2. QED
    BY <1>0, <1>1, <2>1 DEF Posted
<1>3. ~InHand'
  BY <1>1, <1>2 DEF InHand
<1>4. BootType'
  BY <1>0, <1>1 DEF BootType
<1>5. Posted'
  BY <1>0, <1>1, <1>2, <1>3 DEF Posted, OneTag
<1>6. Survives'
  BY <1>0, <1>1 DEF Survives
<1>7. Granted'
  BY <1>0, <1>1, <1>2, <1>3 DEF Granted, Answered, Pitch
<1>8. Answers'
  BY <1>3 DEF Answers
<1>9. Known'
  BY <1>0, <1>1 DEF Known, Pitch
<1>10. Placed'
  BY PlacedStill
<1>11. QED
  BY <1>4, <1>5, <1>6, <1>7, <1>8, <1>9, <1>10 DEF BootInv

\* What is in the inbox of the code that waits.
LEMMA Incoming ==
  ASSUME Posted, at = "wait", inbox # << >>
  PROVE  /\ InHand /\ Head(inbox) = "r" => mbox[1] = SUCCESS /\ Tail(inbox) = << >>
         /\ Head(inbox) = "r" => InHand
         /\ InHand /\ Head(inbox) # "r" => Tail(inbox) = <<"r">>
         /\ ~InHand => Tail(inbox) = << >>
         /\ InHand /\ mbox[1] # SUCCESS => FALSE
<1>1. /\ Head(<<"r">>) = "r" /\ Tail(<<"r">>) = << >>
      /\ Head(<<"other">>) = "other" /\ Tail(<<"other">>) = << >>
      /\ Head(<<"other", "r">>) = "other" /\ Tail(<<"other", "r">>) = <<"r">>
  OBVIOUS
<1>2. \/ InHand /\ mbox[1] = SUCCESS /\ (inbox = <<"r">> \/ inbox = <<"other", "r">>)
      \/ ~InHand /\ inbox = <<"other">>
  BY DEF Posted
<1>3. QED
  BY <1>1, <1>2

\* One turn of the loop.
LEMMA LoopStep ==
  ASSUME BootInv, mail_loop
  PROVE  BootInv'
<1> DEFINE f == Main[pc + 1].f
<1>0. BootType /\ Posted /\ Survives /\ Granted /\ Answers /\ Known /\ pc \in Int
  BY DEF BootInv, BootType
<1>1. /\ at = "wait" /\ inbox # << >> /\ inbox' = Tail(inbox)
      /\ UNCHANGED <<mbox, outbox, fw, noise>>
      /\ UNCHANGED <<irq, gic, vectors, timer, tick, info, pt, lines>>
      /\ NoDraw
  BY DEF mail_loop, mail_read
<1>2. pc \in Calls /\ mail = f
  BY <1>0, <1>1 DEF Posted
<1>3. Good(pc, f) /\ Keeps(pc, f.keep)
  BY <1>2, MessagesMade, MessagesKeep
<1>4. CASE Head(inbox) = "r" /\ mbox[1] = SUCCESS
  <2>1. InHand /\ Tail(inbox) = << >> /\ ~outbox
    BY <1>0, <1>1, <1>4, Incoming DEF InHand
  <2>2. kept' = Taken(f, mbox) /\ at' = "idle" /\ pc' = pc + 1
    <3>1. mail.ret # "never"
      BY <1>2, <1>3 DEF Good, WellMade
    <3>2. kept' = Taken(mail, mbox) /\ at' = "idle"
      BY <1>4, <3>1 DEF mail_loop, mail_read
    <3>3. QED
      BY <3>2, <1>2 DEF mail_loop
  <2> DEFINE k == Taken(f, mbox)
  <2>3. kept \in [KEPT -> Int] /\ mbox \in [WORDS -> Nat]
    BY <1>0 DEF BootType
  <2>4. /\ k \in [KEPT -> Int]
        /\ pc \notin {6, 8} => k["width"] = kept["width"] /\ k["height"] = kept["height"]
        /\ pc = 8 => k["width"] = mbox[5] /\ k["height"] = mbox[6]
        /\ pc # 13 => k["buf"] = kept["buf"] /\ k["buf_size"] = kept["buf_size"]
        /\ pc = 13 => k["buf"] = mbox[5] % (1024 * MB) /\ k["buf_size"] = mbox[6]
        /\ pc # 14 => k["pitch"] = kept["pitch"]
        /\ pc = 14 => k["pitch"] = mbox[5]
        /\ pc # 15 => k["vc_base_address"] = kept["vc_base_address"]
        /\ pc = 15 => k["vc_base_address"] = mbox[5] + 8 * MB
    BY <1>2, <1>3, <2>3, TakenIs
  <2> HIDE DEF k, f
  <2>5. kept' = k
    BY <2>2 DEF k
  <2>6. pc \in 0 .. 33
    BY <1>2 DEF Calls
  <2>7. BootType'
    BY <1>0, <1>1, <2>2, <2>4, <2>5, <2>6 DEF BootType
  <2>8. ~InHand' /\ inbox' = << >> /\ ~outbox'
    BY <1>1, <2>1, <2>2 DEF InHand
  <2>9. Posted'
    BY <2>2, <2>8 DEF Posted
  <2>10. Survives'
    <3>1. pc' \in 19 .. 29 => pc \in 19 .. 29 \/ pc = 18
      BY <1>0, <2>2
    <3>2. at # "idle" /\ at' = "idle" /\ mbox' = mbox
      BY <1>1, <2>2
    <3>3. QED
      BY <1>0, <3>1, <3>2 DEF Survives
  <2>11. Granted'
    <3>1. /\ Answered(10)' <=> Answered(10)
          /\ Answered(12)' <=> Answered(12)
          /\ Answered(14)' <=> Answered(14)
      BY <1>0, <2>1, <2>2, <2>8 DEF Answered
    <3>2. fw' = fw /\ Pitch(fw)' = Pitch(fw) /\ Granted
      BY <1>0, <1>1 DEF Pitch
    <3>3. QED
      BY <3>1, <3>2 DEF Granted
  <2>12. Answers'
    BY <2>8 DEF Answers
  <2>13. Known'
    <3>1. fw' = fw /\ pt' = pt /\ Pitch(fw)' = Pitch(fw)
      BY <1>1 DEF Pitch
    <3>2. fw.base \in FbBases
      BY <1>0 DEF BootType, FW
    <3>3. /\ pc = 8 => <<k["width"], k["height"]>> = fw.display
          /\ pc = 13 => k["buf"] = fw.base /\ k["buf_size"] = fw.size
          /\ pc = 14 => k["pitch"] = Pitch(fw)
          /\ pc = 15 => k["vc_base_address"] = VcBase + 8 * MB
      BY <1>0, <2>1, <2>4, <3>2, Addresses DEF Answers
    <3>4. pc' >= 9 => <<k["width"], k["height"]>> = fw.display
      BY <1>0, <2>2, <2>4, <3>3 DEF Known
    <3>5. pc' >= 14 => k["buf_size"] = fw.size
      BY <1>0, <2>2, <2>4, <3>3 DEF Known
    <3>6. pc' \in 14 .. 16 => k["buf"] = fw.base
      BY <1>0, <2>2, <2>4, <3>3 DEF Known
    <3>7. pc' >= 15 => k["pitch"] = Pitch(fw)
      BY <1>0, <2>2, <2>4, <3>3 DEF Known
    <3>8. pc' >= 16 => k["vc_base_address"] = VcBase + 8 * MB
      BY <1>0, <2>2, <2>4, <3>3 DEF Known
    <3>9. (pc' >= 17 <=> pc >= 17) /\ (pc' < 17 <=> pc < 17)
      BY <1>2, <2>2 DEF Calls
    <3>10. pc >= 17 => k["buf"] = kept["buf"]
      BY <1>0, <2>4
    <3>11. pc' >= 17 =>
            /\ pt = [vc |-> (VcBase + 8 * MB) \div PT_SIZE, pages |-> fw.size \div PT_SIZE + 1,
                     from |-> fw.base \div PT_SIZE,
                     to |-> (VcBase + 8 * MB) \div PT_SIZE - 1 - (fw.size \div PT_SIZE + 1)]
            /\ k["buf"] = pt.to * PT_SIZE + (fw.base % PT_SIZE)
      BY <1>0, <3>9, <3>10 DEF Known
    <3>12. pc' < 17 => pt = NoMap
      BY <1>0, <3>9 DEF Known
    <3>13. QED
      BY <2>5, <3>1, <3>4, <3>5, <3>6, <3>7, <3>8, <3>11, <3>12 DEF Known
  <2>14. Placed'
    BY <1>1, <1>2, <2>2, PlacedStill DEF Calls
  <2>15. QED
    BY <2>7, <2>9, <2>10, <2>11, <2>12, <2>13, <2>14 DEF BootInv
<1>5. CASE ~(Head(inbox) = "r" /\ mbox[1] = SUCCESS)
  <2>1. UNCHANGED <<kept, mail, at, ret>> /\ pc' = pc
    <3>1. UNCHANGED <<kept, mail, at, ret>>
      BY <1>5 DEF mail_loop, mail_read
    <3>2. at' # "idle"
      BY <3>1, <1>1
    <3>3. QED
      BY <3>1, <3>2 DEF mail_loop
  <2>2. InHand' <=> InHand
    BY <1>1, <2>1 DEF InHand
  <2>3. inbox' = IF InHand THEN <<"r">> ELSE << >>
    BY <1>0, <1>1, <1>5, Incoming
  <2> HIDE DEF f
  <2>4. BootType'
    BY <1>0, <1>1, <2>1 DEF BootType
  <2>5. Posted'
    BY <1>0, <1>1, <2>1, <2>2, <2>3 DEF Posted, OneTag
  <2>6. Survives'
    BY <1>0, <1>1, <2>1 DEF Survives
  <2>7. Granted'
    BY <1>0, <1>1, <2>1, <2>2, SMTT(20) DEF Granted, Answered, Pitch
  <2>8. Answers'
    BY <1>0, <1>1, <2>1, <2>2 DEF Answers, Pitch
  <2>9. Known'
    BY <1>0, <1>1, <2>1 DEF Known, Pitch
  <2>10. Placed'
    BY <1>1, <2>1, PlacedStill
  <2>11. QED
    BY <2>4, <2>5, <2>6, <2>7, <2>8, <2>9, <2>10 DEF BootInv
<1>6. QED
  BY <1>4, <1>5

\* An answer behind that of another channel.
LEMMA Behind == Append(<<"other">>, "r") = <<"other", "r">>
<1> DEFINE s == <<"other">>
           u == <<"other", "r">>
           t == Append(s, "r")
           S == {"other", "r"}
<1>1. s \in Seq(S) /\ Len(s) = 1 /\ s[1] = "other"
  OBVIOUS
<1>2. u \in Seq(S) /\ Len(u) = 2 /\ u[1] = "other" /\ u[2] = "r"
  OBVIOUS
<1>3. "r" \in S
  OBVIOUS
<1> HIDE DEF s, u, S
<1>4. t \in Seq(S) /\ Len(t) = 2 /\ t[1] = "other" /\ t[2] = "r"
  <2>1. s \in Seq(S)
    BY <1>1
  <2>2. /\ t \in Seq(S) /\ Len(t) = Len(s) + 1 /\ t[Len(s) + 1] = "r"
        /\ \A i \in 1 .. Len(s) : t[i] = s[i]
    BY <2>1, <1>3, AppendProperties
  <2> HIDE DEF t
  <2>3. QED
    BY <2>2, <1>1
<1> HIDE DEF t
<1>5. \A i \in 1 .. Len(t) : t[i] = u[i]
  <2>1. TAKE i \in 1 .. Len(t)
  <2>2. i = 1 \/ i = 2
    BY <1>4
  <2>3. QED
    BY <2>2, <1>2, <1>4
<1>6. t = u
  BY <1>2, <1>4, <1>5, SeqEqual
<1>7. QED
  BY <1>6 DEF s, t, u

\* The firmware answers.
LEMMA AnswerStep ==
  ASSUME BootInv, firmware_answers, NoDraw,
         UNCHANGED <<pc, irq, gic, vectors, timer, tick, info, pt, lines>>
  PROVE  BootInv'
<1> DEFINE f == Main[pc + 1].f
           d == Obeyed(fw, mbox)
           a == Answer(d, mbox)
<1>0. BootType /\ Posted /\ Survives /\ Granted /\ Known /\ pc \in Int
  BY DEF BootInv, BootType
<1>1. /\ outbox /\ outbox' = FALSE /\ inbox' = Append(inbox, "r")
      /\ UNCHANGED <<mail, at, kept, ret, noise>>
  BY DEF firmware_answers
<1>2. at = "wait" /\ pc \in Calls /\ mail = f /\ ~InHand /\ InHand'
  BY <1>0, <1>1 DEF Posted, InHand
<1>3. /\ OneTag(mbox) /\ mbox[0] = 32
      /\ mbox[2] = f.send[1] /\ mbox[5] = f.send[4] /\ mbox[6] = f.send[5]
  BY <1>0, <1>2 DEF Posted
<1>4. mbox \in [WORDS -> Nat] /\ fw \in FW
  BY <1>0 DEF BootType
<1>5. Parses(mbox)
  BY <1>3, <1>4, OneTagParses
<1>6. fw' = d /\ mbox' = [mbox EXCEPT ![1] = SUCCESS, ![5] = a[1], ![6] = a[2]]
  BY <1>5 DEF firmware_answers
<1>7. Good(pc, f)
  BY <1>2, MessagesMade
<1> HIDE DEF f
<1>8. /\ d \in FW /\ d.obeys = fw.obeys /\ d.base = fw.base
      /\ pc # 8 => d.display = fw.display
      /\ d.virtual = IF fw.obeys /\ pc = 9 THEN <<1920, 1080>> ELSE fw.virtual
      /\ d.depth = IF fw.obeys /\ pc = 11 THEN 32 ELSE fw.depth
      /\ d.size = IF pc = 13 THEN Pitch(fw) * fw.virtual[2] ELSE fw.size
  BY <1>2, <1>3, <1>4, <1>7, Obeys
<1> HIDE DEF d
<1>9. /\ a[1] \in Nat /\ a[2] \in Nat
      /\ pc = 8 => <<a[1], a[2]>> = d.display
      /\ pc = 13 => a[1] = d.base + 1024 * MB /\ a[2] = d.size
      /\ pc = 14 => a[1] = Pitch(d)
      /\ pc = 15 => a[1] = VcBase
  BY <1>2, <1>3, <1>4, <1>7, <1>8, AnswersIt
<1> DEFINE v == a[1]
           w == a[2]
<1>10. v \in Nat /\ w \in Nat
  BY <1>9
<1> HIDE DEF a, v, w
<1>11. mbox' = [mbox EXCEPT ![1] = SUCCESS, ![5] = v, ![6] = w]
  BY <1>6 DEF v, w
<1>12. /\ mbox' \in [WORDS -> Nat] /\ mbox'[1] = SUCCESS /\ mbox'[5] = v /\ mbox'[6] = w
       /\ mbox'[7] = mbox[7]
  BY <1>4, <1>10, <1>11 DEF WORDS, SUCCESS
<1>13. BootType'
  BY <1>0, <1>1, <1>6, <1>8, <1>12 DEF BootType
<1>14. Posted'
  <2>1. inbox = << >> \/ inbox = <<"other">>
    BY <1>0, <1>2 DEF Posted
  <2>0. Append(<< >>, "r") = <<"r">>
    OBVIOUS
  <2>2. Append(<< >>, "r") = <<"r">> /\ Append(<<"other">>, "r") = <<"other", "r">>
    BY <2>0, Behind
  <2>3. inbox' \in {<<"r">>, <<"other", "r">>}
    BY <1>1, <2>1, <2>2
  <2>4. pc' \in Calls /\ mail' = Main[pc' + 1].f
    BY <1>1, <1>2 DEF f
  <2>5. QED
    BY <1>1, <1>2, <1>12, <2>3, <2>4 DEF Posted
<1>15. Survives'
  BY <1>0, <1>1, <1>2, <1>12 DEF Survives
<1>16. /\ Answered(10)' <=> Answered(10) \/ pc = 9
       /\ Answered(12)' <=> Answered(12) \/ pc = 11
       /\ Answered(14)' <=> Answered(14) \/ pc = 13
  BY <1>0, <1>2 DEF Answered
<1>17. pc # 9 /\ pc # 11 => Pitch(d) = Pitch(fw)
  BY <1>8 DEF Pitch
<1>18. Granted'
  <2>1. /\ fw.virtual = IF fw.obeys /\ Answered(10) THEN <<1920, 1080>> ELSE <<640, 480>>
        /\ fw.depth = IF fw.obeys /\ Answered(12) THEN 32 ELSE 16
        /\ Answered(14) => fw.size = Pitch(fw) * fw.virtual[2]
    BY <1>0 DEF Granted
  <2>2. d.virtual = IF d.obeys /\ Answered(10)' THEN <<1920, 1080>> ELSE <<640, 480>>
    BY <1>8, <1>16, <2>1
  <2>3. d.depth = IF d.obeys /\ Answered(12)' THEN 32 ELSE 16
    BY <1>8, <1>16, <2>1
  <2>4. Answered(14)' => d.size = Pitch(d) * d.virtual[2]
    <3>1. SUFFICES ASSUME Answered(14)' PROVE d.size = Pitch(d) * d.virtual[2]
      OBVIOUS
    <3>2. pc >= 13
      BY <3>1, <1>0, <1>2 DEF Answered
    <3>3. pc # 9 /\ pc # 11
      BY <3>2, <1>0
    <3>4. d.virtual = fw.virtual /\ Pitch(d) = Pitch(fw)
      BY <3>3, <1>8, <1>17
    <3>5. QED
      BY <3>1, <3>4, <1>8, <1>16, <2>1
  <2>5. QED
    BY <1>6, <2>2, <2>3, <2>4 DEF Granted, Pitch
<1>19. Answers'
  BY <1>6, <1>9, <1>12 DEF Answers, Pitch, v, w
<1>20. Known'
  <2>1. CASE pc >= 14
    <3>1. /\ pc # 8 /\ pc # 9 /\ pc # 11 /\ pc # 13
      BY <2>1, <1>0
    <3>2. d.display = fw.display /\ d.size = fw.size /\ d.base = fw.base /\ Pitch(d) = Pitch(fw)
      BY <3>1, <1>8, <1>17
    <3>3. fw'.display = fw.display /\ fw'.size = fw.size /\ fw'.base = fw.base /\ Pitch(fw)' = Pitch(fw)
      BY <1>6, <3>2 DEF Pitch
    <3>4. Known
      BY <1>0
    <3>5. pc' = pc /\ pt' = pt /\ kept' = kept
      BY <1>1
    <3>6. QED
      BY <3>3, <3>4, <3>5 DEF Known
  <2>2. CASE ~(pc >= 14)
    <3>1. pc < 17 /\ pc \notin 14 .. 16 /\ ~(pc >= 15) /\ ~(pc >= 16) /\ ~(pc >= 17)
      BY <2>2, <1>0
    <3>2. pc' = pc /\ pt' = pt /\ kept' = kept /\ Known
      BY <1>0, <1>1
    <3>3. pc >= 9 => d.display = fw.display
      BY <1>0, <1>8
    <3>4. pc >= 9 => fw'.display = fw.display
      BY <1>6, <3>3
    <3>5. QED
      BY <2>2, <3>1, <3>2, <3>4 DEF Known
  <2>3. QED
    BY <2>1, <2>2
<1>21. Placed'
  BY PlacedStill
<1>22. QED
  BY <1>13, <1>14, <1>15, <1>18, <1>19, <1>20, <1>21 DEF BootInv

\* The step that builds the map.
LEMMA MapStep ==
  ASSUME BootInv, identity_map
  PROVE  BootInv'
<1>0. BootType /\ Posted /\ Granted /\ Known /\ pc \in 0 .. 34
  BY DEF BootInv, BootType
<1>1. at = "idle" /\ pc = 16
  BY <1>0, StepAt DEF identity_map
<1>2. /\ pt' = MapOf(kept) /\ pc' = pc + 1 /\ NoDraw
      /\ kept' = [kept EXCEPT !.buf = MapOf(kept).to * PT_SIZE + (@ % PT_SIZE)]
      /\ UNCHANGED <<outbox, inbox, mail, at, ret, fw, noise, irq, gic, vectors, timer, tick,
                     info, lines>>
  BY DEF identity_map
<1>3. mbox' \in [WORDS -> Nat]
  BY DEF identity_map, COLOR
<1>4. /\ kept["buf_size"] = fw.size /\ kept["buf"] = fw.base /\ kept["pitch"] = Pitch(fw)
      /\ kept["vc_base_address"] = VcBase + 8 * MB
      /\ <<kept["width"], kept["height"]>> = fw.display
      /\ kept \in [KEPT -> Int]
  BY <1>0, <1>1 DEF Known, BootType
<1> DEFINE v == (VcBase + 8 * MB) \div PT_SIZE
           n == fw.size \div PT_SIZE + 1
           g == fw.base \div PT_SIZE
<1>5. MapOf(kept) = [vc |-> v, pages |-> n, from |-> g, to |-> v - 1 - n]
  BY <1>4 DEF MapOf, FbPages
<1>6. v \in Int /\ n \in Int /\ g \in Int /\ fw.base % PT_SIZE \in Int
  <2>1. fw.size \in Nat /\ fw.base \in Int
    BY <1>0, Addresses DEF BootType, FW
  <2>2. VcBase + 8 * MB \in Int
    BY Addresses DEF MB
  <2>3. QED
    BY <2>1, <2>2, SMT DEF PT_SIZE, MB
<1> HIDE DEF v, n, g
<1>7. MapOf(kept).to = v - 1 - n
  BY <1>5
<1> DEFINE buf == (v - 1 - n) * PT_SIZE + (fw.base % PT_SIZE)
<1>8. buf \in Int
  <2>1. PT_SIZE \in Int
    BY DEF PT_SIZE, MB
  <2>2. QED
    BY <1>6, <2>1
<1> HIDE DEF buf
<1>9. kept' = [kept EXCEPT !.buf = buf]
  BY <1>2, <1>4, <1>7, Zenon DEF buf
<1>10. /\ kept' \in [KEPT -> Int]
       /\ kept'["buf"] = buf
       /\ \A k \in KEPT \ {"buf"} : kept'[k] = kept[k]
  BY <1>4, <1>8, <1>9, SMT DEF KEPT
<1>11. BootType'
  BY <1>0, <1>1, <1>2, <1>3, <1>10 DEF BootType
<1>12. ~InHand /\ ~InHand'
  BY <1>1, <1>2 DEF InHand
<1>13. Posted'
  BY <1>0, <1>1, <1>2, <1>12 DEF Posted
<1>14. Survives'
  BY <1>1, <1>2 DEF Survives
<1>15. Granted'
  <2>1. /\ Answered(10)' <=> Answered(10)
        /\ Answered(12)' <=> Answered(12)
        /\ Answered(14)' <=> Answered(14)
    BY <1>1, <1>2, <1>12 DEF Answered
  <2>2. fw' = fw /\ Pitch(fw)' = Pitch(fw) /\ Granted
    BY <1>0, <1>2 DEF Pitch
  <2>3. QED
    BY <2>1, <2>2 DEF Granted
<1>16. Answers'
  BY <1>12 DEF Answers
<1>17. Known'
  <2>1. pc' = 17 /\ fw' = fw /\ Pitch(fw)' = Pitch(fw)
    BY <1>1, <1>2 DEF Pitch
  <2>2. /\ kept'["buf_size"] = fw.size /\ kept'["pitch"] = Pitch(fw)
        /\ kept'["vc_base_address"] = VcBase + 8 * MB
        /\ <<kept'["width"], kept'["height"]>> = fw.display
    BY <1>4, <1>10 DEF KEPT
  <2>3. /\ pt' = [vc |-> (VcBase + 8 * MB) \div PT_SIZE, pages |-> fw.size \div PT_SIZE + 1,
                  from |-> fw.base \div PT_SIZE,
                  to |-> (VcBase + 8 * MB) \div PT_SIZE - 1 - (fw.size \div PT_SIZE + 1)]
        /\ pt'.to = v - 1 - n
    BY <1>2, <1>5, <1>7 DEF v, n, g
  <2>4. kept'["buf"] = pt'.to * PT_SIZE + (fw.base % PT_SIZE)
    BY <1>10, <2>3 DEF buf
  <2>5. QED
    BY <2>1, <2>2, <2>3, <2>4 DEF Known
<1>18. Placed'
  BY <1>1, <1>2, PlacedStill
<1>19. QED
  BY <1>11, <1>13, <1>14, <1>15, <1>16, <1>17, <1>18 DEF BootInv

\* What a draw leaves alone: the mailbox too, as long as it stays on the screen.
LEMMA DrawKeeps ==
  ASSUME BootInv, NEW rects, NEW where, Draw(rects, where)
  PROVE  /\ mbox' \in [WORDS -> Nat] /\ drawn' = rects /\ area' = where
         /\ UNCHANGED <<outbox, inbox, mail, at, kept, fw>>
         /\ Room /\ (\A r \in rects : r.y1 \in Int /\ r.y2 \in Int /\ r.y2 <= 1079) => mbox' = mbox
<1>1. /\ drawn' = rects /\ area' = where
      /\ UNCHANGED <<outbox, inbox, mail, at, kept, fw>>
      /\ mbox' = [k \in WORDS |-> IF k \in Hit(rects) THEN COLOR ELSE mbox[k]]
  BY DEF Draw
<1>2. BootType /\ Granted /\ Known /\ mbox \in [WORDS -> Nat] /\ pc \in Int
  BY DEF BootInv, BootType
<1>3. COLOR \in Nat
  BY DEF COLOR
<1>4. mbox' \in [WORDS -> Nat]
  BY <1>1, <1>2, <1>3
<1>5. pc >= 17 \/ pt = NoMap
  BY <1>2 DEF Known
<1>6. ASSUME Room, \A r \in rects : r.y1 \in Int /\ r.y2 \in Int /\ r.y2 <= 1079
      PROVE  mbox' = mbox
  <2>1. Hit(rects) = {}
    BY <1>2, <1>5, <1>6, NoHit
  <2>2. QED
    BY <1>1, <1>2, <2>1
<1>7. QED
  BY <1>1, <1>4, <1>6

\* A step of main that draws.
LEMMA DrawOnward ==
  ASSUME BootInv, Room, at = "idle", pc \in {0, 20, 21}, pc' = pc + 1,
         UNCHANGED <<irq, gic, vectors, timer, tick, pt, lines>>,
         NEW rects, NEW where, Draw(rects, where), where \in {Screen, History, Clock},
         pc # 0 => info' = info
                   /\ \A r \in rects : r.y1 \in Int /\ r.y2 \in Int /\ r.y2 <= 1079
                                       /\ Within(r, where)
  PROVE  BootInv'
<1>1. /\ mbox' \in [WORDS -> Nat] /\ drawn' = rects /\ area' = where
      /\ UNCHANGED <<outbox, inbox, mail, at, kept, fw>>
      /\ pc # 0 => mbox' = mbox
  BY DrawKeeps
<1>2. pc \in 0 .. 33 /\ pc \notin Calls /\ pc # 16
  BY DEF Calls
<1>3. Posted' /\ Survives' /\ Granted' /\ Answers' /\ Known'
  BY <1>1, <1>2, Onward
<1>4. BootType'
  BY <1>1, <1>2 DEF BootInv, BootType
<1>5. Placed'
  <2>0. Placed
    BY DEF BootInv
  <2>1. /\ pc = 0 => ~(lines > 0) /\ ~timer
        /\ lines > 0 => pc' >= 31
        /\ timer => pc' >= 18
    BY <2>0 DEF Placed
  <2>2. area' \in {Screen, History, Clock}
    BY <1>1
  <2>3. CASE pc = 0
    BY <1>1, <2>1, <2>2, <2>3 DEF Placed
  <2>4. CASE pc # 0
    <3>1. info' = info /\ pc' \notin 2 .. 17 /\ pc >= 2 /\ lines' = lines
      BY <2>4
    <3>2. info' = [x0 |-> 4, y0 |-> 44, x |-> 4, y |-> 44 + FONT * lines']
      BY <2>0, <3>1 DEF Placed
    <3>3. \A r \in drawn' : Within(r, area')
      BY <1>1, <2>4
    <3>4. QED
      BY <2>1, <2>2, <3>1, <3>2, <3>3 DEF Placed
  <2>5. QED
    BY <2>3, <2>4
<1>6. QED
  BY <1>3, <1>4, <1>5 DEF BootInv

LEMMA DrawSteps ==
  ASSUME BootInv, Room, push_trace \/ history \/ title
  PROVE  BootInv'
<1>0. pc \in 0 .. 34
  BY DEF BootInv, BootType
<1>1. CASE push_trace
  <2>1. at = "idle" /\ pc = 0
    BY <1>0, <1>1, StepAt DEF push_trace
  <2>2. PICK n \in {1, 75} : Draw({Text(info.x, info.y, n)}, Screen)
    BY <1>1 DEF push_trace
  <2>3. pc' = pc + 1 /\ UNCHANGED <<irq, gic, vectors, timer, tick, pt, lines>>
    BY <1>1 DEF push_trace
  <2>4. QED
    BY <2>1, <2>2, <2>3, DrawOnward
<1>2. CASE history
  <2>1. at = "idle" /\ pc = 20
    BY <1>0, <1>2, StepAt DEF history
  <2>2. /\ Draw({Rect(0, 32, 647, 1079)}, History)
        /\ pc' = pc + 1 /\ UNCHANGED <<irq, gic, vectors, timer, tick, info, pt, lines>>
    BY <1>2 DEF history
  <2>3. \A r \in {Rect(0, 32, 647, 1079)} :
          r.y1 \in Int /\ r.y2 \in Int /\ r.y2 <= 1079 /\ Within(r, History)
    BY DEF Rect, Within, History
  <2>4. QED
    BY <2>1, <2>2, <2>3, DrawOnward
<1>3. CASE title
  <2>1. at = "idle" /\ pc = 21
    BY <1>0, <1>3, StepAt DEF title
  <2>2. /\ Draw({Text(info.x, info.y - 8, 16)}, History)
        /\ pc' = pc + 1 /\ UNCHANGED <<irq, gic, vectors, timer, tick, info, pt, lines>>
    BY <1>3 DEF title
  <2>3. info.x = 4 /\ info.y = 44
    <3>1. Placed /\ lines \in Nat
      BY BootAssumption DEF BootInv, BootType
    <3>2. lines = 0
      BY <2>1, <3>1 DEF Placed
    <3>3. QED
      BY <2>1, <3>1, <3>2 DEF Placed, FONT
  <2>4. \A r \in {Text(info.x, info.y - 8, 16)} :
          r.y1 \in Int /\ r.y2 \in Int /\ r.y2 <= 1079 /\ Within(r, History)
    BY <2>3 DEF Text, FONT, Rect, Within, History
  <2>5. QED
    BY <2>1, <2>2, <2>4, DrawOnward
<1>4. QED
  BY <1>1, <1>2, <1>3

\* The cursor moves down a line.
LEMMA NextLineIs ==
  ASSUME NEW y, NEW c, c = [x0 |-> 4, y0 |-> 44, x |-> 4, y |-> y]
  PROVE  NextLine(c) = [x0 |-> 4, y0 |-> 44, x |-> 4, y |-> y + FONT]
<1>1. NextLine(c) = [[c EXCEPT !.x = c.x0] EXCEPT !.y = @ + FONT]
  BY SMT DEF NextLine
<1>2. NextLine(c) = [[c EXCEPT !.x = c.x0] EXCEPT !.y = c.y + FONT]
  BY <1>1, SMT
<1>3. [c EXCEPT !.x = c.x0] = c
  BY SMT
<1> DEFINE w == y + FONT
<1> HIDE DEF w
<1>4. [c EXCEPT !.y = w] = [x0 |-> 4, y0 |-> 44, x |-> 4, y |-> w]
  BY SMT
<1>5. QED
  BY <1>2, <1>3, <1>4 DEF w

\* A traced call, of the last part of the boot or of the shell, prints a line below the last one.
LEMMA TraceStep ==
  ASSUME BootInv, Room, traced_call
  PROVE  BootInv'
<1>0. pc \in 0 .. 34 /\ BootType /\ Posted /\ Granted /\ Known /\ Placed
  BY DEF BootInv, BootType
<1>1. at = "idle" /\ pc \in {30, 31}
  <2>1. CASE Step("shell")
    BY <1>0, <2>1, StepAt
  <2>2. CASE Step("enable_interrupts") /\ pc > InitFb
    <3>1. InitFb = 15 /\ pc \in {4, 30} /\ at = "idle"
      BY <1>0, <2>2, StepAt, MainIs
    <3>2. QED
      BY <2>2, <3>1
  <2>3. QED
    BY <2>1, <2>2 DEF traced_call
<1>2. PICK n \in {1, 75} : Draw({Text(info.x, info.y, n)}, History)
  BY DEF traced_call
<1>3. /\ lines < MaxLines /\ lines' = lines + 1 /\ info' = NextLine(info)
      /\ UNCHANGED <<pc, irq, gic, vectors, timer, tick, pt>>
  BY DEF traced_call
<1>4. /\ mbox' \in [WORDS -> Nat] /\ drawn' = {Text(info.x, info.y, n)} /\ area' = History
      /\ UNCHANGED <<outbox, inbox, mail, at, kept, fw>>
  BY <1>2, DrawKeeps
<1>5. lines \in Nat /\ lines + 1 \in 0 .. MaxLines
  BY <1>0, <1>3, BootAssumption DEF BootType
<1>6. BootType'
  BY <1>0, <1>3, <1>4, <1>5 DEF BootType
<1>7. ~InHand /\ ~InHand'
  BY <1>1, <1>4 DEF InHand
<1>8. Posted'
  BY <1>0, <1>1, <1>4, <1>7 DEF Posted
<1>9. Survives'
  BY <1>1, <1>3, <1>4 DEF Survives
<1>10. Granted'
  BY <1>0, <1>3, <1>4, <1>7 DEF Granted, Answered, Pitch
<1>11. Answers'
  BY <1>7 DEF Answers
<1>12. Known'
  BY <1>0, <1>3, <1>4 DEF Known, Pitch
<1>13. Placed'
  <2>1. info = [x0 |-> 4, y0 |-> 44, x |-> 4, y |-> 44 + FONT * lines]
    BY <1>0, <1>1 DEF Placed
  <2>2. info' = [x0 |-> 4, y0 |-> 44, x |-> 4, y |-> 44 + FONT * lines']
    <3> DEFINE y == 44 + FONT * lines
    <3>1. y + FONT = 44 + FONT * (lines + 1) /\ y \in Int
      BY <1>5 DEF FONT
    <3> HIDE DEF y
    <3>2. info = [x0 |-> 4, y0 |-> 44, x |-> 4, y |-> y]
      BY <2>1 DEF y
    <3>3. NextLine(info) = [x0 |-> 4, y0 |-> 44, x |-> 4, y |-> y + FONT]
      BY <3>2, NextLineIs
    <3>4. QED
      BY <1>3, <3>1, <3>3
  <2>3. ASSUME lines' <= HistoryLines
        PROVE  \A r \in drawn' : Within(r, area')
    <3>1. HistoryLines = 129
      BY DEF HistoryLines, History, Rect, FONT
    <3>2. info.x = 4 /\ info.y = 44 + 8 * lines /\ lines <= 128
      BY <1>3, <1>5, <2>1, <2>3, <3>1 DEF FONT
    <3>3. Within(Text(4, 44 + 8 * lines, n), History)
      <4>1. n = 1 \/ n = 75
        OBVIOUS
      <4>2. QED
        BY <1>5, <3>2, <4>1 DEF Text, FONT, Rect, Within, History
    <3>4. QED
      BY <1>4, <3>2, <3>3
  <2>4. timer' => pc' >= 18
    BY <1>1, <1>3
  <2>5. QED
    BY <1>1, <1>3, <1>4, <2>2, <2>3, <2>4 DEF Placed
<1>14. QED
  BY <1>6, <1>8, <1>9, <1>10, <1>11, <1>12, <1>13 DEF BootInv

\* The timer interrupt draws in its corner, wherever main is.
LEMMA IrqStep ==
  ASSUME BootInv, Room, handle_irq
  PROVE  BootInv'
<1>0. BootType /\ Posted /\ Survives /\ Granted /\ Answers /\ Known /\ Placed /\ pc \in Int
  BY DEF BootInv, BootType
<1> DEFINE rects(n) == {Rect(0, 0, 95, 15), Text(4, 4, n), Rect(0, 16, 95, 31), Text(4, 19, 10)}
<1>1. PICK n \in {1, 11} : Draw(rects(n), Clock)
  BY DEF handle_irq
<1>2. /\ timer /\ tick < MaxTicks /\ tick' = tick + 1
      /\ UNCHANGED <<pc, irq, gic, vectors, timer, info, pt, lines>>
  BY DEF handle_irq
<1>3. \A r \in rects(n) : r.y1 \in Int /\ r.y2 \in Int /\ r.y2 <= 1079 /\ Within(r, Clock)
  <2>1. n = 1 \/ n = 11
    OBVIOUS
  <2>2. QED
    BY <2>1 DEF Rect, Text, FONT, Within, Clock
<1> HIDE DEF rects
<1>4. /\ mbox' = mbox /\ drawn' = rects(n) /\ area' = Clock
      /\ UNCHANGED <<outbox, inbox, mail, at, kept, fw>>
  BY <1>1, <1>3, DrawKeeps
<1>5. tick' \in 0 .. MaxTicks
  BY <1>0, <1>2, BootAssumption DEF BootType
<1>6. BootType'
  BY <1>0, <1>2, <1>4, <1>5 DEF BootType
<1>7. InHand' <=> InHand
  BY <1>4 DEF InHand
<1>8. Posted'
  BY <1>0, <1>2, <1>4, <1>7 DEF Posted, OneTag
<1>9. Survives'
  BY <1>0, <1>2, <1>4 DEF Survives
<1>10. Granted'
  BY <1>0, <1>2, <1>4, <1>7 DEF Granted, Answered, Pitch
<1>11. Answers'
  BY <1>0, <1>2, <1>4, <1>7 DEF Answers, Pitch
<1>12. Known'
  BY <1>0, <1>2, <1>4 DEF Known, Pitch
<1>13. Placed'
  <2>1. pc >= 18 /\ pc' = pc
    BY <1>0, <1>2 DEF Placed
  <2>2. QED
    BY <1>0, <1>2, <1>3, <1>4, <2>1 DEF Placed
<1>14. QED
  BY <1>6, <1>8, <1>9, <1>10, <1>11, <1>12, <1>13 DEF BootInv

\* Every step keeps the invariant.
LEMMA BootStep ==
  ASSUME Room, BootInv, [Next]_vars
  PROVE  BootInv'
<1>1. CASE mail_start
  BY <1>1, StartStep
<1>2. CASE mail_go
  BY <1>2, GoStep
<1>3. CASE mail_loop
  BY <1>3, LoopStep
<1>4. CASE \/ set_info \/ gic400_init \/ init_vectors \/ enable_interrupts \/ disable_interrupts
           \/ timer_init \/ fallback \/ shutdown
  BY <1>4, QuietSteps
<1>5. CASE push_trace \/ history \/ title
  BY <1>5, DrawSteps
<1>6. CASE identity_map
  BY <1>6, MapStep
<1>7. CASE traced_call
  BY <1>7, TraceStep
<1>8. CASE firmware
  <2>1. /\ NoDraw
        /\ UNCHANGED <<pc, irq, gic, vectors, timer, tick, info, pt, lines>>
        /\ firmware_answers \/ other_channel
    BY <1>8 DEF firmware
  <2>2. QED
    BY <2>1, AnswerStep, OtherStep
<1>9. CASE handle_irq
  BY <1>9, IrqStep
<1>10. CASE UNCHANGED vars
  <2>1. /\ UNCHANGED <<mbox, outbox, inbox, mail, at, kept, ret, fw, noise>>
        /\ UNCHANGED <<pc, irq, gic, vectors, timer, tick, info, pt, drawn, area, lines>>
    BY <1>10 DEF vars, mailvars, bootvars
  <2>2. BootType' /\ Survives'
    BY <2>1 DEF BootInv, BootType, Survives
  <2>3. InHand' <=> InHand
    BY <2>1 DEF InHand
  <2>4. Posted'
    BY <2>1, <2>3 DEF BootInv, Posted, OneTag
  <2>5. Granted' /\ Answers'
    BY <2>1, <2>3 DEF BootInv, Granted, Answered, Answers, Pitch
  <2>6. Known' /\ Placed'
    BY <2>1 DEF BootInv, Known, Placed, Pitch
  <2>7. QED
    BY <2>2, <2>4, <2>5, <2>6 DEF BootInv
<1>11. QED
  BY <1>1, <1>2, <1>3, <1>4, <1>5, <1>6, <1>7, <1>8, <1>9, <1>10 DEF Next, MainStep

-----------------------------------------------------------------------------
(***************************************************************************)
(* What follows from it.                                                   *)
(***************************************************************************)
\* The messages of the functions that nothing calls at boot.
LEMMA UncalledClosed ==
  ASSUME NEW words \in [WORDS -> Nat], NEW f \in Uncalled
  PROVE  OneTag(Filled(f, words))
<1> DEFINE Six(g, t) == /\ g.total = 8 /\ g.send \in Seq(Nat) /\ Len(g.send) = 6
                        /\ g.send[1] = t /\ g.send[2] = 8 /\ g.send[6] = 0
           Seven(g, t) == /\ g.total = 9 /\ g.send \in Seq(Nat) /\ Len(g.send) = 7
                          /\ g.send[1] = t /\ g.send[2] = 8 /\ g.send[6] = 0
<1>0. /\ SET_POWER_STATE \in TAGS /\ RELEASE_FRAME_BUFFER \in TAGS /\ BLANK_SCREEN \in TAGS
      /\ GET_DEPTH \in TAGS /\ GET_PIXEL_ORDER \in TAGS /\ SET_GPIO \in TAGS
      /\ SET_CLOCK_RATE \in TAGS /\ ALLOCATE_MEMORY \in TAGS
  BY DEF TAGS, RELEASE_FRAME_BUFFER, BLANK_SCREEN
<1>n. \A t \in TAGS : t \in Nat
  BY TagNumbers
<1>1. Six(bcm_2708_power_off, SET_POWER_STATE)
  BY <1>0, <1>n DEF bcm_2708_power_off, Tag
<1>2. Six(bcm_2708_power_on, SET_POWER_STATE)
  BY <1>0, <1>n DEF bcm_2708_power_on, Tag
<1>3. Six(release_framebuffer, RELEASE_FRAME_BUFFER)
  BY <1>0, <1>n DEF release_framebuffer, Tag
<1>4. Six(blank_screen(1), BLANK_SCREEN)
  BY <1>0, <1>n DEF blank_screen, Tag
<1>5. Six(get_display_depth, GET_DEPTH)
  BY <1>0, <1>n DEF get_display_depth, Tag
<1>6. Six(get_pixel_order, GET_PIXEL_ORDER)
  BY <1>0, <1>n DEF get_pixel_order, Tag
<1>7. Six(sd_disable_low_power, SET_GPIO)
  BY <1>0, <1>n DEF sd_disable_low_power, Tag
<1>8. Seven(sd_set_base_clock_hz(EMMC_CLOCK_ID, 25 * MB, 0), SET_CLOCK_RATE)
  <2> DEFINE r == 25 * MB
  <2>1. r \in Nat /\ EMMC_CLOCK_ID \in Nat
    BY DEF MB, EMMC_CLOCK_ID
  <2> HIDE DEF r
  <2>2. Seven(sd_set_base_clock_hz(EMMC_CLOCK_ID, r, 0), SET_CLOCK_RATE)
    BY <1>0, <1>n, <2>1 DEF sd_set_base_clock_hz, Tag
  <2>3. QED
    BY <2>2 DEF r
<1>9. Seven(allocate_GPU_memory(4096, 16, 0), ALLOCATE_MEMORY)
  BY <1>0, <1>n DEF allocate_GPU_memory, Tag
<1>10. \E t \in TAGS : Six(f, t) \/ Seven(f, t)
  <2> HIDE DEF Six, Seven
  <2>1. \/ f = bcm_2708_power_off \/ f = bcm_2708_power_on \/ f = release_framebuffer
        \/ f = blank_screen(1) \/ f = get_display_depth \/ f = get_pixel_order
        \/ f = sd_disable_low_power \/ f = sd_set_base_clock_hz(EMMC_CLOCK_ID, 25 * MB, 0)
        \/ f = allocate_GPU_memory(4096, 16, 0)
    BY DEF Uncalled
  <2>2. QED
    BY <2>1, <1>0, <1>1, <1>2, <1>3, <1>4, <1>5, <1>6, <1>7, <1>8, <1>9
<1>11. PICK t \in TAGS : Six(f, t) \/ Seven(f, t)
  BY <1>10
<1> DEFINE m == Filled(f, words)
<1>12. /\ f.send \in Seq(Nat) /\ Len(f.send) \in 5 .. 7 /\ Len(f.send) # 5
       /\ (f.total = 8 \/ f.total = 9) /\ f.send[1] = t /\ f.send[2] = 8 /\ f.send[6] = 0
  <2>1. /\ f.send \in Seq(Nat) /\ (f.total = 8 \/ f.total = 9)
        /\ f.send[1] = t /\ f.send[2] = 8 /\ f.send[6] = 0
    BY <1>11, Zenon
  <2>2. Len(f.send) = 6 \/ Len(f.send) = 7
    BY <1>11, Zenon
  <2> DEFINE n == Len(f.send)
  <2> HIDE DEF n
  <2>3. n \in 5 .. 7 /\ n # 5
    BY <2>2 DEF n
  <2>4. QED
    BY <2>1, <2>3 DEF n
<1>13. m[0] = 4 * f.total /\ m[2] = t /\ m[3] = 8 /\ m[7] = 0
  BY <1>12, FilledIs, SMTT(40)
<1> HIDE DEF m
<1>14. OneTag(m)
  BY <1>12, <1>13 DEF OneTag
<1>15. QED
  BY <1>14 DEF m

LEMMA InvMessages == BootInv => MessagesClosed
<1> SUFFICES ASSUME BootInv PROVE MessagesClosed
  OBVIOUS
<1>1. outbox => OneTag(mbox)
  <2>1. SUFFICES ASSUME outbox PROVE OneTag(mbox)
    OBVIOUS
  <2>2. at = "wait" /\ ~InHand
    BY <2>1 DEF BootInv, Posted, InHand
  <2>3. QED
    BY <2>2 DEF BootInv, Posted
<1>2. \A f \in Uncalled : OneTag(Filled(f, mbox))
  BY UncalledClosed DEF BootInv, BootType
<1>3. QED
  BY <1>1, <1>2 DEF MessagesClosed

LEMMA InvAreas == BootInv => OwnAreas
<1> SUFFICES ASSUME BootInv, pc >= InitFb, lines <= HistoryLines, NEW r \in drawn
             PROVE  /\ r.x1 >= area.x1 /\ r.x2 <= area.x2
                    /\ r.y1 >= area.y1 /\ r.y2 <= area.y2
  BY DEF OwnAreas
<1>1. pc >= 2
  BY MainIs DEF BootInv, BootType
<1>2. Within(r, area)
  BY <1>1 DEF BootInv, Placed
<1>3. area.x1 \in Int /\ area.x2 \in Int /\ area.y1 \in Int /\ area.y2 \in Int
  BY DEF BootInv, Placed, Screen, History, Clock, Rect
<1>4. QED
  BY <1>2, <1>3 DEF Within

LEMMA InvDraws == Room /\ BootInv => DrawsInside
<1> SUFFICES ASSUME Room, BootInv, pc >= InitFb, fw.obeys, lines <= HistoryLines, NEW r \in drawn
             PROVE  Inside(pt, Pixel(kept, r.x1, r.y1), Pixel(kept, r.x2, r.y2) + 3)
  BY DEF DrawsInside
<1>1. BootType /\ Granted /\ Known /\ Placed /\ pc \in Int
  BY DEF BootInv, BootType
<1>2. pc >= 15
  BY MainIs
<1>3. pc >= 17
  BY <1>1, <1>2 DEF Placed
<1>4. Within(r, area) /\ area \in {Screen, History, Clock}
  BY <1>1, <1>2 DEF Placed
<1>5. /\ area.x1 \in Int /\ area.x1 >= 0 /\ area.x2 \in Int /\ area.x2 <= 1919
      /\ area.y1 \in Int /\ area.y1 >= 0 /\ area.y2 \in Int /\ area.y2 <= 1079
  BY <1>4 DEF Screen, History, Clock, Rect
<1>6. /\ r.x1 \in Nat /\ r.x2 \in Nat /\ r.x1 <= r.x2 /\ r.x2 <= 1919
      /\ r.y1 \in Nat /\ r.y2 \in Nat /\ r.y1 <= r.y2 /\ r.y2 <= 1079
  <2>1. r.x1 \in area.x1 .. area.x2 /\ r.y1 \in area.y1 .. area.y2
    BY <1>4, Zenon DEF Within
  <2>2. r.x1 \in Int /\ area.x1 <= r.x1 /\ r.y1 \in Int /\ area.y1 <= r.y1
    BY <1>5, <2>1
  <2>3. r.x2 \in r.x1 .. area.x2 /\ r.y2 \in r.y1 .. area.y2
    BY <1>4, Zenon DEF Within
  <2>4. r.x2 \in Int /\ r.x1 <= r.x2 /\ r.x2 <= area.x2
    BY <1>5, <2>2, <2>3
  <2>5. r.y2 \in Int /\ r.y1 <= r.y2 /\ r.y2 <= area.y2
    BY <1>5, <2>2, <2>3
  <2>6. QED
    BY <1>5, <2>2, <2>4, <2>5
<1>7. QED
  BY <1>1, <1>3, <1>6, OnScreen

LEMMA InvAgrees == BootInv => FbAgrees
<1> SUFFICES ASSUME BootInv PROVE FbAgrees
  OBVIOUS
<1>1. BootType /\ Granted /\ Known /\ pc \in 0 .. 34
  BY DEF BootInv, BootType
<1>2. TypeOK
  BY <1>1, MainIs DEF BootType, TypeOK
<1>3. ASSUME pc >= InitFb
      PROVE  /\ kept.pitch = Pitch(fw)
             /\ kept.buf_size = kept.pitch * fw.virtual[2]
             /\ <<kept.width, kept.height>> = fw.display
             /\ Physical(pt, kept.buf) = fw.base
  <2>1. pc >= 15 /\ pc >= 14 /\ pc >= 9
    BY <1>1, <1>3, MainIs
  <2>2. kept["pitch"] = Pitch(fw) /\ kept["buf_size"] = fw.size
        /\ <<kept["width"], kept["height"]>> = fw.display
    BY <1>1, <2>1 DEF Known
  <2>3. fw.size = Pitch(fw) * fw.virtual[2]
    BY <1>1, <2>1, ModeIs
  <2>4. fw.base \in Nat
    BY <1>1, Addresses DEF BootType, FW
  <2>5. CASE pc < 17
    <3>1. pt = NoMap /\ kept["buf"] = fw.base
      BY <1>1, <2>1, <2>5 DEF Known
    <3>2. Translate(pt, fw.base \div PT_SIZE) = fw.base \div PT_SIZE
      <4>1. pt.to = 0 /\ pt.pages = 0
        BY <3>1 DEF NoMap
      <4>2. QED
        BY <4>1 DEF Translate
    <3>3. Physical(pt, kept["buf"]) = fw.base
      BY <2>4, <3>1, <3>2 DEF Physical, PT_SIZE, MB
    <3>4. QED
      BY <2>2, <2>3, <3>3
  <2>6. CASE ~(pc < 17)
    <3> DEFINE P == PT_SIZE
               off == fw.base % P
               b == pt.to
               g == pt.from
               k == kept["buf"]
    <3>0. P = 2097152
      BY DEF PT_SIZE, MB
    <3>1. /\ pt.pages \in Nat \ {0} /\ g \in Nat /\ b \in Int
          /\ fw.base = g * P + off /\ k = b * P + off
      BY <1>1, <2>6, MapIs
    <3>2. off \in Int /\ 0 <= off /\ off < P
      <4> HIDE DEF P
      <4>1. QED
        BY <2>4, <3>0, SMT
    <3>3. b \in pt.to .. pt.to + pt.pages - 1
      BY <3>1
    <3> HIDE DEF P, off, b, g, k
    <3>4. k \in Int /\ k \div P = b
      BY <3>0, <3>1, <3>2, SMT
    <3>5. Physical(pt, k) = k + (g - b) * P
      <4>1. g \in Int /\ b \in Int /\ pt.pages \in Nat
        BY <3>1
      <4>2. k \div PT_SIZE \in pt.to .. pt.to + pt.pages - 1
        BY <3>3, <3>4 DEF P
      <4>3. QED
        BY <3>4, <4>1, <4>2, Shifted DEF P, b, g
    <3>6. k + (g - b) * P = fw.base
      BY <3>0, <3>1, <3>2, SMT
    <3>7. Physical(pt, k) = fw.base
      BY <3>5, <3>6
    <3>8. QED
      BY <2>2, <2>3, <3>7 DEF k
  <2>7. QED
    BY <2>5, <2>6
<1>4. QED
  BY <1>2, <1>3 DEF FbAgrees

-----------------------------------------------------------------------------
(***************************************************************************)
(* The theorems.  Each supposes that the framebuffer ends within its pages.*)
(***************************************************************************)
\* The inductive invariant holds of every state of the boot (main, mailbox.c, interrupts.c).
THEOREM BootInvariant ==
  ASSUME Room
  PROVE  Spec => []BootInv
<1>1. BootInv /\ [Next]_vars => BootInv'
  BY BootStep
<1>2. QED
  BY BootStarts, <1>1, PTL DEF Spec

\* Every message handed to the firmware is one tag closed by its end tag, although two of the
\* functions of mailbox.c do not write it: it survives whatever is drawn and answered meanwhile.
THEOREM BootMessagesClosed ==
  ASSUME Room
  PROVE  Spec => []MessagesClosed
BY BootInvariant, InvMessages, PTL

\* Whatever main, a traced call or the timer interrupt draws after init_framebuffer lands in the
\* memory of the framebuffer, through the map of identity_map.
THEOREM BootDrawsInside ==
  ASSUME Room
  PROVE  Spec => []DrawsInside
<1>1. BootInv => DrawsInside
  BY InvDraws
<1>2. QED
  BY BootInvariant, <1>1, PTL

\* The timer interrupt and the code that it interrupts draw in areas of their own.
THEOREM BootOwnAreas ==
  ASSUME Room
  PROVE  Spec => []OwnAreas
BY BootInvariant, InvAreas, PTL

\* The pitch, the size, the mode and the address the code keeps are those of the framebuffer the
\* firmware has set up, before identity_map moves it and after.
THEOREM BootFbAgrees ==
  ASSUME Room
  PROVE  Spec => []FbAgrees
BY BootInvariant, InvAgrees, PTL
=============================================================================
