------------------------------- MODULE SdClock ------------------------------
(***************************************************************************)
(* The clock of the SD card: sd_clk of drivers/sd.c, and                   *)
(* sd_get_clock_divider with sd_switch_clock_rate of drivers/sd_old.c.     *)
(* Both set it twice during the initialisation, to 400 kHz while the card  *)
(* is identified and then to 25 MHz.  Rates are in Hz; the divider is the  *)
(* field of ten bits in EMMC_CONTROL1.                                     *)
(***************************************************************************)
EXTENDS Integers, Sequences

CONSTANT BASES      \* the base clocks the firmware may report

ASSUME ClockAssumption == BASES \subseteq Nat

VARIABLES
  setter,    \* "sd_clk" or "sd_switch_clock_rate"
  base,      \* the base clock
  hv,        \* the version of the host: 1 is 2.00, 2 is 3.00
  turn,      \* how many of RATES were set
  divider,   \* the divider in EMMC_CONTROL1
  ticking,   \* C1_CLK_EN
  clkerr     \* sd_clk or the switch gave up

clkvars == <<setter, base, hv, turn, divider, ticking, clkerr>>

RATES == <<400000, 25000000>>
HOST_SPEC_V2 == 1
HOST_SPEC_V3 == 2

-----------------------------------------------------------------------------
\* sd_clk.  The remainder is taken of the quotient, so a quotient that is no
\* multiple of f is lowered by one.  Before version 3 the shift s comes out as 7
\* for every x but 0, since the last three tests lower x in place of s.
sd_clk_divisor(b, v, f) ==
  LET q == b \div f
      c == IF q % f # 0 THEN q - 1 ELSE q
      s == IF c - 1 = 0 THEN 0 ELSE 7
      d == IF v > HOST_SPEC_V2 THEN c ELSE 2 ^ s
  IN  IF d <= 2 THEN 2 ELSE d

\* The field has ten bits: two in h, eight beside them.
sd_clk_field(b, v, f) == sd_clk_divisor(b, v, f) % 1024

\* The place of the highest bit of n.
First_bit(n) == CHOOSE k \in 0 .. 30 : n >= 2 ^ k /\ (k = 30 \/ n < 2 ^ (k + 1))

\* Mutant: a quotient that is no power of two is rounded down.
Power_Floor(n) == IF n = 0 THEN 31 ELSE First_bit(n)

\* The exponent of the next power of two; 31 if no bit is set.
Power(n) ==
  IF n = 0 THEN 31 ELSE IF n = 2 ^ First_bit(n) THEN First_bit(n) ELSE First_bit(n) + 1

\* The quotient, one less where there is a remainder, as a power of two, halved.
sd_get_clock_divider(b, f) ==
  LET n == IF f > b THEN 1 ELSE IF b % f # 0 THEN b \div f - 1 ELSE b \div f
      p == Power(n)
  IN  IF p = 0 THEN 0 ELSE IF p - 1 >= 10 THEN 1023 ELSE 2 ^ (p - 1)

-----------------------------------------------------------------------------
Target == RATES[turn + 1]

\* The clock is stopped before the divider changes; a line that stays busy
\* makes sd_clk give up, and the other wait on.
clock_stop ==
  /\ turn < Len(RATES) /\ ticking # "stopped" /\ ~clkerr
  /\ \/ ticking' = "stopped" /\ UNCHANGED clkerr
     \/ setter = "sd_clk" /\ clkerr' = TRUE /\ UNCHANGED ticking
  /\ UNCHANGED <<setter, base, hv, turn, divider>>

\* The divider is written and the clock started; it may fail to get stable, which
\* sd_switch_clock_rate does not look at.
clock_start ==
  /\ ticking = "stopped" /\ ~clkerr
  /\ divider' = IF setter = "sd_clk" THEN sd_clk_field(base, hv, Target)
                ELSE sd_get_clock_divider(base, Target)
  /\ ticking' = "on"
  /\ turn' = turn + 1
  /\ clkerr' \in {FALSE, setter = "sd_clk" \/ turn = 0}
  /\ UNCHANGED <<setter, base, hv>>

\* sd_switch_clock_rate needs version 3 and otherwise refuses.
ClockInit ==
  /\ setter \in {"sd_clk", "sd_switch_clock_rate"}
  /\ base \in BASES
  /\ hv \in {HOST_SPEC_V2, HOST_SPEC_V3}
  /\ setter = "sd_switch_clock_rate" => hv >= 2
  /\ turn = 0 /\ divider = 0 /\ ticking = "off" /\ clkerr = FALSE

ClockNext == clock_stop \/ clock_start

\* The clock alone; Parts has it among the others.
ClockSpec == ClockInit /\ [][ClockNext]_clkvars

-----------------------------------------------------------------------------
\* What the host makes of the divider: the base clock, or that over twice the divider.
Over == IF divider = 0 THEN 1 ELSE 2 * divider

(***************************************************************************)
(* A clock that runs is never faster than what the card was promised, nor  *)
(* slower than a quarter of it: whichever driver set it, and for both      *)
(* settings in their order (sd.c 643-686, sd_old.c 495-567).  It is said   *)
(* of hosts of version 3 and of a base clock of at least the rate asked    *)
(* for, below 1024 times it; for sd_switch_clock_rate, of a base that the  *)
(* rate divides, because that one rounds down.                             *)
(***************************************************************************)
ClockSafe ==
  LET f == RATES[turn]
  IN  /\ turn > 0 /\ ticking = "on" /\ hv = HOST_SPEC_V3
      /\ f <= base /\ base \div f <= 1024
      /\ setter = "sd_switch_clock_rate" => base % f = 0
      => /\ (base + Over - 1) \div Over <= f
         /\ base \div Over >= f \div 4
=============================================================================
