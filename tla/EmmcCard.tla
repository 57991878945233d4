------------------------------ MODULE EmmcCard -----------------------------
(***************************************************************************)
(* The EMMC controller and the SD card behind it, as kernel/src/drivers/   *)
(* sd.c uses them: hardware, not code of the kernel.  The driver reads and *)
(* writes the controller's registers; the controller puts one command at a *)
(* time on the line to the card, moves blocks between the card and its own *)
(* buffer, and sets bits of the interrupt register.                        *)
(*                                                                         *)
(* The card has the states of the SD_STATE_ constants.  It does not answer *)
(* a command that is illegal in its state, carries the wrong address, or   *)
(* should follow CMD55 and does not; the controller then reports a         *)
(* timeout.                                                                *)
(*                                                                         *)
(* What the hardware may get wrong is counted in faults and bounded by     *)
(* MaxFaults: a command is lost on the way to the card or on the way back, *)
(* a data transfer fails, the card is slow to power up, and the driver's   *)
(* polling loops run out before the hardware has finished.                 *)
(*                                                                         *)
(* A strict controller stops after as many blocks as EMMC_BLKSIZECNT holds *)
(* when a command is sent and moves data only for commands with the ISDATA *)
(* bit; one that is not goes by the count of the transfer and by the       *)
(* command.                                                                *)
(***************************************************************************)
EXTENDS Integers, Sequences

CONSTANTS
  NumBlocks,   \* bound: blocks of the card
  Rca,         \* the address the card takes
  MaxFaults    \* bound: faults of the hardware

ASSUME CardAssumption ==
  /\ NumBlocks \in Nat \ {0}
  /\ Rca \in Nat \ {0}
  /\ MaxFaults \in Nat

VARIABLES
  strict,     \* the kind of the controller
  card,       \* the card: state, address, whether CMD55 came before, bus width
  data,       \* what is stored in every block of the card
  intr,       \* EMMC_INTERRUPT
  line,       \* the command on the line; CMD_INHIBIT is line # None
  resp,       \* EMMC_RESP0 and the command it answers
  dat,        \* the data transfer in progress; DAT_INHIBIT is dat # NoData
  blkcnt,     \* the block count in EMMC_BLKSIZECNT
  hostWide,   \* the bus width bit of EMMC_CONTROL0
  faults      \* history: what went wrong so far

hw == <<strict, card, data, intr, line, resp, dat, blkcnt, hostWide, faults>>

None   == [name |-> "none", arg |-> 0]
NoAnswer == [name |-> "none", r |-> "idle"]
NoData == [dir |-> "none", block |-> 0, left |-> 0, ready |-> FALSE, multi |-> FALSE]
Errors == {"TIMEOUT", "ERROR"}   \* the bits of INT_ERROR_MASK: CTO and DTO, the others
ErrorPending == intr \cap Errors # {}

Selected == {"stby", "tran", "data", "rcv", "prg"}
CardStates == {"idle", "ready", "ident"} \cup Selected
Transfers == {"CMD17", "CMD18", "CMD24", "CMD25"}

\* The states in which each command is legal. INQUIRE is ACMD41 with an empty argument.
LegalIn ==
  [CMD0 |-> CardStates, CMD8 |-> {"idle"}, CMD55 |-> {"idle"} \cup Selected,
   INQUIRE |-> {"idle"}, ACMD41 |-> {"idle"}, CMD2 |-> {"ready"}, CMD3 |-> {"ident"},
   CMD9 |-> {"stby"}, CMD10 |-> {"stby"}, CMD13 |-> Selected, CMD7 |-> {"stby"},
   ACMD6 |-> {"tran"}, CMD12 |-> {"data", "rcv"},
   CMD17 |-> {"tran"}, CMD18 |-> {"tran"}, CMD24 |-> {"tran"}, CMD25 |-> {"tran"}]

Addressed == {"CMD55", "CMD9", "CMD10", "CMD13", "CMD7"}
AfterCMD55 == {"INQUIRE", "ACMD41", "ACMD6"}

Accepts(cmd) ==
  /\ card.state \in LegalIn[cmd.name]
  /\ cmd.name \in Addressed => cmd.arg = card.rca
  /\ cmd.name \in AfterCMD55 => card.app

\* Commands the driver sends without asking for a response.
Silent(cmd) == cmd.name = "CMD0" \/ (cmd.name = "CMD55" /\ cmd.arg = 0)

StateAfter(name) ==
  CASE name = "CMD0"               -> "idle"
    [] name = "ACMD41"             -> "ready"
    [] name = "CMD2"               -> "ident"
    [] name = "CMD3"               -> "stby"
    [] name = "CMD7"               -> "tran"
    [] name = "CMD12"              -> IF card.state = "rcv" THEN "prg" ELSE "tran"
    [] name \in {"CMD17", "CMD18"} -> "data"
    [] name \in {"CMD24", "CMD25"} -> "rcv"
    [] OTHER                       -> card.state

\* The card executes a command it accepts.
Execute(cmd) ==
  /\ card' = [state |-> StateAfter(cmd.name),
              rca   |-> CASE cmd.name = "CMD0" -> 0 [] cmd.name = "CMD3" -> Rca
                          [] OTHER -> card.rca,
              app   |-> cmd.name = "CMD55",
              wide  |-> cmd.name = "ACMD6" \/ (cmd.name # "CMD0" /\ card.wide)]
  /\ dat' = CASE cmd.name = "CMD12" -> NoData
              [] cmd.name \in Transfers /\ ~(strict /\ cmd.name = "CMD25") ->
                   [dir   |-> IF cmd.name \in {"CMD17", "CMD18"} THEN "read" ELSE "write",
                    block |-> cmd.arg, left |-> blkcnt, ready |-> FALSE,
                    multi |-> cmd.name \in {"CMD18", "CMD25"}]
              [] OTHER -> dat

Fault == faults < MaxFaults /\ faults' = faults + 1

-----------------------------------------------------------------------------
(* The hardware's own steps *)

\* The command reaches the card, which answers with the state it was in.
respond ==
  /\ line # None
  /\ line' = None
  /\ IF Accepts(line) THEN Execute(line)
     ELSE card' = [card EXCEPT !.app = FALSE] /\ UNCHANGED dat
  /\ IF Accepts(line) \/ Silent(line)
     THEN /\ intr' = intr \cup {"CMD_DONE"}
          /\ resp' = [name |-> line.name,
                      r |-> IF line.name = "ACMD41" THEN "complete" ELSE card.state]
     ELSE /\ intr' = intr \cup {"TIMEOUT"}
          /\ UNCHANGED resp
  /\ UNCHANGED <<strict, data, blkcnt, hostWide, faults>>

\* The command or its answer is lost. The loss of one that expects no answer shows nowhere.
lose(heard, e) ==
  /\ line # None
  /\ Fault
  /\ line' = None
  /\ IF heard /\ Accepts(line) THEN Execute(line) ELSE UNCHANGED <<card, dat>>
  /\ IF Silent(line)
     THEN intr' = intr \cup {"CMD_DONE"} /\ resp' = [name |-> line.name, r |-> "idle"]
     ELSE intr' = intr \cup {e} /\ UNCHANGED resp
  /\ UNCHANGED <<strict, data, blkcnt, hostWide>>

\* The card is still powering up, or has done so and offers no voltage.
power_up(r) ==
  /\ line.name = "ACMD41" /\ Accepts(line)
  /\ Fault
  /\ line' = None
  /\ card' = [card EXCEPT !.app = FALSE, !.state = IF r = "busy" THEN "idle" ELSE "ready"]
  /\ intr' = intr \cup {"CMD_DONE"}
  /\ resp' = [name |-> line.name, r |-> r]
  /\ UNCHANGED <<strict, data, dat, blkcnt, hostWide>>

\* A block is in the controller's buffer, or there is room for one.
data_ready ==
  /\ dat.left > 0 /\ ~dat.ready
  /\ hostWide = card.wide
  /\ dat' = [dat EXCEPT !.ready = TRUE]
  /\ intr' = intr \cup {IF dat.dir = "read" THEN "READ_RDY" ELSE "WRITE_RDY"}
  /\ card' = IF dat.dir = "read" /\ ~dat.multi THEN [card EXCEPT !.state = "tran"] ELSE card
  /\ UNCHANGED <<strict, data, line, resp, blkcnt, hostWide, faults>>

\* A block is not transferred, or not acknowledged after writing; always so when the two
\* sides use different widths.
data_error(e) ==
  /\ dat # NoData /\ ~dat.ready
  /\ dat.left > 0 \/ dat.dir = "write"
  /\ IF dat.left > 0 /\ hostWide # card.wide THEN UNCHANGED faults ELSE Fault
  /\ dat' = NoData
  /\ intr' = intr \cup {e}
  /\ card' = IF dat.multi \/ card.state = "prg" THEN card ELSE [card EXCEPT !.state = "tran"]
  /\ UNCHANGED <<strict, data, line, resp, blkcnt, hostWide>>

\* The last block has been moved; a single block written has also been programmed.
data_done ==
  /\ dat # NoData /\ dat.left = 0
  /\ dat.multi \/ card.state # "prg"
  /\ dat' = NoData
  /\ intr' = intr \cup {"DATA_DONE"}
  /\ UNCHANGED <<strict, card, data, line, resp, blkcnt, hostWide, faults>>

\* The card has stored what it received.
programmed ==
  /\ card.state = "prg"
  /\ card' = [card EXCEPT !.state = "tran"]
  /\ UNCHANGED <<strict, data, intr, line, resp, dat, blkcnt, hostWide, faults>>

Hardware ==
  \/ respond \/ data_ready \/ data_done \/ programmed
  \/ \E e \in Errors : data_error(e) \/ \E heard \in BOOLEAN : lose(heard, e)
  \/ \E r \in {"busy", "novolt"} : power_up(r)

HwInit ==
  /\ strict \in BOOLEAN
  /\ card = [state |-> "idle", rca |-> 0, app |-> FALSE, wide |-> FALSE]
  /\ data = [b \in 0 .. (NumBlocks - 1) |-> <<"card", b>>]
  /\ intr = {}
  /\ line = None
  /\ resp = NoAnswer
  /\ dat = NoData
  /\ blkcnt = 0
  /\ hostWide = FALSE
  /\ faults = 0
=============================================================================
