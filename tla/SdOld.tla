-------------------------------- MODULE SdOld -------------------------------
(***************************************************************************)
(* The earlier SD driver, kept in the tree as drivers/sd_old.c and not in  *)
(* the build.  A request that finds no address for the card initialises it *)
(* again, and most failures forget the address.  Those of the later half   *)
(* of sd_init do not: from CMD3 on they keep what the card was given, and  *)
(* hand the static emmc_dev to del as if it came from the heap.            *)
(*                                                                         *)
(* The device is external and coarser than EmmcCard: one command on the    *)
(* line, one data transfer, the bits of EMMC_INTERRUPT.  What it may do    *)
(* wrong is bounded by OldFaults: a command or its answer is lost or       *)
(* garbled, a block is not transferred, a polling loop of the driver       *)
(* (TIMEOUT_WAIT) runs out before the hardware has finished, the card is   *)
(* slow to power up, or is taken out and put back.                         *)
(*                                                                         *)
(* Configured as in the file: no 1.8 V, no 4-bit data, no SDMA, no card    *)
(* interrupts, so those branches are dead.                                 *)
(***************************************************************************)
EXTENDS Integers, Sequences, FiniteSets

CONSTANTS
  OldBlocks,     \* bound: blocks of the card
  OldRequests,   \* bound: requests made
  OldFaults      \* bound: faults of the hardware

VARIABLES
  slot,     \* the card: state, address, CMD55 seen, high capacity, inserted
  store,    \* what every block holds
  wire,     \* the command on the line
  move,     \* the data transfer in progress
  irq,      \* EMMC_INTERRUPT
  resp0,    \* EMMC_RESP0: the command answered and what the card said
  wrong,    \* faults so far
  edev,     \* emmc_dev: rca, sdhc, removal, ok, err, r0, blocks, size
  step,       \* the command the caller is at, or "idle", "init", "wild"
  stage,    \* where sd_issue_command is
  cmd,      \* [name, arg] being issued; app: the command that follows CMD55
  after,    \* what sd_init was called for
  v2,       \* v2_later
  req,      \* the request: op, first block, number of blocks
  buf, done,   \* the caller's buffer and the blocks moved by this attempt
  retry,    \* retry_count
  outcome,  \* what the last request returned
  seen,     \* history: faults when the request began
  fails,    \* history: requests in a row that failed and met no fault
  made      \* history: requests made

device == <<slot, store, wire, move, irq, resp0, wrong>>
driver == <<edev, step, stage, cmd, after, v2, req, buf, done, retry, outcome, seen, fails, made>>
oldvars == <<device, driver>>

NoCmd == [name |-> "none", arg |-> 0, app |-> <<>>]
NoMove == [dir |-> "none", block |-> 0, left |-> 0, ready |-> FALSE]
CmdErrors == {"CMD_ERR"}              \* bits 16..19
DataErrors == {"DATA_ERR"}            \* bits 20..31
AllErrors == CmdErrors \cup DataErrors
MaxRetries == 3
BYTES == 2                            \* 512, scaled: bytes of a block

Reads == {"CMD17", "CMD18"}
Writes == {"CMD24", "CMD25"}
Data(name) == name \in Reads \cup Writes \cup {"ACMD51"}
Busy(name) == name \in {"CMD7", "CMD12"}                    \* R1b
AppCmds == {"INQUIRE", "ACMD41", "ACMD51"}

-----------------------------------------------------------------------------
(* The hardware.                                                           *)

Online == {"stby", "tran", "data", "rcv", "prg"}
Legal ==
  [CMD0 |-> {"idle", "ready", "ident"} \cup Online, CMD8 |-> {"idle"},
   CMD5 |-> {}, CMD55 |-> {"idle"} \cup Online, INQUIRE |-> {"idle"},
   ACMD41 |-> {"idle"}, CMD2 |-> {"ready"}, CMD3 |-> {"ident"}, CMD7 |-> {"stby"},
   CMD16 |-> {"tran"}, ACMD51 |-> {"tran"}, CMD13 |-> Online,
   CMD12 |-> {"data", "rcv"}, CMD17 |-> {"tran"}, CMD18 |-> {"tran"},
   CMD24 |-> {"tran"}, CMD25 |-> {"tran"}]

\* The block an address stands for, by the kind of the card.
Block(c) == IF slot.hc THEN c.arg ELSE c.arg \div BYTES

Takes(c) ==
  /\ slot.in /\ slot.state \in Legal[c.name]
  /\ c.name \in {"CMD13", "CMD7"} => c.arg = slot.rca
  /\ c.name \in AppCmds => slot.app
  /\ c.name = "CMD8" => slot.hc
  /\ c.name \in Reads \cup Writes => Block(c) + edev.blocks <= OldBlocks

\* A high capacity card is never ready for a host that has not said so.
Next_(c) ==
  CASE c.name = "CMD0" -> "idle"  [] c.name = "CMD2" -> "ident"
    [] c.name = "CMD3" -> "stby"  [] c.name = "CMD7" -> "tran"
    [] c.name = "ACMD41" -> IF slot.hc /\ c.arg = 0 THEN "idle" ELSE "ready"
    [] c.name = "CMD12" -> "tran" [] c.name \in Reads -> "data"
    [] c.name \in Writes -> "rcv" [] OTHER -> slot.state

Executes(c) ==
  /\ slot' = [slot EXCEPT !.state = Next_(c), !.app = c.name = "CMD55",
                          !.rca = CASE c.name = "CMD0" -> 0 [] c.name = "CMD3" -> 1
                                    [] OTHER -> slot.rca]
  /\ move' = IF Data(c.name)
             THEN [dir |-> IF c.name \in Writes THEN "write" ELSE "read",
                   block |-> IF c.name = "ACMD51" THEN -1 ELSE Block(c),
                   left |-> edev.blocks, ready |-> FALSE]
             ELSE IF c.name = "CMD12" THEN NoMove ELSE move

Answer(c) ==
  [name |-> c.name,
   val  |-> CASE c.name = "CMD3" -> "rca"
              [] c.name = "ACMD41" -> IF Next_(c) # "ready" THEN "busy"
                                      ELSE IF slot.hc THEN "hc" ELSE "sc"
              [] OTHER -> slot.state]

Goes_wrong == wrong < OldFaults /\ wrong' = wrong + 1

hw_answer ==
  /\ wire # NoCmd /\ wire' = NoCmd
  /\ IF Takes(wire)
     THEN Executes(wire) /\ resp0' = Answer(wire) /\ irq' = irq \cup {"CMD_DONE"}
     ELSE /\ slot' = [slot EXCEPT !.app = FALSE]
          /\ irq' = irq \cup (IF wire.name = "CMD0" THEN {"CMD_DONE"} ELSE CmdErrors)
          /\ UNCHANGED <<move, resp0>>
  /\ UNCHANGED <<store, wrong, driver>>

\* The command is lost; or the answer is, or fails its check: the controller
\* then reports the error together with the completion.
hw_lose(heard, garbled) ==
  /\ wire # NoCmd /\ wire' = NoCmd /\ Goes_wrong
  /\ IF heard /\ Takes(wire) THEN Executes(wire) ELSE UNCHANGED <<slot, move>>
  /\ irq' = irq \cup CmdErrors \cup (IF garbled THEN {"CMD_DONE"} ELSE {})
  /\ resp0' = IF garbled THEN [name |-> "garbage", val |-> "none"] ELSE resp0
  /\ UNCHANGED <<store, driver>>

hw_power_up ==
  /\ wire.name = "ACMD41" /\ Takes(wire) /\ Goes_wrong
  /\ wire' = NoCmd /\ irq' = irq \cup {"CMD_DONE"}
  /\ resp0' = [name |-> "ACMD41", val |-> "busy"]
  /\ slot' = [slot EXCEPT !.app = FALSE]
  /\ UNCHANGED <<store, move, driver>>

hw_ready ==
  /\ move.left > 0 /\ ~move.ready
  /\ move' = [move EXCEPT !.ready = TRUE]
  /\ irq' = irq \cup {IF move.dir = "read" THEN "READ_RDY" ELSE "WRITE_RDY"}
  /\ UNCHANGED <<slot, store, wire, resp0, wrong, driver>>

\* A block is not moved or not acknowledged: the data line stays held until
\* it is reset or taken by another transfer.
Held == [NoMove EXCEPT !.dir = "held"]
Moving == move.dir \in {"read", "write"}

hw_data_error ==
  /\ Moving /\ ~move.ready /\ Goes_wrong
  /\ move' = Held /\ irq' = irq \cup DataErrors
  /\ UNCHANGED <<slot, store, wire, resp0, driver>>

\* A single block, and the register SCR, end by themselves; several blocks
\* leave the card sending or receiving until CMD12.
hw_done ==
  /\ Moving /\ move.left = 0
  /\ move' = NoMove /\ irq' = irq \cup {"XFER_DONE"}
  /\ slot' = IF edev.blocks = 1 THEN [slot EXCEPT !.state = "tran"] ELSE slot
  /\ UNCHANGED <<store, wire, resp0, wrong, driver>>

hw_remove ==
  /\ slot.in /\ Goes_wrong
  /\ slot' = [slot EXCEPT !.in = FALSE, !.state = "idle", !.rca = 0, !.app = FALSE]
  /\ move' = IF Moving THEN Held ELSE move
  /\ irq' = irq \cup {"REMOVAL"} \cup (IF Moving THEN DataErrors ELSE {})
  /\ UNCHANGED <<store, wire, resp0, driver>>

hw_insert ==
  /\ ~slot.in
  /\ slot' = [slot EXCEPT !.in = TRUE] /\ irq' = irq \cup {"INSERTION"}
  /\ UNCHANGED <<store, wire, move, resp0, wrong, driver>>

-----------------------------------------------------------------------------
(* sd_issue_command and sd_issue_command_int.                              *)

\* The caller goes on with a command.
Issue(e, label, name, arg) ==
  /\ edev' = e /\ step' = label /\ stage' = "call"
  /\ cmd' = IF name \in AppCmds THEN [name |-> "CMD55", arg |-> e.rca, app |-> <<name, arg>>]
                                ELSE [name |-> name, arg |-> arg, app |-> <<>>]
  /\ done' = 0

\* sd_reset_dat: whatever held the data line is dropped.
sd_reset_dat == NoMove

\* sd_handle_interrupts, then the test of card_removal.  A buffer that is
\* ready belongs to a transfer nobody waits for: the data line is reset.
sd_handle_interrupts ==
  /\ stage = "call"
  /\ move' = IF irq \cap {"READ_RDY", "WRITE_RDY"} # {} THEN sd_reset_dat ELSE move
  /\ irq' = {}
  /\ LET gone == edev.removal \/ "REMOVAL" \in irq IN
     /\ edev' = [edev EXCEPT !.removal = gone, !.ok = IF gone THEN FALSE ELSE @]
     /\ stage' = IF gone THEN "ret" ELSE "inhibit"
  /\ UNCHANGED <<slot, store, wire, resp0, wrong, step, cmd, after, v2, req, buf,
                 done, retry, outcome, seen, fails, made>>

\* CMD_INHIBIT clear, and DAT_INHIBIT too for a command with busy that is
\* not an abort: the command is written.
sd_send ==
  /\ stage = "inhibit" /\ wire = NoCmd
  /\ cmd.name = "CMD7" => move = NoMove
  /\ wire' = cmd /\ stage' = "wait"
  /\ edev' = [edev EXCEPT !.ok = FALSE]
  /\ UNCHANGED <<slot, store, move, irq, resp0, wrong, step, cmd, after, v2, req, buf,
                 done, retry, outcome, seen, fails, made>>

\* The polling loop TIMEOUT_WAIT ends: one of the bits is set, or it ran out.
Polled(bits) == \/ irq \cap bits # {} /\ UNCHANGED wrong
                \/ irq \cap bits = {} /\ Goes_wrong

\* last_error keeps bits 20 and up only, so a command that got no answer
\* looks like one that is still under way.
Failed(bits) == [edev EXCEPT !.ok = FALSE,
                             !.err = IF irq \cap bits # {} THEN "error" ELSE "none"]

\* The controller reports a command without an answer after 64 clocks, long
\* before the loop runs out.  Command complete, taken as success whatever bits 16..19 say.
sd_command_complete ==
  /\ stage = "wait"
  /\ irq \cap ({"CMD_DONE"} \cup AllErrors) # {} /\ UNCHANGED wrong
  /\ irq' = irq \ ({"CMD_DONE"} \cup AllErrors)
  /\ IF "CMD_DONE" \notin irq \/ irq \cap DataErrors # {}
     THEN edev' = Failed(DataErrors) /\ stage' = "ret" /\ UNCHANGED cmd
     ELSE /\ stage' = IF Data(cmd.name) THEN "block"
                      ELSE IF Busy(cmd.name) THEN "complete"
                      ELSE IF cmd.app # <<>> THEN "inhibit" ELSE "ret"
          /\ cmd' = IF stage' = "inhibit"
                    THEN [name |-> cmd.app[1], arg |-> cmd.app[2], app |-> <<>>] ELSE cmd
          /\ edev' = [edev EXCEPT !.ok = stage' \in {"ret", "inhibit"},
                                  !.r0 = IF cmd.name = "CMD0" THEN @ ELSE resp0]
  /\ UNCHANGED <<slot, store, wire, move, resp0, step, after, v2, req, buf,
                 done, retry, outcome, seen, fails, made>>

\* One block: the buffer is ready and EMMC_DATA is read or written.
sd_block ==
  LET rdy == IF cmd.name \in Writes THEN "WRITE_RDY" ELSE "READ_RDY" IN
  /\ stage = "block"
  /\ IF done = edev.blocks
     THEN stage' = "complete" /\ UNCHANGED <<irq, move, store, buf, done, edev, wrong>>
     ELSE /\ Polled({rdy} \cup AllErrors)
          /\ irq' = irq \ ({rdy} \cup AllErrors)
          /\ IF rdy \notin irq \/ irq \cap AllErrors # {}
             THEN /\ edev' = Failed(AllErrors) /\ stage' = "ret"
                  /\ UNCHANGED <<move, store, buf, done>>
             ELSE /\ done' = done + 1
                  /\ UNCHANGED <<stage, edev>>
                  /\ move' = IF move.ready
                             THEN [move EXCEPT !.left = @ - 1, !.block = @ + 1, !.ready = FALSE]
                             ELSE move
                  /\ buf' = IF cmd.name \in Reads
                            THEN [buf EXCEPT ![done + 1] =
                                    IF move.ready /\ move.block >= 0 THEN store[move.block] ELSE 0]
                            ELSE buf
                  /\ store' = IF cmd.name \in Writes /\ move.ready /\ slot.in
                              THEN [store EXCEPT ![move.block] = buf[done + 1]] ELSE store
  /\ UNCHANGED <<slot, wire, resp0, step, cmd, after, v2, req, retry, outcome, seen, fails, made>>

\* Transfer complete: not waited for when the data line is free already.  It
\* counts alone, or with the data timeout, which is one of the data errors.
sd_transfer_complete ==
  /\ stage = "complete" /\ stage' = "ret"
  /\ IF move = NoMove
     THEN edev' = [edev EXCEPT !.ok = TRUE] /\ UNCHANGED wrong
     ELSE /\ Polled({"XFER_DONE"} \cup AllErrors)
          /\ \/ /\ "XFER_DONE" \in irq /\ irq \cap CmdErrors = {}
                /\ edev' = [edev EXCEPT !.ok = TRUE]
             \/ /\ "XFER_DONE" \notin irq \/ irq \cap AllErrors # {}
                /\ edev' = Failed(AllErrors)
  /\ irq' = irq \ ({"XFER_DONE"} \cup AllErrors)
  /\ UNCHANGED <<slot, store, wire, move, resp0, step, cmd, after, v2, req, buf,
                 done, retry, outcome, seen, fails, made>>

-----------------------------------------------------------------------------
(* sd_init.                                                                *)

Calm == UNCHANGED <<slot, store, wire, move, irq, resp0, wrong>>

\* A request ends: what it returned.
Finish(e, ok) ==
  /\ edev' = e /\ step' = "idle" /\ stage' = "none"
  /\ outcome' = IF ok THEN "ok" ELSE "failed"
  /\ fails' = IF ~ok /\ wrong = seen /\ slot.in THEN fails + 1 ELSE 0
  /\ UNCHANGED <<cmd, after, v2, req, buf, done, retry, seen, made>>

Proceed == UNCHANGED <<after, v2, req, buf, retry, outcome, seen, fails, made>>

\* sd_init gives up after CMD2: del of emmc_dev, which is static.  cull finds
\* no such block and goes on with what follows the table of regions in
\* memory: it is a region where nothing is changed, or anything happens.
Del_static(e) ==
  \/ Finish(e, FALSE)
  \/ /\ step' = "wild" /\ stage' = "none"
     /\ UNCHANGED <<edev, cmd, done>> /\ Proceed

\* The next command of sd_init, or its end.
NextCmd(label, e) ==
  CASE label = "CMD0" -> "CMD8"     [] label = "CMD8" -> "CMD5"
    [] label = "CMD5" -> "INQUIRE"  [] label = "INQUIRE" -> "ACMD41"
    [] label = "ACMD41" -> "CMD2"   [] label = "CMD2" -> "CMD3"
    [] label = "CMD3" -> "CMD7"     [] label = "CMD16" -> "ACMD51"
    [] label = "CMD7" -> IF e.sdhc THEN "ACMD51" ELSE "CMD16"

Arg(name, e) == CASE name = "ACMD41" -> IF v2' THEN 1 ELSE 0
                  [] name \in {"CMD7", "CMD13"} -> e.rca
                  [] OTHER -> 0

Go(e, name) == Issue(e, name, name, Arg(name, e))

\* The controller is reset and emmc_dev cleared; without a card emmc_dev is
\* left as it was.  The power cycle and the clock are taken to succeed.
sd_init ==
  /\ step = "init"
  /\ wire' = NoCmd /\ move' = NoMove
  /\ IF ~slot.in
     THEN Finish(edev, FALSE) /\ UNCHANGED <<irq, wrong>>
     ELSE /\ irq' = {} /\ UNCHANGED <<wrong, v2>>
          /\ Issue([rca |-> 0, sdhc |-> FALSE, removal |-> FALSE, ok |-> FALSE,
                    err |-> "none", r0 |-> resp0, blocks |-> 0, size |-> 0],
                   "CMD0", "CMD0", 0)
          /\ UNCHANGED <<after, req, buf, retry, outcome, seen, fails, made>>
  /\ UNCHANGED <<slot, store, resp0>>

\* No answer to CMD8: an old card. Any answer to CMD5: not a memory card.
sd_init_probe ==
  /\ stage = "ret" /\ step \in {"CMD8", "CMD5"}
  /\ LET none == ~edev.ok /\ edev.err = "none"
         good == IF step = "CMD5" THEN none
                 ELSE none \/ (edev.ok /\ edev.r0.name = "CMD8")
     IN  IF good
         THEN /\ v2' = IF step = "CMD8" THEN edev.ok ELSE v2
              /\ Go(edev, NextCmd(step, edev))
              /\ UNCHANGED <<after, req, buf, retry, outcome, seen, fails, made>>
         ELSE Finish(edev, FALSE)
  /\ Calm

\* What a response to ACMD41, CMD3 or CMD7 tells; one to another command, or
\* a garbled one, may tell anything.
Told(set) == IF edev.r0.name = cmd.name THEN {edev.r0.val} ELSE set

sd_init_ocr ==
  /\ stage = "ret" /\ step = "ACMD41"
  /\ UNCHANGED v2
  /\ IF ~edev.ok THEN Finish(edev, FALSE)
     ELSE \E ocr \in Told({"busy", "hc", "sc"}) :
            /\ Go([edev EXCEPT !.sdhc = ocr = "hc"], IF ocr = "busy" THEN "ACMD41" ELSE "CMD2")
            /\ UNCHANGED <<after, req, buf, retry, outcome, seen, fails, made>>
  /\ Calm

\* CMD0, the inquiry, CMD2, CMD16: only success matters.  CMD3 gives the
\* address, with error bits of its own; CMD7 the state, stand-by or transfer.
\* The block size is 0 from the memset on and is set before SEND_SCR.
sd_init_step ==
  /\ stage = "ret" /\ step \in {"CMD0", "INQUIRE", "CMD2", "CMD3", "CMD7", "CMD16"}
  /\ UNCHANGED v2
  /\ LET foreign == edev.r0.name # cmd.name
     IN  \E rca \in IF step # "CMD3" THEN {edev.rca} ELSE IF foreign THEN 0..2 ELSE {1},
            bits \in IF step \in {"CMD3", "CMD7"} /\ foreign THEN BOOLEAN ELSE {TRUE} :
           LET e == IF edev.ok THEN [edev EXCEPT !.rca = rca] ELSE edev
               to == NextCmd(step, e)
           IN  IF edev.ok /\ bits
               THEN /\ Go(IF to = "ACMD51" THEN [e EXCEPT !.blocks = 1, !.size = BYTES]
                                           ELSE e, to)
                    /\ UNCHANGED <<after, req, buf, retry, outcome, seen, fails, made>>
               ELSE IF step \in {"CMD3", "CMD7", "CMD16"} THEN Del_static(e)
                    ELSE Finish(e, FALSE)
  /\ Calm

\* The interrupts are cleared and the caller of sd_init goes on with CMD13.
sd_init_scr ==
  /\ stage = "ret" /\ step = "ACMD51"
  /\ UNCHANGED v2
  /\ IF edev.ok
     THEN /\ irq' = {} /\ Issue(edev, after, "CMD13", edev.rca)
          /\ UNCHANGED <<after, req, buf, retry, outcome, seen, fails, made>>
     ELSE Del_static(edev) /\ UNCHANGED irq
  /\ UNCHANGED <<slot, store, wire, move, resp0, wrong>>

-----------------------------------------------------------------------------
(* sd_ensure_data_mode.                                                    *)

\* sd_read, sd_write: a request of n blocks from block b on.
sd_request(op, b, n) ==
  /\ step = "idle" /\ made < OldRequests
  /\ made' = made + 1 /\ seen' = wrong
  /\ req' = [op |-> op, block |-> b, n |-> n]
  /\ buf' = [k \in 1..n |-> IF op = "write" THEN 10 * (made + 1) + k ELSE 0]
  /\ IF edev.rca = 0
     THEN /\ step' = "init" /\ stage' = "none" /\ after' = "STATUS"
          /\ UNCHANGED <<edev, cmd, done>>
     ELSE Issue(edev, "STATUS", "CMD13", edev.rca) /\ UNCHANGED after
  /\ retry' = 0 /\ outcome' = "none"
  /\ UNCHANGED <<v2, fails>>
  /\ Calm

\* A request that fails keeps the address.
Forget_Not(e) == e

Forget(e) == [e EXCEPT !.rca = 0]

\* The block number is used as it is.
Address_Blocks(b) == b

\* PLSS table 4.20: a standard card is addressed by bytes.
Address(b) == IF edev.sdhc THEN b ELSE b * BYTES

DataCmd == IF req.op = "write" THEN IF req.n > 1 THEN "CMD25" ELSE "CMD24"
                               ELSE IF req.n > 1 THEN "CMD18" ELSE "CMD17"

\* How many blocks the buffer makes.  Dividing by a block size of 0 gives 0 on
\* this processor and leaves the whole buffer over: no multiple of a block.
\* That failure keeps the address.
sd_do_data_command(e) ==
  IF e.size = 0
  THEN Finish(e, FALSE)
  ELSE Issue([e EXCEPT !.blocks = req.n], "DATA", DataCmd, Address(req.block)) /\ Proceed

\* The state CMD13 reports decides: select the card, stop its transfer, or
\* initialise it again.
sd_ensure_data_mode ==
  /\ stage = "ret" /\ step = "STATUS"
  /\ IF ~edev.ok THEN Finish(Forget(edev), FALSE)
     ELSE \E s \in Told(Online) :
            IF s \in {"tran", "stby", "data"}
            THEN CASE s = "tran" -> sd_do_data_command(edev)
                   [] s = "stby" -> Issue(edev, "SELECT", "CMD7", edev.rca) /\ Proceed
                   [] s = "data" -> Issue(edev, "STOP", "CMD12", 0) /\ Proceed
            ELSE /\ step' = "init" /\ stage' = "none" /\ after' = "AGAIN"
                 /\ UNCHANGED <<edev, cmd, v2, req, buf, done, retry, outcome, seen, fails, made>>
  /\ Calm

\* After CMD12 the data line is reset; the state is asked for again.
sd_ensure_moved ==
  /\ stage = "ret" /\ step \in {"SELECT", "STOP"}
  /\ IF edev.ok THEN Issue(edev, "AGAIN", "CMD13", edev.rca) /\ Proceed
                ELSE Finish(Forget(edev), FALSE)
  /\ move' = IF step = "STOP" /\ edev.ok THEN sd_reset_dat ELSE move
  /\ UNCHANGED <<slot, store, wire, irq, resp0, wrong>>

sd_ensure_again ==
  /\ stage = "ret" /\ step = "AGAIN"
  /\ IF ~edev.ok THEN Finish(Forget(edev), FALSE)
     ELSE \E s \in Told(Online) :
            IF s = "tran" THEN sd_do_data_command(edev)
                          ELSE Finish(Forget(edev), FALSE)
  /\ Calm

-----------------------------------------------------------------------------
(* sd_do_data_command's retries, and the end of sd_read and sd_write.      *)

sd_data_returned ==
  /\ stage = "ret" /\ step = "DATA"
  /\ IF edev.ok THEN Finish(edev, TRUE)
     ELSE IF retry + 1 < MaxRetries
     THEN /\ retry' = retry + 1
          /\ Issue(edev, "DATA", DataCmd, Address(req.block))
          /\ UNCHANGED <<after, v2, req, buf, outcome, seen, fails, made>>
     ELSE Finish(Forget(edev), FALSE)
  /\ Calm

OldInit ==
  /\ slot \in [state : {"idle"}, rca : {0}, app : {FALSE}, hc : BOOLEAN, in : {TRUE}]
  /\ store = [b \in 0..(OldBlocks - 1) |-> b + 1]
  /\ wire = NoCmd /\ move = NoMove /\ irq = {} /\ wrong = 0
  /\ resp0 = [name |-> "none", val |-> "none"]
  /\ edev = [rca |-> 0, sdhc |-> FALSE, removal |-> FALSE, ok |-> FALSE,
             err |-> "none", r0 |-> resp0, blocks |-> 0, size |-> 0]
  /\ step = "idle" /\ stage = "none" /\ cmd = NoCmd /\ after = "none" /\ v2 = FALSE
  /\ req = [op |-> "none", block |-> 0, n |-> 0]
  /\ buf = <<>> /\ done = 0 /\ retry = 0 /\ outcome = "none"
  /\ seen = 0 /\ fails = 0 /\ made = 0

Hardware ==
  \/ hw_answer \/ hw_power_up \/ hw_ready \/ hw_data_error \/ hw_done
  \/ hw_remove \/ hw_insert
  \/ \E heard, garbled \in BOOLEAN : hw_lose(heard, garbled)

Driver ==
  \/ sd_handle_interrupts \/ sd_send \/ sd_command_complete \/ sd_block
  \/ sd_transfer_complete
  \/ sd_init \/ sd_init_probe \/ sd_init_ocr \/ sd_init_step \/ sd_init_scr
  \/ sd_ensure_data_mode \/ sd_ensure_moved \/ sd_ensure_again
  \/ sd_data_returned

OldNext ==
  \/ Hardware \/ Driver
  \/ \E op \in {"read", "write"}, b \in 0..(OldBlocks - 1), n \in 1..2 :
       b + n <= OldBlocks /\ sd_request(op, b, n)

-----------------------------------------------------------------------------
(* Properties.                                                             *)

\* A request that reports success has moved exactly its blocks: what sd_read
\* leaves in the buffer is what the card holds, what sd_write was given is
\* on the card, whichever of the three tries did it and whatever earlier
\* tries left under way.  The driver must know how the card is addressed:
\* it does not when it accepted a garbled answer to ACMD41 (the test of
\* sd_old.c:726 leaves out the error bits 16 to 19).  The run has one fault:
\* a second one can make the driver take the data of an abandoned transfer
\* for its own (the answer to ACMD51 lost, then the one to CMD17 garbled).
OldExact ==
  outcome = "ok" /\ edev.sdhc = slot.hc =>
    \A k \in 1..req.n : buf[k] = store[req.block + k - 1]

\* Recovery: after the one fault of the run at most one request still fails,
\* for the first failure finds what is wrong with the card and forgets its
\* address, and without one the next request initialises the card again.
\* One state never recovers while the card answers: sd_init gave up between
\* CMD3 and the line that sets the block size (sd_old.c:1647-1726), so the
\* address is kept, no request initialises again, and every transfer is refused
\* at the division by that size (sd_old.c:1954), which forgets nothing.  What
\* follows del of the static device is not judged (step "wild").
OldRecovers == fails > 1 => edev.rca # 0 /\ edev.size = 0
=============================================================================
