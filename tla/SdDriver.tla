------------------------------ MODULE SdDriver -----------------------------
(***************************************************************************)
(* The SD card driver of kernel/src/drivers/sd.c on the hardware of        *)
(* EmmcCard: sd_init, sd_read, sd_write with ensure_data_mode, and the     *)
(* waiting loops below them, sd_cmd, sd_int, sd_wait_data and sd_clk.      *)
(*                                                                         *)
(* The driver is sequential and polls; what interleaves is the hardware.   *)
(* A step of the driver ends where it next looks at a register.  pc is the *)
(* place in sd_init, ensure_data_mode or the transfer; while todo is not   *)
(* empty that code waits in sd_cmd.  The result r of a command is the      *)
(* card's state or, for ACMD41, whether it is complete; when a command     *)
(* fails sd_cmd returns 0, which the callers read as the state "idle".     *)
(*                                                                         *)
(* A buffer is a function from sectors to contents.  Where sd_read and     *)
(* sd_write step through it depends on whether its address is a multiple   *)
(* of four.                                                                *)
(***************************************************************************)
EXTENDS EmmcCard

CONSTANTS
  Junk,    \* what a card_rca that was never set may hold
  Tries    \* bound: rounds of ACMD41, 6 in the code

ASSUME DriverAssumption == Junk \in Nat \ {0, Rca} /\ Tries \in Nat \ {0}

VARIABLES
  pc, todo, phase,   \* place; commands sd_cmd has to send; "inhibit" or "wait" in it
  res, err,          \* r of the last sd_cmd, and emmc_dev->last_error
  rca, bd,           \* emmc_dev->card_rca; whether emmc_dev->bd has its functions
  then, tries,       \* where sd_init returns to; cnt of its ACMD41 loop
  op, c, buffer,     \* the transfer, its blocks done, the caller's buffer
  result,            \* what the transfer returns
  gret,              \* whether the global ret holds an error
  fsdev,             \* whether the bd the file system was given has its functions
  multi, late        \* history: a transfer of several blocks was begun; a wait was
                     \* given up while the hardware was still at work

driver == <<pc, todo, phase, res, err, rca, bd, then, tries, op, c, buffer, result,
            gret, fsdev, multi, late>>
vars == <<hw, driver>>

NoOp == [kind |-> "none", num |-> 1, lba |-> 0, aligned |-> TRUE]
EmptyBuffer == [i \in {0, 1, 4} |-> <<"empty", 0>>]

Init ==
  /\ HwInit
  /\ pc = "reset" /\ then = "boot"
  /\ todo = << >> /\ phase = "inhibit"
  /\ res = "idle" /\ err = "E_NOERR"
  /\ rca = 0 /\ bd = FALSE /\ fsdev = FALSE
  /\ tries = 0
  /\ op = NoOp /\ c = 0 /\ buffer = EmptyBuffer
  /\ result = "none"
  /\ gret = FALSE
  /\ multi = FALSE /\ late = FALSE

-----------------------------------------------------------------------------
(* sd_cmd and sd_int *)

At(place) == pc = place /\ todo = << >>

\* A call of sd_cmd, for CMD55 first where the command needs it.
Send(cmds, next) ==
  /\ todo' = cmds
  /\ phase' = "inhibit"
  /\ err' = "E_NOERR"
  /\ pc' = next

\* Mutant: a transfer always starts at the first block.
Arg_FirstBlock(name) == IF name \in Addressed THEN rca ELSE 0

Arg(name) == IF name \in Addressed THEN rca ELSE IF name \in Transfers THEN op.lba ELSE 0

IsData == {"CMD17", "CMD18", "CMD24"}   \* CMD25 lacks the bit

\* Mutant: the interrupts are not cleared before the command is sent.
sd_cmd_send_KeepInterrupts ==
  /\ todo # << >> /\ phase = "inhibit"
  /\ line = None
  /\ ~ErrorPending
  /\ Head(todo) \in IsData => dat = NoData
  /\ blkcnt' = IF strict THEN 1 ELSE blkcnt
  /\ line' = [name |-> Head(todo), arg |-> Arg(Head(todo))]
  /\ resp' = NoAnswer
  /\ phase' = "wait"
  /\ UNCHANGED <<strict, card, data, dat, intr, hostWide, faults, pc, todo, res, err, rca, bd,
                 then, tries, op, c, buffer, result, gret, fsdev, multi, late>>

\* The inhibit bits are clear and no error interrupt is pending: until then the loops of
\* sd_cmd go on. The block count is set to one, the interrupts are cleared, and the
\* command is sent.
sd_cmd_send ==
  /\ todo # << >> /\ phase = "inhibit"
  /\ line = None
  /\ ~ErrorPending
  /\ Head(todo) \in IsData => dat = NoData
  /\ blkcnt' = IF strict THEN 1 ELSE blkcnt
  /\ intr' = {}
  /\ line' = [name |-> Head(todo), arg |-> Arg(Head(todo))]
  /\ resp' = NoAnswer
  /\ phase' = "wait"
  /\ UNCHANGED <<strict, card, data, dat, hostWide, faults, pc, todo, res, err, rca, bd,
                 then, tries, op, c, buffer, result, gret, fsdev, multi, late>>

\* The hardware will still change something by itself.
Working == line # None \/ (dat # NoData /\ ~dat.ready)

\* A polling loop runs out.
Expire(working) ==
  IF working THEN Fault /\ late' = TRUE ELSE UNCHANGED <<faults, late>>

\* Mutant: an error is reported and not cleared.
sd_int_KeepError(bit, code) ==
  \/ /\ ErrorPending
     /\ code = IF "TIMEOUT" \in intr THEN "E_TIMEOUT" ELSE "E_NOT_READY"
     /\ UNCHANGED <<intr, faults, late>>
  \/ /\ ~ErrorPending /\ bit \in intr
     /\ code = "E_NOERR"
     /\ intr' = intr \ {bit}
     /\ UNCHANGED <<faults, late>>
  \/ /\ ~ErrorPending
     /\ code = "E_TIMEOUT"
     /\ intr' = {}
     /\ Expire(Working \/ bit \in intr)

\* Mutant: the loop has no counter.
sd_int_NoCounter(bit, code) ==
  \/ /\ ErrorPending
     /\ code = IF "TIMEOUT" \in intr THEN "E_TIMEOUT" ELSE "E_NOT_READY"
     /\ intr' = {}
     /\ UNCHANGED <<faults, late>>
  \/ /\ ~ErrorPending /\ bit \in intr
     /\ code = "E_NOERR"
     /\ intr' = intr \ {bit}
     /\ UNCHANGED <<faults, late>>

\* sd_int: an error takes precedence and clears what was read; the counter running out,
\* even in the round in which the bit comes, counts as a timeout and clears it as well.
sd_int(bit, code) ==
  \/ /\ ErrorPending
     /\ code = IF "TIMEOUT" \in intr THEN "E_TIMEOUT" ELSE "E_NOT_READY"
     /\ intr' = {}
     /\ UNCHANGED <<faults, late>>
  \/ /\ ~ErrorPending /\ bit \in intr
     /\ code = "E_NOERR"
     /\ intr' = intr \ {bit}
     /\ UNCHANGED <<faults, late>>
  \/ /\ ~ErrorPending
     /\ code = "E_TIMEOUT"
     /\ intr' = {}
     /\ Expire(Working \/ bit \in intr)

Codes == {"E_NOERR", "E_TIMEOUT", "E_NOT_READY"}

\* sd_cmd has its answer. After CMD55 the command itself is sent whatever became of
\* CMD55, and the error of CMD55 stays in last_error.
sd_cmd_done ==
  /\ todo # << >> /\ phase = "wait"
  /\ \E code \in Codes :
       /\ sd_int("CMD_DONE", code)
       /\ res' = IF code = "E_NOERR" THEN resp.r ELSE "idle"
       /\ err' = IF code = "E_NOERR" THEN err ELSE code
  /\ todo' = Tail(todo)
  /\ phase' = "inhibit"
  /\ UNCHANGED <<strict, card, data, line, resp, dat, blkcnt, hostWide, pc, rca, bd, then, tries,
                 op, c, buffer, result, gret, fsdev, multi>>

-----------------------------------------------------------------------------
(* sd_init *)

Finish(code) == pc' = "ret" /\ result' = code

\* sd_init returns to kernel_main, which does not look at the code, or to one of the two
\* calls in ensure_data_mode, the second of which assigns the global ret.
InitReturn(code) ==
  \/ then = "boot" /\ pc' = "mbr" /\ UNCHANGED <<result, gret>>
  \/ /\ then # "boot"
     /\ gret' = IF then = "E3" THEN code # "E_NOERR" ELSE gret
     /\ IF code = "E_NOERR" THEN pc' = then /\ UNCHANGED result ELSE Finish(code)

\* A new emmc_dev, zero at boot; the controller is reset. The test for a reset that does
\* not end compares an unsigned counter that has wrapped, so that only a reset seen in
\* the last round is reported.
sd_init_reset ==
  /\ At("reset")
  /\ rca' \in IF then = "boot" THEN {0} ELSE {0, Junk}
  /\ bd' = FALSE
  /\ hostWide' = FALSE
  /\ \/ /\ intr' = {} /\ line' = None /\ dat' = NoData
        /\ pc' = "clk"
        /\ UNCHANGED <<faults, result, gret>>
     \/ /\ Fault
        /\ pc' = "clk"
        /\ UNCHANGED <<intr, line, dat, result, gret>>
     \/ /\ Fault
        /\ intr' = {} /\ line' = None /\ dat' = NoData
        /\ InitReturn("E_NOT_READY")
  /\ UNCHANGED <<strict, card, data, resp, blkcnt, todo, phase, res, err, then, tries, op, c,
                 buffer, fsdev, multi, late>>

AfterClk == [clk |-> "CMD0", clk2 |-> "CMD7"]

\* sd_clk waits for both inhibit bits and then for a stable clock.
sd_clk ==
  /\ pc \in DOMAIN AfterClk /\ todo = << >>
  /\ \/ /\ line = None /\ dat = NoData
        /\ pc' = AfterClk[pc]
        /\ UNCHANGED <<faults, late, result, gret>>
     \/ /\ line # None \/ dat # NoData
        /\ Expire(Working)
        /\ InitReturn("E_TIMEOUT")
     \/ /\ line = None /\ dat = NoData
        /\ Fault
        /\ InitReturn("E_NOT_READY")
        /\ UNCHANGED late
  /\ UNCHANGED <<strict, card, data, intr, line, resp, dat, blkcnt, hostWide, todo, phase, res, err,
                 rca, bd, then, tries, op, c, buffer, fsdev, multi>>

\* The commands sd_init sends without looking at their results, and where it goes on.
Script ==
  [CMD0    |-> [cmds |-> <<"CMD0">>,             next |-> "CMD8"],
   CMD8    |-> [cmds |-> <<"CMD8">>,             next |-> "inquire"],
   inquire |-> [cmds |-> <<"CMD55", "INQUIRE">>, next |-> "inquired"],
   CMD2    |-> [cmds |-> <<"CMD2">>,             next |-> "CMD3"],
   CMD9    |-> [cmds |-> <<"CMD9">>,             next |-> "CMD10"],
   CMD10   |-> [cmds |-> <<"CMD10">>,            next |-> "CMD13"],
   CMD13   |-> [cmds |-> <<"CMD13">>,            next |-> "standby"],
   CMD7    |-> [cmds |-> <<"CMD7">>,             next |-> "select"],
   select  |-> [cmds |-> <<"CMD13">>,            next |-> "selected"],
   width   |-> [cmds |-> <<"CMD55", "ACMD6">>,   next |-> "done"]]

sd_init_send ==
  /\ pc \in DOMAIN Script /\ todo = << >>
  /\ Send(Script[pc].cmds, Script[pc].next)
  /\ UNCHANGED <<hw, res, rca, bd, then, tries, op, c, buffer, result, gret, fsdev, multi, late>>

\* The error of the first ACMD41 ends sd_init; r and cnt are set for the loop.
sd_init_inquired ==
  /\ At("inquired")
  /\ \/ err # "E_NOERR" /\ InitReturn(err) /\ UNCHANGED <<res, tries>>
     \/ /\ err = "E_NOERR"
        /\ tries' = Tries
        /\ res' = "idle"
        /\ pc' = "op_cond"
        /\ UNCHANGED <<result, gret>>
  /\ UNCHANGED <<hw, todo, phase, err, rca, bd, then, op, c, buffer, fsdev, multi, late>>

Complete == res \in {"complete", "novolt"}

\* The loop of ACMD41. A card that is complete in the last round is not ready, and one
\* without voltage ends sd_init at once with E_NOERR.
sd_init_op_cond ==
  /\ At("op_cond")
  /\ \/ /\ ~Complete /\ tries # 0
        /\ Send(<<"CMD55", "ACMD41">>, "op_cond")
        /\ tries' = tries - 1
        /\ UNCHANGED <<result, gret>>
     \/ /\ Complete \/ tries = 0
        /\ \/ (~Complete \/ tries = 0) /\ InitReturn("E_NOT_READY")
           \/ res = "novolt" /\ tries # 0 /\ InitReturn("E_NOERR")
           \/ res = "complete" /\ tries # 0 /\ pc' = "CMD2" /\ UNCHANGED <<result, gret>>
        /\ UNCHANGED <<tries, todo, phase, err>>
  /\ UNCHANGED <<hw, res, rca, bd, then, op, c, buffer, fsdev, multi, late>>

\* card_rca is 1 until the card has sent its own.
sd_init_rel_addr ==
  /\ At("CMD3")
  /\ rca' = 1
  /\ Send(<<"CMD3">>, "addressed")
  /\ UNCHANGED <<hw, res, bd, then, tries, op, c, buffer, result, gret, fsdev, multi, late>>

\* The states the card must report, and where sd_init goes on.
Expected ==
  [addressed |-> [state |-> "ident", next |-> "CMD9"],
   standby   |-> [state |-> "stby",  next |-> "clk2"],
   selected  |-> [state |-> "tran",  next |-> "width"]]

sd_init_check ==
  /\ pc \in DOMAIN Expected /\ todo = << >>
  /\ IF res = Expected[pc].state
     THEN /\ pc' = Expected[pc].next
          /\ rca' = IF pc = "addressed" THEN Rca ELSE rca
          /\ UNCHANGED <<result, gret>>
     ELSE InitReturn("E_NOT_READY") /\ UNCHANGED rca
  /\ UNCHANGED <<hw, todo, phase, res, err, bd, then, tries, op, c, buffer, fsdev, multi, late>>

\* Mutant: the controller stays on the narrow bus.
sd_init_done_Narrow ==
  /\ At("done")
  /\ bd' = TRUE
  /\ InitReturn("E_NOERR")
  /\ UNCHANGED <<hw, todo, phase, res, err, rca, then, tries, op, c, buffer, fsdev, multi, late>>

\* The controller uses the wide bus, whatever became of ACMD6.
sd_init_done ==
  /\ At("done")
  /\ hostWide' = TRUE
  /\ bd' = TRUE
  /\ InitReturn("E_NOERR")
  /\ UNCHANGED <<strict, card, data, intr, line, resp, dat, blkcnt, faults, todo, phase, res, err,
                 rca, then, tries, op, c, buffer, fsdev, multi, late>>

-----------------------------------------------------------------------------
(* ensure_data_mode *)

ensure_rca ==
  /\ At("ensure")
  /\ \/ rca = 0 /\ pc' = "reset" /\ then' = "E1"
     \/ rca # 0 /\ pc' = "E1" /\ UNCHANGED then
  /\ UNCHANGED <<hw, todo, phase, res, err, rca, bd, tries, op, c, buffer, result, gret, fsdev,
                 multi, late>>

ensure_status ==
  /\ \/ At("E1") /\ Send(<<"CMD13">>, "E2")
     \/ At("E3") /\ Send(<<"CMD13">>, "E4")
  /\ UNCHANGED <<hw, res, rca, bd, then, tries, op, c, buffer, result, gret, fsdev, multi, late>>

\* Mutant: a card that is still programming counts as ready.
ensure_switch_Prg ==
  /\ At("E2")
  /\ \/ res = "stby" /\ Send(<<"CMD7">>, "E3") /\ UNCHANGED then
     \/ res = "data" /\ Send(<<"CMD12">>, "E3") /\ UNCHANGED then
     \/ res \in {"tran", "prg", "rcv"} /\ pc' = "transfer" /\ UNCHANGED <<todo, phase, err, then>>
     \/ /\ res \notin {"stby", "data", "tran", "prg", "rcv"}
        /\ pc' = "reset" /\ then' = "E3"
        /\ UNCHANGED <<todo, phase, err>>
  /\ UNCHANGED <<hw, res, rca, bd, tries, op, c, buffer, result, gret, fsdev, multi, late>>

\* The switch over the state.
ensure_switch ==
  /\ At("E2")
  /\ \/ res = "stby" /\ Send(<<"CMD7">>, "E3") /\ UNCHANGED then
     \/ res = "data" /\ Send(<<"CMD12">>, "E3") /\ UNCHANGED then
     \/ res = "tran" /\ pc' = "transfer" /\ UNCHANGED <<todo, phase, err, then>>
     \/ /\ res \notin {"stby", "data", "tran"}
        /\ pc' = "reset" /\ then' = "E3"
        /\ UNCHANGED <<todo, phase, err>>
  /\ UNCHANGED <<hw, res, rca, bd, tries, op, c, buffer, result, gret, fsdev, multi, late>>

ensure_check ==
  /\ At("E4")
  /\ \/ res = "tran" /\ pc' = "transfer" /\ UNCHANGED result
     \/ res # "tran" /\ Finish("E_NOT_READY")
  /\ UNCHANGED <<hw, todo, phase, res, err, rca, bd, then, tries, op, c, buffer, gret, fsdev, multi,
                 late>>

-----------------------------------------------------------------------------
(* sd_read and sd_write *)

\* A call of sd_read or sd_write through the functions of fs->dev; num < 1 means 1. For one
\* block the alignment of the buffer makes no difference.
call(kind, n, lba, aligned) ==
  /\ pc = "idle"
  /\ lba + n <= NumBlocks /\ (aligned \/ n > 1)
  /\ \/ /\ fsdev
        /\ pc' = "ensure"
        /\ op' = [kind |-> kind, num |-> IF n < 1 THEN 1 ELSE n, lba |-> lba, aligned |-> aligned]
        /\ multi' = (multi \/ n > 1)
     \/ ~fsdev /\ pc' = "wild" /\ UNCHANGED <<op, multi>>
  /\ UNCHANGED <<hw, todo, phase, res, err, rca, bd, then, tries, c, buffer, result, gret, fsdev, late>>

\* print_MBR_table calls sd_read itself.
mbr ==
  /\ At("mbr")
  /\ pc' = "ensure"
  /\ op' = [NoOp EXCEPT !.kind = "mbr"]
  /\ UNCHANGED <<hw, todo, phase, res, err, rca, bd, then, tries, c, buffer, result, gret, fsdev,
                 multi, late>>

Reading == op.kind \in {"read", "mbr"}
TransferCmd ==
  IF Reading THEN (IF op.num = 1 THEN "CMD17" ELSE "CMD18")
  ELSE (IF op.num = 1 THEN "CMD24" ELSE "CMD25")

\* sd_wait_data; then the block count is written and the command sent.
transfer ==
  /\ At("transfer")
  /\ \/ /\ dat = NoData /\ ~ErrorPending
        /\ blkcnt' = op.num
        /\ Send(<<TransferCmd>>, "block")
        /\ UNCHANGED <<faults, late, result>>
     \/ /\ ErrorPending \/ dat # NoData
        /\ IF ErrorPending THEN UNCHANGED <<faults, late>> ELSE Expire(Working)
        /\ Finish("E_TIMEOUT")
        /\ UNCHANGED <<blkcnt, todo, phase, err>>
  /\ UNCHANGED <<strict, card, data, intr, line, resp, dat, hostWide, res, rca, bd, then, tries, op, c,
                 buffer, gret, fsdev, multi>>

\* Mutant: an aligned buffer is not stepped through.
ReadSlot_Fixed == IF op.aligned THEN 0 ELSE 4 * c

\* The sector of the buffer that block number c goes to: the branch for a buffer that is
\* not aligned steps by 512 words.
ReadSlot == IF op.aligned THEN c ELSE 4 * c

\* The sector of the buffer that block number c is written from: the branch for an
\* aligned buffer never steps.
WriteSlot == IF op.aligned THEN 0 ELSE c

Moved == [dat EXCEPT !.block = @ + 1, !.left = @ - 1, !.ready = FALSE]

\* One block of sd_read; the result of the command itself is not looked at.
read_block ==
  /\ At("block") /\ Reading /\ c < op.num
  /\ \E code \in Codes :
       /\ sd_int("READ_RDY", code)
       /\ \/ /\ code = "E_NOERR"
             /\ buffer' = [buffer EXCEPT ![ReadSlot] = IF dat.ready THEN data[dat.block] ELSE <<"junk", 0>>]
             /\ dat' = IF dat.ready THEN Moved ELSE dat
             /\ c' = c + 1
             /\ UNCHANGED <<pc, result, err>>
          \/ code # "E_NOERR" /\ Finish("E_DISKERR") /\ err' = code /\ UNCHANGED <<buffer, dat, c>>
  /\ UNCHANGED <<strict, card, data, line, resp, blkcnt, hostWide, todo, phase, res, rca, bd, then,
                 tries, op, gret, fsdev, multi>>

\* One block of sd_write.
write_block ==
  /\ At("block") /\ op.kind = "write" /\ c < op.num
  /\ \E code \in Codes :
       /\ sd_int("WRITE_RDY", code)
       /\ \/ /\ code = "E_NOERR"
             /\ IF dat.ready
                THEN /\ data' = [data EXCEPT ![dat.block] = <<"buffer", WriteSlot>>]
                     /\ dat' = Moved
                     /\ card' = IF dat.multi THEN card ELSE [card EXCEPT !.state = "prg"]
                ELSE UNCHANGED <<data, dat, card>>
             /\ c' = c + 1
             /\ UNCHANGED <<pc, result, err>>
          \/ code # "E_NOERR" /\ Finish("E_DISKERR") /\ err' = code /\ UNCHANGED <<data, dat, card, c>>
  /\ UNCHANGED <<strict, line, resp, blkcnt, hostWide, todo, phase, res, rca, bd, then, tries, op,
                 buffer, gret, fsdev, multi>>

\* A transfer of several blocks is ended by CMD12, whose result is not looked at.
Stop ==
  IF op.num > 1 THEN Send(<<"CMD12">>, "complete") ELSE pc' = "complete" /\ UNCHANGED <<todo, phase, err>>

read_end ==
  /\ At("block") /\ Reading /\ c = op.num
  /\ Stop
  /\ UNCHANGED <<hw, res, rca, bd, then, tries, op, c, buffer, result, gret, fsdev, multi, late>>

\* sd_write waits for the end of the data first.
write_end ==
  /\ At("block") /\ op.kind = "write" /\ c = op.num
  /\ \E code \in Codes :
       /\ sd_int("DATA_DONE", code)
       /\ \/ code = "E_NOERR" /\ Stop /\ UNCHANGED result
          \/ code # "E_NOERR" /\ Finish("E_TIMEOUT") /\ UNCHANGED <<todo, phase, err>>
  /\ UNCHANGED <<strict, card, data, line, resp, dat, blkcnt, hostWide, res, rca, bd, then, tries, op, c,
                 buffer, gret, fsdev, multi>>

complete ==
  /\ At("complete")
  /\ Finish("num")
  /\ UNCHANGED <<hw, todo, phase, res, err, rca, bd, then, tries, op, c, buffer, gret, fsdev, multi, late>>

\* The caller has its result. After the master boot record the file system is given the
\* bd of the emmc_dev of that moment.
return ==
  /\ pc = "ret"
  /\ pc' = "idle"
  /\ fsdev' = IF op.kind = "mbr" THEN bd ELSE fsdev
  /\ op' = NoOp /\ c' = 0 /\ buffer' = EmptyBuffer /\ result' = "none"
  /\ res' = "idle" /\ then' = "none" /\ tries' = 0   \* local to the call
  /\ err' = "E_NOERR"                               \* sd_cmd resets it before it is read
  /\ UNCHANGED <<hw, todo, phase, rca, bd, gret, multi, late>>

\* sd_reset, when the shell has ended; the power is switched off afterwards.
shutdown ==
  /\ pc = "idle"
  /\ Send(<<"CMD0">>, "off")
  /\ UNCHANGED <<hw, res, rca, bd, then, tries, op, c, buffer, result, gret, fsdev, multi, late>>

Driver ==
  \/ sd_cmd_send \/ sd_cmd_done
  \/ sd_init_reset \/ sd_clk \/ sd_init_send \/ sd_init_inquired \/ sd_init_op_cond
  \/ sd_init_rel_addr \/ sd_init_check \/ sd_init_done
  \/ ensure_rca \/ ensure_status \/ ensure_switch \/ ensure_check
  \/ mbr \/ transfer \/ read_block \/ write_block \/ read_end \/ write_end \/ complete \/ return

Client ==
  \/ \E kind \in {"read", "write"}, n \in 0 .. 2, lba \in 0 .. (NumBlocks - 1), aligned \in BOOLEAN :
       call(kind, n, lba, aligned)
  \/ shutdown

Next ==
  \/ Driver
  \/ Client
  \/ Hardware /\ UNCHANGED driver

Spec == Init /\ [][Next]_vars

\* The kernel runs on while a call is in progress, and the hardware finishes what it has
\* begun; nobody is obliged to make a call.
FairSpec == Spec /\ WF_vars(Driver) /\ WF_vars(Hardware /\ UNCHANGED driver)

-----------------------------------------------------------------------------
(* Properties *)

\* Types of the driver's state and of the registers.
TypeOK ==
  /\ card.state \in CardStates /\ card.rca \in {0, Rca}
  /\ intr \subseteq Errors \cup {"CMD_DONE", "READ_RDY", "WRITE_RDY", "DATA_DONE"}
  /\ line = None \/ line.name \in DOMAIN LegalIn
  /\ dat.left \in 0 .. 2 /\ dat.block \in Nat
  /\ phase \in {"inhibit", "wait"}
  /\ err \in Codes /\ gret \in BOOLEAN
  /\ rca \in {0, 1, Rca, Junk}
  /\ tries \in 0 .. Tries
  /\ c \in 0 .. op.num
  /\ result \in Codes \cup {"none", "num", "E_DISKERR"}

\* What sd_cmd takes for the end of its command is the end of that command: the answer to
\* one it has given up, which may come at any time later, is never taken for it.
AnswersMatch ==
  todo # << >> /\ phase = "wait" /\ "CMD_DONE" \in intr => resp.name = Head(todo)

\* A transfer is begun only while the card is in the transfer state: ensure_data_mode has
\* brought it there whatever earlier transfers, lost commands and resets left behind.
TransfersFromTran == line.name \in Transfers => card.state = "tran"

\* A read that returns its length has filled the buffer with the blocks asked for, in
\* order, for one block or an aligned buffer.
ReadExact ==
  pc = "ret" /\ result = "num" /\ Reading /\ (op.num = 1 \/ op.aligned) =>
    \A i \in 0 .. (op.num - 1) : buffer[i] = data[op.lba + i]

\* A write that returns its length has stored the buffer in the blocks asked for, in order,
\* for one block or a buffer that is not aligned.
WriteExact ==
  pc = "ret" /\ result = "num" /\ op.kind = "write" /\ (op.num = 1 \/ ~op.aligned) =>
    \A i \in 0 .. (op.num - 1) : data[op.lba + i] = <<"buffer", i>>

\* Both kinds of transfer, over retries, given-up commands and resets.
TransfersExact == TypeOK /\ ReadExact /\ WriteExact

\* The card is written only in the blocks of the write that is running, also when an
\* earlier write was given up and its command reaches the card late.
WritesInRange ==
  [][\A b \in DOMAIN data :
       data'[b] # data[b] => op.kind = "write" /\ b \in op.lba .. (op.lba + op.num - 1)]_vars

\* As long as the hardware works, every transfer of one block succeeds and the file system
\* has its functions.
SingleBlocksSucceed ==
  faults = 0 /\ ~multi => (pc = "ret" => result = "num") /\ pc # "wild"

\* sd_cmd waits in its loops with an error interrupt pending that nothing clears.
Hung == todo # << >> /\ phase = "inhibit" /\ ErrorPending

\* sd_cmd hangs only when an error arrives after a polling loop was given up: every other
\* error is seen and cleared before the next command.
HangsOnlyWhenLate == Hung => late

\* Every call returns, unless sd_cmd hangs or the file system has no functions to call:
\* all loops end, and initialisation is not entered for ever.
CallsReturn == pc \notin {"idle", "off", "wild"} ~> pc \in {"idle", "off", "wild"} \/ Hung

\* The block device says supports_multiple_block_write = 1: a write of any number of blocks
\* that returns its length has stored the buffer in them.
WritesBuffer ==
  pc = "ret" /\ result = "num" /\ op.kind = "write" =>
    \A i \in 0 .. (op.num - 1) : data[op.lba + i] = <<"buffer", i>>
=============================================================================
