-------------------------- MODULE SdDriver_proofs --------------------------
(***************************************************************************)
(* That sd_cmd never takes the answer to another command for that to its   *)
(* own, for every card, however often the hardware fails and however late  *)
(* an answer comes.                                                        *)
(*                                                                         *)
(* AnswersMatch is not inductive: it says nothing of the command that is   *)
(* still on the line, whose answer sets CMD_DONE next.  AnswerInv adds     *)
(* that this is the command sd_cmd waits for, which rests on sd_cmd's wait *)
(* for the inhibit bit before it sends, and on its clearing the interrupts *)
(* at that moment.                                                         *)
(***************************************************************************)
EXTENDS SdDriver, TLAPS

\* sd_cmd is polling for the end of its command.
Polling == todo # << >> /\ phase = "wait"

\* The command on the line is the one sd_cmd waits for.
LineMatches == Polling /\ line # None => line.name = Head(todo)

\* The inductive invariant.
AnswerInv == LineMatches /\ AnswersMatch

\* A step that leaves the places where a command and its answer are alone, or takes sd_cmd
\* out of its polling loop, or clears the line and the interrupts, keeps the invariant.
LEMMA QuietStep ==
  ASSUME AnswerInv,
         \/ UNCHANGED <<todo, phase, line, resp, intr>>
         \/ ~Polling'
         \/ /\ UNCHANGED <<todo, phase, resp>>
            /\ line' = line \/ line' = None
            /\ "CMD_DONE" \in intr' => "CMD_DONE" \in intr
  PROVE  AnswerInv'
BY DEF AnswerInv, LineMatches, AnswersMatch, Polling

\* The hardware's steps keep the invariant: only one that takes the command off the line
\* reports that it is done, and then the answer names that command.
LEMMA HardwareStep ==
  ASSUME AnswerInv, Hardware, UNCHANGED driver
  PROVE  AnswerInv'
<1>1. UNCHANGED <<todo, phase>>
  BY DEF driver
<1>2. CASE respond
  BY <1>1, <1>2 DEF respond, AnswerInv, LineMatches, AnswersMatch, Polling
<1>3. CASE data_ready
  BY <1>1, <1>3, QuietStep DEF data_ready
<1>4. CASE data_done
  BY <1>1, <1>4, QuietStep DEF data_done
<1>5. CASE programmed
  BY <1>1, <1>5, QuietStep DEF programmed
<1>6. CASE \E e \in Errors : data_error(e)
  BY <1>1, <1>6, QuietStep DEF data_error, Errors
<1>7. CASE \E e \in Errors, heard \in BOOLEAN : lose(heard, e)
  BY <1>1, <1>7 DEF lose, Errors, AnswerInv, LineMatches, AnswersMatch, Polling
<1>8. CASE \E r \in {"busy", "novolt"} : power_up(r)
  <2>1. line # None
    BY <1>8 DEF power_up, None
  <2>2. QED
    BY <1>1, <1>8, <2>1 DEF power_up, AnswerInv, LineMatches, AnswersMatch, Polling
<1>9. QED
  BY <1>2, <1>3, <1>4, <1>5, <1>6, <1>7, <1>8 DEF Hardware

\* The steps of sd_cmd keep the invariant: a command is sent with all interrupts cleared.
LEMMA CommandStep ==
  ASSUME AnswerInv, sd_cmd_send \/ sd_cmd_done
  PROVE  AnswerInv'
<1>1. CASE sd_cmd_send
  BY <1>1 DEF sd_cmd_send, AnswerInv, LineMatches, AnswersMatch, Polling
<1>2. CASE sd_cmd_done
  <2>1. ~Polling'
    BY <1>2 DEF sd_cmd_done, Polling
  <2>2. QED
    BY <2>1, QuietStep
<1>3. QED
  BY <1>1, <1>2

\* The steps of sd_init keep the invariant.
LEMMA InitStep ==
  ASSUME AnswerInv,
         \/ sd_init_reset \/ sd_clk \/ sd_init_send \/ sd_init_inquired \/ sd_init_op_cond
         \/ sd_init_rel_addr \/ sd_init_check \/ sd_init_done
  PROVE  AnswerInv'
<1>1. CASE sd_init_reset
  <2>1. UNCHANGED <<todo, phase>> /\ todo = << >>
    BY <1>1 DEF sd_init_reset, At
  <2>2. QED
    BY <2>1, QuietStep DEF Polling
<1>2. CASE sd_clk
  BY <1>2, QuietStep DEF sd_clk
<1>3. CASE sd_init_send
  BY <1>3, QuietStep DEF sd_init_send, Send, Polling
<1>4. CASE sd_init_inquired
  BY <1>4, QuietStep DEF sd_init_inquired, hw
<1>5. CASE sd_init_op_cond
  <2>1. (phase' = "inhibit") \/ UNCHANGED <<todo, phase>>
    BY <1>5 DEF sd_init_op_cond, Send
  <2>2. UNCHANGED <<line, resp, intr>>
    BY <1>5 DEF sd_init_op_cond, hw
  <2>3. QED
    BY <2>1, <2>2, QuietStep DEF Polling
<1>6. CASE sd_init_rel_addr
  BY <1>6, QuietStep DEF sd_init_rel_addr, Send, Polling
<1>7. CASE sd_init_check
  BY <1>7, QuietStep DEF sd_init_check, hw
<1>8. CASE sd_init_done
  BY <1>8, QuietStep DEF sd_init_done
<1>9. QED
  BY <1>1, <1>2, <1>3, <1>4, <1>5, <1>6, <1>7, <1>8

\* The steps of ensure_data_mode keep the invariant.
LEMMA EnsureStep ==
  ASSUME AnswerInv, ensure_rca \/ ensure_status \/ ensure_switch \/ ensure_check
  PROVE  AnswerInv'
<1>1. CASE ensure_rca
  BY <1>1, QuietStep DEF ensure_rca, hw
<1>2. CASE ensure_status
  BY <1>2, QuietStep DEF ensure_status, Send, Polling
<1>3. CASE ensure_switch
  <2>1. (phase' = "inhibit") \/ UNCHANGED <<todo, phase>>
    BY <1>3 DEF ensure_switch, Send
  <2>2. UNCHANGED <<line, resp, intr>>
    BY <1>3 DEF ensure_switch, hw
  <2>3. QED
    BY <2>1, <2>2, QuietStep DEF Polling
<1>4. CASE ensure_check
  BY <1>4, QuietStep DEF ensure_check, hw
<1>5. QED
  BY <1>1, <1>2, <1>3, <1>4

\* The steps of sd_read and sd_write keep the invariant: outside sd_cmd nothing is polled
\* for CMD_DONE.
LEMMA TransferStep ==
  ASSUME AnswerInv,
         \/ mbr \/ transfer \/ read_block \/ write_block \/ read_end \/ write_end
         \/ complete \/ return
  PROVE  AnswerInv'
<1>1. CASE mbr
  BY <1>1, QuietStep DEF mbr, hw
<1>2. CASE transfer
  <2>1. (phase' = "inhibit") \/ UNCHANGED <<todo, phase>>
    BY <1>2 DEF transfer, Send
  <2>2. UNCHANGED <<line, resp, intr>>
    BY <1>2 DEF transfer
  <2>3. QED
    BY <2>1, <2>2, QuietStep DEF Polling
<1>3. CASE read_block
  BY <1>3, QuietStep DEF read_block, At, Polling
<1>4. CASE write_block
  BY <1>4, QuietStep DEF write_block, At, Polling
<1>5. CASE read_end
  <2>1. (phase' = "inhibit") \/ UNCHANGED <<todo, phase>>
    BY <1>5 DEF read_end, Stop, Send
  <2>2. UNCHANGED <<line, resp, intr>>
    BY <1>5 DEF read_end, hw
  <2>3. QED
    BY <2>1, <2>2, QuietStep DEF Polling
<1>6. CASE write_end
  <2>1. todo = << >> /\ ((phase' = "inhibit") \/ UNCHANGED <<todo, phase>>)
    BY <1>6 DEF write_end, At, Stop, Send
  <2>2. QED
    BY <2>1, QuietStep DEF Polling
<1>7. CASE complete
  BY <1>7, QuietStep DEF complete, hw
<1>8. CASE return
  BY <1>8, QuietStep DEF return, hw
<1>9. QED
  BY <1>1, <1>2, <1>3, <1>4, <1>5, <1>6, <1>7, <1>8

\* The callers' steps keep the invariant.
LEMMA ClientStep ==
  ASSUME AnswerInv, Client
  PROVE  AnswerInv'
<1>1. CASE shutdown
  BY <1>1, QuietStep DEF shutdown, Send, Polling
<1>2. CASE \E kind \in {"read", "write"}, n \in 0 .. 2, lba \in 0 .. (NumBlocks - 1),
              aligned \in BOOLEAN : call(kind, n, lba, aligned)
  BY <1>2, QuietStep DEF call, hw
<1>3. QED
  BY <1>1, <1>2 DEF Client

\* AnswerInv holds in every reachable state.
THEOREM AnswerInvariant == Spec => []AnswerInv
<1>1. Init => AnswerInv
  BY DEF Init, AnswerInv, LineMatches, AnswersMatch, Polling
<1>2. AnswerInv /\ [Next]_vars => AnswerInv'
  <2> SUFFICES ASSUME AnswerInv, [Next]_vars PROVE AnswerInv'
    OBVIOUS
  <2>1. CASE Driver
    BY <2>1, CommandStep, InitStep, EnsureStep, TransferStep DEF Driver
  <2>2. CASE Client
    BY <2>2, ClientStep
  <2>3. CASE Hardware /\ UNCHANGED driver
    BY <2>3, HardwareStep
  <2>4. CASE UNCHANGED vars
    BY <2>4, QuietStep DEF vars, hw, driver
  <2>5. QED
    BY <2>1, <2>2, <2>3, <2>4 DEF Next
<1>3. QED
  BY <1>1, <1>2, PTL DEF Spec

\* sd_cmd takes no answer for that to its command but the one to its command.
THEOREM SdAnswersMatch == Spec => []AnswersMatch
<1>1. AnswerInv => AnswersMatch
  BY DEF AnswerInv
<1>2. QED
  BY <1>1, AnswerInvariant, PTL

-----------------------------------------------------------------------------
(***************************************************************************)
(* That the transfers of sd_read and sd_write move the right blocks, begin *)
(* in the card's transfer state, and that sd_cmd hangs only after a wait   *)
(* was given up: for every card and every number of faults.                *)
(*                                                                         *)
(* Each property speaks of one moment of a call.  TransferInv follows the  *)
(* call to it: where the driver is determines what it has sent (Places);   *)
(* from the answer "tran" to the transfer command nothing is on the line   *)
(* that could take the card out of that state (InTran); the data transfer  *)
(* that runs while blocks are moved is the one of this call, as many       *)
(* blocks on as the driver has counted (InStep); what has been counted was *)
(* moved (Moves); and unless a wait was given up, an error bit is only     *)
(* ever set where the driver looks for it next (Attended).                 *)
(***************************************************************************)

\* The commands.
CmdNames == {"CMD0", "CMD8", "CMD55", "INQUIRE", "ACMD41", "CMD2", "CMD3", "CMD9", "CMD10", "CMD13",
             "CMD7", "ACMD6", "CMD12", "CMD17", "CMD18", "CMD24", "CMD25"}

\* What sd_cmd may have to send, but for a transfer.
Quiet == {<< >>} \cup {<<n>> : n \in CmdNames \ Transfers} \cup {<<"CMD55", n>> : n \in AfterCMD55}

\* What a block and a sector of the buffer may hold.
Contents == {"card", "buffer", "junk", "empty"} \X Nat

Cards == [state : CardStates, rca : {0, Rca}, app : BOOLEAN, wide : BOOLEAN]
Dats == [dir : {"none", "read", "write"}, block : Nat, left : 0 .. 2, ready : BOOLEAN, multi : BOOLEAN]
Ops == [kind : {"none", "read", "write", "mbr"}, num : 1 .. 2, lba : Nat, aligned : BOOLEAN]

\* Types of the hardware.
HwType ==
  /\ card \in Cards
  /\ intr \subseteq Errors \cup {"CMD_DONE", "READ_RDY", "WRITE_RDY", "DATA_DONE"}
  /\ line \in {None} \cup [name : CmdNames, arg : Nat]
  /\ dat \in Dats
  /\ blkcnt \in 0 .. 2
  /\ data \in [0 .. (NumBlocks - 1) -> Contents]

\* Types of the driver. A call stays within the card.
DriverType ==
  /\ todo \in Quiet \cup {<<n>> : n \in Transfers}
  /\ phase \in {"inhibit", "wait"}
  /\ err \in Codes /\ gret \in BOOLEAN
  /\ rca \in {0, 1, Rca, Junk}
  /\ then \in {"boot", "E1", "E3", "none"}
  /\ tries \in 0 .. Tries
  /\ op \in Ops /\ op.lba + op.num <= NumBlocks
  /\ c \in 0 .. op.num
  /\ buffer \in [{0, 1, 4} -> Contents]
  /\ result \in Codes \cup {"none", "num", "E_DISKERR"}

\* Where the driver is determines what it has to send and how far its count is.
Places ==
  /\ pc \in {"E2", "E4"} => todo \in {<< >>, <<"CMD13">>}
  /\ pc \in {"transfer", "ret", "idle"} => todo = << >>
  /\ pc = "block" /\ todo # << >> => todo = <<TransferCmd>> /\ c = 0
  /\ pc # "block" => todo \in Quiet
  /\ pc \notin {"block", "complete", "ret"} => c = 0
  /\ pc = "complete" \/ (pc = "ret" /\ result = "num") => c = op.num

\* A command that has been answered is off the line.
Answered == Polling /\ "CMD_DONE" \in intr => line = None

\* The card is in the transfer state when CMD13 has said so, until the transfer begins.
InTran ==
  /\ Polling /\ "CMD_DONE" \in intr /\ todo = <<"CMD13">> /\ resp.r = "tran" => card.state = "tran"
  /\ pc \in {"E2", "E4"} /\ todo = << >> /\ res = "tran" => card.state = "tran" /\ line = None
  /\ pc = "transfer" => card.state = "tran" /\ line = None
  /\ pc = "block" /\ todo # << >> /\ phase = "inhibit" =>
       card.state = "tran" /\ line = None /\ dat = NoData /\ blkcnt \in 1 .. op.num
  /\ line.name \in Transfers => card.state = "tran" /\ dat = NoData

\* The driver waits for the blocks of its transfer.
Moving == pc = "block" /\ (todo = << >> \/ phase = "wait")

\* The data transfer in progress is the one of the call, and stands where its count stands.
InStep ==
  /\ dat.ready => dat.left > 0
  /\ dat.left > 0 => dat.dir \in {"read", "write"}
  /\ Moving =>
       /\ line # None => line.name \in Transfers /\ line.arg = op.lba /\ blkcnt \in 1 .. op.num /\ c = 0
       /\ dat # NoData => dat.block = op.lba + c /\ dat.left + c <= op.num
       /\ "READ_RDY" \in intr => dat.ready /\ dat.dir = "read"
       /\ "WRITE_RDY" \in intr => dat.ready /\ dat.dir = "write"
       /\ "DATA_DONE" \in intr => dat = NoData /\ line = None

\* The blocks that have been counted are in the buffer, or on the card.
Moves ==
  pc \in {"block", "complete", "ret"} =>
    /\ Reading /\ (op.num = 1 \/ op.aligned) =>
         \A i \in 0 .. (c - 1) : buffer[i] = data[op.lba + i]
    /\ op.kind = "write" /\ (op.num = 1 \/ ~op.aligned) =>
         \A i \in 0 .. (c - 1) : data[op.lba + i] = <<"buffer", i>>

\* The data transfer may still fail.
MayFail == dat # NoData /\ ~dat.ready /\ (dat.left > 0 \/ dat.dir = "write")

\* Nothing is under way that would set an error bit, and none is set.
Calm == line = None /\ ~ErrorPending /\ ~MayFail

\* Unless a wait was given up, an error bit is set only while the driver polls for the end of
\* the command or the block that the error is about.
Attended ==
  ~late =>
    /\ ~Polling /\ ~(pc = "block" /\ todo = << >>) => Calm
    /\ Polling => /\ line # None => ~ErrorPending /\ ~MayFail
                  /\ pc # "block" => ~MayFail
    /\ pc = "block" /\ todo = << >> =>
         /\ line = None
         /\ ErrorPending => dat = NoData
         /\ Reading /\ c = op.num => ~ErrorPending /\ ~MayFail

\* The inductive invariant.
TransferInv ==
  /\ HwType /\ DriverType /\ AnswerInv
  /\ Places /\ Answered /\ InTran /\ InStep /\ Moves /\ Attended

-----------------------------------------------------------------------------
(* Facts about the commands *)

\* The commands are those the card knows.
LEMMA LegalNames == DOMAIN LegalIn = CmdNames
BY DEF LegalIn, CmdNames

\* The commands of sd_init and ensure_data_mode begin no transfer.
LEMMA QuietQueues ==
  ASSUME NEW q \in Quiet, q # << >>
  PROVE  Head(q) \in CmdNames \ Transfers /\ Tail(q) \in Quiet
<1>1. CASE \E n \in CmdNames \ Transfers : q = <<n>>
  BY <1>1 DEF Quiet
<1>2. CASE \E n \in AfterCMD55 : q = <<"CMD55", n>>
  <2>1. PICK n \in AfterCMD55 : q = <<"CMD55", n>>
    BY <1>2
  <2>2. Head(q) = "CMD55" /\ Tail(q) = <<n>>
    BY <2>1
  <2>3. n \in CmdNames \ Transfers
    BY DEF AfterCMD55, CmdNames, Transfers
  <2>4. QED
    BY <2>2, <2>3 DEF Quiet, CmdNames, Transfers
<1>3. QED
  BY <1>1, <1>2 DEF Quiet

\* Single commands that are no transfer.
LEMMA QuietSingles ==
  /\ << >> \in Quiet /\ <<"CMD0">> \in Quiet /\ <<"CMD3">> \in Quiet /\ <<"CMD7">> \in Quiet
  /\ <<"CMD12">> \in Quiet /\ <<"CMD13">> \in Quiet /\ <<"CMD55", "ACMD41">> \in Quiet
BY DEF Quiet, CmdNames, Transfers, AfterCMD55

\* A transfer is one command.
LEMMA TransferQueue ==
  ASSUME DriverType
  PROVE  /\ TransferCmd \in Transfers /\ Head(<<TransferCmd>>) = TransferCmd
         /\ Tail(<<TransferCmd>>) = << >> /\ <<TransferCmd>> # << >>
BY DEF TransferCmd, Transfers

\* The steps of sd_init lead to steps of sd_init.
LEMMA ScriptFacts ==
  ASSUME NEW p \in DOMAIN Script
  PROVE  /\ Script[p].cmds \in Quiet
         /\ Script[p].next \notin {"E2", "E4", "transfer", "block", "complete", "ret", "idle"}
<1>1. p \in {"CMD0", "CMD8", "inquire", "CMD2", "CMD9", "CMD10", "CMD13", "CMD7", "select", "width"}
  BY DEF Script
<1>2. QED
  BY <1>1 DEF Script, Quiet, CmdNames, AfterCMD55, Transfers

\* No transfer is on the line when nothing is.
LEMMA NoneIsNoTransfer == None.name \notin Transfers
BY DEF None, Transfers

\* The kinds of interrupt are distinct.
LEMMA NoDataFacts ==
  /\ NoData \in Dats /\ ~NoData.ready /\ NoData.left = 0
BY DEF NoData, Dats

-----------------------------------------------------------------------------
(* The driver outside sd_cmd and the loops over the blocks *)

\* A step between two places of sd_init, ensure_data_mode and the callers keeps the
\* invariant: no command is on its way, and none that the step sends is a transfer.
LEMMA PlaceStep ==
  ASSUME TransferInv, AnswerInv', HwType', DriverType',
         todo = << >>, pc # "block",
         todo' = << >> \/ phase' = "inhibit",
         todo' \in Quiet,
         pc' \notin {"transfer", "block", "complete"},
         pc' \in {"E2", "E4"} => todo' = <<"CMD13">>,
         pc' \in {"ret", "idle"} => todo' = << >>,
         c' = 0, pc' = "ret" => result' # "num",
         UNCHANGED <<card, data>>,
         line' = line \/ line' = None, dat' = dat \/ dat' = NoData, intr' = intr \/ intr' = {},
         late => late'
  PROVE  TransferInv'
<1>1. ~Polling /\ ~Polling'
  BY DEF Polling
<1>2. Places' /\ Answered'
  BY <1>1 DEF Places, Answered
<1>3. InTran'
  <2>1. line'.name \in Transfers => card'.state = "tran" /\ dat' = NoData
    BY NoneIsNoTransfer DEF TransferInv, InTran
  <2>2. todo' # << >> => todo' # << >> /\ pc' # "block"
    OBVIOUS
  <2>3. <<"CMD13">> # << >>
    OBVIOUS
  <2>4. QED
    BY <1>1, <2>1, <2>3 DEF InTran
<1>4. InStep'
  BY NoDataFacts DEF TransferInv, InStep, Moving
<1>5. Moves'
  BY DEF Moves
<1>6. Attended'
  <2>1. ~late => Calm
    BY <1>1 DEF TransferInv, Attended
  <2>2. Calm => Calm'
    BY DEF Calm, ErrorPending, MayFail
  <2>3. QED
    BY <1>1, <2>1, <2>2 DEF Attended
<1>7. QED
  BY <1>2, <1>3, <1>4, <1>5, <1>6 DEF TransferInv

\* Where sd_init returns to.
LEMMA InitReturns ==
  ASSUME DriverType, NEW code \in Codes, InitReturn(code)
  PROVE  /\ pc' \in {"mbr", "E1", "E3", "none", "ret"}
         /\ pc' = "ret" => result' # "num"
         /\ gret' \in BOOLEAN /\ result' \in Codes \cup {"none", "num", "E_DISKERR"}
<1>1. CASE then = "boot"
  BY <1>1 DEF InitReturn, DriverType
<1>2. CASE then # "boot"
  BY <1>2 DEF InitReturn, DriverType, Finish, Codes
<1>3. QED
  BY <1>1, <1>2

\* The steps of sd_init keep the invariant.
LEMMA InitPlaces ==
  ASSUME TransferInv,
         \/ sd_init_reset \/ sd_clk \/ sd_init_send \/ sd_init_inquired \/ sd_init_op_cond
         \/ sd_init_rel_addr \/ sd_init_check \/ sd_init_done
  PROVE  TransferInv'
<1>0. /\ HwType /\ DriverType /\ AnswerInv' /\ DriverAssumption /\ CardAssumption
      /\ "E_NOERR" \in Codes /\ "E_NOT_READY" \in Codes /\ "E_TIMEOUT" \in Codes
      /\ pc \notin {"block", "complete", "ret"} => c = 0
  BY InitStep, DriverAssumption, CardAssumption DEF TransferInv, Codes, Places
<1>1. CASE sd_init_reset
  <2>1. /\ todo = << >> /\ todo' = << >> /\ pc = "reset" /\ late' = late
        /\ UNCHANGED <<card, data, blkcnt, phase, err, then, tries, op, c, buffer>>
    BY <1>1 DEF sd_init_reset, At
  <2>2. /\ line' = line \/ line' = None
        /\ dat' = dat \/ dat' = NoData
        /\ intr' = intr \/ intr' = {}
    BY <1>1 DEF sd_init_reset
  <2>3. /\ pc' \in {"clk", "mbr", "E1", "E3", "none", "ret"}
        /\ pc' = "ret" => result' # "num"
        /\ gret' \in BOOLEAN /\ result' \in Codes \cup {"none", "num", "E_DISKERR"}
    <3>1. CASE pc' = "clk" /\ UNCHANGED <<result, gret>>
      BY <1>0, <3>1 DEF DriverType
    <3>2. CASE InitReturn("E_NOT_READY")
      BY <1>0, <3>2, InitReturns
    <3>3. QED
      BY <1>1, <3>1, <3>2 DEF sd_init_reset
  <2>4. rca' \in {0, 1, Rca, Junk}
    BY <1>1 DEF sd_init_reset
  <2>5. HwType'
    BY <1>0, <2>1, <2>2, NoDataFacts DEF HwType
  <2>6. DriverType'
    BY <1>0, <2>1, <2>3, <2>4 DEF DriverType
  <2>7. QED
    BY <1>0, <2>1, <2>2, <2>3, <2>5, <2>6, QuietSingles, PlaceStep
<1>2. CASE sd_clk
  <2>1. /\ todo = << >> /\ todo' = << >> /\ pc \in {"clk", "clk2"}
        /\ UNCHANGED <<card, data, intr, line, dat, blkcnt, phase, err, rca, then, tries, op, c, buffer>>
        /\ late => late'
    BY <1>2 DEF sd_clk, AfterClk, Expire
  <2>2. /\ pc' \in {"CMD0", "CMD7", "mbr", "E1", "E3", "none", "ret"}
        /\ pc' = "ret" => result' # "num"
        /\ gret' \in BOOLEAN /\ result' \in Codes \cup {"none", "num", "E_DISKERR"}
    <3>1. CASE pc' = AfterClk[pc] /\ UNCHANGED <<result, gret>>
      BY <1>0, <2>1, <3>1 DEF DriverType, AfterClk
    <3>2. CASE InitReturn("E_NOT_READY") \/ InitReturn("E_TIMEOUT")
      BY <1>0, <3>2, InitReturns
    <3>3. QED
      BY <1>2, <3>1, <3>2 DEF sd_clk
  <2>3. HwType' /\ DriverType'
    BY <1>0, <2>1, <2>2 DEF HwType, DriverType
  <2>4. QED
    BY <1>0, <2>1, <2>2, <2>3, QuietSingles, PlaceStep
<1>3. CASE sd_init_send
  <2>1. /\ todo = << >> /\ todo' = Script[pc].cmds /\ pc \in DOMAIN Script /\ pc' = Script[pc].next
        /\ phase' = "inhibit" /\ err' = "E_NOERR"
        /\ UNCHANGED <<hw, rca, then, tries, op, c, buffer, result, gret, late>>
    BY <1>3 DEF sd_init_send, Send
  <2>2. pc \notin {"block", "complete", "ret"}
    BY <2>1 DEF Script
  <2>3. HwType' /\ DriverType'
    BY <1>0, <2>1, ScriptFacts DEF HwType, DriverType, hw
  <2>4. QED
    BY <1>0, <2>1, <2>2, <2>3, ScriptFacts, PlaceStep DEF hw
<1>4. CASE sd_init_inquired
  <2>1. /\ todo = << >> /\ todo' = << >> /\ pc = "inquired"
        /\ UNCHANGED <<hw, phase, err, rca, then, op, c, buffer, late>>
    BY <1>4 DEF sd_init_inquired, At
  <2>2. /\ pc' \in {"op_cond", "mbr", "E1", "E3", "none", "ret"}
        /\ pc' = "ret" => result' # "num"
        /\ gret' \in BOOLEAN /\ result' \in Codes \cup {"none", "num", "E_DISKERR"}
        /\ tries' \in 0 .. Tries
    <3>1. CASE pc' = "op_cond" /\ UNCHANGED <<result, gret>> /\ tries' = Tries
      BY <1>0, <3>1 DEF DriverType, DriverAssumption
    <3>2. CASE InitReturn(err) /\ UNCHANGED tries
      BY <1>0, <3>2, InitReturns DEF DriverType
    <3>3. QED
      BY <1>4, <3>1, <3>2 DEF sd_init_inquired
  <2>3. HwType' /\ DriverType'
    BY <1>0, <2>1, <2>2 DEF HwType, DriverType, hw
  <2>4. QED
    BY <1>0, <2>1, <2>2, <2>3, QuietSingles, PlaceStep DEF hw
<1>5. CASE sd_init_op_cond
  <2>1. /\ todo = << >> /\ pc = "op_cond"
        /\ UNCHANGED <<hw, rca, then, op, c, buffer, late>>
    BY <1>5 DEF sd_init_op_cond, At
  <2>2. CASE /\ Send(<<"CMD55", "ACMD41">>, "op_cond") /\ tries # 0 /\ tries' = tries - 1
             /\ UNCHANGED <<result, gret>>
    <3>1. tries' \in 0 .. Tries
      BY <1>0, <2>2 DEF DriverType, DriverAssumption
    <3>2. HwType' /\ DriverType'
      BY <1>0, <2>1, <2>2, <3>1, QuietSingles DEF HwType, DriverType, hw, Send
    <3>3. QED
      BY <1>0, <2>1, <2>2, <3>2, QuietSingles, PlaceStep DEF hw, Send
  <2>3. CASE /\ \/ InitReturn("E_NOT_READY") \/ InitReturn("E_NOERR")
                \/ pc' = "CMD2" /\ UNCHANGED <<result, gret>>
             /\ UNCHANGED <<tries, todo, phase, err>>
    <3>1. /\ pc' \in {"CMD2", "mbr", "E1", "E3", "none", "ret"}
          /\ pc' = "ret" => result' # "num"
          /\ gret' \in BOOLEAN /\ result' \in Codes \cup {"none", "num", "E_DISKERR"}
      <4>1. CASE pc' = "CMD2" /\ UNCHANGED <<result, gret>>
        BY <1>0, <4>1 DEF DriverType
      <4>2. CASE InitReturn("E_NOT_READY") \/ InitReturn("E_NOERR")
        BY <1>0, <4>2, InitReturns
      <4>3. QED
        BY <2>3, <4>1, <4>2
    <3>2. HwType' /\ DriverType'
      BY <1>0, <2>1, <2>3, <3>1 DEF HwType, DriverType, hw
    <3>3. QED
      BY <1>0, <2>1, <2>3, <3>1, <3>2, QuietSingles, PlaceStep DEF hw
  <2>4. QED
    BY <1>5, <2>2, <2>3 DEF sd_init_op_cond
<1>6. CASE sd_init_rel_addr
  <2>1. /\ todo = << >> /\ pc = "CMD3" /\ todo' = <<"CMD3">> /\ phase' = "inhibit" /\ err' = "E_NOERR"
        /\ pc' = "addressed" /\ rca' = 1
        /\ UNCHANGED <<hw, then, tries, op, c, buffer, result, gret, late>>
    BY <1>6 DEF sd_init_rel_addr, At, Send
  <2>2. HwType' /\ DriverType'
    BY <1>0, <2>1, QuietSingles DEF HwType, DriverType, hw
  <2>3. QED
    BY <1>0, <2>1, <2>2, QuietSingles, PlaceStep DEF hw
<1>7. CASE sd_init_check
  <2>1. /\ todo = << >> /\ pc \in {"addressed", "standby", "selected"} /\ todo' = << >>
        /\ UNCHANGED <<hw, phase, err, then, tries, op, c, buffer, late>>
    BY <1>7 DEF sd_init_check, Expected
  <2>2. /\ pc' \in {"CMD9", "clk2", "width", "mbr", "E1", "E3", "none", "ret"}
        /\ pc' = "ret" => result' # "num"
        /\ gret' \in BOOLEAN /\ result' \in Codes \cup {"none", "num", "E_DISKERR"}
        /\ rca' \in {0, 1, Rca, Junk}
    <3>1. CASE pc' = Expected[pc].next /\ UNCHANGED <<result, gret>> /\ rca' \in {Rca, rca}
      BY <1>0, <2>1, <3>1 DEF DriverType, Expected
    <3>2. CASE InitReturn("E_NOT_READY") /\ UNCHANGED rca
      BY <1>0, <3>2, InitReturns DEF DriverType
    <3>3. QED
      BY <1>7, <3>1, <3>2 DEF sd_init_check
  <2>3. HwType' /\ DriverType'
    BY <1>0, <2>1, <2>2 DEF HwType, DriverType, hw
  <2>4. QED
    BY <1>0, <2>1, <2>2, <2>3, QuietSingles, PlaceStep DEF hw
<1>8. CASE sd_init_done
  <2>1. /\ todo = << >> /\ pc = "done" /\ todo' = << >> /\ InitReturn("E_NOERR")
        /\ UNCHANGED <<card, data, intr, line, dat, blkcnt, phase, err, rca, then, tries, op, c, buffer, late>>
    BY <1>8 DEF sd_init_done, At
  <2>2. /\ pc' \in {"mbr", "E1", "E3", "none", "ret"}
        /\ pc' = "ret" => result' # "num"
        /\ gret' \in BOOLEAN /\ result' \in Codes \cup {"none", "num", "E_DISKERR"}
    BY <1>0, <2>1, InitReturns
  <2>3. HwType' /\ DriverType'
    BY <1>0, <2>1, <2>2 DEF HwType, DriverType
  <2>4. QED
    BY <1>0, <2>1, <2>2, <2>3, QuietSingles, PlaceStep
<1>9. QED
  BY <1>1, <1>2, <1>3, <1>4, <1>5, <1>6, <1>7, <1>8

\* The steps of ensure_data_mode keep the invariant: it goes on to the transfer when the card
\* has said that it is in the transfer state, and nothing is on the line then.
LEMMA EnsurePlaces ==
  ASSUME TransferInv, ensure_rca \/ ensure_status \/ ensure_switch \/ ensure_check
  PROVE  TransferInv'
<1>0. /\ HwType /\ DriverType /\ AnswerInv'
      /\ pc \notin {"block", "complete", "ret"} => c = 0
  BY EnsureStep DEF TransferInv, Places
<1>1. ASSUME At("E2") \/ At("E4"), res = "tran", pc' = "transfer",
             UNCHANGED <<hw, todo, phase, err, then, rca, tries, op, c, buffer, gret, result, late>>
      PROVE  TransferInv'
  <2>1. /\ todo = << >> /\ todo' = << >> /\ pc \in {"E2", "E4"} /\ ~Polling /\ ~Polling'
        /\ UNCHANGED <<card, data, intr, line, dat, blkcnt, op, c, buffer, late>>
    BY <1>1 DEF At, hw, Polling
  <2>2. HwType' /\ DriverType'
    BY <1>0, <1>1 DEF HwType, DriverType, hw
  <2>3. Places' /\ Answered'
    BY <1>0, <1>1, <2>1, QuietSingles DEF Places, Answered
  <2>4. InTran'
    BY <1>1, <2>1 DEF TransferInv, InTran
  <2>5. InStep' /\ Moves'
    BY <1>1, <2>1 DEF TransferInv, InStep, Moving, Moves
  <2>6. Attended'
    BY <1>1, <2>1 DEF TransferInv, Attended, Calm, ErrorPending, MayFail
  <2>7. QED
    BY <1>0, <2>2, <2>3, <2>4, <2>5, <2>6 DEF TransferInv
<1>2. CASE ensure_rca
  <2>1. /\ todo = << >> /\ pc = "ensure" /\ todo' = << >> /\ pc' \in {"reset", "E1"}
        /\ then' \in {"E1", then}
        /\ UNCHANGED <<hw, phase, err, rca, tries, op, c, buffer, result, gret, late>>
    BY <1>2 DEF ensure_rca, At
  <2>2. HwType' /\ DriverType'
    BY <1>0, <2>1 DEF HwType, DriverType, hw
  <2>3. QED
    BY <1>0, <2>1, <2>2, QuietSingles, PlaceStep DEF hw
<1>3. CASE ensure_status
  <2>1. /\ todo = << >> /\ pc \in {"E1", "E3"} /\ todo' = <<"CMD13">> /\ pc' \in {"E2", "E4"}
        /\ phase' = "inhibit" /\ err' = "E_NOERR"
        /\ UNCHANGED <<hw, rca, then, tries, op, c, buffer, result, gret, late>>
    BY <1>3 DEF ensure_status, At, Send
  <2>2. HwType' /\ DriverType'
    BY <1>0, <2>1, QuietSingles DEF HwType, DriverType, hw, Codes
  <2>3. QED
    BY <1>0, <2>1, <2>2, QuietSingles, PlaceStep DEF hw
<1>4. CASE ensure_switch
  <2>1. /\ todo = << >> /\ pc = "E2"
        /\ UNCHANGED <<hw, rca, tries, op, c, buffer, result, gret, late>>
    BY <1>4 DEF ensure_switch, At
  <2>2. CASE res = "tran"
    BY <1>1, <1>4, <2>2 DEF ensure_switch
  <2>3. CASE (Send(<<"CMD7">>, "E3") \/ Send(<<"CMD12">>, "E3")) /\ UNCHANGED then
    <3>1. HwType' /\ DriverType'
      BY <1>0, <2>1, <2>3, QuietSingles DEF HwType, DriverType, hw, Codes, Send
    <3>2. QED
      BY <1>0, <2>1, <2>3, <3>1, QuietSingles, PlaceStep DEF hw, Send
  <2>4. CASE pc' = "reset" /\ then' = "E3" /\ UNCHANGED <<todo, phase, err>>
    <3>1. HwType' /\ DriverType'
      BY <1>0, <2>1, <2>4 DEF HwType, DriverType, hw
    <3>2. QED
      BY <1>0, <2>1, <2>4, <3>1, QuietSingles, PlaceStep DEF hw
  <2>5. QED
    BY <1>4, <2>2, <2>3, <2>4 DEF ensure_switch
<1>5. CASE ensure_check
  <2>1. CASE res = "tran"
    BY <1>1, <1>5, <2>1 DEF ensure_check
  <2>2. CASE res # "tran"
    <3>1. /\ todo = << >> /\ todo' = << >> /\ pc = "E4" /\ pc' = "ret" /\ result' = "E_NOT_READY"
          /\ UNCHANGED <<hw, phase, err, rca, then, tries, op, c, buffer, gret, late>>
      BY <1>5, <2>2 DEF ensure_check, At, Finish
    <3>2. HwType' /\ DriverType'
      BY <1>0, <3>1 DEF HwType, DriverType, hw, Codes
    <3>3. QED
      BY <1>0, <3>1, <3>2, QuietSingles, PlaceStep DEF hw
  <2>3. QED
    BY <2>1, <2>2
<1>6. QED
  BY <1>2, <1>3, <1>4, <1>5

\* The steps of the callers keep the invariant.
LEMMA ClientPlaces ==
  ASSUME TransferInv, Client
  PROVE  TransferInv'
<1>0. /\ HwType /\ DriverType /\ AnswerInv'
      /\ pc = "idle" => c = 0 /\ todo = << >>
  BY ClientStep DEF TransferInv, Places
<1>1. CASE shutdown
  <2>1. /\ pc = "idle" /\ todo' = <<"CMD0">> /\ pc' = "off" /\ phase' = "inhibit" /\ err' = "E_NOERR"
        /\ UNCHANGED <<hw, rca, then, tries, op, c, buffer, result, gret, late>>
    BY <1>1 DEF shutdown, Send
  <2>2. HwType' /\ DriverType'
    BY <1>0, <2>1, QuietSingles DEF HwType, DriverType, hw, Codes
  <2>3. QED
    BY <1>0, <2>1, <2>2, QuietSingles, PlaceStep DEF hw
<1>2. ASSUME NEW kind \in {"read", "write"}, NEW n \in 0 .. 2, NEW lba \in 0 .. (NumBlocks - 1),
             NEW aligned \in BOOLEAN, call(kind, n, lba, aligned)
      PROVE  TransferInv'
  <2>1. /\ pc = "idle" /\ pc' \in {"ensure", "wild"} /\ lba + n <= NumBlocks
        /\ UNCHANGED <<hw, todo, phase, err, rca, then, tries, c, buffer, result, gret, late>>
    BY <1>2 DEF call
  <2>2. op' \in Ops /\ op'.lba + op'.num <= NumBlocks
    <3> DEFINE k == IF n < 1 THEN 1 ELSE n
    <3>1. k \in 1 .. 2 /\ lba \in Nat /\ lba + k <= NumBlocks
      BY <2>1, CardAssumption DEF CardAssumption
    <3> HIDE DEF k
    <3>2. op' = op \/ op' = [kind |-> kind, num |-> k, lba |-> lba, aligned |-> aligned]
      BY <1>2 DEF call, k
    <3>3. QED
      BY <1>0, <3>1, <3>2 DEF DriverType, Ops
  <2>3. c' = 0 /\ c' \in 0 .. op'.num
    BY <1>0, <2>1, <2>2 DEF Ops
  <2>4. HwType' /\ DriverType'
    BY <1>0, <2>1, <2>2, <2>3 DEF HwType, DriverType, hw
  <2>5. QED
    BY <1>0, <2>1, <2>3, <2>4, QuietSingles, PlaceStep DEF hw
<1>3. QED
  BY <1>1, <1>2 DEF Client

\* The steps before and after the loop over the blocks keep the invariant: the transfer
\* command is sent when no other data transfer is in progress.
LEMMA TransferPlaces ==
  ASSUME TransferInv, mbr \/ transfer \/ complete \/ return
  PROVE  TransferInv'
<1>0. /\ HwType /\ DriverType /\ AnswerInv'
      /\ pc \notin {"block", "complete", "ret"} => c = 0
      /\ pc = "ret" => todo = << >>
  BY TransferStep DEF TransferInv, Places
<1>1. CASE mbr
  <2>1. /\ todo = << >> /\ pc = "mbr" /\ todo' = << >> /\ pc' = "ensure"
        /\ op' = [NoOp EXCEPT !.kind = "mbr"]
        /\ UNCHANGED <<hw, phase, err, rca, then, tries, c, buffer, result, gret, late>>
    BY <1>1 DEF mbr, At
  <2>a. op' = [kind |-> "mbr", num |-> 1, lba |-> 0, aligned |-> TRUE]
    BY <2>1 DEF NoOp
  <2>2. op' \in Ops /\ op'.lba + op'.num <= NumBlocks /\ c = 0 /\ c \in 0 .. op'.num
    <3>1. op' \in Ops /\ op'.lba = 0 /\ op'.num = 1
      BY <2>a DEF Ops
    <3>2. c = 0
      BY <1>0, <2>1
    <3>3. QED
      BY <3>1, <3>2, CardAssumption
  <2>3. HwType' /\ DriverType'
    BY <1>0, <2>1, <2>2 DEF HwType, DriverType, hw
  <2>4. QED
    BY <1>0, <2>1, <2>2, <2>3, QuietSingles, PlaceStep DEF hw
<1>2. CASE transfer
  <2>1. /\ todo = << >> /\ pc = "transfer" /\ ~Polling /\ c = 0
        /\ UNCHANGED <<card, data, intr, line, dat, rca, then, tries, op, c, buffer, gret>>
        /\ late => late'
    BY <1>0, <1>2 DEF transfer, At, Polling, Expire
  <2>2. CASE /\ dat = NoData /\ ~ErrorPending /\ blkcnt' = op.num
             /\ Send(<<TransferCmd>>, "block") /\ UNCHANGED <<late, result>>
    <3>1. /\ todo' = <<TransferCmd>> /\ phase' = "inhibit" /\ err' = "E_NOERR" /\ pc' = "block"
          /\ todo' # << >> /\ ~Polling' /\ TransferCmd' = TransferCmd
      BY <1>0, <2>1, <2>2, TransferQueue DEF Send, Polling, TransferCmd, Reading
    <3>2. op.num \in 1 .. 2
      BY <1>0 DEF DriverType, Ops
    <3>3. HwType' /\ DriverType'
      BY <1>0, <2>1, <2>2, <3>1, <3>2, TransferQueue DEF HwType, DriverType, Codes
    <3>4. Places' /\ Answered'
      BY <2>1, <3>1 DEF Places, Answered
    <3>5. InTran'
      BY <2>1, <2>2, <3>1, <3>2, NoneIsNoTransfer DEF TransferInv, InTran
    <3>6. InStep' /\ Moves'
      BY <2>1, <3>1 DEF TransferInv, InStep, Moving, Moves
    <3>7. Attended'
      BY <2>1, <2>2, <3>1 DEF TransferInv, Attended, Calm, ErrorPending, MayFail
    <3>8. QED
      BY <1>0, <3>3, <3>4, <3>5, <3>6, <3>7 DEF TransferInv
  <2>3. CASE Finish("E_TIMEOUT") /\ UNCHANGED <<blkcnt, todo, phase, err>>
    <3>1. HwType' /\ DriverType'
      BY <1>0, <2>1, <2>3 DEF HwType, DriverType, Finish, Codes
    <3>2. QED
      BY <1>0, <2>1, <2>3, <3>1, QuietSingles, PlaceStep DEF Finish
  <2>4. QED
    BY <1>2, <2>2, <2>3 DEF transfer
<1>3. CASE complete
  <2>1. /\ todo = << >> /\ todo' = << >> /\ pc = "complete" /\ pc' = "ret" /\ result' = "num"
        /\ UNCHANGED <<hw, phase, err, rca, then, tries, op, c, buffer, gret, late>>
        /\ ~Polling /\ ~Polling'
    BY <1>3 DEF complete, At, Finish, Polling
  <2>2. /\ UNCHANGED <<card, data, intr, line, dat, blkcnt>>
    BY <2>1 DEF hw
  <2>3. HwType' /\ DriverType'
    BY <1>0, <2>1, <2>2 DEF HwType, DriverType
  <2>4. Places' /\ Answered'
    BY <2>1, QuietSingles DEF TransferInv, Places, Answered
  <2>5. InTran' /\ InStep'
    BY <2>1, <2>2 DEF TransferInv, InTran, InStep, Moving
  <2>6. Moves'
    BY <2>1, <2>2 DEF TransferInv, Moves, Reading
  <2>7. Attended'
    BY <2>1, <2>2 DEF TransferInv, Attended, Calm, ErrorPending, MayFail
  <2>8. QED
    BY <1>0, <2>3, <2>4, <2>5, <2>6, <2>7 DEF TransferInv
<1>4. CASE return
  <2>1. /\ pc = "ret" /\ pc' = "idle" /\ op' = NoOp /\ c' = 0 /\ buffer' = EmptyBuffer
        /\ result' = "none" /\ then' = "none" /\ tries' = 0 /\ err' = "E_NOERR"
        /\ UNCHANGED <<hw, todo, phase, rca, gret, late>>
    BY <1>4 DEF return
  <2>2. /\ op' \in Ops /\ op'.lba + op'.num <= NumBlocks /\ c' \in 0 .. op'.num
        /\ buffer' \in [{0, 1, 4} -> Contents] /\ tries' \in 0 .. Tries
    BY <2>1, CardAssumption, DriverAssumption DEF NoOp, Ops, EmptyBuffer, Contents
  <2>3. HwType' /\ DriverType'
    BY <1>0, <2>1, <2>2 DEF HwType, DriverType, hw, Codes
  <2>4. QED
    BY <1>0, <2>1, <2>3, QuietSingles, PlaceStep DEF hw
<1>5. QED
  BY <1>1, <1>2, <1>3, <1>4

-----------------------------------------------------------------------------
(* sd_cmd *)

\* What sd_int leaves: after the bit no error was pending; after a failure no bit is set;
\* and unless the wait was given up, an error was pending or the hardware is at rest.
LEMMA IntFacts ==
  ASSUME NEW bit, NEW code \in Codes, sd_int(bit, code)
  PROVE  /\ late => late'
         /\ code = "E_NOERR" => bit \in intr /\ ~ErrorPending /\ intr' = intr \ {bit}
         /\ code # "E_NOERR" => intr' = {} /\ (~late' => ErrorPending \/ ~Working)
         /\ intr' \subseteq intr /\ ~ErrorPending'
<1>1. CASE ErrorPending /\ code # "E_NOERR" /\ intr' = {} /\ UNCHANGED late
  BY <1>1 DEF ErrorPending
<1>2. CASE ~ErrorPending /\ bit \in intr /\ code = "E_NOERR" /\ intr' = intr \ {bit} /\ UNCHANGED late
  BY <1>2 DEF ErrorPending
<1>3. CASE code = "E_TIMEOUT" /\ intr' = {} /\ Expire(Working \/ bit \in intr)
  BY <1>3 DEF ErrorPending, Expire
<1>4. QED
  BY <1>1, <1>2, <1>3 DEF sd_int

\* sd_cmd sends a transfer only in the transfer state and while no data are moved.
LEMMA SendCommand ==
  ASSUME TransferInv, sd_cmd_send
  PROVE  TransferInv'
<1>0. /\ HwType /\ DriverType /\ AnswerInv'
  BY CommandStep DEF TransferInv
<1>1. /\ todo # << >> /\ phase = "inhibit" /\ line = None /\ intr' = {} /\ phase' = "wait"
      /\ blkcnt' \in {1, blkcnt} /\ line'.name = Head(todo)
      /\ line' = [name |-> Head(todo), arg |-> Arg(Head(todo))]
      /\ UNCHANGED <<card, data, dat, pc, todo, err, rca, then, tries, op, c, buffer, result, gret, late>>
  BY DEF sd_cmd_send
<1>2. ~Polling
  BY <1>1 DEF Polling
<1>3. /\ Head(todo) \in CmdNames
      /\ pc # "block" => Head(todo) \notin Transfers
      /\ pc = "block" => Head(todo) = TransferCmd /\ TransferCmd \in Transfers
  <2>1. CASE pc = "block"
    BY <1>0, <1>1, <2>1, TransferQueue DEF TransferInv, Places, Transfers, CmdNames
  <2>2. CASE pc # "block"
    BY <1>1, <2>2, QuietQueues DEF TransferInv, Places
  <2>3. QED
    BY <2>1, <2>2
<1>4. Arg(Head(todo)) \in Nat /\ (Head(todo) \in Transfers => Arg(Head(todo)) = op.lba)
  BY <1>0, CardAssumption, DriverAssumption DEF Arg, DriverType, Ops, Transfers, Addressed
<1>5. HwType' /\ DriverType'
  <2>1. line' \in [name : CmdNames, arg : Nat] /\ blkcnt' \in 0 .. 2
    BY <1>0, <1>1, <1>3, <1>4 DEF HwType
  <2>2. QED
    BY <1>0, <1>1, <2>1 DEF HwType, DriverType
<1>6. Places' /\ Answered'
  BY <1>1 DEF TransferInv, Places, Answered, TransferCmd, Reading
<1>7. InTran'
  BY <1>1, <1>3 DEF TransferInv, InTran, Places
<1>8. InStep'
  <2>1. CASE pc = "block"
    <3>1. /\ dat = NoData /\ blkcnt \in 1 .. op.num /\ c = 0 /\ op.num \in 1 .. 2
      BY <1>0, <1>1, <2>1 DEF TransferInv, InTran, Places, DriverType, Ops
    <3>2. QED
      BY <1>1, <1>3, <1>4, <2>1, <3>1 DEF TransferInv, InStep, Moving
  <2>2. CASE pc # "block"
    BY <1>1, <2>2 DEF TransferInv, InStep, Moving
  <2>3. QED
    BY <2>1, <2>2
<1>9. Moves'
  BY <1>1 DEF TransferInv, Moves, Reading
<1>10. Attended'
  <2>1. ~late => ~MayFail
    BY <1>1, <1>2 DEF TransferInv, Attended, Calm
  <2>2. MayFail' = MayFail /\ ~ErrorPending' /\ Polling'
    BY <1>1 DEF MayFail, ErrorPending, Polling
  <2>3. QED
    BY <1>1, <2>1, <2>2 DEF Attended
<1>11. QED
  BY <1>0, <1>5, <1>6, <1>7, <1>8, <1>9, <1>10 DEF TransferInv

\* sd_cmd returns with nothing on the line unless it has given up.
LEMMA CommandDone ==
  ASSUME TransferInv, sd_cmd_done
  PROVE  TransferInv'
<1>0. /\ HwType /\ DriverType /\ AnswerInv'
  BY CommandStep DEF TransferInv
<1>1. PICK code \in Codes :
        /\ sd_int("CMD_DONE", code)
        /\ res' = IF code = "E_NOERR" THEN resp.r ELSE "idle"
        /\ err' = IF code = "E_NOERR" THEN err ELSE code
  BY DEF sd_cmd_done
<1>2. /\ todo # << >> /\ phase = "wait" /\ todo' = Tail(todo) /\ phase' = "inhibit"
      /\ UNCHANGED <<card, data, line, resp, dat, blkcnt, pc, rca, then, tries, op, c, buffer, result, gret>>
      /\ Polling /\ ~Polling'
  BY DEF sd_cmd_done, Polling
<1>3. /\ late => late'
      /\ code = "E_NOERR" => "CMD_DONE" \in intr /\ ~ErrorPending
      /\ code # "E_NOERR" => (~late' => ErrorPending \/ ~Working)
      /\ intr' \subseteq intr /\ ~ErrorPending'
  BY <1>1, IntFacts
<1>4. /\ pc = "block" => todo' = << >> /\ c = 0
      /\ pc # "block" => todo' \in Quiet
      /\ todo = <<"CMD13">> => todo' = << >>
  <2>1. CASE pc = "block"
    BY <1>0, <1>2, <2>1, TransferQueue DEF TransferInv, Places
  <2>2. CASE pc # "block"
    BY <1>2, <2>2, QuietQueues DEF TransferInv, Places
  <2>3. QED
    BY <1>2, <2>1, <2>2
<1>5. HwType' /\ DriverType'
  <2>1. err' \in Codes
    BY <1>0, <1>1 DEF DriverType
  <2>2. todo' \in Quiet
    BY <1>4, QuietSingles
  <2>3. QED
    BY <1>0, <1>2, <1>3, <2>1, <2>2 DEF HwType, DriverType
<1>6. Places' /\ Answered'
  BY <1>2, <1>4 DEF TransferInv, Places, Answered
<1>7. InTran'
  <2>1. ASSUME pc \in {"E2", "E4"}, res' = "tran"
        PROVE  card.state = "tran" /\ line = None
    <3>1. todo = <<"CMD13">>
      BY <1>2, <2>1 DEF TransferInv, Places
    <3>2. code = "E_NOERR" /\ resp.r = "tran"
      BY <1>1, <2>1
    <3>3. QED
      BY <1>2, <1>3, <3>1, <3>2 DEF TransferInv, InTran, Answered
  <2>2. QED
    BY <1>2, <1>4, <2>1 DEF TransferInv, InTran, Places
<1>8. InStep'
  BY <1>2, <1>3, <1>4 DEF TransferInv, InStep, Moving
<1>9. Moves'
  BY <1>2 DEF TransferInv, Moves, Reading
<1>10. Attended'
  <2> SUFFICES ASSUME ~late' PROVE /\ pc # "block" => Calm'
                                   /\ pc = "block" => line = None
    BY <1>0, <1>2, <1>3, <1>4 DEF Attended, DriverType, Ops
  <2>1. ~late
    BY <1>3
  <2>2. line = None
    BY <1>2, <1>3, <2>1 DEF TransferInv, Attended, Answered, Working
  <2>3. pc # "block" => ~MayFail
    BY <1>2, <2>1 DEF TransferInv, Attended
  <2>4. QED
    BY <1>2, <1>3, <2>2, <2>3 DEF Calm, MayFail
<1>11. QED
  BY <1>0, <1>5, <1>6, <1>7, <1>8, <1>9, <1>10 DEF TransferInv

-----------------------------------------------------------------------------
(* The loops over the blocks *)

\* A loop over the blocks that ends with an error leaves nothing behind that would set an
\* error bit later, unless a wait was given up.
LEMMA LoopEnds ==
  ASSUME TransferInv, AnswerInv', pc = "block", todo = << >>, todo' = << >>, pc' = "ret", result' # "num",
         result' \in Codes \cup {"E_DISKERR"}, err' \in Codes,
         intr' = {}, late => late', ~late' => ErrorPending \/ ~Working,
         UNCHANGED <<card, data, line, dat, blkcnt, phase, rca, then, tries, op, c, buffer, gret>>
  PROVE  TransferInv'
<1>0. HwType /\ DriverType /\ ~Polling /\ ~Polling'
  BY DEF TransferInv, Polling
<1>1. HwType' /\ DriverType'
  BY <1>0 DEF HwType, DriverType
<1>2. Places' /\ Answered'
  BY <1>0, QuietSingles DEF TransferInv, Places, Answered
<1>3. InTran' /\ InStep'
  BY <1>0 DEF TransferInv, InTran, InStep, Moving
<1>4. Moves'
  BY DEF TransferInv, Moves, Reading
<1>5. Attended'
  <2> SUFFICES ASSUME ~late' PROVE Calm'
    BY <1>0 DEF Attended
  <2>1. line = None /\ (ErrorPending => dat = NoData)
    BY DEF TransferInv, Attended
  <2>2. ~MayFail
    BY <2>1 DEF MayFail, Working
  <2>3. QED
    BY <2>1, <2>2 DEF Calm, MayFail, ErrorPending
<1>6. QED
  BY <1>1, <1>2, <1>3, <1>4, <1>5 DEF TransferInv

\* The driver stops counting when all blocks have been moved; several are ended by CMD12.
LEMMA LoopStops ==
  ASSUME TransferInv, AnswerInv', pc = "block", todo = << >>, c = op.num, Stop,
         intr' \subseteq intr, late' = late, ~late => Calm,
         UNCHANGED <<card, data, line, dat, blkcnt, rca, then, tries, op, c, buffer, gret, result>>
  PROVE  TransferInv'
<1>0. HwType /\ DriverType /\ ~Polling
  BY DEF TransferInv, Polling
<1>1. /\ pc' = "complete" /\ todo' \in Quiet /\ phase' \in {"inhibit", "wait"} /\ err' \in Codes
      /\ ~Polling'
  <2>1. CASE op.num > 1
    BY <2>1, QuietSingles DEF Stop, Send, Polling, Codes
  <2>2. CASE ~(op.num > 1)
    BY <1>0, <2>2, QuietSingles DEF Stop, Polling, DriverType
  <2>3. QED
    BY <2>1, <2>2
<1>2. HwType' /\ DriverType'
  BY <1>0, <1>1 DEF HwType, DriverType
<1>3. Places' /\ Answered'
  BY <1>0, <1>1 DEF TransferInv, Places, Answered
<1>4. InTran' /\ InStep'
  BY <1>0, <1>1 DEF TransferInv, InTran, InStep, Moving
<1>5. Moves'
  BY <1>1 DEF TransferInv, Moves, Reading
<1>6. Attended'
  BY <1>0, <1>1 DEF Attended, Calm, MayFail, ErrorPending
<1>7. QED
  BY <1>2, <1>3, <1>4, <1>5, <1>6 DEF TransferInv

\* A block that is ready is the next one of the call.
LEMMA BlockReady ==
  ASSUME TransferInv, pc = "block", todo = << >>, c < op.num, "READ_RDY" \in intr \/ "WRITE_RDY" \in intr
  PROVE  /\ dat.ready = TRUE /\ dat.left > 0 /\ dat # NoData /\ line = None
         /\ dat.block = op.lba + c /\ dat.block \in 0 .. (NumBlocks - 1)
         /\ dat.left + c <= op.num /\ "DATA_DONE" \notin intr
         /\ "READ_RDY" \in intr => dat.dir = "read" /\ "WRITE_RDY" \notin intr
         /\ "WRITE_RDY" \in intr => dat.dir = "write" /\ "READ_RDY" \notin intr
         /\ Moved \in Dats /\ Moved.block = dat.block + 1 /\ Moved.left = dat.left - 1
         /\ Moved.ready = FALSE /\ Moved.dir = dat.dir
<1>0. /\ dat \in Dats /\ op \in Ops /\ op.lba + op.num <= NumBlocks /\ c \in 0 .. op.num
      /\ NumBlocks \in Nat
  BY CardAssumption DEF TransferInv, HwType, DriverType
<1>1. dat.ready /\ dat.left > 0
  BY DEF TransferInv, InStep, Moving
<1>2. dat # NoData
  BY <1>1, NoDataFacts
<1>3. /\ dat.block = op.lba + c /\ dat.left + c <= op.num /\ "DATA_DONE" \notin intr
      /\ "READ_RDY" \in intr => dat.dir = "read" /\ "WRITE_RDY" \notin intr
      /\ "WRITE_RDY" \in intr => dat.dir = "write" /\ "READ_RDY" \notin intr
  BY <1>2 DEF TransferInv, InStep, Moving
<1>4. line = None
  BY <1>2 DEF TransferInv, InStep, Moving, InTran
<1>5. dat.block \in 0 .. (NumBlocks - 1)
  BY <1>0, <1>3 DEF Ops
<1>6. dat.ready = TRUE
  BY <1>0, <1>1 DEF Dats
<1>7. dat.left - 1 \in 0 .. 2 /\ dat.block + 1 \in Nat
  BY <1>0, <1>1 DEF Dats
<1>8. /\ Moved \in Dats /\ Moved.block = dat.block + 1 /\ Moved.left = dat.left - 1
      /\ Moved.ready = FALSE /\ Moved.dir = dat.dir
  BY <1>0, <1>7 DEF Moved, Dats
<1>9. QED
  BY <1>1, <1>2, <1>3, <1>4, <1>5, <1>6, <1>8

\* A block that is read goes to its place in the buffer.
LEMMA ReadBlock ==
  ASSUME TransferInv, read_block
  PROVE  TransferInv'
<1>0. /\ HwType /\ DriverType /\ AnswerInv'
  BY TransferStep DEF TransferInv
<1>1. /\ pc = "block" /\ todo = << >> /\ Reading /\ c < op.num
      /\ UNCHANGED <<card, data, line, blkcnt, todo, phase, rca, then, tries, op, gret>>
      /\ ~Polling /\ ~Polling'
  BY DEF read_block, At, Polling
<1>2. PICK code \in Codes :
        /\ sd_int("READ_RDY", code)
        /\ \/ /\ code = "E_NOERR"
              /\ buffer' = [buffer EXCEPT ![ReadSlot] = IF dat.ready THEN data[dat.block] ELSE <<"junk", 0>>]
              /\ dat' = IF dat.ready THEN Moved ELSE dat
              /\ c' = c + 1
              /\ UNCHANGED <<pc, result, err>>
           \/ code # "E_NOERR" /\ Finish("E_DISKERR") /\ err' = code /\ UNCHANGED <<buffer, dat, c>>
  BY DEF read_block
<1>3. CASE code # "E_NOERR"
  <2>1. intr' = {} /\ (late => late') /\ (~late' => ErrorPending \/ ~Working)
    BY <1>2, <1>3, IntFacts
  <2>2. /\ pc' = "ret" /\ result' = "E_DISKERR" /\ err' \in Codes /\ UNCHANGED <<buffer, dat, c>>
    BY <1>2, <1>3 DEF Finish
  <2>3. QED
    BY <1>0, <1>1, <2>1, <2>2, LoopEnds
<1>4. CASE code = "E_NOERR"
  <2>1. /\ late => late'
        /\ "READ_RDY" \in intr /\ intr' = intr \ {"READ_RDY"} /\ ~ErrorPending'
    BY <1>2, <1>4, IntFacts
  <2>2. /\ dat.ready = TRUE /\ dat.left > 0 /\ line = None
        /\ dat.block = op.lba + c /\ dat.block \in 0 .. (NumBlocks - 1)
        /\ dat.left + c <= op.num /\ "DATA_DONE" \notin intr
        /\ dat.dir = "read" /\ "WRITE_RDY" \notin intr
        /\ Moved \in Dats /\ Moved.block = dat.block + 1 /\ Moved.left = dat.left - 1
        /\ Moved.ready = FALSE /\ Moved.dir = "read"
    BY <1>1, <2>1, BlockReady
  <2>3. /\ buffer' = [buffer EXCEPT ![ReadSlot] = data[dat.block]]
        /\ dat' = Moved /\ c' = c + 1 /\ UNCHANGED <<pc, result, err>>
    BY <1>2, <1>4, <2>2
  <2>4. /\ c \in 0 .. op.num /\ op.num \in 1 .. 2 /\ op.lba \in Nat /\ dat.left \in 0 .. 2
        /\ c' \in 0 .. op.num
    BY <1>0, <1>1, <2>3 DEF DriverType, Ops, HwType, Dats
  <2>5. HwType' /\ DriverType'
    <3>1. data[dat.block] \in Contents
      BY <1>0, <2>2 DEF HwType
    <3>2. buffer' \in [{0, 1, 4} -> Contents]
      BY <1>0, <2>3, <3>1 DEF DriverType
    <3>3. HwType'
      BY <1>0, <1>1, <2>1, <2>2, <2>3 DEF HwType
    <3>4. QED
      BY <1>0, <1>1, <2>3, <2>4, <3>2, <3>3 DEF DriverType
  <2>6. Places' /\ Answered'
    BY <1>1, <2>3 DEF Places, Answered
  <2>7. InTran'
    BY <1>1, <2>2, <2>3, NoneIsNoTransfer DEF InTran
  <2>8. InStep'
    <3>1. dat'.block = op.lba + c' /\ dat'.left + c' <= op.num
      BY <2>2, <2>3, <2>4
    <3>2. "READ_RDY" \notin intr' /\ "WRITE_RDY" \notin intr' /\ "DATA_DONE" \notin intr'
      BY <2>1, <2>2
    <3>3. QED
      BY <1>1, <2>2, <2>3, <3>1, <3>2 DEF InStep, Moving
  <2>9. Moves'
    <3>1. ASSUME op.num = 1 \/ op.aligned, NEW i \in 0 .. (c' - 1)
          PROVE  buffer'[i] = data[op.lba + i]
      <4>1. ReadSlot = c /\ c \in {0, 1}
        BY <1>1, <2>4, <3>1 DEF ReadSlot
      <4>2. CASE i = c
        BY <1>0, <2>2, <2>3, <4>1, <4>2 DEF DriverType
      <4>3. CASE i # c
        <5>1. i \in 0 .. (c - 1)
          BY <2>3, <2>4, <4>3
        <5>2. buffer[i] = data[op.lba + i]
          BY <1>1, <3>1, <5>1 DEF TransferInv, Moves
        <5>3. QED
          BY <1>0, <2>3, <4>1, <4>3, <5>2 DEF DriverType
      <4>4. QED
        BY <4>2, <4>3
    <3>2. op.kind # "write"
      BY <1>1 DEF Reading
    <3>3. QED
      BY <1>1, <3>1, <3>2 DEF Moves
  <2>10. Attended'
    <3>1. c' = op.num => ~MayFail'
      BY <2>2, <2>3, <2>4 DEF MayFail
    <3>2. QED
      BY <1>1, <2>1, <2>2, <2>3, <3>1 DEF Attended
  <2>11. QED
    BY <1>0, <2>5, <2>6, <2>7, <2>8, <2>9, <2>10 DEF TransferInv
<1>5. QED
  BY <1>3, <1>4

\* A block that is written is stored in its place on the card.
LEMMA WriteBlock ==
  ASSUME TransferInv, write_block
  PROVE  TransferInv'
<1>0. /\ HwType /\ DriverType /\ AnswerInv'
  BY TransferStep DEF TransferInv
<1>1. /\ pc = "block" /\ todo = << >> /\ op.kind = "write" /\ c < op.num
      /\ UNCHANGED <<line, blkcnt, todo, phase, rca, then, tries, op, buffer, gret>>
      /\ ~Polling /\ ~Polling'
  BY DEF write_block, At, Polling
<1>2. PICK code \in Codes :
        /\ sd_int("WRITE_RDY", code)
        /\ \/ /\ code = "E_NOERR"
              /\ IF dat.ready
                 THEN /\ data' = [data EXCEPT ![dat.block] = <<"buffer", WriteSlot>>]
                      /\ dat' = Moved
                      /\ card' = IF dat.multi THEN card ELSE [card EXCEPT !.state = "prg"]
                 ELSE UNCHANGED <<data, dat, card>>
              /\ c' = c + 1
              /\ UNCHANGED <<pc, result, err>>
           \/ code # "E_NOERR" /\ Finish("E_DISKERR") /\ err' = code /\ UNCHANGED <<data, dat, card, c>>
  BY DEF write_block
<1>3. CASE code # "E_NOERR"
  <2>1. intr' = {} /\ (late => late') /\ (~late' => ErrorPending \/ ~Working)
    BY <1>2, <1>3, IntFacts
  <2>2. /\ pc' = "ret" /\ result' = "E_DISKERR" /\ err' \in Codes /\ UNCHANGED <<data, dat, card, c>>
    BY <1>2, <1>3 DEF Finish
  <2>3. QED
    BY <1>0, <1>1, <2>1, <2>2, LoopEnds
<1>4. CASE code = "E_NOERR"
  <2>1. /\ late => late'
        /\ "WRITE_RDY" \in intr /\ intr' = intr \ {"WRITE_RDY"} /\ ~ErrorPending'
    BY <1>2, <1>4, IntFacts
  <2>2. /\ dat.ready = TRUE /\ dat.left > 0 /\ line = None
        /\ dat.block = op.lba + c /\ dat.block \in 0 .. (NumBlocks - 1)
        /\ dat.left + c <= op.num /\ "DATA_DONE" \notin intr
        /\ "READ_RDY" \notin intr
        /\ Moved \in Dats /\ Moved.block = dat.block + 1 /\ Moved.left = dat.left - 1
        /\ Moved.ready = FALSE /\ Moved.dir = "write"
    BY <1>1, <2>1, BlockReady
  <2>3. /\ data' = [data EXCEPT ![dat.block] = <<"buffer", WriteSlot>>]
        /\ card' = card \/ card' = [card EXCEPT !.state = "prg"]
        /\ dat' = Moved /\ c' = c + 1 /\ UNCHANGED <<pc, result, err>>
    BY <1>2, <1>4, <2>2
  <2>4. /\ c \in 0 .. op.num /\ op.num \in 1 .. 2 /\ op.lba \in Nat /\ dat.left \in 0 .. 2
        /\ c' \in 0 .. op.num
    BY <1>0, <1>1, <2>3 DEF DriverType, Ops, HwType, Dats
  <2>5. HwType' /\ DriverType'
    <3>1. <<"buffer", WriteSlot>> \in Contents
      BY <2>4 DEF WriteSlot, Contents
    <3>2. data' \in [0 .. (NumBlocks - 1) -> Contents]
      BY <1>0, <2>3, <3>1 DEF HwType
    <3>3. card' \in Cards
      BY <1>0, <2>3 DEF HwType, Cards, CardStates, Selected
    <3>4. HwType'
      BY <1>0, <1>1, <2>1, <2>2, <2>3, <3>2, <3>3 DEF HwType
    <3>5. QED
      BY <1>0, <1>1, <2>3, <2>4, <3>4 DEF DriverType
  <2>6. Places' /\ Answered'
    BY <1>1, <2>3 DEF Places, Answered
  <2>7. InTran'
    BY <1>1, <2>2, <2>3, NoneIsNoTransfer DEF InTran
  <2>8. InStep'
    <3>1. dat'.block = op.lba + c' /\ dat'.left + c' <= op.num
      BY <2>2, <2>3, <2>4
    <3>2. "READ_RDY" \notin intr' /\ "WRITE_RDY" \notin intr' /\ "DATA_DONE" \notin intr'
      BY <2>1, <2>2
    <3>3. QED
      BY <1>1, <2>2, <2>3, <3>1, <3>2 DEF InStep, Moving
  <2>9. Moves'
    <3>1. ASSUME op.num = 1 \/ ~op.aligned, NEW i \in 0 .. (c' - 1)
          PROVE  data'[op.lba + i] = <<"buffer", i>>
      <4>1. WriteSlot = c /\ c \in {0, 1}
        BY <1>1, <2>4, <3>1 DEF WriteSlot
      <4>2. CASE i = c
        BY <1>0, <2>2, <2>3, <4>1, <4>2 DEF HwType
      <4>3. CASE i # c
        <5>1. i \in 0 .. (c - 1) /\ op.lba + i # dat.block
          BY <2>2, <2>3, <2>4, <4>3
        <5>2. data[op.lba + i] = <<"buffer", i>>
          BY <1>1, <3>1, <5>1 DEF TransferInv, Moves
        <5>3. op.lba + i \in 0 .. (NumBlocks - 1)
          BY <1>0, <2>2, <2>4, <5>1, CardAssumption
        <5>4. QED
          BY <1>0, <2>3, <5>1, <5>2, <5>3 DEF HwType
      <4>4. QED
        BY <4>2, <4>3
    <3>2. ~Reading'
      BY <1>1 DEF Reading
    <3>3. QED
      BY <1>1, <3>1, <3>2 DEF Moves
  <2>10. Attended'
    BY <1>1, <2>1, <2>2, <2>3 DEF Attended, Reading
  <2>11. QED
    BY <1>0, <2>5, <2>6, <2>7, <2>8, <2>9, <2>10 DEF TransferInv
<1>5. QED
  BY <1>3, <1>4

\* After the last block of a read nothing is left to fail; a write waits for the end of its data.
LEMMA LoopDone ==
  ASSUME TransferInv, read_end \/ write_end
  PROVE  TransferInv'
<1>0. AnswerInv' /\ DriverType
  BY TransferStep DEF TransferInv
<1>1. CASE read_end
  <2>1. /\ pc = "block" /\ todo = << >> /\ Reading /\ c = op.num /\ Stop
        /\ UNCHANGED <<card, data, line, dat, intr, blkcnt, rca, then, tries, op, c, buffer, gret, result, late>>
    BY <1>1 DEF read_end, At, hw
  <2>2. ~late => Calm
    BY <2>1 DEF TransferInv, Attended, Calm
  <2>3. QED
    BY <1>0, <2>1, <2>2, LoopStops
<1>2. CASE write_end
  <2>1. /\ pc = "block" /\ todo = << >> /\ op.kind = "write" /\ c = op.num
        /\ UNCHANGED <<card, data, line, dat, blkcnt, rca, then, tries, op, c, buffer, gret>>
    BY <1>2 DEF write_end, At
  <2>2. PICK code \in Codes :
          /\ sd_int("DATA_DONE", code)
          /\ \/ code = "E_NOERR" /\ Stop /\ UNCHANGED result
             \/ code # "E_NOERR" /\ Finish("E_TIMEOUT") /\ UNCHANGED <<todo, phase, err>>
    BY <1>2 DEF write_end
  <2>3. CASE code = "E_NOERR"
    <3>1. "DATA_DONE" \in intr /\ ~ErrorPending /\ intr' \subseteq intr
      BY <2>2, <2>3, IntFacts
    <3>2. late' = late
      BY <2>2, <2>3 DEF sd_int
    <3>3. Calm
      BY <2>1, <3>1 DEF TransferInv, InStep, Moving, Calm, MayFail
    <3>4. QED
      BY <1>0, <2>1, <2>2, <2>3, <3>1, <3>2, <3>3, LoopStops
  <2>4. CASE code # "E_NOERR"
    <3>1. intr' = {} /\ (late => late') /\ (~late' => ErrorPending \/ ~Working)
      BY <2>2, <2>4, IntFacts
    <3>2. /\ pc' = "ret" /\ result' = "E_TIMEOUT" /\ err' \in Codes /\ todo' = << >>
          /\ UNCHANGED phase
      BY <1>0, <2>1, <2>2, <2>4 DEF Finish, DriverType
    <3>3. "E_TIMEOUT" \in Codes
      BY DEF Codes
    <3>4. QED
      BY <1>0, <2>1, <3>1, <3>2, <3>3, LoopEnds
  <2>5. QED
    BY <2>3, <2>4
<1>3. QED
  BY <1>1, <1>2

-----------------------------------------------------------------------------
(* The hardware *)

\* What the card makes of a command.
LEMMA Executes ==
  ASSUME HwType, line # None, Execute(line)
  PROVE  /\ card' \in Cards /\ dat' \in Dats
         /\ line.name = "CMD13" => card'.state = card.state
         /\ \/ dat' = dat \/ dat' = NoData
            \/ /\ line.name \in Transfers /\ dat'.dir \in {"read", "write"} /\ dat'.block = line.arg
               /\ dat'.left = blkcnt /\ dat'.ready = FALSE
<1>0. /\ card \in Cards /\ dat \in Dats /\ line \in [name : CmdNames, arg : Nat] /\ blkcnt \in 0 .. 2
  BY DEF HwType
<1>1. card' \in Cards /\ (line.name = "CMD13" => card'.state = card.state)
  <2>1. StateAfter(line.name) \in CardStates /\ (line.name = "CMD13" => StateAfter(line.name) = card.state)
    BY <1>0 DEF StateAfter, CardStates, Selected, Cards
  <2> DEFINE r == CASE line.name = "CMD0" -> 0 [] line.name = "CMD3" -> Rca [] OTHER -> card.rca
             a == line.name = "CMD55"
             w == line.name = "ACMD6" \/ (line.name # "CMD0" /\ card.wide)
  <2>2. r \in {0, Rca} /\ a \in BOOLEAN /\ w \in BOOLEAN
    BY <1>0 DEF Cards
  <2>3. card' = [state |-> StateAfter(line.name), rca |-> r, app |-> a, wide |-> w]
    BY DEF Execute
  <2> HIDE DEF r, a, w
  <2>4. QED
    BY <2>1, <2>2, <2>3 DEF Cards
<1>2. CASE line.name = "CMD12"
  BY <1>1, <1>2, NoDataFacts DEF Execute, Transfers
<1>3. CASE line.name \in Transfers /\ ~(strict /\ line.name = "CMD25")
  <2> DEFINE d == IF line.name \in {"CMD17", "CMD18"} THEN "read" ELSE "write"
             m == line.name \in {"CMD18", "CMD25"}
  <2>1. d \in {"read", "write"} /\ m \in BOOLEAN /\ line.name # "CMD12"
    BY <1>3 DEF Transfers
  <2>2. dat' = [dir |-> d, block |-> line.arg, left |-> blkcnt, ready |-> FALSE, multi |-> m]
    BY <1>3, <2>1 DEF Execute
  <2> HIDE DEF d, m
  <2>3. QED
    BY <1>0, <1>1, <1>3, <2>1, <2>2 DEF Dats
<1>4. CASE line.name # "CMD12" /\ ~(line.name \in Transfers /\ ~(strict /\ line.name = "CMD25"))
  BY <1>0, <1>1, <1>4 DEF Execute
<1>5. QED
  BY <1>2, <1>3, <1>4

\* A command that leaves the line keeps the invariant: while the driver moves blocks only its
\* own transfer can have been there, and elsewhere no transfer.
LEMMA CommandTaken ==
  ASSUME TransferInv, AnswerInv', UNCHANGED driver, UNCHANGED <<data, blkcnt>>,
         line # None, line' = None, card' \in Cards,
         NEW x \in Errors \cup {"CMD_DONE"}, intr' = intr \cup {x},
         x = "CMD_DONE" /\ line.name = "CMD13" /\ resp'.r = "tran" => card'.state = "tran",
         \/ dat' = dat \/ dat' = NoData
         \/ /\ line.name \in Transfers /\ dat'.dir \in {"read", "write"} /\ dat'.block = line.arg
            /\ dat'.left = blkcnt /\ dat'.ready = FALSE /\ dat' \in Dats
  PROVE  TransferInv'
<1>0. /\ HwType /\ DriverType /\ AnswerInv
  BY DEF TransferInv
<1>1. /\ UNCHANGED <<pc, todo, phase, res, err, rca, then, tries, op, c, buffer, result, gret, late>>
      /\ Polling' = Polling /\ Moving' = Moving /\ TransferCmd' = TransferCmd /\ Reading' = Reading
  BY DEF driver, Polling, Moving, TransferCmd, Reading
<1>2. Polling => line.name = Head(todo) /\ "CMD_DONE" \notin intr
  BY <1>0 DEF AnswerInv, LineMatches, TransferInv, Answered
<1>3. HwType' /\ DriverType'
  <2>1. dat' \in Dats
    BY <1>0, NoDataFacts DEF HwType
  <2>2. intr' \subseteq Errors \cup {"CMD_DONE", "READ_RDY", "WRITE_RDY", "DATA_DONE"}
    BY <1>0 DEF HwType
  <2>3. HwType'
    BY <1>0, <2>1, <2>2 DEF HwType
  <2>4. QED
    BY <1>0, <1>1, <2>3 DEF DriverType
<1>4. Places' /\ Answered'
  BY <1>1 DEF TransferInv, Places, Answered
<1>5. InTran'
  <2>1. ASSUME Polling, "CMD_DONE" \in intr', todo = <<"CMD13">>, resp'.r = "tran"
        PROVE  card'.state = "tran"
    BY <1>2, <2>1
  <2>2. QED
    BY <1>1, <2>1, NoneIsNoTransfer DEF TransferInv, InTran
<1>6. InStep'
  <2>1. (dat'.ready => dat'.left > 0) /\ (dat'.left > 0 => dat'.dir \in {"read", "write"})
    BY NoDataFacts DEF TransferInv, InStep
  <2>2. ASSUME Moving
        PROVE  /\ dat' # NoData => dat'.block = op.lba + c /\ dat'.left + c <= op.num
               /\ "READ_RDY" \notin intr' /\ "WRITE_RDY" \notin intr' /\ "DATA_DONE" \notin intr'
    <3>1. /\ line.name \in Transfers /\ line.arg = op.lba /\ blkcnt \in 1 .. op.num /\ c = 0
          /\ dat = NoData /\ op.num \in 1 .. 2 /\ op.lba \in Nat
      BY <1>0, <2>2 DEF TransferInv, InStep, InTran, DriverType, Ops
    <3>2. "READ_RDY" \notin intr /\ "WRITE_RDY" \notin intr /\ "DATA_DONE" \notin intr
      BY <2>2, <3>1, NoDataFacts DEF TransferInv, InStep
    <3>3. dat' # NoData => dat'.block = op.lba /\ dat'.left = blkcnt
      BY <3>1
    <3>4. QED
      BY <3>1, <3>2, <3>3 DEF Errors
  <2>3. QED
    BY <1>1, <2>1, <2>2 DEF InStep
<1>7. Moves'
  BY <1>1 DEF TransferInv, Moves
<1>8. Attended'
  <2> SUFFICES ASSUME ~late PROVE Polling /\ (pc # "block" => ~MayFail')
    BY <1>1 DEF Attended, Polling
  <2>1. Polling
    BY DEF TransferInv, Attended, Calm
  <2>2. ASSUME pc # "block" PROVE ~MayFail'
    <3>1. line.name \notin Transfers
      BY <1>2, <2>1, <2>2, QuietQueues DEF TransferInv, Places, Polling
    <3>2. ~MayFail
      BY <2>1, <2>2 DEF TransferInv, Attended
    <3>3. QED
      BY <3>1, <3>2 DEF MayFail
  <2>3. QED
    BY <2>1, <2>2
<1>9. QED
  BY <1>3, <1>4, <1>5, <1>6, <1>7, <1>8 DEF TransferInv

\* The steps that take a command off the line.
LEMMA LineSteps ==
  ASSUME TransferInv, UNCHANGED driver,
         \/ respond
         \/ \E e \in Errors, heard \in BOOLEAN : lose(heard, e)
         \/ \E r \in {"busy", "novolt"} : power_up(r)
  PROVE  TransferInv'
<1>0. /\ HwType /\ card \in Cards
      /\ Hardware /\ AnswerInv'
  <2>1. Hardware
    BY DEF Hardware
  <2>2. QED
    BY <2>1, HardwareStep DEF TransferInv, HwType
<1>1. CASE respond
  <2>1. /\ line # None /\ line' = None /\ UNCHANGED <<data, blkcnt>>
    BY <1>1 DEF respond
  <2>2. CASE Accepts(line)
    <3>1. /\ Execute(line) /\ intr' = intr \cup {"CMD_DONE"}
          /\ line.name = "CMD13" => resp'.r = card.state
      BY <1>1, <2>2 DEF respond
    <3>2. QED
      BY <1>0, <2>1, <3>1, Executes, CommandTaken
  <2>3. CASE ~Accepts(line)
    <3>1. /\ card' = [card EXCEPT !.app = FALSE] /\ dat' = dat
          /\ intr' = intr \cup {"CMD_DONE"} \/ intr' = intr \cup {"TIMEOUT"}
          /\ line.name = "CMD13" => intr' = intr \cup {"TIMEOUT"}
      BY <1>1, <2>3 DEF respond, Silent
    <3>2. card' \in Cards
      BY <1>0, <3>1 DEF Cards
    <3>3. "TIMEOUT" \in Errors
      BY DEF Errors
    <3>4. CASE intr' = intr \cup {"TIMEOUT"}
      BY <1>0, <2>1, <3>1, <3>2, <3>3, <3>4, CommandTaken
    <3>5. CASE intr' = intr \cup {"CMD_DONE"} /\ line.name # "CMD13"
      BY <1>0, <2>1, <3>1, <3>2, <3>5, CommandTaken
    <3>6. QED
      BY <3>1, <3>4, <3>5
  <2>4. QED
    BY <2>2, <2>3
<1>2. ASSUME NEW e \in Errors, NEW heard \in BOOLEAN, lose(heard, e)
      PROVE  TransferInv'
  <2>1. /\ line # None /\ line' = None /\ UNCHANGED <<data, blkcnt>>
    BY <1>2 DEF lose
  <2>2. Execute(line) \/ UNCHANGED <<card, dat>>
    BY <1>2 DEF lose
  <2>3. /\ card' \in Cards
        /\ \/ dat' = dat \/ dat' = NoData
           \/ /\ line.name \in Transfers /\ dat'.dir \in {"read", "write"} /\ dat'.block = line.arg
              /\ dat'.left = blkcnt /\ dat'.ready = FALSE /\ dat' \in Dats
    BY <1>0, <2>1, <2>2, Executes
  <2>4. CASE intr' = intr \cup {e}
    <3>1. e # "CMD_DONE"
      BY DEF Errors
    <3>2. QED
      BY <1>0, <2>1, <2>3, <2>4, <3>1, CommandTaken
  <2>5. CASE intr' = intr \cup {"CMD_DONE"} /\ line.name # "CMD13"
    BY <1>0, <2>1, <2>3, <2>5, CommandTaken
  <2>6. QED
    BY <1>2, <2>4, <2>5 DEF lose, Silent
<1>3. ASSUME NEW r \in {"busy", "novolt"}, power_up(r)
      PROVE  TransferInv'
  <2>1. /\ line # None /\ line' = None /\ UNCHANGED <<data, blkcnt, dat>> /\ line.name # "CMD13"
        /\ intr' = intr \cup {"CMD_DONE"}
    BY <1>3 DEF power_up, None
  <2>2. card' \in Cards
    <3> DEFINE st == IF r = "busy" THEN "idle" ELSE "ready"
    <3>1. st \in CardStates
      BY DEF CardStates
    <3>2. card' = [card EXCEPT !.app = FALSE, !.state = st]
      BY <1>3 DEF power_up
    <3> HIDE DEF st
    <3>3. QED
      BY <1>0, <3>1, <3>2 DEF Cards
  <2>3. QED
    BY <1>0, <2>1, <2>2, CommandTaken
<1>4. QED
  BY <1>1, <1>2, <1>3

\* A step of the data transfer, or of the card storing what it received, keeps the invariant: the
\* card does not leave the transfer state by itself.
LEMMA DataSteps ==
  ASSUME TransferInv, UNCHANGED driver,
         data_ready \/ data_done \/ programmed \/ \E e \in Errors : data_error(e)
  PROVE  TransferInv'
<1>0. /\ HwType /\ DriverType /\ card \in Cards /\ dat \in Dats /\ Hardware /\ AnswerInv'
      /\ dat.ready \in BOOLEAN /\ dat.left \in 0 .. 2
  <2>1. Hardware
    BY DEF Hardware
  <2>2. QED
    BY <2>1, HardwareStep DEF TransferInv, HwType, Dats
<1>1. /\ UNCHANGED <<pc, todo, phase, res, err, rca, then, tries, op, c, buffer, result, gret, late>>
      /\ Polling' = Polling /\ Moving' = Moving /\ TransferCmd' = TransferCmd /\ Reading' = Reading
  BY DEF driver, Polling, Moving, TransferCmd, Reading
<1>2. /\ UNCHANGED <<data, line, resp, blkcnt>>
      /\ "CMD_DONE" \in intr' => "CMD_DONE" \in intr
  BY DEF data_ready, data_done, programmed, data_error, Errors
<1>3. /\ card' \in Cards /\ (card.state = "tran" => card'.state = "tran")
  <2>1. card' = card \/ card' = [card EXCEPT !.state = "tran"]
    BY DEF data_ready, data_done, programmed, data_error
  <2>2. QED
    BY <1>0, <2>1 DEF Cards, CardStates, Selected
<1>4. DriverType' /\ Places' /\ Answered' /\ Moves'
  BY <1>0, <1>1, <1>2 DEF TransferInv, DriverType, Places, Answered, Moves
<1>5. ASSUME dat' \in Dats,
             intr' \subseteq Errors \cup {"CMD_DONE", "READ_RDY", "WRITE_RDY", "DATA_DONE"},
             dat = NoData => dat' = NoData,
             InStep', Attended'
      PROVE  TransferInv'
  <2>1. HwType'
    BY <1>0, <1>2, <1>3, <1>5 DEF HwType
  <2>2. InTran'
    BY <1>1, <1>2, <1>3, <1>5 DEF TransferInv, InTran
  <2>3. QED
    BY <1>0, <1>4, <1>5, <2>1, <2>2 DEF TransferInv
<1>6. /\ Moving /\ dat # NoData => line = None /\ "DATA_DONE" \notin intr
      /\ Moving /\ ~dat.ready => "READ_RDY" \notin intr /\ "WRITE_RDY" \notin intr
  BY DEF TransferInv, InStep, InTran
<1>7. CASE data_ready
  <2> DEFINE bit == IF dat.dir = "read" THEN "READ_RDY" ELSE "WRITE_RDY"
  <2>1. /\ dat.left > 0 /\ ~dat.ready /\ dat' = [dat EXCEPT !.ready = TRUE] /\ intr' = intr \cup {bit}
    BY <1>7 DEF data_ready
  <2>2. dat.dir \in {"read", "write"} /\ dat # NoData
    BY <2>1, NoDataFacts DEF TransferInv, InStep
  <2>3. /\ bit \in {"READ_RDY", "WRITE_RDY"}
        /\ bit = "READ_RDY" => dat.dir = "read"
        /\ bit = "WRITE_RDY" => dat.dir = "write"
    BY <2>2
  <2> HIDE DEF bit
  <2>4. /\ dat' \in Dats /\ dat'.ready = TRUE /\ dat'.left = dat.left /\ dat'.block = dat.block
        /\ dat'.dir = dat.dir
    BY <1>0, <2>1 DEF Dats
  <2>5. intr' \subseteq Errors \cup {"CMD_DONE", "READ_RDY", "WRITE_RDY", "DATA_DONE"}
    BY <1>0, <2>1, <2>3 DEF HwType
  <2>6. InStep'
    <3>1. ASSUME Moving
          PROVE  /\ line = None /\ dat'.block = op.lba + c /\ dat'.left + c <= op.num
                 /\ "READ_RDY" \in intr' => dat'.dir = "read"
                 /\ "WRITE_RDY" \in intr' => dat'.dir = "write"
                 /\ "DATA_DONE" \notin intr'
      BY <1>6, <2>1, <2>2, <2>3, <2>4, <3>1 DEF TransferInv, InStep
    <3>2. QED
      BY <1>1, <1>2, <2>1, <2>2, <2>4, <3>1 DEF InStep
  <2>7. Attended'
    <3>1. ~MayFail' /\ ErrorPending' = ErrorPending
      BY <2>1, <2>3, <2>4 DEF MayFail, ErrorPending, Errors
    <3>2. QED
      BY <1>1, <1>2, <2>2, <3>1 DEF TransferInv, Attended, Calm
  <2>8. QED
    BY <1>5, <2>2, <2>4, <2>5, <2>6, <2>7
<1>8. CASE data_done
  <2>1. /\ dat # NoData /\ dat.left = 0 /\ dat' = NoData /\ intr' = intr \cup {"DATA_DONE"}
    BY <1>8 DEF data_done
  <2>2. ~dat.ready
    BY <2>1 DEF TransferInv, InStep
  <2>3. intr' \subseteq Errors \cup {"CMD_DONE", "READ_RDY", "WRITE_RDY", "DATA_DONE"} /\ dat' \in Dats
    BY <1>0, <2>1, NoDataFacts DEF HwType
  <2>4. InStep'
    BY <1>1, <1>2, <1>6, <2>1, <2>2, NoDataFacts DEF TransferInv, InStep
  <2>5. Attended'
    <3>1. ~MayFail' /\ ErrorPending' = ErrorPending
      BY <2>1 DEF MayFail, ErrorPending, Errors
    <3>2. QED
      BY <1>1, <1>2, <2>1, <3>1 DEF TransferInv, Attended, Calm
  <2>6. QED
    BY <1>5, <2>1, <2>3, <2>4, <2>5
<1>9. CASE programmed
  <2>1. UNCHANGED <<dat, intr>>
    BY <1>9 DEF programmed
  <2>2. InStep'
    BY <1>1, <1>2, <2>1 DEF TransferInv, InStep
  <2>3. Attended'
    <3>1. MayFail' = MayFail /\ ErrorPending' = ErrorPending
      BY <2>1 DEF MayFail, ErrorPending
    <3>2. QED
      BY <1>1, <1>2, <2>1, <3>1 DEF TransferInv, Attended, Calm
  <2>4. QED
    BY <1>0, <1>5, <2>1, <2>2, <2>3 DEF HwType
<1>10. ASSUME NEW e \in Errors, data_error(e)
       PROVE  TransferInv'
  <2>1. MayFail /\ dat # NoData /\ ~dat.ready /\ dat' = NoData /\ intr' = intr \cup {e}
    BY <1>10 DEF data_error, MayFail
  <2>2. intr' \subseteq Errors \cup {"CMD_DONE", "READ_RDY", "WRITE_RDY", "DATA_DONE"} /\ dat' \in Dats
    BY <1>0, <2>1, NoDataFacts DEF HwType
  <2>3. InStep'
    BY <1>1, <1>2, <1>6, <2>1, NoDataFacts DEF TransferInv, InStep, Errors
  <2>4. Attended'
    <3>1. ~MayFail'
      BY <2>1 DEF MayFail
    <3>2. ~late => (Polling => line = None) /\ (Polling \/ (pc = "block" /\ todo = << >>))
                   /\ (pc = "block" /\ todo = << >> => line = None /\ ~(Reading /\ c = op.num))
      BY <2>1 DEF TransferInv, Attended, Calm
    <3>3. QED
      BY <1>1, <1>2, <2>1, <3>1, <3>2 DEF Attended
  <2>5. QED
    BY <1>5, <2>1, <2>2, <2>3, <2>4
<1>11. QED
  BY <1>7, <1>8, <1>9, <1>10

-----------------------------------------------------------------------------
(* The theorems *)

\* TransferInv holds in every reachable state.
THEOREM TransferInvariant == Spec => []TransferInv
<1>1. Init => TransferInv
  <2> SUFFICES ASSUME Init PROVE TransferInv
    OBVIOUS
  <2>1. HwType
    <3>1. card \in Cards
      BY DEF Init, HwInit, Cards, CardStates
    <3>2. data \in [0 .. (NumBlocks - 1) -> Contents]
      BY DEF Init, HwInit, Contents
    <3>3. QED
      BY <3>1, <3>2, NoDataFacts DEF Init, HwInit, HwType
  <2>2. DriverType
    <3>1. op \in Ops /\ op.lba + op.num <= NumBlocks /\ c \in 0 .. op.num
      BY CardAssumption DEF Init, NoOp, Ops
    <3>2. buffer \in [{0, 1, 4} -> Contents]
      BY DEF Init, EmptyBuffer, Contents
    <3>3. todo \in Quiet \cup {<<n>> : n \in Transfers}
      BY QuietSingles DEF Init
    <3>4. /\ phase \in {"inhibit", "wait"} /\ rca \in {0, 1, Rca, Junk}
          /\ then \in {"boot", "E1", "E3", "none"} /\ gret \in BOOLEAN
      BY DEF Init
    <3>a. tries \in 0 .. Tries
      <4>1. tries = 0
        BY DEF Init
      <4>2. QED
        BY <4>1, DriverAssumption
    <3>5. err \in Codes /\ result \in Codes \cup {"none", "num", "E_DISKERR"}
      BY DEF Init, Codes
    <3>6. QED
      BY <3>1, <3>2, <3>3, <3>4, <3>5, <3>a DEF DriverType
  <2>3. AnswerInv /\ ~Polling /\ todo = << >>
    BY DEF Init, AnswerInv, LineMatches, AnswersMatch, Polling
  <2>4. Places /\ Answered /\ Moves
    BY <2>3, QuietSingles DEF Init, Places, Answered, Moves
  <2>5. InTran /\ InStep
    BY <2>3, NoneIsNoTransfer, NoDataFacts DEF Init, HwInit, InTran, InStep, Moving
  <2>6. Attended
    BY <2>3 DEF Init, HwInit, Attended, Calm, ErrorPending, MayFail
  <2>7. QED
    BY <2>1, <2>2, <2>3, <2>4, <2>5, <2>6 DEF TransferInv
<1>2. TransferInv /\ [Next]_vars => TransferInv'
  <2> SUFFICES ASSUME TransferInv, [Next]_vars PROVE TransferInv'
    OBVIOUS
  <2>1. CASE Driver
    BY <2>1, SendCommand, CommandDone, InitPlaces, EnsurePlaces, TransferPlaces, ReadBlock, WriteBlock,
       LoopDone DEF Driver
  <2>2. CASE Client
    BY <2>2, ClientPlaces
  <2>3. CASE Hardware /\ UNCHANGED driver
    BY <2>3, LineSteps, DataSteps DEF Hardware
  <2>4. CASE UNCHANGED vars
    <3>1. UNCHANGED hw /\ UNCHANGED driver
      BY <2>4 DEF vars
    <3>2. UNCHANGED <<card, data, intr, line, resp, dat, blkcnt>>
      BY <3>1 DEF hw
    <3>3. UNCHANGED <<pc, todo, phase, res, err, rca, then, tries, op, c, buffer, result, gret, late>>
      BY <3>1 DEF driver
    <3>4. AnswerInv'
      BY <3>2, <3>3, QuietStep DEF TransferInv
    <3>5. HwType' /\ DriverType'
      BY <3>2, <3>3 DEF TransferInv, HwType, DriverType
    <3>6. Places' /\ Answered'
      BY <3>2, <3>3 DEF TransferInv, Places, Answered, Polling, TransferCmd, Reading
    <3>7. InTran' /\ InStep' /\ Moves'
      BY <3>2, <3>3 DEF TransferInv, InTran, InStep, Moves, Polling, Moving, Reading
    <3>8. Attended'
      BY <3>2, <3>3 DEF TransferInv, Attended, Polling, Calm, ErrorPending, MayFail, Reading
    <3>9. QED
      BY <3>4, <3>5, <3>6, <3>7, <3>8 DEF TransferInv
  <2>5. QED
    BY <2>1, <2>2, <2>3, <2>4 DEF Next
<1>3. QED
  BY <1>1, <1>2, PTL DEF Spec

\* A transfer command reaches the card only while it is in the transfer state.
THEOREM SdTransfersFromTran == Spec => []TransfersFromTran
<1>1. TransferInv => TransfersFromTran
  BY DEF TransferInv, InTran, TransfersFromTran
<1>2. QED
  BY <1>1, TransferInvariant, PTL

\* A read or write that returns its length has moved exactly the blocks asked for, in the cases
\* in which the driver steps through the buffer block by block.
THEOREM SdTransfersExact == Spec => []TransfersExact
<1>1. TransferInv => TransfersExact
  <2> SUFFICES ASSUME TransferInv PROVE TransfersExact
    OBVIOUS
  <2>1. HwType /\ DriverType
    BY DEF TransferInv
  <2>2. TypeOK
    <3>1. card.state \in CardStates /\ card.rca \in {0, Rca} /\ dat.left \in 0 .. 2 /\ dat.block \in Nat
      BY <2>1 DEF HwType, Cards, Dats
    <3>2. line = None \/ line.name \in DOMAIN LegalIn
      BY <2>1, LegalNames DEF HwType
    <3>3. QED
      BY <2>1, <3>1, <3>2 DEF TypeOK, HwType, DriverType
  <2>3. ReadExact /\ WriteExact
    <3>1. pc = "ret" /\ result = "num" => c = op.num
      BY DEF TransferInv, Places
    <3>2. QED
      BY <3>1 DEF TransferInv, Moves, ReadExact, WriteExact
  <2>4. QED
    BY <2>2, <2>3 DEF TransfersExact
<1>2. QED
  BY <1>1, TransferInvariant, PTL

\* sd_cmd hangs only after a wait was given up while the hardware was still at work.
THEOREM SdHangsOnlyWhenLate == Spec => []HangsOnlyWhenLate
<1>1. TransferInv => HangsOnlyWhenLate
  BY DEF TransferInv, Attended, Calm, Polling, HangsOnlyWhenLate, Hung
<1>2. QED
  BY <1>1, TransferInvariant, PTL

\* The card is written only in the blocks of the write that is running.
THEOREM SdWritesInRange == Spec => WritesInRange
<1> DEFINE Step == \A b \in DOMAIN data :
                     data'[b] # data[b] => op.kind = "write" /\ b \in op.lba .. (op.lba + op.num - 1)
<1>1. TransferInv /\ [Next]_vars => Step
  <2> SUFFICES ASSUME TransferInv, [Next]_vars, ~UNCHANGED data PROVE Step
    OBVIOUS
  <2>1. write_block
    <3>1. CASE Driver
      BY <3>1 DEF Driver, sd_cmd_send, sd_cmd_done, sd_init_reset, sd_clk, sd_init_send, sd_init_inquired,
         sd_init_op_cond, sd_init_rel_addr, sd_init_check, sd_init_done, ensure_rca, ensure_status,
         ensure_switch, ensure_check, mbr, transfer, read_block, read_end, write_end, complete, return, hw
    <3>2. CASE Client
      BY <3>2 DEF Client, call, shutdown, hw
    <3>3. CASE Hardware
      BY <3>3 DEF Hardware, respond, data_ready, data_done, programmed, data_error, lose, power_up
    <3>4. CASE UNCHANGED vars
      BY <3>4 DEF vars, hw
    <3>5. QED
      BY <3>1, <3>2, <3>3, <3>4 DEF Next
  <2>2. /\ pc = "block" /\ todo = << >> /\ op.kind = "write" /\ c < op.num
    BY <2>1 DEF write_block, At
  <2>3. PICK code \in Codes :
          /\ sd_int("WRITE_RDY", code)
          /\ code = "E_NOERR"
          /\ data' = [data EXCEPT ![dat.block] = <<"buffer", WriteSlot>>]
    BY <2>1 DEF write_block
  <2>4. "WRITE_RDY" \in intr
    BY <2>3, IntFacts
  <2>5. dat.block = op.lba + c
    BY <2>2, <2>4, BlockReady
  <2>a. op.lba \in Nat /\ c \in Nat /\ op.num \in Nat
    BY DEF TransferInv, DriverType, Ops
  <2>6. dat.block \in op.lba .. (op.lba + op.num - 1)
    BY <2>2, <2>5, <2>a
  <2>7. QED
    BY <2>2, <2>3, <2>6
<1>2. QED
  BY <1>1, TransferInvariant, PTL DEF Spec, WritesInRange
-----------------------------------------------------------------------------
(***************************************************************************)
(* That nothing goes wrong as long as the hardware works: sd_init brings   *)
(* the card through its states to the wide bus, and every transfer of one  *)
(* block after it succeeds.  The invariant says at every place which       *)
(* commands the card has still to take (Left), in which state it is, and   *)
(* which address each side holds (Booting), and later where the one block  *)
(* stands (Running), so that every command meets the card in a state in    *)
(* which it is legal, every answer is the one that is expected, and every  *)
(* wait ends with its bit.  Of the rest of TransferInv it uses only what   *)
(* relates the interrupt bits to the transfer.                             *)
(***************************************************************************)

\* The commands of the running sd_cmd that the card has still to take, and the answer to
\* the last one it took.
Left == IF Polling /\ line = None THEN Tail(todo) ELSE todo
Answer == IF Polling /\ line = None THEN resp.r ELSE res

\* sd_cmd meets no error: what is on the line is the command it waits for, and when nothing is
\* the answer is there.
Flow ==
  /\ ~ErrorPending /\ err = "E_NOERR" /\ op.num = 1
  /\ line # None => Polling /\ line = [name |-> Head(todo), arg |-> Arg(Head(todo))]
  /\ Polling /\ line = None => "CMD_DONE" \in intr

\* The places of sd_init, with what is left to send there, what card_rca holds, and the state
\* of the card before and after its commands.
Stage(places, queue, r, before, after) ==
  /\ pc \in places /\ Left \in queue /\ rca = r
  /\ card.state = IF Left = << >> THEN after ELSE before

NoneLeft == {<< >>}
One(n) == {<< >>, <<n>>}
App(n) == {<< >>, <<"CMD55", n>>, <<n>>}

\* Identification: the card has no address yet.
Identify ==
  \/ Stage({"reset", "clk", "CMD0"}, NoneLeft, 0, "idle", "idle")
  \/ Stage({"CMD8"}, One("CMD0"), 0, "idle", "idle")
  \/ Stage({"inquire"}, One("CMD8"), 0, "idle", "idle")
  \/ Stage({"inquired"}, App("INQUIRE"), 0, "idle", "idle")
  \/ Stage({"op_cond"}, NoneLeft, 0, "idle", "idle") /\ tries = Tries /\ Answer = "idle"
  \/ Stage({"op_cond"}, App("ACMD41"), 0, "idle", "ready") /\ tries = Tries - 1 /\ (Left = << >> => Answer = "complete")
  \/ Stage({"CMD2"}, NoneLeft, 0, "ready", "ready")
  \/ Stage({"CMD3"}, One("CMD2"), 0, "ready", "ident")

\* The card takes its address, is selected and put on the wide bus.
Select ==
  \/ Stage({"addressed"}, One("CMD3"), 1, "ident", "stby") /\ (Left = << >> => Answer = "ident")
  \/ Stage({"CMD9", "clk2", "CMD7"}, NoneLeft, Rca, "stby", "stby")
  \/ Stage({"CMD10"}, One("CMD9"), Rca, "stby", "stby")
  \/ Stage({"CMD13"}, One("CMD10"), Rca, "stby", "stby")
  \/ Stage({"standby"}, One("CMD13"), Rca, "stby", "stby") /\ (Left = << >> => Answer = "stby")
  \/ Stage({"select"}, One("CMD7"), Rca, "stby", "tran")
  \/ Stage({"selected"}, One("CMD13"), Rca, "tran", "tran") /\ (Left = << >> => Answer = "tran")
  \/ Stage({"width"}, NoneLeft, Rca, "tran", "tran")
  \/ Stage({"done"}, App("ACMD6"), Rca, "tran", "tran")

Booting ==
  /\ then = "boot" /\ dat = NoData /\ ~hostWide
  /\ card.rca = IF card.state \in Selected THEN Rca ELSE 0
  /\ card.wide = (pc = "done" /\ Left = << >>)
  /\ \A n \in AfterCMD55 : Left = <<n>> => card.app
  /\ Identify \/ Select

\* No data are moved but perhaps the end of a read that sd_read does not wait for.
Drained == dat = NoData \/ (dat.left = 0 /\ ~dat.ready /\ ~dat.multi /\ dat.dir = "read")

\* A call is made, and the card is in the transfer state.
AtRest ==
  /\ \/ pc \in {"mbr", "ensure", "E1", "transfer", "complete", "ret", "idle"} /\ Left = << >>
     \/ pc = "E2" /\ Left \in One("CMD13") /\ (Left = << >> => Answer = "tran")
  /\ card.state = "tran" /\ Drained
  /\ pc = "ret" => result = "num"

\* The one block of the call is asked for, moved, and has been moved.
OneBlock ==
  /\ pc = "block"
  /\ \/ /\ Left = <<TransferCmd>> /\ c = 0
        /\ card.state = "tran" /\ dat = NoData /\ blkcnt = 1
     \/ /\ Left = << >> /\ c = 0
        /\ dat.left = 1 /\ ~dat.multi /\ dat.dir = (IF Reading THEN "read" ELSE "write")
        /\ dat.ready => (IF Reading THEN "READ_RDY" ELSE "WRITE_RDY") \in intr
        /\ card.state = IF ~Reading THEN "rcv" ELSE IF dat.ready THEN "tran" ELSE "data"
     \/ /\ Left = << >> /\ c = 1 /\ Reading
        /\ card.state = "tran" /\ Drained
     \/ /\ Left = << >> /\ c = 1 /\ ~Reading
        /\ \/ dat = NoData /\ "DATA_DONE" \in intr /\ card.state = "tran"
           \/ /\ dat # NoData /\ dat.left = 0 /\ ~dat.ready /\ ~dat.multi /\ dat.dir = "write"
              /\ card.state \in {"prg", "tran"}

Running ==
  /\ rca = Rca /\ card.rca = Rca /\ card.wide /\ hostWide = TRUE /\ bd
  /\ pc = "idle" => fsdev
  /\ pc \notin {"mbr", "idle"} => op.kind # "none" /\ (op.kind = "mbr" \/ fsdev)
  /\ AtRest \/ OneBlock


\* All of it, while the hardware works and every transfer is of one block.
Good == Flow /\ (Booting \/ Running)
SmoothInv ==
  /\ faults \in Nat /\ multi \in BOOLEAN
  /\ faults = 0 /\ ~multi => pc = "off" \/ Good

-----------------------------------------------------------------------------
(* Facts about the places and the commands *)

\* Where nothing is to be sent, sd_cmd is not running.
LEMMA NothingSent ==
  ASSUME todo = << >>
  PROVE  ~Polling /\ Left = << >> /\ Answer = res
BY DEF Polling, Left, Answer

\* The same after a step.
LEMMA NothingSentNext ==
  ASSUME todo' = << >>
  PROVE  ~Polling' /\ Left' = << >> /\ Answer' = res'
BY DEF Polling, Left, Answer

\* A command that has just been handed to sd_cmd is still to be taken.
LEMMA JustSent ==
  ASSUME phase' = "inhibit"
  PROVE  ~Polling' /\ Left' = todo'
BY DEF Polling, Left

\* What sd_init has reached where it looks at the card.
LEMMA BootPlaces ==
  ASSUME Booting, todo = << >>
  PROVE  /\ pc \in {"reset", "clk", "CMD0", "CMD8", "inquire", "inquired", "op_cond", "CMD2", "CMD3",
                    "addressed", "CMD9", "clk2", "CMD7", "CMD10", "CMD13", "standby", "select",
                    "selected", "width", "done"}
         /\ pc \in {"reset", "clk", "CMD0", "CMD8", "inquire", "inquired"} => rca = 0 /\ card.state = "idle"
         /\ pc = "op_cond" => /\ rca = 0
                              /\ \/ card.state = "idle" /\ tries = Tries /\ res = "idle"
                                 \/ card.state = "ready" /\ tries = Tries - 1 /\ res = "complete"
         /\ pc = "CMD2" => rca = 0 /\ card.state = "ready"
         /\ pc = "CMD3" => rca = 0 /\ card.state = "ident"
         /\ pc = "addressed" => rca = 1 /\ card.state = "stby" /\ res = "ident"
         /\ pc \in {"CMD9", "clk2", "CMD7", "CMD10", "CMD13", "standby"} => rca = Rca /\ card.state = "stby"
         /\ pc = "standby" => res = "stby"
         /\ pc \in {"select", "selected", "width", "done"} => rca = Rca /\ card.state = "tran"
         /\ pc = "selected" => res = "tran"
<1>1. Left = << >> /\ Answer = res
  BY NothingSent
<1>2. CASE Identify
  BY <1>1, <1>2 DEF Identify, Stage
<1>3. CASE Select
  BY <1>1, <1>3 DEF Select, Stage
<1>4. QED
  BY <1>2, <1>3 DEF Booting

\* A step of the hardware or of sd_cmd that leaves these alone leaves the call where it is.
LEMMA ViewKept ==
  ASSUME Booting \/ Running,
         UNCHANGED <<pc, card, rca, then, tries, hostWide, dat, bd, fsdev, op, c, result>>,
         Left' = Left, Left = << >> => Answer' = Answer,
         blkcnt' \in {1, blkcnt},
         pc = "block" /\ Left = << >> => intr \ {"CMD_DONE"} \subseteq intr'
  PROVE  (Booting \/ Running)'
<1>1. CASE Booting
  <2>1. Identify => Identify'
    BY DEF Identify, Stage, NoneLeft, One, App
  <2>2. Select => Select'
    BY DEF Select, Stage, NoneLeft, One, App
  <2>3. QED
    BY <1>1, <2>1, <2>2 DEF Booting
<1>2. CASE Running
  <2>1. AtRest => AtRest'
    BY DEF AtRest, One, Drained
  <2>2. OneBlock => OneBlock'
    BY DEF OneBlock, Drained, Reading, TransferCmd
  <2>3. QED
    BY <1>2, <2>1, <2>2 DEF Running
<1>3. QED
  BY <1>1, <1>2

\* What sd_int does when the hardware works.
LEMMA IntSmooth ==
  ASSUME NEW bit, NEW code \in Codes, sd_int(bit, code), ~ErrorPending, Working \/ bit \in intr,
         faults = 0, faults' = 0
  PROVE  code = "E_NOERR" /\ bit \in intr /\ intr' = intr \ {bit} /\ ~ErrorPending'
<1>1. ~Expire(Working \/ bit \in intr)
  BY DEF Expire, Fault
<1>2. code = "E_NOERR" /\ bit \in intr /\ intr' = intr \ {bit}
  BY <1>1 DEF sd_int
<1>3. QED
  BY <1>2 DEF ErrorPending

\* sd_cmd sends a command.
LEMMA SmoothSend ==
  ASSUME TransferInv, Good, sd_cmd_send
  PROVE  Good'
<1>1. /\ todo # << >> /\ phase = "inhibit" /\ line = None /\ intr' = {} /\ phase' = "wait"
      /\ blkcnt' \in {1, blkcnt}
      /\ line' = [name |-> Head(todo), arg |-> Arg(Head(todo))]
      /\ UNCHANGED <<card, dat, pc, todo, err, rca, then, tries, op, c, result, bd, fsdev, hostWide>>
  BY DEF sd_cmd_send
<1>2. Head(todo) \in CmdNames
  BY <1>1, QuietQueues, TransferQueue DEF TransferInv, DriverType, Transfers, CmdNames
<1>3. line' # None
  <2>1. Head(todo) # "none"
    BY <1>2 DEF CmdNames
  <2>2. line'.name = Head(todo) /\ None.name = "none"
    BY <1>1 DEF None
  <2>3. QED
    BY <2>1, <2>2
<1>4. ~Polling /\ Polling' /\ Left = todo /\ Left' = todo /\ Left # << >>
  BY <1>1, <1>3 DEF Polling, Left
<1>5. Flow'
  BY <1>1, <1>3, <1>4 DEF Good, Flow, ErrorPending, Arg
<1>6. (Booting \/ Running)'
  BY <1>1, <1>4, ViewKept DEF Good
<1>7. QED
  BY <1>5, <1>6 DEF Good

\* sd_cmd has its answer.
LEMMA SmoothDone ==
  ASSUME TransferInv, Good, sd_cmd_done, faults = 0, faults' = 0
  PROVE  Good'
<1>1. PICK code \in Codes :
        /\ sd_int("CMD_DONE", code)
        /\ res' = IF code = "E_NOERR" THEN resp.r ELSE "idle"
        /\ err' = IF code = "E_NOERR" THEN err ELSE code
  BY DEF sd_cmd_done
<1>2. /\ todo # << >> /\ phase = "wait" /\ todo' = Tail(todo) /\ phase' = "inhibit"
      /\ UNCHANGED <<card, line, resp, dat, blkcnt, pc, rca, then, tries, op, c, result, bd, fsdev, hostWide>>
      /\ Polling /\ ~Polling'
  BY DEF sd_cmd_done, Polling
<1>3. Working \/ "CMD_DONE" \in intr
  BY <1>2 DEF Good, Flow, Working
<1>4. code = "E_NOERR" /\ "CMD_DONE" \in intr /\ intr' = intr \ {"CMD_DONE"} /\ ~ErrorPending'
  BY <1>1, <1>3, IntSmooth DEF Good, Flow
<1>5. line = None
  BY <1>2, <1>4 DEF TransferInv, Answered
<1>6. Left' = Left /\ Answer' = Answer
  BY <1>1, <1>2, <1>4, <1>5 DEF Left, Answer
<1>7. Flow'
  BY <1>1, <1>2, <1>4, <1>5 DEF Good, Flow
<1>8. (Booting \/ Running)'
  BY <1>2, <1>4, <1>6, ViewKept DEF Good
<1>9. QED
  BY <1>7, <1>8 DEF Good

-----------------------------------------------------------------------------
(* sd_init *)

\* The places of a call.
LEMMA RunPlaces ==
  ASSUME Running
  PROVE  pc \in {"mbr", "ensure", "E1", "E2", "transfer", "block", "complete", "ret", "idle"}
BY DEF Running, AtRest, OneBlock

\* A step of sd_init from one place to the next.
LEMMA BootStep ==
  ASSUME Good, Booting, todo = << >>, pc # "done",
         UNCHANGED <<card, line, op, then>>, dat' = NoData, ~hostWide',
         intr' \subseteq intr, err' = "E_NOERR", todo' = << >> \/ phase' = "inhibit",
         pc' = "done" => Left' # << >>, \A n \in AfterCMD55 : Left' # <<n>>,
         (Identify \/ Select)'
  PROVE  Good'
<1>1. line = None /\ ~Polling'
  BY DEF Good, Flow, Polling
<1>2. Flow'
  BY <1>1 DEF Good, Flow, ErrorPending
<1>3. ~card.wide
  BY DEF Booting
<1>4. Booting'
  BY <1>3 DEF Booting
<1>5. QED
  BY <1>2, <1>4 DEF Good

\* The controller is reset.
LEMMA SmoothReset ==
  ASSUME Good, sd_init_reset, faults = 0, faults' = 0
  PROVE  Good'
<1>1. /\ pc = "reset" /\ todo = << >> /\ ~hostWide'
      /\ intr' = {} /\ line' = None /\ dat' = NoData /\ pc' = "clk"
      /\ UNCHANGED <<card, op, then, todo, err>>
      /\ rca' \in IF then = "boot" THEN {0} ELSE {0, Junk}
  BY DEF sd_init_reset, At, Fault
<1>2. Booting /\ then = "boot"
  BY <1>1, RunPlaces DEF Good, Booting
<1>3. line = None /\ err = "E_NOERR"
  BY <1>1 DEF Good, Flow, Polling
<1>4. Left' = << >>
  BY <1>1, NothingSentNext
<1>5. Identify'
  BY <1>1, <1>2, <1>4, BootPlaces DEF Identify, Stage, NoneLeft
<1>6. QED
  BY <1>1, <1>2, <1>3, <1>4, <1>5, BootStep

\* The clock is set: nothing keeps the lines busy, and it gets stable.
LEMMA SmoothClk ==
  ASSUME Good, sd_clk, faults = 0, faults' = 0
  PROVE  Good'
<1>1. /\ pc \in {"clk", "clk2"} /\ todo = << >>
      /\ UNCHANGED <<card, op, then, todo, err, line, dat, hostWide, intr, rca>>
  BY DEF sd_clk, AfterClk
<1>2. Booting
  BY <1>1, RunPlaces DEF Good
<1>3. line = None /\ err = "E_NOERR" /\ dat = NoData /\ ~hostWide
  BY <1>1, <1>2 DEF Good, Flow, Polling, Booting
<1>4. pc' = AfterClk[pc]
  BY <1>3 DEF sd_clk, Fault
<1>5. \/ pc = "clk" /\ pc' = "CMD0"
      \/ pc = "clk2" /\ pc' = "CMD7"
  <2>1. AfterClk["clk"] = "CMD0" /\ AfterClk["clk2"] = "CMD7"
    BY DEF AfterClk
  <2>2. QED
    BY <1>1, <1>4, <2>1
<1>6. Left' = << >>
  BY <1>1, NothingSentNext
<1>7. (Identify \/ Select)'
  BY <1>1, <1>2, <1>5, <1>6, BootPlaces DEF Identify, Select, Stage, NoneLeft
<1>8. QED
  BY <1>1, <1>2, <1>3, <1>5, <1>6, <1>7, BootStep

\* The commands whose results are not looked at.
LEMMA SmoothScript ==
  ASSUME Good, sd_init_send
  PROVE  Good'
<1>1. /\ pc \in DOMAIN Script /\ todo = << >>
      /\ todo' = Script[pc].cmds /\ phase' = "inhibit" /\ err' = "E_NOERR" /\ pc' = Script[pc].next
      /\ UNCHANGED <<card, op, then, line, dat, hostWide, intr, rca>>
  BY DEF sd_init_send, Send, hw
<1>2. pc \in {"CMD0", "CMD8", "inquire", "CMD2", "CMD9", "CMD10", "CMD13", "CMD7", "select", "width"}
  BY <1>1 DEF Script
<1>3. Booting
  BY <1>2, RunPlaces DEF Good
<1>4. dat = NoData /\ ~hostWide
  BY <1>3 DEF Booting
<1>5. Left' = todo' /\ todo' # << >> /\ \A n \in AfterCMD55 : todo' # <<n>>
  BY <1>1, <1>2, JustSent DEF Script, AfterCMD55
<1>6. CASE pc \in {"CMD0", "CMD8", "inquire", "CMD2"}
  <2>1. \/ pc = "CMD0" /\ pc' = "CMD8" /\ todo' = <<"CMD0">>
        \/ pc = "CMD8" /\ pc' = "inquire" /\ todo' = <<"CMD8">>
        \/ pc = "inquire" /\ pc' = "inquired" /\ todo' = <<"CMD55", "INQUIRE">>
        \/ pc = "CMD2" /\ pc' = "CMD3" /\ todo' = <<"CMD2">>
    BY <1>1, <1>6 DEF Script
  <2>2. Identify'
    BY <1>1, <1>3, <1>5, <2>1, BootPlaces DEF Identify, Stage, One, App
  <2>3. QED
    BY <1>1, <1>2, <1>3, <1>4, <1>5, <2>2, BootStep
<1>7. CASE pc \in {"CMD9", "CMD10", "CMD13", "CMD7", "select", "width"}
  <2>1. \/ pc = "CMD9" /\ pc' = "CMD10" /\ todo' = <<"CMD9">>
        \/ pc = "CMD10" /\ pc' = "CMD13" /\ todo' = <<"CMD10">>
        \/ pc = "CMD13" /\ pc' = "standby" /\ todo' = <<"CMD13">>
        \/ pc = "CMD7" /\ pc' = "select" /\ todo' = <<"CMD7">>
        \/ pc = "select" /\ pc' = "selected" /\ todo' = <<"CMD13">>
        \/ pc = "width" /\ pc' = "done" /\ todo' = <<"CMD55", "ACMD6">>
    BY <1>1, <1>7 DEF Script
  <2>2. Select'
    BY <1>1, <1>3, <1>5, <2>1, BootPlaces DEF Select, Stage, One, App
  <2>3. QED
    BY <1>1, <1>2, <1>3, <1>4, <1>5, <2>2, BootStep
<1>8. QED
  BY <1>2, <1>6, <1>7

\* The first ACMD41 has no error.
LEMMA SmoothInquired ==
  ASSUME Good, sd_init_inquired
  PROVE  Good'
<1>1. /\ pc = "inquired" /\ todo = << >>
      /\ UNCHANGED <<card, op, then, todo, err, line, dat, hostWide, intr, rca>>
  BY DEF sd_init_inquired, At, hw
<1>2. Booting
  BY <1>1, RunPlaces DEF Good
<1>3. err = "E_NOERR" /\ dat = NoData /\ ~hostWide
  BY <1>2 DEF Good, Flow, Booting
<1>4. tries' = Tries /\ res' = "idle" /\ pc' = "op_cond"
  BY <1>3 DEF sd_init_inquired
<1>5. Left' = << >> /\ Answer' = "idle"
  BY <1>1, <1>4, NothingSentNext
<1>6. Identify'
  BY <1>1, <1>2, <1>4, <1>5, BootPlaces DEF Identify, Stage, NoneLeft
<1>7. QED
  BY <1>1, <1>2, <1>3, <1>4, <1>5, <1>6, BootStep

\* The card is complete in the first round of the loop, and another round was to come.
LEMMA SmoothOpCond ==
  ASSUME Good, sd_init_op_cond, Tries >= 2
  PROVE  Good'
<1>1. /\ pc = "op_cond" /\ todo = << >>
      /\ UNCHANGED <<card, op, then, line, dat, hostWide, intr, rca>>
  BY DEF sd_init_op_cond, At, hw
<1>2. Booting
  BY <1>1, RunPlaces DEF Good
<1>3. err = "E_NOERR" /\ dat = NoData /\ ~hostWide
  BY <1>2 DEF Good, Flow, Booting
<1>4. rca = 0 /\ \/ card.state = "idle" /\ tries = Tries /\ res = "idle"
                 \/ card.state = "ready" /\ tries = Tries - 1 /\ res = "complete"
  BY <1>1, <1>2, BootPlaces
<1>5. CASE card.state = "idle" /\ tries = Tries /\ res = "idle"
  <2>1. /\ todo' = <<"CMD55", "ACMD41">> /\ phase' = "inhibit" /\ err' = "E_NOERR" /\ pc' = "op_cond"
        /\ tries' = Tries - 1
    BY <1>5, DriverAssumption DEF sd_init_op_cond, Complete, Send
  <2>2. Left' = <<"CMD55", "ACMD41">>
    BY <2>1, JustSent
  <2>3. Identify'
    BY <1>1, <1>4, <1>5, <2>1, <2>2 DEF Identify, Stage, App
  <2>4. Left' # << >> /\ \A n \in AfterCMD55 : Left' # <<n>>
    BY <2>2
  <2>5. QED
    BY <1>1, <1>2, <1>3, <2>1, <2>3, <2>4, BootStep
<1>6. CASE card.state = "ready" /\ tries = Tries - 1 /\ res = "complete"
  <2>1. pc' = "CMD2" /\ UNCHANGED <<todo, phase, err>>
    BY <1>6, DriverAssumption DEF sd_init_op_cond, Complete
  <2>2. Left' = << >>
    BY <1>1, <2>1, NothingSentNext
  <2>3. Identify'
    BY <1>1, <1>4, <1>6, <2>1, <2>2 DEF Identify, Stage, NoneLeft
  <2>4. QED
    BY <1>1, <1>2, <1>3, <2>1, <2>2, <2>3, BootStep
<1>7. QED
  BY <1>4, <1>5, <1>6

\* The card is asked for its address.
LEMMA SmoothRelAddr ==
  ASSUME Good, sd_init_rel_addr
  PROVE  Good'
<1>1. /\ pc = "CMD3" /\ todo = << >> /\ rca' = 1
      /\ todo' = <<"CMD3">> /\ phase' = "inhibit" /\ err' = "E_NOERR" /\ pc' = "addressed"
      /\ UNCHANGED <<card, op, then, line, dat, hostWide, intr>>
  BY DEF sd_init_rel_addr, At, Send, hw
<1>2. Booting
  BY <1>1, RunPlaces DEF Good
<1>3. dat = NoData /\ ~hostWide
  BY <1>2 DEF Booting
<1>4. Left' = <<"CMD3">> /\ \A n \in AfterCMD55 : Left' # <<n>>
  BY <1>1, JustSent DEF AfterCMD55
<1>5. Select'
  BY <1>1, <1>2, <1>4, BootPlaces DEF Select, Stage, One
<1>6. QED
  BY <1>1, <1>2, <1>3, <1>4, <1>5, BootStep

\* The card reports the states that are expected.
LEMMA SmoothCheck ==
  ASSUME Good, sd_init_check
  PROVE  Good'
<1>1. /\ pc \in {"addressed", "standby", "selected"} /\ todo = << >>
      /\ UNCHANGED <<card, op, then, todo, err, line, dat, hostWide, intr>>
  BY DEF sd_init_check, Expected, hw
<1>2. Booting
  BY <1>1, RunPlaces DEF Good
<1>3. err = "E_NOERR" /\ dat = NoData /\ ~hostWide
  BY <1>2 DEF Good, Flow, Booting
<1>4. \/ pc = "addressed" /\ pc' = "CMD9" /\ rca' = Rca
      \/ pc = "standby" /\ pc' = "clk2" /\ rca' = rca
      \/ pc = "selected" /\ pc' = "width" /\ rca' = rca
  BY <1>1, <1>2, BootPlaces DEF sd_init_check, Expected
<1>5. Left' = << >>
  BY <1>1, NothingSentNext
<1>6. Select'
  BY <1>1, <1>2, <1>4, <1>5, BootPlaces DEF Select, Stage, NoneLeft
<1>7. QED
  BY <1>1, <1>2, <1>3, <1>4, <1>5, <1>6, BootStep

\* Both sides use the wide bus, and sd_init returns to the boot.
LEMMA SmoothInitDone ==
  ASSUME Good, sd_init_done
  PROVE  Good'
<1>1. /\ pc = "done" /\ todo = << >> /\ hostWide' = TRUE /\ bd' = TRUE
      /\ UNCHANGED <<card, op, then, todo, err, line, dat, intr, rca>>
  BY DEF sd_init_done, At
<1>2. Booting
  BY <1>1, RunPlaces DEF Good
<1>3. /\ then = "boot" /\ dat = NoData /\ rca = Rca /\ card.state = "tran" /\ card.rca = Rca /\ card.wide
  BY <1>1, <1>2, BootPlaces, NothingSent DEF Booting, Selected
<1>4. pc' = "mbr"
  BY <1>3 DEF sd_init_done, InitReturn
<1>5. Left' = << >> /\ ~Polling' /\ ~Polling
  BY <1>1, NothingSentNext, NothingSent
<1>6. Flow'
  BY <1>1, <1>5 DEF Good, Flow, ErrorPending
<1>7. Running'
  BY <1>1, <1>3, <1>4, <1>5 DEF Running, AtRest, Drained
<1>8. QED
  BY <1>6, <1>7 DEF Good

-----------------------------------------------------------------------------
(* A call *)

\* A step of a call from one place to the next.
LEMMA RunStep ==
  ASSUME Good, Running, todo = << >>,
         UNCHANGED <<line, rca, bd, hostWide>>, card'.rca = card.rca, card'.wide = card.wide,
         intr' \subseteq intr, err' = "E_NOERR", op'.num = 1, todo' = << >> \/ phase' = "inhibit",
         pc' = "idle" => fsdev',
         pc' \notin {"mbr", "idle"} => op'.kind # "none" /\ (op'.kind = "mbr" \/ fsdev'),
         (AtRest \/ OneBlock)'
  PROVE  Good'
<1>1. line = None /\ ~Polling'
  BY DEF Good, Flow, Polling
<1>2. Flow'
  BY <1>1 DEF Good, Flow, ErrorPending
<1>3. Running'
  BY DEF Running
<1>4. QED
  BY <1>2, <1>3 DEF Good

\* What sd_init has set up stands at every place of a call.
LEMMA CallFacts ==
  ASSUME Good, todo = << >>, pc \in {"mbr", "ensure", "E1", "E2", "transfer", "block", "complete", "ret", "idle"}
  PROVE  /\ Running /\ rca = Rca /\ bd /\ err = "E_NOERR" /\ op.num = 1
         /\ pc # "block" => card.state = "tran" /\ Drained
         /\ pc = "E2" => res = "tran"
         /\ pc = "idle" => fsdev
         /\ pc \notin {"mbr", "idle"} => op.kind # "none" /\ (op.kind = "mbr" \/ fsdev)
<1>1. Running
  BY BootPlaces DEF Good
<1>2. QED
  BY <1>1, NothingSent DEF Good, Flow, Running, AtRest, OneBlock

\* ensure_data_mode finds the card as the last call left it.
LEMMA SmoothEnsure ==
  ASSUME Good, ensure_rca \/ ensure_status \/ ensure_switch \/ ensure_check
  PROVE  Good'
<1>1. /\ UNCHANGED <<card, line, rca, bd, hostWide, intr, op, dat, fsdev>>
      /\ todo = << >> /\ pc \in {"ensure", "E1", "E2", "E3", "E4"}
  BY DEF ensure_rca, ensure_status, ensure_switch, ensure_check, At, hw, Finish
<1>2. pc \in {"ensure", "E1", "E2"}
  BY <1>1, BootPlaces, RunPlaces DEF Good
<1>3. CASE pc = "ensure"
  <2>1. rca # 0
    BY <1>1, <1>3, CallFacts, CardAssumption
  <2>2. pc' = "E1" /\ UNCHANGED <<todo, err>>
    BY <1>3, <2>1 DEF ensure_rca, ensure_status, ensure_switch, ensure_check, At
  <2>3. AtRest'
    BY <1>1, <1>3, <2>2, CallFacts, NothingSentNext DEF AtRest, Drained
  <2>4. QED
    BY <1>1, <1>3, <2>2, <2>3, CallFacts, RunStep
<1>4. CASE pc = "E1"
  <2>1. pc' = "E2" /\ todo' = <<"CMD13">> /\ phase' = "inhibit" /\ err' = "E_NOERR"
    BY <1>4 DEF ensure_rca, ensure_status, ensure_switch, ensure_check, At, Send
  <2>2. Left' = <<"CMD13">>
    BY <2>1, JustSent
  <2>3. AtRest'
    BY <1>1, <1>4, <2>1, <2>2, CallFacts DEF AtRest, Drained, One
  <2>4. QED
    BY <1>1, <1>4, <2>1, <2>3, CallFacts, RunStep
<1>5. CASE pc = "E2"
  <2>1. res = "tran"
    BY <1>1, <1>5, CallFacts
  <2>2. pc' = "transfer" /\ UNCHANGED <<todo, err>>
    BY <1>5, <2>1 DEF ensure_rca, ensure_status, ensure_switch, ensure_check, At
  <2>3. AtRest'
    BY <1>1, <1>5, <2>2, CallFacts, NothingSentNext DEF AtRest, Drained
  <2>4. QED
    BY <1>1, <1>5, <2>2, <2>3, CallFacts, RunStep
<1>6. QED
  BY <1>2, <1>3, <1>4, <1>5

\* The transfer command is sent: what the last call left of its data is waited for.
LEMMA SmoothTransfer ==
  ASSUME TransferInv, Good, transfer, faults = 0, faults' = 0
  PROVE  Good'
<1>1. /\ pc = "transfer" /\ todo = << >>
      /\ UNCHANGED <<card, line, rca, bd, hostWide, intr, op, dat, fsdev, c>>
  BY DEF transfer, At
<1>2. /\ Running /\ card.state = "tran" /\ Drained /\ op.num = 1
      /\ op.kind # "none" /\ (op.kind = "mbr" \/ fsdev)
  BY <1>1, CallFacts
<1>3. ~ErrorPending /\ c = 0
  BY <1>1 DEF Good, Flow, TransferInv, Places
<1>4. dat # NoData => Working
  BY <1>2 DEF Drained, Working
<1>5. /\ dat = NoData /\ blkcnt' = 1
      /\ todo' = <<TransferCmd>> /\ phase' = "inhibit" /\ err' = "E_NOERR" /\ pc' = "block"
  BY <1>2, <1>3, <1>4 DEF transfer, Expire, Fault, Send
<1>6. Left' = <<TransferCmd>>
  BY <1>5, JustSent
<1>7. OneBlock'
  BY <1>1, <1>2, <1>3, <1>5, <1>6 DEF OneBlock, TransferCmd, Reading
<1>8. QED
  BY <1>1, <1>2, <1>5, <1>7, RunStep

\* Where the loop over the one block stands.
LEMMA BlockFacts ==
  ASSUME TransferInv, Good, pc = "block", todo = << >>
  PROVE  /\ Running /\ err = "E_NOERR" /\ op.num = 1 /\ ~ErrorPending /\ c \in {0, 1}
         /\ op.kind # "none" /\ (op.kind = "mbr" \/ fsdev)
         /\ c = 0 => /\ dat.left = 1 /\ ~dat.multi /\ dat # NoData
                     /\ dat.dir = (IF Reading THEN "read" ELSE "write")
                     /\ dat.ready => (IF Reading THEN "READ_RDY" ELSE "WRITE_RDY") \in intr
                     /\ card.state = IF ~Reading THEN "rcv" ELSE IF dat.ready THEN "tran" ELSE "data"
         /\ c = 1 /\ Reading => card.state = "tran" /\ Drained
         /\ c = 1 /\ ~Reading =>
              \/ dat = NoData /\ "DATA_DONE" \in intr /\ card.state = "tran"
              \/ /\ dat # NoData /\ dat.left = 0 /\ ~dat.ready /\ ~dat.multi /\ dat.dir = "write"
                 /\ card.state \in {"prg", "tran"}
<1>1. Left = << >>
  BY NothingSent
<1>2. Running /\ err = "E_NOERR" /\ op.num = 1 /\ ~ErrorPending
  BY BootPlaces DEF Good, Flow
<1>3. OneBlock
  BY <1>2 DEF Running, AtRest
<1>4. NoData.left = 0
  BY DEF NoData
<1>5. <<TransferCmd>> # << >>
  OBVIOUS
<1>6. QED
  BY <1>1, <1>2, <1>3, <1>4, <1>5 DEF OneBlock, Running

\* What Moved is.
LEMMA MovedFacts ==
  ASSUME dat \in Dats, dat.left = 1
  PROVE  /\ Moved.left = 0 /\ ~Moved.ready /\ Moved.multi = dat.multi /\ Moved.dir = dat.dir
BY DEF Moved, Dats

\* The block is read.
LEMMA SmoothRead ==
  ASSUME TransferInv, Good, read_block, faults = 0, faults' = 0
  PROVE  Good'
<1>1. /\ pc = "block" /\ todo = << >> /\ Reading /\ c < op.num
      /\ UNCHANGED <<card, line, rca, bd, hostWide, op, fsdev, todo>>
  BY DEF read_block, At
<1>2. c = 0
  BY <1>1, BlockFacts
<1>3. PICK code \in Codes :
        /\ sd_int("READ_RDY", code)
        /\ \/ /\ code = "E_NOERR"
              /\ dat' = IF dat.ready THEN Moved ELSE dat
              /\ c' = c + 1
              /\ UNCHANGED <<pc, result, err>>
           \/ code # "E_NOERR"
  BY DEF read_block
<1>4. Working \/ "READ_RDY" \in intr
  BY <1>1, <1>2, BlockFacts DEF Working
<1>5. code = "E_NOERR" /\ "READ_RDY" \in intr /\ intr' = intr \ {"READ_RDY"}
  BY <1>1, <1>3, <1>4, BlockFacts, IntSmooth
<1>6. dat.ready
  BY <1>1, <1>5 DEF TransferInv, InStep, Moving
<1>7. /\ dat' = Moved /\ c' = 1 /\ pc' = "block" /\ err' = err
  BY <1>1, <1>2, <1>3, <1>5, <1>6
<1>8. Drained'
  <2>1. dat \in Dats /\ dat.left = 1 /\ dat.dir = "read" /\ ~dat.multi
    BY <1>1, <1>2, BlockFacts DEF TransferInv, HwType
  <2>2. QED
    BY <1>7, <2>1, MovedFacts DEF Drained
<1>9. Left' = << >> /\ Reading' /\ card'.state = "tran"
  BY <1>1, <1>2, <1>6, BlockFacts, NothingSentNext DEF Reading
<1>10. OneBlock'
  BY <1>7, <1>8, <1>9 DEF OneBlock
<1>11. QED
  BY <1>1, <1>5, <1>7, <1>10, BlockFacts, RunStep

\* The block is written.
LEMMA SmoothWrite ==
  ASSUME TransferInv, Good, write_block, faults = 0, faults' = 0
  PROVE  Good'
<1>1. /\ pc = "block" /\ todo = << >> /\ op.kind = "write" /\ ~Reading /\ c < op.num
      /\ UNCHANGED <<line, rca, bd, hostWide, op, fsdev, todo>>
  BY DEF write_block, At, Reading
<1>2. c = 0
  BY <1>1, BlockFacts
<1>3. PICK code \in Codes :
        /\ sd_int("WRITE_RDY", code)
        /\ \/ /\ code = "E_NOERR"
              /\ dat.ready => dat' = Moved /\ card' = IF dat.multi THEN card ELSE [card EXCEPT !.state = "prg"]
              /\ c' = c + 1
              /\ UNCHANGED <<pc, result, err>>
           \/ code # "E_NOERR"
  BY DEF write_block
<1>4. Working \/ "WRITE_RDY" \in intr
  BY <1>1, <1>2, BlockFacts DEF Working
<1>5. code = "E_NOERR" /\ "WRITE_RDY" \in intr /\ intr' = intr \ {"WRITE_RDY"}
  BY <1>1, <1>3, <1>4, BlockFacts, IntSmooth
<1>6. dat.ready /\ ~dat.multi
  BY <1>1, <1>2, <1>5, BlockFacts DEF TransferInv, InStep, Moving
<1>7. /\ dat' = Moved /\ card' = [card EXCEPT !.state = "prg"] /\ c' = 1 /\ pc' = "block" /\ err' = err
  BY <1>1, <1>2, <1>3, <1>5, <1>6
<1>8. dat'.left = 0 /\ ~dat'.ready /\ ~dat'.multi /\ dat'.dir = "write" /\ dat' # NoData
  <2>1. dat \in Dats /\ dat.left = 1 /\ dat.dir = "write" /\ ~dat.multi
    BY <1>1, <1>2, BlockFacts DEF TransferInv, HwType
  <2>2. NoData.dir = "none"
    BY DEF NoData
  <2>3. QED
    BY <1>7, <2>1, <2>2, MovedFacts
<1>9. card'.state = "prg" /\ card'.rca = card.rca /\ card'.wide = card.wide
  BY <1>7 DEF TransferInv, HwType, Cards
<1>10. Left' = << >> /\ ~Reading'
  BY <1>1, NothingSentNext DEF Reading
<1>11. OneBlock'
  BY <1>7, <1>8, <1>9, <1>10 DEF OneBlock
<1>12. QED
  BY <1>1, <1>5, <1>7, <1>9, <1>11, BlockFacts, RunStep

\* The loop ends, for a write when the block is on the card.
LEMMA SmoothEnd ==
  ASSUME TransferInv, Good, read_end \/ write_end, faults = 0, faults' = 0
  PROVE  Good'
<1>1. /\ pc = "block" /\ todo = << >> /\ c = op.num
      /\ UNCHANGED <<card, dat, line, rca, bd, hostWide, op, fsdev>>
  BY DEF read_end, write_end, At, hw
<1>2. c = 1 /\ op.num = 1
  BY <1>1, BlockFacts
<1>3. /\ pc' = "complete" /\ UNCHANGED <<todo, err>> /\ intr' \subseteq intr
      /\ card.state = "tran" /\ Drained
  <2>1. CASE read_end
    BY <1>1, <1>2, <2>1, BlockFacts DEF read_end, Stop, hw
  <2>2. CASE write_end
    <3>1. ~Reading
      BY <2>2 DEF write_end, Reading
    <3>2. PICK code \in Codes :
            /\ sd_int("DATA_DONE", code)
            /\ code = "E_NOERR" => Stop
      BY <2>2 DEF write_end
    <3>3. Working \/ "DATA_DONE" \in intr
      BY <1>1, <1>2, <3>1, BlockFacts DEF Working
    <3>4. code = "E_NOERR" /\ "DATA_DONE" \in intr /\ intr' = intr \ {"DATA_DONE"}
      BY <1>1, <3>2, <3>3, BlockFacts, IntSmooth
    <3>5. dat = NoData
      BY <1>1, <3>4 DEF TransferInv, InStep, Moving
    <3>6. card.state = "tran"
      BY <1>1, <1>2, <3>1, <3>5, BlockFacts
    <3>7. QED
      BY <1>2, <3>2, <3>4, <3>5, <3>6 DEF Stop, Drained
  <2>3. QED
    BY <2>1, <2>2
<1>4. Left' = << >>
  BY <1>1, <1>3, NothingSentNext
<1>5. AtRest'
  BY <1>1, <1>3, <1>4 DEF AtRest, Drained
<1>6. QED
  BY <1>1, <1>2, <1>3, <1>5, BlockFacts, RunStep

\* The call returns its length, and the next one finds the functions of the block device.
LEMMA SmoothReturn ==
  ASSUME TransferInv, Good, mbr \/ complete \/ return
  PROVE  Good'
<1>1. /\ pc \in {"mbr", "complete", "ret"} /\ todo = << >>
      /\ UNCHANGED <<card, dat, line, rca, bd, hostWide, todo, intr>>
  BY DEF mbr, complete, return, At, hw, TransferInv, Places
<1>2. Left' = << >>
  BY <1>1, NothingSentNext
<1>3. NoOp.num = 1 /\ [NoOp EXCEPT !.kind = "mbr"].num = 1 /\ [NoOp EXCEPT !.kind = "mbr"].kind = "mbr"
  BY DEF NoOp
<1>4. CASE pc = "mbr"
  <2>1. pc' = "ensure" /\ op' = [NoOp EXCEPT !.kind = "mbr"] /\ UNCHANGED <<err>>
    BY <1>4 DEF mbr, complete, return, At
  <2>2. AtRest'
    BY <1>1, <1>2, <1>4, <2>1, CallFacts DEF AtRest, Drained
  <2>3. op'.num = 1 /\ op'.kind = "mbr"
    BY <1>3, <2>1
  <2>4. QED
    BY <1>1, <1>4, <2>1, <2>2, <2>3, CallFacts, RunStep
<1>5. CASE pc = "complete"
  <2>1. pc' = "ret" /\ result' = "num" /\ UNCHANGED <<err, op, fsdev>>
    BY <1>5 DEF mbr, complete, return, At, Finish
  <2>2. AtRest'
    BY <1>1, <1>2, <1>5, <2>1, CallFacts DEF AtRest, Drained
  <2>3. QED
    BY <1>1, <1>5, <2>1, <2>2, CallFacts, RunStep
<1>6. CASE pc = "ret"
  <2>1. pc' = "idle" /\ op' = NoOp /\ err' = "E_NOERR" /\ fsdev' = IF op.kind = "mbr" THEN bd ELSE fsdev
    BY <1>6 DEF mbr, complete, return, At
  <2>2. AtRest'
    BY <1>1, <1>2, <1>6, <2>1, CallFacts DEF AtRest, Drained
  <2>3. fsdev'
    BY <1>1, <1>6, <2>1, CallFacts
  <2>4. QED
    BY <1>1, <1>3, <1>6, <2>1, <2>2, <2>3, CallFacts, RunStep
<1>7. QED
  BY <1>1, <1>4, <1>5, <1>6

\* A call of one block.
LEMMA SmoothCall ==
  ASSUME TransferInv, Good, multi' = FALSE,
         NEW kind \in {"read", "write"}, NEW n \in 0 .. 2, NEW lba, NEW aligned, call(kind, n, lba, aligned)
  PROVE  Good'
<1>1. /\ pc = "idle" /\ todo = << >>
      /\ UNCHANGED <<card, dat, line, rca, bd, hostWide, todo, intr, err, fsdev>>
  BY DEF call, hw, TransferInv, Places
<1>2. fsdev
  BY <1>1, CallFacts
<1>3. /\ pc' = "ensure" /\ multi' = (multi \/ n > 1)
      /\ op' = [kind |-> kind, num |-> IF n < 1 THEN 1 ELSE n, lba |-> lba, aligned |-> aligned]
  BY <1>2 DEF call
<1>4. op'.num = 1 /\ op'.kind = kind
  <2>1. ~(n > 1)
    BY <1>3
  <2>2. (IF n < 1 THEN 1 ELSE n) = 1
    BY <2>1
  <2>3. QED
    BY <1>3, <2>2
<1>5. Left' = << >>
  BY <1>1, NothingSentNext
<1>6. AtRest'
  BY <1>1, <1>3, <1>5, CallFacts DEF AtRest, Drained
<1>7. QED
  BY <1>1, <1>2, <1>3, <1>4, <1>6, CallFacts, RunStep

-----------------------------------------------------------------------------
(* The hardware *)

\* The states the commands lead to.
LEMMA AfterCommand ==
  /\ StateAfter("CMD0") = "idle" /\ StateAfter("ACMD41") = "ready" /\ StateAfter("CMD2") = "ident"
  /\ StateAfter("CMD3") = "stby" /\ StateAfter("CMD7") = "tran"
  /\ StateAfter("CMD17") = "data" /\ StateAfter("CMD24") = "rcv"
  /\ \A n \in {"CMD8", "CMD55", "INQUIRE", "CMD9", "CMD10", "CMD13", "ACMD6"} : StateAfter(n) = card.state
BY DEF StateAfter

\* The card takes a command it accepts.
LEMMA TakesCommand ==
  ASSUME TransferInv, Good, respond, UNCHANGED driver, Accepts(line), NEW n, n = Head(todo)
  PROVE  /\ Flow' /\ Left = todo /\ todo # << >> /\ Left' = Tail(todo)
         /\ Answer' = IF n = "ACMD41" THEN "complete" ELSE card.state
         /\ card'.state = StateAfter(n)
         /\ card'.rca = (CASE n = "CMD0" -> 0 [] n = "CMD3" -> Rca [] OTHER -> card.rca)
         /\ card'.app = (n = "CMD55")
         /\ card'.wide = (n = "ACMD6" \/ (n # "CMD0" /\ card.wide))
         /\ n \notin Transfers \cup {"CMD12"} => dat' = dat
         /\ n \in {"CMD17", "CMD24"} =>
              dat' = [dir |-> IF n = "CMD17" THEN "read" ELSE "write", block |-> line.arg, left |-> blkcnt,
                      ready |-> FALSE, multi |-> FALSE]
<1>1. line # None /\ line' = None
  BY DEF respond
<1>2. UNCHANGED <<pc, todo, phase, err, rca, then, tries, op, c, result, bd, fsdev, hostWide, blkcnt>>
  BY DEF respond, driver
<1>3. Polling /\ Polling' /\ line.name = n
  BY <1>1, <1>2 DEF Good, Flow, Polling
<1>4. intr' = intr \cup {"CMD_DONE"} /\ resp'.r = (IF n = "ACMD41" THEN "complete" ELSE card.state)
  BY <1>3 DEF respond
<1>5. Flow'
  BY <1>1, <1>2, <1>3, <1>4 DEF Good, Flow, ErrorPending, Errors
<1>6. Left = todo /\ todo # << >> /\ Left' = Tail(todo) /\ Answer' = resp'.r
  BY <1>1, <1>2, <1>3 DEF Left, Answer, Polling
<1>7. Execute(line)
  BY DEF respond
<1>8. /\ card'.state = StateAfter(n)
      /\ card'.rca = (CASE n = "CMD0" -> 0 [] n = "CMD3" -> Rca [] OTHER -> card.rca)
      /\ card'.app = (n = "CMD55")
      /\ card'.wide = (n = "ACMD6" \/ (n # "CMD0" /\ card.wide))
  BY <1>3, <1>7 DEF Execute
<1>9. /\ n \notin Transfers \cup {"CMD12"} => dat' = dat
      /\ n \in {"CMD17", "CMD24"} =>
              dat' = [dir |-> IF n = "CMD17" THEN "read" ELSE "write", block |-> line.arg, left |-> blkcnt,
                      ready |-> FALSE, multi |-> FALSE]
  <2>1. n \notin Transfers \cup {"CMD12"} => dat' = dat
    BY <1>3, <1>7 DEF Execute, Transfers
  <2>2. n \in {"CMD17", "CMD24"} =>
          dat' = [dir |-> IF n \in {"CMD17", "CMD18"} THEN "read" ELSE "write", block |-> line.arg,
                  left |-> blkcnt, ready |-> FALSE, multi |-> n \in {"CMD18", "CMD25"}]
    BY <1>3, <1>7, Zenon DEF Execute, Transfers
  <2>3. n \in {"CMD17", "CMD24"} => (n \in {"CMD18", "CMD25"}) = FALSE
    OBVIOUS
  <2>4. QED
    BY <2>1, <2>2, <2>3
<1>10. QED
  BY <1>4, <1>5, <1>6, <1>8, <1>9

\* A queue of one command and one of two.
LEMMA QueueFacts ==
  ASSUME NEW m, NEW n
  PROVE  Tail(<<n>>) = << >> /\ Head(<<n>>) = n /\ Tail(<<m, n>>) = <<n>> /\ Head(<<m, n>>) = m /\ << >> # <<n>>
OBVIOUS

\* The states in which the commands of sd_init are legal.
LEMMA LegalFacts ==
  /\ LegalIn["CMD0"] = CardStates /\ LegalIn["CMD8"] = {"idle"} /\ LegalIn["CMD55"] = {"idle"} \cup Selected
  /\ LegalIn["INQUIRE"] = {"idle"} /\ LegalIn["ACMD41"] = {"idle"} /\ LegalIn["CMD2"] = {"ready"}
  /\ LegalIn["CMD3"] = {"ident"} /\ LegalIn["CMD9"] = {"stby"} /\ LegalIn["CMD10"] = {"stby"}
  /\ LegalIn["CMD13"] = Selected /\ LegalIn["CMD7"] = {"stby"} /\ LegalIn["ACMD6"] = {"tran"}
  /\ LegalIn["CMD17"] = {"tran"} /\ LegalIn["CMD24"] = {"tran"}
BY DEF LegalIn

\* What is on the line at the places of sd_init: the card's state is the one it is legal in.
IdentifyLine ==
  \/ pc = "CMD8" /\ todo = <<"CMD0">> /\ card.state = "idle"
  \/ pc = "inquire" /\ todo = <<"CMD8">> /\ card.state = "idle"
  \/ pc = "inquired" /\ todo = <<"CMD55", "INQUIRE">> /\ card.state = "idle"
  \/ pc = "inquired" /\ todo = <<"INQUIRE">> /\ card.state = "idle"
  \/ pc = "op_cond" /\ todo = <<"CMD55", "ACMD41">> /\ card.state = "idle" /\ tries = Tries - 1
  \/ pc = "op_cond" /\ todo = <<"ACMD41">> /\ card.state = "idle" /\ tries = Tries - 1
  \/ pc = "CMD3" /\ todo = <<"CMD2">> /\ card.state = "ready"

SelectLine ==
  \/ pc = "CMD10" /\ todo = <<"CMD9">> /\ card.state = "stby"
  \/ pc = "CMD13" /\ todo = <<"CMD10">> /\ card.state = "stby"
  \/ pc = "standby" /\ todo = <<"CMD13">> /\ card.state = "stby"
  \/ pc = "select" /\ todo = <<"CMD7">> /\ card.state = "stby"
  \/ pc = "selected" /\ todo = <<"CMD13">> /\ card.state = "tran"
  \/ pc = "done" /\ todo = <<"CMD55", "ACMD6">> /\ card.state = "tran"
  \/ pc = "done" /\ todo = <<"ACMD6">> /\ card.state = "tran"

AddressLine == pc = "addressed" /\ todo = <<"CMD3">> /\ card.state = "ident"

\* One of these commands is what sd_cmd waits for at a place of sd_init.
LEMMA BootLine ==
  ASSUME Booting, todo # << >>, Left = todo
  PROVE  \/ IdentifyLine /\ rca = 0
         \/ AddressLine /\ rca = 1
         \/ SelectLine /\ rca = Rca
<1>1. CASE Identify
  BY <1>1 DEF Identify, Stage, NoneLeft, One, App, IdentifyLine
<1>2. CASE Select
  BY <1>2 DEF Select, Stage, NoneLeft, One, App, SelectLine, AddressLine
<1>3. QED
  BY <1>1, <1>2 DEF Booting

\* The card takes the commands up to CMD2.
LEMMA SmoothIdentify ==
  ASSUME TransferInv, Good, Booting, respond, UNCHANGED driver, IdentifyLine, rca = 0
  PROVE  Good'
<1>1. /\ line # None /\ Polling /\ line = [name |-> Head(todo), arg |-> Arg(Head(todo))]
      /\ line.name = Head(todo) /\ line.arg = Arg(Head(todo))
  BY DEF respond, Good, Flow
<1>2. UNCHANGED <<pc, rca, then, tries, op, hostWide>>
  BY DEF respond, driver
<1>3. dat = NoData /\ ~hostWide /\ then = "boot" /\ card.rca = 0 /\ Left = todo /\ todo # << >> /\ ~card.wide
  BY <1>1 DEF Booting, Left, IdentifyLine, Selected, Polling
<1>4. Accepts(line)
  <2>1. Head(todo) \in {"CMD0", "CMD8", "CMD55", "INQUIRE", "ACMD41", "CMD2"}
    BY DEF IdentifyLine
  <2>2. card.state \in LegalIn[Head(todo)]
    BY LegalFacts DEF IdentifyLine, CardStates
  <2>3. line.name \in Addressed => line.arg = card.rca
    BY <1>1, <1>3, <2>1 DEF Arg
  <2>4. line.name \in AfterCMD55 => card.app
    BY <1>1, <1>3 DEF IdentifyLine, Booting, AfterCMD55
  <2>5. QED
    BY <1>1, <2>2, <2>3, <2>4 DEF Accepts
<1>5. /\ Flow' /\ Left' = Tail(todo)
      /\ Answer' = IF Head(todo) = "ACMD41" THEN "complete" ELSE card.state
      /\ card'.state = StateAfter(Head(todo))
      /\ card'.rca = (CASE Head(todo) = "CMD0" -> 0 [] Head(todo) = "CMD3" -> Rca [] OTHER -> card.rca)
      /\ card'.app = (Head(todo) = "CMD55")
      /\ card'.wide = (Head(todo) = "ACMD6" \/ (Head(todo) # "CMD0" /\ card.wide))
      /\ Head(todo) \notin Transfers \cup {"CMD12"} => dat' = dat
  BY <1>4, TakesCommand
<1>6. /\ Head(todo) \in {"CMD0", "CMD8", "CMD55", "INQUIRE", "ACMD41", "CMD2"}
  BY DEF IdentifyLine
<1>7. card'.rca = 0 /\ card'.wide = FALSE /\ dat' = NoData
  BY <1>3, <1>5, <1>6 DEF Transfers
<1>8. \A n \in AfterCMD55 : Left' = <<n>> => card'.app
  <2>1. Head(todo) = "CMD55" \/ Tail(todo) = << >>
    <3>1. (\E n : todo = <<n>>) \/ (\E n : todo = <<"CMD55", n>>)
      BY DEF IdentifyLine
    <3>2. QED
      BY <3>1, QueueFacts
  <2>2. TAKE n \in AfterCMD55
  <2>3. << >> # <<n>>
    OBVIOUS
  <2>4. QED
    BY <1>5, <2>1, <2>3
<1>9. Identify' /\ card'.state \notin Selected /\ pc' # "done"
  <2>1. CASE pc = "CMD8" /\ todo = <<"CMD0">> /\ card.state = "idle"
    BY <1>2, <1>5, <2>1, AfterCommand DEF Identify, Stage, One, Selected
  <2>2. CASE pc = "inquire" /\ todo = <<"CMD8">> /\ card.state = "idle"
    BY <1>2, <1>5, <2>2, AfterCommand DEF Identify, Stage, One, Selected
  <2>3. CASE pc = "inquired" /\ todo = <<"CMD55", "INQUIRE">> /\ card.state = "idle"
    BY <1>2, <1>5, <2>3, AfterCommand DEF Identify, Stage, App, Selected
  <2>4. CASE pc = "inquired" /\ todo = <<"INQUIRE">> /\ card.state = "idle"
    BY <1>2, <1>5, <2>4, AfterCommand DEF Identify, Stage, App, Selected
  <2>5. CASE pc = "op_cond" /\ todo = <<"CMD55", "ACMD41">> /\ card.state = "idle" /\ tries = Tries - 1
    BY <1>2, <1>5, <2>5, AfterCommand DEF Identify, Stage, App, Selected
  <2>6. CASE pc = "op_cond" /\ todo = <<"ACMD41">> /\ card.state = "idle" /\ tries = Tries - 1
    BY <1>2, <1>5, <2>6, AfterCommand DEF Identify, Stage, App, Selected
  <2>7. CASE pc = "CMD3" /\ todo = <<"CMD2">> /\ card.state = "ready"
    BY <1>2, <1>5, <2>7, AfterCommand DEF Identify, Stage, One, Selected
  <2>8. QED
    BY <2>1, <2>2, <2>3, <2>4, <2>5, <2>6, <2>7 DEF IdentifyLine
<1>10. Booting'
  <2>1. card'.wide = (pc' = "done" /\ Left' = << >>)
    BY <1>7, <1>9
  <2>2. QED
    BY <1>2, <1>3, <1>7, <1>8, <1>9, <2>1 DEF Booting
<1>11. QED
  BY <1>5, <1>10 DEF Good

\* The card takes its address.
LEMMA SmoothAddress ==
  ASSUME TransferInv, Good, Booting, respond, UNCHANGED driver, AddressLine, rca = 1
  PROVE  Good'
<1>1. /\ line # None /\ Polling /\ line = [name |-> "CMD3", arg |-> Arg("CMD3")]
      /\ line.name = "CMD3" /\ Head(todo) = "CMD3" /\ Tail(todo) = << >>
  BY DEF respond, Good, Flow, AddressLine
<1>2. UNCHANGED <<pc, rca, then, tries, op, hostWide>>
  BY DEF respond, driver
<1>3. dat = NoData /\ ~hostWide /\ then = "boot" /\ ~card.wide
  BY DEF Booting, AddressLine
<1>4. Accepts(line)
  BY <1>1, LegalFacts DEF Accepts, AddressLine, Addressed, AfterCMD55
<1>5. /\ Flow' /\ Left' = << >> /\ Answer' = card.state
      /\ card'.state = StateAfter("CMD3") /\ card'.rca = Rca /\ card'.wide = FALSE
      /\ "CMD3" \notin Transfers \cup {"CMD12"} => dat' = dat
  BY <1>1, <1>3, <1>4, TakesCommand
<1>6. Select' /\ card'.state \in Selected /\ pc' # "done"
  BY <1>2, <1>5, AfterCommand DEF Select, Stage, One, Selected, AddressLine
<1>7. Booting'
  <2>1. card'.wide = (pc' = "done" /\ Left' = << >>)
    BY <1>5, <1>6
  <2>2. dat' = NoData /\ \A n \in AfterCMD55 : Left' # <<n>>
    BY <1>3, <1>5 DEF Transfers
  <2>3. QED
    BY <1>2, <1>3, <1>5, <1>6, <2>1, <2>2 DEF Booting
<1>8. QED
  BY <1>5, <1>7 DEF Good

\* The card takes the commands that carry its address.
LEMMA SmoothSelect ==
  ASSUME TransferInv, Good, Booting, respond, UNCHANGED driver, SelectLine, rca = Rca
  PROVE  Good'
<1>1. /\ line # None /\ Polling /\ line = [name |-> Head(todo), arg |-> Arg(Head(todo))]
      /\ line.name = Head(todo) /\ line.arg = Arg(Head(todo))
  BY DEF respond, Good, Flow
<1>2. UNCHANGED <<pc, rca, then, tries, op, hostWide>>
  BY DEF respond, driver
<1>3. dat = NoData /\ ~hostWide /\ then = "boot" /\ card.rca = Rca /\ Left = todo /\ todo # << >> /\ ~card.wide
  BY <1>1 DEF Booting, Left, SelectLine, Selected, Polling
<1>4. /\ Head(todo) \in {"CMD9", "CMD10", "CMD13", "CMD7", "CMD55", "ACMD6"}
  BY DEF SelectLine
<1>5. Accepts(line)
  <2>1. card.state \in LegalIn[Head(todo)]
    BY LegalFacts DEF SelectLine, Selected
  <2>2. line.name \in Addressed => line.arg = card.rca
    BY <1>1, <1>3 DEF Arg
  <2>3. line.name \in AfterCMD55 => card.app
    BY <1>1, <1>3 DEF SelectLine, Booting, AfterCMD55
  <2>4. QED
    BY <1>1, <2>1, <2>2, <2>3 DEF Accepts
<1>6. /\ Flow' /\ Left' = Tail(todo)
      /\ Answer' = IF Head(todo) = "ACMD41" THEN "complete" ELSE card.state
      /\ card'.state = StateAfter(Head(todo))
      /\ card'.rca = (CASE Head(todo) = "CMD0" -> 0 [] Head(todo) = "CMD3" -> Rca [] OTHER -> card.rca)
      /\ card'.app = (Head(todo) = "CMD55")
      /\ card'.wide = (Head(todo) = "ACMD6" \/ (Head(todo) # "CMD0" /\ card.wide))
      /\ Head(todo) \notin Transfers \cup {"CMD12"} => dat' = dat
  BY <1>5, TakesCommand
<1>7. card'.rca = Rca /\ (card'.wide <=> Head(todo) = "ACMD6") /\ card'.wide \in BOOLEAN /\ dat' = NoData
  BY <1>3, <1>4, <1>6 DEF Transfers
<1>8. \A n \in AfterCMD55 : Left' = <<n>> => card'.app
  <2>1. Head(todo) = "CMD55" \/ Tail(todo) = << >>
    <3>1. (\E n : todo = <<n>>) \/ (\E n : todo = <<"CMD55", n>>)
      BY DEF SelectLine
    <3>2. QED
      BY <3>1, QueueFacts
  <2>2. TAKE n \in AfterCMD55
  <2>3. << >> # <<n>>
    OBVIOUS
  <2>4. QED
    BY <1>6, <2>1, <2>3
<1>9. Select' /\ card'.state \in Selected /\ (pc' = "done" /\ Left' = << >> <=> Head(todo) = "ACMD6")
  <2>1. CASE pc = "CMD10" /\ todo = <<"CMD9">> /\ card.state = "stby"
    BY <1>2, <1>6, <2>1, AfterCommand DEF Select, Stage, One, Selected
  <2>2. CASE pc = "CMD13" /\ todo = <<"CMD10">> /\ card.state = "stby"
    BY <1>2, <1>6, <2>2, AfterCommand DEF Select, Stage, One, Selected
  <2>3. CASE pc = "standby" /\ todo = <<"CMD13">> /\ card.state = "stby"
    BY <1>2, <1>6, <2>3, AfterCommand DEF Select, Stage, One, Selected
  <2>4. CASE pc = "select" /\ todo = <<"CMD7">> /\ card.state = "stby"
    BY <1>2, <1>6, <2>4, AfterCommand DEF Select, Stage, One, Selected
  <2>5. CASE pc = "selected" /\ todo = <<"CMD13">> /\ card.state = "tran"
    BY <1>2, <1>6, <2>5, AfterCommand DEF Select, Stage, One, Selected
  <2>6. CASE pc = "done" /\ todo = <<"CMD55", "ACMD6">> /\ card.state = "tran"
    BY <1>2, <1>6, <2>6, AfterCommand DEF Select, Stage, App, Selected
  <2>7. CASE pc = "done" /\ todo = <<"ACMD6">> /\ card.state = "tran"
    BY <1>2, <1>6, <2>7, AfterCommand DEF Select, Stage, App, Selected
  <2>8. QED
    BY <2>1, <2>2, <2>3, <2>4, <2>5, <2>6, <2>7 DEF SelectLine
<1>10. card'.wide = (pc' = "done" /\ Left' = << >>)
  BY <1>7, <1>9
<1>11. Booting'
  BY <1>2, <1>3, <1>7, <1>8, <1>9, <1>10 DEF Booting
<1>12. QED
  BY <1>6, <1>11 DEF Good

\* The card takes the commands of a call.
LEMMA SmoothCommand ==
  ASSUME TransferInv, Good, Running, respond, UNCHANGED driver
  PROVE  Good'
<1>1. /\ line # None /\ Polling /\ line.name = Head(todo) /\ line.arg = Arg(Head(todo))
      /\ Left = todo /\ todo # << >> /\ op.num = 1
  BY DEF respond, Good, Flow, Left, Polling
<1>2. UNCHANGED <<pc, rca, then, tries, op, hostWide, blkcnt, c, result, bd, fsdev>>
  BY DEF respond, driver
<1>3. CASE AtRest
  <2>1. /\ pc = "E2" /\ todo = <<"CMD13">> /\ card.state = "tran" /\ Drained
        /\ Head(todo) = "CMD13" /\ Tail(todo) = << >>
    BY <1>1, <1>3, QueueFacts DEF AtRest, One
  <2>2. Accepts(line)
    BY <1>1, <2>1, LegalFacts DEF Accepts, Running, Selected, Arg, AfterCMD55, Addressed
  <2>3. /\ Flow' /\ Left' = << >> /\ Answer' = "tran"
        /\ card'.state = StateAfter("CMD13") /\ card'.rca = card.rca /\ card'.wide = card.wide
        /\ "CMD13" \notin Transfers \cup {"CMD12"} => dat' = dat
    <3>1. card.wide \in BOOLEAN
      BY DEF TransferInv, HwType, Cards
    <3>2. QED
      BY <2>1, <2>2, <3>1, TakesCommand
  <2>4. AtRest'
    BY <1>2, <2>1, <2>3, AfterCommand DEF AtRest, One, Drained, Transfers
  <2>5. Running'
    BY <1>2, <2>3, <2>4 DEF Running
  <2>6. QED
    BY <2>3, <2>5 DEF Good
<1>4. CASE OneBlock
  <2>1. /\ pc = "block" /\ todo = <<TransferCmd>> /\ c = 0 /\ card.state = "tran" /\ dat = NoData /\ blkcnt = 1
        /\ Head(todo) = TransferCmd /\ Tail(todo) = << >>
    BY <1>1, <1>4, QueueFacts DEF OneBlock
  <2>2. TransferCmd = IF Reading THEN "CMD17" ELSE "CMD24"
    BY <1>1 DEF TransferCmd
  <2>3. Accepts(line)
    BY <1>1, <2>1, <2>2, LegalFacts DEF Accepts, AfterCMD55, Addressed
  <2>4. card.wide \in BOOLEAN
    BY DEF TransferInv, HwType, Cards
  <2>5. /\ Flow' /\ Left' = << >>
        /\ card'.state = StateAfter(TransferCmd) /\ card'.rca = card.rca /\ card'.wide = card.wide
        /\ dat' = [dir |-> IF TransferCmd = "CMD17" THEN "read" ELSE "write", block |-> line.arg,
                   left |-> blkcnt, ready |-> FALSE, multi |-> FALSE]
    BY <2>1, <2>2, <2>3, <2>4, TakesCommand
  <2>6. /\ dat'.left = 1 /\ ~dat'.ready /\ ~dat'.multi /\ dat'.dir = IF Reading THEN "read" ELSE "write"
        /\ card'.state = IF Reading THEN "data" ELSE "rcv"
    BY <2>1, <2>2, <2>5, AfterCommand
  <2>7. Reading' = Reading
    BY <1>2 DEF Reading
  <2>8. OneBlock'
    BY <1>2, <2>1, <2>5, <2>6, <2>7 DEF OneBlock
  <2>9. Running'
    BY <1>2, <2>5, <2>8 DEF Running
  <2>10. QED
    BY <2>5, <2>9 DEF Good
<1>5. QED
  BY <1>3, <1>4 DEF Running

\* The hardware at work does what the call waits for.
LEMMA SmoothData ==
  ASSUME TransferInv, Good, data_ready \/ data_done \/ programmed, UNCHANGED driver
  PROVE  Good'
<1>1. UNCHANGED <<pc, todo, phase, res, err, rca, then, tries, op, c, result, bd, fsdev, hostWide, blkcnt, line, resp>>
  BY DEF data_ready, data_done, programmed, driver
<1>2. Left' = Left /\ Answer' = Answer /\ Polling' = Polling /\ Reading' = Reading
  BY <1>1 DEF Left, Answer, Polling, Reading
<1>3. intr \subseteq intr' /\ (~ErrorPending => ~ErrorPending')
  BY DEF data_ready, data_done, programmed, ErrorPending, Errors
<1>4. Flow'
  BY <1>1, <1>2, <1>3 DEF Good, Flow, Arg
<1>5. /\ card'.rca = card.rca /\ card'.wide = card.wide
      /\ dat \in Dats /\ card \in Cards
  BY DEF data_ready, data_done, programmed, TransferInv, HwType, Cards
<1>6. NoData.left = 0
  BY DEF NoData
<1>7. Running
  <2>1. ASSUME Booting PROVE FALSE
    <3>1. dat = NoData /\ card.state # "prg"
      BY <2>1 DEF Booting, Identify, Select, Stage
    <3>2. QED
      BY <1>6, <3>1 DEF data_ready, data_done, programmed
  <2>2. QED
    BY <2>1 DEF Good
<1>8. (AtRest \/ OneBlock)'
  <2>1. CASE data_ready
    <3>1. /\ dat.left > 0 /\ dat' = [dat EXCEPT !.ready = TRUE]
          /\ intr' = intr \cup {IF dat.dir = "read" THEN "READ_RDY" ELSE "WRITE_RDY"}
          /\ card' = IF dat.dir = "read" /\ ~dat.multi THEN [card EXCEPT !.state = "tran"] ELSE card
      BY <2>1 DEF data_ready
    <3>2. OneBlock /\ Left = << >> /\ c = 0 /\ ~dat.multi /\ dat.left = 1
          /\ dat.dir = (IF Reading THEN "read" ELSE "write")
          /\ card.state = IF ~Reading THEN "rcv" ELSE IF dat.ready THEN "tran" ELSE "data"
      BY <1>6, <1>7, <3>1 DEF Running, AtRest, OneBlock, Drained
    <3>3. dat'.left = 1 /\ ~dat'.multi /\ dat'.dir = dat.dir /\ dat'.ready
      BY <1>5, <3>1, <3>2 DEF Dats
    <3>4. card'.state = IF ~Reading THEN "rcv" ELSE "tran"
      BY <1>5, <3>1, <3>2 DEF Cards
    <3>5. (IF Reading THEN "READ_RDY" ELSE "WRITE_RDY") \in intr'
      BY <3>1, <3>2
    <3>6. OneBlock'
      BY <1>1, <1>2, <3>2, <3>3, <3>4, <3>5 DEF OneBlock
    <3>7. QED
      BY <3>6
  <2>2. CASE data_done
    <3>1. /\ dat # NoData /\ dat.left = 0 /\ dat' = NoData /\ intr' = intr \cup {"DATA_DONE"} /\ card' = card
          /\ dat.multi \/ card.state # "prg"
      BY <2>2 DEF data_done
    <3>2. CASE AtRest
      BY <1>1, <1>2, <3>1, <3>2 DEF AtRest, One, Drained
    <3>3. CASE OneBlock
      BY <1>1, <1>2, <3>1, <3>3 DEF OneBlock, Drained
    <3>4. QED
      BY <1>7, <3>2, <3>3 DEF Running
  <2>3. CASE programmed
    <3>1. card.state = "prg" /\ card' = [card EXCEPT !.state = "tran"] /\ UNCHANGED <<intr, dat>>
      BY <2>3 DEF programmed
    <3>2. card'.state = "tran"
      BY <1>5, <3>1 DEF Cards
    <3>3. OneBlock /\ c = 1 /\ ~Reading /\ Left = << >>
      BY <1>7, <3>1 DEF Running, AtRest, OneBlock
    <3>4. OneBlock'
      BY <1>1, <1>2, <3>1, <3>2, <3>3 DEF OneBlock
    <3>5. QED
      BY <3>4
  <2>4. QED
    BY <2>1, <2>2, <2>3
<1>9. Running'
  BY <1>1, <1>5, <1>7, <1>8 DEF Running
<1>10. QED
  BY <1>4, <1>9 DEF Good

\* Whatever else the hardware does is a fault.
LEMMA OnlyFaults ==
  ASSUME TransferInv, Good, faults = 0, faults' = 0
  PROVE  /\ \A e \in Errors : ~data_error(e)
         /\ \A e \in Errors, heard \in BOOLEAN : ~lose(heard, e)
         /\ \A r \in {"busy", "novolt"} : ~power_up(r)
<1>1. ~Fault
  BY DEF Fault
<1>2. NoData.left = 0
  BY DEF NoData
<1>3. dat.left > 0 => hostWide = card.wide
  <2>1. CASE Booting
    BY <1>2, <2>1 DEF Booting
  <2>2. CASE Running
    BY <2>2 DEF Running, TransferInv, HwType, Cards
  <2>3. QED
    BY <2>1, <2>2 DEF Good
<1>4. QED
  BY <1>1, <1>3 DEF data_error, lose, power_up

-----------------------------------------------------------------------------
(* The theorem *)

\* Faults are only counted, and a transfer of several blocks is not forgotten.
LEMMA HistoryKept ==
  ASSUME faults \in Nat, multi \in BOOLEAN, [Next]_vars
  PROVE  faults' \in Nat /\ faults' >= faults /\ multi' \in BOOLEAN /\ (multi => multi')
<1>1. CASE Driver
  <2>1. UNCHANGED multi
    BY <1>1 DEF Driver, sd_cmd_send, sd_cmd_done, sd_init_reset, sd_clk, sd_init_send, sd_init_inquired,
       sd_init_op_cond, sd_init_rel_addr, sd_init_check, sd_init_done, ensure_rca, ensure_status,
       ensure_switch, ensure_check, mbr, transfer, read_block, write_block, read_end, write_end, complete,
       return
  <2>2. faults' = faults \/ Fault
    <3>1. CASE sd_cmd_done \/ read_block \/ write_block \/ write_end
      <4>1. PICK bit, code : sd_int(bit, code)
        BY <3>1 DEF sd_cmd_done, read_block, write_block, write_end
      <4>2. QED
        BY <4>1 DEF sd_int, Expire
    <3>2. CASE sd_init_reset \/ sd_clk \/ transfer
      BY <3>2 DEF sd_init_reset, sd_clk, transfer, Expire
    <3>3. QED
      BY <1>1, <3>1, <3>2 DEF Driver, sd_cmd_send, sd_init_send, sd_init_inquired,
       sd_init_op_cond, sd_init_rel_addr, sd_init_check, sd_init_done, ensure_rca, ensure_status,
       ensure_switch, ensure_check, mbr, read_end, complete, return, hw
  <2>3. QED
    BY <2>1, <2>2 DEF Fault
<1>2. CASE Client
  <2>1. CASE shutdown
    BY <2>1 DEF shutdown, hw
  <2>2. CASE \E kind \in {"read", "write"}, n \in 0 .. 2, lba \in 0 .. (NumBlocks - 1), aligned \in BOOLEAN :
               call(kind, n, lba, aligned)
    <3>1. PICK kind \in {"read", "write"}, n \in 0 .. 2, lba \in 0 .. (NumBlocks - 1), aligned \in BOOLEAN :
                call(kind, n, lba, aligned)
      BY <2>2
    <3>2. UNCHANGED faults /\ (multi' = (multi \/ n > 1) \/ multi' = multi)
      BY <3>1 DEF call, hw
    <3>3. faults' \in Nat /\ faults' >= faults
      BY <3>2
    <3>4. multi' \in BOOLEAN /\ (multi => multi')
      BY <3>2, Zenon
    <3>5. QED
      BY <3>3, <3>4
  <2>3. QED
    BY <1>2, <2>1, <2>2 DEF Client
<1>3. CASE Hardware /\ UNCHANGED driver
  <2>1. faults' = faults \/ Fault
    BY <1>3 DEF Hardware, respond, data_ready, data_done, programmed, data_error, lose, power_up
  <2>2. QED
    BY <1>3, <2>1 DEF driver, Fault
<1>4. CASE UNCHANGED vars
  BY <1>4 DEF vars, hw, driver
<1>5. QED
  BY <1>1, <1>2, <1>3, <1>4 DEF Next

\* Once the shell has ended nothing is called any more.
LEMMA OffStays ==
  ASSUME pc = "off", [Next]_vars
  PROVE  pc' = "off"
<1>1. CASE Driver
  BY <1>1 DEF Driver, sd_cmd_send, sd_cmd_done, sd_init_reset, sd_clk, sd_init_send, sd_init_inquired,
     sd_init_op_cond, sd_init_rel_addr, sd_init_check, sd_init_done, ensure_rca, ensure_status,
     ensure_switch, ensure_check, mbr, transfer, read_block, write_block, read_end, write_end, complete,
     return, At, AfterClk, Script, Expected
<1>2. CASE Client
  BY <1>2 DEF Client, call, shutdown
<1>3. CASE Hardware /\ UNCHANGED driver
  BY <1>3 DEF driver
<1>4. CASE UNCHANGED vars
  BY <1>4 DEF vars, driver
<1>5. QED
  BY <1>1, <1>2, <1>3, <1>4 DEF Next

\* As long as the hardware works and every transfer is of one block, sd_init and every call
\* after it go their way without an error.
THEOREM SmoothInvariant ==
  ASSUME Tries >= 2
  PROVE  Spec => []SmoothInv
<1>1. Init => SmoothInv
  <2> SUFFICES ASSUME Init PROVE SmoothInv
    OBVIOUS
  <2>1. Left = << >> /\ ~Polling
    BY NothingSent DEF Init
  <2>2. Flow
    BY <2>1 DEF Init, HwInit, Flow, ErrorPending, NoOp
  <2>3. Identify
    BY <2>1 DEF Init, HwInit, Identify, Stage, NoneLeft
  <2>4. Booting
    BY <2>1, <2>3 DEF Init, HwInit, Booting, Selected
  <2>5. QED
    BY <2>2, <2>4 DEF SmoothInv, Good, Init, HwInit
<1>2. TransferInv /\ SmoothInv /\ [Next]_vars => SmoothInv'
  <2> SUFFICES ASSUME TransferInv, SmoothInv, [Next]_vars PROVE SmoothInv'
    OBVIOUS
  <2>1. faults' \in Nat /\ faults' >= faults /\ multi' \in BOOLEAN /\ (multi => multi')
    BY HistoryKept DEF SmoothInv
  <2> SUFFICES ASSUME faults' = 0, multi' = FALSE, pc # "off" PROVE pc' = "off" \/ Good'
    BY <2>1, OffStays DEF SmoothInv
  <2>2. faults = 0 /\ ~multi /\ Good
    BY <2>1 DEF SmoothInv
  <2>3. CASE Driver
    BY <2>2, <2>3, SmoothSend, SmoothDone, SmoothReset, SmoothClk, SmoothScript, SmoothInquired,
       SmoothOpCond, SmoothRelAddr, SmoothCheck, SmoothInitDone, SmoothEnsure, SmoothTransfer, SmoothRead,
       SmoothWrite, SmoothEnd, SmoothReturn DEF Driver
  <2>4. CASE Client
    BY <2>2, <2>4, SmoothCall DEF Client, shutdown, Send
  <2>5. CASE Hardware /\ UNCHANGED driver
    <3>1. respond \/ data_ready \/ data_done \/ programmed
      BY <2>2, <2>5, OnlyFaults DEF Hardware
    <3>2. CASE respond
      <4>1. CASE Running
        BY <2>2, <2>5, <3>2, <4>1, SmoothCommand
      <4>2. CASE Booting
        <5>1. Left = todo /\ todo # << >>
          BY <2>2, <3>2 DEF respond, Left, Good, Flow, Polling
        <5>2. QED
          BY <2>2, <2>5, <3>2, <4>2, <5>1, BootLine, SmoothIdentify, SmoothAddress, SmoothSelect
      <4>3. QED
        BY <2>2, <4>1, <4>2 DEF Good
    <3>3. QED
      BY <2>2, <2>5, <3>1, <3>2, SmoothData
  <2>6. CASE UNCHANGED vars
    <3>1. UNCHANGED hw /\ UNCHANGED driver
      BY <2>6 DEF vars
    <3>2. UNCHANGED <<card, intr, line, resp, dat, blkcnt, hostWide>>
      BY <3>1 DEF hw
    <3>3. UNCHANGED <<pc, todo, phase, res, err, rca, bd, then, tries, op, c, result, fsdev>>
      BY <3>1 DEF driver
    <3>4. Left' = Left /\ Answer' = Answer /\ Polling' = Polling
      BY <3>2, <3>3 DEF Left, Answer, Polling
    <3>5. Flow'
      BY <2>2, <3>2, <3>3, <3>4 DEF Good, Flow, ErrorPending, Arg
    <3>6. (Booting \/ Running)'
      BY <2>2, <3>2, <3>3, <3>4, ViewKept DEF Good
    <3>7. QED
      BY <3>5, <3>6 DEF Good
  <2>7. QED
    BY <2>3, <2>4, <2>5, <2>6 DEF Next
<1>3. QED
  BY <1>1, <1>2, TransferInvariant, PTL DEF Spec

\* As long as the hardware works, every transfer of one block succeeds and the file system has
\* its functions, for every card and every number of rounds of ACMD41 but one.
THEOREM SdSingleBlocksSucceed ==
  ASSUME Tries >= 2
  PROVE  Spec => []SingleBlocksSucceed
<1>1. TransferInv /\ SmoothInv => SingleBlocksSucceed
  <2> SUFFICES ASSUME TransferInv, SmoothInv, faults = 0, ~multi
               PROVE  (pc = "ret" => result = "num") /\ pc # "wild"
    BY DEF SingleBlocksSucceed
  <2>1. CASE pc = "off"
    BY <2>1
  <2>2. CASE Good /\ pc = "ret"
    <3>1. todo = << >>
      BY <2>2 DEF TransferInv, Places
    <3>2. Running
      BY <2>2, <3>1, CallFacts
    <3>3. QED
      BY <2>2, <3>2 DEF Running, AtRest, OneBlock
  <2>3. CASE Good /\ pc # "ret"
    <3>1. CASE Running
      BY <2>3, <3>1, RunPlaces
    <3>2. CASE Booting
      BY <2>3, <3>2 DEF Booting, Identify, Select, Stage
    <3>3. QED
      BY <2>3, <3>1, <3>2 DEF Good
  <2>4. QED
    BY <2>1, <2>2, <2>3 DEF SmoothInv
<1>2. QED
  BY <1>1, SmoothInvariant, TransferInvariant, PTL
=============================================================================
