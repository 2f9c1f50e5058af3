--------------------------- MODULE SdioCmdProofs ---------------------------
(***************************************************************************)
(* Proofs about SdioCmd, for every number of command structures and of     *)
(* retries: the types, that hc->wspc.cmd never dangles, that a command     *)
(* reported as done was executed, and that the controller moves no data    *)
(* once a request has returned.                                            *)
(***************************************************************************)
EXTENDS SdioCmd, TLAPS

Frame == [cmd : Cmds \cup {None}, kind : Kinds, retry : 0 .. CmdRetries]

(* The driver thread is in _sdio_send_cmd or next to it. *)
InSend == {"begin", "issue", "start", "wait", "abort", "done", "ret"}

(***************************************************************************)
(* The frames of the driver thread: one command of the request, and above  *)
(* it, during a reset only, one command of the reset.  From the allocation *)
(* on the innermost frame has a command structure.                         *)
(***************************************************************************)
FrameShape ==
  /\ dpc \in InSend /\ tries = 0 => Len(fr) = 1 /\ fr[1].kind # "init"
  /\ dpc \in InSend /\ tries # 0 =>
       Len(fr) >= 1 /\ fr[1].kind = "init" /\ (Len(fr) = 2 => fr[2].kind # "init")
  /\ dpc = "power" =>
       tries # 0 /\ Len(fr) <= 1 /\ (Len(fr) = 1 => fr[1].kind # "init")
  /\ dpc \in {"idle", "mark"} => Len(fr) = 0 /\ tries = 0
  /\ dpc \in {"issue", "start", "wait", "abort", "done"} => fr[1].cmd \in Cmds

(***************************************************************************)
(* hc->wspc.cmd is cleared by whatever sets the status of a command, so    *)
(* that the HC thread finds a command there only before it has a status.   *)
(***************************************************************************)
WorkSpace ==
  /\ dpc = "done" => wspc = None /\ hpc # "cmplt"
  /\ dpc \in {"start", "wait"} /\ cstat[Cur] # "inprog" =>
       wspc = None /\ hpc # "cmplt"
  /\ hpc = "cmplt" => hcmd \in Cmds

(***************************************************************************)
(* What the HC thread has in its hands is of the command that the driver   *)
(* thread waits for, or late; a status without an error stands for an      *)
(* execution, in the register, in its hands and in the command, unless the *)
(* command got the status of another one (stray).                          *)
(***************************************************************************)
StatusTrue ==
  /\ hpc # "idle" /\ ~late => dpc = "wait" /\ ("ERR" \in sts \/ execd)
  /\ hpc = "cmplt" /\ ~late => hcmd = Cur
  /\ dpc = "wait" /\ is # {} => "ERR" \in is \/ execd
  /\ dpc = "start" /\ cstat[Cur] # "inprog" => stray
  /\ dpc \in {"wait", "done"} /\ cstat[Cur] = "cmp" => execd \/ stray
  /\ dpc = "ret" /\ res = "EOK" => execd \/ stray

(***************************************************************************)
(* A transfer runs while the driver thread waits for it, or has given it   *)
(* up and is on its way to the reset of the controller.                    *)
(***************************************************************************)
TransferOwned ==
  "data" \in hw /\ dev = "present" /\ ~stray =>
    /\ dpc \in {"wait", "abort", "power"}
    /\ dpc = "wait" => /\ cstat[Cur] = "inprog" /\ is = {} /\ "cmd" \notin hw
                       /\ (hpc = "idle" \/ late)
    /\ dpc \in {"wait", "abort"} => Top.kind # "init"

CmdInv ==
  TypeOK /\ FrameShape /\ NoDangling /\ WorkSpace /\ StatusTrue /\ TransferOwned
-----------------------------------------------------------------------------
(* TypeOK in parts, for the provers. *)
FramesOK == fr \in Seq(Frame) /\ Len(fr) <= 2

DriverOK ==
  /\ dpc \in {"idle", "begin", "issue", "start", "wait", "abort", "power",
             "done", "ret", "mark"}
  /\ tries \in 0 .. ResetRetries
  /\ res \in {"EOK", "ENXIO", "error"}

CmdsOK ==
  /\ clist \in Seq(Cmds)
  /\ cstat \in [Cmds -> {"inprog", "cmp", "err", "removed"}]
  /\ wspc \in Cmds \cup {None} /\ hcmd \in Cmds \cup {None}

CtrlOK ==
  /\ hpc \in {"idle", "sts", "cmplt"}
  /\ is \subseteq {"CC", "TC", "ERR"}
  /\ sts \subseteq {"CC", "TC", "ERR"}
  /\ ie \subseteq {"CC", "TC", "ERR"}
  /\ hw \subseteq {"cmd", "data"}
  /\ dev \in {"present", "cleared", "rmv"}
  /\ cache \in {"clean", "dirty", "off", "lost"}

FlagsOK ==
  /\ write \in BOOLEAN /\ incard \in BOOLEAN /\ wp \in BOOLEAN
  /\ execd \in BOOLEAN /\ late \in BOOLEAN /\ stray \in BOOLEAN

(* The parts of TypeOK are the whole of it, for the state of sdio_issue_cmd *)
(* and of the threads around it.                                            *)
LEMMA TypeParts ==
  TypeOK <=> FramesOK /\ DriverOK /\ CmdsOK /\ CtrlOK /\ FlagsOK
BY DEF TypeOK, FramesOK, Frame, DriverOK, CmdsOK, CtrlOK, FlagsOK

(* The same after a step. *)
LEMMA TypePartsPrimed ==
  TypeOK' <=> FramesOK' /\ DriverOK' /\ CmdsOK' /\ CtrlOK' /\ FlagsOK'
BY DEF TypeOK, FramesOK, Frame, DriverOK, CmdsOK, CtrlOK, FlagsOK

(* Entering a routine that sends a command puts a frame on top (Send). *)
LEMMA PushFrame ==
  ASSUME NEW up \in Seq(Frame), NEW f \in Frame
  PROVE  /\ <<f>> \o up \in Seq(Frame)
         /\ Len(<<f>> \o up) = Len(up) + 1
         /\ (<<f>> \o up)[1] = f
         /\ Len(up) = 1 => (<<f>> \o up)[2] = up[1]
OBVIOUS

(* Returning from it takes the frame off (Then, Answer, _sdio_reset). *)
LEMMA PopFrame ==
  ASSUME NEW up \in Seq(Frame), Len(up) >= 1
  PROVE  /\ Tail(up) \in Seq(Frame)
         /\ Len(Tail(up)) = Len(up) - 1
         /\ Len(up) = 2 => Tail(up)[1] = up[2]
         /\ Len(up) = 1 => Tail(up) = << >>
OBVIOUS

(* The frame that Send makes is one: the retries of a command are at most   *)
(* SDIO_CMD_RETRIES.                                                        *)
LEMMA NewFrame ==
  ASSUME NEW k \in Kinds
  PROVE  [cmd |-> None, kind |-> k, retry |-> Retries(k)] \in Frame
BY SdioCmdAssumption DEF Frame, Retries

(* Send on an empty stack, as sdmmc_rw does for each of its commands. *)
LEMMA SendFirst ==
  ASSUME NEW k \in Kinds \ {"init"}, Send(k, << >>)
  PROVE  /\ dpc' = "begin" /\ fr' \in Seq(Frame)
         /\ Len(fr') = 1 /\ fr'[1].kind # "init"
<1> DEFINE f == [cmd |-> None, kind |-> k, retry |-> Retries(k)]
<1>1. f \in Frame /\ f.kind = k
  BY NewFrame
<1>2. << >> \in Seq(Frame)
  OBVIOUS
<1>3. fr' = <<f>> \o << >> /\ dpc' = "begin"
  BY DEF Send
<1> HIDE DEF f
<1> QED
  BY <1>1, <1>2, <1>3, PushFrame

(* Allocating a command and counting down its retries change the innermost *)
(* frame only.                                                             *)
LEMMA SetCmd ==
  ASSUME NEW up \in Seq(Frame), Len(up) >= 1, NEW c \in Cmds,
         NEW new, new = [up EXCEPT ![1].cmd = c]
  PROVE  /\ new \in Seq(Frame) /\ Len(new) = Len(up)
         /\ new[1].cmd = c /\ new[1].kind = up[1].kind
         /\ Len(up) = 2 => new[2] = up[2]
<1>1. up[1] \in Frame
  OBVIOUS
<1>2. [up[1] EXCEPT !.cmd = c] \in Frame
  BY <1>1 DEF Frame
<1>3. new = [up EXCEPT ![1] = [up[1] EXCEPT !.cmd = c]]
  OBVIOUS
<1> QED
  BY <1>1, <1>2, <1>3 DEF Frame

(* The same for the retry count of _sdio_send_cmd. *)
LEMMA SetRetry ==
  ASSUME NEW up \in Seq(Frame), Len(up) >= 1, up[1].retry > 0,
         NEW new, new = [up EXCEPT ![1].retry = @ - 1]
  PROVE  /\ new \in Seq(Frame) /\ Len(new) = Len(up)
         /\ new[1].cmd = up[1].cmd /\ new[1].kind = up[1].kind
         /\ Len(up) = 2 => new[2] = up[2]
<1>1. up[1] \in Frame
  OBVIOUS
<1>2. [up[1] EXCEPT !.retry = @ - 1] \in Frame
  <2>1. up[1].retry \in 0 .. CmdRetries /\ CmdRetries \in Nat
    BY <1>1, SdioCmdAssumption DEF Frame
  <2>2. up[1].retry - 1 \in 0 .. CmdRetries
    BY <2>1
  <2> QED
    BY <1>1, <2>2 DEF Frame
<1>3. new = [up EXCEPT ![1] = [up[1] EXCEPT !.retry = @ - 1]]
  OBVIOUS
<1> QED
  BY <1>1, <1>2, <1>3 DEF Frame

(* FreeCmd gives a command structure back to the free list. *)
LEMMA FreeKeepsTypes ==
  ASSUME FramesOK, CmdsOK, Len(fr) >= 1, FreeCmd
  PROVE  /\ clist' \in Seq(Cmds)
         /\ cstat' \in [Cmds -> {"inprog", "cmp", "err", "removed"}]
<1>1. fr[1] \in Frame
  BY DEF FramesOK
<1>2. Cur \in Cmds \cup {None}
  BY <1>1 DEF Frame, Cur, Top
<1> QED
  BY <1>2 DEF CmdsOK, FreeCmd
-----------------------------------------------------------------------------
(* sdmmc_driver_thread takes a request. *)
LEMMA StepRequest == CmdInv /\ Request => CmdInv'
<1> SUFFICES ASSUME CmdInv, Request PROVE CmdInv'
  OBVIOUS
<1> USE SdioCmdAssumption DEF CmdInv, Request, driver, cmdmem, hcth, ctrl,
  slot, ghost
<1>0. /\ dpc' = "begin" /\ fr' \in Seq(Frame)
      /\ Len(fr') = 1 /\ fr'[1].kind # "init"
  BY SendFirst DEF Kinds
<1>1. TypeOK'
  <2> USE TypeParts
  <2>1. FramesOK'
    BY <1>0 DEF FramesOK, FrameShape, InSend
  <2>2. DriverOK'
    BY <1>0 DEF DriverOK, FrameShape, InSend
  <2>3. CmdsOK'
    BY DEF CmdsOK, FrameShape, Cur, Top
  <2>4. CtrlOK'
    BY DEF CtrlOK
  <2>5. FlagsOK'
    BY DEF FlagsOK
  <2> QED
    BY <2>1, <2>2, <2>3, <2>4, <2>5, TypePartsPrimed
<1>2. FrameShape'
  BY <1>0 DEF TypeOK, FrameShape, InSend, Frame, Cur, Top
<1>3. NoDangling'
  BY <1>0 DEF TypeOK, NoDangling, WorkSpace, FrameShape, Cur, Top
<1>4. WorkSpace'
  BY <1>0 DEF TypeOK, NoDangling, WorkSpace, FrameShape, Cur, Top
<1>5. StatusTrue'
  BY <1>0 DEF TypeOK, FrameShape, NoDangling, WorkSpace, StatusTrue, Cur, Top
<1>6. TransferOwned'
  BY <1>0 DEF TypeOK, FrameShape, InSend, NoDangling, WorkSpace, StatusTrue, TransferOwned,
     Cur, Top
<1> QED
  BY <1>1, <1>2, <1>3, <1>4, <1>5, <1>6

(* A command structure is allocated, or the device is being removed. *)
LEMMA StepBegin == CmdInv /\ Begin => CmdInv'
<1> SUFFICES ASSUME CmdInv, Begin PROVE CmdInv'
  OBVIOUS
<1> USE SdioCmdAssumption DEF CmdInv, Begin, driver, cmdmem, hcth, ctrl, slot,
  ghost
<1>0. fr' = fr \/ \E c \in Cmds : fr' = [fr EXCEPT ![1].cmd = c]
  OBVIOUS
<1>a. /\ fr' \in Seq(Frame) /\ Len(fr') = Len(fr)
      /\ fr'[1].kind = fr[1].kind
      /\ Len(fr) = 2 => fr'[2] = fr[2]
      /\ dpc' = "issue" => fr'[1].cmd \in Cmds
  BY <1>0, SetCmd, TypeParts DEF FramesOK, FrameShape, InSend
<1>b. clist' \in Seq(Cmds)
  <2>1. clist \in Seq(Cmds)
    BY DEF TypeOK
  <2>2. clist' = clist \/ (clist # << >> /\ clist' = Tail(clist))
    OBVIOUS
  <2>3. clist # << >> => Tail(clist) \in Seq(Cmds)
    BY <2>1
  <2> QED
    BY <2>1, <2>2, <2>3
<1>1. TypeOK'
  <2> USE TypeParts
  <2>1. FramesOK'
    BY <1>a DEF FramesOK, FrameShape, InSend
  <2>2. DriverOK'
    BY DEF DriverOK, FrameShape, InSend
  <2>3. CmdsOK'
    BY <1>b DEF CmdsOK, FrameShape, Cur, Top
  <2>4. CtrlOK'
    BY DEF CtrlOK
  <2>5. FlagsOK'
    BY DEF FlagsOK
  <2> QED
    BY <2>1, <2>2, <2>3, <2>4, <2>5, TypePartsPrimed
<1>2. FrameShape'
  BY <1>a DEF TypeOK, FrameShape, InSend
<1>3. NoDangling'
  BY DEF TypeOK, NoDangling, WorkSpace, FrameShape, Cur, Top
<1>4. WorkSpace'
  BY DEF TypeOK, NoDangling, WorkSpace, FrameShape, Cur, Top
<1>5. StatusTrue'
  BY DEF TypeOK, FrameShape, NoDangling, WorkSpace, StatusTrue, Cur, Top
<1>6. TransferOwned'
  BY DEF TypeOK, FrameShape, InSend, NoDangling, WorkSpace, StatusTrue, TransferOwned,
     Cur, Top
<1> QED
  BY <1>1, <1>2, <1>3, <1>4, <1>5, <1>6

(* The first half of sdio_issue_cmd puts the command into hc->wspc. *)
LEMMA StepIssue == CmdInv /\ Issue => CmdInv'
<1> SUFFICES ASSUME CmdInv, Issue PROVE CmdInv'
  OBVIOUS
<1> USE SdioCmdAssumption DEF CmdInv, Issue, driver, cmdmem, hcth, ctrl, slot,
  ghost
<1>1. TypeOK'
  <2> USE TypeParts
  <2>1. FramesOK'
    BY DEF FramesOK, FrameShape, InSend
  <2>2. DriverOK'
    BY DEF DriverOK, FrameShape, InSend
  <2>3. CmdsOK'
    BY DEF CmdsOK, FrameShape, Cur, Top
  <2>4. CtrlOK'
    BY DEF CtrlOK
  <2>5. FlagsOK'
    BY DEF FlagsOK
  <2> QED
    BY <2>1, <2>2, <2>3, <2>4, <2>5, TypePartsPrimed
<1>2. FrameShape'
  BY DEF TypeOK, FrameShape, InSend, Frame, Cur, Top
<1>3. NoDangling'
  BY DEF TypeOK, NoDangling, WorkSpace, FrameShape, Cur, Top
<1>4. WorkSpace'
  BY DEF TypeOK, NoDangling, WorkSpace, FrameShape, Cur, Top
<1>5. StatusTrue'
  BY DEF TypeOK, FrameShape, NoDangling, WorkSpace, StatusTrue, Cur, Top
<1>6. TransferOwned'
  BY DEF TypeOK, FrameShape, InSend, NoDangling, WorkSpace, StatusTrue, TransferOwned,
     Cur, Top
<1> QED
  BY <1>1, <1>2, <1>3, <1>4, <1>5, <1>6

(* imx6_sdhcx_cmd starts the command on free lines, or times out. *)
LEMMA StepStart == CmdInv /\ Start => CmdInv'
<1> SUFFICES ASSUME CmdInv, Start PROVE CmdInv'
  OBVIOUS
<1> USE SdioCmdAssumption DEF CmdInv, Start, Enables, driver, cmdmem, hcth,
  ctrl, slot, ghost
<1>1. TypeOK'
  <2> USE TypeParts
  <2>1. FramesOK'
    BY DEF FramesOK, FrameShape, InSend
  <2>2. DriverOK'
    BY DEF DriverOK, FrameShape, InSend
  <2>3. CmdsOK'
    BY DEF CmdsOK, FrameShape, Cur, Top
  <2>4. CtrlOK'
    BY DEF CtrlOK
  <2>5. FlagsOK'
    BY DEF FlagsOK
  <2> QED
    BY <2>1, <2>2, <2>3, <2>4, <2>5, TypePartsPrimed
<1>2. FrameShape'
  BY DEF TypeOK, FrameShape, InSend, Frame, Cur, Top
<1>3. NoDangling'
  BY DEF TypeOK, NoDangling, WorkSpace, FrameShape, Cur, Top
<1>4. WorkSpace'
  BY DEF TypeOK, NoDangling, WorkSpace, FrameShape, Cur, Top
<1>5. StatusTrue'
  BY DEF TypeOK, FrameShape, NoDangling, WorkSpace, StatusTrue, Cur, Top
<1>6. TransferOwned'
  <2> SUFFICES ASSUME "data" \in hw', dev' = "present", ~stray'
               PROVE  TransferOwned'
    BY DEF TransferOwned
  <2>1. dpc = "start" /\ fr' = fr /\ cstat' = cstat /\ stray' = stray /\ dev' = dev
        /\ hpc' = hpc /\ late' = late
    OBVIOUS
  <2>2. "data" \notin hw
    BY <2>1 DEF TransferOwned
  <2>3. /\ dpc' = "wait" /\ is' = {} /\ hw = {} /\ Top.kind = "rw"
        /\ "cmd" \notin hw'
    BY <2>2 DEF LinesFree
  <2>4. cstat[Cur] = "inprog"
    BY <2>1 DEF StatusTrue
  <2>5. hpc = "idle" \/ late
    BY <2>1 DEF StatusTrue
  <2>6. Cur' = Cur /\ Top' = Top
    BY <2>1 DEF Cur, Top
  <2> QED
    BY <2>1, <2>3, <2>4, <2>5, <2>6 DEF TransferOwned
<1> QED
  BY <1>1, <1>2, <1>3, <1>4, <1>5, <1>6

(* sdio_wait_cmd returns: a command that has a status has no part left to *)
(* play.                                                                  *)
LEMMA StepWait == CmdInv /\ Wait => CmdInv'
<1> SUFFICES ASSUME CmdInv, Wait PROVE CmdInv'
  OBVIOUS
<1> USE SdioCmdAssumption DEF CmdInv, Wait, driver, cmdmem, hcth, ctrl, slot,
  ghost
<1>1. TypeOK'
  <2> USE TypeParts
  <2>1. FramesOK'
    BY DEF FramesOK, FrameShape, InSend
  <2>2. DriverOK'
    BY DEF DriverOK, FrameShape, InSend
  <2>3. CmdsOK'
    BY DEF CmdsOK, FrameShape, Cur, Top
  <2>4. CtrlOK'
    BY DEF CtrlOK
  <2>5. FlagsOK'
    BY DEF FlagsOK
  <2> QED
    BY <2>1, <2>2, <2>3, <2>4, <2>5, TypePartsPrimed
<1>2. FrameShape'
  BY DEF TypeOK, FrameShape, InSend, Frame, Cur, Top
<1>3. NoDangling'
  BY DEF TypeOK, NoDangling, WorkSpace, FrameShape, Cur, Top
<1>4. WorkSpace'
  BY DEF TypeOK, NoDangling, WorkSpace, FrameShape, Cur, Top
<1>5. StatusTrue'
  BY DEF TypeOK, FrameShape, NoDangling, WorkSpace, StatusTrue, Cur, Top
<1>6. TransferOwned'
  BY DEF TypeOK, FrameShape, InSend, NoDangling, WorkSpace, StatusTrue, TransferOwned,
     Cur, Top
<1> QED
  BY <1>1, <1>2, <1>3, <1>4, <1>5, <1>6

(* The second half of sdio_issue_cmd takes the command out of hc->wspc; a *)
(* transfer that is still running is on its way to the reset.             *)
LEMMA StepAbort == CmdInv /\ Abort => CmdInv'
<1> SUFFICES ASSUME CmdInv, Abort PROVE CmdInv'
  OBVIOUS
<1> USE SdioCmdAssumption DEF CmdInv, Abort, driver, cmdmem, hcth, ctrl, slot,
  ghost
<1>1. TypeOK'
  <2> USE TypeParts
  <2>1. FramesOK'
    BY DEF FramesOK, FrameShape, InSend
  <2>2. DriverOK'
    BY DEF DriverOK, FrameShape, InSend
  <2>3. CmdsOK'
    BY DEF CmdsOK, FrameShape, Cur, Top
  <2>4. CtrlOK'
    BY DEF CtrlOK
  <2>5. FlagsOK'
    BY DEF FlagsOK
  <2> QED
    BY <2>1, <2>2, <2>3, <2>4, <2>5, TypePartsPrimed
<1>2. FrameShape'
  <2>1. fr' = fr /\ dpc = "abort"
    OBVIOUS
  <2>2. CASE dpc' = "power" /\ tries = 0 /\ tries' = ResetRetries
    <3>1. Len(fr) = 1 /\ fr[1].kind # "init" /\ tries' # 0
      BY <2>1, <2>2 DEF FrameShape, InSend
    <3> QED
      BY <2>1, <2>2, <3>1 DEF FrameShape, InSend
  <2>3. CASE dpc' = "ret" /\ tries' = tries
    BY <2>1, <2>3 DEF FrameShape, InSend
  <2> QED
    BY <2>2, <2>3
<1>3. NoDangling'
  BY DEF TypeOK, NoDangling, WorkSpace, FrameShape, Cur, Top
<1>4. WorkSpace'
  BY DEF TypeOK, NoDangling, WorkSpace, FrameShape, Cur, Top
<1>5. StatusTrue'
  BY DEF TypeOK, FrameShape, NoDangling, WorkSpace, StatusTrue, Cur, Top
<1>6. TransferOwned'
  BY DEF TypeOK, FrameShape, InSend, NoDangling, WorkSpace, StatusTrue, TransferOwned,
     Cur, Top
<1> QED
  BY <1>1, <1>2, <1>3, <1>4, <1>5, <1>6

(* _sdio_reset resets the controller and sends a command of its own. *)
LEMMA StepPowerCycle == CmdInv /\ PowerCycle => CmdInv'
<1> SUFFICES ASSUME CmdInv, PowerCycle PROVE CmdInv'
  OBVIOUS
<1>h. /\ Len(fr) \in {0, 1} /\ tries # 0 /\ tries' = tries
      /\ Len(fr) = 1 => fr[1].kind # "init"
  <2>1. Len(fr) \in Nat
    BY TypeParts DEF CmdInv, FramesOK
  <2>2. dpc = "power" /\ tries' = tries
    BY DEF PowerCycle
  <2>3. Len(fr) <= 1 /\ tries # 0 /\ (Len(fr) = 1 => fr[1].kind # "init")
    BY <2>2 DEF CmdInv, FrameShape
  <2>4. \A n \in Nat : n <= 1 => n \in {0, 1}
    OBVIOUS
  <2> QED
    BY <2>1, <2>2, <2>3, <2>4, Zenon
<1> USE SdioCmdAssumption DEF CmdInv, PowerCycle, driver, cmdmem, hcth, ctrl,
  slot, ghost
<1>0. /\ dpc' = "begin" /\ fr' \in Seq(Frame)
      /\ Len(fr') = Len(fr) + 1 /\ fr'[1].kind = "init"
      /\ Len(fr) = 1 => fr'[2] = fr[1]
  <2> DEFINE f == [cmd |-> None, kind |-> "init", retry |-> Retries("init")]
  <2>1. f \in Frame /\ f.kind = "init"
    BY NewFrame DEF Kinds
  <2>2. fr' = <<f>> \o fr /\ dpc' = "begin" /\ fr \in Seq(Frame)
    BY TypeParts DEF Send, FramesOK
  <2> HIDE DEF f
  <2> QED
    BY <2>1, <2>2, PushFrame
<1>1. TypeOK'
  <2> USE TypeParts
  <2>1. FramesOK'
    BY <1>0 DEF FramesOK, FrameShape, InSend
  <2>2. DriverOK'
    BY <1>0 DEF DriverOK, FrameShape, InSend
  <2>3. CmdsOK'
    BY DEF CmdsOK, FrameShape, Cur, Top
  <2>4. CtrlOK'
    BY DEF CtrlOK
  <2>5. FlagsOK'
    BY DEF FlagsOK
  <2> QED
    BY <2>1, <2>2, <2>3, <2>4, <2>5, TypePartsPrimed
<1>2. FrameShape'
  BY <1>0, <1>h DEF FrameShape, InSend
<1>3. NoDangling'
  BY <1>0 DEF TypeOK, NoDangling, WorkSpace, FrameShape, Cur, Top
<1>4. WorkSpace'
  BY <1>0 DEF TypeOK, NoDangling, WorkSpace, FrameShape, Cur, Top
<1>5. StatusTrue'
  BY <1>0 DEF TypeOK, FrameShape, NoDangling, WorkSpace, StatusTrue, Cur, Top
<1>6. TransferOwned'
  BY <1>0 DEF TypeOK, FrameShape, InSend, NoDangling, WorkSpace, StatusTrue, TransferOwned,
     Cur, Top
<1> QED
  BY <1>1, <1>2, <1>3, <1>4, <1>5, <1>6

(* _sdio_send_cmd returns the result of the command or issues it again. *)
LEMMA StepDone == CmdInv /\ Done => CmdInv'
<1> SUFFICES ASSUME CmdInv, Done PROVE CmdInv'
  OBVIOUS
<1> USE SdioCmdAssumption DEF CmdInv, Done, driver, cmdmem, hcth, ctrl, slot,
  ghost
<1>0. \/ fr' = fr /\ dpc' = "ret"
      \/ fr[1].retry > 0 /\ fr' = [fr EXCEPT ![1].retry = @ - 1] /\ dpc' = "issue"
  BY DEF Top
<1>a. /\ fr' \in Seq(Frame) /\ Len(fr') = Len(fr)
      /\ fr'[1].kind = fr[1].kind /\ fr'[1].cmd = fr[1].cmd
      /\ Len(fr) = 2 => fr'[2] = fr[2]
  BY <1>0, SetRetry, TypeParts DEF FramesOK, FrameShape, InSend
<1>1. TypeOK'
  <2> USE TypeParts
  <2>1. FramesOK'
    BY <1>a DEF FramesOK, FrameShape, InSend
  <2>2. DriverOK'
    BY DEF DriverOK, FrameShape, InSend
  <2>3. CmdsOK'
    BY DEF CmdsOK, FrameShape, Cur, Top
  <2>4. CtrlOK'
    BY DEF CtrlOK
  <2>5. FlagsOK'
    BY DEF FlagsOK
  <2> QED
    BY <2>1, <2>2, <2>3, <2>4, <2>5, TypePartsPrimed
<1>2. FrameShape'
  BY <1>0, <1>a DEF TypeOK, FrameShape, InSend
<1>3. NoDangling'
  BY DEF TypeOK, NoDangling, WorkSpace, FrameShape, Cur, Top
<1>4. WorkSpace'
  BY DEF TypeOK, NoDangling, WorkSpace, FrameShape, Cur, Top
<1>5. StatusTrue'
  BY DEF TypeOK, FrameShape, NoDangling, WorkSpace, StatusTrue, Cur, Top
<1>6. TransferOwned'
  BY DEF TypeOK, FrameShape, InSend, NoDangling, WorkSpace, StatusTrue, TransferOwned,
     Cur, Top
<1> QED
  BY <1>1, <1>2, <1>3, <1>4, <1>5, <1>6

(* sdmmc_rw gives the command back and goes on to its next one or *)
(* answers.                                                       *)
LEMMA StepReturnRw == CmdInv /\ ReturnRw => CmdInv'
<1> SUFFICES ASSUME CmdInv, ReturnRw PROVE CmdInv'
  OBVIOUS
<1> USE SdioCmdAssumption DEF CmdInv, ReturnRw, driver, cmdmem, hcth, ctrl,
  slot, ghost
<1>z. Len(fr) >= 1 /\ FramesOK /\ CmdsOK
  BY TypeParts DEF TypeOK, FrameShape, InSend
<1>f. /\ clist' \in Seq(Cmds)
      /\ cstat' \in [Cmds -> {"inprog", "cmp", "err", "removed"}]
  BY <1>z, FreeKeepsTypes
<1>0. \/ dpc' = "idle" /\ fr' = << >> /\ fr' \in Seq(Frame)
      \/ /\ dpc' = "begin" /\ fr' \in Seq(Frame)
         /\ Len(fr') = 1 /\ fr'[1].kind # "init"
  <2>1. Tail(fr) = << >>
    BY <1>z, PopFrame DEF TypeOK, FrameShape, InSend, FramesOK, Top
  <2>2. CASE Answer
    BY <2>2 DEF Answer
  <2>3. CASE \E k \in Kinds \ {"init"} : Then(k)
    BY <2>1, <2>3, SendFirst DEF Then
  <2> QED
    BY <2>2, <2>3 DEF Kinds
<1>g. tries = 0
  BY DEF TypeOK, FrameShape, InSend, Top
<1>1. TypeOK'
  <2> USE TypeParts
  <2>1. FramesOK'
    BY <1>0 DEF FramesOK, FrameShape, InSend
  <2>2. DriverOK'
    BY <1>0 DEF DriverOK, FrameShape, InSend
  <2>3. CmdsOK'
    BY <1>f DEF CmdsOK, FrameShape, Cur, Top
  <2>4. CtrlOK'
    BY DEF CtrlOK
  <2>5. FlagsOK'
    BY DEF FlagsOK
  <2> QED
    BY <2>1, <2>2, <2>3, <2>4, <2>5, TypePartsPrimed
<1>2. FrameShape'
  BY <1>0, <1>g DEF TypeOK, FrameShape, InSend, Frame, Cur, Top
<1>3. NoDangling'
  BY <1>0 DEF TypeOK, NoDangling, WorkSpace, FrameShape, Cur, Top
<1>4. WorkSpace'
  BY <1>0 DEF TypeOK, NoDangling, WorkSpace, FrameShape, Cur, Top
<1>5. StatusTrue'
  BY <1>0 DEF TypeOK, FrameShape, NoDangling, WorkSpace, StatusTrue, Cur, Top
<1>6. TransferOwned'
  BY <1>0 DEF TypeOK, FrameShape, InSend, NoDangling, WorkSpace, StatusTrue, TransferOwned,
     Cur, Top
<1> QED
  BY <1>1, <1>2, <1>3, <1>4, <1>5, <1>6

(* sdmmc_rw ends with a reset of the card. *)
LEMMA StepReturnReset == CmdInv /\ ReturnReset => CmdInv'
<1> SUFFICES ASSUME CmdInv, ReturnReset PROVE CmdInv'
  OBVIOUS
<1> USE SdioCmdAssumption DEF CmdInv, ReturnReset, driver, cmdmem, hcth, ctrl,
  slot, ghost
<1>z. Len(fr) >= 1 /\ FramesOK /\ CmdsOK
  BY TypeParts DEF TypeOK, FrameShape, InSend
<1>f. /\ clist' \in Seq(Cmds)
      /\ cstat' \in [Cmds -> {"inprog", "cmp", "err", "removed"}]
  BY <1>z, FreeKeepsTypes
<1>1. TypeOK'
  <2> USE TypeParts
  <2>1. FramesOK'
    BY DEF FramesOK, FrameShape, InSend
  <2>2. DriverOK'
    BY DEF DriverOK, FrameShape, InSend
  <2>3. CmdsOK'
    BY <1>f DEF CmdsOK, FrameShape, Cur, Top
  <2>4. CtrlOK'
    BY DEF CtrlOK
  <2>5. FlagsOK'
    BY DEF FlagsOK
  <2> QED
    BY <2>1, <2>2, <2>3, <2>4, <2>5, TypePartsPrimed
<1>2. FrameShape'
  BY DEF TypeOK, FrameShape, InSend, Frame, Cur, Top
<1>3. NoDangling'
  BY DEF TypeOK, NoDangling, WorkSpace, FrameShape, Cur, Top
<1>4. WorkSpace'
  BY DEF TypeOK, NoDangling, WorkSpace, FrameShape, Cur, Top
<1>5. StatusTrue'
  BY DEF TypeOK, FrameShape, NoDangling, WorkSpace, StatusTrue, Cur, Top
<1>6. TransferOwned'
  BY DEF TypeOK, FrameShape, InSend, NoDangling, WorkSpace, StatusTrue, TransferOwned,
     Cur, Top
<1> QED
  BY <1>1, <1>2, <1>3, <1>4, <1>5, <1>6

(* sd_bus_error resets the card. *)
LEMMA StepBusReset == CmdInv /\ BusReset => CmdInv'
<1> SUFFICES ASSUME CmdInv, BusReset PROVE CmdInv'
  OBVIOUS
<1> USE SdioCmdAssumption DEF CmdInv, BusReset, driver, cmdmem,
  hcth, ctrl, slot, ghost
<1>1. TypeOK'
  <2> USE TypeParts
  <2>1. FramesOK'
    BY DEF FramesOK, FrameShape, InSend
  <2>2. DriverOK'
    BY DEF DriverOK, FrameShape, InSend
  <2>3. CmdsOK'
    BY DEF CmdsOK, FrameShape, Cur, Top
  <2>4. CtrlOK'
    BY DEF CtrlOK
  <2>5. FlagsOK'
    BY DEF FlagsOK
  <2> QED
    BY <2>1, <2>2, <2>3, <2>4, <2>5, TypePartsPrimed
<1>2. FrameShape'
  <2>1. /\ fr' = fr /\ dpc = "begin" /\ fr[1].kind = "bus"
        /\ dpc' = "power" /\ tries' = ResetRetries
    BY DEF Top
  <2>2. Len(fr) = 1 /\ tries' # 0
    BY <2>1 DEF FrameShape, InSend
  <2> QED
    BY <2>1, <2>2 DEF FrameShape, InSend
<1>3. NoDangling'
  BY DEF TypeOK, NoDangling, WorkSpace, FrameShape, Cur, Top
<1>4. WorkSpace'
  BY DEF TypeOK, NoDangling, WorkSpace, FrameShape, Cur, Top
<1>5. StatusTrue'
  BY DEF TypeOK, FrameShape, NoDangling, WorkSpace, StatusTrue, Cur, Top
<1>6. TransferOwned'
  BY DEF TypeOK, FrameShape, InSend, NoDangling, WorkSpace, StatusTrue, TransferOwned,
     Cur, Top
<1> QED
  BY <1>1, <1>2, <1>3, <1>4, <1>5, <1>6

(* _sdio_reset gives its command back, ends or tries again. *)
LEMMA StepReturnInit == CmdInv /\ ReturnInit => CmdInv'
<1> SUFFICES ASSUME CmdInv, ReturnInit PROVE CmdInv'
  OBVIOUS
<1> USE SdioCmdAssumption DEF CmdInv, ReturnInit, driver, cmdmem, hcth, ctrl,
  slot, ghost
<1>z. Len(fr) >= 1 /\ FramesOK /\ CmdsOK
  BY TypeParts DEF TypeOK, FrameShape, InSend
<1>f. /\ clist' \in Seq(Cmds)
      /\ cstat' \in [Cmds -> {"inprog", "cmp", "err", "removed"}]
  BY <1>z, FreeKeepsTypes
<1>0. /\ fr' \in Seq(Frame) /\ Len(fr') = Len(fr) - 1
      /\ Len(fr) = 2 => fr'[1] = fr[2]
  BY <1>z, PopFrame DEF FramesOK
<1>g. tries # 0
  BY DEF TypeOK, FrameShape, InSend, Top
<1>1. TypeOK'
  <2> USE TypeParts
  <2>1. FramesOK'
    BY <1>0 DEF FramesOK, FrameShape, InSend
  <2>2. DriverOK'
    BY <1>g DEF DriverOK, FrameShape, InSend
  <2>3. CmdsOK'
    BY <1>f DEF CmdsOK, FrameShape, Cur, Top
  <2>4. CtrlOK'
    BY DEF CtrlOK
  <2>5. FlagsOK'
    BY DEF FlagsOK
  <2> QED
    BY <2>1, <2>2, <2>3, <2>4, <2>5, TypePartsPrimed
<1>2. FrameShape'
  BY <1>0, <1>g DEF TypeOK, FrameShape, InSend, Frame, Cur, Top
<1>3. NoDangling'
  BY DEF TypeOK, NoDangling, WorkSpace, FrameShape, Cur, Top
<1>4. WorkSpace'
  BY DEF TypeOK, NoDangling, WorkSpace, FrameShape, Cur, Top
<1>5. StatusTrue'
  BY DEF TypeOK, FrameShape, NoDangling, WorkSpace, StatusTrue, Cur, Top
<1>6. TransferOwned'
  BY DEF TypeOK, FrameShape, InSend, NoDangling, WorkSpace, StatusTrue, TransferOwned,
     Cur, Top
<1> QED
  BY <1>1, <1>2, <1>3, <1>4, <1>5, <1>6

(* The end of sdmmc_reset. *)
LEMMA StepMarkReadOnly == CmdInv /\ MarkReadOnly => CmdInv'
<1> SUFFICES ASSUME CmdInv, MarkReadOnly PROVE CmdInv'
  OBVIOUS
<1> USE SdioCmdAssumption DEF CmdInv, MarkReadOnly, Answer, driver, cmdmem,
  hcth, ctrl, slot, ghost
<1>0. \/ dpc' = "idle" /\ fr' = << >> /\ fr' \in Seq(Frame)
      \/ /\ dpc' = "begin" /\ fr' \in Seq(Frame)
         /\ Len(fr') = 1 /\ fr'[1].kind # "init"
  <2>1. CASE Answer
    BY <2>1
  <2>2. CASE Send("bus", << >>)
    BY <2>2, SendFirst DEF Kinds
  <2> QED
    BY <2>1, <2>2
<1>1. TypeOK'
  <2> USE TypeParts
  <2>1. FramesOK'
    <3>1. fr' \in Seq(Frame)
      BY <1>0
    <3>2. CASE fr' = << >>
      BY <3>1, <3>2 DEF FramesOK
    <3>3. CASE Len(fr') = 1
      BY <3>1, <3>3 DEF FramesOK
    <3> QED
      BY <1>0, <3>2, <3>3
  <2>2. DriverOK'
    BY <1>0 DEF DriverOK, FrameShape, InSend
  <2>3. CmdsOK'
    BY DEF CmdsOK, FrameShape, Cur, Top
  <2>4. CtrlOK'
    BY DEF CtrlOK
  <2>5. FlagsOK'
    BY DEF FlagsOK
  <2> QED
    BY <2>1, <2>2, <2>3, <2>4, <2>5, TypePartsPrimed
<1>2. FrameShape'
  BY <1>0 DEF TypeOK, FrameShape, InSend, Frame, Cur, Top
<1>3. NoDangling'
  BY <1>0 DEF TypeOK, NoDangling, WorkSpace, FrameShape, Cur, Top
<1>4. WorkSpace'
  BY <1>0 DEF TypeOK, NoDangling, WorkSpace, FrameShape, Cur, Top
<1>5. StatusTrue'
  BY <1>0 DEF TypeOK, FrameShape, NoDangling, WorkSpace, StatusTrue, Cur, Top
<1>6. TransferOwned'
  BY <1>0 DEF TypeOK, FrameShape, InSend, NoDangling, WorkSpace, StatusTrue, TransferOwned,
     Cur, Top
<1> QED
  BY <1>1, <1>2, <1>3, <1>4, <1>5, <1>6

(* imx6_sdhcx_event reads and clears the interrupt status. *)
LEMMA StepHcRead == CmdInv /\ HcRead => CmdInv'
<1> SUFFICES ASSUME CmdInv, HcRead PROVE CmdInv'
  OBVIOUS
<1> USE SdioCmdAssumption DEF CmdInv, HcRead, driver, cmdmem, hcth, ctrl,
  slot, ghost
<1>1. TypeOK'
  <2> USE TypeParts
  <2>1. FramesOK'
    BY DEF FramesOK, FrameShape, InSend
  <2>2. DriverOK'
    BY DEF DriverOK, FrameShape, InSend
  <2>3. CmdsOK'
    BY DEF CmdsOK, FrameShape, Cur, Top
  <2>4. CtrlOK'
    BY DEF CtrlOK
  <2>5. FlagsOK'
    BY DEF FlagsOK
  <2> QED
    BY <2>1, <2>2, <2>3, <2>4, <2>5, TypePartsPrimed
<1>2. FrameShape'
  BY DEF TypeOK, FrameShape, InSend, Frame, Cur, Top
<1>3. NoDangling'
  BY DEF TypeOK, NoDangling, WorkSpace, FrameShape, Cur, Top
<1>4. WorkSpace'
  BY DEF TypeOK, NoDangling, WorkSpace, FrameShape, Cur, Top
<1>5. StatusTrue'
  BY DEF TypeOK, FrameShape, NoDangling, WorkSpace, StatusTrue, Cur, Top
<1>6. TransferOwned'
  BY DEF TypeOK, FrameShape, InSend, NoDangling, WorkSpace, StatusTrue, TransferOwned,
     Cur, Top
<1> QED
  BY <1>1, <1>2, <1>3, <1>4, <1>5, <1>6

(* imx6_sdhcx_intr_event looks the command up in hc->wspc. *)
LEMMA StepHcLookup == CmdInv /\ HcLookup => CmdInv'
<1> SUFFICES ASSUME CmdInv, HcLookup PROVE CmdInv'
  OBVIOUS
<1> USE SdioCmdAssumption DEF CmdInv, HcLookup, driver, cmdmem, hcth, ctrl,
  slot, ghost
<1>1. TypeOK'
  <2> USE TypeParts
  <2>1. FramesOK'
    BY DEF FramesOK, FrameShape, InSend
  <2>2. DriverOK'
    BY DEF DriverOK, FrameShape, InSend
  <2>3. CmdsOK'
    BY DEF CmdsOK, FrameShape, Cur, Top
  <2>4. CtrlOK'
    BY DEF CtrlOK
  <2>5. FlagsOK'
    BY DEF FlagsOK
  <2> QED
    BY <2>1, <2>2, <2>3, <2>4, <2>5, TypePartsPrimed
<1>2. FrameShape'
  BY DEF TypeOK, FrameShape, InSend, Frame, Cur, Top
<1>3. NoDangling'
  BY DEF TypeOK, NoDangling, WorkSpace, FrameShape, Cur, Top
<1>4. WorkSpace'
  BY DEF TypeOK, NoDangling, WorkSpace, FrameShape, Cur, Top
<1>5. StatusTrue'
  BY DEF TypeOK, FrameShape, NoDangling, WorkSpace, StatusTrue, Cur, Top
<1>6. TransferOwned'
  BY DEF TypeOK, FrameShape, InSend, NoDangling, WorkSpace, StatusTrue, TransferOwned,
     Cur, Top
<1> QED
  BY <1>1, <1>2, <1>3, <1>4, <1>5, <1>6

(* sdio_cmd_cmplt sets the status of the command looked up: it is the *)
(* current one, unless a time-out has overtaken the HC thread.        *)
LEMMA StepHcCmplt == CmdInv /\ HcCmplt => CmdInv'
<1> SUFFICES ASSUME CmdInv, HcCmplt PROVE CmdInv'
  OBVIOUS
<1> USE SdioCmdAssumption DEF CmdInv, HcCmplt, HcStatus, driver, cmdmem, hcth,
  ctrl, slot, ghost
<1>1. TypeOK'
  <2> USE TypeParts
  <2>1. FramesOK'
    BY DEF FramesOK, FrameShape, InSend
  <2>2. DriverOK'
    BY DEF DriverOK, FrameShape, InSend
  <2>3. CmdsOK'
    BY DEF CmdsOK, FrameShape, Cur, Top
  <2>4. CtrlOK'
    BY DEF CtrlOK
  <2>5. FlagsOK'
    BY DEF FlagsOK
  <2> QED
    BY <2>1, <2>2, <2>3, <2>4, <2>5, TypePartsPrimed
<1>2. FrameShape'
  BY DEF TypeOK, FrameShape, InSend, Frame, Cur, Top
<1>3. NoDangling'
  BY DEF TypeOK, NoDangling, WorkSpace, FrameShape, Cur, Top
<1>4. WorkSpace'
  BY DEF TypeOK, NoDangling, WorkSpace, FrameShape, Cur, Top
<1>5. StatusTrue'
  BY DEF TypeOK, FrameShape, NoDangling, WorkSpace, StatusTrue, Cur, Top
<1>6. TransferOwned'
  BY DEF TypeOK, FrameShape, InSend, NoDangling, WorkSpace, StatusTrue, TransferOwned,
     Cur, Top
<1> QED
  BY <1>1, <1>2, <1>3, <1>4, <1>5, <1>6

(* The card executes the command. *)
LEMMA StepHwOk == CmdInv /\ HwOk => CmdInv'
<1> SUFFICES ASSUME CmdInv, HwOk PROVE CmdInv'
  OBVIOUS
<1> USE SdioCmdAssumption DEF CmdInv, HwOk, Latch, driver, cmdmem, hcth, ctrl,
  slot, ghost
<1>1. TypeOK'
  <2> USE TypeParts
  <2>1. FramesOK'
    BY DEF FramesOK, FrameShape, InSend
  <2>2. DriverOK'
    BY DEF DriverOK, FrameShape, InSend
  <2>3. CmdsOK'
    BY DEF CmdsOK, FrameShape, Cur, Top
  <2>4. CtrlOK'
    BY DEF CtrlOK
  <2>5. FlagsOK'
    BY DEF FlagsOK
  <2> QED
    BY <2>1, <2>2, <2>3, <2>4, <2>5, TypePartsPrimed
<1>2. FrameShape'
  BY DEF TypeOK, FrameShape, InSend, Frame, Cur, Top
<1>3. NoDangling'
  BY DEF TypeOK, NoDangling, WorkSpace, FrameShape, Cur, Top
<1>4. WorkSpace'
  BY DEF TypeOK, NoDangling, WorkSpace, FrameShape, Cur, Top
<1>5. StatusTrue'
  <2>1. PICK line \in hw : LET bit == IF line = "data" THEN "TC" ELSE "CC" IN
          is' = is \cup ({bit} \cap ie) /\ execd' = (execd \/ bit \in ie)
    OBVIOUS
  <2>2. execd => execd'
    BY <2>1
  <2>3. is' # is => execd'
    BY <2>1
  <2>4. "ERR" \in is => "ERR" \in is'
    BY <2>1
  <2>5. UNCHANGED <<dpc, fr, res, hpc, sts, hcmd, cstat, late, stray>>
    OBVIOUS
  <2> QED
    BY <2>2, <2>3, <2>4, <2>5 DEF StatusTrue, Cur, Top
<1>6. TransferOwned'
  BY DEF TypeOK, FrameShape, InSend, NoDangling, WorkSpace, StatusTrue, TransferOwned,
     Cur, Top
<1> QED
  BY <1>1, <1>2, <1>3, <1>4, <1>5, <1>6

(* The command fails on the bus. *)
LEMMA StepHwError == CmdInv /\ HwError => CmdInv'
<1> SUFFICES ASSUME CmdInv, HwError PROVE CmdInv'
  OBVIOUS
<1> USE SdioCmdAssumption DEF CmdInv, HwError, Latch, driver, cmdmem, hcth,
  ctrl, slot, ghost
<1>1. TypeOK'
  <2> USE TypeParts
  <2>1. FramesOK'
    BY DEF FramesOK, FrameShape, InSend
  <2>2. DriverOK'
    BY DEF DriverOK, FrameShape, InSend
  <2>3. CmdsOK'
    BY DEF CmdsOK, FrameShape, Cur, Top
  <2>4. CtrlOK'
    BY DEF CtrlOK
  <2>5. FlagsOK'
    BY DEF FlagsOK
  <2> QED
    BY <2>1, <2>2, <2>3, <2>4, <2>5, TypePartsPrimed
<1>2. FrameShape'
  BY DEF TypeOK, FrameShape, InSend, Frame, Cur, Top
<1>3. NoDangling'
  BY DEF TypeOK, NoDangling, WorkSpace, FrameShape, Cur, Top
<1>4. WorkSpace'
  BY DEF TypeOK, NoDangling, WorkSpace, FrameShape, Cur, Top
<1>5. StatusTrue'
  BY DEF TypeOK, FrameShape, NoDangling, WorkSpace, StatusTrue, Cur, Top
<1>6. TransferOwned'
  BY DEF TypeOK, FrameShape, InSend, NoDangling, WorkSpace, StatusTrue, TransferOwned,
     Cur, Top
<1> QED
  BY <1>1, <1>2, <1>3, <1>4, <1>5, <1>6

(* The card is pulled out under the command. *)
LEMMA StepCardRemoved == CmdInv /\ CardRemoved => CmdInv'
<1> SUFFICES ASSUME CmdInv, CardRemoved PROVE CmdInv'
  OBVIOUS
<1> USE SdioCmdAssumption DEF CmdInv, CardRemoved, driver, cmdmem, hcth, ctrl,
  slot, ghost
<1>1. TypeOK'
  <2> USE TypeParts
  <2>1. FramesOK'
    BY DEF FramesOK, FrameShape, InSend
  <2>2. DriverOK'
    BY DEF DriverOK, FrameShape, InSend
  <2>3. CmdsOK'
    BY DEF CmdsOK, FrameShape, Cur, Top
  <2>4. CtrlOK'
    BY DEF CtrlOK
  <2>5. FlagsOK'
    BY DEF FlagsOK
  <2> QED
    BY <2>1, <2>2, <2>3, <2>4, <2>5, TypePartsPrimed
<1>2. FrameShape'
  BY DEF TypeOK, FrameShape, InSend, Frame, Cur, Top
<1>3. NoDangling'
  BY DEF TypeOK, NoDangling, WorkSpace, FrameShape, Cur, Top
<1>4. WorkSpace'
  BY DEF TypeOK, NoDangling, WorkSpace, FrameShape, Cur, Top
<1>5. StatusTrue'
  BY DEF TypeOK, FrameShape, NoDangling, WorkSpace, StatusTrue, Cur, Top
<1>6. TransferOwned'
  BY DEF TypeOK, FrameShape, InSend, NoDangling, WorkSpace, StatusTrue, TransferOwned,
     Cur, Top
<1> QED
  BY <1>1, <1>2, <1>3, <1>4, <1>5, <1>6

(* sdio_cd notices it. *)
LEMMA StepCdStep == CmdInv /\ CdStep => CmdInv'
<1> SUFFICES ASSUME CmdInv, CdStep PROVE CmdInv'
  OBVIOUS
<1> USE SdioCmdAssumption DEF CmdInv, CdStep, driver, cmdmem, hcth, ctrl,
  slot, ghost
<1>1. TypeOK'
  <2> USE TypeParts
  <2>1. FramesOK'
    BY DEF FramesOK, FrameShape, InSend
  <2>2. DriverOK'
    BY DEF DriverOK, FrameShape, InSend
  <2>3. CmdsOK'
    BY DEF CmdsOK, FrameShape, Cur, Top
  <2>4. CtrlOK'
    BY DEF CtrlOK
  <2>5. FlagsOK'
    BY DEF FlagsOK
  <2> QED
    BY <2>1, <2>2, <2>3, <2>4, <2>5, TypePartsPrimed
<1>2. FrameShape'
  BY DEF TypeOK, FrameShape, InSend, Frame, Cur, Top
<1>3. NoDangling'
  BY DEF TypeOK, NoDangling, WorkSpace, FrameShape, Cur, Top
<1>4. WorkSpace'
  BY DEF TypeOK, NoDangling, WorkSpace, FrameShape, Cur, Top
<1>5. StatusTrue'
  BY DEF TypeOK, FrameShape, NoDangling, WorkSpace, StatusTrue, Cur, Top
<1>6. TransferOwned'
  BY DEF TypeOK, FrameShape, InSend, NoDangling, WorkSpace, StatusTrue, TransferOwned,
     Cur, Top
<1> QED
  BY <1>1, <1>2, <1>3, <1>4, <1>5, <1>6

-----------------------------------------------------------------------------
(***************************************************************************)
(* The inductive invariant of the command engine (sdio_issue_cmd,          *)
(* sdio_wait_cmd, sdio_cmd_cmplt, _sdio_send_cmd, _sdio_reset) holds at    *)
(* all times.                                                              *)
(***************************************************************************)
THEOREM CmdInvariant == Spec => []CmdInv
<1>1. Init => CmdInv
  <2> SUFFICES ASSUME Init PROVE CmdInv
    OBVIOUS
  <2> USE SdioCmdAssumption DEF Init
  <2>1. TypeOK
    <3>1. FramesOK /\ DriverOK
      BY DEF FramesOK, DriverOK
    <3>2. CmdsOK /\ CtrlOK
      BY DEF CmdsOK, CtrlOK
    <3>3. FlagsOK
      BY DEF FlagsOK
    <3> QED
      BY <3>1, <3>2, <3>3, TypeParts
  <2>2. FrameShape /\ NoDangling /\ WorkSpace
    BY DEF FrameShape, InSend, NoDangling, WorkSpace
  <2>3. StatusTrue /\ TransferOwned
    BY DEF StatusTrue, TransferOwned
  <2> QED
    BY <2>1, <2>2, <2>3 DEF CmdInv
<1>2. CmdInv /\ [Next]_vars => CmdInv'
  <2> SUFFICES ASSUME CmdInv, [Next]_vars PROVE CmdInv'
    OBVIOUS
  <2>1. CASE Request \/ Driver
    BY <2>1, StepRequest, StepBegin, StepIssue, StepStart, StepWait, StepAbort,
       StepPowerCycle, StepDone, StepReturnRw, StepReturnReset, StepReturnInit,
       StepBusReset, StepMarkReadOnly
       DEF Driver
  <2>2. CASE Hc
    BY <2>2, StepHcRead, StepHcLookup, StepHcCmplt DEF Hc
  <2>3. CASE Env
    BY <2>3, StepHwOk, StepHwError, StepCardRemoved, StepCdStep DEF Env
  <2>4. CASE UNCHANGED vars
    BY <2>4 DEF CmdInv, TypeOK, FrameShape, NoDangling, WorkSpace,
       StatusTrue, TransferOwned, Cur, Top, vars, driver, cmdmem, hcth, ctrl, slot, ghost
  <2> QED
    BY <2>1, <2>2, <2>3, <2>4 DEF Next
<1> QED
  BY <1>1, <1>2, PTL DEF Spec

(* The three parties keep every variable in its type; in particular at most *)
(* two commands are ever on the stack, although _sdio_send_cmd calls        *)
(* _sdio_reset, which calls it again.                                       *)
THEOREM CmdTypeCorrect == Spec => []TypeOK
<1>1. CmdInv => TypeOK
  BY DEF CmdInv
<1> QED
  BY <1>1, CmdInvariant, PTL

(* hc->wspc.cmd is NULL or the command that sdio_issue_cmd is executing, at *)
(* whatever point a completion, a time-out or a reset comes.                *)
THEOREM CmdNoDangling == Spec => []NoDangling
<1>1. CmdInv => NoDangling
  BY DEF CmdInv
<1> QED
  BY <1>1, CmdInvariant, PTL

(* A command that _sdio_send_cmd reports as done was executed by the card,  *)
(* unless the HC thread completed it with the status of an earlier one.     *)
THEOREM CmdSuccessIsTrue == Spec => []SuccessIsTrue
<1>1. CmdInv => SuccessIsTrue
  BY DEF CmdInv, StatusTrue, SuccessIsTrue
<1> QED
  BY <1>1, CmdInvariant, PTL

(* When sdmmc_rw has returned, the controller moves no data of the request: *)
(* every time-out of a transfer, on a device that is present, goes through  *)
(* the reset of the controller.                                             *)
THEOREM CmdNoTransferAfterReturn == Spec => []NoTransferAfterReturn
<1>1. CmdInv => NoTransferAfterReturn
  BY DEF CmdInv, TransferOwned, NoTransferAfterReturn
<1> QED
  BY <1>1, CmdInvariant, PTL
=============================================================================
