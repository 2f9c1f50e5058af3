------------------------------- MODULE SdioCmd -------------------------------
(***************************************************************************)
(* The command engine of devb-sdmmc: a read or write request (sdmmc_rw of  *)
(* sim_sdmmc.c) and the commands it sends (sdiodi/base.c, sdiodi/card.c)   *)
(* through the i.MX6 host controller driver (sdiodi/hc/imx6.c).            *)
(*                                                                         *)
(* Three parties share hc->wspc.cmd, the command in progress: the driver   *)
(* thread, which issues it and waits with a time-out; the host controller  *)
(* thread (HC), which reads the interrupt status, looks the command up     *)
(* without the mutex and completes it some time later; and the controller  *)
(* with the card behind it.  A time-out leads to a reset that sends        *)
(* commands of its own, so that two commands are under way at the most     *)
(* (CMD55, which goes before an application command, is sent and freed     *)
(* before that one is issued).                                             *)
(***************************************************************************)
EXTENDS Naturals, SequencesExt

CONSTANTS
  Cmds,          \* the sdio_cmd structures that may come to exist
  CmdRetries,    \* SDIO_CMD_RETRIES
  ResetRetries,  \* SDIO_RESET_RETRIES
  Cached,        \* DEV_CAP_CACHE and SDMMC_EFLAG_CACHE: an eMMC with its cache on
  None           \* the NULL pointer

ASSUME SdioCmdAssumption ==
  /\ CmdRetries \in Nat /\ ResetRetries \in Nat \ {0}
  /\ Cached \in BOOLEAN /\ None \notin Cmds

VARIABLES
  dpc,        \* where the driver thread is
  fr,         \* its frames: commands in _sdio_send_cmd, innermost first
  res,        \* what the last _sdio_send_cmd returned; "error": any other errno
  write,      \* the request is a write
  tries,      \* retry of _sdio_reset; 0: no reset in progress (HC_FLAG_RST)
  clist,      \* the free list of command structures
  cstat,      \* per command: cmd->status; "err": any other error
  wspc,       \* hc->wspc.cmd
  hpc,        \* where the HC thread is; its locals are:
  sts, hcmd,  \* the interrupt status read, the command looked up
  is, ie,     \* interrupt status and its enable register
  hw,         \* what the controller is busy with: a transfer of data and its
              \* command ("data"), a command without data ("cmd")
  incard,     \* a card is in the slot
  dev,        \* DEV_FLAG_PRESENT, then without it, then RMV_PENDING
  cache,      \* the card's cache: clean, dirty (data of a write that has
              \* been answered), off, or lost (off, with such data lost)
  wp,         \* SDMMC_PFLAG_WP of the user partition
  execd,      \* the card has executed the command started last
  late,       \* the HC thread has the status of a command that the driver
              \* thread no longer waits for
  stray       \* with such a status it has completed the command in progress,
              \* or the one whose transfer is still running

driver == <<dpc, fr, res, write, tries>>
cmdmem == <<clist, cstat, wspc>>
hcth   == <<hpc, sts, hcmd>>
ctrl   == <<is, ie, hw>>
slot   == <<incard, dev>>
ghost  == <<execd, late, stray>>
vars   == <<driver, cmdmem, hcth, ctrl, slot, cache, wp, ghost>>

Kinds == {"rw", "status", "stop", "ready", "final", "bus", "init"}
Top   == fr[1]
Cur   == Top.cmd

(* The interrupts a command enables: imask of imx6_sdhcx_cmd and xfer_setup. *)
Enables(kind) == {"ERR", IF kind = "rw" THEN "TC" ELSE "CC"}
-----------------------------------------------------------------------------
(***************************************************************************)
(* The driver thread.                                                      *)
(***************************************************************************)

(***************************************************************************)
(* Send(kind, up): enter the routine that sends a command of this kind,    *)
(* from the frames up.                                                     *)
(***************************************************************************)
Retries(kind) == IF kind \in {"rw", "stop"} THEN 0 ELSE CmdRetries

Send(kind, up) ==
  /\ dpc' = "begin"
  /\ fr' = <<[cmd |-> None, kind |-> kind, retry |-> Retries(kind)]>> \o up

(* sdmmc_driver_thread takes a CCB and calls sdmmc_rw. *)
Request ==
  /\ dpc = "idle" /\ dev # "rmv"
  /\ write' \in (IF wp THEN {FALSE} ELSE BOOLEAN)
  /\ Send("rw", << >>)
  /\ UNCHANGED <<res, tries, cmdmem, hcth, ctrl, slot, cache, wp, ghost>>

(***************************************************************************)
(* Allocate a command and enter _sdio_send_cmd; a command of a request     *)
(* goes through _sdio_synchronize first.                                   *)
(***************************************************************************)
Begin ==
  /\ dpc = "begin"
  /\ \/ /\ dev = "rmv" /\ Top.kind # "init"
        /\ dpc' = "ret" /\ res' = "ENXIO"
        /\ UNCHANGED <<fr, clist>>
     \/ /\ dev # "rmv" \/ Top.kind = "init"
        /\ \E c \in Cmds :
             /\ \/ clist # << >> /\ c = Head(clist) /\ clist' = Tail(clist)
                \/ /\ clist = << >> /\ UNCHANGED clist
                   /\ \A i \in DOMAIN fr : fr[i].cmd # c
             /\ fr' = [fr EXCEPT ![1].cmd = c]
        /\ dpc' = "issue" /\ UNCHANGED res
  /\ UNCHANGED <<write, tries, cstat, wspc, hcth, ctrl, slot, cache, wp,
                 ghost>>

(* The first half of sdio_issue_cmd. *)
Issue ==
  /\ dpc = "issue"
  /\ cstat' = [cstat EXCEPT ![Cur] = "inprog"]
  /\ wspc' = Cur
  /\ dpc' = "start"
  /\ stray' = (stray /\ "data" \in hw)
  /\ UNCHANGED <<fr, res, write, tries, clist, hcth, ctrl, slot,
                 cache, wp, execd, late>>

(***************************************************************************)
(* imx6_sdhcx_cmd: wait until the command line is free, and for a command  *)
(* with data the data lines too, which may time out; clear the interrupt   *)
(* status, enable the interrupts, start the command.                       *)
(***************************************************************************)
LinesFree(kind) == "cmd" \notin hw /\ (kind = "rw" => hw = {})

Start ==
  /\ dpc = "start"
  /\ \/ /\ LinesFree(Top.kind)
        /\ is' = {} /\ ie' = Enables(Top.kind)
        /\ hw' = hw \cup {IF Top.kind = "rw" THEN "data" ELSE "cmd"}
        /\ execd' = FALSE
        /\ dpc' = "wait"
     \/ dpc' = "abort" /\ UNCHANGED <<ctrl, execd>>
  /\ UNCHANGED <<fr, res, write, tries, cmdmem, hcth, slot, cache, wp, late, stray>>

(* Slip: the wait of sdio_wait_cmd has no time-out. *)
WaitForever ==
  /\ dpc = "wait" /\ cstat[Cur] # "inprog"
  /\ dpc' = "done"
  /\ late' = (late \/ hpc # "idle")
  /\ UNCHANGED <<fr, res, write, tries, cmdmem, hcth, ctrl, slot,
                 cache, wp, execd, stray>>

(***************************************************************************)
(* sdio_wait_cmd.  After a time-out the status is not looked at again.     *)
(***************************************************************************)
Wait ==
  /\ dpc = "wait"
  /\ \/ cstat[Cur] # "inprog" /\ dpc' = "done"
     \/ dpc' = "abort"
  /\ late' = (late \/ hpc # "idle")
  /\ UNCHANGED <<fr, res, write, tries, cmdmem, hcth, ctrl, slot,
                 cache, wp, execd, stray>>

(* Slip: the command is left in the work space. *)
AbortKeepsWspc ==
  /\ dpc = "abort"
  /\ cstat' = [cstat EXCEPT ![Cur] = "err"]
  /\ res' = "error"
  /\ \/ dev = "present" /\ tries = 0 /\ dpc' = "power" /\ tries' = ResetRetries
     \/ ~(dev = "present" /\ tries = 0) /\ dpc' = "ret" /\ UNCHANGED tries
  /\ UNCHANGED <<fr, write, clist, wspc, hcth, ctrl, slot, cache, wp,
                 ghost>>

(* Slip: a time-out within a reset starts another one. *)
AbortResetsAgain ==
  /\ dpc = "abort"
  /\ wspc' = None
  /\ cstat' = [cstat EXCEPT ![Cur] = "err"]
  /\ res' = "error"
  /\ \/ dev = "present" /\ dpc' = "power" /\ tries' = ResetRetries
     \/ dev # "present" /\ dpc' = "ret" /\ UNCHANGED tries
  /\ UNCHANGED <<fr, write, clist, hcth, ctrl, slot, cache, wp, ghost>>

(* Slip: no reset after a time-out. *)
AbortNoReset ==
  /\ dpc = "abort"
  /\ wspc' = None
  /\ cstat' = [cstat EXCEPT ![Cur] = "err"]
  /\ res' = "error" /\ dpc' = "ret"
  /\ UNCHANGED <<fr, write, tries, clist, hcth, ctrl, slot, cache, wp,
                 ghost>>

(***************************************************************************)
(* The second half of sdio_issue_cmd, after an error (entry.abort does     *)
(* nothing), and the reset that _sdio_send_cmd starts then, if the device  *)
(* is present and no reset is in progress.                                 *)
(***************************************************************************)
Abort ==
  /\ dpc = "abort"
  /\ wspc' = None
  /\ cstat' = [cstat EXCEPT ![Cur] = "err"]
  /\ res' = "error"
  /\ \/ dev = "present" /\ tries = 0 /\ dpc' = "power" /\ tries' = ResetRetries
     \/ ~(dev = "present" /\ tries = 0) /\ dpc' = "ret" /\ UNCHANGED tries
  /\ UNCHANGED <<fr, write, clist, hcth, ctrl, slot, cache, wp, ghost>>

(***************************************************************************)
(* The loop of _sdio_reset: power off (the controller is reset, the card   *)
(* loses its cache) and on, then the commands of mmc_init_device or        *)
(* sd_init_device, which one command stands for.                           *)
(***************************************************************************)
PowerCycle ==
  /\ dpc = "power"
  /\ is' = {} /\ ie' = {} /\ hw' = {}
  /\ cache' = IF cache \in {"dirty", "lost"} THEN "lost" ELSE "off"
  /\ Send("init", fr)
  /\ stray' = FALSE
  /\ UNCHANGED <<res, write, tries, cmdmem, hcth, slot, wp, execd, late>>

(***************************************************************************)
(* The end of the loop body of _sdio_send_cmd: the result or a retry; an   *)
(* illegal command is not retried.                                         *)
(***************************************************************************)
Done ==
  /\ dpc = "done"
  /\ LET Ret(r) == dpc' = "ret" /\ res' = r /\ UNCHANGED fr
     IN  CASE cstat[Cur] = "cmp"     -> Ret("EOK")
           [] cstat[Cur] = "removed" -> Ret("ENXIO")
           [] OTHER ->
                \/ Ret("error")
                \/ /\ Top.retry > 0
                   /\ fr' = [fr EXCEPT ![1].retry = @ - 1]
                   /\ dpc' = "issue" /\ UNCHANGED res
  /\ UNCHANGED <<write, tries, cmdmem, hcth, ctrl, slot, cache, wp,
                 ghost>>

(* The command goes back to the free list; its status is cleared here, not  *)
(* when it is taken again: nobody reads it in between.                      *)
FreeCmd ==
  /\ clist' = IF Cur = None THEN clist ELSE Append(clist, Cur)
  /\ cstat' = [c \in Cmds |-> IF c = Cur THEN "inprog" ELSE cstat[c]]

Then(kind) == Send(kind, Tail(fr))
Answer     == dpc' = "idle" /\ fr' = << >>

(***************************************************************************)
(* The rest of sdmmc_rw: what follows each of its commands.  Whether the   *)
(* card then says that it is ready for data and in the transfer state is   *)
(* left open, and so are the error bits of its response, which make an     *)
(* error of a command that was executed.                                   *)
(***************************************************************************)
ReturnRw ==
  /\ dpc = "ret"
  /\ \/ /\ Top.kind = "rw"
        /\ \/ res = "ENXIO" /\ Answer
           \/ res \notin {"EOK", "ENXIO"} /\ Then("status")
           \/ res = "EOK" /\ ~write /\ (Answer \/ Then("final"))
           \/ res = "EOK" /\ write /\ Then("ready")
     \/ /\ Top.kind = "status"
        /\ \/ res = "EOK" /\ Then("final")
           \/ Then("stop")
     \/ /\ Top.kind = "stop" /\ Then("final")
     \/ /\ Top.kind = "ready"
        /\ \/ res = "EOK" /\ (Answer \/ Then("final"))
           \/ Then("stop")
     \/ /\ Top.kind = "final" /\ res = "EOK"
        /\ \/ Answer
           \/ ~Cached /\ Then("bus")
     \/ /\ Top.kind = "bus" /\ Answer
  /\ FreeCmd
  /\ cache' = IF Top.kind = "ready" /\ dpc' = "idle" /\ cache = "clean"
              THEN "dirty" ELSE cache
  /\ UNCHANGED <<res, write, tries, wspc, hcth, ctrl, slot, wp, ghost>>

(* sdmmc_reset, when the card is not ready at the end of sdmmc_rw. *)
ReturnReset ==
  /\ dpc = "ret" /\ Top.kind = "final"
  /\ FreeCmd /\ fr' = << >>
  /\ \/ dev = "rmv" /\ dpc' = "mark" /\ UNCHANGED tries
     \/ dev # "rmv" /\ dpc' = "power" /\ tries' = ResetRetries
  /\ UNCHANGED <<res, write, wspc, hcth, ctrl, slot, cache, wp, ghost>>

(***************************************************************************)
(* sdio_bus_error, for the errors of an SD card's data lines (which errors *)
(* those are, and how many, is left open): sd_bus_error lowers the speed,  *)
(* with the commands of sd_init_bus ("bus" stands for them), or resets.    *)
(***************************************************************************)
BusReset ==
  /\ dpc = "begin" /\ Top.kind = "bus" /\ dev # "rmv"
  /\ dpc' = "power" /\ tries' = ResetRetries
  /\ UNCHANGED <<fr, res, write, cmdmem, hcth, ctrl, slot, cache, wp, ghost>>

(***************************************************************************)
(* _sdio_reset after its commands.  Its caller is _sdio_send_cmd, which    *)
(* returns the error it had, sd_bus_error, or sdmmc_reset.                 *)
(***************************************************************************)
ReturnInit ==
  /\ dpc = "ret" /\ Top.kind = "init"
  /\ FreeCmd /\ fr' = Tail(fr)
  /\ IF res \in {"EOK", "ENXIO"} \/ tries = 1
     THEN /\ tries' = 0
          /\ IF Len(fr) > 1 THEN dpc' = "ret" /\ res' = "error"
             ELSE dpc' = "mark" /\ UNCHANGED res
     ELSE tries' = tries - 1 /\ dpc' = "power" /\ UNCHANGED res
  /\ UNCHANGED <<write, wspc, hcth, ctrl, slot, cache, wp, ghost>>

(* The rest of sdmmc_reset: the cache was on (SDMMC_EFLAG_CACHE). *)
MarkReadOnly ==
  /\ dpc = "mark"
  /\ wp' = Cached
  /\ \/ Answer
     \/ ~Cached /\ Send("bus", << >>)
  /\ UNCHANGED <<res, write, tries, cmdmem, hcth, ctrl, slot, cache, ghost>>

Driver ==
  \/ Begin \/ Issue \/ Start \/ Wait \/ Abort \/ PowerCycle
  \/ Done \/ ReturnRw \/ ReturnReset \/ BusReset \/ ReturnInit \/ MarkReadOnly
-----------------------------------------------------------------------------
(***************************************************************************)
(* The host controller thread: imx6_sdhcx_event, imx6_sdhcx_intr_event.    *)
(***************************************************************************)

(* Read the interrupt status and clear what was read. *)
HcRead ==
  /\ hpc = "idle" /\ is # {}
  /\ sts' = is /\ is' = {}
  /\ hpc' = "sts" /\ late' = (dpc # "wait")
  /\ UNCHANGED <<driver, cmdmem, hcmd, ie, hw, slot, cache, wp, execd, stray>>

(***************************************************************************)
(* Look the command up, without the mutex.  With none the interrupt is     *)
(* unmasked and forgotten.  An error resets the command and data lines.    *)
(***************************************************************************)
HcLookup ==
  /\ hpc = "sts"
  /\ \/ /\ wspc = None
        /\ hpc' = "idle" /\ sts' = {} /\ late' = FALSE
        /\ UNCHANGED <<hcmd, hw>>
     \/ /\ wspc # None
        /\ hpc' = "cmplt" /\ hcmd' = wspc
        /\ hw' = IF "ERR" \in sts THEN {} ELSE hw
        /\ UNCHANGED <<sts, late>>
  /\ UNCHANGED <<driver, cmdmem, is, ie, slot, cache, wp, execd, stray>>

(* Slip: the test for errors does not exclude the test for completion. *)
HcStatusErrorLost == IF "ERR" \in sts /\ ~incard THEN "removed" ELSE "cmp"

(* The status it found; for an error without a card it is "removed". *)
HcStatus == IF "ERR" \notin sts THEN "cmp"
            ELSE IF incard THEN "err" ELSE "removed"

(* sdio_cmd_cmplt, for the command looked up, and InterruptUnmask. *)
HcCmplt ==
  /\ hpc = "cmplt"
  /\ wspc' = None
  /\ cstat' = [cstat EXCEPT ![hcmd] = HcStatus]
  /\ hpc' = "idle" /\ sts' = {} /\ hcmd' = None /\ late' = FALSE
  /\ stray' = (stray \/ (late /\ dpc \in {"start", "wait"} /\ hcmd = Cur))
  /\ UNCHANGED <<driver, clist, ctrl, slot, cache, wp, execd>>

Hc == HcRead \/ HcLookup \/ HcCmplt
-----------------------------------------------------------------------------
(***************************************************************************)
(* The controller, the card and the card-detect thread.  A status bit is   *)
(* latched only if it is enabled.  The card may hang: no step.             *)
(***************************************************************************)
Latch(bit) == is' = is \cup ({bit} \cap ie)

HwOk ==
  /\ incard
  /\ \E line \in hw :
       LET bit == IF line = "data" THEN "TC" ELSE "CC" IN
       /\ Latch(bit)
       /\ hw' = hw \ {line} /\ execd' = (execd \/ bit \in ie)
  /\ UNCHANGED <<driver, cmdmem, hcth, ie, slot, cache, wp, late, stray>>

(* A CRC, end bit or time-out error of the command or its data. *)
HwError ==
  /\ \E line \in hw : hw' = hw \ {line}
  /\ Latch("ERR")
  /\ UNCHANGED <<driver, cmdmem, hcth, ie, slot, cache, wp, ghost>>

(* The card is pulled out; for good, as far as this device is concerned. *)
CardRemoved ==
  /\ incard
  /\ incard' = FALSE
  /\ UNCHANGED <<driver, cmdmem, hcth, ctrl, dev, cache, wp, ghost>>

(* sdio_cd clears DEV_FLAG_PRESENT, then sets DEV_FLAG_RMV_PENDING. *)
CdStep ==
  /\ ~incard /\ dev # "rmv"
  /\ dev' = IF dev = "present" THEN "cleared" ELSE "rmv"
  /\ UNCHANGED <<driver, cmdmem, hcth, ctrl, incard, cache, wp,
                 ghost>>

Env == HwOk \/ HwError \/ CardRemoved \/ CdStep
-----------------------------------------------------------------------------
Init ==
  /\ dpc = "idle" /\ fr = << >> /\ res = "EOK"
  /\ write = FALSE /\ tries = 0
  /\ clist = << >> /\ cstat = [c \in Cmds |-> "inprog"] /\ wspc = None
  /\ hpc = "idle" /\ sts = {} /\ hcmd = None
  /\ is = {} /\ ie = {} /\ hw = {}
  /\ incard = TRUE /\ dev = "present"
  /\ cache = (IF Cached THEN "clean" ELSE "off") /\ wp = FALSE
  /\ execd = FALSE /\ late = FALSE /\ stray = FALSE

Next == Request \/ Driver \/ Hc \/ Env

Spec == Init /\ [][Next]_vars

(* The threads run; a wait with a time-out ends.  Nothing is asked of the  *)
(* controller, of the card or of the clients.                              *)
FairSpec == Spec /\ WF_vars(Driver) /\ WF_vars(Hc)
-----------------------------------------------------------------------------
(* Every variable keeps its type. *)
TypeOK ==
  /\ dpc \in {"idle", "begin", "issue", "start", "wait", "abort", "power",
             "done", "ret", "mark"}
  /\ write \in BOOLEAN /\ tries \in 0 .. ResetRetries
  /\ fr \in Seq([cmd : Cmds \cup {None}, kind : Kinds, retry : 0 .. CmdRetries])
  /\ Len(fr) <= 2
  /\ res \in {"EOK", "ENXIO", "error"}
  /\ clist \in Seq(Cmds)
  /\ cstat \in [Cmds -> {"inprog", "cmp", "err", "removed"}]
  /\ wspc \in Cmds \cup {None} /\ hcmd \in Cmds \cup {None}
  /\ hpc \in {"idle", "sts", "cmplt"}
  /\ is \subseteq {"CC", "TC", "ERR"}
  /\ sts \subseteq {"CC", "TC", "ERR"}
  /\ ie \subseteq {"CC", "TC", "ERR"}
  /\ hw \subseteq {"cmd", "data"}
  /\ incard \in BOOLEAN
  /\ dev \in {"present", "cleared", "rmv"}
  /\ cache \in {"clean", "dirty", "off", "lost"} /\ wp \in BOOLEAN
  /\ execd \in BOOLEAN /\ late \in BOOLEAN /\ stray \in BOOLEAN

(***************************************************************************)
(* hc->wspc.cmd is either NULL or the command that the driver thread is    *)
(* executing at this moment: whatever the order of completion, time-out,   *)
(* abort and the commands of a reset (sdio_issue_cmd, sdio_cmd_cmplt), the *)
(* HC thread never finds a command there that has been given back to the   *)
(* free list, or the outer command while the reset sends one.              *)
(***************************************************************************)
NoDangling ==
  wspc # None => dpc \in {"start", "wait", "abort", "done"} /\ wspc = Cur

(***************************************************************************)
(* A command that _sdio_send_cmd reports as done was executed by the card  *)
(* since it was issued.  The one exception (stray): the HC thread had read *)
(* the status of an earlier command, which timed out before it was looked  *)
(* up, and completes this one with it.  And with PIO, which is not         *)
(* modelled, a command is completed when its data has been moved; the      *)
(* transfer-complete interrupt may then complete the next.                 *)
(***************************************************************************)
SuccessIsTrue ==
  dpc = "ret" /\ res = "EOK" /\ ~stray => execd

(***************************************************************************)
(* When a request returns, with whatever result, the controller no longer  *)
(* moves data of it: its buffers belong to the client again.  The abort    *)
(* entry of the i.MX6 driver does nothing, so that after a time-out all    *)
(* depends on the reset of _sdio_send_cmd.  Two exceptions: a device that  *)
(* is no longer present is not reset (base.c:1152); and a transfer that    *)
(* was reported as complete with the status of an earlier command (stray). *)
(***************************************************************************)
NoTransferAfterReturn ==
  dpc = "idle" /\ dev = "present" /\ ~stray => "data" \notin hw

(***************************************************************************)
(* The comment in sdmmc_reset: after a reset with the cache on the user    *)
(* partition is write protected, because data may have been pending in the *)
(* cache.  Between requests, data lost from the cache implies that.        *)
(***************************************************************************)
CacheLossGuarded == dpc = "idle" /\ cache = "lost" => wp

(***************************************************************************)
(* Every request returns, although a command may hang and a completion may *)
(* be lost: to a late completion that clears hc->wspc.cmd, or to a reset.  *)
(***************************************************************************)
RequestReturns == (dpc # "idle") ~> (dpc = "idle")
=============================================================================
