----------------------------- MODULE RseUpdate ------------------------------
(***************************************************************************)
(* The control core while the firmware is replaced.  loop() waits for a    *)
(* download: no input is sampled, no batch and no poll runs, and the gate  *)
(* safeForFirmwareUpdate() is asked again at every block.  The new image   *)
(* leaves the inverters alone until its trial is over.  What an update     *)
(* does to the images themselves is in Ota.tla.                            *)
(***************************************************************************)
EXTENDS RseControl

VARIABLE update     \* how far an update is

controlUpdateVars == <<vars, update>>

Running == {"download", "activate"}

UpdateInit == Init /\ update = "none"

(* service() at the end of an iteration, or the command "ota update". *)
UpdateBegins ==
    /\ update = "none" /\ pc = "usb" /\ SafeForFirmwareUpdate
    /\ Disturb("update")
    /\ update' = "download"
    /\ UNCHANGED <<inputVars, configVars, activePercent, outputHealthy,
                   controlReapplyRequired, testVars, deviceVars, statusVars,
                   periodicReadCursor, pc, ret, batchVars>>

(* The gate has closed when it is asked, or the download fails.            *)
UpdateEnds ==
    /\ update = "download" /\ update' = "none"
    /\ UNCHANGED vars

(* The whole image is there and the gate open for the last time.           *)
UpdateIsVerified ==
    /\ update = "download" /\ SafeForFirmwareUpdate
    /\ update' = "activate"
    /\ UNCHANGED vars

RestartIntoUpdate ==
    /\ update = "activate" /\ update' = "trial"
    /\ Restarts /\ UNCHANGED budget

(* The image is valid, or the previous one is started again.               *)
TrialEnds ==
    /\ update = "trial" /\ update' = "none"
    /\ UNCHANGED vars

Update == \/ UpdateBegins \/ UpdateEnds \/ UpdateIsVerified
          \/ RestartIntoUpdate \/ TrialEnds

(* What goes on while loop() waits. *)
Meanwhile ==
    /\ update # "none" /\ UNCHANGED update
    /\ \/ ClockTick \/ ContactsChange \/ ClockWrap
       \/ \E i \in Inverters : ForeignWrite(i)

RebootInUpdate == update \in Running /\ Reboot /\ update' = "none"

UpdateNext ==
    \/ update = "none" /\ Next /\ UNCHANGED update
    \/ Update \/ Meanwhile \/ RebootInUpdate

UpdateSpec == UpdateInit /\ [][UpdateNext]_controlUpdateVars

WithoutUpdate == update = "none" /\ UNCHANGED update

(* loop(), its sampling and the clock go on, poll slots come due again and *)
(* again, and every download and every trial ends.                         *)
UpdateFairness ==
    /\ WF_controlUpdateVars(WithoutUpdate /\ Loop)
    /\ SF_controlUpdateVars(WithoutUpdate /\ PollNext)
    /\ WF_controlUpdateVars(WithoutUpdate /\ SampleInputs)
    /\ WF_controlUpdateVars(UNCHANGED update /\ ClockTick)
    /\ WF_controlUpdateVars(WithoutUpdate /\ TestDeadline)
    /\ WF_controlUpdateVars(update # "none" /\ Update)

-----------------------------------------------------------------------------
(* Properties. *)

(* What the gate saw at the start of an update stays true until the last   *)
(* time it is asked and beyond, to the restart: no inverter has left full  *)
(* power.  Before the update, a reapplication may have been pending or an  *)
(* inverter set up anew that no batch or poll has compared yet, and other  *)
(* masters may write at any time.                                          *)
FullPowerThroughUpdate ==
    SoleWriter /\ update \in Running /\ ~dryRun /\ ~controlReapplyRequired
    => \A i \in Controlled \ unjudged : OnTarget(i, 100)
=============================================================================
