------------------------------ MODULE MCDrivers ------------------------------
(***************************************************************************)
(* Five drivers that share nothing, checked side by side: the device under *)
(* check is chosen at the start, and the others stand still.               *)
(*                                                                         *)
(* The repeater has a list of two for two values; 10 is 2, 2^32 is 8, and  *)
(* the minimum of "high" is so near to it that min + 10 wraps.             *)
(***************************************************************************)
EXTENDS RingBuffer, FastAdd, TLC

CONSTANTS QueueLength, up, high

MCKeys == {up, high}
MCMin == up :> 0 @@ high :> 6
MCMax == up :> 3 @@ high :> 7
MCSigns == up :> Signs @@ high :> {"FP_PLUS", "FP_MINUS_10"}

VARIABLES
    device,
    param, flash, save_flag, save_timeout, changer, shown, saver, missed,
    state, power_off_timer, task, button, connected, holds,
    dev_state, timer, commands, tmr, isr, app, measures, failed

MenuSaveDrv == INSTANCE MenuSave
PowerOnDrv == INSTANCE PowerOn
WaterFlowDrv == INSTANCE WaterFlowSensor

Devices == {"ring", "fast", "save", "power", "water"}
saveVars == <<param, flash, save_flag, save_timeout, changer, shown, saver, missed>>
powerVars == <<state, power_off_timer, task, button, connected, holds>>
waterVars == <<dev_state, timer, commands, tmr, isr, app, measures, failed>>
drvVars == <<device, ringVars, vars, saveVars, powerVars, waterVars>>

DrvInit ==
    /\ device \in Devices
    /\ RingInit /\ (device # "ring" => n_elem = 0)
    /\ Init /\ (device # "fast" => val = MinOf)
    /\ PowerOnDrv!Init /\ (device # "power" => connected)
    /\ MenuSaveDrv!Init /\ WaterFlowDrv!Init

(* The others stand still. *)
Only(d) ==
    /\ device = d /\ UNCHANGED device
    /\ d # "ring" => UNCHANGED ringVars
    /\ d # "fast" => UNCHANGED vars
    /\ d # "save" => UNCHANGED saveVars
    /\ d # "power" => UNCHANGED powerVars
    /\ d # "water" => UNCHANGED waterVars

DrvNext ==
    \/ Only("ring") /\ RingNext
    \/ Only("fast") /\ Next
    \/ Only("save") /\ MenuSaveDrv!Next
    \/ Only("power") /\ PowerOnDrv!Next
    \/ Only("water") /\ WaterFlowDrv!Next

DrvSpec ==
    /\ DrvInit /\ [][DrvNext]_drvVars
    /\ WF_drvVars(Only("save") /\ MenuSaveDrv!MenuTask)
    /\ WF_drvVars(Only("save") /\ MenuSaveDrv!TimePasses)
    /\ WF_drvVars(Only("power") /\ PowerOnDrv!Task)
    /\ WF_drvVars(Only("power") /\ PowerOnDrv!ResetWrites)
    /\ WF_drvVars(Only("power") /\ PowerOnDrv!TimePasses)
    /\ WF_drvVars(Only("water") /\ WaterFlowDrv!TimerTask)
    /\ WF_drvVars(Only("water") /\ WaterFlowDrv!Isr)
    /\ WF_drvVars(Only("water") /\ WaterFlowDrv!App)
    /\ WF_drvVars(Only("water") /\ WaterFlowDrv!Expires)

-----------------------------------------------------------------------------
(* SavedInTheEnd of MenuSave, IdleSwitchesOff of PowerOn, NoWaterReported  *)
(* of WaterFlowSensor, each when its driver is the one under check.        *)
SavedInTheEnd == device = "save" => MenuSaveDrv!SavedInTheEnd
IdleSwitchesOff == device = "power" => PowerOnDrv!IdleSwitchesOff
NoWaterReported == device = "water" => WaterFlowDrv!NoWaterReported
=============================================================================
