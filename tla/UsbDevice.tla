------------------------------ MODULE UsbDevice ------------------------------
(***************************************************************************)
(* The station on the bus: attach, suspend, wake-up and bus reset          *)
(* (USBDeviceAttach, USBDeviceTasks, USBSuspend, USBWakeFromSuspend and    *)
(* USBDeviceInit of usb_device.c) around the control transfers of          *)
(* Ep0Control.  The host falls silent, resumes or resets the bus whenever  *)
(* it likes, also while the interrupt routine is busy; what it has done is *)
(* found in the flags of U1IR at the next call of USBDeviceTasks.  Below   *)
(* the DEFAULT state "power" is USBDeviceState, above it that of           *)
(* Ep0Control is.                                                          *)
(*                                                                         *)
(* The flags are the hardware's, as usb_device.c:2434-2452 and 846-848 use *)
(* them: one ACTVIF for each IDLEIF, URSTIF only once SUSPND is clear.     *)
(* The header that defines SetConfigurationOptions is not in the           *)
(* repository; it must unmask the reset and idle interrupts, for nothing   *)
(* else runs USBDeviceTasks in the ATTACHED state.                         *)
(***************************************************************************)
EXTENDS Ep0Control

CONSTANT Hosts   \* the repertoires of requests: a host keeps to one of them

ASSUME DeviceAssumption == \A h \in Hosts : h \subseteq Requests

VARIABLES
  power,       \* "DETACHED", "ATTACHED", "POWERED", or "UP" from DEFAULT on
  bus,         \* the lines: SE0 before the pull-up rises, "quiet", "traffic", "reset"
  IDLEIF, ACTVIF, URSTIF,       \* flags of U1IR
  ACTVIE, SUSPND, USBBusIsSuspended,
  owesActivity,   \* an IDLEIF has been raised whose ACTVIF has not
  passing,        \* USBDeviceTasks has suspended and goes on with the rest of its pass
  host,           \* the repertoire of the host
  erased          \* history: the reset was served after the transfer had begun

irFlags == <<IDLEIF, ACTVIF, URSTIF>>
asleep  == <<ACTVIE, SUSPND, USBBusIsSuspended>>
deviceVars == <<power, bus, irFlags, asleep, owesActivity, passing, host, erased>>
allVars == <<vars, deviceVars>>

DeviceInit ==
  /\ Init
  /\ power = "DETACHED" /\ bus = "se0"
  /\ IDLEIF = FALSE /\ ACTVIF = FALSE /\ URSTIF = FALSE
  /\ ACTVIE = FALSE /\ SUSPND = FALSE /\ USBBusIsSuspended = FALSE
  /\ owesActivity = FALSE /\ passing = FALSE /\ erased = FALSE
  /\ host \in Hosts

-----------------------------------------------------------------------------
(* The bus. *)

\* the first activity after an idle period raises the one ACTVIF it is owed
Activity ==
  /\ ACTVIF' = (ACTVIF \/ owesActivity)
  /\ owesActivity' = FALSE

\* The milliseconds of a silence or a reset are enough for the interrupt routine to serve all
\* there is, unless it is sending a command to the watch, 5 ms a byte.
Slow == pc \in {"handle", "handleEarly"}
Quietly == Slow \/ (Idle /\ ustat = <<>>)

LineRises ==
  /\ power # "DETACHED" /\ bus = "se0" /\ bus' = "quiet"
  /\ UNCHANGED <<vars, power, irFlags, asleep, owesActivity, passing, host, erased>>

FallsSilent ==
  /\ bus = "traffic" /\ Quietly /\ bus' = "quiet"
  /\ UNCHANGED <<vars, power, irFlags, asleep, owesActivity, passing, host, erased>>

\* three milliseconds without traffic; the SIE has no clock while SUSPND is set
SilenceSeen ==
  /\ bus = "quiet" /\ ~SUSPND /\ ~owesActivity /\ Quietly
  /\ IDLEIF' = TRUE /\ owesActivity' = TRUE
  /\ UNCHANGED <<vars, power, bus, ACTVIF, URSTIF, asleep, passing, host, erased>>

BusResumes ==
  /\ power = "UP" /\ bus = "quiet" /\ bus' = "traffic" /\ Activity
  /\ UNCHANGED <<vars, power, IDLEIF, URSTIF, asleep, passing, host, erased>>

\* the SIE clears its address; the transfer the host was at is given up
BusResets ==
  /\ bus \in {"quiet", "traffic"} /\ (Slow \/ Idle) /\ bus' = "reset" /\ Activity
  /\ URSTIF' = (URSTIF \/ ~SUSPND)
  /\ U1ADDR' = 0 /\ hAddr' = 0 /\ stage' = "idle" /\ erased' = FALSE
  /\ req' = NoRequest /\ hLeft' = 0 /\ hDts' = 1
  /\ UNCHANGED <<outBD, inBD, sie, stallIF, outCur, outNext, inPtr, ctrl, pipes, flags, USBDeviceState,
                 SetupPkt, CtrlTrfData, pc, serving, handled, turn, lost>>
  /\ UNCHANGED <<power, IDLEIF, asleep, passing, host>>

\* the host has waited long enough for what the station can still do
ResetEnds ==
  /\ bus = "reset" /\ ~(ACTVIF /\ ACTVIE) /\ (URSTIF => Slow \/ SUSPND)
  /\ bus' = "traffic"
  /\ UNCHANGED <<vars, power, irFlags, asleep, owesActivity, passing, host, erased>>

-----------------------------------------------------------------------------
(* The firmware: what USBDeviceTasks looks at, in its order. *)

USBDeviceAttach ==
  /\ power = "DETACHED" /\ power' = "ATTACHED"
  /\ UNCHANGED <<vars, bus, irFlags, asleep, owesActivity, passing, host, erased>>

LineIsUp == bus \notin {"se0", "reset"}

\* Faulty: does not wait for the end of SE0, and clears the flag of a reset
PowersInSE0 ==
  /\ Idle /\ power = "ATTACHED"
  /\ power' = "POWERED" /\ IDLEIF' = FALSE /\ ACTVIF' = FALSE /\ URSTIF' = FALSE
  /\ UNCHANGED <<vars, bus, asleep, owesActivity, passing, host, erased>>

Powers ==
  /\ Idle /\ power = "ATTACHED" /\ LineIsUp
  /\ power' = "POWERED" /\ IDLEIF' = FALSE /\ ACTVIF' = FALSE /\ URSTIF' = FALSE
  /\ UNCHANGED <<vars, bus, asleep, owesActivity, passing, host, erased>>

\* Faulty: the application still finds the bus suspended
WakesUntold ==
  /\ Idle /\ ~passing /\ ACTVIF /\ ACTVIE
  /\ SUSPND' = FALSE /\ ACTVIE' = FALSE /\ ACTVIF' = FALSE
  /\ URSTIF' = (URSTIF \/ bus = "reset")
  /\ UNCHANGED <<vars, power, bus, IDLEIF, USBBusIsSuspended, owesActivity, passing, host, erased>>

USBWakeFromSuspend ==
  /\ Idle /\ ~passing /\ ACTVIF /\ ACTVIE
  /\ USBBusIsSuspended' = FALSE /\ SUSPND' = FALSE /\ ACTVIE' = FALSE /\ ACTVIF' = FALSE
  /\ URSTIF' = (URSTIF \/ bus = "reset")
  /\ UNCHANGED <<vars, power, bus, IDLEIF, owesActivity, passing, host, erased>>

\* the reset part of USBDeviceTasks, with USBDeviceInit
ServesReset ==
  /\ ~SUSPND /\ URSTIF
  /\ Resets(stage, hAddr)
  /\ IDLEIF' = FALSE /\ ACTVIF' = FALSE /\ URSTIF' = FALSE
  /\ USBBusIsSuspended' = FALSE /\ power' = "UP"
  /\ erased' = (stage # "idle")
  /\ UNCHANGED <<bus, ACTVIE, SUSPND, owesActivity, passing, host>>

\* the tests before that of IDLEIF have found nothing to do, unless a reset has come since
SeesIdle ==
  /\ Idle /\ ~SUSPND /\ IDLEIF
  /\ bus # "reset" => ~URSTIF /\ power # "ATTACHED"

\* Faulty: ACTVIF is cleared, though it is the only one this IDLEIF will have
SuspendsAfresh ==
  /\ SeesIdle
  /\ ACTVIE' = TRUE /\ IDLEIF' = FALSE /\ SUSPND' = TRUE /\ USBBusIsSuspended' = TRUE /\ passing' = TRUE
  /\ ACTVIF' = FALSE
  /\ UNCHANGED <<vars, power, bus, URSTIF, owesActivity, host, erased>>

USBSuspend ==
  /\ SeesIdle
  /\ ACTVIE' = TRUE /\ IDLEIF' = FALSE /\ SUSPND' = TRUE /\ USBBusIsSuspended' = TRUE /\ passing' = TRUE
  /\ UNCHANGED <<vars, power, bus, ACTVIF, URSTIF, owesActivity, host, erased>>

\* the transactions still in the FIFO are served in the pass that suspends
PassEnds ==
  /\ Idle /\ passing /\ ustat = <<>> /\ passing' = FALSE
  /\ UNCHANGED <<vars, power, bus, irFlags, asleep, owesActivity, host, erased>>

\* USBDeviceTasks returns early while suspended, and before the first reset
Served == (Idle => power = "UP" /\ (passing \/ ~SUSPND)) /\ Firmware /\ UNCHANGED deviceVars

Frame == (passing \/ (bus = "traffic" /\ ~SUSPND)) /\ FrameStarts /\ UNCHANGED deviceVars

USBDeviceTasks == Powers \/ USBWakeFromSuspend \/ ServesReset \/ USBSuspend \/ PassEnds \/ Served

Talks == bus = "traffic" /\ ~SUSPND
Sets(r) ==
  /\ Talks /\ SetupToken(r) /\ erased' = FALSE
  /\ UNCHANGED <<power, bus, irFlags, asleep, owesActivity, passing, host>>
Goes == Talks /\ HostProgress /\ UNCHANGED deviceVars
Disturbs == Talks /\ (InAnswered(FALSE) \/ OutTaken(FALSE) \/ EndsEarly) /\ UNCHANGED deviceVars

DeviceNext ==
  \/ USBDeviceAttach \/ USBDeviceTasks \/ Frame
  \/ LineRises \/ FallsSilent \/ SilenceSeen \/ BusResumes \/ BusResets \/ ResetEnds
  \/ (\E r \in host : Sets(r)) \/ Goes \/ Disturbs

(***************************************************************************)
(* The interrupt routine runs, frames start every millisecond of traffic,  *)
(* the host retries.  A pass looks at the reset flag before it serves at   *)
(* most four transactions, so those that keep coming cannot put it off.    *)
(***************************************************************************)
DeviceSpec ==
  /\ DeviceInit /\ [][DeviceNext]_allVars
  /\ WF_allVars(USBDeviceTasks) /\ SF_allVars(ServesReset) /\ WF_allVars(Frame) /\ WF_allVars(Goes)

-----------------------------------------------------------------------------
(* Properties. *)

(***************************************************************************)
(* The types; and what the application asks for with USBIsBusSuspended is  *)
(* what the SIE does, with the one interrupt that can end it unmasked.     *)
(***************************************************************************)
DeviceTypeOK ==
  /\ TypeOK
  /\ power \in {"DETACHED", "ATTACHED", "POWERED", "UP"}
  /\ bus \in {"se0", "quiet", "traffic", "reset"}
  /\ {IDLEIF, ACTVIF, URSTIF, owesActivity, passing, erased} \subseteq BOOLEAN
  /\ host \in Hosts /\ SUSPND \in BOOLEAN /\ USBBusIsSuspended = SUSPND /\ ACTVIE = SUSPND

(***************************************************************************)
(* What the host has seen succeed is so in the station, and what it has    *)
(* seen fail is explained, also when the bus fell silent in the middle of  *)
(* the transfer; unless USBDeviceInit, served late, came after it began.   *)
(***************************************************************************)
DoneOnTheBus == ~erased => DoneOnBothSides /\ OnlyUnknownStalled

(***************************************************************************)
(* A station whose bus comes back wakes up, although the host may resume   *)
(* before the silence has been seen to, and may fall silent again at once. *)
(***************************************************************************)
WakesWithTheBus == SUSPND /\ bus \in {"traffic", "reset"} ~> ~SUSPND

(***************************************************************************)
(* A bus reset reaches USBDeviceInit and the DEFAULT state, whether the    *)
(* station was just attached, suspended or in the middle of a transfer.    *)
(***************************************************************************)
ResetIsServed ==
  URSTIF \/ (SUSPND /\ bus = "reset") ~> power = "UP" /\ USBDeviceState = "DEFAULT" /\ ~URSTIF /\ ~SUSPND

(***************************************************************************)
(* A transfer the host goes on with ends, done or stalled, unless it starts*)
(* another or silences the bus: no status stage is refused for ever, not   *)
(* even that of a control write ended before all the announced data was    *)
(* sent, and not after a suspend in the middle.  A transfer begun before   *)
(* the reset was served is lost with the descriptors.                      *)
(***************************************************************************)
TransferEnds ==
  \A t \in 0..1 : (stage \in {"data", "status"} /\ turn = t) ~>
                    (stage \notin {"data", "status"} \/ turn # t \/ bus # "traffic" \/ erased)

=============================================================================
