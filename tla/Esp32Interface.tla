---------------------------- MODULE Esp32Interface ----------------------------
(***************************************************************************)
(* The lifecycle of the serial output in ai/hardware/esp32_interface.py:   *)
(* the connection state it reports and the serial port object behind it.   *)
(* The device answers as it likes: an open may fail or yield a port that   *)
(* is not open, a write may raise, and an acknowledgement may be missing.  *)
(***************************************************************************)
EXTENDS Naturals

CONSTANTS
  Simulation,       \* simulation_mode
  PortConfigured    \* whether PySerial and a port name are available

ASSUME HardwareAssumption == Simulation \in BOOLEAN /\ PortConfigured \in BOOLEAN

VARIABLES
  hardware,     \* status.connection_state
  connected,    \* status.connected
  port          \* serial_conn: "none" (None), "open" or "closed" (is_open)

hardwareVars == <<hardware, connected, port>>

ConnectionState == {"SIMULATION", "CONNECTING", "CONNECTED", "DISCONNECTED", "ERROR"}

HardwareTypeOK ==
  /\ hardware \in ConnectionState
  /\ connected \in BOOLEAN
  /\ port \in {"none", "open", "closed"}

(* hardware_is_safe_to_run                                                 *)
HardwareIsSafe == hardware \in {"SIMULATION", "CONNECTED"}

(***************************************************************************)
(* The states connect may end in, from a closed interface: the state, the  *)
(* flag and the port object.                                               *)
(***************************************************************************)
ConnectOutcomes ==
  IF Simulation THEN {<<"SIMULATION", FALSE, "none">>}
  ELSE {<<"ERROR", FALSE, "none">>}
       \cup (IF PortConfigured
             THEN {<<"CONNECTED", TRUE, "open">>, <<"CONNECTING", FALSE, "closed">>}
             ELSE {})

HardwareInit ==
  \E outcome \in ConnectOutcomes :
    hardware = outcome[1] /\ connected = outcome[2] /\ port = outcome[3]

(* reconnect: the stale port is closed first.                              *)
Reconnect ==
  \E outcome \in ConnectOutcomes :
    hardware' = outcome[1] /\ connected' = outcome[2] /\ port' = outcome[3]

Written == hardware' = hardware /\ connected' = connected /\ port' = port

Acknowledged == hardware' = "CONNECTED" /\ connected' = TRUE /\ port' = port

WriteFails == hardware' = "ERROR" /\ connected' = FALSE /\ port' = port

(* An earlier error is kept as the reason.                                 *)
Rejected ==
  /\ hardware' = IF hardware = "ERROR" THEN "ERROR" ELSE "DISCONNECTED"
  /\ connected' = FALSE
  /\ port' = port

(***************************************************************************)
(* send_command returns TRUE (the device may or may not acknowledge) or    *)
(* FALSE.                                                                  *)
(***************************************************************************)
SendAccepted ==
  \/ Simulation /\ Written
  \/ ~Simulation /\ port = "open" /\ (Acknowledged \/ Written)

(* Mutant of SendRefused: a failed write leaves the connection state.      *)
SendRefused_StaysConnected ==
  \/ ~Simulation /\ port = "open" /\ Written
  \/ ~Simulation /\ port # "open" /\ Rejected

SendRefused ==
  \/ ~Simulation /\ port = "open" /\ WriteFails
  \/ ~Simulation /\ port # "open" /\ Rejected

(* close                                                                   *)
Close == hardware' = "DISCONNECTED" /\ connected' = FALSE /\ port' = "none"
=============================================================================
