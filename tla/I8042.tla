------------------------------- MODULE I8042 -------------------------------
(***************************************************************************)
(* The keyboard controller of crates/devices/src/i8042.rs with the         *)
(* keyboard and the mouse behind it.  The controller is a record (struct   *)
(* I8042) and every method an operator from a controller to a controller.  *)
(*                                                                         *)
(* One output buffer is shared by four queues: controller responses,       *)
(* keyboard responses, scancodes and mouse bytes.  A byte is what its      *)
(* reader can make of it: a key somebody typed, another byte of the        *)
(* keyboard's stream, a response.  Queues of like bytes are their lengths. *)
(***************************************************************************)
EXTENDS Integers, Sequences

CONSTANTS
  Makes,             (* the make codes of the keys that are typed           *)
  ScanCap,           (* KBD_SCAN_QUEUE_CAP: 16 in the code                  *)
  AuxCap,            (* AUX_RESP_QUEUE_CAP: 16                              *)
  HostAuxCap,        (* HOST_AUX_QUEUE_CAP: 16                              *)
  DumpLen            (* DIAG_DUMP_LEN and CTRL_RESP_QUEUE_CAP: 16           *)

(* The longest mouse response, and a movement packet.                       *)
MouseStatusLen == 4
MousePacketLen == 3

Quiet == "quiet"     \* a break, a prefix or a modifier from the keyboard
Reply == "reply"     \* a response whose bit 7 is set: ACK, BAT, ID
Stray == "stray"     \* a response that reads like a make code
Mouse == "mouse"
NoByte == "none"

KeyBytes == Makes \cup {Quiet}
Bytes == KeyBytes \cup {Reply, Stray, Mouse}

(* What the device sends while translation is on: Set 2, where a break is   *)
(* the make code after a prefix.                                            *)
BreakPrefix == "f0"
DeviceBytes == KeyBytes \cup {BreakPrefix}

ASSUME I8042Assumption ==
  /\ Makes \cap {Quiet, Reply, Stray, Mouse, NoByte, BreakPrefix} = {}
  /\ ScanCap \in Nat /\ HostAuxCap \in Nat /\ DumpLen \in Nat \ {0}
  /\ AuxCap \in Nat /\ AuxCap >= MouseStatusLen

PendingWrites == {"none", "config", "outPort", "aux"}

(* Keyboard and mouse commands, by what they do.                            *)
KbdCommands == {"reset", "id", "enable", "disable", "param", "scancodeSet",
                "ack", "resend", "defaults", "get", "set", "unknown"}
MouseCommands == {"reset", "id", "enable", "disable", "param", "status",
                  "ack", "wrap", "unwrap", "defaults", "unknown"}

Config == [int1 : BOOLEAN, int12 : BOOLEAN, kbdOff : BOOLEAN,
           auxOff : BOOLEAN, translate : BOOLEAN]

Controller ==
  [config : Config, a20 : BOOLEAN, reset : BOOLEAN, pending : PendingWrites,
   out : Bytes \cup {NoByte}, fromAux : BOOLEAN,
   ctrl : 0 .. DumpLen, resp : Seq({Reply, Stray}), scan : Seq(KeyBytes),
   aux : 0 .. AuxCap, hostAux : Seq(MouseCommands),
   scanning : BOOLEAN, kbdParam : {"none", "value", "set"},
   last : {Reply, Stray}, breakNext : BOOLEAN,
   reporting : BOOLEAN, wrap : BOOLEAN, mouseParam : BOOLEAN]

ResetController ==
  [config |-> [int1 |-> FALSE, int12 |-> FALSE, kbdOff |-> TRUE,
               auxOff |-> FALSE, translate |-> TRUE],
   a20 |-> TRUE, reset |-> FALSE, pending |-> "none",
   out |-> NoByte, fromAux |-> FALSE,
   ctrl |-> 0, resp |-> <<>>, scan |-> <<>>, aux |-> 0, hostAux |-> <<>>,
   scanning |-> TRUE, kbdParam |-> "none",
   last |-> Stray, breakNext |-> FALSE,
   reporting |-> FALSE, wrap |-> FALSE, mouseParam |-> FALSE]

Full(k) == k.out # NoByte

Irq1Line(k)  == Full(k) /\ ~k.fromAux /\ k.config.int1
Irq12Line(k) == Full(k) /\ k.fromAux /\ k.config.int12

----------------------------------------------------------------------------
(* The output buffer and the queues behind it.                              *)

PushOutput(k, b) == [k EXCEPT !.out = b, !.fromAux = FALSE]

(* What RESEND would send after byte b: it looks the same to a reader.      *)
Looks(b) == IF b \in Makes \cup {Stray} THEN Stray ELSE Reply

PresentKbd(k, b) == [PushOutput(k, b) EXCEPT !.last = Looks(b)]

FlushCtrl(k) ==
  IF Full(k) \/ k.ctrl = 0 THEN k
  ELSE [PushOutput(k, Stray) EXCEPT !.ctrl = @ - 1]

FlushResp(k) ==
  IF Full(k) \/ k.config.kbdOff \/ k.resp = <<>> THEN k
  ELSE [PresentKbd(k, Head(k.resp)) EXCEPT !.resp = Tail(@)]

FlushScan(k) ==
  IF Full(k) \/ k.config.kbdOff \/ k.scan = <<>> THEN k
  ELSE [PresentKbd(k, Head(k.scan)) EXCEPT !.scan = Tail(@)]

FlushAux(k) ==
  IF Full(k) \/ k.config.auxOff \/ k.aux = 0 THEN k
  ELSE [k EXCEPT !.out = Mouse, !.fromAux = TRUE, !.aux = @ - 1]

(* A read of port 60h.                                                      *)
TakeOutput(k) ==
  FlushAux(FlushScan(FlushResp(FlushCtrl(
    [k EXCEPT !.out = NoByte, !.fromAux = FALSE]))))

(* A response replaces what is left of the one before it.                   *)
BeginResp(k, bytes) == FlushResp([k EXCEPT !.resp = bytes])
BeginMouse(k, n) == FlushAux([k EXCEPT !.aux = n])
BeginDump(k) == FlushCtrl([k EXCEPT !.ctrl = DumpLen])

----------------------------------------------------------------------------
(* The devices send.                                                        *)

(* The byte the host sees of device byte b, NoByte for a prefix that        *)
(* translation consumes.                                                    *)
HostByte(k, b) ==
  IF b = BreakPrefix THEN IF k.config.translate THEN NoByte ELSE Quiet
  ELSE IF k.config.translate /\ k.breakNext THEN Quiet ELSE b

(* Mutant: a byte goes into an empty buffer past the ones that wait.        *)
QueueScanEager(k, b) ==
  IF ~Full(k) THEN PresentKbd(k, b)
  ELSE IF Len(k.scan) >= ScanCap THEN k
  ELSE [k EXCEPT !.scan = Append(@, b)]

(* Mutant: the buffer is taken whether it is full or not.                   *)
QueueScanOver(k, b) ==
  IF k.scan = <<>> THEN PresentKbd(k, b)
  ELSE IF Len(k.scan) >= ScanCap THEN k
  ELSE FlushScan([k EXCEPT !.scan = Append(@, b)])

QueueScan(k, b) ==
  IF ~Full(k) /\ k.scan = <<>> THEN PresentKbd(k, b)
  ELSE IF Len(k.scan) >= ScanCap THEN k
  ELSE FlushScan([k EXCEPT !.scan = Append(@, b)])

(* inject_scancode.                                                         *)
InjectScancode(k, b) ==
  LET seen == [k EXCEPT !.breakNext = k.config.translate /\ b = BreakPrefix]
  IN  IF k.config.kbdOff \/ ~k.scanning THEN k
      ELSE IF HostByte(k, b) = NoByte THEN seen
      ELSE QueueScan(seen, HostByte(k, b))

(* Mutant: the room in the queue is not checked.                            *)
InjectMousePacketUnchecked(k) ==
  IF ~k.reporting THEN k
  ELSE FlushAux([k EXCEPT !.aux = @ + MousePacketLen])

(* inject_mouse_packet.                                                     *)
InjectMousePacket(k) ==
  IF ~k.reporting \/ k.aux + MousePacketLen > AuxCap THEN k
  ELSE FlushAux([k EXCEPT !.aux = @ + MousePacketLen])

(* inject_aux_byte, which takes the buffer whether it is full or not.       *)
InjectAuxByte(k) ==
  IF k.config.auxOff THEN k ELSE [k EXCEPT !.out = Mouse, !.fromAux = TRUE]

----------------------------------------------------------------------------
(* Bytes for the devices.                                                   *)

MouseDefaults(k) ==
  [k EXCEPT !.reporting = FALSE, !.wrap = FALSE, !.mouseParam = FALSE]

(* handle_aux_device_byte.                                                  *)
MouseByte(k, c) ==
  IF k.wrap /\ c \notin {"unwrap", "reset"} THEN BeginMouse(k, 1)
  ELSE IF k.mouseParam THEN BeginMouse([k EXCEPT !.mouseParam = FALSE], 1)
  ELSE CASE
       c = "reset"    -> BeginMouse(MouseDefaults(k), 3)
    [] c = "defaults" -> BeginMouse(MouseDefaults(k), 1)
    [] c = "id"       -> BeginMouse(k, 2)
    [] c = "status"   -> BeginMouse(k, MouseStatusLen)
    [] c = "enable"   -> BeginMouse([k EXCEPT !.reporting = TRUE], 1)
    [] c = "disable"  -> BeginMouse([k EXCEPT !.reporting = FALSE], 1)
    [] c = "param"    -> BeginMouse([k EXCEPT !.mouseParam = TRUE], 1)
    [] c = "wrap"     -> BeginMouse([k EXCEPT !.wrap = TRUE], 1)
    [] c = "unwrap"   -> BeginMouse([k EXCEPT !.wrap = FALSE], 1)
    [] c = "ack"      -> BeginMouse(k, 1)
    [] OTHER          -> k

KbdDefaults(k) ==
  [k EXCEPT !.scanning = TRUE, !.kbdParam = "none", !.last = Stray]

(* A parameter byte of an earlier keyboard command.                         *)
KbdParamByte(k, c) ==
  LET done == [k EXCEPT !.kbdParam = "none"]
  IN  IF k.kbdParam = "value" \/ c = "set" THEN BeginResp(done, <<Reply>>)
      ELSE IF c = "get" THEN BeginResp(done, <<Reply, Stray>>)
      ELSE done

(* handle_kbd_device_byte.                                                  *)
KbdByte(k, c) ==
  IF k.kbdParam # "none" THEN KbdParamByte(k, c)
  ELSE CASE
       c = "reset"    -> BeginResp(KbdDefaults(k), <<Reply, Reply>>)
    [] c = "defaults" -> BeginResp(KbdDefaults(k), <<Reply>>)
    [] c = "id"       -> BeginResp(k, <<Reply, Reply, Reply>>)
    [] c = "enable"   -> BeginResp([k EXCEPT !.scanning = TRUE], <<Reply>>)
    [] c = "disable"  -> BeginResp([k EXCEPT !.scanning = FALSE], <<Reply>>)
    [] c = "param"    -> BeginResp([k EXCEPT !.kbdParam = "value"], <<Reply>>)
    [] c = "scancodeSet" -> BeginResp([k EXCEPT !.kbdParam = "set"], <<Reply>>)
    [] c = "resend"   -> BeginResp(k, <<k.last>>)
    [] c = "ack"      -> BeginResp(k, <<Reply>>)
    [] OTHER          -> k

----------------------------------------------------------------------------
(* The guest's ports.                                                       *)

(* on_aux_clock_enabled: the deferred bytes reach the mouse in order, then  *)
(* a held response is presented.                                            *)
EnableAux(k) ==
  LET fed[n \in 0 .. Len(k.hostAux)] ==
        IF n = 0 THEN [k EXCEPT !.config.auxOff = FALSE, !.hostAux = <<>>]
        ELSE MouseByte(fed[n - 1], k.hostAux[n])
  IN  FlushAux(fed[Len(k.hostAux)])

Commands == {"readNow", "writeConfig", "writeOutPort", "writeAux",
             "disableAux", "enableAux", "disableKbd", "enableKbd", "dump",
             "pulseReset"}

(* handle_command; "readNow" is any command answered at once: read the      *)
(* configuration or the output port, the self test and the port tests.      *)
Command(k, c) ==
  CASE c = "readNow"      -> PushOutput(k, Stray)
    [] c = "writeConfig"  -> [k EXCEPT !.pending = "config"]
    [] c = "writeOutPort" -> [k EXCEPT !.pending = "outPort"]
    [] c = "writeAux"     -> [k EXCEPT !.pending = "aux"]
    [] c = "disableAux"   -> [k EXCEPT !.config.auxOff = TRUE]
    [] c = "enableAux"    -> EnableAux(k)
    [] c = "disableKbd"   -> [k EXCEPT !.config.kbdOff = TRUE]
    [] c = "enableKbd"    -> FlushResp([k EXCEPT !.config.kbdOff = FALSE])
    [] c = "dump"         -> BeginDump(k)
    [] c = "pulseReset"   -> [k EXCEPT !.reset = TRUE]

(* Mutant: the aux clock comes on without what waited for it.               *)
StoreConfigUnflushed(k, config) ==
  [k EXCEPT !.config = config, !.pending = "none"]

(* port_write of the data port, by what the controller expects.             *)
StoreConfig(k, config) ==
  LET stored == [k EXCEPT !.config = config, !.pending = "none"]
  IN  IF k.config.auxOff /\ ~config.auxOff THEN EnableAux(stored) ELSE stored

StoreOutPort(k, a20, resetLine) ==
  [k EXCEPT !.a20 = a20, !.reset = @ \/ resetLine, !.pending = "none"]

StoreAux(k, c) ==
  LET stored == [k EXCEPT !.pending = "none"]
  IN  IF ~k.config.auxOff THEN MouseByte(stored, c)
      ELSE IF Len(k.hostAux) >= HostAuxCap THEN stored
      ELSE [stored EXCEPT !.hostAux = Append(@, c)]
=============================================================================
