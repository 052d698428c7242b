------------------------------ MODULE Fastboot ------------------------------
(***************************************************************************)
(* fastboot.c: device_boot, as cdba-server talks it over USB.  A command   *)
(* is one bulk transfer out and its answers are bulk transfers in; each    *)
(* transfer is given up after a second, and nobody looks whether a command *)
(* failed.  The boot loader is not part of the repository: it takes one    *)
(* thing at a time, and is modelled as the host code expects it to answer. *)
(***************************************************************************)
EXTENDS Integers, Sequences

CONSTANTS
  Scripts,   \* what the server asks for: device_boot's commands, continue
  Chunks,    \* the image, in transfers of MAX_USBFS_BULK_SIZE
  MaxBoots,  \* bound: calls
  MaxInfos,  \* bound: INFO answers, and answers of no known kind
  MaxLate    \* bound: answers that take more than a second

Commands == {"set_active", "download", "boot", "flash", "reboot", "continue"}

ASSUME FastbootAssumption ==
  /\ Scripts \subseteq Seq(Commands) /\ <<>> \notin Scripts
  /\ Chunks \in Nat \ {0}
  /\ MaxBoots \in Nat /\ MaxInfos \in Nat /\ MaxLate \in Nat

VARIABLES
  todo,    \* commands left, the one in progress first
  hpc,     \* "idle", "write", "read", "data", "status"
  offset,  \* chunks of the image written
  dpc,     \* boot loader: "ready", "busy", "data" (takes image data), "gone"
  doing,   \* what it is busy with: a command, "image" when that is whole,
           \* "junk" for no known command
  staged,  \* the data it holds, in chunks; 0 for what is not of the image
  answers, \* transfers in that were not read
  booted,  \* history: what was booted or flashed
  late,    \* history: an answer was given up, or data met a busy device
  boots, infos, lates   \* bounds

host == <<todo, hpc, offset>>
device == <<dpc, doing, staged, booted>>
bounds == <<boots, infos, lates>>
vars == <<todo, hpc, offset, dpc, doing, staged, answers, booted, late, boots,
          infos, lates>>

Init == /\ todo = <<>> /\ hpc = "idle" /\ offset = 0
        /\ dpc = "ready" /\ doing = "none" /\ staged = <<>>
        /\ answers = <<>> /\ booted = {} /\ late = FALSE
        /\ boots = 0 /\ infos = 0 /\ lates = 0
-----------------------------------------------------------------------------
(* device_boot is called with the whole image, or fastboot_continue. *)
DeviceBoot ==
  /\ hpc = "idle" /\ boots < MaxBoots
  /\ todo' \in Scripts /\ hpc' = "write" /\ boots' = boots + 1
  /\ UNCHANGED <<offset, device, answers, late, infos, lates>>

(* What one transfer out does: a busy device does not take it in time.     *)
(* A device that waits for data takes a command for data, and the other way*)
(* round.                                                                  *)
TransferOut(command, data) ==
  \/ /\ dpc = "ready"
     /\ dpc' = "busy" /\ doing' = command
     /\ UNCHANGED <<staged, late>>
  \/ /\ dpc = "data"
     /\ staged' = Append(staged, data)
     /\ IF Len(staged') = Chunks THEN dpc' = "busy" /\ doing' = "image"
                                 ELSE UNCHANGED <<dpc, doing>>
     /\ UNCHANGED late
  \/ /\ dpc = "busy" /\ late' = TRUE /\ UNCHANGED <<dpc, doing, staged>>
  \/ /\ dpc = "gone" /\ UNCHANGED <<dpc, doing, staged, late>>

(* fastboot_write of a command; its result is not looked at. *)
WriteCommand ==
  /\ hpc = "write"
  /\ hpc' = "read"
  /\ TransferOut(Head(todo), 0)
  /\ UNCHANGED <<todo, offset, answers, booted, bounds>>

NextCommand == /\ todo' = Tail(todo)
               /\ hpc' = IF Tail(todo) = <<>> THEN "idle" ELSE "write"
               /\ UNCHANGED offset

(* fastboot_read has returned.  Only fastboot_download asks how: it sends  *)
(* the image unless the device refused.                                    *)
Answered(ok) ==
  IF Head(todo) = "download" /\ hpc = "read" /\ ok
    THEN hpc' = "data" /\ offset' = 0 /\ UNCHANGED todo
    ELSE NextCommand

Reading == hpc \in {"read", "status"}

(* Seeded fault: INFO is taken for the answer. *)
ReadInfoEnds ==
  /\ Reading /\ answers # <<>> /\ Head(answers) \in {"INFO", "other"}
  /\ answers' = Tail(answers)
  /\ Answered(FALSE)
  /\ UNCHANGED <<device, late, bounds>>

(* INFO is shown, and an answer of no known kind passed over. *)
ReadInfo ==
  /\ Reading /\ answers # <<>> /\ Head(answers) \in {"INFO", "other"}
  /\ answers' = Tail(answers)
  /\ UNCHANGED <<host, device, late, bounds>>

(* OKAY and DATA succeed; FAIL, and an answer of less than four characters,*)
(* do not.                                                                 *)
ReadAnswer ==
  /\ Reading /\ answers # <<>>
  /\ Head(answers) \in {"OKAY", "DATA", "FAIL", "short"}
  /\ answers' = Tail(answers)
  /\ Answered(Head(answers) \in {"OKAY", "DATA"})
  /\ UNCHANGED <<device, late, bounds>>

(* Seeded fault: the transfer is tried again for ever. *)
ReadTimeoutRetried ==
  /\ Reading /\ answers = <<>> /\ (dpc = "busy" => lates < MaxLate)
  /\ late' = (late \/ dpc # "gone")
  /\ lates' = IF dpc = "busy" THEN lates + 1 ELSE lates
  /\ UNCHANGED <<host, device, answers, boots, infos>>

(* The transfer in fails: no answer within a second, or no device. *)
ReadTimeout ==
  /\ Reading /\ answers = <<>> /\ (dpc = "busy" => lates < MaxLate)
  /\ late' = (late \/ dpc # "gone")
  /\ lates' = IF dpc = "busy" THEN lates + 1 ELSE lates
  /\ Answered(FALSE)
  /\ UNCHANGED <<device, answers, boots, infos>>

(* Seeded fault: the offset is not advanced. *)
WriteDataStuck ==
  /\ hpc = "data"
  /\ TransferOut("junk", 1)
  /\ IF dpc \in {"busy", "gone"} THEN NextCommand
     ELSE /\ offset' = offset + 1 /\ UNCHANGED todo
          /\ hpc' = IF offset' = Chunks THEN "status" ELSE "data"
  /\ UNCHANGED <<answers, booted, bounds>>

(* fastboot_download's loop: one transfer of the image.  A transfer that   *)
(* fails ends fastboot_download, but not device_boot.                      *)
WriteData ==
  /\ hpc = "data"
  /\ TransferOut("junk", offset + 1)
  /\ IF dpc \in {"busy", "gone"} THEN NextCommand
     ELSE /\ offset' = offset + 1 /\ UNCHANGED todo
          /\ hpc' = IF offset' = Chunks THEN "status" ELSE "data"
  /\ UNCHANGED <<answers, booted, bounds>>
-----------------------------------------------------------------------------
(* The boot loader.  It may announce what it does first ...                *)
Announces ==
  /\ dpc = "busy" /\ infos < MaxInfos
  /\ \E a \in {"INFO", "other"} : answers' = Append(answers, a)
  /\ infos' = infos + 1
  /\ UNCHANGED <<host, device, late, boots, lates>>

(* ... then refuses a command, in more or less words ...                   *)
Refuses ==
  /\ dpc = "busy" /\ dpc' = "ready" /\ doing' = "none"
  /\ \E a \in {"FAIL", "short"} : answers' = Append(answers, a)
  /\ UNCHANGED <<host, staged, booted, late, bounds>>

(* ... or carries it out.  Only a whole image is booted or flashed.        *)
CarriesOut ==
  /\ dpc = "busy" /\ doing # "junk"
  /\ doing \in {"boot", "flash"} => Len(staged) = Chunks
  /\ dpc' = CASE doing = "download" -> "data"
              [] doing \in {"boot", "reboot", "continue"} -> "gone"
              [] OTHER -> "ready"
  /\ staged' = IF doing = "download" THEN <<>> ELSE staged
  /\ booted' = IF doing \in {"boot", "flash"} THEN booted \cup {staged} ELSE booted
  /\ answers' = Append(answers, IF doing = "download" THEN "DATA" ELSE "OKAY")
  /\ doing' = "none"
  /\ UNCHANGED <<host, late, bounds>>

(* The board is unplugged, or reset. *)
Unplugged ==
  /\ dpc # "gone"
  /\ dpc' = "gone" /\ doing' = "none" /\ staged' = <<>> /\ answers' = <<>>
  /\ UNCHANGED <<host, booted, late, bounds>>

(* handle_fastboot_add: it is in fastboot again, and opened afresh.        *)
Replugged ==
  /\ hpc = "idle" /\ dpc = "gone"
  /\ dpc' = "ready" /\ doing' = "none" /\ staged' = <<>> /\ answers' = <<>>
  /\ late' = FALSE
  /\ UNCHANGED <<host, booted, bounds>>
-----------------------------------------------------------------------------
Host == WriteCommand \/ ReadInfo \/ ReadAnswer \/ ReadTimeout \/ WriteData

Loader == Refuses \/ CarriesOut

Next == DeviceBoot \/ Host \/ Announces \/ Loader \/ Unplugged \/ Replugged

(* The server runs, and the device answers what it took, some day. *)
Fairness == WF_vars(Host) /\ WF_vars(Loader)

Spec == Init /\ [][Next]_vars
FairSpec == Spec /\ Fairness
-----------------------------------------------------------------------------
TypeOK ==
  /\ todo \in Seq(Commands)
  /\ hpc \in {"idle", "write", "read", "data", "status"}
  /\ hpc # "idle" => todo # <<>>
  /\ offset \in 0 .. Chunks
  /\ dpc \in {"ready", "busy", "data", "gone"}
  /\ doing \in Commands \cup {"none", "image", "junk"}
  /\ staged \in Seq(0 .. Chunks) /\ Len(staged) <= Chunks
  /\ answers \in Seq({"OKAY", "DATA", "FAIL", "short", "INFO", "other"})
  /\ booted \subseteq Seq(0 .. Chunks) /\ late \in BOOLEAN
  /\ boots \in Nat /\ infos \in Nat /\ lates \in Nat

(* Host and device stay in step whatever the device answers: when the host *)
(* writes a command the device is ready for one and no answer to an earlier*)
(* command is left - unless an answer came too late.                       *)
InStep ==
  /\ TypeOK
  /\ (hpc = "write" /\ ~late) => dpc \in {"ready", "gone"} /\ answers = <<>>

(* What the device boots or flashes is the image, whole and in order, after*)
(* any answers - as long as none came too late on this connection.         *)
BootsWhole == [][booted' # booted /\ ~late =>
                   booted' \subseteq booted \cup {[i \in 1 .. Chunks |-> i]}]_vars

(* device_boot ends: it cannot hold up the server for good.                *)
BootEnds == hpc # "idle" ~> hpc = "idle"
=============================================================================
