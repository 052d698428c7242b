----------------------------- MODULE CdbaServer ----------------------------
(***************************************************************************)
(* cdba-server.c with the board it serves: handle_stdin, the udev callback *)
(* of fastboot.c, the console callback, and what they do to the board.     *)
(* The single thread runs them one at a time, in any order.                *)
(*                                                                         *)
(* PowerSeq has the timers of a power-on and BoardLock the wait for the    *)
(* board; here both are one step.                                          *)
(***************************************************************************)
EXTENDS Wire

CONSTANTS
  ReplyCap,    \* messages the pipe to the client takes
  MaxDrops,    \* bound: times the board resets or its fastboot goes away
  MaxOuts      \* bound: console and status messages

ASSUME ServerAssumption == /\ ReplyCap \in Nat /\ ReplyCap > 2
                           /\ MaxDrops \in Nat /\ MaxOuts \in Nat

VARIABLES
  known,     \* the board exists and the user may use it
  spc,       \* "up", "quitting" (watch_quit was called), "gone"
  selected,  \* selected_device # NULL
  statusOn,  \* device->status_enabled
  payload,   \* fastboot_payload: the chunks received
  fbOpen,    \* fastboot->dev_path # NULL
  udev,      \* uevents not handled yet: "add", "remove"
  board,     \* "off", "up" (powered), "fastboot", "running"
  usb,       \* its USB is switched on
  images,    \* history: what fastboot was made to boot
  fault,     \* history: selected_device was used while NULL
  left,      \* history: the board left fastboot otherwise than by booting
  refused,   \* history: the board, asked to boot over a connection that
             \* could be used, did not: "no", "now" (it is in fastboot
             \* since), "before"
  taken,     \* history: images it took then, and may hold to be booted
  drops, outs   \* bounds

server == <<known, spc, selected, statusOn, payload, fbOpen, udev, board, usb,
            images, fault, left, refused, taken, drops, outs>>

ServerInit ==
  /\ known \in BOOLEAN
  /\ spc = "up" /\ selected = FALSE /\ statusOn = FALSE /\ payload = <<>>
  /\ fbOpen = FALSE /\ udev = <<>> /\ images = {} /\ fault = FALSE
  /\ left = FALSE /\ refused = "no" /\ taken = {}
  /\ board \in {"off", "fastboot"}   \* an earlier server may have died
  /\ usb = (board = "fastboot")
  /\ drops = 0 /\ outs = 0
-----------------------------------------------------------------------------
(* cdba_send_buf: a blocking write; SIGPIPE, when the client is gone, calls*)
(* watch_quit.                                                             *)
Send(ms) ==
  /\ clientGone \/ Len(s2c) + Len(ms) <= ReplyCap
  /\ s2c' = IF clientGone THEN s2c ELSE s2c \o ms
  /\ spc' = IF clientGone THEN "quitting" ELSE spc

(* handle_stdin: the message at the front is of this type. *)
Takes(type) == spc # "gone" /\ c2s # <<>> /\ c2s[1][1] = type
               /\ c2s' = Tail(c2s)

(* A NULL selected_device is dereferenced. *)
Segfault ==
  /\ ~selected
  /\ fault' = TRUE /\ spc' = "gone" /\ serverGone' = TRUE
  /\ UNCHANGED <<selected, statusOn, payload, fbOpen, udev, board, usb,
                 images, refused, taken, s2c, clientGone>>

Survives == selected /\ UNCHANGED <<fault, clientGone, serverGone>>

(* The board's fastboot interface is there to be enumerated. *)
OnBus == board = "fastboot" /\ usb

(* What the monitor, once it is there, hears of this step. *)
Uevents ==
  udev' = IF ~selected \/ (OnBus <=> OnBus') THEN udev
          ELSE Append(udev, IF OnBus' THEN "add" ELSE "remove")

(* The board leaves fastboot; what it was asked for there is of the past. *)
Unplug == /\ Uevents /\ taken' = {}
          /\ refused' = IF refused = "now" THEN "before" ELSE refused

(* ... and does so without having booted. *)
Leaves == left' = (left \/ (board = "fastboot" /\ selected))

(* The file descriptor fastboot.c has is that of the board in fastboot:    *)
(* what is asked over it may be done.                                      *)
FbUsable == fbOpen /\ OnBus /\ ~\E i \in 1 .. Len(udev) : udev[i] = "remove"

(* It is, and the board starts, *)
Starts == board' = "running" /\ Unplug

(* or it is not: the boot loader answers FAIL, a transfer fails, or nothing*)
(* is answered in time.                                                    *)
Refuses(sent) == /\ refused' = "now" /\ taken' = taken \cup sent
                 /\ UNCHANGED <<images, board>> /\ Uevents

NotAsked == UNCHANGED <<images, board, refused, taken>> /\ Uevents

(* device_boot.  What fastboot_download and device->boot return is not     *)
(* looked at; with status enabled USB is switched off, if the board can.   *)
Boot(image) ==
  /\ UNCHANGED usb \/ (statusOn /\ usb' = FALSE)
  /\ IF FbUsable THEN \/ Starts /\ images' = images \cup {image}
                      \/ Refuses({image})
                 ELSE NotAsked

(* msg_select_board: device_open and device_fastboot_open.  A board that is*)
(* in fastboot is enumerated, and its uevent may be queued all the same.   *)
SelectBoard ==
  /\ Takes("select")
  /\ IF known
       THEN /\ selected' = TRUE /\ fbOpen' = OnBus
            /\ Send(IF OnBus THEN << <<"present", 1>>, Msg("select") >>
                             ELSE << Msg("select") >>)
            /\ \E late \in BOOLEAN :
                 udev' = IF late /\ OnBus THEN <<"add">> ELSE <<>>
       ELSE /\ s2c' = Append(s2c, Msg("select")) /\ spc' = "quitting"
            /\ UNCHANGED <<selected, fbOpen, udev>>
  /\ UNCHANGED <<known, statusOn, payload, board, usb, images, fault, left,
                 refused, taken, drops, outs, clientGone, serverGone>>

(* MSG_POWER_ON: power and USB, and a board that was off starts.           *)
PowerOn ==
  /\ Takes("power_on")
  /\ board' = IF selected /\ board = "off" THEN "up" ELSE board
  /\ usb' = (usb \/ selected)
  /\ Uevents
  /\ Send(<< Msg("power_on") >>)
  /\ UNCHANGED <<known, selected, statusOn, payload, fbOpen, images, fault,
                 left, refused, taken, drops, outs, clientGone, serverGone>>

(* MSG_POWER_OFF *)
PowerOff ==
  /\ Takes("power_off")
  /\ board' = IF selected THEN "off" ELSE board
  /\ UNCHANGED usb
  /\ Unplug /\ Leaves
  /\ Send(<< Msg("power_off") >>)
  /\ UNCHANGED <<known, selected, statusOn, payload, fbOpen, images, fault,
                 drops, outs, clientGone, serverGone>>

(* Seeded fault: fastboot_size is not reset. *)
DownloadKeeps ==
  /\ Takes("download")
  /\ IF c2s[1][2] > 0
       THEN /\ payload' = Append(payload, c2s[1][2])
            /\ UNCHANGED <<spc, selected, statusOn, fbOpen, udev, board, usb,
                           images, fault, refused, taken, s2c, clientGone,
                           serverGone>>
       ELSE \/ Segfault
            \/ /\ Survives /\ Send(<< Msg("download") >>)
               /\ payload' = payload
               /\ Boot(payload)
               /\ UNCHANGED <<selected, statusOn, fbOpen>>
  /\ UNCHANGED <<known, left, drops, outs>>

(* Seeded fault: every chunk is answered, not the image. *)
DownloadAnswersEach ==
  /\ Takes("download")
  /\ IF c2s[1][2] > 0
       THEN /\ payload' = Append(payload, c2s[1][2])
            /\ Send(<< Msg("download") >>)
            /\ UNCHANGED <<selected, statusOn, fbOpen, udev, board, usb,
                           images, fault, refused, taken, clientGone,
                           serverGone>>
       ELSE \/ Segfault
            \/ /\ Survives /\ Send(<< Msg("download") >>)
               /\ payload' = <<>>
               /\ Boot(payload)
               /\ UNCHANGED <<selected, statusOn, fbOpen>>
  /\ UNCHANGED <<known, left, drops, outs>>

(* msg_fastboot_download: the empty message ends the image, and is answered*)
(* whatever device_boot comes to.                                          *)
Download ==
  /\ Takes("download")
  /\ IF c2s[1][2] > 0
       THEN /\ payload' = Append(payload, c2s[1][2])
            /\ UNCHANGED <<spc, selected, statusOn, fbOpen, udev, board, usb,
                           images, fault, refused, taken, s2c, clientGone,
                           serverGone>>
       ELSE \/ Segfault
            \/ /\ Survives /\ Send(<< Msg("download") >>)
               /\ payload' = <<>>
               /\ Boot(payload)
               /\ UNCHANGED <<selected, statusOn, fbOpen>>
  /\ UNCHANGED <<known, left, drops, outs>>

(* msg_fastboot_continue *)
Continue ==
  /\ Takes("continue")
  /\ \/ Segfault
     \/ /\ Survives /\ Send(<< Msg("continue") >>)
        /\ UNCHANGED usb
        /\ IF FbUsable THEN \/ Starts /\ UNCHANGED images
                            \/ Refuses({})
                       ELSE NotAsked
        /\ UNCHANGED <<selected, statusOn, payload, fbOpen>>
  /\ UNCHANGED <<known, left, drops, outs>>

(* MSG_STATUS_UPDATE: device_status_enable *)
StatusEnable ==
  /\ Takes("status")
  /\ \/ Segfault
     \/ /\ Survives /\ statusOn' = TRUE
        /\ UNCHANGED <<spc, selected, payload, fbOpen, udev, board, usb,
                       images, refused, taken, s2c>>
  /\ UNCHANGED <<known, left, drops, outs>>

(* MSG_KEY_PRESS: the lines are in PowerSeq. *)
KeyPress ==
  /\ Takes("key")
  /\ \/ Segfault
     \/ /\ Survives
        /\ UNCHANGED <<spc, selected, statusOn, payload, fbOpen, udev, board,
                       usb, images, refused, taken, s2c>>
  /\ UNCHANGED <<known, left, drops, outs>>

(* MSG_CONSOLE: device_write *)
Console ==
  /\ Takes("console")
  /\ UNCHANGED <<server, s2c, clientGone, serverGone>>

(* MSG_LIST_DEVICES, MSG_BOARD_INFO *)
Inform ==
  /\ \/ Takes("list") /\ Send(<< <<"list", 1>>, <<"list", 0>> >>)
     \/ Takes("info") /\ Send(<< Msg("info") >>)
  /\ UNCHANGED <<known, selected, statusOn, payload, fbOpen, udev, board, usb,
                 images, fault, left, refused, taken, drops, outs,
                 clientGone, serverGone>>

HandleStdin == \/ SelectBoard \/ PowerOn \/ PowerOff \/ Download \/ Continue
               \/ StatusEnable \/ KeyPress \/ Console \/ Inform
-----------------------------------------------------------------------------
(* handle_udev_event.  An "add" opens the device and claims its interface, *)
(* which fails for one that is open already, and for one that is gone again*)
(* by now; a "remove" is that of the device opened last.                   *)
UdevEvent ==
  /\ spc # "gone" /\ udev # <<>>
  /\ udev' = Tail(udev)
  /\ \/ /\ udev[1] = "add"
        /\ IF OnBus /\ ~fbOpen
              /\ ~\E i \in 2 .. Len(udev) : udev[i] = "remove"
             THEN fbOpen' = TRUE /\ Send(<< <<"present", 1>> >>)
             ELSE UNCHANGED <<fbOpen, spc, s2c>>
     \/ /\ udev[1] = "remove"
        /\ IF fbOpen THEN fbOpen' = FALSE /\ Send(<< <<"present", 0>> >>)
                     ELSE UNCHANGED <<fbOpen, spc, s2c>>
  /\ UNCHANGED <<known, selected, statusOn, payload, board, usb, images,
                 fault, left, refused, taken, drops, outs, c2s, clientGone,
                 serverGone>>

(* console_data, and the status callbacks. *)
Output ==
  /\ spc # "gone" /\ selected /\ outs < MaxOuts
  /\ outs' = outs + 1
  /\ \/ board = "running" /\ \E c \in {0, 1} : Send(<< <<"console", c>> >>)
     \/ statusOn /\ Send(<< Msg("status") >>)
  /\ UNCHANGED <<known, selected, statusOn, payload, fbOpen, udev, board, usb,
                 images, fault, left, refused, taken, drops, c2s, clientGone,
                 serverGone>>

(* Seeded fault: end of file does not end the loop. *)
ServerEndDeaf ==
  /\ spc = "quitting"
  /\ spc' = "gone" /\ serverGone' = TRUE
  /\ board' = IF selected THEN "off" ELSE board
  /\ usb' = (usb /\ ~selected)
  /\ UNCHANGED <<known, selected, statusOn, payload, fbOpen, udev, images,
                 fault, left, refused, taken, drops, outs, c2s, s2c,
                 clientGone>>

(* End of file on stdin, or watch_quit: the loop ends, device_close.       *)
ServerEnd ==
  /\ spc = "quitting" \/ (spc = "up" /\ clientGone)
  /\ spc' = "gone" /\ serverGone' = TRUE
  /\ board' = IF selected THEN "off" ELSE board
  /\ usb' = (usb /\ ~selected)
  /\ UNCHANGED <<known, selected, statusOn, payload, fbOpen, udev, images,
                 fault, left, refused, taken, drops, outs, c2s, s2c,
                 clientGone>>
-----------------------------------------------------------------------------
(* The board: power-on leads to fastboot ...                               *)
EntersFastboot ==
  /\ board = "up"
  /\ board' = "fastboot"
  /\ UNCHANGED usb /\ Uevents
  /\ UNCHANGED <<known, spc, selected, statusOn, payload, fbOpen, images,
                 fault, left, refused, taken, drops, outs, wire>>

(* ... which may go away, as a running system may, by a reset.             *)
Resets ==
  /\ board \in {"fastboot", "running"} /\ drops < MaxDrops
  /\ drops' = drops + 1
  /\ board' = "up" /\ UNCHANGED usb /\ Unplug /\ Leaves
  /\ UNCHANGED <<known, spc, selected, statusOn, payload, fbOpen, images,
                 fault, outs, wire>>

(* ... or boots all the same, after it was given up: what it was told came *)
(* late, or it took the image of one call and the boot of another, or it   *)
(* refused to flash and did reboot.                                        *)
ActsLate ==
  /\ board = "fastboot" /\ refused = "now"
  /\ UNCHANGED usb /\ Starts
  /\ UNCHANGED images \/ \E image \in taken : images' = images \cup {image}
  /\ UNCHANGED <<known, spc, selected, statusOn, payload, fbOpen, fault, left,
                 drops, outs, wire>>

ServerNext == \/ HandleStdin \/ UdevEvent \/ ServerEnd \/ Output
              \/ EntersFastboot \/ Resets \/ ActsLate

ServerOK ==
  /\ known \in BOOLEAN /\ spc \in {"up", "quitting", "gone"}
  /\ selected \in BOOLEAN /\ statusOn \in BOOLEAN /\ fbOpen \in BOOLEAN
  /\ payload \in Seq(Nat) /\ udev \in Seq({"add", "remove"})
  /\ board \in {"off", "up", "fastboot", "running"} /\ usb \in BOOLEAN
  /\ images \subseteq Seq(Nat) /\ fault \in BOOLEAN
  /\ left \in BOOLEAN /\ refused \in {"no", "now", "before"}
  /\ taken \subseteq Seq(Nat) /\ drops \in Nat /\ outs \in Nat
=============================================================================
