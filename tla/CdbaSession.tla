----------------------------- MODULE CdbaSession ---------------------------
(***************************************************************************)
(* One run of cdba against one cdba-server and one board.                  *)
(***************************************************************************)
EXTENDS CdbaClient, CdbaServer

vars == <<client, server, wire>>

Init == WireInit /\ ClientInit /\ ServerInit /\ known = opts.board

Next == \/ ClientNext /\ UNCHANGED server
        \/ ServerNext /\ UNCHANGED client

(* The client's loop runs.  Every turn of watch_run serves each descriptor *)
(* that is ready.  A powered board enters fastboot.  Nobody has to type,   *)
(* and nothing has to time out, be written or reset.                       *)
Fairness == /\ WF_vars(Client /\ UNCHANGED server)
            /\ WF_vars((HandleStdin \/ ServerEnd) /\ UNCHANGED client)
            /\ WF_vars(UdevEvent /\ UNCHANGED client)
            /\ WF_vars(EntersFastboot /\ UNCHANGED client)

Spec == Init /\ [][Next]_vars
FairSpec == Spec /\ Fairness
-----------------------------------------------------------------------------
TypeOK == WireOK /\ ClientOK /\ ServerOK

(* The boot.img *)
File == [i \in 1 .. Chunks |-> i]

(* The work list holds exactly the work requested and not yet run, each    *)
(* once: no request is lost, and none is run twice - as long as never two  *)
(* replies that request a power-on are outstanding, and no power-off is    *)
(* typed ahead of a power-on that waits to be sent (request_power_on's     *)
(* node is static).                                                        *)
WorkIsQueued == TypeOK /\ (~crowded => Holds(heap, Head0, queued))

(* What the board boots is the boot.img, whole and in order, through every *)
(* interruption of a transfer - as long as no second transfer is requested *)
(* during the first, and the work list is sound.                           *)
ImageIsFile == (~overlapped /\ ~crowded) => images \subseteq {File}

(* selected_device is not used while NULL, unless the board was refused,   *)
(* another verb than boot came with a status pipe, or the user typed: what *)
(* is typed ahead overtakes the request for the board.                     *)
NullOnlyUnselected ==
  fault => ~opts.board \/ (opts.verb # "boot" /\ opts.status) \/ keys > 0

(* A board whose fastboot is on the bus does not stay there: it is served, *)
(* or goes away, or the session ends - as long as the work list is sound,  *)
(* and it does not refuse what it is asked, which nobody asks again.       *)
FastbootIsServed == (OnBus /\ selected) ~>
                      (~OnBus \/ refused = "now" \/ clientGone \/ crowded)

(* A board that is off, with the power-off of a power cycle acknowledged,  *)
(* is powered again.                                                       *)
Repowered ==
  (flag.auto /\ board = "off" /\ \E i \in 1 .. Len(s2c) : s2c[i] = Msg("power_off"))
    ~> (board # "off" \/ clientGone)

Has(s, M) == \E i \in 1 .. Len(s) : s[i] \in M

(* One of these messages is on its way to the client, or waits there to be *)
(* handled.                                                                *)
Told(M) == Has(s2c, M) \/ Has(inbox, M)

InSession == selected /\ ~clientGone /\ spc # "gone"

(* What Repowered rests on: while a power cycle has the board off, its     *)
(* power-off or power-on is on the work list or on its way, or so is the   *)
(* reply that will request the power-on.                                   *)
PowerComesBack ==
  InSession /\ flag.auto /\ board = "off" =>
    \/ {"off", "on"} \cap queued # {}
    \/ Has(c2s, {Msg("power_off"), Msg("power_on")})
    \/ Told({Msg("power_off"), Msg("select")})

(* What FastbootIsServed rests on: a board on the bus is about to be       *)
(* announced, or what its announcement led to is not finished - or it has  *)
(* refused what it was asked.                                              *)
FastbootIsAnswered ==
  InSession /\ OnBus =>
    \/ ~FbUsable /\ udev # <<>> /\ udev[Len(udev)] = "add"
    \/ /\ FbUsable
       /\ \/ Told({<<"present", 1>>})
          \/ ({"continue"} \cup Downloads) \cap queued # {}
          \/ Has(c2s, {Msg("continue"), Msg("download")})
          \/ flag.quit
    \/ refused = "now"

(* What the client is told is true: when the reply to the empty download   *)
(* makes it take the boot.img for booted, the board did boot it - unless   *)
(* it left fastboot by itself, was switched off there, or did not do what  *)
(* it was asked.  Then the reply is the same: device_boot returns nothing. *)
DoneMeansBooted ==
  (flag.done /\ opts.file /\ ~left /\ refused = "no" /\ ~overlapped /\ ~crowded)
    => File \in images

(* A user who quits gets the terminal back, and the total timeout bounds   *)
(* the session, however busy the board is: once it has passed cdba ends,   *)
(* even when the work list has become a loop.                              *)
ClientEnds == /\ flag.quit ~> cpc = "exited"
              /\ clock.total = "past" ~> clientGone

(* The server and its hold on the board do not outlive the client.         *)
BoardIsReleased == clientGone ~> (serverGone /\ (selected /\ ~fault => board = "off"))

(* README: "the given boot.img will be transfered and booted".             *)
BootsTheFile == images \subseteq {File}

(* README: "the board will upon receiving the tilde sequence restart the   *)
(* board the given number of times": a list that is a loop restarts it for *)
(* ever.                                                                   *)
WorkListIsSound == Holds(heap, Head0, queued)

=============================================================================
