---------------------------- MODULE DeviceFlasher ----------------------------
(***************************************************************************)
(* Getting a brain onto a micro:bit from the brain list: pairing and       *)
(* flashing over WebUSB (services/microbit-flasher.ts) or copying onto the *)
(* MICROBIT drive, and what the list shows of it (handleConnect,           *)
(* handleFlash and handleFlashToDrive of components/BrainList.tsx).        *)
(*                                                                         *)
(* A connection is an object of the library: it claims the device, and one *)
(* at a time can.  Every await is a step of its own.                       *)
(***************************************************************************)
EXTENDS Naturals, FiniteSets

CONSTANTS
    Brains,
    MaxPairs,    \* bound: pair calls, and so connections that are made
    MaxFlashes,  \* bound: flashes that are started
    MaxPlugs,    \* bound: times the device is pulled out or put back
    Patient,     \* whether the user lets a pairing end before the next
    None

ASSUME FlasherAssumption ==
    /\ IsFiniteSet(Brains) /\ MaxPairs \in Nat /\ MaxFlashes \in Nat /\ MaxPlugs \in Nat
    /\ Patient \in BOOLEAN /\ None \notin Brains

VARIABLES
    connection, \* this.connection: its number, 0 if there is none
    connected,  \* connections whose status is CONNECTED
    plugged,    \* whether the device is there
    pairing,    \* pair calls under way: number, connection, and what they await
    heard,      \* connections with the status listener
    listed,      \* the list's paired
    toldPaired, \* the last pair said it was connected, and nothing has ended that
    flashing,   \* flashes under way: number, brain, way, and what they await
    driveFlash, \* driveFlashBrainId
    loading,    \* toasts that say "Flashing micro:bit..."
    pairs, flashes, plugs
pairState == <<connection, connected, pairing, heard, listed, toldPaired, pairs>>
flashState == <<flashing, driveFlash, loading, flashes>>
flasherVars == <<pairState, plugged, plugs, flashState>>

-----------------------------------------------------------------------------
IsPaired == connection # 0 /\ connection \in connected
FlasherInit ==
    /\ connection = 0 /\ connected = {} /\ plugged = TRUE /\ pairing = {} /\ heard = {}
    /\ listed = FALSE /\ toldPaired = FALSE /\ pairs = 0 /\ plugs = 0
    /\ flashing = {} /\ driveFlash = None /\ loading = {} /\ flashes = 0

(* pair: the connection that is held is used, or one is made.              *)
Held == connection # 0
Pair == /\ ~listed /\ pairs < MaxPairs /\ pairs' = pairs + 1
        /\ Patient => pairing = {}
        /\ pairing' = pairing \cup {IF Held THEN [n |-> pairs + 1, c |-> connection, at |-> "connect"]
                                    ELSE [n |-> pairs + 1, c |-> pairs + 1, at |-> "initialize"]}
        /\ UNCHANGED <<connection, connected, heard, listed, toldPaired, plugged, plugs, flashState>>

(* Mutant of Stored: the connection is not kept.                           *)
StoredNot(c) == connection

(* The status listener and the connection that is kept (pair).             *)
Listening(c) == heard \cup {c}
Stored(c) == c
Initialized(x) ==
    /\ x \in pairing /\ x.at = "initialize"
    /\ heard' = Listening(x.c) /\ connection' = Stored(x.c)
    /\ pairing' = (pairing \ {x}) \cup {[x EXCEPT !.at = "connect"]}
    /\ UNCHANGED <<connected, listed, toldPaired, pairs, plugged, plugs, flashState>>
InitializeFails(x) ==
    /\ x \in pairing /\ x.at = "initialize" /\ pairing' = pairing \ {x}
    /\ UNCHANGED <<connection, connected, heard, listed, toldPaired, pairs, plugged, plugs, flashState>>

(* The chooser is answered: a device that is there and free, or one the    *)
(* connection has already, is connected; the pair that asked says so.      *)
Notified(c) == IsPaired'
Connects(x) ==
    /\ x \in pairing /\ x.at = "connect" /\ plugged /\ connected \subseteq {x.c}
    /\ connected' = {x.c} /\ pairing' = pairing \ {x} /\ toldPaired' = TRUE
    /\ UNCHANGED connection /\ listed' = Notified(x.c)
    /\ UNCHANGED <<heard, pairs, plugged, plugs, flashState>>
ConnectFails(x) ==
    /\ x \in pairing /\ x.at = "connect" /\ pairing' = pairing \ {x}
    /\ UNCHANGED <<connection, connected, heard, listed, toldPaired, pairs, plugged, plugs, flashState>>

(* The device is pulled out, or put back and taken up by the connection    *)
(* that had it; the library reports its status.                            *)
Reported(status) == IsPaired'
Unplug == /\ plugged /\ plugs < MaxPlugs /\ plugs' = plugs + 1 /\ plugged' = FALSE
          /\ connected' = {} /\ toldPaired' = FALSE /\ UNCHANGED connection /\ listed' = Reported(FALSE)
          /\ UNCHANGED <<pairing, heard, pairs, flashState>>
Replug(c) == /\ ~plugged /\ plugs < MaxPlugs /\ plugs' = plugs + 1 /\ plugged' = TRUE
             /\ c \in {0} \cup heard /\ connected' = {c} \ {0} /\ UNCHANGED connection /\ listed' = Reported(TRUE)
             /\ UNCHANGED <<pairing, heard, toldPaired, pairs, flashState>>

-----------------------------------------------------------------------------
Starts(b, way) == /\ flashes < MaxFlashes /\ flashes' = flashes + 1
                  /\ flashing' = flashing \cup {[n |-> flashes + 1, brain |-> b, way |-> way, at |-> "input"]}
(* handleFlash: the link is there while the list shows a paired device.    *)
ClickFlash(b) == /\ listed /\ Starts(b, "usb")
                 /\ UNCHANGED <<driveFlash, loading, pairState, plugged, plugs>>
(* handleFlashToDrive: one at a time.                                      *)
DriveFree == driveFlash = None
ClickDrive(b) == /\ DriveFree /\ Starts(b, "drive")
                 /\ driveFlash' = b /\ loading' = loading \cup {flashes + 1}
                 /\ UNCHANGED <<pairState, plugged, plugs>>

(* The end of a flash: its toast says how it went or is dismissed, and the *)
(* drive is free again however it went.                                    *)
(* Mutant of Freed: only a success frees the drive.                        *)
FreedBySuccess(x, how) == IF x.way = "drive" /\ how = "flashed" THEN None ELSE driveFlash
Freed(x, how) == IF x.way = "drive" THEN None ELSE driveFlash
Answered(x, how) == loading \ {x.n}
End(x, how) == /\ flashing' = flashing \ {x} /\ loading' = Answered(x, how) /\ driveFlash' = Freed(x, how)
               /\ UNCHANGED <<flashes, pairState, plugged, plugs>>

(* The brain could not be loaded, not be built, or is too large.           *)
Unbuilt(x) == x \in flashing /\ x.at = "input" /\ End(x, "unbuilt")
(* Over USB the toast appears now, and the connection is taken that is     *)
(* held now.                                                               *)
Built(x) == /\ x \in flashing /\ x.at = "input"
            /\ flashing' = (flashing \ {x}) \cup {[x EXCEPT !.at = "write"]}
            /\ loading' = loading \cup {x.n}
            /\ UNCHANGED <<driveFlash, flashes, pairState, plugged, plugs>>
Written(x) == x \in flashing /\ x.at = "write" /\ plugged
              /\ (x.way = "usb" => connection # 0) /\ End(x, "flashed")
WriteFails(x) == x \in flashing /\ x.at = "write" /\ End(x, "failed")

FlasherNext ==
    \/ Pair \/ \E x \in pairing : Initialized(x) \/ InitializeFails(x) \/ Connects(x) \/ ConnectFails(x)
    \/ Unplug \/ \E c \in 0..MaxPairs : Replug(c)
    \/ \E b \in Brains : ClickFlash(b) \/ ClickDrive(b)
    \/ \E x \in flashing : Unbuilt(x) \/ Built(x) \/ Written(x) \/ WriteFails(x)

(* Whatever is awaited comes or fails.                                     *)
Settles == \E x \in flashing : Unbuilt(x) \/ Built(x) \/ Written(x) \/ WriteFails(x)
FlasherSpec == FlasherInit /\ [][FlasherNext]_flasherVars /\ WF_flasherVars(Settles)

-----------------------------------------------------------------------------
FlasherTypeOK ==
    /\ connection \in 0..pairs /\ connected \subseteq heard /\ heard \subseteq 1..pairs
    /\ Cardinality(connected) <= 1 /\ (~plugged => connected = {})
    /\ driveFlash \in Brains \cup {None} /\ loading \subseteq 1..flashes
    /\ \A x, y \in pairing : x.n = y.n => x = y

(* The connection is held for the session (MicrobitFlasher).               *)
HeldForSession == [][connection # 0 => connection' = connection]_flasherVars

(* What pairing told the user stays so until the device is gone            *)
(* (handleConnect, isPaired).                                              *)
ToldIsPaired == toldPaired => IsPaired

(* The list shows whether a device is connected and ready to flash         *)
(* (subscribe, isPaired).                                                  *)
ShownIsSo == listed = IsPaired

(* One flash writes to the drive, and while one does the list knows which  *)
(* brain it is (driveFlashBrainId).                                        *)
OneDriveFlash ==
    \A x, y \in flashing : x.way = "drive" /\ y.way = "drive" => x = y /\ driveFlash = x.brain

(* No toast goes on saying that a micro:bit is being flashed when none is  *)
(* (handleFlash, handleFlashToDrive).                                      *)
NoToastLeft == loading \subseteq {x.n : x \in flashing}

(* What the list tells of the device, the drive and the flashes is so, and  *)
(* the connection it tells of is never swapped for another one.             *)
FlasherTellsTrue ==
    [](FlasherTypeOK /\ ToldIsPaired /\ ShownIsSo /\ OneDriveFlash /\ NoToastLeft) /\ HeldForSession

(* The drive becomes free again, whatever failed (handleFlashToDrive).     *)
DriveFreed == driveFlash # None ~> driveFlash = None
=============================================================================
