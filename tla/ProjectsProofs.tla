--------------------------- MODULE ProjectsProofs ---------------------------
(***************************************************************************)
(* Four parts the app keeps around a project, which share no state.        *)
(*                                                                         *)
(* The warning about unresolved libraries shows the set of now, is silent  *)
(* only about a set the user closed, and stays closed while nothing        *)
(* changes: for every set of libraries and warning kinds and any number    *)
(* of changes.  The argument is that the watcher's three memories agree:   *)
(* what it believes is shown is what is shown, a toast that leaves is of    *)
(* no interest any more, and what it holds dismissed is what the user      *)
(* refused and still the set there is.                                     *)
(*                                                                         *)
(* What the brain list says of the micro:bit is so, and what it says it is *)
(* doing it is doing, for every set of brains and any number of pairings,  *)
(* flashes and plugs.  A pairing that makes a connection is the only one   *)
(* under way (Patient; two at once would make two connections), so the     *)
(* connection it is about to keep is unknown to the list; one that uses    *)
(* the held connection has that very one.  PairingSound says so.           *)
(*                                                                         *)
(* Every save and every name goes where it was meant to, for all projects  *)
(* and brains, any number of dialogs and any changes of project, but where *)
(* the project changed under the editor or the name, or the user did not   *)
(* wait.  What the editor holds, or will once it has come, belongs to the   *)
(* brain it is on and to the active project, or says what became of it; a  *)
(* submission is the open dialog's, or that of one that was closed early   *)
(* (EditSound, ListSound, NameSound).                                      *)
(*                                                                         *)
(* What the user is told of a library is so and no library another one     *)
(* needs leaves, for any catalog and any number of handlers at once, but   *)
(* by the map of a handler that was overtaken.  One that was not holds a   *)
(* map that is the project's of now but for its own library; and every map *)
(* is right about its handler's own library and holds the platform         *)
(* (HandlerSound).                                                         *)
(***************************************************************************)
EXTENDS MCProjects, FiniteSetTheorems, TLAPS

(* The warning about unresolved libraries.                                 *)
Now == Coordinates(warnings)

ToastAgrees ==
    /\ toast = NothingShown => shown = NoToast
    /\ toast # NothingShown => toast.of = shown /\ shown = Now /\ shown # {}
LeavingIsOver == leaving # NoToast => shown = NoToast
DismissedAgrees ==
    /\ refused = dismissed
    /\ dismissed # NoToast => dismissed = Now /\ toast = NothingShown
    /\ Now # {} /\ toast = NothingShown => dismissed = Now

WatcherInv == warnings \subseteq Warnings /\ ToastAgrees /\ LeavingIsOver /\ DismissedAgrees

(* A set of libraries is not the absence of a toast, nor is its toast.     *)
LEMMA SetsShow ==
    ASSUME NEW ws \in SUBSET Warnings
    PROVE  Coordinates(ws) # NoToast /\ ToastOf(Coordinates(ws)) # NothingShown
<1>1. Coordinates(ws) \in SUBSET Libraries
  BY DEF Coordinates, Warnings
<1>2. Coordinates(ws) # NoToast
  BY <1>1, ToastAssumption
<1>3. ToastOf(Coordinates(ws)).of = Coordinates(ws) /\ NothingShown.of = NoToast
  BY DEF ToastOf, NothingShown
<1> QED
  BY <1>2, <1>3

LEMMA ChangeKeeps ==
    ASSUME WatcherInv, NEW ws \in SUBSET Warnings, NEW fresh \in BOOLEAN, Change(ws, fresh)
    PROVE  WatcherInv'
<1> DEFINE set == Coordinates(ws)
           kept == Cleared(set, fresh)
<1> USE DEF WatcherInv
<1>1. Now' = set /\ warnings' = ws
  BY DEF Change, Now
<1>2. /\ set # NoToast /\ Now # NoToast
      /\ ToastOf(set) # NothingShown /\ ToastOf(set).of = set
  BY SetsShow DEF Now, ToastOf
<1>3. /\ dismissed' = kept
      /\ shown' = IF set = {} THEN NoToast ELSE IF Shows(set, kept) THEN set ELSE shown
      /\ toast' = IF set = {} THEN (IF shown # NoToast THEN NothingShown ELSE toast)
                  ELSE IF Shows(set, kept) THEN ToastOf(set) ELSE toast
      /\ leaving' = IF set = {} /\ shown # NoToast THEN toast.of
                    ELSE IF Shows(set, kept) THEN NoToast ELSE leaving
      /\ refused' = IF fresh \/ set # Now THEN NoToast ELSE refused
  BY DEF Change, Evaluate, Now
<1>4. kept = IF fresh \/ dismissed # set THEN NoToast ELSE dismissed
  BY DEF Cleared
<1> HIDE DEF set, kept
<1>5. refused' = dismissed'
  BY <1>2, <1>3, <1>4 DEF DismissedAgrees
<1>6. kept # NoToast => kept = set /\ set = Now /\ toast = NothingShown
  BY <1>4 DEF DismissedAgrees
<1>7. Shows(set, kept) <=> set # {} /\ kept # set /\ shown # set
  BY DEF Shows
<1>8. CASE set = {}
  <2>1. toast' = NothingShown /\ shown' = NoToast
    BY <1>2, <1>3, <1>8 DEF ToastAgrees
  <2> QED
    BY <1>1, <1>3, <1>5, <1>6, <1>8, <2>1 DEF ToastAgrees, LeavingIsOver, DismissedAgrees
<1>9. CASE set # {} /\ Shows(set, kept)
  BY <1>1, <1>2, <1>3, <1>5, <1>6, <1>7, <1>9 DEF ToastAgrees, LeavingIsOver, DismissedAgrees
<1>10. CASE set # {} /\ ~Shows(set, kept)
  BY <1>1, <1>2, <1>3, <1>5, <1>6, <1>7, <1>10 DEF ToastAgrees, LeavingIsOver, DismissedAgrees
<1> QED
  BY <1>8, <1>9, <1>10

LEMMA CloseKeeps ==
    ASSUME WatcherInv, Close \/ CloseLeaving \/ Left
    PROVE  WatcherInv'
<1> USE DEF WatcherInv
<1>1. Now # NoToast
  BY SetsShow DEF Now
<1>2. Now' = Now /\ warnings' = warnings
  BY DEF Close, CloseLeaving, Left, UserDismiss, Now
<1>3. CASE Close
  BY <1>1, <1>2, <1>3
     DEF Close, UserDismiss, Recorded, ToastAgrees, LeavingIsOver, DismissedAgrees
<1>4. CASE CloseLeaving
  <2>1. shown = NoToast /\ leaving # NoToast
    BY <1>4 DEF CloseLeaving, LeavingIsOver
  <2>2. UNCHANGED <<shown, dismissed, toast, refused>> /\ leaving' = NoToast
    BY <1>4, <2>1 DEF CloseLeaving, UserDismiss, Recorded
  <2> QED
    BY <1>2, <2>2 DEF ToastAgrees, LeavingIsOver, DismissedAgrees
<1>5. CASE Left
  BY <1>2, <1>5 DEF Left, ToastAgrees, LeavingIsOver, DismissedAgrees
<1> QED
  BY <1>3, <1>4, <1>5

LEMMA WatcherStep ==
    ASSUME WatcherInv, [Next]_vars
    PROVE  WatcherInv'
<1>1. CASE UNCHANGED vars
  BY <1>1 DEF vars, WatcherInv, Now, ToastAgrees, LeavingIsOver, DismissedAgrees
<1> QED
  BY <1>1, ChangeKeeps, CloseKeeps DEF Next

LEMMA InitWatcher == Init => WatcherInv
<1> SUFFICES ASSUME Init PROVE WatcherInv
  OBVIOUS
<1>1. warnings \in SUBSET Warnings
  BY DEF Init
<1>2. Now # NoToast /\ ToastOf(Now) # NothingShown /\ ToastOf(Now).of = Now
  BY <1>1, SetsShow DEF Now, ToastOf
<1>3. /\ shown = (IF Now = {} THEN NoToast ELSE Now)
      /\ toast = (IF Now = {} THEN NothingShown ELSE ToastOf(Now))
      /\ dismissed = NoToast /\ leaving = NoToast /\ refused = NoToast
  BY DEF Init, Now
<1> QED
  BY <1>1, <1>2, <1>3 DEF WatcherInv, ToastAgrees, LeavingIsOver, DismissedAgrees

LEMMA WatcherInvariant == Spec => []WatcherInv
  BY InitWatcher, WatcherStep, PTL DEF Spec

(* The toast never names a library that has since resolved, nor hides one   *)
(* that has not (createResolutionWarningsToastWatcher, evaluate).          *)
THEOREM NamesTheSet == Spec => []ShowsTheSet
<1>1. WatcherInv => ShowsTheSet
  BY DEF WatcherInv, ToastAgrees, ShowsTheSet, Now
<1> QED
  BY WatcherInvariant, <1>1, PTL

(* A set of unresolved libraries is in front of the user unless the user    *)
(* has closed its toast since the set last changed or the project loaded.  *)
THEOREM WarnsTheUser == Spec => []NotSilent
<1>1. WatcherInv => NotSilent
  BY DEF WatcherInv, DismissedAgrees, NotSilent, Now
<1> QED
  BY WatcherInvariant, <1>1, PTL

(* What the user closed stays closed while nothing changes.                *)
THEOREM RespectsTheUser == Spec => []StaysClosed
<1>1. WatcherInv => StaysClosed
  BY DEF WatcherInv, DismissedAgrees, StaysClosed, Now
<1> QED
  BY WatcherInvariant, <1>1, PTL

(* The toast is what the user is owed of the set at every moment: it shows  *)
(* the set as it is, or the user has closed it since the set last changed   *)
(* (createResolutionWarningsToastWatcher).                                  *)
THEOREM ToastStandsForSet == Spec => []WarningStands
<1>1. WatcherInv => WarningStands
  BY DEF WatcherInv, ToastAgrees, DismissedAgrees, WarningStands, ShowsTheSet, NotSilent, StaysClosed, Now
<1> QED
  BY WatcherInvariant, <1>1, PTL

-----------------------------------------------------------------------------
(* The flashing of a real device.                                          *)
PairRecord == [n : Nat, c : Nat \ {0}, at : {"initialize", "connect"}]
FlashRecord == [n : Nat, brain : Brains, way : {"usb", "drive"}, at : {"input", "write"}]

PairTypes ==
    /\ pairs \in Nat /\ connection \in 0..pairs
    /\ heard \subseteq 1..pairs /\ connected \subseteq heard
    /\ plugged \in BOOLEAN /\ toldPaired \in BOOLEAN
    /\ pairing \subseteq PairRecord

(* One device, one connection that has it, and none without the device.    *)
OneDevice ==
    /\ \A c, d \in connected : c = d
    /\ connected # {} => plugged
    /\ toldPaired => plugged

PairingSound ==
    /\ \A x, y \in pairing : x = y
    /\ connection # 0 => connection \in heard
    /\ \A x \in pairing :
         /\ x.at = "connect" => x.c = connection
         /\ x.at = "initialize" => connection = 0 /\ x.c \in (1..pairs) \ heard

PairInv == PairTypes /\ OneDevice /\ PairingSound /\ ShownIsSo /\ ToldIsPaired

FlashTypes ==
    /\ flashes \in Nat /\ driveFlash \in Brains \cup {None}
    /\ flashing \subseteq FlashRecord /\ loading \subseteq 1..flashes
    /\ \A x \in flashing : x.n \in 1..flashes
FlashInv == FlashTypes /\ OneDriveFlash /\ NoToastLeft

HeldStep == connection # 0 => connection' = connection

-----------------------------------------------------------------------------
(* The pairing side, one lemma per action.                                 *)
LEMMA PairKeeps ==
    ASSUME Patient, PairInv, Pair
    PROVE  PairInv' /\ HeldStep
<1> USE DEF PairInv
<1>1. pairing = {}
  BY DEF Pair
<1> DEFINE x == IF connection # 0 THEN [n |-> pairs + 1, c |-> connection, at |-> "connect"]
                ELSE [n |-> pairs + 1, c |-> pairs + 1, at |-> "initialize"]
<1>2. /\ pairing' = {x} /\ pairs' = pairs + 1
      /\ UNCHANGED <<connection, connected, heard, listed, toldPaired, plugged>>
  BY <1>1 DEF Pair, Held
<1>3. /\ x \in PairRecord
      /\ x.at = "connect" => x.c = connection
      /\ x.at = "initialize" => connection = 0 /\ x.c = pairs + 1
  <2>1. CASE connection # 0
    BY <2>1 DEF PairTypes, PairRecord
  <2>2. CASE connection = 0
    BY <2>2 DEF PairTypes, PairRecord
  <2> QED
    BY <2>1, <2>2
<1> HIDE DEF x
<1>4. PairTypes' /\ OneDevice' /\ ShownIsSo' /\ ToldIsPaired'
  BY <1>2, <1>3 DEF PairTypes, OneDevice, ShownIsSo, ToldIsPaired, IsPaired
<1>5. PairingSound'
  BY <1>2, <1>3 DEF PairTypes, PairingSound
<1> QED
  BY <1>2, <1>4, <1>5 DEF HeldStep

LEMMA InitializedKeeps ==
    ASSUME PairInv, NEW x \in pairing, Initialized(x)
    PROVE  PairInv' /\ HeldStep
<1> USE DEF PairInv
<1>1. /\ connection = 0 /\ x \in PairRecord /\ x.c \in (1..pairs) \ heard /\ pairing = {x}
  BY DEF PairingSound, PairTypes, Initialized
<1>2. [x EXCEPT !.at = "connect"] \in PairRecord /\ [x EXCEPT !.at = "connect"].c = x.c
      /\ [x EXCEPT !.at = "connect"].at = "connect"
  BY <1>1 DEF PairRecord
<1>3. /\ pairing' = {[x EXCEPT !.at = "connect"]} /\ heard' = heard \cup {x.c} /\ connection' = x.c
      /\ UNCHANGED <<connected, listed, toldPaired, pairs, plugged>>
  BY <1>1 DEF Initialized, Listening, Stored
<1>4. PairTypes' /\ OneDevice'
  BY <1>1, <1>2, <1>3 DEF PairTypes, OneDevice
<1>5. ~listed /\ ~toldPaired /\ x.c \notin connected
  BY <1>1 DEF ShownIsSo, ToldIsPaired, IsPaired, PairTypes
<1>6. ShownIsSo' /\ ToldIsPaired'
  BY <1>1, <1>3, <1>5 DEF ShownIsSo, ToldIsPaired, IsPaired
<1>7. PairingSound'
  BY <1>1, <1>2, <1>3 DEF PairingSound
<1> QED
  BY <1>1, <1>4, <1>6, <1>7 DEF HeldStep

LEMMA ConnectsKeeps ==
    ASSUME PairInv, NEW x \in pairing, Connects(x)
    PROVE  PairInv' /\ HeldStep
<1> USE DEF PairInv
<1>1. x.c = connection /\ connection # 0 /\ connection \in heard /\ pairing = {x}
  BY DEF PairingSound, PairTypes, PairRecord, Connects
<1>2. /\ connected' = {x.c} /\ pairing' = {} /\ toldPaired' = TRUE /\ plugged /\ listed' = IsPaired'
      /\ UNCHANGED <<connection, heard, pairs, plugged>>
  BY <1>1 DEF Connects, Notified
<1>3. PairTypes' /\ OneDevice' /\ PairingSound'
  BY <1>1, <1>2 DEF PairTypes, OneDevice, PairingSound
<1>4. ShownIsSo' /\ ToldIsPaired'
  BY <1>1, <1>2 DEF ShownIsSo, ToldIsPaired, IsPaired
<1> QED
  BY <1>2, <1>3, <1>4 DEF HeldStep

LEMMA PairFailsKeeps ==
    ASSUME PairInv, NEW x \in pairing, InitializeFails(x) \/ ConnectFails(x)
    PROVE  PairInv' /\ HeldStep
<1> USE DEF PairInv
<1>1. /\ pairing' = pairing \ {x}
      /\ UNCHANGED <<connection, connected, heard, listed, toldPaired, pairs, plugged>>
  BY DEF InitializeFails, ConnectFails
<1>2. PairTypes' /\ OneDevice' /\ PairingSound'
  BY <1>1 DEF PairTypes, OneDevice, PairingSound
<1> QED
  BY <1>1, <1>2 DEF ShownIsSo, ToldIsPaired, IsPaired, HeldStep

LEMMA PlugKeeps ==
    ASSUME PairInv, Unplug \/ \E c \in 0..MaxPairs : Replug(c)
    PROVE  PairInv' /\ HeldStep
<1> USE DEF PairInv
<1>1. UNCHANGED <<connection, heard, pairing, pairs>> /\ listed' = IsPaired'
  BY DEF Unplug, Replug, Reported
<1>2. /\ connected' \subseteq heard /\ \A c, d \in connected' : c = d
      /\ connected' # {} => plugged'
      /\ plugged' \in BOOLEAN /\ toldPaired' = FALSE
  <2>1. CASE Unplug
    BY <2>1 DEF Unplug
  <2>2. CASE \E c \in 0..MaxPairs : Replug(c)
    BY <2>2 DEF Replug, OneDevice, PairTypes
  <2> QED
    BY <2>1, <2>2
<1>3. PairTypes' /\ OneDevice' /\ PairingSound'
  BY <1>1, <1>2 DEF PairTypes, OneDevice, PairingSound
<1> QED
  BY <1>1, <1>2, <1>3 DEF ShownIsSo, ToldIsPaired, HeldStep

-----------------------------------------------------------------------------
(* The flashing side.                                                      *)
LEMMA StartsKeep ==
    ASSUME FlashInv, NEW b \in Brains, ClickFlash(b) \/ ClickDrive(b)
    PROVE  FlashInv'
<1> USE DEF FlashInv
<1>1. PICK way \in {"usb", "drive"} :
         /\ flashing' = flashing \cup {[n |-> flashes + 1, brain |-> b, way |-> way, at |-> "input"]}
         /\ flashes' = flashes + 1
         /\ way = "usb" => UNCHANGED <<driveFlash, loading>>
         /\ way = "drive" => /\ driveFlash = None /\ driveFlash' = b
                             /\ loading' = loading \cup {flashes + 1}
  BY DEF ClickFlash, ClickDrive, Starts, DriveFree
<1> DEFINE x == [n |-> flashes + 1, brain |-> b, way |-> way, at |-> "input"]
<1>2. x \in FlashRecord /\ x.n = flashes + 1 /\ x.way = way /\ x.brain = b
  BY DEF FlashRecord, FlashTypes
<1>3. flashing' = flashing \cup {x}
  BY <1>1
<1> HIDE DEF x
<1>4. FlashTypes'
  <2>1. flashing' \subseteq FlashRecord /\ flashes' \in Nat /\ driveFlash' \in Brains \cup {None}
    BY <1>1, <1>2, <1>3 DEF FlashTypes
  <2>2. flashes \in Nat /\ flashes' = flashes + 1
    BY <1>1 DEF FlashTypes
  <2>3. 1..flashes \subseteq 1..flashes' /\ flashes + 1 \in 1..flashes'
    BY <2>2
  <2>4. loading' \subseteq loading \cup {flashes + 1}
    BY <1>1
  <2>5. loading' \subseteq 1..flashes'
    BY <2>3, <2>4 DEF FlashTypes
  <2>6. \A y \in flashing' : y.n \in 1..flashes'
    BY <1>2, <1>3, <2>3 DEF FlashTypes
  <2> QED
    BY <2>1, <2>5, <2>6 DEF FlashTypes
<1>5. way = "drive" => \A y \in flashing : y.way # "drive"
  BY <1>1, FlasherAssumption DEF OneDriveFlash, FlashTypes, FlashRecord
<1>6. OneDriveFlash'
  BY <1>1, <1>2, <1>3, <1>5 DEF OneDriveFlash
<1>7. NoToastLeft'
  BY <1>1, <1>2, <1>3 DEF NoToastLeft
<1> QED
  BY <1>4, <1>6, <1>7

LEMMA EndKeeps ==
    ASSUME FlashInv, NEW x \in flashing, NEW how, End(x, how)
    PROVE  FlashInv'
<1> USE DEF FlashInv
<1>1. /\ flashing' = flashing \ {x} /\ loading' = loading \ {x.n} /\ flashes' = flashes
      /\ driveFlash' = IF x.way = "drive" THEN None ELSE driveFlash
  BY DEF End, Answered, Freed
<1>2. FlashTypes'
  BY <1>1 DEF FlashTypes
<1>3. OneDriveFlash'
  BY <1>1 DEF OneDriveFlash
<1>4. NoToastLeft'
  BY <1>1 DEF NoToastLeft
<1> QED
  BY <1>2, <1>3, <1>4

LEMMA BuiltKeeps ==
    ASSUME FlashInv, NEW x \in flashing, Built(x)
    PROVE  FlashInv'
<1> USE DEF FlashInv
<1> DEFINE y == [x EXCEPT !.at = "write"]
<1>1. y \in FlashRecord /\ y.n = x.n /\ y.way = x.way /\ y.brain = x.brain
  BY DEF FlashTypes, FlashRecord
<1>2. /\ flashing' = (flashing \ {x}) \cup {y} /\ loading' = loading \cup {x.n}
      /\ UNCHANGED <<driveFlash, flashes>>
  BY DEF Built
<1> HIDE DEF y
<1>3. FlashTypes'
  BY <1>1, <1>2 DEF FlashTypes
<1>4. OneDriveFlash'
  BY <1>1, <1>2 DEF OneDriveFlash
<1>5. NoToastLeft'
  BY <1>1, <1>2 DEF NoToastLeft
<1> QED
  BY <1>3, <1>4, <1>5

-----------------------------------------------------------------------------
LEMMA FlasherStep ==
    ASSUME Patient, PairInv, FlashInv, [FlasherNext]_flasherVars
    PROVE  PairInv' /\ FlashInv' /\ HeldStep
<1>1. UNCHANGED <<pairState, plugged>> => PairInv' /\ HeldStep
  BY DEF pairState, PairInv, PairTypes, OneDevice, PairingSound, ShownIsSo, ToldIsPaired,
     IsPaired, HeldStep
<1>2. UNCHANGED flashState => FlashInv'
  BY DEF flashState, FlashInv, FlashTypes, OneDriveFlash, NoToastLeft
<1>3. CASE Pair
  BY <1>2, <1>3, PairKeeps DEF Pair
<1>4. ASSUME NEW x \in pairing,
             Initialized(x) \/ InitializeFails(x) \/ Connects(x) \/ ConnectFails(x)
      PROVE  PairInv' /\ FlashInv' /\ HeldStep
  BY <1>2, <1>4, InitializedKeeps, ConnectsKeeps, PairFailsKeeps
     DEF Initialized, InitializeFails, Connects, ConnectFails
<1>5. CASE Unplug \/ \E c \in 0..MaxPairs : Replug(c)
  BY <1>2, <1>5, PlugKeeps DEF Unplug, Replug
<1>6. ASSUME NEW b \in Brains, ClickFlash(b) \/ ClickDrive(b)
      PROVE  PairInv' /\ FlashInv' /\ HeldStep
  BY <1>1, <1>6, StartsKeep DEF ClickFlash, ClickDrive
<1>7. ASSUME NEW x \in flashing, Unbuilt(x) \/ Built(x) \/ Written(x) \/ WriteFails(x)
      PROVE  PairInv' /\ FlashInv' /\ HeldStep
  BY <1>1, <1>7, EndKeeps, BuiltKeeps DEF Unbuilt, Built, Written, WriteFails, End
<1> QED
  BY <1>1, <1>2, <1>3, <1>4, <1>5, <1>6, <1>7 DEF FlasherNext, flasherVars

LEMMA InitFlasher == FlasherInit => PairInv /\ FlashInv
<1> SUFFICES ASSUME FlasherInit PROVE PairInv /\ FlashInv
  OBVIOUS
<1>1. PairInv
  <2>1. PairTypes /\ OneDevice
    <3>1. /\ connection = 0 /\ pairs = 0 /\ connected = {} /\ heard = {} /\ pairing = {}
          /\ plugged = TRUE /\ toldPaired = FALSE
      BY DEF FlasherInit
    <3>2. plugged \in BOOLEAN /\ toldPaired \in BOOLEAN
      BY <3>1
    <3> QED
      BY <3>1, <3>2 DEF PairTypes, OneDevice
  <2>2. PairingSound /\ ShownIsSo /\ ToldIsPaired
    BY DEF FlasherInit, PairingSound, ShownIsSo, ToldIsPaired, IsPaired
  <2> QED
    BY <2>1, <2>2 DEF PairInv
<1>2. FlashInv
  BY DEF FlasherInit, FlashInv, FlashTypes, OneDriveFlash, NoToastLeft
<1> QED
  BY <1>1, <1>2

LEMMA FlasherInvariant ==
    ASSUME Patient
    PROVE  FlasherSpec => [](PairInv /\ FlashInv)
<1>1. PairInv /\ FlashInv /\ [FlasherNext]_flasherVars => (PairInv /\ FlashInv)'
  BY FlasherStep
<1> QED
  BY InitFlasher, <1>1, PTL DEF FlasherSpec

(* The list shows whether a device is connected and ready to flash          *)
(* (subscribe, isPaired), and what pairing told the user stays so until     *)
(* the device is gone (handleConnect).                                     *)
THEOREM ListIsRight ==
    ASSUME Patient
    PROVE  FlasherSpec => []ShownIsSo
<1>0. FlasherSpec => [](PairInv /\ FlashInv)
  BY FlasherInvariant
<1>1. PairInv => ShownIsSo
  BY DEF PairInv
<1> QED
  BY <1>0, <1>1, PTL

THEOREM PairingIsRight ==
    ASSUME Patient
    PROVE  FlasherSpec => []ToldIsPaired
<1>0. FlasherSpec => [](PairInv /\ FlashInv)
  BY FlasherInvariant
<1>1. PairInv => ToldIsPaired
  BY DEF PairInv
<1> QED
  BY <1>0, <1>1, PTL

(* One flash writes to the drive, and the list knows which brain it is      *)
(* (driveFlashBrainId).                                                    *)
THEOREM DriveIsOne ==
    ASSUME Patient
    PROVE  FlasherSpec => []OneDriveFlash
<1>0. FlasherSpec => [](PairInv /\ FlashInv)
  BY FlasherInvariant
<1>1. FlashInv => OneDriveFlash
  BY DEF FlashInv
<1> QED
  BY <1>0, <1>1, PTL

(* No toast goes on saying that a micro:bit is being flashed when none is   *)
(* (handleFlash, handleFlashToDrive).                                      *)
THEOREM ToastsEnd ==
    ASSUME Patient
    PROVE  FlasherSpec => []NoToastLeft
<1>0. FlasherSpec => [](PairInv /\ FlashInv)
  BY FlasherInvariant
<1>1. FlashInv => NoToastLeft
  BY DEF FlashInv
<1> QED
  BY <1>0, <1>1, PTL

(* The connection is held for the session (MicrobitFlasher).               *)
THEOREM ConnectionHeld ==
    ASSUME Patient
    PROVE  FlasherSpec => HeldForSession
<1>0. FlasherSpec => [](PairInv /\ FlashInv)
  BY FlasherInvariant
<1>1. PairInv /\ FlashInv /\ [FlasherNext]_flasherVars => [HeldStep]_flasherVars
  BY FlasherStep
<1> QED
  BY <1>0, <1>1, PTL DEF FlasherSpec, HeldForSession, HeldStep

(* Whatever fails and however often the device is pulled out, what the list *)
(* tells of device, drive and flashes is so, and the connection it tells of *)
(* is held (MicrobitFlasher, BrainList.tsx).                                *)
THEOREM ListTellsTrue ==
    ASSUME Patient
    PROVE  FlasherSpec => FlasherTellsTrue
<1>0. FlasherSpec => [](PairInv /\ FlashInv)
  BY FlasherInvariant
<1>1. FlasherSpec => []ToldIsPaired /\ []ShownIsSo /\ []OneDriveFlash /\ []NoToastLeft
  BY PairingIsRight, ListIsRight, DriveIsOne, ToastsEnd
<1>2. FlasherSpec => HeldForSession
  BY ConnectionHeld
<1>3. PairInv /\ FlashInv => FlasherTypeOK
  <2> SUFFICES ASSUME PairInv, FlashInv PROVE FlasherTypeOK
    OBVIOUS
  <2>1. Cardinality(connected) <= 1
    <3>1. connected = {} \/ \E c : connected = {c}
      BY DEF PairInv, OneDevice
    <3>2. CASE connected = {}
      BY <3>2, FS_EmptySet
    <3>3. ASSUME NEW c, connected = {c} PROVE Cardinality(connected) = 1
      BY <3>3, FS_Singleton
    <3> QED
      BY <3>1, <3>2, <3>3
  <2> QED
    BY <2>1 DEF PairInv, PairTypes, OneDevice, PairingSound, FlashInv, FlashTypes, FlasherTypeOK
<1> QED
  BY <1>0, <1>1, <1>2, <1>3, PTL DEF FlasherTellsTrue

-----------------------------------------------------------------------------
(* The screen, in three parts that meet in the editor: what it holds, what  *)
(* the dialogs open it on, and the name.                                    *)
DialogRecord == [kind : {"none", "add", "rename", "remove"}, brain : Brains \cup {NoBrain}, number : Nat, busy : BOOLEAN]
SubmissionRecord == [kind : {"add", "rename", "remove"}, brain : Brains, number : Nat, ok : BOOLEAN]
EditorRecord == [brain : Brains \cup {NoBrain}, load : Nat, open : BOOLEAN, def : Screen!Definitions, named : Nat, by : Nat]
LoadRecord == [number : Nat, def : Screen!Definitions]

(* A definition was made from brain b of project p, but for what it says    *)
(* became of the editor it was loaded into.                                 *)
Belongs(def, p, b) == def # Screen!Absent => /\ def[1] = p \/ "project" \in def[3]
                                             /\ def[2] = b \/ "brain" \in def[3]

(* What the editor holds, or will once it has come, belongs to the brain it *)
(* is on and to the active project.                                         *)
EditTypes ==
    /\ project \in Projects /\ saved \in [Projects -> [Brains -> Screen!Definitions]]
    /\ editor \in EditorRecord /\ loads \subseteq LoadRecord /\ opens \in Nat
EditorSound ==
    /\ editor.load \in 0..opens /\ (editor.open => editor.load \in 1..opens)
    /\ editor.def # Screen!Absent => editor.brain \in Brains
    /\ Belongs(editor.def, project, editor.brain)
LoadsSound == \A x \in loads :
    /\ x.number \in 1..opens
    /\ x.number = editor.load => editor.brain \in Brains /\ Belongs(x.def, project, editor.brain)
EditSound == EditTypes /\ EditorSound /\ LoadsSound /\ Screen!SavesWhereOpened

(* What is submitted is the open dialog's, which is then busy, or that of   *)
(* one that closed early; and so is a brain that is yet to be opened.       *)
DialogTypes ==
    /\ dialog \in DialogRecord /\ submitted \subseteq SubmissionRecord /\ dialogs \in Nat
    /\ \A x \in submitted : x.number \in 1..dialogs
DialogSound ==
    /\ dialog.kind = "none" => dialog = Screen!NoDialog
    /\ dialog = Screen!NoDialog \/ dialog.number \in 1..dialogs
    /\ dialog.busy => \E x \in submitted : x.number = dialog.number
SubmittedSound ==
    /\ \A x, y \in submitted : x.number = y.number => x = y
    /\ \A x \in submitted : IF x.number = dialog.number THEN x.kind = dialog.kind /\ dialog.busy
                                                       ELSE x.number \in early
NamingSound == toOpen = Screen!NoNaming
               \/ (toOpen.brain \in Brains /\ toOpen.number \in Nat /\ toOpen.number \in early)
ListSound == DialogTypes /\ DialogSound /\ SubmittedSound /\ NamingSound /\ Screen!OpensWhatItNamed

(* The name that is edited is the active project's, unless that changed.    *)
NameTypes ==
    /\ project \in Projects /\ name \in [Projects -> Projects \X Screen!Changes]
    /\ switching \subseteq Projects /\ draft \in (Projects \X Screen!Changes) \cup {Screen!NoDraft}
NameSound == NameTypes /\ (draft # Screen!NoDraft => draft[1] = project \/ "project" \in draft[2])
             /\ Screen!NamesItsProject

ScreenSound == EditSound /\ ListSound /\ NameSound

LEMMA EditStands ==
    ASSUME EditSound, project' = project, saved' = saved, editor' = editor, loads' = loads, opens' = opens
    PROVE  EditSound'
  BY DEF EditSound, EditTypes, EditorSound, LoadsSound, Belongs, Screen!SavesWhereOpened

LEMMA ListStands ==
    ASSUME ListSound, dialog' = dialog, submitted' = submitted, toOpen' = toOpen, early' = early,
           dialogs' = dialogs,
           editor'.named = editor'.by \/ (editor'.named = editor.named /\ editor'.by = editor.by)
    PROVE  ListSound'
  BY DEF ListSound, DialogTypes, DialogSound, SubmittedSound, NamingSound, Screen!OpensWhatItNamed

LEMMA NameStands ==
    ASSUME NameSound, project' = project, name' = name, switching' \subseteq Projects,
           draft' \in {draft, Screen!NoDraft}
    PROVE  NameSound'
  BY DEF NameSound, NameTypes, Screen!NamesItsProject

(* What became of the editor is written on what it holds.                   *)
LEMMA MarkedProject ==
    ASSUME NEW def \in Screen!Definitions, NEW p, NEW q, NEW b, Belongs(def, p, b)
    PROVE  /\ Screen!Marked(def, "project") \in Screen!Definitions
           /\ Belongs(Screen!Marked(def, "project"), q, b)
           /\ Screen!Marked(def, "project") # Screen!Absent => def # Screen!Absent
  BY DEF Belongs, Screen!Marked, Screen!Definitions, Screen!Changes

LEMMA MarkedBrain ==
    ASSUME NEW def \in Screen!Definitions, NEW p, NEW b, NEW c, Belongs(def, p, b)
    PROVE  /\ Screen!Marked(def, "brain") \in Screen!Definitions
           /\ Belongs(Screen!Marked(def, "brain"), p, c)
  BY DEF Belongs, Screen!Marked, Screen!Definitions, Screen!Changes

LEMMA SavedBelong ==
    ASSUME EditSound, NEW p \in Projects, NEW b \in Brains
    PROVE  saved[p][b] \in Screen!Definitions /\ Belongs(saved[p][b], p, b)
  BY DEF EditSound, EditTypes, Screen!SavesWhereOpened, Belongs

(* A definition that belongs is stored.                                     *)
LEMMA StoringKeeps ==
    ASSUME EditSound, NEW b \in Brains, NEW v \in Screen!Definitions, Belongs(v, project, b),
           saved' = [saved EXCEPT ![project][b] = v]
    PROVE  saved' \in [Projects -> [Brains -> Screen!Definitions]] /\ Screen!SavesWhereOpened'
<1>1. project \in Projects /\ saved \in [Projects -> [Brains -> Screen!Definitions]]
  BY DEF EditSound, EditTypes
<1>2. saved' \in [Projects -> [Brains -> Screen!Definitions]]
  BY <1>1
<1>3. \A p \in Projects, c \in Brains : saved'[p][c] = IF p = project /\ c = b THEN v ELSE saved[p][c]
  BY <1>1
<1>4. ASSUME NEW p \in Projects, NEW c \in Brains PROVE Belongs(saved'[p][c], p, c)
  <2>1. Belongs(saved[p][c], p, c)
    BY SavedBelong
  <2> QED
    BY <1>3, <2>1
<1> QED
  BY <1>2, <1>4 DEF Screen!SavesWhereOpened, Belongs

(* The editor is opened on a brain of the active project.                   *)
LEMMA OpeningKeeps ==
    ASSUME EditSound, NEW b \in Brains, NEW named \in Nat, NEW by \in Nat, Screen!Opening(b, named, by),
           project' = project, saved' = saved
    PROVE  EditSound' /\ editor'.named = named /\ editor'.by = by
<1> DEFINE d == Screen!Marked(editor.def, "brain")
           e == [editor EXCEPT !.brain = b, !.load = opens + 1, !.named = named, !.by = by, !.def = d]
           l == [number |-> opens + 1, def |-> saved[project][b]]
<1>1. EditTypes /\ EditorSound /\ LoadsSound /\ Screen!SavesWhereOpened
  BY DEF EditSound
<1>2. /\ opens' = opens + 1 /\ editor' = e /\ loads' = loads \cup {l}
      /\ project' = project /\ saved' = saved
  BY DEF Screen!Opening
<1>3. editor \in EditorRecord /\ editor.def \in Screen!Definitions /\ project \in Projects /\ opens \in Nat
      /\ opens + 1 \in Nat
  BY <1>1 DEF EditTypes, EditorRecord
<1>4. d \in Screen!Definitions /\ Belongs(d, project, b)
  BY <1>1, <1>3, MarkedBrain DEF EditorSound
<1> HIDE DEF d
<1>5. /\ e \in EditorRecord /\ e.brain = b /\ e.load = opens + 1 /\ e.open = editor.open /\ e.def = d
      /\ e.named = named /\ e.by = by
  BY <1>3, <1>4 DEF EditorRecord
<1>6. saved[project][b] \in Screen!Definitions /\ Belongs(saved[project][b], project, b)
  BY <1>3, SavedBelong
<1>7. l \in LoadRecord /\ l.number = opens + 1 /\ l.def = saved[project][b]
  BY <1>3, <1>6 DEF LoadRecord
<1> HIDE DEF e, l
<1>8. EditTypes'
  BY <1>1, <1>2, <1>3, <1>5, <1>7 DEF EditTypes
<1>9. opens + 1 \in 1..(opens + 1) /\ opens + 1 \in 0..(opens + 1)
  BY <1>3
<1>10. EditorSound'
  <2>1. Belongs(editor.def, project, editor.brain)'
    BY <1>2, <1>4, <1>5 DEF Belongs
  <2> QED
    BY <1>2, <1>5, <1>9, <2>1 DEF EditorSound
<1>11. LoadsSound'
  <2>1. \A x \in loads : x.number \in 1..(opens + 1) /\ x.number # opens + 1
    <3>1. \A x \in loads : x.number \in 1..opens
      BY <1>1 DEF LoadsSound
    <3> QED
      BY <1>3, <3>1
  <2>2. Belongs(l.def, project', editor'.brain)
    BY <1>2, <1>5, <1>6, <1>7
  <2> QED
    BY <1>2, <1>5, <1>7, <1>9, <2>1, <2>2 DEF LoadsSound, Belongs
<1>12. Screen!SavesWhereOpened'
  BY <1>1, <1>2 DEF Screen!SavesWhereOpened
<1> QED
  BY <1>2, <1>5, <1>8, <1>10, <1>11, <1>12 DEF EditSound

(* Without an editor nothing that comes is for it.                          *)
LEMMA EditorGone ==
    ASSUME EditSound, editor' = Screen!NoEditor, loads' = loads, opens' = opens, project' = project,
           saved' \in [Projects -> [Brains -> Screen!Definitions]], Screen!SavesWhereOpened'
    PROVE  EditSound' /\ editor'.named = editor'.by
<1>1. EditTypes /\ LoadsSound
  BY DEF EditSound
<1>2. Screen!NoEditor \in EditorRecord
  BY DEF Screen!NoEditor, EditorRecord, Screen!Definitions
<1>3. /\ Screen!NoEditor.load = 0 /\ Screen!NoEditor.open = FALSE /\ Screen!NoEditor.def = Screen!Absent
      /\ Screen!NoEditor.named = Screen!NoEditor.by
  BY DEF Screen!NoEditor
<1>4. opens \in Nat /\ 0 \in 0..opens /\ \A x \in loads : x.number \in 1..opens /\ x.number # 0
  BY <1>1 DEF EditTypes, LoadsSound
<1>5. EditTypes'
  BY <1>1, <1>2 DEF EditTypes
<1>6. EditorSound' /\ LoadsSound'
  BY <1>3, <1>4 DEF EditorSound, LoadsSound, Belongs
<1> QED
  BY <1>3, <1>5, <1>6 DEF EditSound

LEMMA ScreenStart ==
    ASSUME Screen!ScreenParameters, Screen!Init
    PROVE  ScreenSound
<1>1. /\ project \in Projects /\ name = [p \in Projects |-> <<p, {}>>]
      /\ saved = [p \in Projects |-> [b \in Brains |-> IF b \in Has[p] THEN Screen!Original(p, b) ELSE Screen!Absent]]
      /\ dialog = Screen!NoDialog /\ submitted = {} /\ toOpen = Screen!NoNaming
      /\ editor = Screen!NoEditor /\ loads = {} /\ opens = 0
      /\ switching = {} /\ draft = Screen!NoDraft /\ dialogs = 0
  BY DEF Screen!Init
<1>2. Screen!NoDialog \in DialogRecord /\ Screen!NoEditor \in EditorRecord
  BY DEF Screen!NoDialog, Screen!NoEditor, DialogRecord, EditorRecord, Screen!Definitions
<1>3. /\ Screen!NoDialog.kind = "none" /\ Screen!NoDialog.busy = FALSE
      /\ Screen!NoEditor.load = 0 /\ Screen!NoEditor.open = FALSE /\ Screen!NoEditor.def = Screen!Absent
      /\ Screen!NoEditor.named = 0 /\ Screen!NoEditor.by = 0
  BY DEF Screen!NoDialog, Screen!NoEditor
<1>4. ASSUME NEW p \in Projects, NEW b \in Brains
      PROVE  Screen!Original(p, b) \in Screen!Definitions /\ Belongs(Screen!Original(p, b), p, b)
             /\ Screen!Absent \in Screen!Definitions /\ Belongs(Screen!Absent, p, b)
  BY DEF Screen!Original, Screen!Definitions, Screen!Changes, Belongs
<1>5. EditSound
  <2>1. saved \in [Projects -> [Brains -> Screen!Definitions]]
    BY <1>1, <1>4
  <2>2. Screen!SavesWhereOpened
    <3>1. ASSUME NEW p \in Projects, NEW b \in Brains PROVE Belongs(saved[p][b], p, b)
      BY <1>1, <1>4
    <3> QED
      BY <3>1 DEF Screen!SavesWhereOpened, Belongs
  <2> QED
    BY <1>1, <1>2, <1>3, <2>1, <2>2 DEF EditSound, EditTypes, EditorSound, LoadsSound, Belongs
<1>6. ListSound
  BY <1>1, <1>2, <1>3 DEF ListSound, DialogTypes, DialogSound, SubmittedSound, NamingSound, Screen!OpensWhatItNamed
<1>7. NameSound
  <2>1. \A p \in Projects : name[p] = <<p, {}>>
    BY <1>1
  <2>2. NameTypes
    BY <1>1 DEF NameTypes, Screen!Changes
  <2>3. ASSUME NEW p \in Projects PROVE name[p][1] = p
    <3>1. name[p] = <<p, {}>>
      BY <2>1
    <3> QED
      BY <3>1
  <2>4. Screen!NamesItsProject
    BY <2>3 DEF Screen!NamesItsProject
  <2> QED
    BY <1>1, <2>2, <2>4 DEF NameSound
<1> QED
  BY <1>5, <1>6, <1>7 DEF ScreenSound

LEMMA OpenDialogKeeps ==
    ASSUME ScreenSound, NEW kind \in {"add", "rename", "remove"}, NEW b \in Brains \cup {NoBrain},
           Screen!OpenDialog(kind, b)
    PROVE  ScreenSound'
<1> DEFINE d == [kind |-> kind, brain |-> b, number |-> dialogs + 1, busy |-> FALSE]
<1>1. /\ dialog = Screen!NoDialog /\ dialogs' = dialogs + 1 /\ dialog' = d /\ draft' = Screen!NoDraft
      /\ project' = project /\ saved' = saved /\ name' = name /\ submitted' = submitted /\ toOpen' = toOpen
      /\ early' = early /\ editor' = editor /\ loads' = loads /\ opens' = opens /\ switching' = switching
  BY DEF Screen!OpenDialog, Screen!Modal, Screen!Blurred, Screen!editing
<1>2. EditSound /\ ListSound /\ NameSound
  BY DEF ScreenSound
<1>3. /\ DialogTypes /\ SubmittedSound /\ NamingSound /\ Screen!OpensWhatItNamed
      /\ dialogs \in Nat /\ dialogs + 1 \in Nat /\ dialogs + 1 \in 1..(dialogs + 1)
  BY <1>2 DEF ListSound, DialogTypes
<1>4. d \in DialogRecord /\ d.kind = kind /\ d.number = dialogs + 1 /\ d.busy = FALSE
  BY <1>3 DEF DialogRecord
<1> HIDE DEF d
<1>5. \A x \in submitted : x.number \in 1..dialogs /\ x.number # 0
  BY <1>3 DEF DialogTypes
<1>6. \A x \in submitted : x.number \in 1..(dialogs + 1) /\ x.number # dialogs + 1
  BY <1>3, <1>5
<1>7. Screen!NoDialog.number = 0
  BY DEF Screen!NoDialog
<1>8. \A x \in submitted : x.number \in early
  BY <1>1, <1>3, <1>5, <1>7 DEF SubmittedSound
<1>9. DialogTypes' /\ DialogSound'
  BY <1>1, <1>3, <1>4, <1>6 DEF DialogTypes, DialogSound
<1>10. SubmittedSound'
  BY <1>1, <1>3, <1>4, <1>6, <1>8 DEF SubmittedSound
<1>11. NamingSound' /\ Screen!OpensWhatItNamed'
  BY <1>1, <1>3 DEF NamingSound, Screen!OpensWhatItNamed
<1>12. EditSound'
  BY <1>1, <1>2, EditStands
<1>13. NameSound'
  <2>1. switching' \subseteq Projects
    BY <1>1, <1>2 DEF NameSound, NameTypes
  <2> QED
    BY <1>1, <1>2, <2>1, NameStands
<1> QED
  BY <1>9, <1>10, <1>11, <1>12, <1>13 DEF ListSound, ScreenSound

LEMMA SubmitKeeps ==
    ASSUME ScreenSound, NEW b \in Brains, NEW ok \in BOOLEAN, Screen!Submit(b, ok)
    PROVE  ScreenSound'
<1> DEFINE x == [kind |-> dialog.kind, brain |-> b, number |-> dialog.number, ok |-> ok]
           d == [dialog EXCEPT !.busy = TRUE]
           v == CASE ok /\ dialog.kind = "add" -> Screen!Original(project, b)
                  [] ok /\ dialog.kind = "remove" -> Screen!Absent
                  [] OTHER -> saved[project][b]
<1>1. /\ dialog # Screen!NoDialog /\ ~dialog.busy /\ dialog' = d
      /\ submitted' = submitted \cup {x}
      /\ saved' = [saved EXCEPT ![project][b] = v]
      /\ project' = project /\ name' = name /\ toOpen' = toOpen /\ early' = early /\ dialogs' = dialogs
      /\ editor' = editor /\ loads' = loads /\ opens' = opens /\ switching' = switching
      /\ draft' = draft
  BY DEF Screen!Submit, Screen!editing, Screen!header
<1>2. EditSound /\ ListSound /\ NameSound
  BY DEF ScreenSound
<1>3. /\ DialogTypes /\ DialogSound /\ SubmittedSound /\ NamingSound /\ Screen!OpensWhatItNamed
      /\ project \in Projects
  BY <1>2 DEF ListSound, NameSound, NameTypes
<1>4. /\ dialog \in DialogRecord /\ dialog.kind \in {"add", "rename", "remove"}
      /\ dialog.number \in 1..dialogs /\ dialog.number \in Nat
  BY <1>1, <1>3 DEF DialogTypes, DialogSound, DialogRecord
<1>5. d \in DialogRecord /\ d.kind = dialog.kind /\ d.number = dialog.number /\ d.busy = TRUE
  BY <1>4 DEF DialogRecord
<1>6. x.kind = dialog.kind /\ x.number = dialog.number /\ x \in SubmissionRecord
  BY <1>4 DEF SubmissionRecord
<1>7. v \in Screen!Definitions /\ Belongs(v, project, b)
  <2>1. saved[project][b] \in Screen!Definitions /\ Belongs(saved[project][b], project, b)
    BY <1>2, <1>3, SavedBelong
  <2>2. /\ Screen!Original(project, b) \in Screen!Definitions /\ Belongs(Screen!Original(project, b), project, b)
        /\ Screen!Absent \in Screen!Definitions /\ Belongs(Screen!Absent, project, b)
    BY <1>3 DEF Screen!Original, Screen!Definitions, Screen!Changes, Belongs
  <2>3. v \in {Screen!Original(project, b), Screen!Absent, saved[project][b]}
    OBVIOUS
  <2> HIDE DEF v
  <2> QED
    BY <2>1, <2>2, <2>3
<1> HIDE DEF x, d, v
<1>8. EditSound'
  <2>1. saved' \in [Projects -> [Brains -> Screen!Definitions]] /\ Screen!SavesWhereOpened'
    BY <1>1, <1>2, <1>7, StoringKeeps
  <2> QED
    BY <1>1, <1>2, <2>1 DEF EditSound, EditTypes, EditorSound, LoadsSound, Belongs
<1>9. \A y \in submitted : y.number # dialog.number
  BY <1>1, <1>3 DEF SubmittedSound
<1>10. DialogTypes' /\ DialogSound'
  <2>1. d.kind # "none" /\ x \in submitted'
    BY <1>1, <1>4, <1>5
  <2> QED
    BY <1>1, <1>3, <1>4, <1>5, <1>6, <2>1 DEF DialogTypes, DialogSound
<1>11. SubmittedSound'
  BY <1>1, <1>3, <1>5, <1>6, <1>9 DEF SubmittedSound
<1>12. NamingSound' /\ Screen!OpensWhatItNamed'
  BY <1>1, <1>3 DEF NamingSound, Screen!OpensWhatItNamed
<1>13. NameSound'
  <2>1. switching' \subseteq Projects
    BY <1>1, <1>2 DEF NameSound, NameTypes
  <2> QED
    BY <1>1, <1>2, <2>1, NameStands
<1> QED
  BY <1>8, <1>10, <1>11, <1>12, <1>13 DEF ListSound, ScreenSound

(* A dialog closes: it opens the brain it named, or one whose dialog closed *)
(* before it was answered.                                                  *)
LEMMA ClosesKeep ==
    ASSUME ScreenSound, NEW naming, NEW answered, Screen!Closed(naming, answered),
           naming = Screen!NoNaming
             \/ (naming.brain \in Brains /\ naming.number \in Nat /\ (naming.number \in early \/ (naming.number = dialog.number /\ dialog.kind = "add"))),
           submitted' \subseteq submitted, \A x \in submitted' : x.number # answered,
           project' = project, saved' = saved, name' = name, switching' = switching,
           draft' = draft, dialogs' = dialogs
    PROVE  ScreenSound'
<1>1. EditSound /\ ListSound /\ NameSound
  BY DEF ScreenSound
<1>2. /\ DialogTypes /\ DialogSound /\ SubmittedSound /\ Screen!OpensWhatItNamed
      /\ dialog.number \in Nat /\ early \subseteq early'
      /\ dialog' = Screen!NoDialog
      /\ early' = IF dialog.busy /\ dialog.number # answered THEN early \cup {dialog.number} ELSE early
  BY <1>1 DEF ListSound, DialogTypes, DialogRecord, Screen!Closed
<1>3. /\ Screen!NoDialog \in DialogRecord /\ Screen!NoDialog.kind = "none" /\ Screen!NoDialog.busy = FALSE
      /\ Screen!NoDialog.number = 0
  BY DEF Screen!NoDialog, DialogRecord
<1>4. \A x \in submitted' : x \in submitted /\ x.number # 0 /\ x.number # answered
  BY <1>2 DEF DialogTypes
<1>5. DialogTypes' /\ DialogSound'
  BY <1>2, <1>3, <1>4 DEF DialogTypes, DialogSound
<1>6. SubmittedSound'
  <2>1. ASSUME NEW x \in submitted' PROVE x.number \in early'
    BY <1>2, <1>4, <2>1 DEF SubmittedSound
  <2>2. \A x, y \in submitted' : x.number = y.number => x = y
    BY <1>2, <1>4 DEF SubmittedSound
  <2> QED
    BY <1>2, <1>3, <1>4, <2>1, <2>2 DEF SubmittedSound
<1>7. NameSound'
  <2>1. switching' \subseteq Projects
    BY <1>1 DEF NameSound, NameTypes
  <2> QED
    BY <1>1, <2>1, NameStands
<1>8. CASE dialog.kind = "add" /\ naming # Screen!NoNaming
  <2>1. /\ Screen!Opening(naming.brain, naming.number, dialog.number) /\ toOpen' = Screen!NoNaming
        /\ naming.brain \in Brains /\ naming.number \in Nat
        /\ naming.number \in early' \/ naming.number = dialog.number
    BY <1>2, <1>8 DEF Screen!Closed, Screen!Taken
  <2>2. EditSound' /\ editor'.named = naming.number /\ editor'.by = dialog.number
    BY <1>1, <1>2, <2>1, OpeningKeeps
  <2>3. NamingSound' /\ Screen!OpensWhatItNamed'
    BY <2>1, <2>2 DEF NamingSound, Screen!OpensWhatItNamed
  <2> QED
    BY <1>5, <1>6, <1>7, <2>2, <2>3 DEF ListSound, ScreenSound
<1>9. CASE ~(dialog.kind = "add" /\ naming # Screen!NoNaming)
  <2>1. toOpen' = naming /\ editor' = editor /\ loads' = loads /\ opens' = opens
    BY <1>9 DEF Screen!Closed, Screen!editing
  <2>2. EditSound'
    BY <1>1, <2>1, EditStands
  <2>3. NamingSound' /\ Screen!OpensWhatItNamed'
    BY <1>2, <1>9, <2>1 DEF NamingSound, Screen!OpensWhatItNamed
  <2> QED
    BY <1>5, <1>6, <1>7, <2>2, <2>3 DEF ListSound, ScreenSound
<1> QED
  BY <1>8, <1>9

LEMMA CancelKeeps ==
    ASSUME ScreenSound, Screen!Cancel
    PROVE  ScreenSound'
<1>1. /\ Screen!Closed(toOpen, 0)
      /\ project' = project /\ saved' = saved /\ name' = name /\ submitted' = submitted
      /\ switching' = switching /\ draft' = draft /\ dialogs' = dialogs
  BY DEF Screen!Cancel, Screen!header
<1>2. toOpen = Screen!NoNaming \/ (toOpen.brain \in Brains /\ toOpen.number \in Nat /\ toOpen.number \in early)
  BY DEF ScreenSound, ListSound, NamingSound
<1>3. \A x \in submitted' : x.number # 0
  BY <1>1 DEF ScreenSound, ListSound, DialogTypes
<1> QED
  BY <1>1, <1>2, <1>3, ClosesKeep

LEMMA EndsKeeps ==
    ASSUME ScreenSound, NEW x \in submitted, Screen!Ends(x)
    PROVE  ScreenSound'
<1> DEFINE naming == IF x.kind = "add" THEN [brain |-> x.brain, number |-> x.number] ELSE toOpen
<1>1. /\ submitted' = submitted \ {x} /\ Screen!Closed(naming, x.number)
      /\ project' = project /\ saved' = saved /\ name' = name
      /\ switching' = switching /\ draft' = draft /\ dialogs' = dialogs
  BY DEF Screen!Ends, Screen!header
<1>2. SubmittedSound /\ NamingSound /\ x.brain \in Brains /\ x.number \in Nat
  BY DEF ScreenSound, ListSound, DialogTypes, SubmissionRecord
<1>3. \A y \in submitted' : y.number # x.number
  BY <1>1, <1>2 DEF SubmittedSound
<1>4. naming = Screen!NoNaming
        \/ (naming.brain \in Brains /\ naming.number \in Nat
              /\ (naming.number \in early \/ (naming.number = dialog.number /\ dialog.kind = "add")))
  <2>1. CASE x.kind = "add"
    BY <1>2, <2>1 DEF SubmittedSound
  <2>2. CASE x.kind # "add"
    BY <1>2, <2>2 DEF NamingSound
  <2> QED
    BY <2>1, <2>2
<1> HIDE DEF naming
<1>5. submitted' \subseteq submitted
  BY <1>1
<1> QED
  BY <1>1, <1>3, <1>4, <1>5, ClosesKeep

LEMMA FailsKeeps ==
    ASSUME ScreenSound, NEW x \in submitted, Screen!Fails(x)
    PROVE  ScreenSound'
<1> DEFINE d == [dialog EXCEPT !.busy = FALSE]
<1>1. EditSound /\ ListSound /\ NameSound
  BY DEF ScreenSound
<1>2. /\ submitted' = submitted \ {x} /\ dialog' = (IF dialog.number = x.number THEN d ELSE dialog)
      /\ project' = project /\ saved' = saved /\ name' = name /\ toOpen' = toOpen /\ early' = early
      /\ editor' = editor /\ loads' = loads /\ opens' = opens
      /\ switching' = switching /\ draft' = draft /\ dialogs' = dialogs
  BY DEF Screen!Fails, Screen!Refused, Screen!editing, Screen!header
<1>3. /\ DialogTypes /\ DialogSound /\ SubmittedSound /\ NamingSound /\ Screen!OpensWhatItNamed
      /\ dialog \in DialogRecord
  BY <1>1 DEF ListSound, DialogTypes
<1>4. d \in DialogRecord /\ d.kind = dialog.kind /\ d.number = dialog.number /\ d.busy = FALSE
  BY <1>3 DEF DialogRecord
<1> HIDE DEF d
<1>5. \A y \in submitted' : y.number # x.number
  BY <1>2, <1>3 DEF SubmittedSound
<1>6. NamingSound' /\ Screen!OpensWhatItNamed'
  BY <1>2, <1>3 DEF NamingSound, Screen!OpensWhatItNamed
<1>7. EditSound'
  BY <1>1, <1>2, EditStands
<1>8. NameSound'
  <2>1. switching' \subseteq Projects
    BY <1>1, <1>2 DEF NameSound, NameTypes
  <2> QED
    BY <1>1, <1>2, <2>1, NameStands
<1>9. CASE dialog.number = x.number
  <2>1. dialog' = d
    BY <1>2, <1>9
  <2>2. dialog # Screen!NoDialog /\ dialog.kind # "none" /\ dialog.number \in 1..dialogs
    <3>1. x.number \in 1..dialogs /\ Screen!NoDialog.number = 0
      BY <1>3 DEF DialogTypes, Screen!NoDialog
    <3> QED
      BY <1>3, <1>9, <3>1 DEF DialogSound
  <2>3. DialogTypes' /\ DialogSound'
    BY <1>2, <1>3, <1>4, <2>1, <2>2 DEF DialogTypes, DialogSound
  <2>4. SubmittedSound'
    BY <1>2, <1>3, <1>4, <1>5, <1>9, <2>1 DEF SubmittedSound
  <2> QED
    BY <1>6, <1>7, <1>8, <2>3, <2>4 DEF ListSound, ScreenSound
<1>10. CASE dialog.number # x.number
  <2>1. dialog' = dialog
    BY <1>2, <1>10
  <2>2. DialogTypes' /\ DialogSound'
    BY <1>2, <1>3, <1>10, <2>1 DEF DialogTypes, DialogSound
  <2>3. SubmittedSound'
    BY <1>2, <1>3, <2>1 DEF SubmittedSound
  <2> QED
    BY <1>6, <1>7, <1>8, <2>2, <2>3 DEF ListSound, ScreenSound
<1> QED
  BY <1>9, <1>10

LEMMA OpenEditorKeeps ==
    ASSUME ScreenSound, NEW b \in Brains, Screen!OpenEditor(b)
    PROVE  ScreenSound'
<1>1. EditSound /\ ListSound /\ NameSound
  BY DEF ScreenSound
<1>2. /\ Screen!Opening(b, 0, 0) /\ draft' = Screen!NoDraft
      /\ project' = project /\ saved' = saved /\ name' = name /\ dialog' = dialog /\ submitted' = submitted
      /\ toOpen' = toOpen /\ early' = early /\ switching' = switching /\ dialogs' = dialogs
  BY DEF Screen!OpenEditor, Screen!Blurred, Screen!list
<1>3. EditSound' /\ editor'.named = editor'.by
  <2>1. \A named \in Nat : Screen!Opening(b, named, named) => EditSound' /\ editor'.named = editor'.by
    BY <1>1, <1>2, OpeningKeeps
  <2> QED
    BY <1>2, <2>1
<1>4. ListSound'
  BY <1>1, <1>2, <1>3, ListStands
<1>5. switching' \subseteq Projects
  BY <1>1, <1>2 DEF NameSound, NameTypes
<1>6. NameSound'
  BY <1>1, <1>2, <1>5, NameStands
<1> QED
  BY <1>3, <1>4, <1>6 DEF ScreenSound

LEMMA LoadedKeeps ==
    ASSUME ScreenSound, NEW x \in loads, Screen!Loaded(x)
    PROVE  ScreenSound'
<1> DEFINE e == [editor EXCEPT !.def = x.def, !.open = TRUE]
<1>1. EditSound /\ ListSound /\ NameSound
  BY DEF ScreenSound
<1>2. /\ loads' = loads \ {x} /\ editor' = (IF editor.load = x.number THEN e ELSE editor)
      /\ project' = project /\ saved' = saved /\ name' = name /\ dialog' = dialog /\ submitted' = submitted
      /\ toOpen' = toOpen /\ early' = early /\ opens' = opens /\ switching' = switching
      /\ draft' = draft /\ dialogs' = dialogs
  BY DEF Screen!Loaded, Screen!Active, Screen!list, Screen!header
<1>3. EditTypes /\ EditorSound /\ LoadsSound /\ Screen!SavesWhereOpened
  BY <1>1 DEF EditSound
<1>4. editor \in EditorRecord /\ x.def \in Screen!Definitions /\ x.number \in 1..opens
  BY <1>3 DEF EditTypes, LoadsSound, LoadRecord
<1>5. /\ e \in EditorRecord /\ e.brain = editor.brain /\ e.load = editor.load /\ e.open = TRUE
      /\ e.def = x.def /\ e.named = editor.named /\ e.by = editor.by
  BY <1>4 DEF EditorRecord
<1> HIDE DEF e
<1>6. editor'.brain = editor.brain /\ editor'.load = editor.load
      /\ editor'.named = editor.named /\ editor'.by = editor.by
  BY <1>2, <1>5
<1>7. EditTypes'
  BY <1>2, <1>3, <1>5 DEF EditTypes
<1>8. EditorSound'
  <2>1. CASE editor.load = x.number
    <3>1. editor' = e /\ editor.brain \in Brains /\ Belongs(x.def, project, editor.brain)
      BY <1>2, <1>3, <2>1 DEF LoadsSound
    <3> QED
      BY <1>2, <1>3, <1>4, <1>5, <2>1, <3>1 DEF EditorSound, Belongs
  <2>2. CASE editor.load # x.number
    BY <1>2, <1>3, <2>2 DEF EditorSound, Belongs
  <2> QED
    BY <2>1, <2>2
<1>9. LoadsSound' /\ Screen!SavesWhereOpened'
  BY <1>2, <1>3, <1>6 DEF LoadsSound, Belongs, Screen!SavesWhereOpened
<1>10. ListSound'
  BY <1>1, <1>2, <1>6, ListStands
<1>11. NameSound'
  <2>1. switching' \subseteq Projects
    BY <1>1, <1>2 DEF NameSound, NameTypes
  <2> QED
    BY <1>1, <1>2, <2>1, NameStands
<1> QED
  BY <1>7, <1>8, <1>9, <1>10, <1>11 DEF EditSound, ScreenSound

LEMMA EditEndsKeeps ==
    ASSUME ScreenSound, Screen!SubmitEdit \/ Screen!CloseEditor
    PROVE  ScreenSound'
<1>1. EditSound /\ ListSound /\ NameSound
  BY DEF ScreenSound
<1>2. /\ editor' = Screen!NoEditor
      /\ project' = project /\ name' = name /\ dialog' = dialog /\ submitted' = submitted
      /\ toOpen' = toOpen /\ early' = early /\ loads' = loads /\ opens' = opens /\ switching' = switching
      /\ draft' = draft /\ dialogs' = dialogs
      /\ \/ editor.def # Screen!Absent /\ saved' = [saved EXCEPT ![project][editor.brain] = editor.def]
         \/ saved' = saved
  <2>1. CASE Screen!SubmitEdit
    BY <2>1 DEF Screen!SubmitEdit, Screen!list, Screen!header
  <2>2. CASE Screen!CloseEditor
    BY <2>2 DEF Screen!CloseEditor, Screen!list, Screen!header
  <2> QED
    BY <2>1, <2>2
<1>3. saved' \in [Projects -> [Brains -> Screen!Definitions]] /\ Screen!SavesWhereOpened'
  <2>1. CASE editor.def # Screen!Absent /\ saved' = [saved EXCEPT ![project][editor.brain] = editor.def]
    <3>1. /\ editor.brain \in Brains /\ editor.def \in Screen!Definitions
          /\ Belongs(editor.def, project, editor.brain)
      BY <1>1, <2>1 DEF EditSound, EditTypes, EditorSound, EditorRecord
    <3> QED
      BY <1>1, <2>1, <3>1, StoringKeeps
  <2>2. CASE saved' = saved
    BY <1>1, <2>2 DEF EditSound, EditTypes, Screen!SavesWhereOpened
  <2> QED
    BY <1>2, <2>1, <2>2
<1>4. EditSound' /\ editor'.named = editor'.by
  BY <1>1, <1>2, <1>3, EditorGone
<1>5. ListSound'
  BY <1>1, <1>2, <1>4, ListStands
<1>6. switching' \subseteq Projects
  BY <1>1, <1>2 DEF NameSound, NameTypes
<1>7. NameSound'
  BY <1>1, <1>2, <1>6, NameStands
<1> QED
  BY <1>4, <1>5, <1>7 DEF ScreenSound

(* The header: the picker, the ways to another project, and the name.       *)
LEMMA PickerKeeps ==
    ASSUME ScreenSound, Screen!OpenPicker \/ Screen!ClosePicker \/ \E p \in Projects : Screen!SwitchTo(p)
    PROVE  ScreenSound'
<1>1. EditSound /\ ListSound /\ NameSound /\ switching \subseteq Projects
  BY DEF ScreenSound, NameSound, NameTypes
<1>2. /\ project' = project /\ saved' = saved /\ name' = name /\ dialog' = dialog /\ submitted' = submitted
      /\ toOpen' = toOpen /\ early' = early /\ editor' = editor /\ loads' = loads /\ opens' = opens
      /\ dialogs' = dialogs /\ draft' \in {draft, Screen!NoDraft}
      /\ switching' = switching \/ \E p \in Projects : switching' = switching \cup {p}
  <2>1. CASE Screen!OpenPicker
    BY <2>1 DEF Screen!OpenPicker, Screen!Blurred, Screen!list, Screen!editing
  <2>2. CASE Screen!ClosePicker
    BY <2>2 DEF Screen!ClosePicker, Screen!list, Screen!editing
  <2>3. ASSUME NEW p \in Projects, Screen!SwitchTo(p)
        PROVE  /\ project' = project /\ saved' = saved /\ name' = name /\ dialog' = dialog /\ submitted' = submitted
               /\ toOpen' = toOpen /\ early' = early /\ editor' = editor /\ loads' = loads /\ opens' = opens
               /\ dialogs' = dialogs /\ draft' \in {draft, Screen!NoDraft}
               /\ switching' = switching \cup {p}
    BY <2>3 DEF Screen!SwitchTo, Screen!Blurred, Screen!list, Screen!editing
  <2> QED
    BY <2>1, <2>2, <2>3
<1>3. switching' \subseteq Projects
  BY <1>1, <1>2
<1>4. EditSound' /\ ListSound' /\ NameSound'
  BY <1>1, <1>2, <1>3, EditStands, ListStands, NameStands
<1> QED
  BY <1>4 DEF ScreenSound

LEMMA SwitchedKeeps ==
    ASSUME ScreenSound, NEW p \in Projects, Screen!Switched(p)
    PROVE  ScreenSound'
<1> DEFINE d == Screen!Marked(editor.def, "project")
           e == [editor EXCEPT !.def = d]
           After(x) == [x EXCEPT !.def = Screen!Marked(x.def, "project")]
<1>1. EditSound /\ ListSound /\ NameSound
  BY DEF ScreenSound
<1>2. /\ project' = p /\ switching' = switching \ {p} /\ editor' = e
      /\ saved' = saved /\ name' = name /\ dialog' = dialog /\ submitted' = submitted
      /\ toOpen' = toOpen /\ early' = early /\ opens' = opens /\ dialogs' = dialogs
      /\ draft' = IF draft = Screen!NoDraft THEN draft ELSE <<draft[1], {"project"}>>
  BY DEF Screen!Switched, Screen!list
<1>3. loads' = {After(x) : x \in loads}
  BY Zenon DEF Screen!Switched
<1>4. EditTypes /\ EditorSound /\ LoadsSound /\ Screen!SavesWhereOpened
  BY <1>1 DEF EditSound
<1>5. editor \in EditorRecord /\ editor.def \in Screen!Definitions
  BY <1>4 DEF EditTypes, EditorRecord
<1>6. /\ d \in Screen!Definitions /\ Belongs(d, p, editor.brain)
      /\ d # Screen!Absent => editor.def # Screen!Absent
  BY <1>4, <1>5, MarkedProject DEF EditorSound
<1> HIDE DEF d
<1>7. /\ e \in EditorRecord /\ e.brain = editor.brain /\ e.load = editor.load /\ e.open = editor.open
      /\ e.def = d /\ e.named = editor.named /\ e.by = editor.by
  BY <1>5, <1>6 DEF EditorRecord
<1> HIDE DEF e
<1>8. ASSUME NEW x \in loads
      PROVE  /\ After(x) \in LoadRecord /\ After(x).number = x.number
             /\ x.number = editor.load => Belongs(After(x).def, p, editor.brain)
  <2>1. x \in LoadRecord /\ x.def \in Screen!Definitions
    BY <1>4 DEF EditTypes, LoadRecord
  <2>2. After(x).number = x.number /\ After(x).def = Screen!Marked(x.def, "project")
    BY <2>1 DEF LoadRecord
  <2>3. Screen!Marked(x.def, "project") \in Screen!Definitions
    BY <2>1 DEF Screen!Marked, Screen!Definitions, Screen!Changes
  <2>4. After(x) \in LoadRecord
    BY <2>1, <2>3 DEF LoadRecord
  <2>5. ASSUME x.number = editor.load PROVE Belongs(Screen!Marked(x.def, "project"), p, editor.brain)
    <3>1. Belongs(x.def, project, editor.brain)
      BY <1>4, <2>5 DEF LoadsSound
    <3> QED
      BY <2>1, <3>1, MarkedProject
  <2> QED
    BY <2>2, <2>4, <2>5
<1> HIDE DEF After
<1>9. EditTypes'
  <2>1. loads' \subseteq LoadRecord
    BY <1>3, <1>8
  <2> QED
    BY <1>2, <1>4, <1>7, <2>1 DEF EditTypes
<1>10. EditorSound'
  BY <1>2, <1>4, <1>6, <1>7 DEF EditorSound, Belongs
<1>11. LoadsSound'
  <2>1. ASSUME NEW y \in loads'
        PROVE  y.number \in 1..opens /\ (y.number = editor.load => editor.brain \in Brains /\ Belongs(y.def, p, editor.brain))
    <3>1. PICK x \in loads : y = After(x)
      BY <1>3
    <3>2. y.number = x.number /\ (x.number = editor.load => Belongs(y.def, p, editor.brain))
      BY <1>8, <3>1
    <3> QED
      BY <1>4, <3>2 DEF LoadsSound
  <2> QED
    BY <1>2, <1>7, <2>1 DEF LoadsSound, Belongs
<1>12. Screen!SavesWhereOpened'
  BY <1>2, <1>4 DEF Screen!SavesWhereOpened
<1>13. ListSound'
  BY <1>1, <1>2, <1>7, ListStands
<1>14. NameSound'
  <2>1. NameTypes'
    BY <1>1, <1>2 DEF NameSound, NameTypes, Screen!Changes
  <2>2. draft' # Screen!NoDraft => "project" \in draft'[2]
    BY <1>2
  <2>3. Screen!NamesItsProject'
    BY <1>1, <1>2 DEF NameSound, Screen!NamesItsProject
  <2> QED
    BY <2>1, <2>2, <2>3 DEF NameSound
<1> QED
  BY <1>9, <1>10, <1>11, <1>12, <1>13, <1>14 DEF EditSound, ScreenSound

LEMMA RenameKeeps ==
    ASSUME ScreenSound, Screen!StartRename \/ Screen!CommitRename \/ Screen!CancelRename
    PROVE  ScreenSound'
<1>1. EditSound /\ ListSound /\ NameSound
  BY DEF ScreenSound
<1>2. /\ project' = project /\ saved' = saved /\ dialog' = dialog /\ submitted' = submitted
      /\ toOpen' = toOpen /\ early' = early /\ editor' = editor /\ loads' = loads /\ opens' = opens
      /\ switching' = switching /\ dialogs' = dialogs
      /\ \/ draft' = <<project, {}>> /\ name' = name
         \/ draft' = Screen!NoDraft /\ draft # Screen!NoDraft /\ name' = [name EXCEPT ![project] = draft]
         \/ draft' = Screen!NoDraft /\ name' = name
  BY DEF Screen!StartRename, Screen!CommitRename, Screen!CancelRename, Screen!list, Screen!editing
<1>3. EditSound' /\ ListSound'
  BY <1>1, <1>2, EditStands, ListStands
<1>4. NameTypes /\ Screen!NamesItsProject /\ project \in Projects /\ switching' \subseteq Projects
  BY <1>1, <1>2 DEF NameSound, NameTypes
<1>5. CASE draft' = <<project, {}>> /\ name' = name
  <2>1. NameTypes'
    BY <1>2, <1>4, <1>5 DEF NameTypes, Screen!Changes
  <2> QED
    BY <1>2, <1>3, <1>4, <1>5, <2>1 DEF NameSound, Screen!NamesItsProject, ScreenSound
<1>6. CASE draft' = Screen!NoDraft /\ draft # Screen!NoDraft /\ name' = [name EXCEPT ![project] = draft]
  <2>1. draft \in Projects \X Screen!Changes /\ (draft[1] = project \/ "project" \in draft[2])
    BY <1>1, <1>6 DEF NameSound, NameTypes
  <2>2. name' \in [Projects -> Projects \X Screen!Changes]
        /\ \A q \in Projects : name'[q] = IF q = project THEN draft ELSE name[q]
    BY <1>4, <1>6, <2>1 DEF NameTypes
  <2>3. NameTypes' /\ Screen!NamesItsProject'
    BY <1>2, <1>4, <1>6, <2>1, <2>2 DEF NameTypes, Screen!NamesItsProject
  <2> QED
    BY <1>3, <1>6, <2>3 DEF NameSound, ScreenSound
<1>7. CASE draft' = Screen!NoDraft /\ name' = name
  BY <1>1, <1>2, <1>3, <1>4, <1>7, NameStands DEF ScreenSound
<1> QED
  BY <1>2, <1>5, <1>6, <1>7

LEMMA ScreenStep ==
    ASSUME ScreenSound, Screen!Next
    PROVE  ScreenSound'
<1>1. CASE \E kind \in {"add", "rename", "remove"}, b \in Brains \cup {NoBrain} : Screen!OpenDialog(kind, b)
  BY <1>1, OpenDialogKeeps
<1>2. CASE \E b \in Brains, ok \in BOOLEAN : Screen!Submit(b, ok)
  BY <1>2, SubmitKeeps
<1>3. CASE \E b \in Brains : Screen!OpenEditor(b)
  BY <1>3, OpenEditorKeeps
<1>4. CASE Screen!Cancel \/ \E x \in submitted : Screen!Ends(x) \/ Screen!Fails(x)
  BY <1>4, CancelKeeps, EndsKeeps, FailsKeeps
<1>5. CASE \E x \in loads : Screen!Loaded(x)
  BY <1>5, LoadedKeeps
<1>6. CASE Screen!SubmitEdit \/ Screen!CloseEditor
  BY <1>6, EditEndsKeeps
<1>7. CASE Screen!OpenPicker \/ Screen!ClosePicker \/ \E p \in Projects : Screen!SwitchTo(p)
  BY <1>7, PickerKeeps
<1>8. CASE (\E p \in Projects : Screen!Switched(p)) \/ Screen!StartRename \/ Screen!CommitRename \/ Screen!CancelRename
  BY <1>8, SwitchedKeeps, RenameKeeps
<1> QED
  BY <1>1, <1>2, <1>3, <1>4, <1>5, <1>6, <1>7, <1>8 DEF Screen!Next

-----------------------------------------------------------------------------
(* The libraries.  Every map holds the platform, and a handler's own map    *)
(* says of its own library what it will tell the user.                      *)
Rooted(map) == \A k \in Platform : map[k] # 0
OwnSound(w) ==
    /\ w.step \in {"resolve", "confirm", "commit"} => Rooted(w.map)
    /\ w.step = "resolve" => w.verb = "installed" /\ w.library \in Catalog
    /\ w.step = "confirm" => w.verb = "removed" /\ w.library \in Catalog
    /\ w.step = "commit" => \/ w.verb = "installed" /\ w.library \in Catalog /\ w.map[w.library] # 0
                            \/ w.verb = "removed" /\ w.library \in Catalog /\ w.map[w.library] = 0
                            \/ w.verb = "refreshed" /\ w.library = NoLibrary

(* What a handler that was not overtaken will put in place, of the map that *)
(* is still the project's: one library more, one less that may go, or the   *)
(* same ones at other versions.                                             *)
Others(w, ext) == \A k \in Catalog : k # w.library => w.map[k] = ext[k]
CommitSound(w, ext) ==
    \/ w.verb = "installed" /\ Others(w, ext)
    \/ w.verb = "removed" /\ Others(w, ext) /\ Manifest!Removable(ext, w.library)
    \/ w.verb = "refreshed" /\ \A k \in Catalog : w.map[k] = 0 <=> ext[k] = 0
Fresh(w, ext) == ~w.overtaken =>
    /\ w.step \in {"resolve", "confirm"} => w.map = ext
    /\ w.step = "commit" => CommitSound(w, ext)
HandlerSound(w, ext) == OwnSound(w) /\ Fresh(w, ext)

ManifestTypes ==
    /\ extensions \in Manifest!Maps /\ inUse \subseteq Catalog /\ latest \in [Catalog -> 1..2]
    /\ handler \in [Slots -> Manifest!Waiting] /\ updates \subseteq Catalog
    /\ pendingUninstall \in Slots \cup {NoSlot}
    /\ \A s \in Slots : handler[s].step = "confirm" <=> pendingUninstall = s
    /\ told \in [Catalog -> Manifest!Verbs] /\ acts \in 0..MaxActs /\ switches \in 0..MaxSwitches
ManifestSound == ManifestTypes /\ Rooted(extensions) /\ \A s \in Slots : HandlerSound(handler[s], extensions)

(* What a step may do to what was told, to the libraries others depend on,  *)
(* and to the dialog.                                                       *)
ToldStep == \A l \in Catalog : Manifest!Told(l) \/ told'[l] # told[l] =>
               Manifest!Told(l)' \/ \E s \in Slots : Manifest!PutsBack(s) /\ handler[s].library # l
DependedStep == switches' = switches => \A l \in Catalog :
    extensions[l] # 0 /\ extensions'[l] = 0
      => \/ \A k \in Manifest!Installed(extensions') : l \notin DependsOn[k]
         \/ \E s \in Slots : Manifest!PutsBack(s)
AskedStep == \A s \in Slots :
    handler[s].step # "commit" /\ handler'[s].step = "commit" /\ handler'[s].verb = "removed"
      => handler'[s].asked \/ handler'[s].library \notin inUse
StepSound == ToldStep /\ DependedStep /\ AskedStep
AskedFor(w) == w.step = "commit" /\ w.verb = "removed" => w.asked \/ w.library \notin inUse

LEMMA IdleWaits ==
    /\ Manifest!Idle \in Manifest!Waiting /\ Manifest!Idle.step = "idle"
    /\ \A ext : HandlerSound(Manifest!Idle, ext)
<1>1. Manifest!Nothing \in Manifest!Maps
  BY DEF Manifest!Nothing, Manifest!Maps, Manifest!Versions, Manifest!Absent
<1>2. Manifest!Idle \in Manifest!Waiting /\ Manifest!Idle.step = "idle"
  BY <1>1 DEF Manifest!Idle, Manifest!Waiting, Manifest!Steps, Manifest!Verbs
<1> QED
  BY <1>2 DEF HandlerSound, OwnSound, Fresh

LEMMA NewVersion ==
    ASSUME ManifestTypes, NEW map \in Manifest!Maps, NEW l \in Catalog
    PROVE  /\ Manifest!MapWith(map, l) \in Manifest!Maps /\ Manifest!MapWith(map, l)[l] # 0
           /\ \A k \in Catalog : k # l => Manifest!MapWith(map, l)[k] = map[k]
           /\ Manifest!MapWithout(map, l) \in Manifest!Maps /\ Manifest!MapWithout(map, l)[l] = 0
           /\ \A k \in Catalog : k # l => Manifest!MapWithout(map, l)[k] = map[k]
<1>1. latest[l] \in 0..2 /\ latest[l] # 0
  BY DEF ManifestTypes
<1> QED
  BY <1>1 DEF Manifest!MapWith, Manifest!MapWithout, Manifest!Maps, Manifest!Versions, Manifest!Absent

(* Without another map in place, nothing that was told becomes untrue.      *)
LEMMA NothingTold ==
    ASSUME extensions' = extensions, told' = told
    PROVE  ToldStep /\ DependedStep
  BY DEF ToldStep, DependedStep, Manifest!Told

(* One handler takes another state, and the dialog opens or closes with it. *)
LEMMA HandlerMoves ==
    ASSUME Manifest!LibrariesParameters, ManifestSound, NEW s \in Slots, NEW w \in Manifest!Waiting,
           HandlerSound(w, extensions), AskedFor(w), handler' = [handler EXCEPT ![s] = w],
           \/ w.step = "confirm" /\ pendingUninstall = NoSlot /\ pendingUninstall' = s
           \/ w.step # "confirm" /\ handler[s].step # "confirm" /\ pendingUninstall' = pendingUninstall
           \/ w.step # "confirm" /\ pendingUninstall = s /\ pendingUninstall' = NoSlot,
           updates' \subseteq Catalog, acts' \in 0..MaxActs,
           extensions' = extensions, told' = told, inUse' = inUse, latest' = latest, switches' = switches
    PROVE  ManifestSound' /\ StepSound
<1>1. ManifestTypes /\ Rooted(extensions) /\ \A r \in Slots : HandlerSound(handler[r], extensions)
  BY DEF ManifestSound
<1>2. \A r \in Slots : handler'[r] = IF r = s THEN w ELSE handler[r]
  BY <1>1 DEF ManifestTypes
<1>3. NoSlot \notin Slots /\ \A r \in Slots : handler[r].step = "confirm" <=> pendingUninstall = r
  BY <1>1 DEF Manifest!LibrariesParameters, ManifestTypes
<1>4. \A r \in Slots : handler'[r].step = "confirm" <=> pendingUninstall' = r
  BY <1>2, <1>3
<1>5. pendingUninstall' \in Slots \cup {NoSlot}
  BY <1>1 DEF ManifestTypes
<1>6. handler' \in [Slots -> Manifest!Waiting]
  BY <1>1 DEF ManifestTypes
<1>7. ManifestTypes'
  BY <1>1, <1>4, <1>5, <1>6 DEF ManifestTypes
<1>8. \A r \in Slots : HandlerSound(handler'[r], extensions')
  BY <1>1, <1>2
<1>9. AskedStep
  BY <1>2 DEF AskedStep, AskedFor
<1>10. ToldStep /\ DependedStep
  BY NothingTold
<1>11. ManifestSound'
  BY <1>1, <1>7, <1>8 DEF ManifestSound, Rooted
<1> QED
  BY <1>9, <1>10, <1>11 DEF StepSound

LEMMA CallMoves ==
    ASSUME Manifest!LibrariesParameters, ManifestSound, NEW s \in Slots, NEW w \in Manifest!Waiting,
           HandlerSound(w, extensions), AskedFor(w), Manifest!Call(s, w),
           pendingUninstall' = IF w.step = "confirm" THEN s ELSE NoSlot,
           updates' \subseteq Catalog, extensions' = extensions, told' = told, inUse' = inUse, latest' = latest,
           switches' = switches
    PROVE  ManifestSound' /\ StepSound
<1>1. /\ handler' = [handler EXCEPT ![s] = w] /\ acts < MaxActs /\ acts' = acts + 1
      /\ handler[s].step = "idle" /\ pendingUninstall = NoSlot
  BY DEF Manifest!Call
<1>2. acts \in 0..MaxActs /\ MaxActs \in Nat
  BY DEF ManifestSound, ManifestTypes, Manifest!LibrariesParameters
<1>3. acts' \in 0..MaxActs
  BY <1>1, <1>2
<1>4. \/ w.step = "confirm" /\ pendingUninstall = NoSlot /\ pendingUninstall' = s
      \/ w.step # "confirm" /\ handler[s].step # "confirm" /\ pendingUninstall' = pendingUninstall
  BY <1>1
<1> QED
  BY <1>1, <1>3, <1>4, HandlerMoves

(* A handler that waits goes on, and opens no dialog.                       *)
LEMMA HandlerGoesOn ==
    ASSUME Manifest!LibrariesParameters, ManifestSound, NEW s \in Slots, NEW w \in Manifest!Waiting,
           handler[s].step # "confirm", w.step # "confirm",
           HandlerSound(w, extensions), AskedFor(w), handler' = [handler EXCEPT ![s] = w],
           pendingUninstall' = pendingUninstall, acts' = acts, updates' \subseteq Catalog,
           extensions' = extensions, told' = told, inUse' = inUse, latest' = latest, switches' = switches
    PROVE  ManifestSound' /\ StepSound
<1>1. acts' \in 0..MaxActs
  BY DEF ManifestSound, ManifestTypes
<1> QED
  BY <1>1, HandlerMoves

(* A handler that has what it needs, for the host's transaction.            *)
LEMMA CommittingFacts ==
    ASSUME NEW w \in Manifest!Waiting, NEW map \in Manifest!Maps
    PROVE  LET c == Manifest!Committing(w, map)
           IN  /\ c \in Manifest!Waiting /\ c.step = "commit" /\ c.map = map /\ c.library = w.library
               /\ c.verb = w.verb /\ c.asked = w.asked /\ c.overtaken = w.overtaken
  BY DEF Manifest!Committing, Manifest!Waiting, Manifest!Steps

LEMMA CommitsInstall ==
    ASSUME Manifest!LibrariesParameters, ManifestTypes, NEW w \in Manifest!Waiting,
           w.library \in Catalog, w.verb = "installed", Rooted(w.map), ~w.overtaken => w.map = extensions
    PROVE  LET c == Manifest!Committing(w, Manifest!MapWith(w.map, w.library))
           IN  c \in Manifest!Waiting /\ c.step = "commit" /\ HandlerSound(c, extensions) /\ AskedFor(c)
<1> DEFINE map == Manifest!MapWith(w.map, w.library)
           c == Manifest!Committing(w, map)
<1>1. w.map \in Manifest!Maps /\ Platform \subseteq Catalog
  BY DEF Manifest!Waiting, Manifest!LibrariesParameters
<1>2. map \in Manifest!Maps /\ map[w.library] # 0 /\ \A k \in Catalog : k # w.library => map[k] = w.map[k]
  BY <1>1, NewVersion
<1> HIDE DEF map
<1>3. /\ c \in Manifest!Waiting /\ c.step = "commit" /\ c.map = map
      /\ c.library = w.library /\ c.verb = "installed" /\ c.overtaken = w.overtaken
  BY <1>2, CommittingFacts
<1> HIDE DEF c
<1>4. Rooted(map)
  BY <1>1, <1>2 DEF Rooted
<1>5. OwnSound(c)
  BY <1>2, <1>3, <1>4 DEF OwnSound
<1>6. Fresh(c, extensions)
  BY <1>2, <1>3 DEF Fresh, CommitSound, Others
<1>7. AskedFor(c)
  BY <1>3 DEF AskedFor
<1> QED
  BY <1>3, <1>5, <1>6, <1>7 DEF HandlerSound, c, map

LEMMA CommitsRemoval ==
    ASSUME Manifest!LibrariesParameters, ManifestTypes, NEW w \in Manifest!Waiting,
           w.library \in Catalog, w.verb = "removed", Rooted(w.map), ~w.overtaken => w.map = extensions,
           w.asked \/ w.library \notin inUse
    PROVE  LET c == Manifest!Removing(w)
           IN  c \in Manifest!Waiting /\ c.step # "confirm" /\ HandlerSound(c, extensions) /\ AskedFor(c)
<1> DEFINE map == Manifest!MapWithout(w.map, w.library)
           c == Manifest!Removing(w)
<1>1. w.map \in Manifest!Maps /\ Platform \subseteq Catalog
  BY DEF Manifest!Waiting, Manifest!LibrariesParameters
<1>2. map \in Manifest!Maps /\ map[w.library] = 0 /\ \A k \in Catalog : k # w.library => map[k] = w.map[k]
  BY <1>1, NewVersion
<1>3. c = IF Manifest!Removable(w.map, w.library) THEN Manifest!Committing(w, map) ELSE Manifest!Idle
  BY DEF Manifest!Removing
<1> HIDE DEF map, c
<1>4. CASE Manifest!Removable(w.map, w.library)
  <2>1. /\ c \in Manifest!Waiting /\ c.step = "commit" /\ c.map = map /\ c.overtaken = w.overtaken
        /\ c.library = w.library /\ c.verb = "removed" /\ c.asked = w.asked
    BY <1>2, <1>3, <1>4, CommittingFacts
  <2>2. Rooted(map)
    <3>1. w.library \notin Platform
      BY <1>4 DEF Manifest!Removable
    <3> QED
      BY <1>1, <1>2, <3>1 DEF Rooted
  <2>3. OwnSound(c)
    BY <1>2, <2>1, <2>2 DEF OwnSound
  <2>4. Fresh(c, extensions)
    BY <1>2, <1>4, <2>1 DEF Fresh, CommitSound, Others
  <2>5. AskedFor(c)
    BY <2>1 DEF AskedFor
  <2> QED
    BY <2>1, <2>3, <2>4, <2>5 DEF HandlerSound, c
<1>5. CASE ~Manifest!Removable(w.map, w.library)
  BY <1>3, <1>5, IdleWaits DEF c, AskedFor
<1> QED
  BY <1>4, <1>5

LEMMA InstallKeeps ==
    ASSUME Manifest!LibrariesParameters, ManifestSound, NEW s \in Slots, NEW l \in Catalog,
           Manifest!Install(s, l)
    PROVE  ManifestSound' /\ StepSound
<1> DEFINE w == [Manifest!Idle EXCEPT !.verb = "installed", !.library = l, !.map = extensions]
           c == Manifest!Committing(w, Manifest!MapWith(w.map, l))
           r == [w EXCEPT !.step = "resolve"]
<1>1. /\ ManifestTypes /\ extensions \in Manifest!Maps /\ Rooted(extensions)
      /\ pendingUninstall' = NoSlot /\ updates' \subseteq Catalog
  BY DEF ManifestSound, ManifestTypes, Manifest!Install, Manifest!Call
<1>2. /\ Manifest!Call(s, IF l \in Embedded THEN c ELSE r)
      /\ extensions' = extensions /\ inUse' = inUse /\ latest' = latest /\ told' = told /\ switches' = switches
  BY DEF Manifest!Install, Manifest!TakesMap
<1>3. w \in Manifest!Waiting /\ w.verb = "installed" /\ w.library = l /\ w.map = extensions
  BY <1>1, IdleWaits DEF Manifest!Waiting, Manifest!Verbs
<1>4. r \in Manifest!Waiting /\ r.step = "resolve" /\ r.verb = "installed" /\ r.library = l /\ r.map = extensions
  BY <1>3 DEF Manifest!Waiting, Manifest!Steps
<1> HIDE DEF w, r
<1>5. c \in Manifest!Waiting /\ c.step = "commit" /\ HandlerSound(c, extensions) /\ AskedFor(c)
  BY <1>1, <1>3, CommitsInstall
<1>6. HandlerSound(r, extensions) /\ AskedFor(r)
  BY <1>1, <1>4 DEF HandlerSound, OwnSound, Fresh, AskedFor
<1> HIDE DEF c
<1>7. CASE l \in Embedded
  <2>1. Manifest!Call(s, c) /\ pendingUninstall' = IF c.step = "confirm" THEN s ELSE NoSlot
    BY <1>1, <1>2, <1>5, <1>7
  <2> QED
    BY <1>1, <1>2, <1>5, <2>1, CallMoves
<1>8. CASE l \notin Embedded
  <2>1. Manifest!Call(s, r) /\ pendingUninstall' = IF r.step = "confirm" THEN s ELSE NoSlot
    BY <1>1, <1>2, <1>4, <1>8
  <2> QED
    BY <1>1, <1>2, <1>4, <1>6, <2>1, CallMoves
<1> QED
  BY <1>7, <1>8

LEMMA ReferenceResolvedKeeps ==
    ASSUME Manifest!LibrariesParameters, ManifestSound, NEW s \in Slots, NEW ok \in BOOLEAN,
           Manifest!ReferenceResolved(s, ok)
    PROVE  ManifestSound' /\ StepSound
<1> DEFINE w == handler[s]
           c == IF ok THEN Manifest!Committing(w, Manifest!MapWith(w.map, w.library)) ELSE Manifest!Idle
<1>1. ManifestTypes /\ w \in Manifest!Waiting /\ HandlerSound(w, extensions) /\ updates' \subseteq Catalog
  BY DEF ManifestSound, ManifestTypes, Manifest!ReferenceResolved
<1>2. handler \in [Slots -> Manifest!Waiting]
  BY <1>1 DEF ManifestTypes
<1>3. /\ w.step = "resolve" /\ handler' = [handler EXCEPT ![s] = c]
      /\ extensions' = extensions /\ inUse' = inUse /\ latest' = latest /\ told' = told
      /\ pendingUninstall' = pendingUninstall /\ acts' = acts /\ switches' = switches
  BY <1>2 DEF Manifest!ReferenceResolved
<1>4. handler[s].step # "confirm"
  BY <1>3
<1> HIDE DEF w
<1>5. w.verb = "installed" /\ w.library \in Catalog /\ Rooted(w.map) /\ (~w.overtaken => w.map = extensions)
  BY <1>1, <1>3 DEF HandlerSound, OwnSound, Fresh
<1>6. c \in Manifest!Waiting /\ c.step # "confirm" /\ HandlerSound(c, extensions) /\ AskedFor(c)
  <2>1. CASE ok
    BY <1>1, <1>5, <2>1, CommitsInstall
  <2>2. CASE ~ok
    BY <2>2, IdleWaits DEF AskedFor
  <2> QED
    BY <2>1, <2>2
<1> HIDE DEF c
<1> QED
  BY <1>1, <1>3, <1>4, <1>6, HandlerGoesOn

LEMMA UninstallKeeps ==
    ASSUME Manifest!LibrariesParameters, ManifestSound, NEW s \in Slots, NEW l \in Catalog,
           Manifest!Uninstall(s, l)
    PROVE  ManifestSound' /\ StepSound
<1> DEFINE w == [Manifest!Idle EXCEPT !.verb = "removed", !.library = l, !.map = extensions]
           c == Manifest!Removing(w)
           r == [w EXCEPT !.step = "confirm"]
<1>1. ManifestTypes /\ extensions \in Manifest!Maps /\ Rooted(extensions) /\ updates' \subseteq Catalog
  BY DEF ManifestSound, ManifestTypes, Manifest!Uninstall
<1>2. /\ Manifest!Call(s, IF l \in inUse THEN r ELSE c)
      /\ pendingUninstall' = IF l \in inUse THEN s ELSE NoSlot
      /\ extensions' = extensions /\ inUse' = inUse /\ latest' = latest /\ told' = told /\ switches' = switches
  BY DEF Manifest!Uninstall, Manifest!TakesMap, Manifest!NeedsConfirmation
<1>3. w \in Manifest!Waiting /\ w.verb = "removed" /\ w.library = l /\ w.map = extensions
  BY <1>1, IdleWaits DEF Manifest!Waiting, Manifest!Verbs
<1>4. r \in Manifest!Waiting /\ r.step = "confirm" /\ r.verb = "removed" /\ r.library = l /\ r.map = extensions
  BY <1>3 DEF Manifest!Waiting, Manifest!Steps
<1> HIDE DEF w, r
<1>5. HandlerSound(r, extensions) /\ AskedFor(r)
  BY <1>1, <1>4 DEF HandlerSound, OwnSound, Fresh, AskedFor
<1>6. CASE l \notin inUse
  <2>1. c \in Manifest!Waiting /\ c.step # "confirm" /\ HandlerSound(c, extensions) /\ AskedFor(c)
    BY <1>1, <1>3, <1>6, CommitsRemoval
  <2> HIDE DEF c
  <2>2. Manifest!Call(s, c) /\ pendingUninstall' = IF c.step = "confirm" THEN s ELSE NoSlot
    BY <1>2, <1>6, <2>1
  <2> QED
    BY <1>1, <1>2, <2>1, <2>2, CallMoves
<1>7. CASE l \in inUse
  <2> HIDE DEF c
  <2>1. Manifest!Call(s, r) /\ pendingUninstall' = IF r.step = "confirm" THEN s ELSE NoSlot
    BY <1>2, <1>4, <1>7
  <2> QED
    BY <1>1, <1>2, <1>4, <1>5, <2>1, CallMoves
<1> QED
  BY <1>6, <1>7

LEMMA AnswerKeeps ==
    ASSUME Manifest!LibrariesParameters, ManifestSound, NEW confirmed \in BOOLEAN, Manifest!Answer(confirmed)
    PROVE  ManifestSound' /\ StepSound
<1> DEFINE s == pendingUninstall
           w == handler[s]
           v == [w EXCEPT !.asked = TRUE]
           c == IF confirmed THEN Manifest!Removing(v) ELSE Manifest!Idle
<1>1. handler \in [Slots -> Manifest!Waiting] /\ ManifestTypes
  BY DEF ManifestSound, ManifestTypes
<1>2. /\ s \in Slots /\ w.step = "confirm" /\ handler' = [handler EXCEPT ![s] = c]
      /\ extensions' = extensions /\ inUse' = inUse /\ latest' = latest /\ updates' = updates /\ told' = told
      /\ pendingUninstall' = NoSlot /\ acts' = acts /\ switches' = switches /\ pendingUninstall = s
  BY <1>1 DEF Manifest!Answer, ManifestTypes
<1>3. w \in Manifest!Waiting /\ HandlerSound(w, extensions)
  BY <1>2 DEF ManifestSound, ManifestTypes
<1> HIDE DEF s, w
<1>4. w.verb = "removed" /\ w.library \in Catalog /\ Rooted(w.map) /\ (~w.overtaken => w.map = extensions)
  BY <1>2, <1>3 DEF HandlerSound, OwnSound, Fresh
<1>5. /\ v \in Manifest!Waiting /\ v.asked = TRUE
      /\ v.verb = "removed" /\ v.library = w.library /\ v.map = w.map /\ v.overtaken = w.overtaken
  BY <1>3, <1>4 DEF Manifest!Waiting
<1> HIDE DEF v
<1>6. c \in Manifest!Waiting /\ c.step # "confirm" /\ HandlerSound(c, extensions) /\ AskedFor(c)
  <2>1. CASE confirmed
    BY <1>1, <1>4, <1>5, <2>1, CommitsRemoval
  <2>2. CASE ~confirmed
    BY <2>2, IdleWaits DEF AskedFor
  <2> QED
    BY <2>1, <2>2
<1> HIDE DEF c
<1>7. updates' \subseteq Catalog /\ acts' \in 0..MaxActs
  BY <1>1, <1>2 DEF ManifestTypes
<1> QED
  BY <1>2, <1>6, <1>7, HandlerMoves

(* Handlers that install nothing new: a retry and the updates.              *)
LEMMA RefreshKeeps ==
    ASSUME Manifest!LibrariesParameters, ManifestSound, NEW s \in Slots,
           Manifest!Retry(s) \/ Manifest!ApplyUpdates(s)
    PROVE  ManifestSound' /\ StepSound
<1>1. ManifestTypes /\ extensions \in Manifest!Maps /\ latest \in [Catalog -> 1..2] /\ Rooted(extensions)
  BY DEF ManifestSound, ManifestTypes
<1> DEFINE w == [Manifest!Idle EXCEPT !.verb = "refreshed"]
<1>2. w \in Manifest!Waiting /\ w.verb = "refreshed" /\ w.library = NoLibrary
  BY IdleWaits DEF Manifest!Idle, Manifest!Waiting, Manifest!Verbs
<1>3. PICK map \in Manifest!Maps :
         /\ Manifest!Call(s, Manifest!Committing(w, map))
         /\ \A k \in Catalog : map[k] = 0 <=> extensions[k] = 0
         /\ updates' \subseteq Catalog
  <2>1. CASE Manifest!Retry(s)
    BY <1>1, <2>1 DEF Manifest!Retry, ManifestTypes
  <2>2. CASE Manifest!ApplyUpdates(s)
    <3> DEFINE due == {l \in updates : extensions[l] # 0}
               m == [l \in Catalog |-> IF l \in due THEN latest[l] ELSE extensions[l]]
    <3>1. Manifest!Call(s, Manifest!Committing(w, m)) /\ updates' = {}
      BY <2>2 DEF Manifest!ApplyUpdates, Manifest!Absent
    <3>2. \A l \in Catalog : latest[l] \in 0..2 /\ latest[l] # 0
      BY <1>1
    <3>3. m \in Manifest!Maps /\ \A k \in Catalog : m[k] = 0 <=> extensions[k] = 0
      BY <1>1, <3>2 DEF Manifest!Maps, Manifest!Versions
    <3> QED
      BY <3>1, <3>3
  <2> QED
    BY <2>1, <2>2
<1> DEFINE c == Manifest!Committing(w, map)
<1> HIDE DEF w
<1>4. c \in Manifest!Waiting /\ c.step = "commit" /\ c.verb = "refreshed" /\ c.library = NoLibrary /\ c.map = map
  BY <1>2, CommittingFacts
<1>5. Manifest!Call(s, c)
  BY <1>3
<1> HIDE DEF c
<1>6. Rooted(map)
  BY <1>1, <1>3 DEF Rooted, Manifest!LibrariesParameters
<1>7. HandlerSound(c, extensions) /\ AskedFor(c)
  BY <1>3, <1>4, <1>6 DEF HandlerSound, OwnSound, Fresh, CommitSound, AskedFor
<1>8. /\ extensions' = extensions /\ inUse' = inUse /\ latest' = latest /\ told' = told /\ switches' = switches
      /\ pendingUninstall' = IF c.step = "confirm" THEN s ELSE NoSlot
  BY <1>4 DEF Manifest!Retry, Manifest!ApplyUpdates, Manifest!Call
<1> QED
  BY <1>3, <1>4, <1>5, <1>7, <1>8, CallMoves

LEMMA CheckUpdatesKeeps ==
    ASSUME Manifest!LibrariesParameters, ManifestSound, NEW s \in Slots, Manifest!CheckUpdates(s)
    PROVE  ManifestSound' /\ StepSound
<1> DEFINE w == [Manifest!Idle EXCEPT !.step = "check", !.left = Manifest!Installed(extensions) \ Platform]
<1>1. /\ Manifest!Call(s, w)
      /\ extensions' = extensions /\ inUse' = inUse /\ latest' = latest /\ told' = told /\ updates' = updates
      /\ pendingUninstall' = NoSlot /\ switches' = switches
  BY DEF Manifest!CheckUpdates, Manifest!Call
<1>2. Manifest!Installed(extensions) \ Platform \subseteq Catalog
  BY DEF Manifest!Installed
<1>3. w \in Manifest!Waiting /\ w.step = "check"
  BY <1>2, IdleWaits DEF Manifest!Waiting, Manifest!Steps
<1> HIDE DEF w
<1>4. HandlerSound(w, extensions) /\ AskedFor(w) /\ updates' \subseteq Catalog
      /\ pendingUninstall' = IF w.step = "confirm" THEN s ELSE NoSlot
  BY <1>1, <1>3 DEF HandlerSound, OwnSound, Fresh, AskedFor, ManifestSound, ManifestTypes
<1> QED
  BY <1>1, <1>3, <1>4, CallMoves

LEMMA CheckedKeeps ==
    ASSUME Manifest!LibrariesParameters, ManifestSound, NEW s \in Slots, NEW l \in Catalog, NEW ok \in BOOLEAN,
           Manifest!Checked(s, l, ok)
    PROVE  ManifestSound' /\ StepSound
<1> DEFINE w == handler[s]
<1>1. ManifestTypes /\ w \in Manifest!Waiting
  BY DEF ManifestSound, ManifestTypes
<1>2. /\ w.step = "check" /\ l \in w.left
      /\ extensions' = extensions /\ inUse' = inUse /\ latest' = latest /\ told' = told
      /\ pendingUninstall' = pendingUninstall /\ acts' = acts /\ switches' = switches
  BY DEF Manifest!Checked
<1> DEFINE newer == ok /\ extensions[l] # 0 /\ latest[l] > extensions[l]
           found == IF newer THEN w.found \cup {l} ELSE w.found
           v == [w EXCEPT !.left = w.left \ {l}, !.found = found]
           c == IF w.left = {l} THEN Manifest!Idle ELSE v
<1>3. /\ handler' = [handler EXCEPT ![s] = c]
      /\ updates' = IF w.left = {l} /\ found # {} THEN found ELSE updates
  <2>1. updates' = IF w.left = {l} /\ found # {} THEN found ELSE updates
    BY Zenon DEF Manifest!Checked, Manifest!Absent
  <2>2. handler' = [handler EXCEPT ![s] = c]
    BY Zenon DEF Manifest!Checked, Manifest!Absent
  <2> QED
    BY <2>1, <2>2
<1>4. handler[s].step # "confirm"
  BY <1>2
<1> HIDE DEF w, newer
<1>5. w.left \ {l} \in SUBSET Catalog /\ found \in SUBSET Catalog
  BY <1>1 DEF Manifest!Waiting
<1> HIDE DEF found
<1>6. v \in Manifest!Waiting /\ v.step = "check"
  BY <1>1, <1>2, <1>5 DEF Manifest!Waiting
<1> HIDE DEF v
<1>7. c \in Manifest!Waiting /\ c.step # "confirm" /\ HandlerSound(c, extensions) /\ AskedFor(c)
  <2>1. HandlerSound(v, extensions) /\ AskedFor(v)
    BY <1>6 DEF HandlerSound, OwnSound, Fresh, AskedFor
  <2> QED
    BY <1>6, <2>1, IdleWaits DEF AskedFor
<1> HIDE DEF c
<1>8. updates' \subseteq Catalog
  BY <1>1, <1>3, <1>5 DEF ManifestTypes
<1> QED
  BY <1>2, <1>3, <1>4, <1>7, <1>8, HandlerGoesOn

(* A handler that is overtaken keeps what is its own.                       *)
LEMMA OvertakenFacts ==
    ASSUME NEW w \in Manifest!Waiting
    PROVE  LET o == Manifest!Overtaken(w)
           IN  /\ o \in Manifest!Waiting /\ o.step = w.step /\ o.verb = w.verb
               /\ \A ext, new : HandlerSound(w, ext) => HandlerSound(o, new)
<1> DEFINE o == Manifest!Overtaken(w)
<1>1. CASE w.step \in {"resolve", "confirm", "commit"}
  <2>1. /\ o \in Manifest!Waiting /\ o.step = w.step /\ o.verb = w.verb /\ o.library = w.library
        /\ o.map = w.map /\ o.overtaken = TRUE
    BY <1>1 DEF Manifest!Overtaken, Manifest!Waiting
  <2> HIDE DEF o
  <2>2. OwnSound(w) => OwnSound(o)
    BY <2>1 DEF OwnSound
  <2>3. \A new : Fresh(o, new)
    BY <2>1 DEF Fresh
  <2> QED
    BY <2>1, <2>2, <2>3 DEF HandlerSound, o
<1>2. CASE w.step \notin {"resolve", "confirm", "commit"}
  <2>1. o = w
    BY <1>2 DEF Manifest!Overtaken
  <2> HIDE DEF o
  <2>2. \A new : Fresh(w, new)
    BY <1>2 DEF Fresh
  <2> QED
    BY <2>1, <2>2 DEF HandlerSound, o
<1> QED
  BY <1>1, <1>2

(* What a map that is put in place does to what was told and depended on.   *)
LEMMA InPlace ==
    ASSUME Manifest!LibrariesParameters, ManifestSound, NEW s \in Slots,
           handler[s].step = "commit", handler'[s].step = "idle", extensions' = handler[s].map,
           told' = IF handler[s].library # NoLibrary
                   THEN [told EXCEPT ![handler[s].library] = handler[s].verb] ELSE told
    PROVE  ToldStep /\ DependedStep
<1> DEFINE w == handler[s]
<1>1. /\ OwnSound(w) /\ Fresh(w, extensions) /\ told \in [Catalog -> Manifest!Verbs]
      /\ NoLibrary \notin Catalog /\ w.step = "commit" /\ extensions' = w.map
  BY DEF ManifestSound, ManifestTypes, HandlerSound, Manifest!LibrariesParameters
<1>2. w.overtaken => Manifest!PutsBack(s)
  BY DEF Manifest!PutsBack
<1>3. \A k \in Catalog : told'[k] = IF k = w.library THEN w.verb ELSE told[k]
  <2>1. CASE w.library = NoLibrary
    BY <1>1, <2>1
  <2>2. CASE w.library # NoLibrary
    BY <1>1, <2>2
  <2> QED
    BY <2>1, <2>2
<1>4. w = handler[s]
  OBVIOUS
<1> HIDE DEF w
<1>5. ASSUME NEW l \in Catalog, Manifest!Told(l) \/ told'[l] # told[l]
      PROVE  Manifest!Told(l)' \/ \E r \in Slots : Manifest!PutsBack(r) /\ handler[r].library # l
  <2>1. CASE l = w.library
    BY <1>1, <1>3, <2>1 DEF OwnSound, Manifest!Told, Manifest!Absent
  <2>2. CASE l # w.library /\ w.overtaken
    BY <1>2, <1>4, <2>2
  <2>3. CASE l # w.library /\ ~w.overtaken
    <3>1. told'[l] = told[l] /\ Manifest!Told(l) /\ CommitSound(w, extensions)
      BY <1>1, <1>3, <1>5, <2>3 DEF Fresh
    <3>2. extensions'[l] = 0 <=> extensions[l] = 0
      BY <1>1, <2>3, <3>1 DEF CommitSound, Others
    <3> QED
      BY <3>1, <3>2 DEF Manifest!Told, Manifest!Absent
  <2> QED
    BY <2>1, <2>2, <2>3
<1>6. ASSUME NEW l \in Catalog, extensions[l] # 0, extensions'[l] = 0
      PROVE  \/ \A k \in Manifest!Installed(extensions') : l \notin DependsOn[k]
             \/ \E r \in Slots : Manifest!PutsBack(r)
  <2>1. CASE w.overtaken
    BY <1>2, <2>1
  <2>2. CASE ~w.overtaken
    <3>1. CommitSound(w, extensions)
      BY <1>1, <2>2 DEF Fresh
    <3>2. w.verb = "removed" /\ l = w.library /\ Others(w, extensions) /\ Manifest!Removable(extensions, l)
      BY <1>1, <1>6, <3>1 DEF OwnSound, CommitSound, Others
    <3>3. \A k \in Manifest!Installed(extensions') : k \in Manifest!Installed(extensions)
      BY <1>1, <1>6, <3>2 DEF Others, Manifest!Installed, Manifest!Absent
    <3> QED
      BY <3>2, <3>3 DEF Manifest!Removable
  <2> QED
    BY <2>1, <2>2
<1> QED
  BY <1>5, <1>6 DEF ToldStep, DependedStep

(* A transaction ends, with its map in place or not.                        *)
LEMMA CommitKeeps ==
    ASSUME Manifest!LibrariesParameters, ManifestSound, NEW s \in Slots, NEW ok \in BOOLEAN, Manifest!Commit(s, ok)
    PROVE  ManifestSound' /\ StepSound
<1> DEFINE w == handler[s]
           After(r) == IF r = s THEN Manifest!Idle
                       ELSE IF extensions' # extensions THEN Manifest!Overtaken(handler[r]) ELSE handler[r]
<1>1. ManifestTypes /\ Rooted(extensions) /\ \A r \in Slots : HandlerSound(handler[r], extensions)
  BY DEF ManifestSound
<1>2. /\ w.step = "commit"
      /\ extensions' = (IF ok THEN w.map ELSE extensions)
      /\ told' = IF ok /\ w.library # NoLibrary THEN [told EXCEPT ![w.library] = w.verb] ELSE told
      /\ handler' = [r \in Slots |-> After(r)]
      /\ inUse' = inUse /\ latest' = latest /\ pendingUninstall' = pendingUninstall
      /\ updates' = updates /\ acts' = acts /\ switches' = switches
  BY DEF Manifest!Commit
<1>3. /\ w \in Manifest!Waiting /\ w.map \in Manifest!Maps /\ w.verb \in Manifest!Verbs
      /\ w.library \in Catalog \cup {NoLibrary} /\ OwnSound(w) /\ NoLibrary \notin Catalog
  BY <1>1 DEF ManifestTypes, HandlerSound, Manifest!Waiting, Manifest!LibrariesParameters
<1>4. ASSUME NEW r \in Slots
      PROVE  /\ handler'[r] \in Manifest!Waiting /\ HandlerSound(handler'[r], extensions')
             /\ IF r = s THEN handler'[r].step = "idle" ELSE handler'[r].step = handler[r].step
  <2>1. handler[r] \in Manifest!Waiting /\ HandlerSound(handler[r], extensions)
    BY <1>1 DEF ManifestTypes
  <2>2. CASE r = s
    BY <1>2, <2>2, IdleWaits
  <2>3. CASE r # s /\ extensions' # extensions
    <3>1. handler'[r] = Manifest!Overtaken(handler[r])
      BY <1>2, <2>3
    <3> QED
      BY <2>1, <2>3, <3>1, OvertakenFacts
  <2>4. CASE r # s /\ extensions' = extensions
    BY <1>2, <2>1, <2>4
  <2> QED
    BY <2>2, <2>3, <2>4
<1>5. ManifestTypes'
  <2>1. extensions' \in Manifest!Maps
    BY <1>1, <1>2, <1>3 DEF ManifestTypes
  <2>2. told' \in [Catalog -> Manifest!Verbs]
    <3>1. told \in [Catalog -> Manifest!Verbs]
      BY <1>1 DEF ManifestTypes
    <3> QED
      BY <1>2, <1>3, <3>1
  <2>3. handler' \in [Slots -> Manifest!Waiting]
    BY <1>2, <1>4
  <2>4. \A r \in Slots : handler'[r].step = "confirm" <=> pendingUninstall' = r
    BY <1>1, <1>2, <1>4 DEF ManifestTypes
  <2> QED
    BY <1>1, <1>2, <2>1, <2>2, <2>3, <2>4 DEF ManifestTypes
<1>6. Rooted(extensions')
  BY <1>1, <1>2, <1>3 DEF OwnSound
<1>7. ManifestSound'
  BY <1>4, <1>5, <1>6 DEF ManifestSound, Rooted
<1>8. AskedStep
  BY <1>4 DEF AskedStep
<1>9. ToldStep /\ DependedStep
  <2>1. CASE ok
    <3>1. extensions' = w.map /\ handler'[s].step = "idle"
          /\ told' = IF w.library # NoLibrary THEN [told EXCEPT ![w.library] = w.verb] ELSE told
      BY <1>2, <1>4, <2>1
    <3> QED
      BY <1>2, <3>1, InPlace
  <2>2. CASE ~ok
    BY <1>2, <2>2, NothingTold
  <2> QED
    BY <2>1, <2>2
<1> QED
  BY <1>7, <1>8, <1>9 DEF StepSound

(* Another project is opened, over whatever waits.                          *)
LEMMA SwitchProjectKeeps ==
    ASSUME Manifest!LibrariesParameters, ManifestSound, NEW map \in Manifests, Manifest!SwitchProject(map)
    PROVE  ManifestSound' /\ StepSound
<1>1. ManifestTypes /\ \A r \in Slots : HandlerSound(handler[r], extensions)
  BY DEF ManifestSound
<1>2. /\ switches < MaxSwitches /\ switches' = switches + 1 /\ extensions' = map
      /\ inUse' \in SUBSET (Manifest!Installed(map) \ Platform)
      /\ handler' = [s \in Slots |-> Manifest!Overtaken(handler[s])]
      /\ told' = [l \in Catalog |-> "none"]
      /\ latest' = latest /\ pendingUninstall' = pendingUninstall /\ updates' = updates /\ acts' = acts
  BY DEF Manifest!SwitchProject
<1>3. map \in Manifest!Maps /\ Platform \subseteq Manifest!Installed(map) /\ MaxSwitches \in Nat
  BY DEF Manifest!LibrariesParameters
<1>4. ASSUME NEW r \in Slots
      PROVE  /\ handler'[r] \in Manifest!Waiting /\ HandlerSound(handler'[r], extensions')
             /\ handler'[r].step = handler[r].step
  <2>1. handler[r] \in Manifest!Waiting /\ HandlerSound(handler[r], extensions)
    BY <1>1 DEF ManifestTypes
  <2>2. handler'[r] = Manifest!Overtaken(handler[r])
    BY <1>2
  <2> QED
    BY <2>1, <2>2, OvertakenFacts
<1>5. switches \in 0..MaxSwitches /\ switches' \in 0..MaxSwitches /\ switches' # switches
  BY <1>1, <1>2, <1>3 DEF ManifestTypes
<1>6. ManifestTypes'
  <2>1. inUse' \subseteq Catalog
    BY <1>2 DEF Manifest!Installed
  <2>2. told' \in [Catalog -> Manifest!Verbs]
    BY <1>2 DEF Manifest!Verbs
  <2>3. handler' \in [Slots -> Manifest!Waiting]
    BY <1>2, <1>4
  <2>4. \A r \in Slots : handler'[r].step = "confirm" <=> pendingUninstall' = r
    BY <1>1, <1>2, <1>4 DEF ManifestTypes
  <2> QED
    BY <1>1, <1>2, <1>3, <1>5, <2>1, <2>2, <2>3, <2>4 DEF ManifestTypes
<1>7. Rooted(extensions')
  BY <1>2, <1>3 DEF Rooted, Manifest!Installed, Manifest!Absent
<1>8. ManifestSound'
  BY <1>4, <1>6, <1>7 DEF ManifestSound, Rooted
<1>9. ToldStep
  <2>1. ASSUME NEW l \in Catalog PROVE Manifest!Told(l)'
    BY <1>2 DEF Manifest!Told
  <2> QED
    BY <2>1 DEF ToldStep
<1>10. DependedStep /\ AskedStep
  BY <1>4, <1>5 DEF DependedStep, AskedStep
<1> QED
  BY <1>8, <1>9, <1>10 DEF StepSound

(* A brain is saved, or a library published: no handler is told.            *)
LEMMA WorldKeeps ==
    ASSUME ManifestSound, NEW l \in Catalog, Manifest!SaveBrain(l) \/ Manifest!Publish(l)
    PROVE  ManifestSound' /\ StepSound
<1>1. /\ extensions' = extensions /\ handler' = handler /\ pendingUninstall' = pendingUninstall
      /\ updates' = updates /\ told' = told /\ acts' = acts /\ switches' = switches
      /\ inUse' \in {inUse, inUse \ {l}, inUse \cup {l}} /\ latest' \in {latest, [latest EXCEPT ![l] = 2]}
  BY DEF Manifest!SaveBrain, Manifest!Publish
<1>2. ManifestTypes /\ Rooted(extensions) /\ \A r \in Slots : HandlerSound(handler[r], extensions)
  BY DEF ManifestSound
<1>3. inUse' \subseteq Catalog /\ latest' \in [Catalog -> 1..2]
  BY <1>1, <1>2 DEF ManifestTypes
<1>4. ManifestTypes'
  BY <1>1, <1>2, <1>3 DEF ManifestTypes
<1>5. ManifestSound' /\ AskedStep
  BY <1>1, <1>2, <1>4 DEF ManifestSound, Rooted, AskedStep
<1>6. ToldStep /\ DependedStep
  BY <1>1, NothingTold
<1> QED
  BY <1>5, <1>6 DEF StepSound

LEMMA ManifestStart ==
    ASSUME Manifest!LibrariesParameters, Manifest!Init
    PROVE  ManifestSound
<1>1. /\ extensions = [l \in Catalog |-> IF l \in Platform THEN 1 ELSE 0]
      /\ inUse = {} /\ latest = [l \in Catalog |-> 1]
      /\ handler = [s \in Slots |-> Manifest!Idle] /\ pendingUninstall = NoSlot
      /\ updates = {} /\ told = [l \in Catalog |-> "none"] /\ acts = 0 /\ switches = 0
  BY DEF Manifest!Init, Manifest!Absent
<1>2. /\ NoSlot \notin Slots /\ Platform \subseteq Catalog /\ MaxActs \in Nat /\ MaxSwitches \in Nat
  BY DEF Manifest!LibrariesParameters
<1>3. \A s \in Slots : handler[s].step = "idle" /\ HandlerSound(handler[s], extensions)
  BY <1>1, IdleWaits
<1>4. ManifestTypes
  <2>1. extensions \in Manifest!Maps /\ latest \in [Catalog -> 1..2] /\ told \in [Catalog -> Manifest!Verbs]
    BY <1>1 DEF Manifest!Maps, Manifest!Versions, Manifest!Verbs
  <2>2. handler \in [Slots -> Manifest!Waiting]
    BY <1>1, IdleWaits
  <2>3. \A s \in Slots : handler[s].step = "confirm" <=> pendingUninstall = s
    BY <1>1, <1>2, <1>3
  <2> QED
    BY <1>1, <1>2, <2>1, <2>2, <2>3 DEF ManifestTypes
<1>5. Rooted(extensions)
  BY <1>1, <1>2 DEF Rooted
<1> QED
  BY <1>3, <1>4, <1>5 DEF ManifestSound

LEMMA ManifestStep ==
    ASSUME Manifest!LibrariesParameters, ManifestSound, Manifest!Next
    PROVE  ManifestSound' /\ StepSound
<1>1. CASE \E s \in Slots, l \in Catalog : Manifest!Install(s, l) \/ Manifest!Uninstall(s, l)
  BY <1>1, InstallKeeps, UninstallKeeps
<1>2. CASE \E s \in Slots, ok \in BOOLEAN : Manifest!ReferenceResolved(s, ok) \/ Manifest!Commit(s, ok)
  BY <1>2, ReferenceResolvedKeeps, CommitKeeps
<1>3. CASE \E confirmed \in BOOLEAN : Manifest!Answer(confirmed)
  BY <1>3, AnswerKeeps
<1>4. CASE \E s \in Slots : Manifest!Retry(s) \/ Manifest!CheckUpdates(s) \/ Manifest!ApplyUpdates(s)
  BY <1>4, RefreshKeeps, CheckUpdatesKeeps
<1>5. CASE \E s \in Slots, l \in Catalog, ok \in BOOLEAN : Manifest!Checked(s, l, ok)
  BY <1>5, CheckedKeeps
<1>6. CASE \E l \in Catalog : Manifest!SaveBrain(l) \/ Manifest!Publish(l)
  BY <1>6, WorldKeeps
<1>7. CASE \E map \in Manifests : Manifest!SwitchProject(map)
  BY <1>7, SwitchProjectKeeps
<1> QED
  BY <1>1, <1>2, <1>3, <1>4, <1>5, <1>6, <1>7 DEF Manifest!Next

-----------------------------------------------------------------------------
(* The parts together.                                                      *)
ToastRecord == {NothingShown} \cup {ToastOf(set) : set \in SUBSET Libraries}
ToastTypes ==
    /\ warnings \subseteq Warnings /\ toast \in ToastRecord /\ changes \in 0..MaxChanges
    /\ shown \in (SUBSET Libraries) \cup {NoToast} /\ dismissed \in (SUBSET Libraries) \cup {NoToast}
    /\ leaving \in (SUBSET Libraries) \cup {NoToast}

LEMMA ToastsTyped ==
    ASSUME NEW t \in ToastRecord
    PROVE  /\ t.of \in (SUBSET Libraries) \cup {NoToast} /\ t.named \in 0..MaxVisible
           /\ t.named + t.overflow = (IF t.of = NoToast THEN 0 ELSE Cardinality(t.of))
<1>1. CASE t = NothingShown
  BY <1>1, ToastAssumption DEF NothingShown
<1>2. ASSUME NEW set \in SUBSET Libraries, t = ToastOf(set)
      PROVE  /\ t.of \in (SUBSET Libraries) \cup {NoToast} /\ t.named \in 0..MaxVisible
             /\ t.named + t.overflow = (IF t.of = NoToast THEN 0 ELSE Cardinality(t.of))
  <2> DEFINE n == Cardinality(set)
  <2>1. n \in Nat /\ MaxVisible \in Nat /\ set # NoToast
    BY ToastAssumption, FS_Subset, FS_CardinalityType
  <2>2. /\ t.of = set /\ t.named = (IF n < MaxVisible THEN n ELSE MaxVisible)
        /\ t.overflow = IF n > MaxVisible THEN n - MaxVisible ELSE 0
    BY <1>2 DEF ToastOf, MinOf
  <2>3. (IF t.of = NoToast THEN 0 ELSE Cardinality(t.of)) = n
    BY <2>1, <2>2
  <2> HIDE DEF n
  <2> QED
    BY <2>1, <2>2, <2>3
<1> QED
  BY <1>1, <1>2 DEF ToastRecord

LEMMA ToastTypesStart == Init => ToastTypes
<1> SUFFICES ASSUME Init PROVE ToastTypes
  OBVIOUS
<1>1. warnings \in SUBSET Warnings /\ dismissed = NoToast /\ leaving = NoToast /\ changes = 0
  BY DEF Init
<1>2. Coordinates(warnings) \in SUBSET Libraries
  BY <1>1 DEF Coordinates, Warnings
<1>3. shown \in (SUBSET Libraries) \cup {NoToast} /\ toast \in ToastRecord
  BY <1>2 DEF Init, ToastRecord
<1> QED
  BY <1>1, <1>3, ToastAssumption DEF ToastTypes

LEMMA ToastTypesStep ==
    ASSUME ToastTypes, Next
    PROVE  ToastTypes'
<1>1. ASSUME NEW ws \in SUBSET Warnings, NEW fresh \in BOOLEAN, Change(ws, fresh)
      PROVE  ToastTypes'
  <2> DEFINE set == Coordinates(ws)
  <2>1. set \in SUBSET Libraries
    BY DEF Coordinates, Warnings
  <2>2. /\ dismissed' \in {NoToast, dismissed} /\ shown' \in {NoToast, set, shown}
        /\ toast' \in {NothingShown, toast, ToastOf(set)} /\ leaving' \in {toast.of, NoToast, leaving}
        /\ warnings' = ws
    BY <1>1 DEF Change, Evaluate, Cleared
  <2> HIDE DEF set
  <2>3. toast.of \in (SUBSET Libraries) \cup {NoToast}
    BY ToastsTyped DEF ToastTypes
  <2>4. NothingShown \in ToastRecord /\ ToastOf(set) \in ToastRecord
    BY <2>1 DEF ToastRecord
  <2>5. changes' \in 0..MaxChanges
    BY <1>1, ToastAssumption DEF Change, ToastTypes
  <2> QED
    BY <2>1, <2>2, <2>3, <2>4, <2>5 DEF ToastTypes
<1>2. CASE Close \/ CloseLeaving \/ Left
  <2>1. toast.of \in (SUBSET Libraries) \cup {NoToast} /\ NothingShown \in ToastRecord
    BY ToastsTyped DEF ToastTypes, ToastRecord
  <2>2. /\ warnings' = warnings /\ changes' = changes
        /\ toast' \in {toast, NothingShown} /\ shown' \in {shown, NoToast}
        /\ dismissed' \in {dismissed, toast.of, leaving} /\ leaving' \in {leaving, NoToast}
    BY <1>2 DEF Close, CloseLeaving, Left, UserDismiss
  <2> QED
    BY <2>1, <2>2 DEF ToastTypes
<1> QED
  BY <1>1, <1>2 DEF Next

SavesInv == ToastTypes /\ ScreenSound

LEMMA PartsStart == ProjectsInit => SavesInv /\ ManifestSound
<1>1. Manifest!LibrariesParameters /\ Screen!ScreenParameters
  BY ProjectsAssumption
<1> QED
  BY <1>1, ToastTypesStart, ScreenStart, ManifestStart DEF ProjectsInit, SavesInv

(* A part moves while the others stand.                                     *)
LEMMA SavesStep ==
    ASSUME SavesInv, [ProjectsNext]_projectsVars
    PROVE  SavesInv'
<1>1. ToastTypes /\ ScreenSound
  BY DEF SavesInv
<1>2. UNCHANGED vars => ToastTypes'
  BY <1>1 DEF vars, ToastTypes
<1>3. UNCHANGED screen => ScreenSound'
  <2> SUFFICES ASSUME UNCHANGED screen PROVE ScreenSound'
    OBVIOUS
  <2>1. /\ project' = project /\ saved' = saved /\ name' = name /\ dialog' = dialog /\ submitted' = submitted
        /\ toOpen' = toOpen /\ editor' = editor /\ loads' = loads /\ switching' = switching /\ draft' = draft
        /\ early' = early /\ dialogs' = dialogs /\ opens' = opens
    BY DEF screen
  <2>2. switching' \subseteq Projects
    BY <1>1, <2>1 DEF ScreenSound, NameSound, NameTypes
  <2> QED
    BY <1>1, <2>1, <2>2, EditStands, ListStands, NameStands DEF ScreenSound
<1>4. CASE Next /\ UNCHANGED <<flasherVars, manifest, screen>>
  BY <1>1, <1>3, <1>4, ToastTypesStep DEF SavesInv
<1>5. CASE Screen!Next /\ UNCHANGED <<vars, flasherVars, manifest>>
  BY <1>1, <1>2, <1>5, ScreenStep DEF SavesInv
<1>6. CASE UNCHANGED <<vars, screen>>
  BY <1>2, <1>3, <1>6 DEF SavesInv
<1> QED
  BY <1>4, <1>5, <1>6 DEF ProjectsNext, projectsVars

LEMMA LibrariesStep ==
    ASSUME ManifestSound, [ProjectsNext]_projectsVars
    PROVE  ManifestSound' /\ (StepSound \/ UNCHANGED Manifest!vars)
<1>1. Manifest!LibrariesParameters
  BY ProjectsAssumption
<1>2. UNCHANGED manifest => ManifestSound' /\ UNCHANGED Manifest!vars
  BY DEF manifest, Manifest!vars, ManifestSound, ManifestTypes, Rooted
<1>3. CASE Manifest!Next
  BY <1>1, <1>3, ManifestStep
<1>4. CASE UNCHANGED manifest
  BY <1>2, <1>4
<1> QED
  BY <1>3, <1>4 DEF ProjectsNext, projectsVars

(* Every save and every name goes where it was meant to, for any number of  *)
(* dialogs, openings and changes of project, which may come while the       *)
(* editor is open: a brain is stored under the brain and the project it was *)
(* made from, the add dialog opens the brain it has just named, and a name  *)
(* is given to the project whose name was edited, but where the project     *)
(* changed under the editor or the name, the open editor was turned to      *)
(* another brain and saved before that one had come, or the dialog was      *)
(* closed before its answer (BrainEditor, openNamedBrain, InlineRename).    *)
THEOREM SavesGoWhereMeant == ProjectsSpec => []GoesWhereMeant
<1>1. SavesInv => GoesWhereMeant
  <2> SUFFICES ASSUME SavesInv PROVE GoesWhereMeant
    OBVIOUS
  <2>1. TypeOK
    <3>1. ToastTypes
      BY DEF SavesInv
    <3>2. /\ toast.of \in (SUBSET Libraries) \cup {NoToast} /\ toast.named \in 0..MaxVisible
          /\ toast.named + toast.overflow = (IF toast.of = NoToast THEN 0 ELSE Cardinality(toast.of))
      BY <3>1, ToastsTyped DEF ToastTypes
    <3> QED
      BY <3>1, <3>2 DEF ToastTypes, TypeOK
  <2>2. EditSound /\ ListSound /\ NameSound
    BY DEF SavesInv, ScreenSound
  <2>3. Screen!TypeOK
    <3>1. dialog.kind \in {"none", "add", "rename", "remove"} /\ dialog.brain \in Brains \cup {NoBrain}
      BY <2>2 DEF ListSound, DialogTypes, DialogRecord
    <3>2. editor.brain \in Brains \cup {NoBrain} /\ (editor.open => editor.load \in 1..opens)
      BY <2>2 DEF EditSound, EditTypes, EditorSound, EditorRecord
    <3>3. toOpen.brain \in Brains \cup {NoBrain}
      BY <2>2 DEF ListSound, NamingSound, Screen!NoNaming
    <3>4. dialog.busy => \E x \in submitted : x.number = dialog.number
      BY <2>2 DEF ListSound, DialogSound
    <3>5. /\ project \in Projects /\ switching \subseteq Projects
          /\ draft \in (Projects \X Screen!Changes) \cup {Screen!NoDraft}
          /\ name \in [Projects -> Projects \X Screen!Changes]
      BY <2>2 DEF NameSound, NameTypes
    <3>6. saved \in [Projects -> [Brains -> Screen!Definitions]]
      BY <2>2 DEF EditSound, EditTypes
    <3> QED
      BY <3>1, <3>2, <3>3, <3>4, <3>5, <3>6 DEF Screen!TypeOK
  <2> QED
    BY <2>1, <2>2, <2>3 DEF EditSound, ListSound, NameSound, GoesWhereMeant
<1>2. SavesInv /\ [ProjectsNext]_projectsVars => SavesInv'
  BY SavesStep
<1>3. ProjectsInit => SavesInv
  BY PartsStart
<1> QED
  BY <1>1, <1>2, <1>3, PTL DEF ProjectsSpec

(* What the user was told last of a library is so; the target and the       *)
(* layers it stands on stay, a library another one depends on does not      *)
(* leave, and one in use leaves only after its dialog was confirmed: for    *)
(* any catalog, its dependencies, any number of handlers that wait beside   *)
(* one another and any changes of project.  Only a handler that was         *)
(* overtaken while it waited brings back or drops libraries that are not    *)
(* its own (presentExtensionTransaction, runGuardedLibraryUninstall).       *)
THEOREM LibrariesAreKept == ProjectsSpec => LibrariesKept
<1>1. ManifestSound => Manifest!TypeOK /\ Manifest!PlatformStays
  <2> SUFFICES ASSUME ManifestSound PROVE Manifest!TypeOK /\ Manifest!PlatformStays
    OBVIOUS
  <2>1. ManifestTypes /\ Rooted(extensions) /\ Manifest!LibrariesParameters
    BY ProjectsAssumption DEF ManifestSound
  <2>2. latest \in Manifest!Maps
    BY <2>1 DEF ManifestTypes, Manifest!Maps, Manifest!Versions
  <2>3. Manifest!PlatformStays
    BY <2>1 DEF Rooted, Manifest!PlatformStays, Manifest!Installed, Manifest!Absent, Manifest!LibrariesParameters
  <2> QED
    BY <2>1, <2>2, <2>3 DEF ManifestTypes, Manifest!TypeOK
<1>2. ManifestSound /\ [ProjectsNext]_projectsVars => ManifestSound'
  BY LibrariesStep
<1>3. ManifestSound /\ [ProjectsNext]_projectsVars
        => [ToldStep]_Manifest!vars /\ [DependedStep]_Manifest!vars /\ [AskedStep]_Manifest!vars
  BY LibrariesStep DEF StepSound
<1>4. ProjectsInit => ManifestSound
  BY PartsStart
<1>5. ProjectsSpec => [][ToldStep]_Manifest!vars /\ [][DependedStep]_Manifest!vars /\ [][AskedStep]_Manifest!vars
  BY <1>2, <1>3, <1>4, PTL DEF ProjectsSpec
<1>6. ProjectsSpec => Manifest!ToldIsTrue
  BY <1>5, PTL DEF Manifest!ToldIsTrue, ToldStep
<1>7. ProjectsSpec => Manifest!DependedStay
  BY <1>5, PTL DEF Manifest!DependedStay, DependedStep, Manifest!Absent
<1>8. ProjectsSpec => Manifest!AskedFirst
  BY <1>5, PTL DEF Manifest!AskedFirst, AskedStep
<1> QED
  BY <1>1, <1>2, <1>4, <1>6, <1>7, <1>8, PTL DEF ProjectsSpec, LibrariesKept
=============================================================================
