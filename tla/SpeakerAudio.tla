---------------------------- MODULE SpeakerAudio ----------------------------
(***************************************************************************)
(* What the user hears of the simulated fleet: the speaker of every device *)
(* (microbit-speaker.ts), the fleet that comes and goes                    *)
(* (services/simulator.ts), and the renderer that plays what the speakers' *)
(* snapshots show into one audio context (services/speaker-audio.ts).      *)
(*                                                                         *)
(* A device's play is named by a number of the whole run, so that two      *)
(* plays stay apart whatever id the device gives them.                     *)
(***************************************************************************)
EXTENDS Integers, FiniteSets

CONSTANTS
    Ids,        \* the ids devices are known by
    Sounds,     \* what a program plays
    Length,     \* the duration of each, in frames; 0 renders no samples
    MaxPlays,   \* bound: plays of the run
    MaxFleets,  \* bound: changes of the fleet
    NoPlay

SpeakerParameters ==
    /\ IsFiniteSet(Ids) /\ Length \in [Sounds -> Nat] /\ NoPlay \notin Nat
    /\ MaxPlays \in Nat /\ MaxFleets \in Nat

VARIABLES
    fleet,     \* the ids of the devices there are
    speaker,   \* per id: the speaker of the device, fresh or not
    context,   \* the audio context: none, suspended or running
    resuming,  \* whether a resume() is awaited
    gestures,  \* the gestures still listened for: both listeners are "once"
    voice,     \* per id: voices
    sources,   \* per id: how many source nodes sound
    synced,    \* whether the last step was a frame
    plays, fleets
audio == <<context, resuming, gestures>>
vars == <<fleet, speaker, audio, voice, sources, synced, plays, fleets>>

-----------------------------------------------------------------------------
(* A fresh speaker has made no play: its ids start over.  What was played  *)
(* before it, the first n plays of the run, is remembered for the property.*)
FreshSpeaker(n) == [lastId |-> 0, play |-> NoPlay, playId |-> 0, sound |-> NoPlay, left |-> 0, before |-> n]
Busy(s) == s.play # NoPlay
Silence(s) == [s EXCEPT !.play = NoPlay, !.playId = 0, !.sound = NoPlay, !.left = 0]

UnlockGestures == {"pointerdown", "keydown"}
Silent == [play |-> NoPlay, playId |-> 0]
Sounding(v) == v.play # NoPlay

(* One tick of a device: its program thinks and asks for a sound or not,   *)
(* dropped when the lease is held and not preempted, and the play whose    *)
(* time has come is completed after it.                                    *)
Accepts(s, preempt) == preempt \/ ~Busy(s)
Started(s, sound, n) == [s EXCEPT !.lastId = @ + 1, !.play = n, !.playId = s.lastId + 1,
                                  !.sound = sound, !.left = Length[sound]]
Elapsed(s, started) == IF Busy(s) /\ ~started THEN [s EXCEPT !.left = @ - 1] ELSE s
Completed(s) == IF Busy(s) /\ s.left <= 0 THEN Silence(s) ELSE s

(* sync: nothing for the play that is already heard, else the voice stops; *)
(* a play is started when the context runs and it has samples.             *)
Plays(s) == context = "running" /\ Busy(s) /\ Length[s.sound] > 0
(* Mutant of Kept: the voice is told by its device alone.                   *)
KeptByDevice(v, s) == Sounding(v) /\ Busy(s)

Kept(v, s) == Sounding(v) /\ Busy(s) /\ v.playId = s.playId
Synced(v, s) ==
    IF Kept(v, s) THEN v
    ELSE IF Plays(s) THEN [play |-> s.play, playId |-> s.playId]
    ELSE Silent
(* Every voice left behind was stopped, every new one is a source.         *)
Heard(before, v, w) == before + (IF Sounding(w) /\ w # v THEN 1 ELSE 0)
                       - (IF Sounding(v) /\ w # v THEN 1 ELSE 0)

-----------------------------------------------------------------------------
Init == /\ fleet \in SUBSET Ids
        /\ speaker = [i \in Ids |-> FreshSpeaker(0)]
        /\ context = "none" /\ resuming = FALSE /\ gestures = UnlockGestures
        /\ voice = [i \in Ids |-> Silent] /\ sources = [i \in Ids |-> 0]
        /\ synced = FALSE /\ plays = 0 /\ fleets = 0

(* MicrobitSimulator.tick: every device ticks, then the frame's listener   *)
(* hands each speaker to the renderer.  Device i plays w, or nothing.      *)
Frame(i, w, preempt) ==
    LET asks == w # NoPlay /\ i \in fleet
        starts == asks /\ Accepts(speaker[i], preempt)
        thought(j) ==
            LET s == IF j = i /\ asks /\ preempt THEN Silence(speaker[j]) ELSE speaker[j]
            IN  IF j = i /\ starts THEN Started(s, w, plays + 1) ELSE s
        after(j) == Completed(Elapsed(thought(j), j = i /\ starts))
        heard(j) == Synced(voice[j], after(j))
    IN  /\ w # NoPlay => i \in fleet
        /\ starts => plays < MaxPlays
        /\ plays' = IF starts THEN plays + 1 ELSE plays
        /\ speaker' = [j \in Ids |-> IF j \in fleet THEN after(j) ELSE speaker[j]]
        /\ voice' = [j \in Ids |-> IF j \in fleet THEN heard(j) ELSE voice[j]]
        /\ sources' = [j \in Ids |-> Heard(sources[j], voice[j], voice'[j])]
        /\ synced' = TRUE
        /\ UNCHANGED <<fleet, audio, fleets>>

(* Loading or unloading a program resets the speaker, ids and all but the  *)
(* counter they come from.                                                 *)
Flash(i) == /\ i \in fleet /\ Busy(speaker[i])
            /\ speaker' = [speaker EXCEPT ![i] = Silence(@)]
            /\ synced' = FALSE
            /\ UNCHANGED <<fleet, audio, voice, sources, plays, fleets>>

(* The instance listener stops the voices of devices that are gone.        *)
Retained(ids) == [j \in Ids |-> IF j \in ids THEN voice[j] ELSE Silent]
FleetBecomes(ids, fresh) ==
    /\ fleets < MaxFleets /\ fleets' = fleets + 1
    /\ fleet' = ids
    /\ speaker' = [j \in Ids |-> IF j \in fresh THEN FreshSpeaker(plays) ELSE speaker[j]]
    /\ voice' = Retained(ids)
    /\ sources' = [j \in Ids |-> Heard(sources[j], voice[j], voice'[j])]
    /\ synced' = FALSE
    /\ UNCHANGED <<audio, plays>>
AddInstance(i) == i \notin fleet /\ FleetBecomes(fleet \cup {i}, {i})
RemoveInstance(i) == i \in fleet /\ FleetBecomes(fleet \ {i}, {})
(* A project's stored fleet replaces the one there is: its devices are     *)
(* new, under the ids they had when the project was last open.             *)
SetInstances(ids) == FleetBecomes(ids, ids)

(* The first press of a key and of the pointer unlock the audio.  The      *)
(* browser makes the context running or suspended, or refuses it.          *)
Unlock(g) ==
    /\ g \in gestures /\ gestures' = gestures \ {g}
    /\ context' \in (IF context = "none" THEN {"none", "suspended", "running"} ELSE {context})
    /\ resuming' = (resuming \/ context' = "suspended")
    /\ synced' = FALSE
    /\ UNCHANGED <<fleet, speaker, voice, sources, plays, fleets>>

(* The browser settles a resume(), and may suspend a context that runs.    *)
Resumed == /\ resuming /\ resuming' = FALSE /\ context' = "running"
           /\ synced' = FALSE
           /\ UNCHANGED <<fleet, speaker, gestures, voice, sources, plays, fleets>>
Interrupted == /\ context = "running" /\ context' = "suspended"
               /\ synced' = FALSE
               /\ UNCHANGED <<fleet, speaker, resuming, gestures, voice, sources, plays, fleets>>

Dispose == /\ context # "none"
           /\ context' = "none" /\ resuming' = FALSE
           /\ voice' = [j \in Ids |-> Silent]
           /\ sources' = [j \in Ids |-> Heard(sources[j], voice[j], Silent)]
           /\ synced' = FALSE
           /\ UNCHANGED <<fleet, speaker, gestures, plays, fleets>>

Next ==
    \/ \E i \in Ids : AddInstance(i) \/ RemoveInstance(i) \/ Flash(i)
    \/ \E i \in Ids, w \in Sounds \cup {NoPlay}, preempt \in BOOLEAN : Frame(i, w, preempt)
    \/ \E ids \in SUBSET Ids \ {{}} : SetInstances(ids)
    \/ \E g \in gestures : Unlock(g)
    \/ Resumed \/ Interrupted \/ Dispose

Spec == Init /\ [][Next]_vars

-----------------------------------------------------------------------------
TypeOK ==
    /\ fleet \subseteq Ids /\ plays \in 0..MaxPlays /\ fleets \in 0..MaxFleets
    /\ context \in {"none", "suspended", "running"} /\ gestures \subseteq UnlockGestures
    /\ resuming \in BOOLEAN /\ synced \in BOOLEAN
    /\ \A i \in Ids : /\ speaker[i].play \in (1..plays) \cup {NoPlay}
                      /\ speaker[i].sound \in Sounds \cup {NoPlay}
                      /\ speaker[i].lastId \in 0..plays /\ speaker[i].left \in Nat
                      /\ voice[i].play \in (1..plays) \cup {NoPlay}
                      /\ sources[i] \in 0..1

(* What is heard is what plays: at the end of a frame every voice is the   *)
(* play its device is making, not one before it, however plays are taken   *)
(* over, reset and restored (SpeakerAudio.sync and the ids it goes by).    *)
(* The one exception is what the ids cannot tell apart: the first play of  *)
(* a restored device, in the frame it is restored, passes for the first    *)
(* play of the device that had its id, whose voice goes on in its place.   *)
PassesFor(v, s) == v.play <= s.before /\ v.playId = 1
HeardIsPlayed == synced => \A i \in Ids : Sounding(voice[i]) =>
    /\ i \in fleet /\ Busy(speaker[i]) /\ voice[i].playId = speaker[i].playId
    /\ voice[i].play = speaker[i].play \/ PassesFor(voice[i], speaker[i])

(* No sound is lost: while the context runs, every device that plays       *)
(* something with samples has a voice at the end of the frame.             *)
PlayedIsHeard == synced /\ context = "running" => \A i \in fleet :
    Plays(speaker[i]) => Sounding(voice[i])

(* Nothing rings unowned: a source that sounds is the voice of a device    *)
(* the fleet has, one at most for each (retain, and the stop of a voice    *)
(* that is replaced or disposed of).                                       *)
NoneRingsOn == \A i \in Ids : /\ sources[i] = (IF Sounding(voice[i]) THEN 1 ELSE 0)
                              /\ sources[i] = 1 => i \in fleet

=============================================================================
