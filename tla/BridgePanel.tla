----------------------------- MODULE BridgePanel -----------------------------
(***************************************************************************)
(* The VS Code bridge as a person sees and steers it: the panel with its   *)
(* toggle, readout and way back, the settings dialog that holds the        *)
(* bridge's address, and what the browser keeps of them -- the binding     *)
(* token, the settings and each project's toggle -- which every tab of the *)
(* app shares.  The bridge's own session is the host's: it is external,    *)
(* modelled by what the panel and the store rely on.                       *)
(*                                                                         *)
(* A binding token is a number, 0 for none.  asks and connects count what  *)
(* the person did and what came of it; retired holds the forgotten tokens: *)
(* they are history, read by the properties alone.                         *)
(***************************************************************************)
EXTENDS Naturals, FiniteSets

CONSTANTS Tabs,          \* browser tabs of the app
          Projects,      \* projects of the browser's collection
          Home,          \* the project each tab opens
          Kept,          \* the settings an earlier visit may have left
          Typed,         \* the addresses a person types
          StorageFails,  \* may a write to local storage fail?
          MaxActs        \* bound on the acts of the person, and on tokens

ASSUME BridgeAssumption ==
    /\ IsFiniteSet(Tabs) /\ Home \in [Tabs -> Projects]
    /\ \A s, t \in Tabs : s # t => Home[s] # Home[t]
    /\ Kept \subseteq [{"bridge", "assistant"} -> {"default", "legacy", "own"}]
    /\ Typed \subseteq {"legacy", "own", "blank"}
    /\ StorageFails \in BOOLEAN
    /\ MaxActs \in Nat

Addresses == {"default", "legacy", "own", "blank"}
Fields == {"bridge", "assistant"}
Settings == [Fields -> Addresses]
Codes == {"none", "replaced", "ended", "version"}
Statuses == {"disconnected", "connecting", "connected", "reconnecting"}

VARIABLES stored,    \* local storage: settings, binding token, toggles by project
          page,      \* what each tab's store and panel hold
          session,   \* what each tab's bridge host holds
          asks, connects, retired,
    acts       \* how often the person did anything

vars == <<stored, page, session, asks, connects, retired, acts>>

-----------------------------------------------------------------------------
(* Local storage *)

\* What a stored address loads as: an earlier release's default is upgraded.
Upgraded(a) == IF a = "legacy" THEN "default" ELSE a

LoadAppSettings(s) == [k \in Fields |-> Upgraded(s[k])]

NormalizeAppSettings(s) == [k \in Fields |-> IF s[k] = "blank" THEN "default" ELSE s[k]]

ClearBindingToken(works) == IF works THEN 0 ELSE stored.token

\* Does this write reach the storage?
Works == IF StorageFails THEN BOOLEAN ELSE {TRUE}

-----------------------------------------------------------------------------
(* The bridge session of the host *)

Down == [status |-> "disconnected", paired |-> FALSE, code |-> "none", token |-> 0]

Live(s) == s.status # "disconnected"

\* A connect opens a session with the persisted token, and clears a failure.
Connected(s) ==
    IF Live(s) THEN s
    ELSE [Down EXCEPT !.status = "connecting", !.token = stored.token]

ConnectBridge(t) ==
    /\ session' = [session EXCEPT ![t] = Connected(@)]
    /\ connects' = IF Live(session[t]) THEN connects ELSE connects + 1

\* The bridge lets the tab in. A session that came without a token is given
\* one; another tab in the session of the same token is put out of it.
Welcome(t) ==
    /\ session[t].status \in {"connecting", "reconnecting"}
    /\ \E issued \in 1 .. MaxActs, works \in Works :
        LET token == IF session[t].token = 0 THEN issued ELSE session[t].token
        IN  /\ session[t].token = 0 => /\ issued \notin retired \cup {stored.token}
                                       /\ \A s \in Tabs : session[s].token # issued
            /\ session[t].token # 0 => issued = 1
            /\ stored' = IF works THEN [stored EXCEPT !.token = token] ELSE stored
            /\ session' =
                 [s \in Tabs |->
                    IF s = t THEN [session[t] EXCEPT !.status = "connected", !.token = token]
                    ELSE IF session[s].status \in {"connected", "reconnecting"} /\ session[s].token = token
                         THEN [Down EXCEPT !.code = "replaced"]
                         ELSE session[s]]
    /\ UNCHANGED <<page, asks, connects, retired, acts>>

\* VS Code comes and goes, and the network with it.
Peer(t) ==
    /\ session[t].status = "connected"
    /\ \/ session' = [session EXCEPT ![t].paired = ~@]
       \/ session' = [session EXCEPT ![t].status = "reconnecting", ![t].paired = FALSE]
    /\ UNCHANGED <<stored, page, asks, connects, retired, acts>>

\* A failure ends the connection for good.
Fail(t) ==
    /\ Live(session[t])
    /\ \E code \in {"ended", "version"} : session' = [session EXCEPT ![t] = [Down EXCEPT !.code = code]]
    /\ UNCHANGED <<stored, page, asks, connects, retired, acts>>

-----------------------------------------------------------------------------
(* The panel *)

\* What the connection readout shows.
BridgeConnectionView(s) ==
    IF s.code # "none" THEN "held"
    ELSE IF s.status \in {"connecting", "reconnecting"} THEN "connecting"
    ELSE IF s.status = "disconnected" THEN "off"
    ELSE IF s.paired THEN "connected" ELSE "waiting"

\* A page as it opens: the panel's state comes from the store's, and its
\* effect has not run yet. url is the address the bridge host was given.
Opened(p, prefs, settings) ==
    [project |-> p, pref |-> prefs[p], on |-> prefs[p], ran |-> FALSE, settings |-> settings,
     url |-> settings["bridge"], draft |-> <<>>, typed |-> FALSE]

Init ==
    /\ stored \in [settings : Kept, token : {0}, prefs : [Projects -> BOOLEAN]]
    /\ page = [t \in Tabs |-> Opened(Home[t], stored.prefs, LoadAppSettings(stored.settings))]
    /\ session = [t \in Tabs |-> Down]
    /\ asks = Cardinality({t \in Tabs : stored.prefs[Home[t]]})
    /\ connects = 0
    /\ retired = {}
    /\ acts = 0

\* The panel's effect is due when its toggle changed since it last ran.
\* Mutant: the effect also runs again whenever the status changes.
EffectDueStatus(t) == page[t].ran # page[t].on \/ (page[t].on /\ ~Live(session[t]))
EffectDue(t) == page[t].ran # page[t].on

RunEffect(t) ==
    /\ EffectDue(t)
    /\ page' = [page EXCEPT ![t].ran = page[t].on]
    /\ IF page[t].on THEN ConnectBridge(t) ELSE UNCHANGED <<session, connects>>
    /\ UNCHANGED <<stored, asks, retired, acts>>

\* An act of the person on a settled page. wants: does it ask for the bridge?
Act(t, wants) ==
    /\ page[t].ran = page[t].on
    /\ acts < MaxActs
    /\ acts' = acts + 1
    /\ asks' = IF wants THEN asks + 1 ELSE asks

\* The token a switch-off leaves, and the store's part of it.
Forget(works) == ClearBindingToken(works)

Toggle(t) ==
    /\ Act(t, ~page[t].on)
    /\ LET on == ~page[t].on
       IN \E works \in Works :
            /\ page' = [page EXCEPT ![t].on = on, ![t].pref = on]
            /\ stored' = [stored EXCEPT
                            !.prefs[page[t].project] = IF works THEN on ELSE @,
                            !.token = IF on THEN @ ELSE Forget(works)]
            /\ session' = IF on THEN session ELSE [session EXCEPT ![t] = Down]
            /\ retired' =
                 IF ~on /\ works /\ \A s \in Tabs \ {t} : session[s].token # stored.token
                 THEN (retired \cup {stored.token}) \ {0}
                 ELSE retired
    /\ UNCHANGED connects

\* The hold notice's button: reconnect, or after a version rejection reload.
Reconnect(t) ==
    /\ Act(t, TRUE)
    /\ session[t].code \notin {"none", "version"}
    /\ ConnectBridge(t)
    /\ UNCHANGED <<stored, page, retired>>

Reload(t) ==
    /\ acts < MaxActs /\ acts' = acts + 1
    /\ asks' = IF stored.prefs[page[t].project] THEN asks + 1 ELSE asks
    /\ page' = [page EXCEPT ![t] = Opened(page[t].project, stored.prefs, LoadAppSettings(stored.settings))]
    /\ session' = [session EXCEPT ![t] = Down]
    /\ UNCHANGED <<stored, connects, retired>>

\* The store's own listener has set the preferences when the panel's reads
\* them.
PanelReads(p, pref) == pref

\* Another project is loaded, one no other tab holds; the host keeps the
\* session or ends it.
SwitchProject(t) ==
    /\ Act(t, FALSE)
    /\ \E p \in Projects \ {page[s].project : s \in Tabs} :
         page' = [page EXCEPT ![t].project = p, ![t].pref = FALSE, ![t].on = PanelReads(p, FALSE)]
    /\ \/ session' = [session EXCEPT ![t] = Down]
       \/ UNCHANGED session
    /\ UNCHANGED <<stored, connects, retired>>

-----------------------------------------------------------------------------
(* The settings *)

\* The dialog opens on a copy of the settings.
OpenSettings(t) ==
    /\ Typed # {} /\ page[t].draft = <<>>
    /\ page' = [page EXCEPT ![t].draft = <<page[t].settings>>]
    /\ UNCHANGED <<stored, session, asks, connects, retired, acts>>

Edit(t) ==
    /\ page[t].draft # <<>>
    /\ acts < MaxActs /\ acts' = acts + 1
    /\ \E k \in Fields, a \in Typed :
         page' = [page EXCEPT ![t].draft = <<[page[t].draft[1] EXCEPT ![k] = a]>>]
    /\ UNCHANGED <<stored, session, asks, connects, retired>>

\* The host is told of another address, by a listener: it moves a live
\* session there, or leaves it.
Told(t, next) ==
    IF next["bridge"] # page[t].settings["bridge"] THEN next["bridge"] ELSE page[t].url

\* updateAppSettings: the page's copy first, then the storage, whose failure
\* leaves the listeners and the closing of the dialog out.
Save(t) ==
    /\ page[t].draft # <<>>
    /\ LET next == NormalizeAppSettings(page[t].draft[1])
       IN \/ /\ stored' = [stored EXCEPT !.settings = next]
             /\ page' = [page EXCEPT ![t].settings = next, ![t].draft = <<>>, ![t].url = Told(t, next),
                                     ![t].typed = TRUE]
             /\ \/ UNCHANGED session
                \/ /\ next["bridge"] # page[t].settings["bridge"] /\ Live(session[t])
                   /\ session' = [session EXCEPT ![t].status = "connecting", ![t].paired = FALSE]
          \/ /\ StorageFails
             /\ page' = [page EXCEPT ![t].settings = next, ![t].typed = TRUE]
             /\ UNCHANGED <<stored, session>>
    /\ UNCHANGED <<asks, connects, retired, acts>>

CancelSettings(t) ==
    /\ page[t].draft # <<>>
    /\ page' = [page EXCEPT ![t].draft = <<>>]
    /\ UNCHANGED <<stored, session, asks, connects, retired, acts>>

-----------------------------------------------------------------------------
Next ==
    \E t \in Tabs :
        \/ RunEffect(t) \/ Toggle(t) \/ Reconnect(t) \/ Reload(t) \/ SwitchProject(t)
        \/ OpenSettings(t) \/ Edit(t) \/ Save(t) \/ CancelSettings(t)
        \/ Welcome(t) \/ Peer(t) \/ Fail(t)

Spec == Init /\ [][Next]_vars

-----------------------------------------------------------------------------
(* Properties *)

TypeOK ==
    /\ stored \in [settings : Settings, token : 0 .. MaxActs, prefs : [Projects -> BOOLEAN]]
    /\ \A t \in Tabs :
        /\ session[t] \in [status : Statuses, paired : BOOLEAN, code : Codes, token : 0 .. MaxActs]
        /\ page[t].project \in Projects /\ page[t].settings \in Settings
        /\ Live(session[t]) => session[t].code = "none"

\* Two tabs never fight over a session: each connect answers one act of the
\* person -- a page opened, a toggle, a reconnect -- and what put a tab out of
\* its session holds it down until then (the panel's effect, the hold notice).
ConnectsAreAsked == connects <= asks

\* An enabled bridge whose page is settled never just reads "off": it is on
\* its way, in session, or held with the notice that says why
\* (bridgeConnectionView, the panel's effect).
NeverSilentlyOff ==
    \A t \in Tabs :
        page[t].on /\ ~EffectDue(t) => BridgeConnectionView(session[t]) # "off"

\* The toggle on show is the preference the store holds, which a switch of
\* projects puts to off whatever the project had saved (onProjectLoaded).
PanelMatches == \A t \in Tabs : page[t].on = page[t].pref

\* A binding token forgotten by a switch-off, while no other tab was in its
\* session, is never presented to the bridge again (endBridge, then
\* clearBindingToken).
ForgottenStaysForgotten ==
    \A t \in Tabs : Live(session[t]) => session[t].token \notin retired

\* A page's addresses are never blank, and never a retired default unless
\* somebody typed one on this very page (loadAppSettings, normalizeAppSettings).
Addressed ==
    \A t \in Tabs, k \in Fields :
        /\ page[t].settings[k] # "blank"
        /\ page[t].settings[k] = "legacy" => page[t].typed

\* What the panel shows is so, and what it does was asked: of the session, of
\* the project's preference, of the token and of the addresses.
PanelSound ==
    ConnectsAreAsked /\ NeverSilentlyOff /\ PanelMatches /\ ForgottenStaysForgotten /\ Addressed

=============================================================================
