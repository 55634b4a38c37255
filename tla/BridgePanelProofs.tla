------------------------- MODULE BridgePanelProofs -------------------------
(***************************************************************************)
(* The bridge panel and its settings, for every set of tabs and projects   *)
(* and any number of acts of the person.                                   *)
(*                                                                         *)
(* Three arguments that do not need each other.  What a tab's page holds   *)
(* is consistent (PageInv).  A tab's session agrees with its toggle and    *)
(* never holds a forgotten token (SessionInv), since no token the storage  *)
(* keeps is forgotten.  And every connect has been asked for (CountInv):   *)
(* the tabs whose effect is still due are the acts that are not answered   *)
(* yet.                                                                    *)
(***************************************************************************)
EXTENDS BridgePanel, FiniteSetTheorems, TLAPS

Drafts == {<< >>} \cup {<<s>> : s \in Settings}
PageRecord == [project : Projects, pref : BOOLEAN, on : BOOLEAN, ran : BOOLEAN,
               settings : Settings, url : Addresses, draft : Drafts, typed : BOOLEAN]
StoredRecord == [settings : Settings, token : Nat, prefs : [Projects -> BOOLEAN]]
SessionRecord == [status : Statuses, paired : BOOLEAN, code : Codes, token : Nat]

Types ==
    /\ page \in [Tabs -> PageRecord]
    /\ stored \in StoredRecord
    /\ session \in [Tabs -> SessionRecord]

(* What a page may hold: PanelMatches and Addressed of one page.           *)
SoundPage(p) ==
    /\ p \in PageRecord /\ p.on = p.pref
    /\ \A k \in Fields : p.settings[k] # "blank" /\ (p.settings[k] = "legacy" => p.typed)
PageInv ==
    /\ Types
    /\ \A k \in Fields : stored.settings[k] # "blank"
    /\ \A t \in Tabs : SoundPage(page[t])

-----------------------------------------------------------------------------
(* The settings.                                                           *)
LEMMA NormalizedSound ==
    ASSUME NEW s \in Settings
    PROVE  /\ NormalizeAppSettings(s) \in Settings
           /\ \A k \in Fields : NormalizeAppSettings(s)[k] # "blank"
  BY DEF NormalizeAppSettings, Settings, Addresses

LEMMA LoadedSound ==
    ASSUME NEW s \in Settings, \A k \in Fields : s[k] # "blank"
    PROVE  /\ LoadAppSettings(s) \in Settings
           /\ \A k \in Fields : LoadAppSettings(s)[k] \notin {"blank", "legacy"}
  BY DEF LoadAppSettings, Upgraded, Settings, Addresses

LEMMA OpenedSound ==
    ASSUME NEW project \in Projects, NEW prefs \in [Projects -> BOOLEAN],
           NEW s \in Settings, \A k \in Fields : s[k] # "blank"
    PROVE  /\ SoundPage(Opened(project, prefs, LoadAppSettings(s)))
           /\ Opened(project, prefs, LoadAppSettings(s)).on = prefs[project]
           /\ Opened(project, prefs, LoadAppSettings(s)).ran = FALSE
<1> DEFINE l == LoadAppSettings(s)
<1>1. l \in Settings /\ \A k \in Fields : l[k] \notin {"blank", "legacy"}
  BY LoadedSound
<1> HIDE DEF l
<1>2. l["bridge"] \in Addresses
  BY <1>1 DEF Settings, Fields
<1>3. Opened(project, prefs, l) \in PageRecord
  BY <1>1, <1>2 DEF Opened, PageRecord, Drafts
<1>4. SoundPage(Opened(project, prefs, l))
  BY <1>1, <1>3 DEF SoundPage, Opened
<1> QED
  BY <1>4 DEF l, Opened

-----------------------------------------------------------------------------
(* A step that changes one page, with a sound one in its place.            *)
LEMMA PageMoves ==
    ASSUME PageInv, NEW t \in Tabs, NEW p, SoundPage(p), page' = [page EXCEPT ![t] = p],
           stored' \in StoredRecord, \A k \in Fields : stored'.settings[k] # "blank",
           session' \in [Tabs -> SessionRecord]
    PROVE  PageInv'
<1>1. page \in [Tabs -> PageRecord]
  BY DEF PageInv, Types
<1>2. \A s \in Tabs : page'[s] = IF s = t THEN p ELSE page[s]
  BY <1>1
<1>3. page' \in [Tabs -> PageRecord]
  BY <1>1 DEF SoundPage
<1> QED
  BY <1>2, <1>3 DEF PageInv, Types

(* What each change of a page leaves of its toggle and its effect.         *)
WithRan(p, b) == [p EXCEPT !.ran = b]
WithToggle(p, b) == [p EXCEPT !.on = b, !.pref = b]
WithProject(p, project) == [p EXCEPT !.project = project, !.pref = FALSE, !.on = FALSE]
WithDraft(p, d) == [p EXCEPT !.draft = d]
WithSettings(p, s) == [p EXCEPT !.settings = s, !.typed = TRUE]
WithSaved(p, s, u) == [p EXCEPT !.settings = s, !.draft = << >>, !.url = u, !.typed = TRUE]

LEMMA RanFields ==
    ASSUME NEW p, SoundPage(p), NEW b \in BOOLEAN
    PROVE  SoundPage(WithRan(p, b)) /\ WithRan(p, b).on = p.on /\ WithRan(p, b).ran = b
  BY DEF PageRecord, SoundPage, WithRan

LEMMA ToggleFields ==
    ASSUME NEW p, SoundPage(p), NEW b \in BOOLEAN
    PROVE  SoundPage(WithToggle(p, b)) /\ WithToggle(p, b).on = b /\ WithToggle(p, b).ran = p.ran
  BY DEF PageRecord, SoundPage, WithToggle

LEMMA ProjectFields ==
    ASSUME NEW p, SoundPage(p), NEW q \in Projects
    PROVE  SoundPage(WithProject(p, q)) /\ WithProject(p, q).on = FALSE /\ WithProject(p, q).ran = p.ran
  BY DEF PageRecord, SoundPage, WithProject

LEMMA DraftFields ==
    ASSUME NEW p, SoundPage(p), NEW d \in Drafts
    PROVE  SoundPage(WithDraft(p, d)) /\ WithDraft(p, d).on = p.on /\ WithDraft(p, d).ran = p.ran
  BY DEF PageRecord, SoundPage, WithDraft

LEMMA SavedFields ==
    ASSUME NEW p, SoundPage(p), NEW s \in Settings, \A k \in Fields : s[k] # "blank"
    PROVE  /\ SoundPage(WithSettings(p, s))
           /\ WithSettings(p, s).on = p.on /\ WithSettings(p, s).ran = p.ran
           /\ \A u \in Addresses :
                /\ SoundPage(WithSaved(p, s, u))
                /\ WithSaved(p, s, u).on = p.on /\ WithSaved(p, s, u).ran = p.ran
  BY DEF PageRecord, SoundPage, Drafts, WithSettings, WithSaved

-----------------------------------------------------------------------------
(* What each action does to the pages: one page moves, to a sound one.      *)
PageTo(t, on, ran) ==
    \E p : SoundPage(p) /\ p.on = on /\ p.ran = ran /\ page' = [page EXCEPT ![t] = p]

LEMMA PageToMoves ==
    ASSUME NEW t, NEW on, NEW ran, NEW p, SoundPage(p), p.on = on, p.ran = ran,
           page' = [page EXCEPT ![t] = p]
    PROVE  PageTo(t, on, ran)
  BY DEF PageTo

LEMMA RunEffectPage ==
    ASSUME PageInv, NEW t \in Tabs, RunEffect(t)
    PROVE  PageTo(t, page[t].on, page[t].on)
<1>1. SoundPage(page[t]) /\ page[t].on \in BOOLEAN
  BY DEF PageInv, SoundPage, PageRecord
<1>2. page' = [page EXCEPT ![t] = WithRan(page[t], page[t].on)]
  BY DEF WithRan, RunEffect, PageInv, Types
<1> DEFINE q == WithRan(page[t], page[t].on)
<1>3. SoundPage(q) /\ q.on = page[t].on /\ q.ran = page[t].on
  BY <1>1, RanFields
<1>4. page' = [page EXCEPT ![t] = q]
  BY <1>2
<1> HIDE DEF q
<1> QED
  BY <1>3, <1>4, PageToMoves

LEMMA TogglePage ==
    ASSUME PageInv, NEW t \in Tabs, Toggle(t)
    PROVE  PageTo(t, ~page[t].on, page[t].ran)
<1>1. SoundPage(page[t]) /\ page[t].on \in BOOLEAN
  BY DEF PageInv, SoundPage, PageRecord
<1>2. page' = [page EXCEPT ![t] = WithToggle(page[t], ~page[t].on)]
  BY DEF WithToggle, Toggle, PageInv, Types
<1> QED
  BY <1>1, <1>2, ToggleFields DEF PageTo

LEMMA ReloadPage ==
    ASSUME PageInv, NEW t \in Tabs, Reload(t)
    PROVE  PageTo(t, stored.prefs[page[t].project], FALSE)
<1> DEFINE p == Opened(page[t].project, stored.prefs, LoadAppSettings(stored.settings))
<1>1. /\ page[t].project \in Projects /\ stored.prefs \in [Projects -> BOOLEAN]
      /\ stored.settings \in Settings /\ \A k \in Fields : stored.settings[k] # "blank"
  BY DEF PageInv, Types, PageRecord, StoredRecord
<1>2. SoundPage(p) /\ p.on = stored.prefs[page[t].project] /\ p.ran = FALSE
  BY <1>1, OpenedSound
<1>3. page' = [page EXCEPT ![t] = p]
  BY DEF Reload
<1> HIDE DEF p
<1> QED
  BY <1>2, <1>3 DEF PageTo

LEMMA SwitchPage ==
    ASSUME PageInv, NEW t \in Tabs, SwitchProject(t)
    PROVE  PageTo(t, FALSE, page[t].ran)
<1>1. PICK project \in Projects :
        page' = [page EXCEPT ![t].project = project, ![t].pref = FALSE,
                             ![t].on = PanelReads(project, FALSE)]
  BY DEF SwitchProject
<1>2. page' = [page EXCEPT ![t] = WithProject(page[t], project)]
  BY <1>1 DEF WithProject, PanelReads, PageInv, Types
<1>3. SoundPage(page[t])
  BY DEF PageInv
<1> DEFINE q == WithProject(page[t], project)
<1>4. SoundPage(q) /\ q.on = FALSE /\ q.ran = page[t].ran
  BY <1>3, ProjectFields
<1>5. page' = [page EXCEPT ![t] = q]
  BY <1>2
<1> HIDE DEF q
<1> QED
  BY <1>4, <1>5, PageToMoves

Draws(t) == OpenSettings(t) \/ Edit(t) \/ CancelSettings(t)
LEMMA DrawsPage ==
    ASSUME PageInv, NEW t \in Tabs, Draws(t)
    PROVE  PageTo(t, page[t].on, page[t].ran)
<1>1. SoundPage(page[t]) /\ page[t].settings \in Settings /\ page[t].draft \in Drafts
  BY DEF PageInv, SoundPage, PageRecord
<1>2. ASSUME NEW d \in Drafts, page' = [page EXCEPT ![t].draft = d]
      PROVE  PageTo(t, page[t].on, page[t].ran)
  <2>1. page' = [page EXCEPT ![t] = WithDraft(page[t], d)]
    BY <1>2 DEF WithDraft, PageInv, Types
  <2>2. LET q == WithDraft(page[t], d)
        IN  SoundPage(q) /\ q.on = page[t].on /\ q.ran = page[t].ran
    BY <1>1, DraftFields
  <2> QED
    BY <1>1, <2>1, <2>2 DEF PageTo
<1>3. CASE OpenSettings(t)
  <2>1. <<page[t].settings>> \in Drafts /\ page' = [page EXCEPT ![t].draft = <<page[t].settings>>]
    BY <1>1, <1>3 DEF OpenSettings, Drafts
  <2> QED
    BY <1>2, <2>1
<1>4. CASE Edit(t)
  <2>1. PICK k \in Fields, a \in Typed :
          page' = [page EXCEPT ![t].draft = <<[page[t].draft[1] EXCEPT ![k] = a]>>]
    BY <1>4 DEF Edit
  <2>2. page[t].draft[1] \in Settings /\ a \in Addresses
    BY <1>1, <1>4, BridgeAssumption DEF Edit, Drafts, Addresses
  <2>3. [page[t].draft[1] EXCEPT ![k] = a] \in Settings
    BY <2>2 DEF Settings
  <2>4. <<[page[t].draft[1] EXCEPT ![k] = a]>> \in Drafts
    BY <2>3 DEF Drafts
  <2> QED
    BY <1>2, <2>1, <2>4
<1>5. CASE CancelSettings(t)
  <2>1. << >> \in Drafts /\ page' = [page EXCEPT ![t].draft = << >>]
    BY <1>5 DEF CancelSettings, Drafts
  <2> QED
    BY <1>2, <2>1
<1> QED
  BY <1>3, <1>4, <1>5 DEF Draws

LEMMA SavePage ==
    ASSUME PageInv, NEW t \in Tabs, Save(t)
    PROVE  /\ PageTo(t, page[t].on, page[t].ran)
           /\ stored' \in StoredRecord /\ stored'.token = stored.token
           /\ \A k \in Fields : stored'.settings[k] # "blank"
<1> DEFINE next == NormalizeAppSettings(page[t].draft[1])
<1>1. /\ SoundPage(page[t]) /\ page[t].draft \in Drafts /\ page[t].url \in Addresses
      /\ stored \in StoredRecord
  BY DEF PageInv, SoundPage, PageRecord, Types
<1>2. page[t].draft[1] \in Settings
  BY <1>1 DEF Save, Drafts
<1>3. next \in Settings /\ \A k \in Fields : next[k] # "blank"
  BY <1>2, NormalizedSound
<1>4. Told(t, next) \in Addresses
  BY <1>1, <1>3 DEF Told, Settings, Fields
<1>5. \/ /\ stored' = [stored EXCEPT !.settings = next]
         /\ page' = [page EXCEPT ![t].settings = next, ![t].draft = << >>, ![t].url = Told(t, next),
                                 ![t].typed = TRUE]
      \/ /\ stored' = stored
         /\ page' = [page EXCEPT ![t].settings = next, ![t].typed = TRUE]
  BY DEF Save
<1> HIDE DEF next
<1>6. \/ page' = [page EXCEPT ![t] = WithSaved(page[t], next, Told(t, next))]
      \/ page' = [page EXCEPT ![t] = WithSettings(page[t], next)]
  BY <1>5 DEF WithSaved, WithSettings, PageInv, Types
<1>7. PageTo(t, page[t].on, page[t].ran)
  BY <1>1, <1>3, <1>4, <1>6, SavedFields DEF PageTo
<1>8. stored' \in StoredRecord /\ stored'.token = stored.token
      /\ \A k \in Fields : stored'.settings[k] # "blank"
  BY <1>1, <1>3, <1>5 DEF StoredRecord, PageInv
<1> QED
  BY <1>7, <1>8

-----------------------------------------------------------------------------
(* What a move of a page does to every page.                               *)
LEMMA PagesAfter ==
    ASSUME PageInv, NEW t \in Tabs, NEW on, NEW ran, PageTo(t, on, ran)
    PROVE  /\ page' \in [Tabs -> PageRecord]
           /\ \A s \in Tabs : SoundPage(page'[s])
           /\ page'[t].on = on /\ page'[t].ran = ran
           /\ \A s \in Tabs \ {t} : page'[s] = page[s]
<1>1. PICK p : SoundPage(p) /\ p.on = on /\ p.ran = ran /\ page' = [page EXCEPT ![t] = p]
  BY DEF PageTo
<1>2. page \in [Tabs -> PageRecord] /\ p \in PageRecord /\ \A s \in Tabs : SoundPage(page[s])
  BY <1>1 DEF PageInv, Types, SoundPage
<1>3. /\ page' \in [Tabs -> PageRecord]
      /\ \A s \in Tabs : page'[s] = IF s = t THEN p ELSE page[s]
  BY <1>1, <1>2
<1> QED
  BY <1>1, <1>2, <1>3

(* The actions that leave the pages alone.                                 *)
SessionStep(t) == Reconnect(t) \/ Welcome(t) \/ Peer(t) \/ Fail(t)
PageStep(t) == RunEffect(t) \/ Toggle(t) \/ Reload(t) \/ SwitchProject(t) \/ Draws(t) \/ Save(t)

LEMMA PagesStay ==
    ASSUME NEW t \in Tabs, SessionStep(t)
    PROVE  page' = page
  BY DEF SessionStep, Reconnect, Welcome, Peer, Fail

LEMMA PagesMove ==
    ASSUME PageInv, NEW t \in Tabs, PageStep(t)
    PROVE  \E on, ran : PageTo(t, on, ran)
  BY RunEffectPage, TogglePage, ReloadPage, SwitchPage, DrawsPage, SavePage DEF PageStep

(* What is stored stays a sound record of the storage.                     *)
LEMMA StoredKeeps ==
    ASSUME PageInv, NEW t \in Tabs, SessionStep(t) \/ PageStep(t)
    PROVE  stored' \in StoredRecord /\ \A k \in Fields : stored'.settings[k] # "blank"
<1>1. stored \in StoredRecord /\ \A k \in Fields : stored.settings[k] # "blank"
  BY DEF PageInv, Types
<1>2. ASSUME NEW n \in Nat, NEW prefs \in [Projects -> BOOLEAN],
             stored' = [stored EXCEPT !.prefs = prefs, !.token = n]
      PROVE  stored' \in StoredRecord /\ \A k \in Fields : stored'.settings[k] # "blank"
  BY <1>1, <1>2 DEF StoredRecord
<1>3. CASE Toggle(t)
  <2>1. PICK works \in Works :
          stored' = [stored EXCEPT
                       !.prefs[page[t].project] = IF works THEN ~page[t].on ELSE @,
                       !.token = IF ~page[t].on THEN @ ELSE Forget(works)]
    BY <1>3 DEF Toggle
  <2> DEFINE n == IF ~page[t].on THEN stored.token ELSE Forget(works)
             b == IF works THEN ~page[t].on ELSE stored.prefs[page[t].project]
             prefs == [stored.prefs EXCEPT ![page[t].project] = b]
  <2>2. page[t].on \in BOOLEAN /\ page[t].project \in Projects
    BY DEF PageInv, Types, PageRecord
  <2>3. n \in Nat
    BY <1>1 DEF StoredRecord, Forget, ClearBindingToken
  <2>4. stored.prefs \in [Projects -> BOOLEAN] /\ b \in BOOLEAN
    BY <1>1, <2>2 DEF StoredRecord
  <2>5. prefs \in [Projects -> BOOLEAN]
    BY <2>4
  <2>6. stored' = [stored EXCEPT !.prefs = prefs, !.token = n]
    BY <1>1, <2>1 DEF StoredRecord
  <2> HIDE DEF n, prefs
  <2> QED
    BY <1>2, <2>3, <2>5, <2>6
<1>4. CASE Welcome(t)
  <2>1. PICK issued \in 1..MaxActs, works \in Works :
          stored' = IF works THEN [stored EXCEPT !.token = IF session[t].token = 0 THEN issued
                                                           ELSE session[t].token]
                    ELSE stored
    BY <1>4 DEF Welcome
  <2>2. session[t].token \in Nat /\ issued \in Nat
    BY BridgeAssumption DEF PageInv, Types, SessionRecord
  <2> DEFINE n == IF session[t].token = 0 THEN issued ELSE session[t].token
  <2>3. n \in Nat /\ (stored' = [stored EXCEPT !.token = n] \/ stored' = stored)
    BY <2>1, <2>2
  <2> HIDE DEF n
  <2> QED
    BY <1>1, <2>3 DEF StoredRecord
<1>5. CASE Save(t)
  BY <1>5, SavePage
<1>6. CASE UNCHANGED stored
  BY <1>1, <1>6
<1> QED
  BY <1>3, <1>4, <1>5, <1>6
     DEF SessionStep, PageStep, Draws, Reconnect, Peer, Fail, RunEffect, Reload, SwitchProject,
         OpenSettings, Edit, CancelSettings

-----------------------------------------------------------------------------
(* The session of a settled and enabled page is live or held, and no token  *)
(* in use, nor the one that is stored, is forgotten.                       *)
Holds(t) == page[t].on /\ page[t].ran => Live(session[t]) \/ session[t].code # "none"
Fresh(t) == Live(session[t]) => session[t].token \notin retired
SessionInv ==
    /\ 0 \notin retired /\ stored.token \notin retired
    /\ \A t \in Tabs : Holds(t) /\ Fresh(t)

LEMMA DownSession == Down \in SessionRecord /\ ~Live(Down) /\ Down.code = "none"
  BY DEF Down, SessionRecord, Live, Statuses, Codes

LEMMA ConnectedSession ==
    ASSUME NEW s \in SessionRecord, stored.token \in Nat
    PROVE  /\ Connected(s) \in SessionRecord /\ Live(Connected(s))
           /\ Connected(s).token = IF Live(s) THEN s.token ELSE stored.token
  BY DEF Connected, Down, SessionRecord, Live, Statuses, Codes

WithPaired(s) == [s EXCEPT !.paired = ~s.paired]
WithStatus(s, status) == [s EXCEPT !.status = status, !.paired = FALSE]
WithToken(s, token) == [s EXCEPT !.status = "connected", !.token = token]
WithCode(code) == [Down EXCEPT !.code = code]

LEMMA PairedSession ==
    ASSUME NEW s \in SessionRecord
    PROVE  /\ WithPaired(s) \in SessionRecord /\ WithPaired(s).token = s.token
           /\ Live(WithPaired(s)) <=> Live(s)
  BY DEF WithPaired, SessionRecord, Live

LEMMA StatusSession ==
    ASSUME NEW s \in SessionRecord, NEW status \in {"connecting", "reconnecting"}
    PROVE  /\ WithStatus(s, status) \in SessionRecord /\ WithStatus(s, status).token = s.token
           /\ Live(WithStatus(s, status))
  BY DEF WithStatus, SessionRecord, Live, Statuses

LEMMA TokenSession ==
    ASSUME NEW s \in SessionRecord, NEW token \in Nat
    PROVE  /\ WithToken(s, token) \in SessionRecord /\ WithToken(s, token).token = token
           /\ Live(WithToken(s, token))
  BY DEF WithToken, SessionRecord, Live, Statuses

LEMMA CodeSession ==
    ASSUME NEW code \in Codes
    PROVE  /\ WithCode(code) \in SessionRecord /\ WithCode(code).code = code
           /\ ~Live(WithCode(code))
  BY DEF WithCode, Down, SessionRecord, Live, Statuses

(* One session moves: to a live one with a token that may be used, or to    *)
(* one that its page is content with.                                      *)
LEMMA SessionMoves ==
    ASSUME PageInv, SessionInv, NEW t \in Tabs, NEW x \in SessionRecord,
           session' = [session EXCEPT ![t] = x], retired' = retired,
           stored'.token = stored.token,
           \A s \in Tabs \ {t} : page'[s] = page[s],
           Live(x) => x.token \notin retired,
           page'[t].on /\ page'[t].ran => Live(x) \/ x.code # "none"
    PROVE  session' \in [Tabs -> SessionRecord] /\ SessionInv'
<1>1. session \in [Tabs -> SessionRecord]
  BY DEF PageInv, Types
<1>2. \A s \in Tabs : session'[s] = IF s = t THEN x ELSE session[s]
  BY <1>1
<1>3. session' \in [Tabs -> SessionRecord]
  BY <1>1
<1>4. ASSUME NEW s \in Tabs PROVE Holds(s)' /\ Fresh(s)'
  <2>1. CASE s = t
    BY <1>2, <2>1 DEF Holds, Fresh
  <2>2. CASE s # t
    <3>1. session'[s] = session[s] /\ page'[s] = page[s]
      BY <1>2, <2>2
    <3> QED
      BY <3>1 DEF SessionInv, Holds, Fresh
  <2> QED
    BY <2>1, <2>2
<1> QED
  BY <1>3, <1>4 DEF SessionInv

LEMMA RunEffectSession ==
    ASSUME PageInv, SessionInv, NEW t \in Tabs, RunEffect(t)
    PROVE  session' \in [Tabs -> SessionRecord] /\ SessionInv'
<1>1. /\ page'[t].on = page[t].on /\ \A s \in Tabs \ {t} : page'[s] = page[s]
      /\ session[t] \in SessionRecord /\ stored.token \in Nat /\ page[t].on \in BOOLEAN
  BY RunEffectPage, PagesAfter DEF PageInv, Types, StoredRecord, PageRecord
<1>2. CASE page[t].on
  <2>1. session' = [session EXCEPT ![t] = Connected(session[t])]
    BY <1>2 DEF RunEffect, ConnectBridge
  <2>2. retired' = retired /\ stored' = stored
    BY DEF RunEffect
  <2>3. Connected(session[t]) \in SessionRecord /\ Live(Connected(session[t]))
        /\ Connected(session[t]).token \notin retired
    BY <1>1, ConnectedSession DEF SessionInv, Fresh
  <2> QED
    BY <1>1, <2>1, <2>2, <2>3, SessionMoves
<1>3. CASE ~page[t].on
  <2>1. session' = [session EXCEPT ![t] = session[t]] /\ retired' = retired /\ stored' = stored
    BY <1>3 DEF RunEffect, PageInv, Types
  <2>2. Live(session[t]) => session[t].token \notin retired
    BY DEF SessionInv, Fresh
  <2> QED
    BY <1>1, <1>3, <2>1, <2>2, SessionMoves
<1> QED
  BY <1>2, <1>3

LEMMA ReconnectSession ==
    ASSUME PageInv, SessionInv, NEW t \in Tabs, Reconnect(t)
    PROVE  session' \in [Tabs -> SessionRecord] /\ SessionInv'
<1>1. session[t] \in SessionRecord /\ stored.token \in Nat
  BY DEF PageInv, Types, StoredRecord
<1>2. /\ session' = [session EXCEPT ![t] = Connected(session[t])]
      /\ page' = page /\ retired' = retired /\ stored' = stored
  BY DEF Reconnect, ConnectBridge
<1>3. Connected(session[t]) \in SessionRecord /\ Live(Connected(session[t]))
      /\ Connected(session[t]).token \notin retired
  BY <1>1, ConnectedSession DEF SessionInv, Fresh
<1> QED
  BY <1>2, <1>3, SessionMoves

(* A page that is not settled, or not on, is content with any session.     *)
LEMMA LeavesSession ==
    ASSUME PageInv, SessionInv, NEW t \in Tabs, retired' = retired, stored'.token = stored.token,
           \A s \in Tabs \ {t} : page'[s] = page[s],
           \/ session' = [session EXCEPT ![t] = Down] /\ ~(page'[t].on /\ page'[t].ran)
           \/ session' = session /\ (page'[t].on /\ page'[t].ran => page[t].on /\ page[t].ran)
    PROVE  session' \in [Tabs -> SessionRecord] /\ SessionInv'
<1>1. CASE session' = [session EXCEPT ![t] = Down] /\ ~(page'[t].on /\ page'[t].ran)
  BY <1>1, DownSession, SessionMoves
<1>2. CASE session' = session /\ (page'[t].on /\ page'[t].ran => page[t].on /\ page[t].ran)
  <2>1. session' = [session EXCEPT ![t] = session[t]] /\ session[t] \in SessionRecord
    BY <1>2 DEF PageInv, Types
  <2>2. Holds(t) /\ Fresh(t)
    BY DEF SessionInv
  <2> QED
    BY <1>2, <2>1, <2>2, SessionMoves DEF Holds, Fresh
<1> QED
  BY <1>1, <1>2

LEMMA PageSession ==
    ASSUME PageInv, SessionInv, NEW t \in Tabs, Reload(t) \/ SwitchProject(t) \/ Draws(t)
    PROVE  session' \in [Tabs -> SessionRecord] /\ SessionInv'
<1>1. CASE Reload(t)
  <2>1. page'[t].ran = FALSE /\ \A s \in Tabs \ {t} : page'[s] = page[s]
    <3> DEFINE on == stored.prefs[page[t].project]
               ran == FALSE
    <3>1. PageTo(t, on, ran)
      BY <1>1, ReloadPage
    <3> HIDE DEF on, ran
    <3>2. page'[t].ran = ran /\ \A s \in Tabs \ {t} : page'[s] = page[s]
      BY <3>1, PagesAfter
    <3> QED
      BY <3>2 DEF ran
  <2>2. session' = [session EXCEPT ![t] = Down] /\ retired' = retired /\ stored' = stored
    BY <1>1 DEF Reload
  <2> QED
    BY <2>1, <2>2, LeavesSession
<1>2. CASE SwitchProject(t)
  <2>1. page'[t].on = FALSE /\ \A s \in Tabs \ {t} : page'[s] = page[s]
    <3> DEFINE on == FALSE
               ran == page[t].ran
    <3>1. PageTo(t, on, ran)
      BY <1>2, SwitchPage
    <3> HIDE DEF on, ran
    <3>2. page'[t].on = on /\ \A s \in Tabs \ {t} : page'[s] = page[s]
      BY <3>1, PagesAfter
    <3> QED
      BY <3>2 DEF on
  <2>2. /\ session' = [session EXCEPT ![t] = Down] \/ session' = session
        /\ retired' = retired /\ stored' = stored
    BY <1>2 DEF SwitchProject
  <2> QED
    BY <2>1, <2>2, LeavesSession
<1>3. CASE Draws(t)
  <2>1. /\ page'[t].on = page[t].on /\ page'[t].ran = page[t].ran
        /\ \A s \in Tabs \ {t} : page'[s] = page[s]
    BY <1>3, DrawsPage, PagesAfter
  <2>2. session' = session /\ retired' = retired /\ stored' = stored
    BY <1>3 DEF Draws, OpenSettings, Edit, CancelSettings
  <2> QED
    BY <2>1, <2>2, LeavesSession
<1> QED
  BY <1>1, <1>2, <1>3

LEMMA SaveSession ==
    ASSUME PageInv, SessionInv, NEW t \in Tabs, Save(t)
    PROVE  session' \in [Tabs -> SessionRecord] /\ SessionInv'
<1>1. /\ page'[t].on = page[t].on /\ page'[t].ran = page[t].ran
      /\ \A s \in Tabs \ {t} : page'[s] = page[s]
      /\ retired' = retired /\ stored'.token = stored.token
  <2>1. PageTo(t, page[t].on, page[t].ran) /\ stored'.token = stored.token
    BY SavePage
  <2>2. retired' = retired
    BY DEF Save
  <2> QED
    BY <2>1, <2>2, PagesAfter
<1>2. CASE session' = session
  BY <1>1, <1>2, LeavesSession
<1>3. CASE session' # session
  <2>1. /\ Live(session[t]) /\ session[t] \in SessionRecord
        /\ session' = [session EXCEPT ![t].status = "connecting", ![t].paired = FALSE]
    BY <1>3 DEF Save, PageInv, Types
  <2>2. session' = [session EXCEPT ![t] = WithStatus(session[t], "connecting")]
    BY <2>1 DEF WithStatus, PageInv, Types
  <2>3. session[t].token \notin retired
    BY <2>1 DEF SessionInv, Fresh
  <2>4. /\ WithStatus(session[t], "connecting") \in SessionRecord
        /\ Live(WithStatus(session[t], "connecting"))
        /\ WithStatus(session[t], "connecting").token = session[t].token
    BY <2>1, StatusSession
  <2> QED
    BY <1>1, <2>2, <2>3, <2>4, SessionMoves
<1> QED
  BY <1>2, <1>3

LEMMA HostSession ==
    ASSUME PageInv, SessionInv, NEW t \in Tabs, Peer(t) \/ Fail(t)
    PROVE  session' \in [Tabs -> SessionRecord] /\ SessionInv'
<1>1. /\ page' = page /\ retired' = retired /\ stored' = stored
      /\ session \in [Tabs -> SessionRecord] /\ session[t] \in SessionRecord
      /\ Live(session[t]) => session[t].token \notin retired
  BY DEF Peer, Fail, PageInv, Types, SessionInv, Fresh
<1>2. CASE Peer(t)
  <2>1. Live(session[t])
    BY <1>2 DEF Peer, Live
  <2>2. \/ session' = [session EXCEPT ![t] = WithPaired(session[t])]
        \/ session' = [session EXCEPT ![t] = WithStatus(session[t], "reconnecting")]
    BY <1>1, <1>2 DEF Peer, WithPaired, WithStatus
  <2>3. /\ WithPaired(session[t]) \in SessionRecord /\ Live(WithPaired(session[t]))
        /\ WithPaired(session[t]).token = session[t].token
    BY <1>1, <2>1, PairedSession
  <2>4. /\ WithStatus(session[t], "reconnecting") \in SessionRecord
        /\ Live(WithStatus(session[t], "reconnecting"))
        /\ WithStatus(session[t], "reconnecting").token = session[t].token
    BY <1>1, StatusSession
  <2> QED
    BY <1>1, <2>1, <2>2, <2>3, <2>4, SessionMoves
<1>3. CASE Fail(t)
  <2>1. PICK code \in {"ended", "version"} : session' = [session EXCEPT ![t] = WithCode(code)]
    BY <1>3 DEF Fail, WithCode
  <2>2. WithCode(code) \in SessionRecord /\ WithCode(code).code # "none" /\ ~Live(WithCode(code))
    BY CodeSession DEF Codes
  <2> QED
    BY <1>1, <2>1, <2>2, SessionMoves
<1> QED
  BY <1>2, <1>3

(* A switch-off forgets the token that the storage lets go of, unless       *)
(* another tab is in its session.                                          *)
LEMMA ToggleSession ==
    ASSUME PageInv, SessionInv, NEW t \in Tabs, Toggle(t)
    PROVE  session' \in [Tabs -> SessionRecord] /\ SessionInv'
<1>1. /\ page[t].on \in BOOLEAN /\ page[t].ran = page[t].on
      /\ stored \in StoredRecord /\ session \in [Tabs -> SessionRecord]
  BY DEF PageInv, Types, PageRecord, Toggle, Act
<1>2. /\ page'[t].on = ~page[t].on /\ page'[t].ran = page[t].ran
      /\ \A s \in Tabs \ {t} : page'[s] = page[s]
  BY TogglePage, PagesAfter
<1>3. ~(page'[t].on /\ page'[t].ran)
  BY <1>1, <1>2
<1>4. PICK works \in BOOLEAN :
        /\ stored' = [stored EXCEPT
                        !.prefs[page[t].project] = IF works THEN ~page[t].on ELSE @,
                        !.token = IF ~page[t].on THEN @ ELSE Forget(works)]
        /\ session' = IF ~page[t].on THEN session ELSE [session EXCEPT ![t] = Down]
        /\ retired' =
             IF page[t].on /\ works /\ \A s \in Tabs \ {t} : session[s].token # stored.token
             THEN (retired \cup {stored.token}) \ {0}
             ELSE retired
  BY DEF Toggle, Works
<1>5. stored'.token = IF ~page[t].on THEN stored.token ELSE Forget(works)
  BY <1>1, <1>4 DEF StoredRecord
<1>6. CASE ~page[t].on \/ ~works
  <2>1. stored'.token = stored.token /\ retired' = retired
    BY <1>4, <1>5, <1>6 DEF Forget, ClearBindingToken
  <2>2. session' = session \/ session' = [session EXCEPT ![t] = Down]
    BY <1>4
  <2> QED
    BY <1>2, <1>3, <2>1, <2>2, LeavesSession
<1>7. CASE page[t].on /\ works
  <2>1. stored'.token = 0 /\ session' = [session EXCEPT ![t] = Down]
    BY <1>4, <1>5, <1>7 DEF Forget, ClearBindingToken
  <2>2. 0 \notin retired' /\ session' \in [Tabs -> SessionRecord]
    BY <1>1, <1>4, <2>1, DownSession DEF SessionInv
  <2>3. ASSUME NEW s \in Tabs PROVE Holds(s)' /\ Fresh(s)'
    <3>1. CASE s = t
      BY <1>1, <1>3, <2>1, <3>1, DownSession DEF Holds, Fresh
    <3>2. CASE s # t
      <4>1. session'[s] = session[s] /\ page'[s] = page[s]
        BY <1>1, <1>2, <2>1, <3>2
      <4>2. session[s].token \notin retired => session[s].token \notin retired'
        BY <1>4, <3>2
      <4>3. Holds(s) /\ Fresh(s)
        BY DEF SessionInv
      <4> QED
        BY <4>1, <4>2, <4>3 DEF Holds, Fresh
    <3> QED
      BY <3>1, <3>2
  <2> QED
    BY <2>1, <2>2, <2>3 DEF SessionInv
<1> QED
  BY <1>1, <1>6, <1>7

(* The bridge issues a token that is new to it, and puts the other tab of   *)
(* the session out: that tab is told why.                                  *)
LEMMA WelcomeSession ==
    ASSUME PageInv, SessionInv, NEW t \in Tabs, Welcome(t)
    PROVE  session' \in [Tabs -> SessionRecord] /\ SessionInv'
<1>1. /\ session \in [Tabs -> SessionRecord] /\ stored \in StoredRecord
      /\ page' = page /\ retired' = retired
  BY DEF PageInv, Types, Welcome
<1>2. Live(session[t]) /\ session[t].token \notin retired
  BY DEF Welcome, Live, SessionInv, Fresh
<1>3. PICK issued \in 1..MaxActs, works \in BOOLEAN :
        LET token == IF session[t].token = 0 THEN issued ELSE session[t].token
        IN  /\ session[t].token = 0 => issued \notin retired \cup {stored.token}
            /\ stored' = IF works THEN [stored EXCEPT !.token = token] ELSE stored
            /\ session' =
                 [s \in Tabs |->
                    IF s = t THEN [session[t] EXCEPT !.status = "connected", !.token = token]
                    ELSE IF session[s].status \in {"connected", "reconnecting"} /\ session[s].token = token
                         THEN [Down EXCEPT !.code = "replaced"]
                         ELSE session[s]]
  BY DEF Welcome, Works
<1> DEFINE token == IF session[t].token = 0 THEN issued ELSE session[t].token
<1>4. token \in Nat /\ token \notin retired
  BY <1>1, <1>2, <1>3, BridgeAssumption DEF SessionRecord
<1>5. /\ stored' = [stored EXCEPT !.token = token] \/ stored' = stored
      /\ \A s \in Tabs : \/ s = t /\ session'[s] = WithToken(session[t], token)
                         \/ s # t /\ session'[s] = WithCode("replaced")
                         \/ s # t /\ session'[s] = session[s]
      /\ session' = [s \in Tabs |-> session'[s]]
  BY <1>3 DEF WithToken, WithCode
<1> HIDE DEF token
<1>6. /\ WithToken(session[t], token) \in SessionRecord
      /\ WithToken(session[t], token).token = token /\ Live(WithToken(session[t], token))
  BY <1>1, <1>4, TokenSession
<1>7. /\ WithCode("replaced") \in SessionRecord /\ WithCode("replaced").code # "none"
      /\ ~Live(WithCode("replaced"))
  BY CodeSession DEF Codes
<1>8. ASSUME NEW s \in Tabs PROVE session'[s] \in SessionRecord /\ Holds(s)' /\ Fresh(s)'
  <2>1. CASE session'[s] = session[s]
    <3>1. Holds(s) /\ Fresh(s)
      BY DEF SessionInv
    <3> QED
      BY <1>1, <2>1, <3>1 DEF Holds, Fresh
  <2>2. CASE session'[s] = WithToken(session[t], token)
    BY <1>1, <1>4, <1>6, <2>2 DEF Holds, Fresh
  <2>3. CASE session'[s] = WithCode("replaced")
    BY <1>1, <1>7, <2>3 DEF Holds, Fresh
  <2> QED
    BY <1>5, <2>1, <2>2, <2>3
<1>9. stored'.token \notin retired'
  BY <1>1, <1>4, <1>5 DEF SessionInv, StoredRecord
<1> QED
  BY <1>1, <1>5, <1>8, <1>9 DEF SessionInv

-----------------------------------------------------------------------------
(* The two invariants together.                                            *)
LEMMA PanelStep ==
    ASSUME PageInv, SessionInv, [Next]_vars
    PROVE  PageInv' /\ SessionInv'
<1>1. ASSUME NEW t \in Tabs, SessionStep(t) \/ PageStep(t) PROVE PageInv' /\ SessionInv'
  <2>1. session' \in [Tabs -> SessionRecord] /\ SessionInv'
    BY <1>1, RunEffectSession, ReconnectSession, PageSession, SaveSession, HostSession,
       ToggleSession, WelcomeSession DEF SessionStep, PageStep
  <2>2. stored' \in StoredRecord /\ \A k \in Fields : stored'.settings[k] # "blank"
    BY <1>1, StoredKeeps
  <2>3. page' \in [Tabs -> PageRecord] /\ \A s \in Tabs : SoundPage(page'[s])
    <3>1. CASE PageStep(t)
      BY <3>1, PagesMove, PagesAfter
    <3>2. CASE SessionStep(t)
      BY <3>2, PagesStay DEF PageInv, Types
    <3> QED
      BY <1>1, <3>1, <3>2
  <2> QED
    BY <2>1, <2>2, <2>3 DEF PageInv, Types
<1>2. CASE UNCHANGED vars
  BY <1>2 DEF vars, PageInv, Types, SessionInv, Holds, Fresh
<1> QED
  BY <1>1, <1>2 DEF Next, SessionStep, PageStep, Draws

LEMMA InitPanel == Init => PageInv /\ SessionInv
<1> SUFFICES ASSUME Init PROVE PageInv /\ SessionInv
  OBVIOUS
<1>1. /\ stored \in StoredRecord /\ stored.token = 0
      /\ \A k \in Fields : stored.settings[k] # "blank"
  <2>1. stored \in [settings : Kept, token : {0}, prefs : [Projects -> BOOLEAN]]
    BY DEF Init
  <2>2. stored.settings \in Kept
    BY <2>1
  <2>3. stored.settings \in Settings /\ \A k \in Fields : stored.settings[k] # "blank"
    BY <2>2, BridgeAssumption DEF Settings, Fields, Addresses
  <2> QED
    BY <2>1, <2>3 DEF StoredRecord
<1>2. \A t \in Tabs :
        LET p == Opened(Home[t], stored.prefs, LoadAppSettings(stored.settings))
        IN  SoundPage(p) /\ p.ran = FALSE
  <2>1. /\ stored.settings \in Settings /\ stored.prefs \in [Projects -> BOOLEAN]
        /\ \A t \in Tabs : Home[t] \in Projects
    BY <1>1, BridgeAssumption DEF StoredRecord
  <2> QED
    BY <1>1, <2>1, OpenedSound
<1>3. \A t \in Tabs : SoundPage(page[t]) /\ page[t].ran = FALSE /\ session[t] = Down
  BY <1>2 DEF Init
<1>4. Types
  BY <1>1, <1>3, DownSession DEF Types, Init, SoundPage
<1> QED
  BY <1>1, <1>3, <1>4, DownSession DEF PageInv, SessionInv, Holds, Fresh, Init

LEMMA PanelInvariant == Spec => [](PageInv /\ SessionInv)
  BY InitPanel, PanelStep, PTL DEF Spec

-----------------------------------------------------------------------------
(* The toggle on show is the preference the store holds, through every      *)
(* toggle, reload and switch of projects (onProjectLoaded).                *)
THEOREM PanelIsThePreference == Spec => []PanelMatches
<1>1. PageInv => PanelMatches
  BY DEF PageInv, SoundPage, PanelMatches
<1> QED
  BY PanelInvariant, <1>1, PTL

(* A page's addresses are never blank, and never a retired default nobody   *)
(* typed on that page (loadAppSettings, normalizeAppSettings).             *)
THEOREM AddressesAreReal == Spec => []Addressed
<1>1. PageInv => Addressed
  BY DEF PageInv, SoundPage, Addressed
<1> QED
  BY PanelInvariant, <1>1, PTL

(* An enabled bridge whose page is settled never just reads "off"           *)
(* (bridgeConnectionView, the panel's effect).                             *)
THEOREM BridgeIsHeard == Spec => []NeverSilentlyOff
<1>1. PageInv /\ SessionInv => NeverSilentlyOff
  <2> SUFFICES ASSUME PageInv, SessionInv, NEW t \in Tabs, page[t].on, ~EffectDue(t)
               PROVE  BridgeConnectionView(session[t]) # "off"
    BY DEF NeverSilentlyOff
  <2>1. page[t].ran /\ session[t] \in SessionRecord
    <3>1. page[t].on \in BOOLEAN /\ page[t].ran \in BOOLEAN /\ session[t] \in SessionRecord
      BY DEF PageInv, Types, PageRecord
    <3>2. page[t].ran = page[t].on /\ page[t].on
      BY DEF EffectDue
    <3> QED
      BY <3>1, <3>2
  <2>2. Live(session[t]) \/ session[t].code # "none"
    BY <2>1 DEF SessionInv, Holds
  <2>3. session[t].status \in Statuses
    BY <2>1 DEF SessionRecord
  <2> QED
    BY <2>2, <2>3 DEF BridgeConnectionView, Live, Statuses
<1> QED
  BY PanelInvariant, <1>1, PTL

(* A binding token forgotten by a switch-off is never presented to the      *)
(* bridge again (endBridge, then clearBindingToken).                       *)
THEOREM ForgottenForGood == Spec => []ForgottenStaysForgotten
<1>1. SessionInv => ForgottenStaysForgotten
  BY DEF SessionInv, Fresh, ForgottenStaysForgotten
<1> QED
  BY PanelInvariant, <1>1, PTL

-----------------------------------------------------------------------------
(* The connects that are asked for and not made yet: the enabled pages      *)
(* whose effect is due.                                                    *)
Due == {t \in Tabs : page[t].on /\ ~page[t].ran}
CountInv ==
    /\ asks \in Nat /\ connects \in Nat
    /\ connects + Cardinality(Due) <= asks

(* How the pages owing a connect change with one page.                     *)
LEMMA DueFinite == IsFiniteSet(Due) /\ Cardinality(Due) \in Nat
<1>1. Due \subseteq Tabs /\ IsFiniteSet(Tabs)
  BY BridgeAssumption DEF Due
<1> QED
  BY <1>1, FS_Subset, FS_CardinalityType

LEMMA DueWithout ==
    ASSUME NEW t \in Tabs
    PROVE  /\ Cardinality(Due) \in Nat /\ Cardinality(Due \ {t}) \in Nat
           /\ Cardinality(Due \ {t}) <= Cardinality(Due)
           /\ t \in Due => Cardinality(Due \ {t}) = Cardinality(Due) - 1
<1>1. /\ IsFiniteSet(Due \ {t})
      /\ Cardinality(Due \ {t}) = IF t \in Due THEN Cardinality(Due) - 1 ELSE Cardinality(Due)
  BY DueFinite, FS_RemoveElement
<1>2. Cardinality(Due \ {t}) \in Nat /\ Cardinality(Due) \in Nat
  BY <1>1, DueFinite, FS_CardinalityType
<1> QED
  BY <1>1, <1>2

LEMMA DueWith ==
    ASSUME NEW t \in Tabs
    PROVE  /\ Cardinality(Due) \in Nat /\ Cardinality(Due \cup {t}) \in Nat
           /\ Cardinality(Due \cup {t}) <= Cardinality(Due) + 1
<1>1. /\ IsFiniteSet(Due \cup {t})
      /\ Cardinality(Due \cup {t}) = IF t \in Due THEN Cardinality(Due) ELSE Cardinality(Due) + 1
  BY DueFinite, FS_AddElement
<1>2. Cardinality(Due \cup {t}) \in Nat /\ Cardinality(Due) \in Nat
  BY <1>1, DueFinite, FS_CardinalityType
<1> QED
  BY <1>1, <1>2

(* A page whose effect is not due after a step owes nothing; one whose is   *)
(* owes one connect.                                                       *)
LEMMA DueAfter ==
    ASSUME PageInv, NEW t \in Tabs, NEW on, NEW ran, PageTo(t, on, ran)
    PROVE  /\ on /\ ~ran => Due' = Due \cup {t}
           /\ ~(on /\ ~ran) => Due' = Due \ {t}
<1>1. /\ page'[t].on = on /\ page'[t].ran = ran
      /\ \A s \in Tabs \ {t} : page'[s] = page[s]
  BY PagesAfter
<1> QED
  BY <1>1 DEF Due

LEMMA CountStep ==
    ASSUME PageInv, CountInv, [Next]_vars
    PROVE  CountInv'
<1> USE DEF CountInv
<1>1. \A t \in Tabs : page[t].on \in BOOLEAN /\ page[t].ran \in BOOLEAN /\ page[t].project \in Projects
  BY DEF PageInv, Types, PageRecord
<1>2. ASSUME NEW t \in Tabs, RunEffect(t) PROVE CountInv'
  <2>1. Due' = Due \ {t}
    BY <1>1, <1>2, RunEffectPage, DueAfter
  <2>2. page[t].on => t \in Due
    BY <1>1, <1>2 DEF RunEffect, EffectDue, Due
  <2>3. asks' = asks /\ (connects' = connects \/ (page[t].on /\ connects' = connects + 1))
    BY <1>2 DEF RunEffect, ConnectBridge
  <2>4. /\ Cardinality(Due) \in Nat /\ Cardinality(Due \ {t}) \in Nat
        /\ Cardinality(Due \ {t}) <= Cardinality(Due)
        /\ page[t].on => Cardinality(Due \ {t}) = Cardinality(Due) - 1
    BY <2>2, DueWithout
  <2>5. /\ asks' = asks /\ connects' \in Nat /\ connects' + Cardinality(Due \ {t}) <= asks
    BY <2>3, <2>4
  <2> QED
    BY <2>1, <2>5
<1>3. ASSUME NEW t \in Tabs, Toggle(t) PROVE CountInv'
  <2>1. page[t].ran = page[t].on /\ connects' = connects /\ asks' = IF ~page[t].on THEN asks + 1 ELSE asks
    BY <1>3 DEF Toggle, Act
  <2>2. PageTo(t, ~page[t].on, page[t].ran) /\ page[t].on \in BOOLEAN
    BY <1>1, <1>3, TogglePage
  <2>3. CASE page[t].on
    <3>1. Due' = Due \ {t}
      BY <2>2, <2>3, DueAfter
    <3>2. /\ Cardinality(Due) \in Nat /\ Cardinality(Due \ {t}) \in Nat
          /\ Cardinality(Due \ {t}) <= Cardinality(Due)
      BY DueWithout
    <3> QED
      BY <2>1, <2>3, <3>1, <3>2
  <2>4. CASE ~page[t].on
    <3>1. Due' = Due \cup {t}
      BY <2>1, <2>2, <2>4, DueAfter
    <3>2. /\ Cardinality(Due) \in Nat /\ Cardinality(Due \cup {t}) \in Nat
          /\ Cardinality(Due \cup {t}) <= Cardinality(Due) + 1
      BY DueWith
    <3> QED
      BY <2>1, <2>4, <3>1, <3>2
  <2> QED
    BY <2>3, <2>4
<1>4. ASSUME NEW t \in Tabs, Reload(t) PROVE CountInv'
  <2> DEFINE pref == stored.prefs[page[t].project]
  <2>1. connects' = connects /\ asks' = IF pref THEN asks + 1 ELSE asks
    BY <1>4 DEF Reload
  <2>2. PageTo(t, pref, FALSE) /\ pref \in BOOLEAN
    BY <1>1, <1>4, ReloadPage DEF PageInv, Types, StoredRecord
  <2> HIDE DEF pref
  <2>3. (pref => Due' = Due \cup {t}) /\ (~pref => Due' = Due \ {t})
    BY <2>2, DueAfter
  <2>4. /\ Cardinality(Due) \in Nat /\ Cardinality(Due \ {t}) \in Nat
        /\ Cardinality(Due \cup {t}) \in Nat
        /\ Cardinality(Due \ {t}) <= Cardinality(Due)
        /\ Cardinality(Due \cup {t}) <= Cardinality(Due) + 1
    BY DueWith, DueWithout
  <2>5. CASE pref
    BY <2>1, <2>3, <2>4, <2>5
  <2>6. CASE ~pref
    BY <2>1, <2>3, <2>4, <2>6
  <2> QED
    BY <2>5, <2>6
<1>5. ASSUME NEW t \in Tabs, SwitchProject(t) PROVE CountInv'
  <2>1. Due' = Due \ {t}
    BY <1>1, <1>5, SwitchPage, DueAfter
  <2>2. connects' = connects /\ asks' = asks
    BY <1>5 DEF SwitchProject, Act
  <2>3. /\ Cardinality(Due) \in Nat /\ Cardinality(Due \ {t}) \in Nat
        /\ Cardinality(Due \ {t}) <= Cardinality(Due)
    BY DueWithout
  <2> QED
    BY <2>1, <2>2, <2>3
<1>6. ASSUME NEW t \in Tabs, Draws(t) \/ Save(t) PROVE CountInv'
  <2>1. PageTo(t, page[t].on, page[t].ran)
    BY <1>6, DrawsPage, SavePage
  <2>2. Due' = Due
    <3>1. /\ page'[t].on = page[t].on /\ page'[t].ran = page[t].ran
          /\ \A s \in Tabs \ {t} : page'[s] = page[s]
      BY <2>1, PagesAfter
    <3> QED
      BY <3>1 DEF Due
  <2>3. connects' = connects /\ asks' = asks
    BY <1>6 DEF Draws, OpenSettings, Edit, CancelSettings, Save
  <2> QED
    BY <2>2, <2>3
<1>7. ASSUME NEW t \in Tabs, SessionStep(t) PROVE CountInv'
  <2>1. Due' = Due
    BY <1>7, PagesStay DEF Due
  <2>2. \/ connects' = connects /\ asks' = asks
        \/ connects' \in {connects, connects + 1} /\ asks' = asks + 1
    BY <1>7 DEF SessionStep, Reconnect, ConnectBridge, Act, Welcome, Peer, Fail
  <2> QED
    BY <2>1, <2>2, DueFinite
<1>8. CASE UNCHANGED vars
  BY <1>8 DEF vars, Due
<1> QED
  BY <1>2, <1>3, <1>4, <1>5, <1>6, <1>7, <1>8 DEF Next, SessionStep, Draws

LEMMA InitCount == Init => CountInv
<1> SUFFICES ASSUME Init PROVE CountInv
  OBVIOUS
<1> DEFINE W == {t \in Tabs : stored.prefs[Home[t]]}
<1>1. IsFiniteSet(W) /\ Cardinality(W) \in Nat
  BY BridgeAssumption, FS_Subset, FS_CardinalityType
<1>2. Due = W
  BY DEF Init, Opened, Due
<1> QED
  BY <1>1, <1>2 DEF Init, CountInv

(* Tabs never fight over a session: each connect answers an act of the      *)
(* person, since what put a tab out of its session does not make its       *)
(* effect due again (the panel's effect, the hold notice).                 *)
THEOREM NoTabFights == Spec => []ConnectsAreAsked
<1>1. CountInv => ConnectsAreAsked
  BY DueFinite DEF CountInv, ConnectsAreAsked
<1>2. Spec => [](PageInv /\ CountInv)
  <2>1. Spec => []PageInv
    BY PanelInvariant, PTL
  <2> QED
    BY InitCount, CountStep, <2>1, PTL DEF Spec
<1> QED
  BY <1>1, <1>2, PTL

(* The whole promise of the panel, for any number of tabs that share a      *)
(* token and any projects (BridgePanel, the settings dialog).               *)
THEOREM PanelKeepsPromise == Spec => []PanelSound
<1>1. Spec => []ConnectsAreAsked /\ []NeverSilentlyOff /\ []PanelMatches
                 /\ []ForgottenStaysForgotten /\ []Addressed
  BY NoTabFights, BridgeIsHeard, PanelIsThePreference, ForgottenForGood, AddressesAreReal
<1> QED
  BY <1>1, PTL DEF PanelSound

=============================================================================
