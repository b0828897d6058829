------------------------------- MODULE Wizard -------------------------------
(***************************************************************************)
(* The setup wizard (tui_onboard.rs) and the configuration it loads and    *)
(* writes (onboard.rs).  Up and down only move a selection, so Enter is    *)
(* pressed with any item selected.  A list of models is told by the        *)
(* provider it was fetched from; what is typed into a section, by the      *)
(* session of the wizard it was typed in.  Keys and base urls are left out,*)
(* and of a file that was written by hand all but what is loaded of it.    *)
(***************************************************************************)
EXTENDS Naturals, Sequences, FiniteSets, SequencesExt

CONSTANTS
  KeyProviders,   \* providers asked for a key: gemini, openai, ...
  LocalProviders, \* ollama and lmstudio
  Custom,         \* openai-compatible
  CheapProviders, \* providers of the cheap model, but "none"
  Sections,       \* sections whose contents are followed
  Unset,          \* Option::None
  NoModel,        \* the model ""
  Given,          \* what config.json may say that the wizard did not write
  MaxVisits,      \* bound of the model: sessions of the wizard
  MaxFetches      \* bound of the model: fetches of a session

WizNames == KeyProviders \cup LocalProviders \cup {Custom, "gemini", Unset, NoModel} \cup CheapProviders
Configs == [provider : WizNames, own : WizNames, model : WizNames, cheap : WizNames, cheapModel : WizNames,
            is : [Sections -> Nat]]
\* What a session of the wizard may touch.
Parts == Sections \cup {"provider", "cheap"}

ASSUME WizardAssumption ==
  /\ Unset \notin KeyProviders \cup LocalProviders \cup {Custom, "gemini", NoModel} \cup CheapProviders
  /\ Given \subseteq Configs /\ {"provider", "cheap"} \cap Sections = {}

VARIABLES
  ui,      \* what the wizard shows: see Closed
  cfg,     \* the PartialConfig
  threads, \* fetches under way: [chan, of]
  mail,    \* answers sent to the receiver held: [of, got]
  configFile, \* config.json
  visit    \* sessions so far

wizVars == <<ui, cfg, threads, mail, configFile, visit>>

\* Step::all()
Steps == <<"provider", "cheap", "timezone", "memory", "voice", "channels", "composio", "web", "pushover">>
Opening(step) == CASE step \in {"provider", "cheap", "memory", "channels"} -> "select"
                   [] step \in {"voice", "composio", "pushover"} -> "confirm"
                   [] OTHER -> "none"

Closed == [on |-> FALSE, edit |-> FALSE, step |-> "done", stage |-> "none", pick |-> Unset, cheapPick |-> Unset,
           models |-> Unset, fetching |-> FALSE, rx |-> 0, fetches |-> 0, save |-> FALSE, touched |-> {},
           bare |-> {}]  \* history: providers that had no model to offer
EmptyConfig == [provider |-> Unset, own |-> Unset, model |-> Unset, cheap |-> Unset, cheapModel |-> Unset,
                is |-> [s \in Sections |-> 0]]
NoFile == [exists |-> FALSE, parses |-> FALSE, config |-> EmptyConfig]
\* One that cannot be read, or is no JSON.
BrokenFile == [NoFile EXCEPT !.exists = TRUE]
FileOf(config) == [exists |-> TRUE, parses |-> TRUE, config |-> config]

WizardInit ==
    /\ ui = Closed /\ cfg = EmptyConfig /\ threads = {} /\ mail = {}
    /\ configFile \in {NoFile, BrokenFile} \cup {FileOf(given) : given \in Given} /\ visit = 0

-----------------------------------------------------------------------------
\* Navigation.  Editing, every step leads back to the summary.  What a step
\* selects and fetches is selected and fetched anew when it is entered again.
At(u, step, stage) ==
    [u EXCEPT !.step = step, !.stage = stage, !.models = Unset, !.pick = Unset, !.cheapPick = Unset]
Enter(u, step) == At(u, step, Opening(step))
AdvanceStep(u) ==
    LET i == SelectInSeq(Steps, LAMBDA s : s = u.step)
    IN  IF u.edit \/ i = Len(Steps) THEN At(u, "summary", "none") ELSE Enter(u, Steps[i + 1])
GoBack(u) ==
    LET i == SelectInSeq(Steps, LAMBDA s : s = u.step)
    IN  IF u.edit THEN At(u, "summary", "none")
        ELSE IF i = 1 THEN At(u, "welcome", "none") ELSE Enter(u, Steps[i - 1])

Showing(step, stage) == ui.on /\ ui.step = step /\ ui.stage = stage /\ ~ui.fetching
Goto(u) == ui' = u /\ UNCHANGED <<cfg, threads, mail, configFile, visit>>
Stage(stage) == Goto([ui EXCEPT !.stage = stage])
\* What is typed into a section, or that it is switched off (0).
Put(section, value) ==
    IF section \in Sections THEN cfg' = [cfg EXCEPT !.is[section] = value] ELSE UNCHANGED cfg
Touch(u, parts) == [u EXCEPT !.touched = @ \cup (parts \cap Parts)]
Fill(u, section, value) ==
    /\ ui' = Touch(u, {section})
    /\ Put(section, value)
    /\ UNCHANGED <<threads, mail, configFile, visit>>

\* default_values_from_json: the agent's model is the provider's where that has
\* none; without a provider neither is read, and of a broken file nothing.
FromJson(c) ==
    IF c.provider = Unset THEN [c EXCEPT !.own = Unset, !.model = Unset]
    ELSE [c EXCEPT !.own = IF @ # Unset THEN @ ELSE IF c.model # Unset THEN c.model ELSE NoModel]
Loaded == IF configFile.parses THEN FromJson(configFile.config) ELSE EmptyConfig
\* interactive_onboard and App::new
Start ==
    /\ ~ui.on /\ visit < MaxVisits
    /\ visit' = visit + 1
    /\ cfg' = Loaded
    /\ ui' = [Closed EXCEPT !.on = TRUE, !.edit = configFile.exists,
                            !.step = IF configFile.exists THEN "summary" ELSE "welcome"]
    /\ UNCHANGED <<threads, mail, configFile>>

\* to_json: gemini is the provider, and its model the agent's, by default.
Json == [cfg EXCEPT !.provider = IF @ = Unset THEN "gemini" ELSE @,
                    !.own = IF cfg.provider = Unset THEN "gemini" ELSE @,
                    !.model = IF @ = Unset THEN "gemini" ELSE @]
\* The terminal is given back; the threads of fetches have no one to answer.
\* The write may fail, before or after the file is cut off.
Leave ==
    /\ ui' = Closed /\ cfg' = EmptyConfig
    /\ threads' = {} /\ mail' = {}
    /\ configFile' \in {configFile} \cup IF ui.save THEN {FileOf(Json), BrokenFile} ELSE {}
    /\ UNCHANGED visit
CtrlC == ui.on /\ Leave

Welcome ==
    \/ Showing("welcome", "none") /\ Goto(Enter(ui, "provider"))
    \/ Showing("welcome", "none") /\ Leave

-----------------------------------------------------------------------------
\* Fetching models: each fetch has a thread and a channel of its own.
NextFetch == ui.fetches + 1
(* A slip: the channel of the first fetch is used for all. *)
OneChannel == 1
Channel == NextFetch
SpawnFetch(u, of, c) ==
    /\ ui.fetches < MaxFetches
    /\ cfg' = c
    /\ ui' = [u EXCEPT !.stage = "fetching", !.fetching = TRUE, !.fetches = NextFetch, !.rx = Channel]
    /\ threads' = threads \cup {[chan |-> Channel, of |-> of]}
    /\ UNCHANGED <<mail, configFile, visit>>

\* The models of a provider, none, or an error; without a receiver nothing is
\* sent.
FetchAnswers ==
    \E t \in threads, got \in {"models", "none", "error"} :
      /\ threads' = threads \ {t}
      /\ mail' = IF t.chan = ui.rx THEN mail \cup {[of |-> t.of, got |-> got]} ELSE mail
      /\ UNCHANGED <<ui, cfg, configFile, visit>>

\* on_tick: an error leaves the default model of what is selected, which is ""
\* for a custom provider; with no model to select, Enter takes "" as well.
Selected == IF ui.step = "provider" THEN ui.pick ELSE ui.cheapPick
Offered(m) == CASE m.got = "models" -> m.of
                [] m.got = "none" -> NoModel
                [] OTHER -> IF ui.step = "provider" /\ ui.pick = Custom THEN NoModel ELSE Selected
Tick ==
    /\ ui.fetching
    /\ \E m \in mail :
         /\ mail' = {}
         /\ ui' = [ui EXCEPT !.fetching = FALSE, !.rx = 0, !.stage = "models", !.models = Offered(m),
                     !.bare = IF Offered(m) = NoModel THEN ui.bare \cup {Selected} ELSE ui.bare]
    /\ UNCHANGED <<cfg, threads, configFile, visit>>

\* Esc drops the receiver, and what was sent to it.
CancelFetch ==
    /\ ui.on /\ ui.fetching
    /\ ui' = [ui EXCEPT !.fetching = FALSE, !.rx = 0, !.stage = "select"]
    /\ mail' = {}
    /\ UNCHANGED <<cfg, threads, configFile, visit>>

-----------------------------------------------------------------------------
\* Its model is its default until one is picked.
Chosen(name) == [cfg EXCEPT !.provider = name, !.own = name]

\* A local provider is in the configuration as soon as it is selected.
SelectProvider(p) ==
    /\ Showing("provider", "select")
    /\ LET u == [ui EXCEPT !.pick = p]
       IN  IF p \in LocalProviders THEN SpawnFetch(Touch(u, {"provider"}), p, Chosen(p))
           ELSE Goto([u EXCEPT !.stage = IF p = "gemini" THEN "gemini_auth"
                                         ELSE IF p = Custom THEN "base_url" ELSE "key"])
\* With the login of the Gemini CLI no model is asked for.
GeminiAuth ==
    /\ Showing("provider", "gemini_auth")
    /\ \/ Stage("key")
       \/ Stage("select")
       \/ /\ ui' = Touch(AdvanceStep(ui), {"provider"})
          /\ cfg' = [Chosen("gemini") EXCEPT !.model = "gemini"]
          /\ UNCHANGED <<threads, mail, configFile, visit>>
ProviderKey ==
    /\ Showing("provider", "key")
    /\ Stage("select") \/ SpawnFetch(Touch(ui, {"provider"}), ui.pick, Chosen(ui.pick))
BaseUrl ==
    /\ Showing("provider", "base_url")
    /\ Stage("select") \/ SpawnFetch(Touch(ui, {"provider"}), Custom, Chosen(Custom))
PickModel ==
    /\ Showing("provider", "models")
    /\ \/ Stage("select")
       \/ /\ ui' = AdvanceStep(ui)
          /\ cfg' = IF cfg.provider = Unset THEN cfg ELSE [cfg EXCEPT !.own = ui.models, !.model = ui.models]
          /\ UNCHANGED <<threads, mail, configFile, visit>>

SelectCheap(p) ==
    /\ Showing("cheap", "select")
    /\ IF p # "none" THEN Goto([ui EXCEPT !.cheapPick = p, !.stage = "key"])
       ELSE /\ ui' = Touch(AdvanceStep([ui EXCEPT !.cheapPick = Unset]), {"cheap"})
            /\ cfg' = [cfg EXCEPT !.cheap = Unset, !.cheapModel = Unset]
            /\ UNCHANGED <<threads, mail, configFile, visit>>
CheapKey ==
    /\ Showing("cheap", "key")
    /\ Stage("select") \/ SpawnFetch(Touch(ui, {"cheap"}), ui.cheapPick, [cfg EXCEPT !.cheap = ui.cheapPick])
PickCheapModel ==
    /\ Showing("cheap", "models")
    /\ \/ Stage("select")
       \/ /\ ui' = AdvanceStep(ui)
          /\ cfg' = [cfg EXCEPT !.cheapModel = ui.models]
          /\ UNCHANGED <<threads, mail, configFile, visit>>
BackFromList == \E step \in {"provider", "cheap", "memory", "channels"} : Showing(step, "select") /\ Goto(GoBack(ui))

-----------------------------------------------------------------------------
\* Steps that ask yes or no, and then for details.
Confirmed(step, off) ==
    \/ /\ Showing(step, "confirm")
       /\ Stage("details") \/ Goto(GoBack(ui)) \/ off
    \/ /\ Showing(step, "details")
       /\ Stage("confirm") \/ Fill(AdvanceStep(ui), step, visit)
Voice == Confirmed("voice", Fill(AdvanceStep(ui), "voice", 0))
Composio == Confirmed("composio", Fill(AdvanceStep(ui), "composio", 0))
Pushover == Confirmed("pushover", Fill(AdvanceStep(ui), "pushover", 0))

Timezone ==
    /\ Showing("timezone", "none")
    /\ Fill(AdvanceStep(ui), "timezone", visit) \/ Goto(GoBack(ui))
\* Embeddings are asked for with sqlite only, and never switched off.
MemoryBackend ==
    \/ /\ Showing("memory", "select")
       /\ Fill([ui EXCEPT !.stage = "confirm"], "memory", visit) \/ Fill(AdvanceStep(ui), "memory", visit)
    \/ /\ Showing("memory", "confirm")
       /\ Stage("details") \/ Goto(AdvanceStep(ui)) \/ Stage("select")
    \/ /\ Showing("memory", "details")
       /\ Fill(AdvanceStep(ui), "embed", visit) \/ Stage("confirm")

\* The fifth item asks for Telegram and WhatsApp in one form.
Channels ==
    \/ /\ Showing("channels", "select")
       /\ \/ \E stage \in {"telegram", "both", "whatsapp", "email"} : Stage(stage)
          \/ /\ ui' = Touch(AdvanceStep(ui), {"telegram", "whatsapp", "email"})
             /\ cfg' = [cfg EXCEPT !.is = [s \in Sections |->
                          IF s \in {"telegram", "whatsapp", "email"} THEN 0 ELSE @[s]]]
             /\ UNCHANGED <<threads, mail, configFile, visit>>
    \/ \E channel \in {"telegram", "whatsapp", "email"} :
         /\ Showing("channels", channel)
         /\ Stage("select") \/ Fill([ui EXCEPT !.stage = "another"], channel, visit)
    \/ /\ Showing("channels", "both")
       /\ \/ Stage("select")
          \/ /\ ui' = Touch([ui EXCEPT !.stage = "another"], {"telegram", "whatsapp"})
             /\ cfg' = [cfg EXCEPT !.is = [s \in Sections |->
                          IF s \in {"telegram", "whatsapp"} THEN visit ELSE @[s]]]
             /\ UNCHANGED <<threads, mail, configFile, visit>>
    \/ /\ Showing("channels", "another")
       /\ Stage("select") \/ Goto(AdvanceStep(ui))
\* Esc goes on here, not back.
WebSearch ==
    /\ Showing("web", "none")
    /\ Goto(AdvanceStep(ui)) \/ \E value \in {0, visit} : Fill(AdvanceStep(ui), "web", value)

\* Editing, any step may be entered; otherwise it starts over or goes back.
Summary ==
    /\ Showing("summary", "none")
    /\ \/ \E i \in DOMAIN Steps : (ui.edit \/ Steps[i] \in {"provider", "pushover"}) /\ Goto(Enter(ui, Steps[i]))
       \/ Goto([ui EXCEPT !.save = TRUE, !.step = "done"])
       \/ Leave
Done == Showing("done", "none") /\ Leave

WizardNext ==
    \/ Start \/ CtrlC \/ Welcome \/ FetchAnswers \/ Tick \/ CancelFetch
    \/ \E p \in KeyProviders \cup LocalProviders \cup {Custom} : SelectProvider(p)
    \/ GeminiAuth \/ ProviderKey \/ BaseUrl \/ PickModel
    \/ \E p \in CheapProviders \cup {"none"} : SelectCheap(p)
    \/ CheapKey \/ PickCheapModel \/ BackFromList
    \/ Timezone \/ MemoryBackend \/ Voice \/ Channels \/ Composio \/ WebSearch \/ Pushover
    \/ Summary \/ Done

WizardSpec == WizardInit /\ [][WizardNext]_wizVars
-----------------------------------------------------------------------------
\* A model of the provider's own, or "" where it had none to offer.
ModelFits(u, name, model) == model = name \/ (model = NoModel /\ name \in u.bare)
Saved == configFile' # configFile /\ configFile'.parses

(* What is saved is what was asked for.  The model of a provider chosen in  *)
(* this session is one of its own, so answers to fetches that were         *)
(* cancelled do not get in; in a session that edits no file so are those   *)
(* of the agent and of the cheap provider.  What was not touched is saved  *)
(* as it was loaded, if the file could be parsed (interactive_onboard, App,*)
(* PartialConfig).                                                         *)
SavedIsAsked ==
  [][Saved =>
       LET old == configFile.config  new == configFile'.config
       IN /\ "provider" \in ui.touched => ModelFits(ui, new.provider, new.own)
          /\ ~ui.edit => new.model = new.own /\ ModelFits(ui, new.cheap, new.cheapModel)
          /\ configFile.parses =>
               /\ \A s \in Sections \ ui.touched : new.is[s] = old.is[s]
               /\ "provider" \notin ui.touched /\ old.provider # Unset =>
                    \A name \in {"provider", "own", "model"} : old[name] # Unset => new[name] = old[name]
               /\ "cheap" \notin ui.touched => new.cheap = old.cheap /\ new.cheapModel = old.cheapModel]_wizVars
=============================================================================
