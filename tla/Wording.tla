------------------------------ MODULE Wording -------------------------------
(***************************************************************************)
(* What the agent reads off a text (agent/mod.rs, model_router.rs): which  *)
(* model a message goes to, whether it is remembered, and whether a reply  *)
(* is a promise or says nothing.  A text is the set of marks the word      *)
(* lists of the code find in it, and its number of words.                  *)
(***************************************************************************)
EXTENDS Naturals, FiniteSets, FiniteSetsExt, SequencesExt

CONSTANTS
  Marks,  \* the marks of each text
  Words   \* the number of its words

Marked(t, marks) == Marks[t] \cap marks # {}

\* complexity_score: each list counts once, however many of its words are there.
LengthScore(n) == CASE n <= 3 -> 0 [] n \in 4..10 -> 5 [] n \in 11..30 -> 10 [] n \in 31..60 -> 20 [] OTHER -> 30
Weight(mark) == CASE mark = "ticks" -> 15 [] mark = "code" -> 8
                  [] mark \in {"plan", "numbered"} -> 10 [] mark = "action" -> 5 [] OTHER -> 0
Minus(score, n) == IF score < n THEN 0 ELSE score - n
ComplexityScore(q) ==
    LET raw    == LengthScore(Words[q]) + MapThenSumSet(Weight, Marks[q])
        simple == IF Words[q] < 15 /\ Marked(q, {"what"}) /\ ~Marked(q, {"why"})
                  THEN Minus(raw, 15) ELSE raw
        yesno  == Marked(q, {"is"}) /\ Words[q] < 12 /\ simple < 20
    IN  IF Words[q] <= 4 /\ Marked(q, {"greeting"}) THEN 0
        ELSE Min({100, IF yesno THEN Minus(simple, 10) ELSE simple})

RouteModel(q) == IF ComplexityScore(q) >= 20 THEN "default" ELSE "cheap"
IsGreeting(q) == ComplexityScore(q) = 0

\* The message is stored under an autosave key.
SavesMessage(q) == Marked(q, {"over20"}) /\ ~IsGreeting(q) /\ ~Marked(q, {"imperative"})

\* should_suggest_backgrounding
SuggestsBackground(q, sender, tools) ==
    /\ sender # "subagent"
    /\ tools \cap {"plan_create", "spawn"} # {}
    /\ ~Marked(q, {"optout"})
    /\ \/ Marked(q, {"bigtask"})
       \/ {"over40", "verbtask", "noun"} \subseteq Marks[q]
       \/ {"asks", "over260", "clauses"} \subseteq Marks[q]
BackgroundTool(q, sender, tools) ==
    IF ~SuggestsBackground(q, sender, tools) THEN "none"
    ELSE IF "plan_create" \in tools THEN "plan_create" ELSE "spawn"

\* should_force_follow_through
Promises(t, tools) ==
    LET acts == {"starter", "verb"} \subseteq Marks[t]
    IN  /\ tools # {} /\ ~Marked(t, {"letknow"})
        /\ \/ (acts \/ Marked(t, {"acting"})) /\ Marked(t, {"soon", "colon"})
           \/ Marked(t, {"phrase"})
           \/ /\ acts /\ tools \cap {"file_read", "shell"} # {}
              /\ {"laststarter", "lastverb"} \subseteq Marks[t]

\* is_low_value_response
IsLowValue(t) == Marked(t, {"empty", "placeholder", "symbols"})
=============================================================================
