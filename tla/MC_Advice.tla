------------------------------ MODULE MC_Advice ------------------------------
EXTENDS Advice

CONSTANT Late    \* one of the commands, started when the others are through

\* Two spellings of a channel, a bus of that name, and a channel without one.
MCNames == {"Kick", "kick ", "KICK bus", " "}
MCDomain == [n \in MCNames |-> IF n = "KICK bus" THEN "bus" ELSE "channel"]
MCClean == [n \in MCNames |-> CASE n = " " -> None [] n = "KICK bus" -> "buses kick"
                                 [] OTHER -> "channels kick"]

\* A weak pattern for one of them, none for the other.
takenFor(kind, conf, origin) == [kind |-> kind, conf |-> conf, origin |-> origin]
MCPatterns == ("channels kick" :> takenFor("drums.kick", 6000, "pattern")) @@ ("buses kick" :> UNKNOWN)
\* One answer just below what the rules ask for, which three digits take there.
MCGuesses == {takenFor("speech.vocal", 3996, "llm"), takenFor("drums.kick", 9000, "llm")}
MCByHand == {takenFor("speech.vocal", 10000, "manual")}

is(kinds) == [op |-> "is", kinds |-> kinds]
rule(id) == ("id" :> id) @@ ("severity" :> "warning") @@ ("source" :> "book") @@ ("message" :> "said")
on(where) == [for_each |-> "channel", where |-> where]

MCBaseRules ==
    {rule("B1") @@ ("when" :> on({is({"drums.kick"})})) @@ ("requires_classifier" :> TRUE),
     rule("B2") @@ ("when" :> on({[op |-> "not", kinds |-> {"drums.kick"}]}))
                @@ ("event" :> "band") @@ ("requires_classifier" :> FALSE),
     rule("B3") @@ ("when" :> [for_each |-> "bus", where |-> {}]) @@ ("enabled" :> FALSE)}

flexible(n) == ("hardness" :> "flexible") @@ ("applies_when" :> ("monitor_bus_count" :> n))
only(id, off) == ("id" :> id) @@ ("supersedes" :> off)

\* Nothing; a principle that applies, one that does not and one for every show; fields
\* left blank; a message left blank; a slip in an operator, in an id, in a condition.
MCPrinciples == {
    << >>,
    << only("P1", {"B1"}) @@ flexible(2), only("P2", {"B2"}) @@ flexible(3),
       ("id" :> "P3") @@ ("hardness" :> Blank) @@ ("enabled" :> Blank) >>,
    << ("id" :> "P4") @@ ("message" :> Blank) @@ ("when" :> on({is({"unknown"})})) >>,
    << ("id" :> "P5") @@ ("when" :> Blank) >>,
    << only("P6", {"B9"}) >>,
    << only("P7", {"B1"}) @@ ("hardness" :> "flexible") @@ ("applies_when" :> ("monitors" :> 2)) >>,
    << ("id" :> "P8") @@ ("when" :> [for_each |-> "chanel", where |-> {}]) >> }

\* A rule that is not enabled and one that is, with an event; a rule of its own.
MCShows == {
    [rules |-> << rule("S1") @@ ("supersedes" :> {"B1"}) @@ ("enabled" :> FALSE),
                  rule("S2") @@ ("supersedes" :> {"B2"}) @@ ("event" :> Blank) >>, event |-> "corporate"],
    [rules |-> << rule("S3") @@ ("supersedes" :> {"B1", "B2"}) @@ ("event" :> Blank)
                  @@ ("when" :> (on({}) @@ ("any_of" :> << {is({"speech.vocal"})}, {is({"drums.kick"})} >>))) >>,
     event |-> Blank] }
MCWritten == {[is |-> "config", name |-> "anthropic", key |-> "marker", env |-> "empty"],
              [is |-> "config", name |-> "openai-compat", key |-> "good", env |-> "empty"],
              [is |-> "config", name |-> "anthropic", key |-> "empty", env |-> "DEEPSEEK_API_KEY"]}
MCEnvirons == {("ANTHROPIC_API_KEY" :> "good") @@ ("DEEPSEEK_API_KEY" :> "empty")}

\* The two share the environment only: one of them runs, with every rule file there is
\* and no provider.yaml, or with any of these and no rule file.
plainWindow ==
    /\ ~kill /\ pin = None /\ \A f \in DOMAIN files : ~exists(f)
    /\ hint = None /\ dialog = None /\ call = None /\ answer = None
plainRules ==
    /\ principles = << >> /\ show = None
    /\ \A c \in Commands : proc[c] = None
fewerWindows ==
    /\ pin = None => ~exists("named")
    /\ kill => ~exists("saved") /\ ~exists("cwd")
\* --json skips the lists, so the rule files matter less: it runs without a profile.
fewerRuns == \A c \in Commands : report[c].json => ~report[c].profile /\ principles = << >>
\* Two at a time, and where there are no rule files a third, once both are through.
through(c) == /\ proc[c] # None
              /\ \/ proc[c].at = "done"
                 \/ proc[c].at = "flush" /\ proc[c].pending = << >>
lateAtLast ==
    proc[Late] # None =>
        /\ principles = << >> /\ show = None /\ edits = 0
        /\ \A c \in Commands \ {Late} : through(c)
MCInit == AdviceInit /\ ProviderInit /\ (plainWindow \/ (plainRules /\ fewerWindows))
MCNext ==
    \/ plainWindow /\ moves = 0 /\ DoctorNext /\ fewerRuns' /\ lateAtLast' /\ UNCHANGED pvars
    \/ plainRules /\ edits = 0 /\ ProviderNext /\ UNCHANGED advice
MCSpec == MCInit /\ [][MCNext]_all

Terminals == Permutations(Commands \ {Late})

MCConditions == "monitor_bus_count" :> 2
=============================================================================
