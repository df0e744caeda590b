----------------------------- MODULE MC_Provider -----------------------------
EXTENDS Provider

\* A marker left in the file with a good key in the environment, a key that was pasted,
\* and a form saved without one.
MCWritten == {[is |-> "config", name |-> "anthropic", key |-> "marker", env |-> "empty"],
              [is |-> "config", name |-> "openai-compat", key |-> "good", env |-> "empty"],
              [is |-> "config", name |-> "anthropic", key |-> "empty", env |-> "DEEPSEEK_API_KEY"]}
MCEnvirons == {("ANTHROPIC_API_KEY" :> "good") @@ ("DEEPSEEK_API_KEY" :> "empty")}
=============================================================================
