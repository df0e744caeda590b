------------------------------ MODULE Provider ------------------------------
(***************************************************************************)
(* The model behind the assisted paths: where its key is looked for        *)
(* (classifier/provider.py), the two adapters, what a failing call is      *)
(* called (classifier/provider_errors.py), the key line of the pages       *)
(* (ui/key_status.py) and the Settings dialog that writes provider.yaml    *)
(* and tests it (ui/settings_dialog.py).                                   *)
(*                                                                         *)
(* A configuration names a provider, a key that was pasted, and the        *)
(* environment variable to fall back to; the name of the model is filled   *)
(* in like that variable.  A key is empty, a fill-me-in marker, good or    *)
(* refused by the provider; "empty" is the empty text.                     *)
(***************************************************************************)
EXTENDS Naturals, Sequences, TLC

CONSTANTS
    Written,    \* the configurations found in files
    Environs,   \* what the two environment variables may hold
    None,
    MaxMoves    \* bound: edits of files and forms

Providers == {"anthropic", "openai-compat"}
Keys == {"empty", "marker", "good", "refused"}
mask == "mask"  \* settings_io.MASK and the tail of the key
variableOf == [p \in Providers |-> IF p = "anthropic" THEN "ANTHROPIC_API_KEY" ELSE "DEEPSEEK_API_KEY"]
Configs == [is : {"config"}, name : Providers, key : Keys, env : {"empty"} \cup {variableOf[p] : p \in Providers}]
DEFAULT_CONFIG == [is |-> "config", name |-> "anthropic", key |-> "empty", env |-> "empty"]

\* A file that is not there, one that is not YAML, and one with an unknown field.
unusable(why) == [DEFAULT_CONFIG EXCEPT !.is = why]
Files == Written \cup {unusable(why) : why \in {"absent", "no_yaml", "unknown_field"}}

ASSUME ProviderAssumption ==
    /\ Written \subseteq Configs /\ MaxMoves \in Nat
    /\ Environs \subseteq [{variableOf[p] : p \in Providers} -> Keys]

VARIABLES
    environ,    \* the environment variables that hold keys
    pin,        \* WING_PROVIDER_CONFIG: the name of a file, or None
    files,      \* provider.yaml in the knowledge directory, in the current one, one pinned
    kill,       \* WING_DISABLE_LLM
    hint,       \* what the key line says, and of which configuration
    dialog,     \* the Settings form and the key it loaded, or None
    call,       \* the model call under way, or None
    answer,     \* how the last one ended
    moves

settings == <<pin, files, dialog>>
pvars == <<environ, settings, kill, hint, call, answer, moves>>

-----------------------------------------------------------------------------
(* Which configuration                                                     *)

resolve(c) == [c EXCEPT !.env = IF @ = "empty" THEN variableOf[c.name] ELSE @]

is_placeholder_key(key) == key \in {"empty", "marker"}

\* Mutant of has_usable_key: the default variable is not filled in.
usableAsWritten(c) ==
    ~is_placeholder_key(c.key) \/ (c.env # "empty" /\ ~is_placeholder_key(environ[c.env]))

has_usable_key(c) ==
    ~is_placeholder_key(c.key) \/ ~is_placeholder_key(environ[resolve(c).env])

\* The key an adapter sends: whatever was pasted, else the variable.
keySent(c) == IF c.key # "empty" THEN c.key ELSE environ[resolve(c).env]

exists(f) == files[f].is # "absent"
raises(c) == c.is # "config"

\* A file that raises stands for what is raised.
load_config ==
    IF pin # None THEN files[pin]
    ELSE IF exists("cwd") THEN files["cwd"]
    ELSE DEFAULT_CONFIG

resolve_config ==
    IF pin # None \/ ~exists("saved") THEN load_config
    ELSE IF raises(files["saved"]) \/ has_usable_key(files["saved"]) THEN files["saved"]
    ELSE load_config

\* key_configured: a file that raises ValueError counts as no key; what is not YAML
\* raises something else, and nothing catches it.
ShowKeyLine ==
    /\ hint' = LET c == resolve_config IN
               [of |-> c, says |-> IF c.is = "no_yaml" THEN "raises"
                                   ELSE IF ~raises(c) /\ has_usable_key(c) THEN "configured" ELSE "no_key"]
    /\ UNCHANGED <<environ, settings, kill, call, answer, moves>>

-----------------------------------------------------------------------------
(* A call                                                                  *)

\* What may come of one request, once there is a key to send.  A refusal of the model is
\* a reply without the parsed output the Anthropic adapter takes its fields from.
Fates(c) ==
    (IF keySent(c) = "good" THEN {"fits", "misfits"} ELSE {"unauthorised"})
    \cup {"quota", "other_status", "network", "no_sdk"}
    \cup (IF keySent(c) = "good" THEN {"unreadable"} ELSE {})
    \cup (IF keySent(c) = "good" /\ c.name = "anthropic" THEN {"refusal"} ELSE {})

\* An exception, as far as provider_errors can see it.
exception(type, status, says) == [type |-> type, status |-> status, says |-> says]

\* What the adapter raises, its cause after it: the OpenAI adapter raises a ProviderError
\* of its own for a missing key and for a reply that is no JSON.
adapterRaises(c, fate) ==
    CASE fate = "no_key" -> <<exception(IF c.name = "anthropic" THEN "RuntimeError" ELSE "ProviderError", 0, "no_API_key")>>
      [] fate = "no_sdk" -> <<exception("RuntimeError", 0, "pip_install"), exception("ImportError", 0, "nothing")>>
      [] fate = "unauthorised" -> <<exception("APIStatusError", 401, "nothing")>>
      [] fate = "quota" -> <<exception("APIStatusError", 429, "nothing")>>
      [] fate = "other_status" -> <<exception("APIStatusError", 404, "nothing")>>
      [] fate = "network" -> <<exception("APIConnectionError", 0, "nothing")>>
      [] fate = "refusal" -> <<exception("AttributeError", 0, "nothing")>>
      [] fate = "unreadable" /\ c.name = "anthropic" -> <<exception("ValueError", 0, "nothing")>>
      [] fate = "unreadable" -> <<exception("ProviderError", 0, "nothing"), exception("ValueError", 0, "nothing")>>

\* complete_json: a ProviderError passes, everything else is wrapped in one.
chainOf(c, fate) ==
    LET chain == adapterRaises(c, fate) IN
    IF chain[1].type = "ProviderError" THEN chain ELSE <<exception("ProviderError", 0, chain[1].says)>> \o chain

_classify_one(e) ==
    IF e.status \in {401, 403} THEN "bad_key"
    ELSE IF e.status \in {402, 429} THEN "quota"
    ELSE IF e.says = "no_API_key" THEN "no_key"
    ELSE IF e.type = "APIConnectionError" THEN "no_network"
    ELSE IF e.type = "ImportError" \/ e.says = "pip_install" THEN "sdk_missing"
    ELSE None

links(chain) == DOMAIN chain

\* classify: the first link that tells; else a reply at fault, or the cause's own words.
classify(chain) ==
    LET telling == {i \in links(chain) : _classify_one(chain[i]) # None}
        wrapper == {i \in links(chain) : chain[i].type = "ProviderError"}
        first(s) == CHOOSE i \in s : \A j \in s : i <= j
    IN IF telling # {} THEN _classify_one(chain[first(telling)])
       ELSE IF wrapper = {} THEN "other"
       ELSE LET i == first(wrapper) IN
            IF i = Len(chain) \/ chain[i + 1].type = "ValueError" THEN "bad_reply" ELSE "other"

\* The kill switch is asked before any provider is made; a configuration that raises
\* does so on the worker.
begins(c, probing) ==
    IF raises(c) THEN /\ answer' = [of |-> c, fate |-> "config", code |-> classify(<<exception("ValueError", 0, "nothing")>>)]
                      /\ UNCHANGED call
    ELSE call' = [of |-> c, attempt |-> 1, probe |-> probing] /\ answer' = None

AskModel ==
    /\ call = None /\ ~kill
    /\ begins(resolve_config, None)
    /\ UNCHANGED <<environ, settings, kill, hint, moves>>

ends(fate, code) == answer' = [of |-> call.of, fate |-> fate, code |-> code] /\ call' = None

\* complete_json: a reply that misfits is asked for once more, a failure is not.
Attempt ==
    /\ call # None
    /\ IF is_placeholder_key(keySent(call.of))
       THEN ends("no_key", classify(chainOf(call.of, "no_key")))
       ELSE \E fate \in Fates(call.of) :
            IF fate = "fits" THEN ends(fate, "ok")
            ELSE IF fate # "misfits" THEN ends(fate, classify(chainOf(call.of, fate)))
            ELSE IF call.attempt = 2 THEN ends(fate, classify(<<exception("ProviderError", 0, "nothing")>>))
            ELSE call' = [call EXCEPT !.attempt = 2] /\ UNCHANGED answer
    /\ UNCHANGED <<environ, settings, kill, hint, moves>>

-----------------------------------------------------------------------------
(* Settings                                                                *)

\* _loaded_config: the saved copy when there is one; a file that raises opens no dialog.
OpenSettings ==
    /\ dialog = None /\ moves < MaxMoves
    /\ moves' = moves + 1
    /\ LET c == IF exists("saved") THEN files["saved"] ELSE load_config IN
       /\ ~raises(c)
       /\ dialog' = [form |-> [resolve(c) EXCEPT !.key = IF @ = "empty" THEN "empty" ELSE mask], loaded |-> c.key]
    /\ UNCHANGED <<environ, pin, files, kill, hint, call, answer>>

\* Another provider leaves the other fields as they are.
Fill ==
    /\ dialog # None /\ moves < MaxMoves
    /\ moves' = moves + 1
    /\ \/ \E p \in Providers : dialog' = [dialog EXCEPT !.form.name = p]
       \/ \E k \in Keys : dialog' = [dialog EXCEPT !.form.key = k]
       \/ dialog' = [dialog EXCEPT !.form.env = "empty"]
    /\ UNCHANGED <<environ, pin, files, kill, hint, call, answer>>

\* resolve_key: the mask stands for the key that was loaded.
resolve_key == IF dialog.form.key = mask THEN dialog.loaded ELSE dialog.form.key

formAsSaved == [dialog.form EXCEPT !.key = resolve_key]

\* save: in place, so a write that fails may leave the file empty, which reads as the
\* defaults.
save(worked) ==
    IF worked THEN files' = [files EXCEPT !["saved"] = formAsSaved] /\ pin' = "saved"
    ELSE files' \in {files, [files EXCEPT !["saved"] = DEFAULT_CONFIG]} /\ UNCHANGED pin

\* Save and close; the dialog stays when the write failed.
Save ==
    /\ dialog # None
    /\ \E worked \in BOOLEAN : save(worked) /\ dialog' = IF worked THEN None ELSE dialog
    /\ UNCHANGED <<environ, kill, hint, call, answer, moves>>

CloseSettings ==
    /\ dialog # None
    /\ dialog' = None
    /\ UNCHANGED <<environ, pin, files, kill, hint, call, answer, moves>>

\* run_probe: a save whose failure it does not look at, then what resolve_config finds.
TestConnection ==
    /\ dialog # None /\ call = None /\ ~kill
    /\ UNCHANGED <<environ, kill, hint, dialog, moves>>
    /\ \E worked \in BOOLEAN :
        /\ save(worked)
        /\ LET c == resolve_config' IN
           IF raises(c) THEN UNCHANGED <<call, answer>>
           ELSE /\ call' = [of |-> c, attempt |-> 1, probe |-> IF worked THEN formAsSaved ELSE None]
                /\ answer' = None

\* A person with a text editor, or the command line in another directory.
EditFile ==
    /\ moves < MaxMoves
    /\ moves' = moves + 1
    /\ \E f \in DOMAIN files, content \in Files : files' = [files EXCEPT ![f] = content]
    /\ UNCHANGED <<environ, pin, kill, hint, dialog, call, answer>>

-----------------------------------------------------------------------------

ProviderInit ==
    /\ environ \in Environs /\ kill \in BOOLEAN
    /\ files \in [{"saved", "cwd", "named"} -> {unusable("absent")} \cup Written] /\ pin \in {None, "named"}
    /\ hint = None /\ dialog = None /\ call = None /\ answer = None /\ moves = 0

ProviderNext ==
    \/ ShowKeyLine \/ AskModel \/ Attempt
    \/ OpenSettings \/ Fill \/ Save \/ CloseSettings \/ TestConnection \/ EditFile

ProviderSpec == ProviderInit /\ [][ProviderNext]_pvars

-----------------------------------------------------------------------------
(* Properties                                                              *)

\* The key line and the calls agree: a call of the configuration it warned about finds no
\* key, and one of the configuration it was content with does, if no marker was pasted.
HintAgrees ==
    hint # None /\ answer # None /\ answer.of = hint.of =>
        /\ hint.says = "no_key" => answer.fate \in {"no_key", "config"}
        /\ hint.says = "configured" /\ hint.of.key # "marker" => answer.fate # "no_key"

\* "Could this config authenticate a call, without making one? ... a half-filled
\* provider.yaml still falls through to the env var" (has_usable_key): a call of a
\* configuration the key line was content with is not refused for want of a key.
UsableKeyAuthenticates ==
    hint # None /\ hint.says = "configured" /\ answer # None /\ answer.of = hint.of =>
        answer.fate # "no_key"

=============================================================================
