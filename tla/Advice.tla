------------------------------- MODULE Advice -------------------------------
(***************************************************************************)
(* The doctor command (cli/commands.doctor) over Naming: rules read from   *)
(* YAML a person edits (advisory/loader.py, layers.py, validation.py),     *)
(* which of them are active and which base rules they switch off           *)
(* (advisory/resolver.py), and what they find (evaluator.py,               *)
(* predicates.py).  The report is made of four readings of the same files, *)
(* one after the other.                                                    *)
(*                                                                         *)
(* An entry of a rule file is a function of the fields that are written; a *)
(* field whose value was left off is Blank.                                *)
(***************************************************************************)
EXTENDS Naming, Selection, FiniteSets, SequencesExt

CONSTANTS
    BaseRules,      \* the entries of advisory/base_rules
    Principles,     \* what principles.yaml may say: a sequence of entries
    Shows,          \* what the show file of --profile may say: rules and an event
    conditions,     \* resolver.CONDITIONS of the scene, for what is known
    Blank

SEVERITIES == {"info", "warning", "error"}
EVENTS == {"universal", "corporate", "band"}
OPERATORS == {"is", "not"}
ITERATORS == {"channel", "bus", "none"}

VARIABLES
    principles,     \* principles.yaml
    show,           \* the show file, or None
    report,         \* what each command has put together
    edited          \* history: a rule file changed since the command began

rules_on_disk == <<principles, show>>
advice == <<naming, rules_on_disk, report, edited>>
all == <<advice, pvars>>

-----------------------------------------------------------------------------
(* One entry                                                               *)

\* Mutant of _optional: a default only for a field that is not written.
get(e, f, default) == IF f \in DOMAIN e THEN e[f] ELSE default

\* _optional: a blank field is unset.
_optional(e, f, default) == IF f \in DOMAIN e /\ e[f] # Blank THEN e[f] ELSE default

written(e, f) == f \in DOMAIN e /\ e[f] # Blank

\* _validate_where, of every clause.
knownOperators(where) == \A p \in where : p.op \in OPERATORS

\* _validate_any_of: a list, not empty, of clauses.
wellFormed(any_of) == any_of # Blank /\ any_of # << >> /\ \A i \in DOMAIN any_of : knownOperators(any_of[i])

\* A when block that is written is a mapping with a target; without one a rule only
\* supersedes.
whenOf(e) == IF "when" \in DOMAIN e THEN e.when ELSE [for_each |-> "none"]
whereOf(e) == _optional(whenOf(e), "where", {})

wellWritten(e) ==
    /\ written(e, "id")
    /\ whenOf(e) # Blank
    /\ whenOf(e).for_each # Blank
    /\ knownOperators(whereOf(e))
    /\ "any_of" \in DOMAIN whenOf(e) => wellFormed(whenOf(e).any_of)
    /\ _optional(e, "event", "universal") \in EVENTS

\* The fields both readers take in the same way.
ruleOf(e, layer, severity, source, message) ==
    [id |-> e.id, layer |-> layer, severity |-> severity, source |-> source, message |-> message,
     for_each |-> whenOf(e).for_each, where |-> whereOf(e),
     any_of |-> _optional(whenOf(e), "any_of", << >>),
     requires_classifier |-> _optional(e, "requires_classifier", FALSE),
     enabled |-> _optional(e, "enabled", TRUE),
     hardness |-> _optional(e, "hardness", "hard"),
     event |-> _optional(e, "event", "universal"),
     applies_when |-> _optional(e, "applies_when", << >>),
     supersedes |-> _optional(e, "supersedes", {})]

\* _rule_from: base rules and show files name their severity, source and message.
acceptable(e) ==
    /\ wellWritten(e)
    /\ \A f \in {"severity", "source"} \cup (IF "when" \in DOMAIN e THEN {"message"} ELSE {}) : written(e, f)
    /\ e.severity \in SEVERITIES

_rule_from(e, layer) ==
    ruleOf(e, layer, e.severity, e.source, _optional(e, "message", "title"))

\* The base rules are shipped, each with an id of its own; a file is read in its order.
ASSUME AdviceAssumption ==
    /\ \A e \in BaseRules : acceptable(e)
    /\ \A e, f \in BaseRules : e.id = f.id => e = f
    /\ \A p \in Principles : p \in Seq(Range(p))
    /\ None \notin Shows /\ \A f \in Shows : f.rules \in Seq(Range(f.rules))
    /\ None # "report"

\* _as_rules: principles.yaml has defaults for them, but a message left blank stays blank.
tolerable(e) == wellWritten(e) /\ _optional(e, "severity", "info") \in SEVERITIES

_as_rule(e) ==
    ruleOf(e, "toanaz", _optional(e, "severity", "info"), _optional(e, "source", "ToanAZ"), get(e, "message", e.id))

-----------------------------------------------------------------------------
(* Which rules                                                             *)

base == {_rule_from(e, "base") : e \in BaseRules}

\* A show file is read only when a profile was asked for.
readable(profile) ==
    /\ \A i \in DOMAIN principles : tolerable(principles[i])
    /\ profile => /\ show # None
                  /\ \A i \in DOMAIN show.rules : acceptable(show.rules[i])

candidates(profile) ==
    [i \in DOMAIN principles |-> _as_rule(principles[i])]
        \o IF profile THEN [i \in DOMAIN show.rules |-> _rule_from(show.rules[i], "show")] ELSE << >>

condition_holds(applies_when) ==
    \A c \in DOMAIN applies_when : c \in DOMAIN conditions /\ conditions[c] = applies_when[c]

_is_active(rule) == rule.enabled /\ (rule.hardness = "flexible" => condition_holds(rule.applies_when))

higher(profile) ==
    selected(candidates(profile), {rule \in Range(candidates(profile)) : _is_active(rule)})

\* _validate_applies_when, and the supersedes of the rules that are active.
consistent(profile) ==
    /\ \A rule \in Range(candidates(profile)) : rule.hardness = "flexible" => DOMAIN rule.applies_when \subseteq DOMAIN conditions
    /\ \A rule \in Range(higher(profile)) : rule.supersedes \subseteq {b.id : b \in base}

\* profile_event: a file that is gone declares nothing; an event nobody knows is refused.
profile_event(profile) == IF profile /\ show # None THEN _optional(show, "event", None) ELSE None
knownEvent(profile) == profile_event(profile) \in EVENTS \cup {None}

offEvent(rule, declared) == declared # None /\ rule.event \notin {"universal", declared}

active_rules(profile) ==
    LET suppressed == UNION {rule.supersedes : rule \in Range(higher(profile))} IN
    {b \in base : b.id \notin suppressed /\ ~offEvent(b, profile_event(profile))} \cup Range(higher(profile))

\* Mutant of suppressing: every rule that names one is said to switch it off.
suppressingAny(profile) == candidates(profile)

suppressing(profile) == higher(profile)

\* suppressed_ids: the last active rule that names it.
lastNaming(rules, id) ==
    CHOOSE i \in DOMAIN rules : /\ id \in rules[i].supersedes
                                /\ \A j \in (i + 1)..Len(rules) : id \notin rules[j].supersedes
lastToName(rules) ==
    [id \in UNION {rule.supersedes : rule \in Range(rules)} |-> rules[lastNaming(rules, id)].id]
suppressed_ids(profile) == lastToName(suppressing(profile))

off_event_ids(profile) == {b.id : b \in {r \in base : offEvent(r, profile_event(profile))}}

-----------------------------------------------------------------------------
(* What they find                                                          *)

matches(kind, p) == IF p.op = "not" THEN kind \notin p.kinds ELSE kind \in p.kinds
all_match(kind, where) == \A p \in where : matches(kind, p)

\* One target per channel or bus; a name the classifier is not sure of is no target of a
\* rule that needs its kind.
targets_for(rule) == {n \in Names : domain[n] = rule.for_each}

fires(rule, a) ==
    /\ rule.requires_classifier => is_usable(a)
    /\ all_match(a.kind, rule.where)
    /\ rule.any_of # << >> => \E i \in DOMAIN rule.any_of : all_match(a.kind, rule.any_of[i])

evaluate(c, rule) == {<<rule, n>> : n \in {m \in targets_for(rule) : fires(rule, source_type(c, m))}}

-----------------------------------------------------------------------------
(* doctor                                                                  *)

goes(c, at) == proc' = [proc EXCEPT ![c] = [@ EXCEPT !.at = at]]
unread == [profile |-> FALSE, json |-> FALSE, rules |-> {}, findings |-> {}, suppressed |-> << >>, off_event |-> {}, said |-> None]

Begin(c) ==
    /\ proc[c] = None
    /\ proc' = [proc EXCEPT ![c] = started("rules")]
    /\ \E profile, json \in BOOLEAN :
        report' = [report EXCEPT ![c] = [unread EXCEPT !.profile = profile, !.json = json]]
    /\ edited' = [edited EXCEPT ![c] = FALSE]
    /\ UNCHANGED <<kept, rules_on_disk>>

says(c, said) == report' = [report EXCEPT ![c].said = said] /\ goes(c, "done")

\* active_rules: what is wrong with a file is an error, and the command ends there.
ReadRules(c) ==
    /\ proc[c] # None /\ proc[c].at = "rules"
    /\ LET profile == report[c].profile IN
       IF readable(profile) /\ consistent(profile) /\ knownEvent(profile)
       THEN report' = [report EXCEPT ![c].rules = active_rules(profile)] /\ goes(c, "names")
       ELSE says(c, "error")
    /\ UNCHANGED <<kept, rules_on_disk, edited>>

\* The targets are classified as they come up.
Classify(c) ==
    /\ proc[c] # None /\ proc[c].at = "names"
    /\ unresolved(c) # {}
    /\ Resolve(c, CHOOSE n \in unresolved(c) : TRUE)
    /\ UNCHANGED <<rules_on_disk, report, edited>>

\* run: no such iterator is an error; a message left blank cannot be filled in.  With
\* --json the findings are printed here, and nothing is said of the rules that did not run.
Evaluate(c) ==
    /\ proc[c] # None /\ proc[c].at = "names" /\ unresolved(c) = {}
    /\ LET rules == {rule \in report[c].rules : rule.enabled}
           found == UNION {evaluate(c, rule) : rule \in rules}
       IN IF \E rule \in rules : rule.for_each \notin ITERATORS THEN says(c, "error")
          ELSE IF \E f \in found : f[1].message = Blank THEN says(c, "raises")
          ELSE IF report[c].json
          THEN report' = [report EXCEPT ![c] = [@ EXCEPT !.findings = found, !.said = "json"]] /\ goes(c, "flush")
          ELSE report' = [report EXCEPT ![c].findings = found] /\ goes(c, "suppressed")
    /\ UNCHANGED <<kept, rules_on_disk, edited>>

\* suppressed reads the files again; what is wrong with them now raises.
ReadSuppressed(c) ==
    /\ proc[c] # None /\ proc[c].at = "suppressed"
    /\ LET profile == report[c].profile IN
       IF readable(profile)
       THEN report' = [report EXCEPT ![c].suppressed = suppressed_ids(profile)] /\ goes(c, "event")
       ELSE says(c, "raises")
    /\ UNCHANGED <<kept, rules_on_disk, edited>>

\* render.findings: without findings it says "No findings." and none of the lists.
printed(c) == IF report[c].findings = {} THEN "no findings" ELSE "report"

\* off_event and declared_event, then the report is printed.
ReadEvent(c) ==
    /\ proc[c] # None /\ proc[c].at = "event"
    /\ IF knownEvent(report[c].profile)
       THEN /\ report' = [report EXCEPT ![c] = [@ EXCEPT !.off_event = off_event_ids(report[c].profile),
                                                         !.said = printed(c)]]
            /\ goes(c, "flush")
       ELSE says(c, "raises")
    /\ UNCHANGED <<kept, rules_on_disk, edited>>

WriteBack(c) ==
    /\ proc[c] # None /\ proc[c].at = "flush"
    /\ Flush(c)
    /\ UNCHANGED <<rules_on_disk, report, edited>>

\* A person edits a rule file.
EditRules ==
    /\ edits < MaxEdits
    /\ edits' = edits + 1
    /\ \/ principles' \in Principles /\ UNCHANGED show
       \/ show' \in {None} \cup Shows /\ UNCHANGED principles
    /\ edited' = [c \in Commands |-> TRUE]
    /\ UNCHANGED <<entries, copy, proc, told, at_start, asked, report>>

-----------------------------------------------------------------------------

AdviceInit ==
    /\ NamingInit
    /\ principles \in Principles /\ show \in {None} \cup Shows
    /\ report = [c \in Commands |-> unread]
    /\ edited = [c \in Commands |-> FALSE]

DoctorNext ==
    \/ \E c \in Commands : \/ Begin(c) \/ ReadRules(c) \/ Classify(c) \/ Evaluate(c)
                           \/ ReadSuppressed(c) \/ ReadEvent(c) \/ WriteBack(c)
    \/ EditRules
    \/ EditEntry /\ UNCHANGED <<rules_on_disk, report, edited>>

AdviceNext ==
    \/ DoctorNext /\ UNCHANGED pvars
    \/ ProviderNext /\ UNCHANGED advice

AdviceSpec == AdviceInit /\ ProviderInit /\ [][AdviceNext]_all

-----------------------------------------------------------------------------
(* Properties                                                              *)

\* A printed report accounts for every base rule, if no rule file changed while it was
\* made: one that ran is in neither list, one that is shipped enabled and did not run is
\* in at least one of them -- a rule that was active is said to have switched it off, or
\* it is of another event, or both -- and whatever is said to switch a rule off does.
\* Where there are no findings nothing is printed but that ("doctor reports the
\* suppression ... rather than silently dropping the finding", README.md:289, does not
\* hold there), and --json has no lists; of a base rule that is shipped disabled nothing
\* is said.
accountedIn(r) ==
    LET ran == {rule.id : rule \in {x \in r.rules : x.layer = "base" /\ x.enabled}}
        off == DOMAIN r.suppressed
    IN /\ \A b \in base : b.id \in ran <=> b.enabled /\ b.id \notin off \cup r.off_event
       /\ \A id \in off : \E rule \in r.rules :
            rule.id = r.suppressed[id] /\ id \in rule.supersedes
ReportAccounts ==
    \A c \in Commands : report[c].said = "report" /\ ~edited[c] => accountedIn(report[c])

=============================================================================
