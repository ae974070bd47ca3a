------------------------------- MODULE Prompts -------------------------------
(***************************************************************************)
(* The prompts of a parsed transcript, as every report of asa-analysis     *)
(* reads them.                                                             *)
(*                                                                         *)
(* A session is [id, adapter, cwd, started, updated, steps, ...], of which *)
(* `cwd' holds no path or one, and a step [id, key, text, model,           *)
(* responses, tools, aborted, interrupts, ...]: `responses' are the models *)
(* that answered, a token each, and `tools' the names of its tools.  A     *)
(* text is what the reports tell apart of it: the length, the class of its *)
(* first words, the command it is (or ""), whether it has the tag of one,  *)
(* the set of its significant words and the marks that the scores count.   *)
(* A text of no character is that of a step without a prompt.              *)
(***************************************************************************)
EXTENDS Integers, Sequences, FiniteSets, SequencesExt, FiniteSetsExt, TLC, Selection, Sums

\* The first words that the code has lists of, by an example of each.
Openings == {"no", "i meant", "how", "add", "[asa-internal]", "other"}

Sentinel == "[asa-internal]"

\* The lists are tried in this order; a question may also end in a question mark.
SignalKind(text) ==
    IF text.command # "" THEN "command"
    ELSE IF text.opening = "no" THEN "correction"
    ELSE IF text.opening = "how" \/ text.asks THEN "question"
    ELSE "directive"

\* The reports read a transcript twice.  The parser makes the steps and their ids;
\* distill finds the prompts under keys of its own, and they meet where a key is an
\* id.  Both take the last message before a turn starts for its prompt; but who
\* counts the turns that have no id counts otherwise: the parser all its steps,
\* distill those that a message or a started turn opened.
Keyed(s, id) == {k \in DOMAIN s.steps : s.steps[k].text.chars > 0 /\ s.steps[k].key = id}

Prompted(s) == {k \in DOMAIN s.steps : Keyed(s, s.steps[k].id) # {}}

SignalOf(s, k) ==
    LET step == s.steps[k] IN
    [agent |-> s.adapter, session |-> s.id, step |-> step.id,
     text |-> s.steps[Max(Keyed(s, step.id))].text, tokens |-> Len(step.responses),
     tools |-> Len(step.tools), aborted |-> step.aborted, at |-> s.started]

Signals(s) ==
    LET prompted == Selection([k \in DOMAIN s.steps |-> k], Prompted(s))
    IN [i \in DOMAIN prompted |-> SignalOf(s, prompted[i])]

\* A session that ASA began itself, by its first prompt.
Internal(s) == LET signals == Signals(s) IN signals # <<>> /\ signals[1].text.opening = Sentinel

\* Mutant: the first of ASA's own sessions ends the list.
IncludedUntil(scope) ==
    SelectSeq(scope, LAMBDA s : \A i \in DOMAIN scope :
                                  Internal(scope[i]) => s.updated > scope[i].updated)

Included(scope) == Selection(scope, {i \in DOMAIN scope : ~Internal(scope[i])})

SignalsOf(scope) == FlattenSeq([i \in DOMAIN scope |-> Signals(scope[i])])
-----------------------------------------------------------------------------
Total(seq, Value(_)) == SumOf([i \in DOMAIN seq |-> Value(seq[i])])

Count(seq, Test(_)) == Cardinality({i \in DOMAIN seq : Test(seq[i])})

\* Where the i-th of some numbers goes when the greatest comes first and those
\* that are equal stay as they are.
Rank(keys, i) ==
    Cardinality({j \in DOMAIN keys : keys[j] > keys[i] \/ (keys[j] = keys[i] /\ j <= i)})

\* The stable sort by the greatest key first.
Ordered(seq, keys) == [n \in DOMAIN seq |-> seq[CHOOSE i \in DOMAIN seq : Rank(keys, i) = n]]

Descending(seq, Key(_)) == Ordered(seq, [i \in DOMAIN seq |-> Key(seq[i])])

\* Whether a ratio is above n / d; a ratio with no denominator is zero.
Above(ratio, n, d) == ratio[2] > 0 /\ ratio[1] * d > ratio[2] * n

\* The days are counted from a Monday.
CONSTANT DaysOfWeek
WeekKey(at) == at \div DaysOfWeek
=============================================================================
