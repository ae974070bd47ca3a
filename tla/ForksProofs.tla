----------------------------- MODULE ForksProofs -----------------------------
(***************************************************************************)
(* What the two parsers make of a transcript, for transcripts of any       *)
(* length: each call has the error of its last result, the steps account   *)
(* for all that was used, and a record more leaves the names of the steps  *)
(* and what all but the last of them did.  And what follows for forks:     *)
(* one ends at the step it was asked for, one with a digest loses no       *)
(* prompt, and its files stay together, whatever is kept of the            *)
(* transcript.                                                             *)
(*                                                                         *)
(* The parsers are recursive functions over the records.  Their values are *)
(* taken as a run, a state for each prefix, and what a state keeps of its  *)
(* prefix is shown record by record.                                       *)
(***************************************************************************)
EXTENDS Forks, ListFacts, FiniteSetTheorems, SequenceTheorems

(* The parsers *)

\* Both parsers go through the records one by one.
Start(who) == IF who = "claude" THEN C!Empty ELSE X!Empty
Taken(who, p, r) == IF who = "claude" THEN C!Take(p, r) ELSE X!Take(p, r)

IsRun(who, a, recs) ==
    a = [i \in 0 .. Len(recs) |-> IF i = 0 THEN Start(who) ELSE Taken(who, a[i - 1], recs[i])]

\* The recursive function of a parser exists: if it did not, there would be a shortest
\* prefix for which it does not, and one record more can always be taken.
LEMMA RunExists ==
    ASSUME NEW who, NEW recs, Len(recs) \in Nat
    PROVE  \E a : IsRun(who, a, recs)
<1> DEFINE Good(n) == \E a : a = [i \in 0 .. n |-> IF i = 0 THEN Start(who) ELSE Taken(who, a[i - 1], recs[i])]
           Bad == {n \in Nat : ~Good(n)}
<1>1. ASSUME Bad # {} PROVE FALSE
  <2>1. PICK n \in Bad : \A m \in Bad : n <= m
    BY <1>1, NonEmptyMin
  <2>2. n # 0
    <3>1. [i \in 0 .. 0 |-> Start(who)] = [i \in 0 .. 0 |->
             IF i = 0 THEN Start(who) ELSE Taken(who, [k \in 0 .. 0 |-> Start(who)][i - 1], recs[i])]
      OBVIOUS
    <3>2. Good(0)
      BY <3>1
    <3> QED BY <3>2, <2>1
  <2>3. n - 1 \in Nat /\ Good(n - 1)
    <3>1. n - 1 \in Nat /\ ~(n <= n - 1)
      BY <2>1, <2>2
    <3> HIDE DEF Good
    <3> QED BY <3>1, <2>1
  <2>4. PICK c : c = [i \in 0 .. n - 1 |-> IF i = 0 THEN Start(who) ELSE Taken(who, c[i - 1], recs[i])]
    BY <2>3
  <2> DEFINE d == [i \in 0 .. n |-> IF i = n THEN Taken(who, c[i - 1], recs[i]) ELSE c[i]]
  <2>5. d = [i \in 0 .. n |-> IF i = 0 THEN Start(who) ELSE Taken(who, d[i - 1], recs[i])]
    <3> SUFFICES ASSUME NEW i \in 0 .. n
                 PROVE  d[i] = IF i = 0 THEN Start(who) ELSE Taken(who, d[i - 1], recs[i])
      OBVIOUS
    <3>1. CASE i = 0
      BY <3>1, <2>2, <2>4
    <3>2. CASE i # 0
      <4>1. i - 1 \in 0 .. n /\ i - 1 # n /\ d[i - 1] = c[i - 1]
        BY <3>2
      <4>2. CASE i = n
        BY <4>1, <4>2, <3>2
      <4>3. CASE i # n
        <5>1. d[i] = c[i] /\ i \in 0 .. n - 1
          BY <4>3
        <5>2. c[i] = Taken(who, c[i - 1], recs[i])
          BY <5>1, <2>4, <3>2
        <5> QED BY <5>1, <5>2, <4>1, <3>2
      <4> QED BY <4>2, <4>3
    <3> QED BY <3>1, <3>2
  <2>6. Good(n)
    BY <2>5
  <2> QED BY <2>6, <2>1
<1> QED BY <1>1 DEF IsRun

\* Transcripts that begin alike are parsed alike up to there.
LEMMA RunUnique ==
    ASSUME NEW who, NEW recs, NEW more, Len(recs) \in Nat, Len(more) \in Nat, NEW n \in Nat,
           n <= Len(recs), n <= Len(more),
           \A i \in 1 .. n : recs[i] = more[i],
           NEW a, IsRun(who, a, recs), NEW b, IsRun(who, b, more)
    PROVE  a[n] = b[n]
<1> DEFINE Bad == {i \in 0 .. n : a[i] # b[i]}
<1>1. /\ \A i \in 0 .. Len(recs) : a[i] = IF i = 0 THEN Start(who) ELSE Taken(who, a[i - 1], recs[i])
      /\ \A i \in 0 .. Len(more) : b[i] = IF i = 0 THEN Start(who) ELSE Taken(who, b[i - 1], more[i])
  BY DEF IsRun
<1>2. ASSUME Bad # {} PROVE FALSE
  <2>0. Bad \in SUBSET Nat
    OBVIOUS
  <2>1. PICK i \in Bad : \A j \in Bad : i <= j
    <3> HIDE DEF Bad
    <3> QED
      BY <1>2, <2>0, NonEmptyMin
  <2>2. i # 0
    BY <1>1, <2>1
  <2>3. i - 1 \in 0 .. n /\ ~(i <= i - 1) /\ i \in 1 .. n /\ i \in 0 .. Len(recs) /\ i \in 0 .. Len(more)
    BY <2>2
  <2>4. a[i - 1] = b[i - 1]
    BY <2>1, <2>3
  <2> QED
    BY <1>1, <2>1, <2>2, <2>3, <2>4
<1> QED
  BY <1>2

IsClaudeRun(a, recs) ==
    a = [i \in 0 .. Len(recs) |-> IF i = 0 THEN C!Empty ELSE C!Take(a[i - 1], recs[i])]

IsCodexRun(a, recs) ==
    a = [i \in 0 .. Len(recs) |-> IF i = 0 THEN X!Empty ELSE X!Take(a[i - 1], recs[i])]

\* The two ways to write the run of a parser agree, for Claude Code.
LEMMA RunsOf ==
    ASSUME NEW a, NEW recs
    PROVE  IsClaudeRun(a, recs) <=> IsRun("claude", a, recs)
  BY Zenon DEF IsClaudeRun, IsRun, Start, Taken

\* And for Codex.
LEMMA CodexRunsOf ==
    ASSUME NEW a, NEW recs
    PROVE  IsCodexRun(a, recs) <=> IsRun("codex", a, recs)
<1>1. "codex" # "claude"
  OBVIOUS
<1>2. Start("codex") = X!Empty /\ \A p, r : Taken("codex", p, r) = X!Take(p, r)
  BY <1>1 DEF Start, Taken
<1> QED
  BY <1>2 DEF IsCodexRun, IsRun

\* Every Claude Code transcript has a run.
LEMMA ClaudeRunExists ==
    ASSUME NEW recs, Len(recs) \in Nat
    PROVE  \E a : IsClaudeRun(a, recs)
  BY RunExists, RunsOf

\* Every Codex transcript has a run.
LEMMA CodexRunExists ==
    ASSUME NEW recs, Len(recs) \in Nat
    PROVE  \E a : IsCodexRun(a, recs)
  BY RunExists, CodexRunsOf

\* Two Claude Code transcripts that begin alike have runs that begin alike.
LEMMA ClaudeRunUnique ==
    ASSUME NEW recs, NEW more, Len(recs) \in Nat, Len(more) \in Nat, NEW n \in Nat,
           n <= Len(recs), n <= Len(more),
           \A i \in 1 .. n : recs[i] = more[i],
           NEW a, IsClaudeRun(a, recs), NEW b, IsClaudeRun(b, more)
    PROVE  a[n] = b[n]
<1>1. PICK who : who = "claude"
  OBVIOUS
<1>2. IsRun(who, a, recs) /\ IsRun(who, b, more)
  BY <1>1, RunsOf
<1> QED
  BY <1>2, RunUnique

\* So do two Codex transcripts.
LEMMA CodexRunUnique ==
    ASSUME NEW recs, NEW more, Len(recs) \in Nat, Len(more) \in Nat, NEW n \in Nat,
           n <= Len(recs), n <= Len(more),
           \A i \in 1 .. n : recs[i] = more[i],
           NEW a, IsCodexRun(a, recs), NEW b, IsCodexRun(b, more)
    PROVE  a[n] = b[n]
<1>1. PICK who : who = "codex"
  OBVIOUS
<1>2. IsRun(who, a, recs) /\ IsRun(who, b, more)
  BY <1>1, CodexRunsOf
<1> QED
  BY <1>2, RunUnique

\* What parse_claude computes, without the recursive function.
LEMMA ClaudeParses ==
    ASSUME NEW recs, Len(recs) \in Nat
    PROVE  \E a : IsClaudeRun(a, recs) /\ C!Parse(recs) = a[Len(recs)]
<1> DEFINE a == CHOOSE a : a = [i \in 0 .. Len(recs) |-> IF i = 0 THEN C!Empty ELSE C!Take(a[i - 1], recs[i])]
<1>1. a = [i \in 0 .. Len(recs) |-> IF i = 0 THEN C!Empty ELSE C!Take(a[i - 1], recs[i])]
  BY ClaudeRunExists DEF IsClaudeRun
<1>2. C!Parse(recs) = a[Len(recs)]
  BY DEF C!Parse
<1> HIDE DEF a
<1> QED
  BY <1>1, <1>2 DEF IsClaudeRun

\* One record more.
LEMMA ClaudeAppend ==
    ASSUME NEW S, NEW recs \in Seq(S), NEW r \in S
    PROVE  C!Parse(Append(recs, r)) = C!Take(C!Parse(recs), r)
<1> DEFINE more == Append(recs, r)
           n == Len(recs)
<1>1. /\ n \in Nat /\ Len(more) = n + 1 /\ more[n + 1] = r /\ \A i \in 1 .. n : recs[i] = more[i]
  OBVIOUS
<1>2. PICK a : IsClaudeRun(a, recs) /\ C!Parse(recs) = a[n]
  BY ClaudeParses, <1>1
<1>3. PICK b : IsClaudeRun(b, more) /\ C!Parse(more) = b[n + 1]
  <2>1. Len(more) \in Nat
    BY <1>1
  <2> HIDE DEF more
  <2> QED
    BY ClaudeParses, <1>1, <2>1
<1> HIDE DEF more
<1>4. a[n] = b[n]
  BY <1>1, <1>2, <1>3, ClaudeRunUnique
<1>5. b[n + 1] = C!Take(b[n], more[n + 1])
  BY <1>1, <1>3 DEF IsClaudeRun
<1> QED
  BY <1>1, <1>2, <1>3, <1>4, <1>5 DEF more

Name == [by : {"native", "ordinal"}, n : Nat]
Tool == [id : Nat, error : BOOLEAN]
Step == [id : Name, calls : Nat, tools : Seq(Tool), usage : Nat, aborted : BOOLEAN]

\* Where the calls are.
Places == UNION {[S -> Nat \X Nat] : S \in SUBSET Nat}

\* Before the first call there is no place.
LEMMA NoPlaces == <<>> \in Places /\ DOMAIN <<>> = {}
<1>1. <<>> \in [{} -> Nat \X Nat] /\ DOMAIN <<>> = {}
  OBVIOUS
<1> QED
  BY <1>1 DEF Places

\* A call that is recorded is found where it is, the others where they were.
LEMMA ClaudePlaces ==
    ASSUME NEW w \in Places, NEW id \in Nat, NEW at \in Nat \X Nat, NEW v, v = C!Placed(w, id, at)
    PROVE  v \in Places /\ DOMAIN v = DOMAIN w \cup {id} /\ v[id] = at
             /\ \A c \in DOMAIN w : c # id => v[c] = w[c]
<1> DEFINE u == [c \in DOMAIN w \cup {id} |-> IF c = id THEN at ELSE w[c]]
<1>1. PICK S \in SUBSET Nat : w \in [S -> Nat \X Nat]
  BY DEF Places
<1>2. u \in [S \cup {id} -> Nat \X Nat]
  BY <1>1
<1>3. S \cup {id} \in SUBSET Nat
  OBVIOUS
<1>4. u \in Places
  BY <1>2, <1>3 DEF Places
<1>5. v = u
  BY DEF C!Placed
<1> QED
  BY <1>4, <1>5

\* Codex notes the place of a call as Claude Code does.
LEMMA CodexPlaces ==
    ASSUME NEW w \in Places, NEW id \in Nat, NEW at \in Nat \X Nat, NEW v, v = X!Placed(w, id, at)
    PROVE  v \in Places /\ DOMAIN v = DOMAIN w \cup {id} /\ v[id] = at
             /\ \A c \in DOMAIN w : c # id => v[c] = w[c]
<1> DEFINE u == [c \in DOMAIN w \cup {id} |-> IF c = id THEN at ELSE w[c]]
<1>1. PICK S \in SUBSET Nat : w \in [S -> Nat \X Nat]
  BY DEF Places
<1>2. u \in [S \cup {id} -> Nat \X Nat]
  BY <1>1
<1>3. S \cup {id} \in SUBSET Nat
  OBVIOUS
<1>4. u \in Places
  BY <1>2, <1>3 DEF Places
<1>5. v = u
  BY DEF X!Placed
<1> QED
  BY <1>4, <1>5

ClaudeState ==
    [steps : Seq(Step), current : Nat, seen : SUBSET Nat, where : Places, usage : Nat,
     compactions : Nat, interruptions : Nat]

ClaudeRecord ==
    [kind : {"prompt", "padded", "compact", "interrupt", "last-prompt", "hidden", "assistant", "result"}, id : Nat,
     api : Nat, tool : Nat, error : BOOLEAN]

\* The Claude Code parser begins with a proper state.
LEMMA EmptyState == C!Empty \in ClaudeState /\ C!Empty.steps = <<>> /\ C!Empty.current = 0
<1>1. <<>> \in Seq(Step)
  OBVIOUS
<1> QED
  BY <1>1, NoPlaces DEF C!Empty, ClaudeState

\* A step as it is opened, and one that a prompt has opened.
OpenedStep(id) == [id |-> id, calls |-> 0, tools |-> <<>>, usage |-> 0, aborted |-> TRUE]
PromptedStep(id) == [id |-> id, calls |-> 0, tools |-> <<>>, usage |-> 0, aborted |-> FALSE]

\* A step that is opened, or that a prompt starts, is a proper step.
LEMMA NewSteps ==
    ASSUME NEW id \in Name
    PROVE  OpenedStep(id) \in Step /\ PromptedStep(id) \in Step
<1>1. <<>> \in Seq(Tool)
  OBVIOUS
<1> QED
  BY <1>1 DEF OpenedStep, PromptedStep, Step

\* Facts about sequences that the provers find only by themselves.
LEMMA Appended ==
    ASSUME NEW S, NEW f \in Seq(S), NEW a \in S
    PROVE  /\ Append(f, a) \in Seq(S)
           /\ Len(f) \in Nat /\ Len(Append(f, a)) = Len(f) + 1
           /\ Append(f, a)[Len(f) + 1] = a
           /\ \A i \in 1 .. Len(f) : Append(f, a)[i] = f[i]
  OBVIOUS

\* A prompt's step is an opened one that is not taken for aborted.
LEMMA StepPrompted ==
    ASSUME NEW id
    PROVE  [OpenedStep(id) EXCEPT !.aborted = FALSE] = PromptedStep(id)
<1>1. ASSUME NEW a, NEW b
      PROVE  [[id |-> id, calls |-> 0, tools |-> <<>>, usage |-> 0, aborted |-> a] EXCEPT !.aborted = b]
               = [id |-> id, calls |-> 0, tools |-> <<>>, usage |-> 0, aborted |-> b]
  OBVIOUS
<1> QED
  BY <1>1, Zenon DEF OpenedStep, PromptedStep

\* The fields of a parser's state, with their types.
LEMMA ClaudeFields ==
    ASSUME NEW p \in ClaudeState
    PROVE  /\ p.steps \in Seq(Step) /\ Len(p.steps) \in Nat /\ p.current \in Nat
           /\ p.seen \in SUBSET Nat /\ p.where \in Places
<1>1. p.steps \in Seq(Step) /\ p.current \in Nat /\ p.seen \in SUBSET Nat /\ p.where \in Places
  BY DEF ClaudeState
<1> QED
  BY <1>1

\* open_step.
LEMMA ClaudeOpens ==
    ASSUME NEW p \in ClaudeState, NEW id \in Name, NEW o, o = C!OpenStep(p, id),
           NEW s, s = OpenedStep(id)
    PROVE  /\ o \in ClaudeState /\ s \in Step
           /\ o.steps = Append(p.steps, s)
           /\ o.current = Len(p.steps) + 1
           /\ o.where = p.where /\ o.seen = p.seen /\ o.compactions = p.compactions
<1> DEFINE t == Append(p.steps, s)
<1>1. t \in Seq(Step) /\ Len(p.steps) + 1 \in Nat /\ s \in Step
  <2>1. s \in Step
    BY NewSteps
  <2>2. p.steps \in Seq(Step)
    BY ClaudeFields
  <2> QED
    BY <2>1, <2>2, Appended
<1>2. o = [p EXCEPT !.current = Len(p.steps) + 1, !.steps = t]
  BY DEF C!OpenStep, OpenedStep
<1> HIDE DEF t
<1>3. o \in ClaudeState
  BY <1>1, <1>2 DEF ClaudeState
<1> QED
  BY <1>1, <1>2, <1>3 DEF ClaudeState, t

\* Both kinds of step names are names.
LEMMA Names == ASSUME NEW k \in Nat PROVE C!Native(k) \in Name /\ C!Ordinal(k) \in Name
  BY DEF C!Native, C!Ordinal, Name

\* What it is to replace one entry of a sequence.
LEMMA Replaced ==
    ASSUME NEW S, NEW f \in Seq(S), NEW n \in 1 .. Len(f), NEW b \in S,
           NEW e, e = [f EXCEPT ![n] = b]
    PROVE  /\ e \in Seq(S) /\ Len(e) = Len(f) /\ e[n] = b
           /\ \A i \in 1 .. Len(f) : i # n => e[i] = f[i]
  OBVIOUS

\* A sequence that is one entry longer and else the same is the old one with that entry.
LEMMA IsAppended ==
    ASSUME NEW S, NEW f \in Seq(S), NEW b \in S, NEW e \in Seq(S), Len(e) = Len(f) + 1,
           e[Len(e)] = b, \A i \in 1 .. Len(f) : e[i] = f[i]
    PROVE  e = Append(f, b)
<1> DEFINE h == Append(f, b)
<1>1. /\ h \in Seq(S) /\ Len(h) = Len(e) /\ Len(f) \in Nat /\ h[Len(e)] = b
      /\ \A i \in 1 .. Len(f) : h[i] = f[i]
  BY Appended
<1> HIDE DEF h
<1>2. \A i \in 1 .. Len(e) : e[i] = h[i]
  <2> SUFFICES ASSUME NEW i \in 1 .. Len(e) PROVE e[i] = h[i]
    OBVIOUS
  <2>1. i = Len(e) \/ i \in 1 .. Len(f)
    BY <1>1
  <2> QED
    BY <1>1, <2>1
<1>3. e = h
  BY <1>1, <1>2, SeqEqual
<1> QED
  BY <1>3 DEF h

\* A prompt, or the summary of a compaction, adds a step and nothing else.
LEMMA ClaudePrompt ==
    ASSUME NEW p \in ClaudeState, NEW r \in ClaudeRecord, NEW q, q = C!OnPrompt(p, r),
           NEW id, id = IF r.id = 0 THEN C!Ordinal(Len(p.steps)) ELSE C!Native(r.id),
           NEW s, s = PromptedStep(id)
    PROVE  /\ q \in ClaudeState /\ s \in Step
           /\ q.steps = Append(p.steps, s)
           /\ q.current = Len(q.steps)
           /\ q.where = p.where /\ q.seen = p.seen
<1> DEFINE o == C!OpenStep(p, id)
           z == OpenedStep(id)
           n == Len(p.steps) + 1
<1>1. id \in Name /\ n \in Nat
  <2>1. r.id \in Nat
    BY DEF ClaudeRecord
  <2> QED
    BY <2>1, Names, ClaudeFields
<1>2. /\ o \in ClaudeState /\ o.steps = Append(p.steps, z) /\ o.current = n
      /\ o.where = p.where /\ o.seen = p.seen /\ z \in Step
  <2> HIDE DEF o, z
  <2>1. o = C!OpenStep(p, id) /\ z = OpenedStep(id)
    BY DEF o, z
  <2> QED
    BY <1>1, <2>1, ClaudeOpens
<1>3. q = [o EXCEPT !.steps[o.current].aborted = FALSE,
                    !.compactions = IF r.kind = "compact" THEN @ + 1 ELSE @]
  BY DEF C!OnPrompt
<1>4. [z EXCEPT !.aborted = FALSE] = s
  BY StepPrompted
<1>5. s \in Step
  BY <1>1, NewSteps
<1> HIDE DEF o, z
<1> DEFINE t == [o.steps EXCEPT ![n].aborted = FALSE]
<1>6. t = Append(p.steps, s) /\ t \in Seq(Step) /\ Len(t) = n
  <2>1. /\ p.steps \in Seq(Step) /\ o.steps \in Seq(Step) /\ o.steps[n] = z /\ Len(o.steps) = n
        /\ \A i \in 1 .. Len(p.steps) : o.steps[i] = p.steps[i]
    <3>1. p.steps \in Seq(Step) /\ z \in Step
      BY <1>2, ClaudeFields
    <3> QED
      BY <1>2, <3>1, Appended
  <2>2. t = [o.steps EXCEPT ![n] = s] /\ n \in 1 .. Len(o.steps)
    BY <1>1, <1>4, <2>1
  <2> HIDE DEF t
  <2>3. t \in Seq(Step) /\ Len(t) = n /\ t[n] = s /\ \A i \in 1 .. n : i # n => t[i] = o.steps[i]
    BY <2>1, <2>2, <1>5, Replaced
  <2>4. \A i \in 1 .. Len(p.steps) : t[i] = p.steps[i]
    BY <2>1, <2>3, <1>1
  <2> QED
    BY <2>1, <2>3, <2>4, <1>5, IsAppended
<1>7. q = [o EXCEPT !.steps = t, !.compactions = IF r.kind = "compact" THEN @ + 1 ELSE @]
  BY <1>2, <1>3
<1> HIDE DEF t
<1>8. q \in ClaudeState
  <2>1. o.compactions + 1 \in Nat /\ o.compactions \in Nat
    BY <1>2 DEF ClaudeState
  <2> QED
    BY <1>2, <1>6, <1>7, <2>1 DEF ClaudeState
<1>9. q.steps = t /\ q.current = o.current /\ q.where = o.where /\ q.seen = o.seen
  BY <1>2, <1>7 DEF ClaudeState
<1> QED
  BY <1>2, <1>5, <1>6, <1>8, <1>9

\* The fields of a step, with their types.
LEMMA StepFields ==
    ASSUME NEW s \in Step
    PROVE  /\ s.id \in Name /\ s.calls \in Nat /\ s.tools \in Seq(Tool) /\ s.usage \in Nat
           /\ s.aborted \in BOOLEAN /\ Len(s.tools) \in Nat
<1>1. s.id \in Name /\ s.calls \in Nat /\ s.tools \in Seq(Tool) /\ s.usage \in Nat /\ s.aborted \in BOOLEAN
  BY DEF Step
<1> QED
  BY <1>1

\* One step among others is replaced.
Only(s, t, n) ==
    /\ t \in Seq(Step) /\ Len(t) = Len(s) /\ n \in 1 .. Len(s)
    /\ \A i \in 1 .. Len(s) : i # n => t[i] = s[i]
    /\ t[n].id = s[n].id

\* To mark a step aborted or not touches no call of it and no usage.
LEMMA Aborts ==
    ASSUME NEW s \in Seq(Step), NEW n \in 1 .. Len(s),
           NEW t, t = [s EXCEPT ![n].aborted = TRUE] \/ t = [s EXCEPT ![n].aborted = FALSE]
    PROVE  /\ Only(s, t, n) /\ t[n].tools = s[n].tools /\ t[n].calls = s[n].calls /\ t[n].usage = s[n].usage
<1>1. s[n] \in Step
  BY ElementOfSeq
<1>2. ASSUME NEW new, new = [s[n] EXCEPT !.aborted = TRUE] \/ new = [s[n] EXCEPT !.aborted = FALSE]
      PROVE  new \in Step /\ new.id = s[n].id /\ new.tools = s[n].tools /\ new.calls = s[n].calls
               /\ new.usage = s[n].usage
  <2>1. CASE new = [s[n] EXCEPT !.aborted = TRUE]
    BY <1>1, <2>1 DEF Step
  <2>2. CASE new = [s[n] EXCEPT !.aborted = FALSE]
    BY <1>1, <2>2 DEF Step
  <2> QED
    BY <1>2, <2>1, <2>2
<1>3. PICK new \in Step :
        /\ t = [s EXCEPT ![n] = new]
        /\ new.id = s[n].id /\ new.tools = s[n].tools /\ new.calls = s[n].calls /\ new.usage = s[n].usage
  <2>1. CASE t = [s EXCEPT ![n].aborted = TRUE]
    BY <1>2, <2>1
  <2>2. CASE t = [s EXCEPT ![n].aborted = FALSE]
    BY <1>2, <2>2
  <2> QED
    BY <2>1, <2>2
<1>4. t \in Seq(Step) /\ Len(t) = Len(s) /\ t[n] = new /\ \A i \in 1 .. Len(s) : i # n => t[i] = s[i]
  BY <1>3, Replaced
<1> QED
  BY <1>3, <1>4 DEF Only

\* The result of one call is noted.
Noted(s, t, n, c, e) ==
    /\ Only(s, t, n) /\ t[n].calls = s[n].calls /\ t[n].usage = s[n].usage
    /\ Len(t[n].tools) = Len(s[n].tools) /\ c \in 1 .. Len(s[n].tools)
    /\ t[n].tools \in Seq(Tool)
    /\ \A i \in 1 .. Len(s[n].tools) : i # c => t[n].tools[i] = s[n].tools[i]
    /\ t[n].tools[c].id = s[n].tools[c].id /\ t[n].tools[c].error = e
    /\ t[n].aborted = s[n].aborted

NotedTools(s, new, c, e) ==
    /\ new \in Step /\ new.id = s.id /\ new.calls = s.calls
    /\ new.usage = s.usage /\ new.aborted = s.aborted
    /\ new.tools \in Seq(Tool) /\ Len(new.tools) = Len(s.tools)
    /\ \A i \in 1 .. Len(s.tools) : i # c => new.tools[i] = s.tools[i]
    /\ new.tools[c].id = s.tools[c].id /\ new.tools[c].error = e

\* To note the error of one call leaves the other calls of its step.
LEMMA NotedOne ==
    ASSUME NEW s \in Step, NEW c \in 1 .. Len(s.tools), NEW e \in BOOLEAN
    PROVE  NotedTools(s, [s EXCEPT !.tools[c].error = e], c, e)
<1>1. PICK tool : tool = [s.tools[c] EXCEPT !.error = e]
  OBVIOUS
<1>2. PICK tools : tools = [s.tools EXCEPT ![c] = tool]
  OBVIOUS
<1>3. PICK new : new = [s EXCEPT !.tools = tools]
  OBVIOUS
<1>4. NotedTools(s, new, c, e)
  <2>1. s.tools \in Seq(Tool)
    BY StepFields
  <2>2. s.tools[c] \in Tool
    BY <2>1, ElementOfSeq
  <2>3. tool \in Tool /\ tool.id = s.tools[c].id /\ tool.error = e
    BY <1>1, <2>2 DEF Tool
  <2>4. /\ tools \in Seq(Tool) /\ Len(tools) = Len(s.tools) /\ tools[c] = tool
        /\ \A i \in 1 .. Len(s.tools) : i # c => tools[i] = s.tools[i]
    BY <1>2, <2>1, <2>3, Replaced
  <2>5. new \in Step /\ new.id = s.id /\ new.tools = tools /\ new.calls = s.calls
        /\ new.usage = s.usage /\ new.aborted = s.aborted
    BY <1>3, <2>4 DEF Step
  <2> QED
    BY <2>3, <2>4, <2>5 DEF NotedTools
<1>5. [s EXCEPT !.tools[c].error = e] = new
  BY <1>1, <1>2, <1>3
<1> QED
  BY <1>4, <1>5

\* A step in which an error was noted leaves the other steps.
LEMMA NotedBy ==
    ASSUME NEW s \in Seq(Step), NEW n \in 1 .. Len(s), NEW c \in 1 .. Len(s[n].tools), NEW e \in BOOLEAN,
           NEW new, NotedTools(s[n], new, c, e), NEW t, t = [s EXCEPT ![n] = new]
    PROVE  Noted(s, t, n, c, e)
<1>1. new \in Step
  BY DEF NotedTools
<1>2. t \in Seq(Step) /\ Len(t) = Len(s) /\ t[n] = new /\ \A i \in 1 .. Len(s) : i # n => t[i] = s[i]
  BY <1>1, Replaced
<1> QED
  BY <1>2 DEF Only, Noted, NotedTools

\* A result changes the error of its call and nothing else.
LEMMA Notes ==
    ASSUME NEW s \in Seq(Step), NEW n \in 1 .. Len(s), NEW c \in 1 .. Len(s[n].tools), NEW e \in BOOLEAN
    PROVE  Noted(s, [s EXCEPT ![n].tools[c].error = e], n, c, e)
<1>1. s[n] \in Step
  BY ElementOfSeq
<1>2. PICK new : new = [s[n] EXCEPT !.tools[c].error = e]
  OBVIOUS
<1>3. NotedTools(s[n], new, c, e)
  BY <1>1, <1>2, NotedOne
<1>4. PICK t : t = [s EXCEPT ![n] = new]
  OBVIOUS
<1>5. Noted(s, t, n, c, e)
  BY <1>3, <1>4, NotedBy
<1>6. [s EXCEPT ![n].tools[c].error = e] = t
  BY <1>2, <1>4
<1> QED
  BY <1>5, <1>6

\* An interruption marks the last step.
LEMMA ClaudeInterrupts ==
    ASSUME NEW p \in ClaudeState, p.current = Len(p.steps), NEW q, q = C!OnInterrupt(p)
    PROVE  /\ q \in ClaudeState /\ q.current = p.current /\ q.where = p.where /\ q.seen = p.seen
           /\ p.steps = <<>> => q.steps = p.steps
           /\ LET n == Len(p.steps) IN
              p.steps # <<>> => /\ Only(p.steps, q.steps, n) /\ q.steps[n].tools = p.steps[n].tools
                                /\ q.steps[n].calls = p.steps[n].calls
                                /\ q.steps[n].usage = p.steps[n].usage
<1>1. p.interruptions + 1 \in Nat /\ p.steps \in Seq(Step) /\ p.current \in Nat
  BY DEF ClaudeState
<1>2. CASE p.current = 0
  <2>1. p.steps = <<>>
    BY <1>1, <1>2, EmptySeq
  <2>2. q = [p EXCEPT !.interruptions = @ + 1, !.steps = p.steps]
    BY <1>2 DEF C!OnInterrupt
  <2> QED
    BY <1>1, <2>1, <2>2 DEF ClaudeState
<1>3. CASE p.current # 0
  <2> DEFINE n == p.current
             t == [p.steps EXCEPT ![n].aborted = TRUE]
  <2>1. n \in 1 .. Len(p.steps) /\ p.steps # <<>>
    BY <1>1, <1>3
  <2>2. q = [p EXCEPT !.interruptions = @ + 1, !.steps = t]
    BY <1>3 DEF C!OnInterrupt
  <2>3. Only(p.steps, t, n) /\ t[n].tools = p.steps[n].tools /\ t[n].calls = p.steps[n].calls
        /\ t[n].usage = p.steps[n].usage
    <3> DEFINE s == p.steps
    <3>1. s \in Seq(Step) /\ n \in 1 .. Len(s) /\ t = [s EXCEPT ![n].aborted = TRUE]
      BY <1>1, <2>1
    <3> HIDE DEF t, s, n
    <3>2. Only(s, t, n) /\ t[n].tools = s[n].tools /\ t[n].calls = s[n].calls /\ t[n].usage = s[n].usage
      BY <3>1, Aborts
    <3> QED
      BY <3>2 DEF s
  <2> HIDE DEF t
  <2>4. q \in ClaudeState /\ q.steps = t /\ q.current = p.current /\ q.where = p.where /\ q.seen = p.seen
    BY <1>1, <2>2, <2>3 DEF ClaudeState, Only
  <2> QED
    BY <2>1, <2>3, <2>4
<1> QED
  BY <1>2, <1>3

NewTool(id) == [id |-> id, error |-> FALSE]

\* A new call is a proper one, with no error yet.
LEMMA NewToolType == ASSUME NEW id \in Nat PROVE NewTool(id) \in Tool /\ NewTool(id).id = id /\ NewTool(id).error = FALSE
  BY DEF NewTool, Tool

\* The step that a record of the assistant belongs to.
Base(p) == IF p.current = 0 THEN C!OpenStep(p, C!Ordinal(Len(p.steps))) ELSE p

\* It is the last step, or a new first one.
LEMMA BaseIs ==
    ASSUME NEW p \in ClaudeState, p.current = Len(p.steps), NEW b, b = Base(p)
    PROVE  /\ b \in ClaudeState /\ b.current = Len(b.steps) /\ Len(b.steps) \in Nat \ {0}
           /\ b.where = p.where /\ b.seen = p.seen
           /\ p.steps # <<>> => b = p
           /\ p.steps = <<>> => b.steps = Append(p.steps, OpenedStep(C!Ordinal(0)))
<1>1. p.steps \in Seq(Step) /\ Len(p.steps) \in Nat /\ (p.steps = <<>> <=> p.current = 0)
  BY ClaudeFields, EmptySeq
<1>2. CASE p.current = 0
  <2> DEFINE id == C!Ordinal(Len(p.steps))
             z == OpenedStep(id)
  <2>1. id \in Name
    BY <1>1, Names
  <2>2. b = C!OpenStep(p, id)
    BY <1>2 DEF Base
  <2>3. id = C!Ordinal(0)
    BY <1>1, <1>2
  <2> HIDE DEF id
  <2>4. z = OpenedStep(id)
    OBVIOUS
  <2> HIDE DEF z
  <2>5. /\ b \in ClaudeState /\ z \in Step /\ b.steps = Append(p.steps, z) /\ b.current = Len(p.steps) + 1
        /\ b.where = p.where /\ b.seen = p.seen
    BY <2>1, <2>2, <2>4, ClaudeOpens
  <2>6. Len(b.steps) = Len(p.steps) + 1
    BY <1>1, <2>5, Appended
  <2> QED
    BY <1>1, <1>2, <2>3, <2>4, <2>5, <2>6
<1>3. CASE p.current # 0
  BY <1>1, <1>3 DEF Base
<1> QED
  BY <1>2, <1>3

Tokens(p, r) == IF r.api \notin p.seen THEN r.api ELSE 0

\* A record of the assistant adds to the last step: its tokens, if the response is new,
\* and its call.
LEMMA ClaudeAssists ==
    ASSUME NEW p \in ClaudeState, p.current = Len(p.steps), NEW r \in ClaudeRecord,
           NEW q, q = C!OnAssistant(p, r)
    PROVE  /\ q \in ClaudeState /\ q.current = Base(p).current /\ Base(p).current = Len(Base(p).steps)
           /\ Only(Base(p).steps, q.steps, Base(p).current)
           /\ q.steps[Base(p).current].usage = Base(p).steps[Base(p).current].usage + Tokens(p, r)
           /\ q.steps[Base(p).current].tools = IF r.tool = 0 THEN Base(p).steps[Base(p).current].tools
                                 ELSE Append(Base(p).steps[Base(p).current].tools, NewTool(r.tool))
           /\ q.seen = p.seen \cup {r.api}
           /\ q.where = IF r.tool = 0 THEN p.where
                        ELSE C!Placed(p.where, r.tool, <<Base(p).current, Len(Base(p).steps[Base(p).current].tools) + 1>>)
<1> DEFINE b == Base(p)
           n == b.current
<1> DEFINE s == b.steps[n]
           fresh == r.api \notin p.seen
           tokens == Tokens(p, r)
           calls == IF fresh THEN s.calls + 1 ELSE s.calls
           usage == s.usage + tokens
           tools == IF r.tool = 0 THEN s.tools ELSE Append(s.tools, NewTool(r.tool))
           where == IF r.tool = 0 THEN b.where ELSE C!Placed(b.where, r.tool, <<n, Len(s.tools) + 1>>)
           new == [s EXCEPT !.aborted = FALSE,
                            !.calls = IF fresh THEN @ + 1 ELSE @,
                            !.usage = @ + tokens,
                            !.tools = IF r.tool = 0 THEN @ ELSE Append(@, NewTool(r.tool))]
           seen == b.seen \cup {r.api}
<1>9. q = [b EXCEPT
             !.seen = @ \cup {r.api},
             !.usage = @ + tokens,
             !.where = IF r.tool = 0 THEN @ ELSE C!Placed(@, r.tool, <<n, Len(b.steps[n].tools) + 1>>),
             !.steps[n] = [b.steps[n] EXCEPT
               !.aborted = FALSE,
               !.calls = IF fresh THEN @ + 1 ELSE @,
               !.usage = @ + tokens,
               !.tools = IF r.tool = 0 THEN @ ELSE Append(@, NewTool(r.tool))]]
  BY Zenon DEF C!OnAssistant, Base, Tokens, NewTool
<1> HIDE DEF b
<1>1. /\ b \in ClaudeState /\ Len(b.steps) = n /\ n \in Nat \ {0} /\ b.where = p.where /\ b.seen = p.seen
      /\ b.steps \in Seq(Step) /\ n \in 1 .. n
  <2> HIDE DEF b
  <2>1. b = Base(p)
    BY DEF b
  <2> QED
    BY <2>1, BaseIs, ClaudeFields
<1>2. s \in Step
  <2> HIDE DEF s
  <2>1. s = b.steps[n]
    BY DEF s
  <2> QED
    BY <1>1, <2>1, ElementOfSeq
<1>3. r.api \in Nat /\ r.tool \in Nat
  BY DEF ClaudeRecord
<1>4. tokens \in Nat
  BY <1>3 DEF Tokens
<1>5. /\ calls \in Nat /\ usage \in Nat /\ s.tools \in Seq(Tool) /\ Len(s.tools) + 1 \in Nat
  <2> HIDE DEF s, tokens
  <2> QED
    BY <1>2, <1>4, StepFields
<1>6. tools \in Seq(Tool)
  <2> HIDE DEF s
  <2>1. r.tool # 0 => NewTool(r.tool) \in Tool
    BY <1>3, NewToolType
  <2> QED
    BY <1>5, <2>1, Appended
<1>7. where \in Places
  <2> DEFINE id == r.tool
             t == Len(s.tools) + 1
  <2>1. CASE r.tool = 0
    BY <1>1, <2>1, ClaudeFields
  <2>2. CASE r.tool # 0
    <3>1. b.where \in Places /\ id \in Nat /\ n \in Nat /\ t \in Nat
      BY <1>1, <1>3, <1>5, ClaudeFields
    <3> HIDE DEF id, t, n
    <3>2. <<n, t>> \in Nat \X Nat
      BY <3>1
    <3>3. C!Placed(b.where, id, <<n, t>>) \in Places
      BY <3>1, <3>2, ClaudePlaces
    <3> QED
      BY <2>2, <3>3 DEF id, t
  <2> QED
    BY <2>1, <2>2
<1>8. seen \in SUBSET Nat
  BY <1>1, <1>3, ClaudeFields
<1>10. new \in Step /\ new.id = s.id /\ new.usage = usage /\ new.tools = tools
  <2> DEFINE u == new
  <2>1. u = [s EXCEPT !.aborted = FALSE, !.calls = calls, !.usage = usage, !.tools = tools]
    <3> HIDE DEF s, tokens
    <3>1. s.tools \in Seq(Tool) /\ s \in Step
      BY <1>2, StepFields
    <3> QED
      BY <3>1
  <2> HIDE DEF s, calls, usage, tools, u
  <2>2. u \in Step /\ u.id = s.id /\ u.usage = usage /\ u.tools = tools
    BY <1>2, <1>5, <1>6, <2>1 DEF Step
  <2> QED
    BY <2>2 DEF u
<1> DEFINE t == [b.steps EXCEPT ![n] = new]
<1>12. q = [b EXCEPT !.seen = seen, !.usage = @ + tokens, !.where = where, !.steps = t]
  BY <1>9, Zenon
<1> HIDE DEF new, where, tokens, seen
<1>11. t \in Seq(Step) /\ Len(t) = n /\ t[n] = new /\ \A i \in 1 .. n : i # n => t[i] = b.steps[i]
  BY <1>1, <1>10, Replaced
<1> HIDE DEF t
<1>13. q \in ClaudeState /\ q.steps = t /\ q.current = n /\ q.where = where /\ q.seen = seen
  <2>1. b.usage + tokens \in Nat
    BY <1>1, <1>4 DEF ClaudeState
  <2> QED
    BY <1>1, <1>7, <1>8, <1>11, <1>12, <2>1 DEF ClaudeState
<1>14. Only(b.steps, q.steps, n)
  BY <1>1, <1>10, <1>11, <1>13 DEF Only
<1>15. q.steps[n].usage = usage /\ q.steps[n].tools = tools /\ q.seen = p.seen \cup {r.api}
  BY <1>1, <1>10, <1>11, <1>13 DEF seen
<1>16. q.where = IF r.tool = 0 THEN p.where
                        ELSE C!Placed(p.where, r.tool, <<n, Len(b.steps[n].tools) + 1>>)
  BY <1>1, <1>13 DEF where
<1> QED
  BY <1>1, <1>13, <1>14, <1>15, <1>16 DEF tokens, b

\* Each call is where it is said to be, and no other is.
Located(steps, where) ==
    /\ \A id \in DOMAIN where :
         /\ where[id][1] \in 1 .. Len(steps)
         /\ where[id][2] \in 1 .. Len(steps[where[id][1]].tools)
         /\ steps[where[id][1]].tools[where[id][2]].id = id
    /\ \A i \in 1 .. Len(steps) : \A t \in 1 .. Len(steps[i].tools) :
         steps[i].tools[t].id \in DOMAIN where /\ where[steps[i].tools[t].id] = <<i, t>>

\* A result is noted where the call is, in whichever step, or ignored.
LEMMA ClaudeResults ==
    ASSUME NEW p \in ClaudeState, Located(p.steps, p.where), NEW r \in ClaudeRecord,
           NEW q, q = C!OnResult(p, r)
    PROVE  /\ q \in ClaudeState /\ q.current = p.current /\ q.where = p.where /\ q.seen = p.seen
           /\ r.tool \notin DOMAIN p.where => q.steps = p.steps
           /\ LET at == p.where[r.tool] IN
              r.tool \in DOMAIN p.where => Noted(p.steps, q.steps, at[1], at[2], r.error)
<1>1. CASE r.tool \notin DOMAIN p.where
  BY <1>1 DEF C!OnResult
<1>2. CASE r.tool \in DOMAIN p.where
  <2> DEFINE at == p.where[r.tool]
             n == at[1]
             c == at[2]
             s == p.steps
             e == r.error
             t == [s EXCEPT ![n].tools[c].error = e]
  <2>1. s \in Seq(Step) /\ n \in 1 .. Len(s) /\ c \in 1 .. Len(s[n].tools) /\ e \in BOOLEAN
    <3>1. e \in BOOLEAN
      BY DEF ClaudeRecord
    <3> QED
      BY <1>2, <3>1, ClaudeFields DEF Located
  <2>2. q = [p EXCEPT !.steps = t]
    BY <1>2, Zenon DEF C!OnResult
  <2>3. Noted(s, t, n, c, e)
    <3> HIDE DEF n, c, s, e
    <3> QED
      BY <2>1, Notes
  <2> HIDE DEF t
  <2>4. t \in Seq(Step)
    BY <2>3 DEF Noted, Only
  <2>5. q \in ClaudeState /\ q.steps = t /\ q.current = p.current /\ q.where = p.where /\ q.seen = p.seen
    BY <2>2, <2>4 DEF ClaudeState
  <2> QED
    BY <1>2, <2>3, <2>5
<1> QED
  BY <1>1, <1>2

\* Each call is where it is said to be, no other is, and those that failed are in bad.
Told(steps, where, bad) ==
    /\ \A id \in DOMAIN where :
         /\ where[id][1] \in 1 .. Len(steps)
         /\ where[id][2] \in 1 .. Len(steps[where[id][1]].tools)
         /\ steps[where[id][1]].tools[where[id][2]].id = id
    /\ \A i \in 1 .. Len(steps) : \A t \in 1 .. Len(steps[i].tools) :
         /\ steps[i].tools[t].id \in DOMAIN where
         /\ where[steps[i].tools[t].id] = <<i, t>>
         /\ steps[i].tools[t].error <=> steps[i].tools[t].id \in bad

\* What it takes for the errors to be told right.
LEMMA ToldIs ==
    ASSUME NEW t, NEW v, NEW bad,
           \A x \in DOMAIN v :
             /\ v[x][1] \in 1 .. Len(t)
             /\ v[x][2] \in 1 .. Len(t[v[x][1]].tools)
             /\ t[v[x][1]].tools[v[x][2]].id = x,
           \A k \in 1 .. Len(t) : \A u \in 1 .. Len(t[k].tools) :
             /\ t[k].tools[u].id \in DOMAIN v /\ v[t[k].tools[u].id] = <<k, u>>
             /\ t[k].tools[u].error <=> t[k].tools[u].id \in bad
    PROVE  Told(t, v, bad)
  BY Zenon DEF Told

\* Of the failed calls only those that have a place matter.
LEMMA ToldOthers ==
    ASSUME NEW s, NEW w, NEW bad, NEW more, Told(s, w, bad),
           \A x \in DOMAIN w : x \in more <=> x \in bad
    PROVE  Told(s, w, more)
<1>1. \A i \in 1 .. Len(s) : \A t \in 1 .. Len(s[i].tools) :
         s[i].tools[t].error <=> s[i].tools[t].id \in more
  BY DEF Told
<1> QED
  BY <1>1, Zenon DEF Told

\* Where the errors are told right the places are right.
LEMMA ToldLocated ==
    ASSUME NEW s, NEW w, NEW bad, Told(s, w, bad)
    PROVE  Located(s, w)
  BY DEF Told, Located

\* Told is kept by all that the parsers do to the steps: one is opened,
LEMMA ToldOpened ==
    ASSUME NEW s \in Seq(Step), NEW w, NEW bad, Told(s, w, bad),
           NEW z \in Step, z.tools = <<>>, NEW t, t = Append(s, z)
    PROVE  Told(t, w, bad)
<1>1. Len(t) = Len(s) + 1 /\ t[Len(t)] = z /\ Len(s) \in Nat /\ \A i \in 1 .. Len(s) : t[i] = s[i]
  BY Appended
<1>2. Len(z.tools) = 0
  OBVIOUS
<1>3. \A i \in 1 .. Len(t) : i \in 1 .. Len(s) \/ 1 .. Len(t[i].tools) = {}
  <2> SUFFICES ASSUME NEW i \in 1 .. Len(t), i \notin 1 .. Len(s) PROVE 1 .. Len(t[i].tools) = {}
    OBVIOUS
  <2>1. i = Len(t)
    BY <1>1
  <2> QED
    BY <1>1, <1>2, <2>1
<1>4. \A i \in 1 .. Len(s) : i \in 1 .. Len(t)
  BY <1>1
<1> QED
  BY <1>1, <1>3, <1>4 DEF Told

\* one gets usage or a mark,
LEMMA ToldSame ==
    ASSUME NEW s \in Seq(Step), NEW w, NEW bad, Told(s, w, bad),
           NEW t, NEW n, Only(s, t, n), t[n].tools = s[n].tools
    PROVE  Told(t, w, bad)
<1>1. Len(t) = Len(s) /\ \A i \in 1 .. Len(s) : t[i].tools = s[i].tools
  BY DEF Only
<1>2. ASSUME NEW id \in DOMAIN w
      PROVE  /\ w[id][1] \in 1 .. Len(t)
             /\ w[id][2] \in 1 .. Len(t[w[id][1]].tools)
             /\ t[w[id][1]].tools[w[id][2]].id = id
  <2>1. PICK i, k : i = w[id][1] /\ k = w[id][2]
    OBVIOUS
  <2>2. i \in 1 .. Len(s) /\ k \in 1 .. Len(s[i].tools) /\ s[i].tools[k].id = id
    BY <2>1 DEF Told
  <2> QED
    BY <1>1, <2>1, <2>2
<1>3. ASSUME NEW i \in 1 .. Len(t), NEW k \in 1 .. Len(t[i].tools)
      PROVE  /\ t[i].tools[k].id \in DOMAIN w
             /\ w[t[i].tools[k].id] = <<i, k>>
             /\ t[i].tools[k].error <=> t[i].tools[k].id \in bad
  <2>1. i \in 1 .. Len(s) /\ t[i].tools = s[i].tools
    BY <1>1
  <2>2. PICK tools : tools = s[i].tools
    OBVIOUS
  <2>3. /\ tools[k].id \in DOMAIN w /\ w[tools[k].id] = <<i, k>>
        /\ tools[k].error <=> tools[k].id \in bad
    BY <2>1, <2>2 DEF Told
  <2> QED
    BY <2>1, <2>2, <2>3
<1> QED
  BY <1>2, <1>3 DEF Told

\* a result is noted,
LEMMA ToldNoted ==
    ASSUME NEW s \in Seq(Step), NEW w, NEW bad, Told(s, w, bad), NEW id \in DOMAIN w,
           NEW e \in BOOLEAN, NEW t, NEW i, NEW c, i = w[id][1], c = w[id][2],
           Noted(s, t, i, c, e), NEW more, more = IF e THEN bad \cup {id} ELSE bad \ {id}
    PROVE  Told(t, w, more)
<1>1. /\ Len(t) = Len(s) /\ i \in 1 .. Len(s) /\ \A k \in 1 .. Len(s) : k # i => t[k] = s[k]
      /\ Len(t[i].tools) = Len(s[i].tools) /\ c \in 1 .. Len(s[i].tools)
      /\ \A k \in 1 .. Len(s[i].tools) : k # c => t[i].tools[k] = s[i].tools[k]
      /\ t[i].tools[c].id = s[i].tools[c].id /\ t[i].tools[c].error = e
  BY DEF Noted, Only
<1>2. s[i].tools[c].id = id
  BY DEF Told
<1>3. \A k \in 1 .. Len(s) : /\ Len(t[k].tools) = Len(s[k].tools)
                            /\ \A u \in 1 .. Len(s[k].tools) : t[k].tools[u].id = s[k].tools[u].id
  BY <1>1
<1>4. \A x \in DOMAIN w :
         /\ w[x][1] \in 1 .. Len(t)
         /\ w[x][2] \in 1 .. Len(t[w[x][1]].tools)
         /\ t[w[x][1]].tools[w[x][2]].id = x
  <2> SUFFICES ASSUME NEW x \in DOMAIN w
               PROVE  /\ w[x][1] \in 1 .. Len(t)
                      /\ w[x][2] \in 1 .. Len(t[w[x][1]].tools)
                      /\ t[w[x][1]].tools[w[x][2]].id = x
    OBVIOUS
  <2>1. /\ w[x][1] \in 1 .. Len(s) /\ w[x][2] \in 1 .. Len(s[w[x][1]].tools)
        /\ s[w[x][1]].tools[w[x][2]].id = x
    BY DEF Told
  <2> DEFINE k == w[x][1]
             u == w[x][2]
  <2> HIDE DEF k, u
  <2>2. k \in 1 .. Len(t) /\ u \in 1 .. Len(t[k].tools) /\ t[k].tools[u].id = x
    BY <2>1, <1>1, <1>3 DEF k, u
  <2> QED
    BY <2>2 DEF k, u
<1>5. ASSUME NEW k \in 1 .. Len(t), NEW u \in 1 .. Len(t[k].tools)
      PROVE  /\ t[k].tools[u].id \in DOMAIN w /\ w[t[k].tools[u].id] = <<k, u>>
             /\ t[k].tools[u].error <=> t[k].tools[u].id \in more
  <2>0. k \in 1 .. Len(s) /\ u \in 1 .. Len(s[k].tools) /\ t[k].tools[u].id = s[k].tools[u].id
    BY <1>1, <1>3
  <2>1. /\ k \in 1 .. Len(s) /\ u \in 1 .. Len(s[k].tools) /\ t[k].tools[u].id = s[k].tools[u].id
        /\ s[k].tools[u].id \in DOMAIN w /\ w[s[k].tools[u].id] = <<k, u>>
        /\ s[k].tools[u].error <=> s[k].tools[u].id \in bad
    BY <2>0, Zenon DEF Told
  <2>2. CASE k = i /\ u = c
    <3>1. t[k].tools[u].error = e /\ t[k].tools[u].id = id
      BY <1>1, <1>2, <2>2
    <3>2. e <=> id \in more
      BY Zenon
    <3> QED
      BY <2>1, <3>1, <3>2
  <2>3. CASE ~(k = i /\ u = c)
    <3>1. t[k].tools[u] = s[k].tools[u]
      BY <1>1, <2>1, <2>3
    <3>2. s[k].tools[u].id # id
      BY <2>1, <2>3
    <3>3. s[k].tools[u].id \in more <=> s[k].tools[u].id \in bad
      BY <3>2
    <3> QED
      BY <2>1, <3>1, <3>3
  <2> QED
    BY <2>2, <2>3
<1> QED
  BY <1>4, <1>5 DEF Told

\* a call is added.
LEMMA ToldCalled ==
    ASSUME NEW s \in Seq(Step), NEW w, NEW bad, Told(s, w, bad), NEW id \in Nat, id \notin DOMAIN w, id \notin bad,
           NEW n, NEW t, Only(s, t, n), t[n].tools = Append(s[n].tools, NewTool(id)),
           NEW v, DOMAIN v = DOMAIN w \cup {id}, v[id] = <<n, Len(s[n].tools) + 1>>,
           \A x \in DOMAIN w : x # id => v[x] = w[x]
    PROVE  Told(t, v, bad)
<1>0. NewTool(id) \in Tool /\ NewTool(id).id = id /\ NewTool(id).error = FALSE
  BY NewToolType
<1>1. /\ n \in 1 .. Len(s) /\ s[n].tools \in Seq(Tool) /\ Len(t) = Len(s)
      /\ \A k \in 1 .. Len(s) : k # n => t[k] = s[k]
  <2>1. n \in 1 .. Len(s) /\ Len(t) = Len(s) /\ \A k \in 1 .. Len(s) : k # n => t[k] = s[k]
    BY DEF Only
  <2> QED
    BY <2>1, ElementOfSeq, StepFields
<1> DEFINE m == Len(s[n].tools)
<1>2. /\ m \in Nat /\ Len(t[n].tools) = m + 1 /\ t[n].tools[m + 1] = NewTool(id)
      /\ \A u \in 1 .. m : t[n].tools[u] = s[n].tools[u]
  BY <1>0, <1>1, Appended
<1>3. \A x \in DOMAIN w : x # id /\ v[x] = w[x]
  OBVIOUS
<1>4. ASSUME NEW x \in DOMAIN v
      PROVE  /\ v[x][1] \in 1 .. Len(t)
             /\ v[x][2] \in 1 .. Len(t[v[x][1]].tools)
             /\ t[v[x][1]].tools[v[x][2]].id = x
  <2>1. CASE x = id
    <3>1. v[x][1] = n /\ v[x][2] = m + 1
      BY <2>1
    <3> HIDE DEF m
    <3> QED
      BY <1>0, <1>1, <1>2, <2>1, <3>1
  <2>2. CASE x # id
    <3>1. /\ v[x] = w[x] /\ w[x][1] \in 1 .. Len(s) /\ w[x][2] \in 1 .. Len(s[w[x][1]].tools)
          /\ s[w[x][1]].tools[w[x][2]].id = x
      BY <2>2, <1>3 DEF Told
    <3>2. CASE w[x][1] = n
      <4>1. w[x][2] \in 1 .. m
        BY <3>1, <3>2
      <4> HIDE DEF m
      <4>2. w[x][2] \in 1 .. m + 1 /\ t[n].tools[w[x][2]] = s[n].tools[w[x][2]]
        BY <4>1, <1>2
      <4> QED
        BY <3>1, <3>2, <4>2, <1>1, <1>2
    <3>3. CASE w[x][1] # n
      BY <3>1, <3>3, <1>1
    <3> QED
      BY <3>2, <3>3
  <2> QED
    BY <2>1, <2>2
<1>5. ASSUME NEW k \in 1 .. Len(t), NEW u \in 1 .. Len(t[k].tools)
      PROVE  /\ t[k].tools[u].id \in DOMAIN v /\ v[t[k].tools[u].id] = <<k, u>>
             /\ t[k].tools[u].error <=> t[k].tools[u].id \in bad
  <2>1. CASE k = n /\ u = m + 1
    <3>1. t[k].tools[u] = NewTool(id)
      BY <1>2, <2>1
    <3> QED
      BY <3>1, <2>1, <1>0
  <2>2. CASE ~(k = n /\ u = m + 1)
    <3>1. k \in 1 .. Len(s) /\ u \in 1 .. Len(s[k].tools) /\ t[k].tools[u] = s[k].tools[u]
      <4>1. CASE k = n
        <5>1. u \in 1 .. m
          <6> HIDE DEF m
          <6> QED
            BY <4>1, <2>2, <1>2
        <5> QED
          BY <4>1, <5>1, <1>1, <1>2
      <4>2. CASE k # n
        BY <4>2, <1>1
      <4> QED
        BY <4>1, <4>2
    <3>2. /\ s[k].tools[u].id \in DOMAIN w /\ w[s[k].tools[u].id] = <<k, u>>
          /\ s[k].tools[u].error <=> s[k].tools[u].id \in bad
      BY <3>1 DEF Told
    <3> QED
      BY <3>1, <3>2, <1>3
  <2> QED
    BY <2>1, <2>2
<1> HIDE DEF m
<1>6. \A x \in DOMAIN v :
         /\ v[x][1] \in 1 .. Len(t)
         /\ v[x][2] \in 1 .. Len(t[v[x][1]].tools)
         /\ t[v[x][1]].tools[v[x][2]].id = x
  BY <1>4, Zenon
<1>7. \A k \in 1 .. Len(t) : \A u \in 1 .. Len(t[k].tools) :
         /\ t[k].tools[u].id \in DOMAIN v /\ v[t[k].tools[u].id] = <<k, u>>
         /\ t[k].tools[u].error <=> t[k].tools[u].id \in bad
  BY <1>5, Zenon
<1> QED
  BY <1>6, <1>7, ToldIs

ResultOf(r, id) ==
    \/ r.kind = "result" /\ r.tool = id
    \/ r.kind = "output" /\ r.id = id

Results(recs, id, n) == {j \in 1 .. n : ResultOf(recs[j], id)}
LastOf(S) == CHOOSE j \in S : \A k \in S : k <= j

\* The calls whose last result among the first n records is an error.
Bad(recs, n) == {id \in Nat : Results(recs, id, n) # {} /\ recs[LastOf(Results(recs, id, n))].error = TRUE}

\* No call has failed before the first record.
LEMMA ResultsNone ==
    ASSUME NEW recs
    PROVE  Bad(recs, 0) = {}
  BY DEF Bad, Results

\* A record adds itself to the results of the call it names and to no others.
LEMMA ResultsMore ==
    ASSUME NEW recs, NEW n \in Nat, NEW id
    PROVE  /\ ResultOf(recs[n + 1], id) => Results(recs, id, n + 1) = Results(recs, id, n) \cup {n + 1}
           /\ ~ResultOf(recs[n + 1], id) => Results(recs, id, n + 1) = Results(recs, id, n)
<1>1. \A j : j \in 1 .. n + 1 <=> j \in 1 .. n \/ j = n + 1
  OBVIOUS
<1> QED
  BY <1>1 DEF Results

\* The last result among the first records is the one just read.
LEMMA ResultsLast ==
    ASSUME NEW recs, NEW n \in Nat, NEW id, ResultOf(recs[n + 1], id)
    PROVE  Results(recs, id, n + 1) # {} /\ LastOf(Results(recs, id, n + 1)) = n + 1
<1> DEFINE R == Results(recs, id, n + 1)
<1>1. n + 1 \in R /\ \A k \in R : k \in 1 .. n + 1
  BY ResultsMore DEF Results
<1>2. \A k \in R : k <= n + 1
  BY <1>1
<1>3. LastOf(R) \in R /\ \A k \in R : k <= LastOf(R)
  BY <1>1, <1>2 DEF LastOf
<1> HIDE DEF R
<1>4. LastOf(R) <= n + 1 /\ n + 1 <= LastOf(R) /\ LastOf(R) \in 1 .. n + 1
  BY <1>1, <1>2, <1>3
<1>5. LastOf(R) = n + 1
  BY <1>4
<1> QED
  BY <1>1, <1>5 DEF R

\* A result decides about its call alone,
LEMMA BadResult ==
    ASSUME NEW recs, NEW n \in Nat, NEW id \in Nat, ResultOf(recs[n + 1], id),
           \A other \in Nat : ResultOf(recs[n + 1], other) => other = id,
           recs[n + 1].error \in BOOLEAN
    PROVE  /\ recs[n + 1].error = TRUE => Bad(recs, n + 1) = Bad(recs, n) \cup {id}
           /\ recs[n + 1].error = FALSE => Bad(recs, n + 1) = Bad(recs, n) \ {id}
<1>1. \A x \in Nat : x # id => Results(recs, x, n + 1) = Results(recs, x, n)
  BY ResultsMore
<1>2. \A x \in Nat : x # id => (x \in Bad(recs, n + 1) <=> x \in Bad(recs, n))
  BY <1>1 DEF Bad
<1>3. id \in Bad(recs, n + 1) <=> recs[n + 1].error = TRUE
  BY ResultsLast DEF Bad
<1>4. Bad(recs, n) \subseteq Nat /\ Bad(recs, n + 1) \subseteq Nat
  BY DEF Bad
<1>5. CASE recs[n + 1].error = TRUE
  BY <1>2, <1>3, <1>4, <1>5
<1>6. CASE recs[n + 1].error = FALSE
  BY <1>2, <1>3, <1>4, <1>6
<1> QED
  BY <1>5, <1>6

\* other records about none.
LEMMA BadOther ==
    ASSUME NEW recs, NEW n \in Nat, \A id \in Nat : ~ResultOf(recs[n + 1], id)
    PROVE  Bad(recs, n + 1) = Bad(recs, n)
  BY ResultsMore DEF Bad

\* A call with no result is not a failed one.
LEMMA BadNever ==
    ASSUME NEW recs, NEW n \in Nat, NEW id, \A j \in 1 .. n : ~ResultOf(recs[j], id)
    PROVE  id \notin Bad(recs, n)
  BY DEF Bad, Results

\* What the agent writes: every record has its place as its id, or none.
ClaudeWritten(recs) ==
    /\ recs \in Seq(ClaudeRecord)
    /\ \A i \in 1 .. Len(recs) :
         /\ recs[i].id \in {0, i}
         /\ recs[i].kind \in {"prompt", "padded", "compact"} => recs[i].id = i
         /\ recs[i].kind = "assistant" => recs[i].tool \in {0, i}
         /\ recs[i].kind = "result" => recs[i].tool < i

\* Each kind of record has its handler.
LEMMA ClaudeTakes ==
    ASSUME NEW p, NEW r \in ClaudeRecord
    PROVE  /\ r.kind \in {"prompt", "padded", "compact"} => C!Take(p, r) = C!OnPrompt(p, r)
           /\ r.kind = "interrupt" => C!Take(p, r) = C!OnInterrupt(p)
           /\ r.kind = "assistant" => C!Take(p, r) = C!OnAssistant(p, r)
           /\ r.kind = "result" => C!Take(p, r) = C!OnResult(p, r)
           /\ r.kind \in {"last-prompt", "hidden"} => C!Take(p, r) = p
<1>1. ASSUME r.kind \in {"prompt", "padded", "compact"} PROVE C!Take(p, r) = C!OnPrompt(p, r)
  <2>1. r.kind \notin {"interrupt", "assistant", "result"}
    BY <1>1
  <2> QED
    BY <1>1, <2>1, Zenon DEF C!Take
<1>2. ASSUME r.kind = "interrupt" PROVE C!Take(p, r) = C!OnInterrupt(p)
  <2>1. r.kind \notin {"prompt", "padded", "compact"} /\ r.kind # "assistant" /\ r.kind # "result"
    BY <1>2
  <2> QED
    BY <1>2, <2>1, Zenon DEF C!Take
<1>3. ASSUME r.kind = "assistant" PROVE C!Take(p, r) = C!OnAssistant(p, r)
  <2>1. r.kind \notin {"prompt", "padded", "compact"} /\ r.kind # "interrupt" /\ r.kind # "result"
    BY <1>3
  <2> QED
    BY <1>3, <2>1, Zenon DEF C!Take
<1>4. ASSUME r.kind = "result" PROVE C!Take(p, r) = C!OnResult(p, r)
  <2>1. r.kind \notin {"prompt", "padded", "compact"} /\ r.kind # "interrupt" /\ r.kind # "assistant"
    BY <1>4
  <2> QED
    BY <1>4, <2>1, Zenon DEF C!Take
<1>5. ASSUME r.kind \in {"last-prompt", "hidden"} PROVE C!Take(p, r) = p
  <2>1. r.kind \notin {"prompt", "padded", "compact"} /\ r.kind # "interrupt" /\ r.kind # "assistant" /\ r.kind # "result"
    BY <1>5
  <2> QED
    BY <2>1, Zenon DEF C!Take
<1> QED
  BY <1>1, <1>2, <1>3, <1>4, <1>5

ClaudeSound(recs, n, p) ==
    /\ p \in ClaudeState /\ p.current = Len(p.steps)
    /\ Told(p.steps, p.where, Bad(recs, n))
    /\ \A id \in DOMAIN p.where : id \in 1 .. n
    /\ \A x : x \in p.seen <=> \E j \in 1 .. n : recs[j].kind = "assistant" /\ recs[j].api = x

\* Before the first record what is kept of a Claude Code transcript is right.
LEMMA ClaudeSoundEmpty ==
    ASSUME NEW recs
    PROVE  ClaudeSound(recs, 0, C!Empty)
<1>1. C!Empty.where = <<>> /\ C!Empty.seen = {} /\ C!Empty.steps = <<>> /\ C!Empty.current = 0
  BY DEF C!Empty
<1>2. DOMAIN <<>> = {} /\ Len(<<>>) = 0
  OBVIOUS
<1>3. Told(<<>>, <<>>, Bad(recs, 0))
  BY <1>2 DEF Told
<1> QED
  BY <1>1, <1>2, <1>3, EmptyState DEF ClaudeSound

\* The numbers up to the next one.
LEMMA OneMore ==
    ASSUME NEW n \in Nat
    PROVE  \A j : j \in 1 .. n + 1 <=> j \in 1 .. n \/ j = n + 1
  OBVIOUS

\* What parse_claude keeps of a transcript stays true when a record is taken.
LEMMA ClaudeSoundNext ==
    ASSUME NEW recs, ClaudeWritten(recs), NEW n \in Nat, n + 1 <= Len(recs),
           NEW p, ClaudeSound(recs, n, p), NEW q, q = C!Take(p, recs[n + 1])
    PROVE  ClaudeSound(recs, n + 1, q)
<1> DEFINE r == recs[n + 1]
<1>1. /\ r \in ClaudeRecord /\ r.id \in {0, n + 1}
      /\ r.kind \in {"prompt", "padded", "compact"} => r.id = n + 1
      /\ r.kind = "assistant" => r.tool \in {0, n + 1}
      /\ r.kind = "result" => r.tool < n + 1
  <2>1. recs \in Seq(ClaudeRecord) /\ n + 1 \in 1 .. Len(recs)
    BY DEF ClaudeWritten
  <2> QED
    BY <2>1, ElementOfSeq DEF ClaudeWritten
<1>2. /\ r.kind \in {"prompt", "padded", "compact", "interrupt", "last-prompt", "hidden", "assistant", "result"}
      /\ r.id \in Nat /\ r.tool \in Nat /\ r.api \in Nat /\ r.error \in BOOLEAN
  BY <1>1 DEF ClaudeRecord
<1>3. /\ p \in ClaudeState /\ p.current = Len(p.steps)
      /\ Told(p.steps, p.where, Bad(recs, n))
      /\ \A id \in DOMAIN p.where : id \in 1 .. n
      /\ \A x : x \in p.seen <=> \E j \in 1 .. n : recs[j].kind = "assistant" /\ recs[j].api = x
  BY DEF ClaudeSound
<1>4. p.steps \in Seq(Step) /\ Len(p.steps) \in Nat /\ p.where \in Places
  BY <1>3, ClaudeFields
<1>5. r.kind # "result" => Bad(recs, n + 1) = Bad(recs, n)
  BY <1>2, BadOther DEF ResultOf
<1>6. \A id \in DOMAIN p.where : id \in 1 .. n + 1
  BY <1>3, OneMore
<1>7. r.kind # "assistant" =>
        \A x : x \in p.seen <=> \E j \in 1 .. n + 1 : recs[j].kind = "assistant" /\ recs[j].api = x
  BY <1>3, OneMore
<1> HIDE DEF r
<1>8. q = C!Take(p, r)
  BY DEF r
<1>9. CASE r.kind \in {"prompt", "padded", "compact"}
  <2>1. q = C!OnPrompt(p, r) /\ r.kind # "result" /\ r.kind # "assistant"
    BY <1>1, <1>8, <1>9, ClaudeTakes
  <2>2. PICK z : z = PromptedStep(IF r.id = 0 THEN C!Ordinal(Len(p.steps)) ELSE C!Native(r.id))
    OBVIOUS
  <2>3. /\ q \in ClaudeState /\ z \in Step /\ q.steps = Append(p.steps, z) /\ q.current = Len(q.steps)
        /\ q.where = p.where /\ q.seen = p.seen
    BY <1>1, <1>3, <2>1, <2>2, ClaudePrompt
  <2>4. z.tools = <<>>
    BY <2>2 DEF PromptedStep
  <2>5. Told(q.steps, p.where, Bad(recs, n))
    BY <1>3, <1>4, <2>3, <2>4, ToldOpened
  <2> QED
    BY <1>5, <1>6, <1>7, <2>1, <2>3, <2>5 DEF ClaudeSound
<1>10. CASE r.kind = "interrupt"
  <2>1. q = C!OnInterrupt(p) /\ r.kind # "result" /\ r.kind # "assistant"
    BY <1>1, <1>8, <1>10, ClaudeTakes
  <2>2. /\ q \in ClaudeState /\ q.current = p.current /\ q.where = p.where /\ q.seen = p.seen
        /\ p.steps = <<>> => q.steps = p.steps
        /\ p.steps # <<>> => /\ Only(p.steps, q.steps, Len(p.steps))
                             /\ q.steps[Len(p.steps)].tools = p.steps[Len(p.steps)].tools
    BY <1>3, <2>1, ClaudeInterrupts
  <2>3. Told(q.steps, p.where, Bad(recs, n)) /\ Len(q.steps) = Len(p.steps)
    <3>1. CASE p.steps = <<>>
      BY <1>3, <2>2, <3>1
    <3>2. CASE p.steps # <<>>
      <4>1. Told(q.steps, p.where, Bad(recs, n))
        BY <1>3, <1>4, <2>2, <3>2, ToldSame
      <4> QED
        BY <2>2, <3>2, <4>1 DEF Only
    <3> QED
      BY <3>1, <3>2
  <2> QED
    BY <1>3, <1>5, <1>6, <1>7, <2>1, <2>2, <2>3 DEF ClaudeSound
<1>11. CASE r.kind = "result"
  <2>1. q = C!OnResult(p, r) /\ r.kind # "assistant"
    BY <1>1, <1>8, <1>11, ClaudeTakes
  <2>2. Located(p.steps, p.where)
    BY <1>3, ToldLocated
  <2>3. /\ q \in ClaudeState /\ q.current = p.current /\ q.where = p.where /\ q.seen = p.seen
        /\ r.tool \notin DOMAIN p.where => q.steps = p.steps
        /\ r.tool \in DOMAIN p.where =>
             Noted(p.steps, q.steps, p.where[r.tool][1], p.where[r.tool][2], r.error)
    BY <1>1, <1>3, <2>1, <2>2, ClaudeResults
  <2>4. Bad(recs, n + 1) = IF r.error THEN Bad(recs, n) \cup {r.tool} ELSE Bad(recs, n) \ {r.tool}
    <3>1. ResultOf(r, r.tool) /\ \A other \in Nat : ResultOf(r, other) => other = r.tool
      BY <1>11 DEF ResultOf
    <3>2. /\ r.error = TRUE => Bad(recs, n + 1) = Bad(recs, n) \cup {r.tool}
          /\ r.error = FALSE => Bad(recs, n + 1) = Bad(recs, n) \ {r.tool}
      BY <3>1, <1>2, BadResult DEF r
    <3> QED
      BY <3>2, <1>2
  <2>5. Told(q.steps, p.where, Bad(recs, n + 1)) /\ Len(q.steps) = Len(p.steps)
    <3>1. CASE r.tool \in DOMAIN p.where
      <4> DEFINE i == p.where[r.tool][1]
                 c == p.where[r.tool][2]
      <4>1. Noted(p.steps, q.steps, i, c, r.error)
        BY <2>3, <3>1
      <4>2. Told(q.steps, p.where, Bad(recs, n + 1))
        BY <1>2, <1>3, <1>4, <2>4, <3>1, <4>1, ToldNoted
      <4> QED
        BY <4>1, <4>2 DEF Noted, Only
    <3>2. CASE r.tool \notin DOMAIN p.where
      <4>1. q.steps = p.steps
        BY <2>3, <3>2
      <4>2. \A x \in DOMAIN p.where : x \in Bad(recs, n + 1) <=> x \in Bad(recs, n)
        BY <2>4, <3>2
      <4>3. Told(p.steps, p.where, Bad(recs, n + 1))
        BY <1>3, <4>2, ToldOthers
      <4> QED
        BY <4>1, <4>3
    <3> QED
      BY <3>1, <3>2
  <2> QED
    BY <1>3, <1>6, <1>7, <2>1, <2>3, <2>5 DEF ClaudeSound
<1>12. CASE r.kind = "assistant"
  <2>1. q = C!OnAssistant(p, r) /\ r.kind # "result"
    BY <1>1, <1>8, <1>12, ClaudeTakes
  <2>2. PICK b : b = Base(p)
    OBVIOUS
  <2> DEFINE m == b.current
  <2>3. /\ q \in ClaudeState /\ q.current = m /\ m = Len(b.steps)
        /\ Only(b.steps, q.steps, m)
        /\ q.steps[m].tools = IF r.tool = 0 THEN b.steps[m].tools ELSE Append(b.steps[m].tools, NewTool(r.tool))
        /\ q.seen = p.seen \cup {r.api}
        /\ q.where = IF r.tool = 0 THEN p.where ELSE C!Placed(p.where, r.tool, <<m, Len(b.steps[m].tools) + 1>>)
    BY <1>1, <1>3, <2>1, <2>2, ClaudeAssists
  <2>4. /\ b \in ClaudeState /\ b.where = p.where
        /\ p.steps # <<>> => b = p
        /\ p.steps = <<>> => b.steps = Append(p.steps, OpenedStep(C!Ordinal(0)))
    BY <1>3, <2>2, BaseIs
  <2>5. b.steps \in Seq(Step) /\ m \in Nat
    BY <2>3, <2>4, ClaudeFields
  <2>6. Told(b.steps, p.where, Bad(recs, n))
    <3>1. CASE p.steps = <<>>
      <4>1. OpenedStep(C!Ordinal(0)) \in Step
        BY Names, NewSteps
      <4>2. OpenedStep(C!Ordinal(0)).tools = <<>>
        BY DEF OpenedStep
      <4> QED
        BY <1>3, <1>4, <2>4, <3>1, <4>1, <4>2, ToldOpened
    <3>2. CASE p.steps # <<>>
      BY <1>3, <2>4, <3>2
    <3> QED
      BY <3>1, <3>2
  <2>7. \A x : x \in q.seen <=> \E j \in 1 .. n + 1 : recs[j].kind = "assistant" /\ recs[j].api = x
    BY <1>3, <1>12, <2>3, OneMore DEF r
  <2>8. Told(q.steps, q.where, Bad(recs, n)) /\ \A id \in DOMAIN q.where : id \in 1 .. n + 1
    <3>1. CASE r.tool = 0
      <4>1. Told(q.steps, p.where, Bad(recs, n))
        BY <2>3, <2>5, <2>6, <3>1, ToldSame
      <4> QED
        BY <1>6, <2>3, <3>1, <4>1
    <3>2. CASE r.tool # 0
      <4> DEFINE k == Len(b.steps[m].tools) + 1
                 id == r.tool
      <4>1. id = n + 1 /\ id \notin DOMAIN p.where /\ id \in Nat
        BY <1>1, <1>2, <1>3, <1>12, <3>2
      <4>2. id \notin Bad(recs, n)
        <5>1. \A j \in 1 .. n : ~ResultOf(recs[j], id)
          <6> SUFFICES ASSUME NEW j \in 1 .. n PROVE ~ResultOf(recs[j], id)
            OBVIOUS
          <6>1. recs \in Seq(ClaudeRecord) /\ j \in 1 .. Len(recs)
            BY DEF ClaudeWritten
          <6>2. recs[j] \in ClaudeRecord /\ (recs[j].kind = "result" => recs[j].tool < j)
            BY <6>1, ElementOfSeq DEF ClaudeWritten
          <6>3. recs[j].kind # "output" /\ recs[j].tool \in Nat
            BY <6>2 DEF ClaudeRecord
          <6> QED
            BY <6>2, <6>3, <4>1 DEF ResultOf
        <5> QED
          BY <5>1, BadNever
      <4>3. k \in Nat
        <5>1. b.steps[m] \in Step
          BY <2>3, <2>5, ElementOfSeq DEF Only
        <5>2. PICK z : z = b.steps[m]
          OBVIOUS
        <5>3. z \in Step
          BY <5>1, <5>2
        <5>4. Len(z.tools) \in Nat
          BY <5>3, StepFields
        <5> QED
          BY <5>2, <5>4
      <4>4. q.where = C!Placed(p.where, id, <<m, k>>)
        BY <2>3, <3>2
      <4> HIDE DEF m, id
      <4>5. /\ DOMAIN q.where = DOMAIN p.where \cup {id} /\ q.where[id] = <<m, k>>
            /\ \A x \in DOMAIN p.where : x # id => q.where[x] = p.where[x]
        <5> HIDE DEF k
        <5>1. PICK w, v : w = p.where /\ v = q.where
          OBVIOUS
        <5>2. v = [c \in DOMAIN w \cup {id} |-> IF c = id THEN <<m, k>> ELSE w[c]]
          BY <4>4, <5>1 DEF C!Placed
        <5>3. DOMAIN v = DOMAIN w \cup {id} /\ v[id] = <<m, k>> /\ \A x \in DOMAIN w : x # id => v[x] = w[x]
          BY <5>2
        <5> QED
          BY <5>1, <5>3
      <4>6. Only(b.steps, q.steps, m) /\ q.steps[m].tools = Append(b.steps[m].tools, NewTool(id))
        BY <2>3, <3>2 DEF m, id
      <4>7. Told(q.steps, q.where, Bad(recs, n))
        <5>1. /\ DOMAIN q.where = DOMAIN p.where \cup {id}
              /\ q.where[id] = <<m, Len(b.steps[m].tools) + 1>>
          BY <4>5
        <5> HIDE DEF k
        <5>2. PICK v, w, s, t, bad : v = q.where /\ w = p.where /\ s = b.steps /\ t = q.steps
                                       /\ bad = Bad(recs, n)
          OBVIOUS
        <5>3. /\ s \in Seq(Step) /\ Told(s, w, bad) /\ id \in Nat /\ id \notin DOMAIN w /\ id \notin bad
              /\ Only(s, t, m) /\ t[m].tools = Append(s[m].tools, NewTool(id))
              /\ DOMAIN v = DOMAIN w \cup {id} /\ v[id] = <<m, Len(s[m].tools) + 1>>
              /\ \A x \in DOMAIN w : x # id => v[x] = w[x]
          BY <4>1, <4>2, <4>5, <4>6, <5>1, <5>2, <2>5, <2>6
        <5>4. Told(t, v, bad)
          BY <5>3, ToldCalled
        <5> QED
          BY <5>2, <5>4
      <4> QED
        BY <1>6, <4>1, <4>5, <4>7
    <3> QED
      BY <3>1, <3>2
  <2> QED
    BY <1>5, <2>1, <2>3, <2>7, <2>8 DEF ClaudeSound, Only
<1>13. CASE r.kind \in {"last-prompt", "hidden"}
  <2>1. q = p /\ r.kind # "result" /\ r.kind # "assistant"
    BY <1>1, <1>8, <1>13, ClaudeTakes
  <2> QED
    BY <1>3, <1>5, <1>6, <1>7, <2>1 DEF ClaudeSound
<1> QED
  BY <1>2, <1>9, <1>10, <1>11, <1>12, <1>13

UsageOf(s) == SumOf([i \in DOMAIN s |-> s[i].usage])

\* The usage of the steps is a function of counts.
LEMMA UsagesCount ==
    ASSUME NEW s \in Seq(Step), NEW f, f = [i \in DOMAIN s |-> s[i].usage]
    PROVE  Counts(f) /\ DOMAIN f = 1 .. Len(s) /\ \A i \in 1 .. Len(s) : f[i] = s[i].usage /\ f[i] \in Nat
<1>1. DOMAIN s = 1 .. Len(s) /\ Len(s) \in Nat
  OBVIOUS
<1>2. IsFiniteSet(1 .. Len(s))
  BY <1>1, FS_Interval
<1>3. \A i \in 1 .. Len(s) : s[i].usage \in Nat
  BY ElementOfSeq, StepFields
<1> QED
  BY <1>1, <1>2, <1>3 DEF Counts

\* The usage of a list of steps is a number.
LEMMA UsageNat == ASSUME NEW s \in Seq(Step) PROVE UsageOf(s) \in Nat
<1> DEFINE f == [i \in DOMAIN s |-> s[i].usage]
<1>1. Counts(f)
  <2>1. PICK g : g = f
    OBVIOUS
  <2> QED
    BY <2>1, UsagesCount
<1> HIDE DEF f
<1>2. SumOf(f) \in Nat
  BY <1>1, SumNat
<1> QED
  BY <1>2 DEF f, UsageOf

\* No steps have used nothing.
LEMMA UsageNone == UsageOf(<<>>) = 0
<1> DEFINE f == [i \in DOMAIN <<>> |-> <<>>[i].usage]
<1>1. DOMAIN f = {}
  OBVIOUS
<1> HIDE DEF f
<1>2. SumOf(f) = 0
  BY <1>1, SumEmpty
<1> QED
  BY <1>2 DEF f, UsageOf

\* A new step has used nothing yet.
LEMMA UsageOpened ==
    ASSUME NEW s \in Seq(Step), NEW z \in Step, z.usage = 0, NEW t, t = Append(s, z)
    PROVE  UsageOf(t) = UsageOf(s)
<1> DEFINE f == [i \in DOMAIN s |-> s[i].usage]
           g == [i \in DOMAIN t |-> t[i].usage]
           n == Len(s) + 1
<1>1. t \in Seq(Step) /\ Len(s) \in Nat /\ Len(t) = n /\ t[n] = z /\ \A i \in 1 .. Len(s) : t[i] = s[i]
  BY Appended
<1>2. Counts(f) /\ DOMAIN f = 1 .. Len(s) /\ \A i \in 1 .. Len(s) : f[i] = s[i].usage
  <2>1. PICK h : h = f
    OBVIOUS
  <2> QED
    BY <2>1, UsagesCount
<1>3. DOMAIN g = 1 .. Len(t) /\ \A i \in 1 .. Len(t) : g[i] = t[i].usage
  <2>1. PICK h : h = g
    OBVIOUS
  <2> QED
    BY <1>1, <2>1, UsagesCount
<1>4. SumOf(f) = UsageOf(s) /\ SumOf(g) = UsageOf(t)
  BY DEF UsageOf
<1> HIDE DEF f, g
<1>5. /\ n \notin DOMAIN f /\ DOMAIN g = DOMAIN f \cup {n} /\ \A y \in DOMAIN f : g[y] = f[y]
      /\ g[n] = 0
  BY <1>1, <1>2, <1>3
<1>6. SumOf(g) = SumOf(f) + g[n]
  <2>1. g[n] \in Nat
    BY <1>5
  <2> HIDE DEF n
  <2> QED
    BY <1>2, <1>5, <2>1, SumMore
<1>7. SumOf(f) \in Nat
  BY <1>2, SumNat
<1> QED
  BY <1>4, <1>5, <1>6, <1>7

\* If one step changes, the sum changes with it.
LEMMA UsageOnly ==
    ASSUME NEW s \in Seq(Step), NEW t, NEW n, Only(s, t, n)
    PROVE  UsageOf(t) + s[n].usage = UsageOf(s) + t[n].usage /\ s[n].usage \in Nat /\ t[n].usage \in Nat
<1> DEFINE f == [i \in DOMAIN s |-> s[i].usage]
           g == [i \in DOMAIN t |-> t[i].usage]
<1>1. t \in Seq(Step) /\ Len(t) = Len(s) /\ n \in 1 .. Len(s) /\ \A i \in 1 .. Len(s) : i # n => t[i] = s[i]
  BY DEF Only
<1>2. Counts(f) /\ DOMAIN f = 1 .. Len(s) /\ \A i \in 1 .. Len(s) : f[i] = s[i].usage /\ f[i] \in Nat
  <2>1. PICK h : h = f
    OBVIOUS
  <2> QED
    BY <2>1, UsagesCount
<1>3. DOMAIN g = 1 .. Len(t) /\ \A i \in 1 .. Len(t) : g[i] = t[i].usage /\ g[i] \in Nat
  <2>1. PICK h : h = g
    OBVIOUS
  <2> QED
    BY <1>1, <2>1, UsagesCount
<1>4. SumOf(f) = UsageOf(s) /\ SumOf(g) = UsageOf(t)
  BY DEF UsageOf
<1> HIDE DEF f, g
<1>5. n \in DOMAIN f /\ DOMAIN g = DOMAIN f /\ \A y \in DOMAIN f : y # n => g[y] = f[y]
  BY <1>1, <1>2, <1>3
<1>6. f[n] = s[n].usage /\ g[n] = t[n].usage /\ f[n] \in Nat /\ g[n] \in Nat
  BY <1>1, <1>2, <1>3
<1>7. SumOf(g) + f[n] = SumOf(f) + g[n]
  BY <1>2, <1>5, <1>6, SumChanged
<1> QED
  BY <1>4, <1>6, <1>7

SumOfApis(S) == SumOf([api \in S |-> api])

\* No responses have used nothing.
LEMMA ApisNone == SumOfApis({}) = 0
<1> DEFINE f == [api \in {} |-> api]
<1>1. DOMAIN f = {}
  OBVIOUS
<1> HIDE DEF f
<1>2. SumOf(f) = 0
  BY <1>1, SumEmpty
<1> QED
  BY <1>2 DEF f, SumOfApis

\* A response that was not seen adds its tokens.
LEMMA ApisMore ==
    ASSUME NEW S \in SUBSET Nat, IsFiniteSet(S), NEW x \in Nat, x \notin S, NEW V, V = S \cup {x}
    PROVE  SumOfApis(V) = SumOfApis(S) + x
<1> DEFINE f == [api \in S |-> api]
           g == [api \in V |-> api]
<1>1. Counts(f) /\ DOMAIN f = S /\ DOMAIN g = V /\ x \notin DOMAIN f
        /\ DOMAIN g = DOMAIN f \cup {x} /\ \A y \in DOMAIN f : g[y] = f[y]
  BY DEF Counts
<1>2. g[x] = x
  OBVIOUS
<1>3. SumOf(f) = SumOfApis(S) /\ SumOf(g) = SumOfApis(V)
  BY DEF SumOfApis
<1> HIDE DEF f, g
<1>4. SumOf(g) = SumOf(f) + g[x]
  BY <1>1, <1>2, SumMore
<1> QED
  BY <1>2, <1>3, <1>4

ToolIds(step) == [t \in DOMAIN step.tools |-> step.tools[t].id]

\* What one more record may do to the steps.
Opened(s, t) == \E z \in Step : z.tools = <<>> /\ z.usage = 0 /\ t = Append(s, z)
Touched(s, t) ==
    \E n : /\ Only(s, t, n) /\ t[n].calls = s[n].calls /\ t[n].usage = s[n].usage
           /\ Len(t[n].tools) = Len(s[n].tools) /\ ToolIds(t[n]) = ToolIds(s[n])
LastOnly(s, t) == Only(s, t, Len(s))

\* The names stay, and what all but the last step did.
Grows(s, t) ==
    /\ Len(s) <= Len(t)
    /\ \A i \in 1 .. Len(s) : s[i].id = t[i].id
    /\ \A i \in 1 .. Len(s) : i # Len(s) =>
         /\ s[i].calls = t[i].calls /\ s[i].usage = t[i].usage
         /\ Len(s[i].tools) = Len(t[i].tools) /\ ToolIds(s[i]) = ToolIds(t[i])

\* A list of steps has grown from itself.
LEMMA GrowsSame == ASSUME NEW s \in Seq(Step) PROVE Grows(s, s)
  BY DEF Grows

\* Steps grow when one is opened,
LEMMA GrowsOpened == ASSUME NEW s \in Seq(Step), NEW t, Opened(s, t) PROVE Grows(s, t) /\ t \in Seq(Step) /\ t # <<>>
<1>1. PICK z \in Step : t = Append(s, z)
  BY DEF Opened
<1>2. Len(t) = Len(s) + 1 /\ Len(s) \in Nat /\ (\A i \in 1 .. Len(s) : t[i] = s[i]) /\ t \in Seq(Step)
  BY <1>1, Appended
<1> QED
  BY <1>2, EmptySeq DEF Grows

\* when a result is noted in one of them,
LEMMA GrowsTouched == ASSUME NEW s \in Seq(Step), NEW t, Touched(s, t) PROVE Grows(s, t)
<1>1. Len(t) = Len(s) /\ Len(s) \in Nat
  BY DEF Touched, Only
<1>2. \A i \in 1 .. Len(s) : /\ s[i].id = t[i].id /\ s[i].calls = t[i].calls /\ s[i].usage = t[i].usage
                             /\ Len(s[i].tools) = Len(t[i].tools) /\ ToolIds(s[i]) = ToolIds(t[i])
  BY DEF Touched, Only
<1> QED
  BY <1>1, <1>2 DEF Grows

\* and when the last one changes.
LEMMA GrowsLast ==
    ASSUME NEW s \in Seq(Step), NEW t \in Seq(Step), NEW u, Grows(s, t), LastOnly(t, u)
    PROVE  Grows(s, u)
<1>1. Len(s) \in Nat /\ Len(t) \in Nat /\ Len(u) = Len(t) /\ Len(s) <= Len(t)
  BY DEF LastOnly, Only, Grows
<1>2. \A i \in 1 .. Len(t) : u[i].id = t[i].id /\ (i # Len(t) => u[i] = t[i])
  BY DEF LastOnly, Only
<1>3. \A i \in 1 .. Len(s) : i \in 1 .. Len(t) /\ (i # Len(s) => i # Len(t))
  BY <1>1
<1> QED
  BY <1>1, <1>2, <1>3 DEF Grows

\* What has grown from a list has grown from one that differs in its last step.
LEMMA GrowsFromLast ==
    ASSUME NEW s \in Seq(Step), NEW t, NEW u, Grows(s, u), LastOnly(s, t)
    PROVE  Grows(t, u)
<1>1. Len(t) = Len(s) /\ \A i \in 1 .. Len(s) : t[i].id = s[i].id /\ (i # Len(s) => t[i] = s[i])
  BY DEF LastOnly, Only
<1> QED
  BY <1>1 DEF Grows

\* Every list has grown from the empty one.
LEMMA GrowsEmpty == ASSUME NEW t \in Seq(Step) PROVE Grows(<<>>, t)
<1>1. Len(<<>>) = 0 /\ Len(t) \in Nat
  OBVIOUS
<1> QED
  BY <1>1 DEF Grows

\* To note an error leaves names and usage.
LEMMA NotedTouches == ASSUME NEW s \in Seq(Step), NEW t, NEW n, NEW c, NEW e, Noted(s, t, n, c, e) PROVE Touched(s, t)
<1>1. n \in 1 .. Len(s) /\ s[n] \in Step
  BY ElementOfSeq DEF Noted, Only
<1>2. s[n].tools \in Seq(Tool) /\ t[n].tools \in Seq(Tool) /\ Len(t[n].tools) = Len(s[n].tools)
  BY <1>1, StepFields DEF Noted
<1>3. \A i \in 1 .. Len(s[n].tools) : t[n].tools[i].id = s[n].tools[i].id
  BY DEF Noted
<1>4. DOMAIN t[n].tools = 1 .. Len(s[n].tools) /\ DOMAIN s[n].tools = 1 .. Len(s[n].tools)
  BY <1>2
<1>5. ToolIds(t[n]) = ToolIds(s[n])
  BY <1>3, <1>4 DEF ToolIds
<1> QED
  BY <1>2, <1>5 DEF Noted, Touched

\* A response that begins is one step's: the last one's, or a new one's.
Assisted(s, t, more) ==
    \E b \in Seq(Step) :
      /\ s # <<>> => b = s
      /\ s = <<>> => Opened(s, b)
      /\ LastOnly(b, t) /\ t[Len(b)].usage = b[Len(b)].usage + more

\* What a record may do to a parse.
ClaudeEffect(p, q, r) ==
    \/ /\ q.steps = p.steps \/ Opened(p.steps, q.steps) \/ Touched(p.steps, q.steps)
       /\ q.seen = p.seen
    \/ /\ Assisted(p.steps, q.steps, Tokens(p, r)) /\ r.api \in Nat
       /\ q.seen = p.seen \cup {r.api}

\* Whatever its kind, a record has one of these effects.
LEMMA ClaudeEffects ==
    ASSUME NEW recs, ClaudeWritten(recs), NEW n \in Nat, n + 1 <= Len(recs),
           NEW p, ClaudeSound(recs, n, p), NEW q, q = C!Take(p, recs[n + 1])
    PROVE  ClaudeEffect(p, q, recs[n + 1])
<1> DEFINE r == recs[n + 1]
<1>1. r \in ClaudeRecord
  <2>1. recs \in Seq(ClaudeRecord) /\ n + 1 \in 1 .. Len(recs)
    BY DEF ClaudeWritten
  <2> QED
    BY <2>1, ElementOfSeq
<1>2. /\ r.kind \in {"prompt", "padded", "compact", "interrupt", "last-prompt", "hidden", "assistant", "result"}
      /\ r.api \in Nat
  BY <1>1 DEF ClaudeRecord
<1>3. p \in ClaudeState /\ p.current = Len(p.steps) /\ Told(p.steps, p.where, Bad(recs, n))
  BY DEF ClaudeSound
<1>4. p.steps \in Seq(Step) /\ Len(p.steps) \in Nat
  BY <1>3, ClaudeFields
<1> HIDE DEF r
<1>5. q = C!Take(p, r)
  BY DEF r
<1> SUFFICES ClaudeEffect(p, q, r)
  BY DEF r
<1>6. CASE r.kind \in {"prompt", "padded", "compact"}
  <2>1. q = C!OnPrompt(p, r)
    BY <1>1, <1>5, <1>6, ClaudeTakes
  <2>2. PICK z : z = PromptedStep(IF r.id = 0 THEN C!Ordinal(Len(p.steps)) ELSE C!Native(r.id))
    OBVIOUS
  <2>3. q.seen = p.seen /\ z \in Step /\ q.steps = Append(p.steps, z)
    BY <1>1, <1>3, <2>1, <2>2, ClaudePrompt
  <2>4. z.tools = <<>> /\ z.usage = 0
    BY <2>2 DEF PromptedStep
  <2> QED
    BY <2>3, <2>4 DEF Opened, ClaudeEffect
<1>7. CASE r.kind = "interrupt"
  <2>1. q = C!OnInterrupt(p)
    BY <1>1, <1>5, <1>7, ClaudeTakes
  <2>2. /\ q.seen = p.seen
        /\ p.steps = <<>> => q.steps = p.steps
        /\ LET m == Len(p.steps) IN
           p.steps # <<>> => /\ Only(p.steps, q.steps, m) /\ q.steps[m].tools = p.steps[m].tools
                             /\ q.steps[m].calls = p.steps[m].calls
                             /\ q.steps[m].usage = p.steps[m].usage
    BY <1>3, <2>1, ClaudeInterrupts
  <2>3. LET m == Len(p.steps) IN
        p.steps # <<>> => ToolIds(q.steps[m]) = ToolIds(p.steps[m])
    BY <2>2 DEF ToolIds
  <2> QED
    BY <2>2, <2>3 DEF Touched, ClaudeEffect
<1>8. CASE r.kind = "result"
  <2>1. q = C!OnResult(p, r)
    BY <1>1, <1>5, <1>8, ClaudeTakes
  <2>2. Located(p.steps, p.where)
    BY <1>3, ToldLocated
  <2>3. /\ q.seen = p.seen
        /\ r.tool \notin DOMAIN p.where => q.steps = p.steps
        /\ LET at == p.where[r.tool] IN
           r.tool \in DOMAIN p.where => Noted(p.steps, q.steps, at[1], at[2], r.error)
    BY <1>1, <1>3, <2>1, <2>2, ClaudeResults
  <2>4. p.steps \in Seq(Step)
    BY <1>3, ClaudeFields
  <2>5. r.tool \in DOMAIN p.where => Touched(p.steps, q.steps)
    BY <2>3, <2>4, NotedTouches
  <2> QED
    BY <2>3, <2>5 DEF ClaudeEffect
<1>9. CASE r.kind = "assistant"
  <2>1. q = C!OnAssistant(p, r)
    BY <1>1, <1>5, <1>9, ClaudeTakes
  <2>2. PICK b : b = Base(p)
    OBVIOUS
  <2>3. /\ b.current = Len(b.steps) /\ Only(b.steps, q.steps, b.current)
        /\ q.steps[b.current].usage = b.steps[b.current].usage + Tokens(p, r)
        /\ q.seen = p.seen \cup {r.api}
    BY <1>1, <1>3, <2>1, <2>2, ClaudeAssists
  <2>4. /\ b \in ClaudeState
        /\ p.steps # <<>> => b = p
        /\ p.steps = <<>> => b.steps = Append(p.steps, OpenedStep(C!Ordinal(0)))
    BY <1>3, <2>2, BaseIs
  <2>5. b.steps \in Seq(Step)
    BY <2>4, ClaudeFields
  <2>6. p.steps = <<>> => Opened(p.steps, b.steps)
    <3>1. OpenedStep(C!Ordinal(0)) \in Step
      BY Names, NewSteps
    <3>2. OpenedStep(C!Ordinal(0)).tools = <<>> /\ OpenedStep(C!Ordinal(0)).usage = 0
      BY DEF OpenedStep
    <3> QED
      BY <2>4, <3>1, <3>2 DEF Opened
  <2>7. Assisted(p.steps, q.steps, Tokens(p, r))
    BY <2>3, <2>4, <2>5, <2>6 DEF Assisted, LastOnly
  <2> QED
    BY <1>2, <2>3, <2>7 DEF ClaudeEffect
<1>10. CASE r.kind \in {"last-prompt", "hidden"}
  BY <1>1, <1>5, <1>10, ClaudeTakes DEF ClaudeEffect
<1> QED
  BY <1>2, <1>6, <1>7, <1>8, <1>9, <1>10

\* A record of the assistant adds its usage and lets the list grow.
LEMMA AssistedAdds ==
    ASSUME NEW s \in Seq(Step), NEW t, NEW more \in Nat, Assisted(s, t, more)
    PROVE  Grows(s, t) /\ UsageOf(t) = UsageOf(s) + more
<1>1. PICK b \in Seq(Step) :
      /\ s # <<>> => b = s
      /\ s = <<>> => Opened(s, b)
      /\ LastOnly(b, t) /\ t[Len(b)].usage = b[Len(b)].usage + more
  BY DEF Assisted
<1>2. Grows(s, b)
  BY <1>1, GrowsSame, GrowsOpened
<1>3. UsageOf(b) = UsageOf(s) /\ UsageOf(s) \in Nat
  BY <1>1, UsageOpened, UsageNat DEF Opened
<1> DEFINE n == Len(b)
<1>4. UsageOf(t) + b[n].usage = UsageOf(b) + t[n].usage /\ b[n].usage \in Nat /\ t[n].usage \in Nat
  <2>1. Only(b, t, n)
    BY <1>1 DEF LastOnly
  <2> HIDE DEF n
  <2> QED
    BY <2>1, UsageOnly
<1>5. UsageOf(t) \in Nat
  <2>1. t \in Seq(Step)
    BY <1>1 DEF LastOnly, Only
  <2> QED
    BY <2>1, UsageNat
<1>6. t[n].usage = b[n].usage + more
  BY <1>1
<1> HIDE DEF n
<1>7. UsageOf(t) = UsageOf(s) + more
  <2>1. PICK us, ut, x, y : us = UsageOf(s) /\ ut = UsageOf(t) /\ x = b[n].usage /\ y = t[n].usage
    OBVIOUS
  <2>2. us \in Nat /\ ut \in Nat /\ x \in Nat /\ y = x + more /\ ut + x = us + y
    BY <1>3, <1>4, <1>5, <1>6, <2>1
  <2>3. ut = us + more
    BY <2>2
  <2> QED
    BY <2>1, <2>3
<1>8. Grows(s, t)
  BY <1>1, <1>2, GrowsLast
<1> QED
  BY <1>7, <1>8

\* Where only errors change the usage stays.
LEMMA TouchedAdds ==
    ASSUME NEW s \in Seq(Step), NEW t, Touched(s, t)
    PROVE  UsageOf(t) = UsageOf(s)
<1>1. PICK n : Only(s, t, n) /\ t[n].usage = s[n].usage
  BY DEF Touched
<1>2. UsageOf(t) + s[n].usage = UsageOf(s) + t[n].usage /\ s[n].usage \in Nat
  BY <1>1, UsageOnly
<1>3. t \in Seq(Step)
  BY <1>1 DEF Only
<1>4. UsageOf(s) \in Nat /\ UsageOf(t) \in Nat
  BY <1>3, UsageNat
<1> QED
  BY <1>1, <1>2, <1>4

ClaudeCounted(p) == IsFiniteSet(p.seen) /\ UsageOf(p.steps) = SumOfApis(p.seen)

\* A response is counted with its first record and not again.
LEMMA ClaudeCountedNext ==
    ASSUME NEW recs, ClaudeWritten(recs), NEW n \in Nat, n + 1 <= Len(recs),
           NEW p, ClaudeSound(recs, n, p), ClaudeCounted(p), NEW q, q = C!Take(p, recs[n + 1])
    PROVE  ClaudeCounted(q) /\ Grows(p.steps, q.steps)
<1>0. ClaudeEffect(p, q, recs[n + 1])
  BY ClaudeEffects
<1>1. p.steps \in Seq(Step) /\ p.seen \in SUBSET Nat
  BY ClaudeFields DEF ClaudeSound
<1>2. CASE /\ q.steps = p.steps \/ Opened(p.steps, q.steps) \/ Touched(p.steps, q.steps)
           /\ q.seen = p.seen
  <2>1. UsageOf(q.steps) = UsageOf(p.steps)
    BY <1>1, <1>2, UsageOpened, TouchedAdds DEF Opened
  <2>2. Grows(p.steps, q.steps)
    BY <1>1, <1>2, GrowsSame, GrowsOpened, GrowsTouched
  <2> QED
    BY <1>2, <2>1, <2>2 DEF ClaudeCounted
<1>3. CASE /\ Assisted(p.steps, q.steps, Tokens(p, recs[n + 1])) /\ recs[n + 1].api \in Nat
           /\ q.seen = p.seen \cup {recs[n + 1].api}
  <2> DEFINE x == recs[n + 1].api
  <2>1. Tokens(p, recs[n + 1]) = IF x \notin p.seen THEN x ELSE 0
    BY DEF Tokens
  <2>2. Tokens(p, recs[n + 1]) \in Nat
    BY <1>3, <2>1
  <2>3. Grows(p.steps, q.steps) /\ UsageOf(q.steps) = UsageOf(p.steps) + Tokens(p, recs[n + 1])
    BY <1>1, <1>3, <2>2, AssistedAdds
  <2>4. UsageOf(p.steps) \in Nat /\ UsageOf(p.steps) = SumOfApis(p.seen) /\ IsFiniteSet(p.seen)
    BY <1>1, UsageNat DEF ClaudeCounted
  <2> HIDE DEF x
  <2>5. SumOfApis(q.seen) = SumOfApis(p.seen) + (IF x \notin p.seen THEN x ELSE 0)
    <3>0. x \in Nat /\ q.seen = p.seen \cup {x}
      BY <1>3 DEF x
    <3>1. CASE x \notin p.seen
      <4>1. SumOfApis(q.seen) = SumOfApis(p.seen) + x
        BY <1>1, <2>4, <3>0, <3>1, ApisMore
      <4> QED
        BY <3>1, <4>1
    <3>2. CASE x \in p.seen
      <4>1. q.seen = p.seen
        BY <3>0, <3>2
      <4>2. SumOfApis(p.seen) \in Nat
        BY <2>4
      <4> QED
        BY <3>2, <4>1, <4>2
    <3> QED
      BY <3>1, <3>2
  <2>6. IsFiniteSet(q.seen)
    <3>1. IsFiniteSet(p.seen \cup {x})
      BY <2>4, FS_AddElement, Zenon
    <3> QED
      BY <1>3, <3>1 DEF x
  <2> QED
    BY <2>1, <2>3, <2>4, <2>5, <2>6 DEF ClaudeCounted
<1>4. \/ /\ q.steps = p.steps \/ Opened(p.steps, q.steps) \/ Touched(p.steps, q.steps)
         /\ q.seen = p.seen
      \/ /\ Assisted(p.steps, q.steps, Tokens(p, recs[n + 1])) /\ recs[n + 1].api \in Nat
         /\ q.seen = p.seen \cup {recs[n + 1].api}
  BY <1>0 DEF ClaudeEffect
<1> QED
  BY <1>2, <1>3, <1>4, Zenon

\* By induction over the records.
LEMMA ClaudeRunSound ==
    ASSUME NEW recs, ClaudeWritten(recs), NEW a, IsClaudeRun(a, recs)
    PROVE  \A n \in 0 .. Len(recs) : ClaudeSound(recs, n, a[n]) /\ ClaudeCounted(a[n])
<1> DEFINE N == Len(recs)
           T == {n \in 0 .. N : ClaudeSound(recs, n, a[n]) /\ ClaudeCounted(a[n])}
<1>1. N \in Nat
  BY DEF ClaudeWritten
<1>2. \A i \in 0 .. N : a[i] = IF i = 0 THEN C!Empty ELSE C!Take(a[i - 1], recs[i])
  BY DEF IsClaudeRun
<1>3. 0 \in T
  <2>1. a[0] = C!Empty
    BY <1>1, <1>2
  <2>2. C!Empty.seen = {} /\ C!Empty.steps = <<>>
    BY DEF C!Empty
  <2>3. ClaudeCounted(C!Empty)
    BY <2>2, UsageNone, ApisNone, FS_EmptySet DEF ClaudeCounted
  <2> QED
    BY <1>1, <2>1, <2>3, ClaudeSoundEmpty
<1>4. ASSUME NEW k \in 0 .. N, k # N, k \in T PROVE k + 1 \in T
  <2>1. k \in Nat /\ k + 1 \in 0 .. N /\ k + 1 <= Len(recs) /\ k + 1 # 0 /\ k + 1 - 1 = k
    BY <1>1, <1>4
  <2>2. a[k + 1] = C!Take(a[k], recs[k + 1])
    BY <1>2, <2>1
  <2>3. ClaudeSound(recs, k, a[k]) /\ ClaudeCounted(a[k])
    BY <1>4
  <2>4. ClaudeSound(recs, k + 1, a[k + 1]) /\ ClaudeCounted(a[k + 1])
    BY <2>1, <2>2, <2>3, ClaudeSoundNext, ClaudeCountedNext
  <2> QED
    BY <2>1, <2>4
<1> HIDE DEF T
<1>5. \A n \in 0 .. N : n \in T
  <2> HIDE DEF N
  <2> QED
    BY <1>1, <1>3, <1>4, UpTo
<1> QED
  BY <1>5 DEF T

\* A whole Claude Code transcript: what the parser returns is right and accounts for every response.
LEMMA ClaudeParsed ==
    ASSUME NEW recs, ClaudeWritten(recs)
    PROVE  ClaudeSound(recs, Len(recs), C!Parse(recs)) /\ ClaudeCounted(C!Parse(recs))
<1>1. Len(recs) \in Nat /\ Len(recs) \in 0 .. Len(recs)
  BY DEF ClaudeWritten
<1>2. PICK a : IsClaudeRun(a, recs) /\ C!Parse(recs) = a[Len(recs)]
  BY <1>1, ClaudeParses
<1> QED
  BY <1>1, <1>2, ClaudeRunSound

\* The errors of calls, as their results tell them.
Attributed(recs, steps) ==
    \A i \in DOMAIN steps : \A t \in DOMAIN steps[i].tools :
        LET tool == steps[i].tools[t]
            results == {j \in DOMAIN recs :
                          \/ recs[j].kind = "result" /\ recs[j].tool = tool.id
                          \/ recs[j].kind = "output" /\ recs[j].id = tool.id}
        IN tool.error = (results # {} /\ recs[CHOOSE j \in results :
                                           \A k \in results : k <= j].error)

\* The last of some places is one of them.
LEMMA LastIn ==
    ASSUME NEW n \in Nat, NEW R, R \subseteq 1 .. n, R # {}
    PROVE  LastOf(R) \in R
<1> DEFINE M == {m \in Nat : \A k \in R : k <= m}
<1>1. n \in M
  OBVIOUS
<1>2. PICK m \in M : \A x \in M : m <= x
  <2>1. M \in SUBSET Nat /\ M # {}
    BY <1>1
  <2> HIDE DEF M
  <2> QED
    BY <2>1, NonEmptyMin
<1>3. m \in R
  <2> SUFFICES ASSUME m \notin R PROVE FALSE
    OBVIOUS
  <2>1. PICK k \in R : TRUE
    OBVIOUS
  <2>2. k \in Nat /\ k >= 1 /\ m \in Nat /\ k <= m
    BY <1>2
  <2>3. m - 1 \in M
    <3>1. \A x \in R : x \in Nat /\ x <= m /\ x # m
      BY <1>2
    <3>2. \A x \in R : x <= m - 1
      BY <2>2, <3>1
    <3> QED
      BY <2>2, <3>2
  <2> HIDE DEF M
  <2>4. m <= m - 1
    BY <1>2, <2>3
  <2> QED
    BY <2>2, <2>4
<1>4. \E j \in R : \A k \in R : k <= j
  BY <1>2, <1>3
<1> QED
  BY <1>4 DEF LastOf

\* What Told says is what ErrorsAttributed asks.
LEMMA ToldAttributed ==
    ASSUME NEW S, NEW recs \in Seq(S), \A j \in 1 .. Len(recs) : recs[j].error \in BOOLEAN,
           NEW steps \in Seq(Step), NEW where, Told(steps, where, Bad(recs, Len(recs)))
    PROVE  Attributed(recs, steps)
<1> SUFFICES ASSUME NEW i \in DOMAIN steps, NEW t \in DOMAIN steps[i].tools
             PROVE  LET tool == steps[i].tools[t]
                        results == {j \in DOMAIN recs :
                                      \/ recs[j].kind = "result" /\ recs[j].tool = tool.id
                                      \/ recs[j].kind = "output" /\ recs[j].id = tool.id}
                    IN tool.error = (results # {} /\ recs[CHOOSE j \in results :
                                                       \A k \in results : k <= j].error)
  BY DEF Attributed
<1> DEFINE tool == steps[i].tools[t]
           n == Len(recs)
           R == Results(recs, tool.id, n)
<1>1. i \in 1 .. Len(steps) /\ steps[i].tools \in Seq(Tool)
  BY ElementOfSeq, StepFields
<1>2. t \in 1 .. Len(steps[i].tools) /\ tool \in Tool
  BY <1>1, ElementOfSeq
<1>3. tool.error \in BOOLEAN /\ tool.id \in Nat
  BY <1>2 DEF Tool
<1>4. tool.error <=> tool.id \in Bad(recs, n)
  BY <1>1, <1>2 DEF Told
<1>5. R = {j \in DOMAIN recs : \/ recs[j].kind = "result" /\ recs[j].tool = tool.id
                               \/ recs[j].kind = "output" /\ recs[j].id = tool.id}
  BY DEF Results, ResultOf
<1>6. tool.id \in Bad(recs, n) <=> R # {} /\ recs[LastOf(R)].error = TRUE
  BY <1>3 DEF Bad
<1>7. R # {} => recs[LastOf(R)].error \in BOOLEAN
  <2> HAVE R # {}
  <2>1. R \subseteq 1 .. n /\ n \in Nat
    BY DEF Results
  <2>2. LastOf(R) \in R
    <3> HIDE DEF R
    <3> QED
      BY <2>1, LastIn
  <2> QED
    BY <2>1, <2>2
<1> HIDE DEF tool, n, R
<1>8. tool.error = (R # {} /\ recs[LastOf(R)].error)
  BY <1>3, <1>4, <1>6, <1>7, Zenon
<1> QED
  BY <1>5, <1>8 DEF LastOf, tool

\* parse_claude gives each call the error of its last result.
LEMMA ClaudeAttributed ==
    ASSUME NEW recs, ClaudeWritten(recs)
    PROVE  Attributed(recs, C!Parse(recs).steps)
<1> DEFINE p == C!Parse(recs)
<1>1. ClaudeSound(recs, Len(recs), p)
  BY ClaudeParsed
<1>2. recs \in Seq(ClaudeRecord)
  BY DEF ClaudeWritten
<1>3. \A j \in 1 .. Len(recs) : recs[j].error \in BOOLEAN
  <2>1. \A j \in 1 .. Len(recs) : recs[j] \in ClaudeRecord
    BY <1>2, ElementOfSeq
  <2> QED
    BY <2>1 DEF ClaudeRecord
<1> HIDE DEF p
<1>4. p.steps \in Seq(Step) /\ Told(p.steps, p.where, Bad(recs, Len(recs)))
  BY <1>1, ClaudeFields DEF ClaudeSound
<1>5. Attributed(recs, p.steps)
  BY <1>2, <1>3, <1>4, ToldAttributed
<1> QED
  BY <1>5 DEF p

\* parse_claude counts each response once.
LEMMA ClaudeUsage ==
    ASSUME NEW recs, ClaudeWritten(recs)
    PROVE  UsageOf(C!Parse(recs).steps) = SumOfApis({recs[i].api : i \in Kinds(recs, "assistant")})
             /\ UsageOf(C!Parse(recs).steps) \in Nat
<1> DEFINE p == C!Parse(recs)
           n == Len(recs)
<1>1. ClaudeSound(recs, n, p) /\ ClaudeCounted(p)
  BY ClaudeParsed
<1>2. DOMAIN recs = 1 .. n
  BY DEF ClaudeWritten
<1> HIDE DEF p, n
<1>3. \A x : x \in p.seen <=> \E j \in 1 .. n : recs[j].kind = "assistant" /\ recs[j].api = x
  BY <1>1 DEF ClaudeSound
<1>4. p.seen = {recs[i].api : i \in Kinds(recs, "assistant")}
  BY <1>2, <1>3 DEF Kinds
<1>5. p.steps \in Seq(Step)
  BY <1>1, ClaudeFields DEF ClaudeSound
<1>6. UsageOf(p.steps) = SumOfApis(p.seen) /\ UsageOf(p.steps) \in Nat
  BY <1>1, <1>5, UsageNat DEF ClaudeCounted
<1> QED
  BY <1>4, <1>6 DEF p

\* A record more keeps the names of the steps, and what all but the last did.
LEMMA ClaudeGrows ==
    ASSUME NEW recs, NEW r \in ClaudeRecord, ClaudeWritten(recs), ClaudeWritten(Append(recs, r))
    PROVE  /\ Grows(C!Parse(recs).steps, C!Parse(Append(recs, r)).steps)
           /\ C!Parse(recs).steps \in Seq(Step) /\ C!Parse(Append(recs, r)).steps \in Seq(Step)
<1> DEFINE more == Append(recs, r)
           n == Len(recs)
           p == C!Parse(recs)
           q == C!Parse(more)
<1>1. recs \in Seq(ClaudeRecord)
  BY DEF ClaudeWritten
<1>2. n \in Nat /\ Len(more) = n + 1 /\ more[n + 1] = r /\ \A i \in 1 .. n : more[i] = recs[i]
  BY <1>1, Appended
<1>3. q = C!Take(p, r)
  BY <1>1, ClaudeAppend
<1>4. ClaudeSound(more, n + 1, q) /\ ClaudeWritten(more)
  BY <1>2, ClaudeParsed
<1>5. ClaudeSound(more, n, p) /\ ClaudeCounted(p)
  <2>1. PICK a : IsClaudeRun(a, recs) /\ p = a[n]
    BY <1>2, ClaudeParses
  <2>2. PICK b : IsClaudeRun(b, more)
    <3> HIDE DEF more
    <3>1. Len(more) \in Nat
      BY <1>2
    <3> QED
      BY <3>1, ClaudeRunExists
  <2> HIDE DEF more, p
  <2>3. a[n] = b[n]
    BY <1>2, <2>1, <2>2, ClaudeRunUnique
  <2>4. n \in 0 .. Len(more)
    BY <1>2
  <2> HIDE DEF n
  <2> QED
    BY <1>4, <2>1, <2>2, <2>3, <2>4, ClaudeRunSound
<1>6. Grows(p.steps, q.steps)
  <2>1. n + 1 <= Len(more) /\ q = C!Take(p, more[n + 1])
    BY <1>2, <1>3
  <2> HIDE DEF more, p, q, n
  <2>2. n \in Nat
    BY <1>2
  <2> QED
    BY <1>4, <1>5, <2>1, <2>2, ClaudeCountedNext
<1>7. p.steps \in Seq(Step) /\ q.steps \in Seq(Step)
  <2> HIDE DEF p, q
  <2> QED
    BY <1>4, <1>5, ClaudeFields DEF ClaudeSound
<1> QED
  BY <1>6, <1>7

CodexState ==
    [steps : Seq(Step), current : Nat, total : Nat, start : Nat, where : Places,
     compactions : Nat, interruptions : Nat]

CodexKinds ==
    {"meta", "message", "complete", "compacted", "started", "call", "tokens", "output", "other"}
CodexRecord == [kind : CodexKinds, id : Nat, total : Nat, error : BOOLEAN]

\* What parse_codex computes, without the recursive function.
LEMMA CodexParses ==
    ASSUME NEW recs, Len(recs) \in Nat
    PROVE  \E a : IsCodexRun(a, recs) /\ X!Parse(recs) = X!CloseStep(a[Len(recs)])
<1> DEFINE a == CHOOSE a : a = [i \in 0 .. Len(recs) |-> IF i = 0 THEN X!Empty ELSE X!Take(a[i - 1], recs[i])]
<1>1. a = [i \in 0 .. Len(recs) |-> IF i = 0 THEN X!Empty ELSE X!Take(a[i - 1], recs[i])]
  BY CodexRunExists DEF IsCodexRun
<1>2. X!Parse(recs) = X!CloseStep(a[Len(recs)])
  BY DEF X!Parse
<1> HIDE DEF a
<1> QED
  BY <1>1, <1>2 DEF IsCodexRun

\* The fields of the Codex parser's state, with their types.
LEMMA CodexFields ==
    ASSUME NEW p \in CodexState
    PROVE  /\ p.steps \in Seq(Step) /\ Len(p.steps) \in Nat /\ p.current \in Nat
           /\ p.total \in Nat /\ p.start \in Nat /\ p.where \in Places
<1>1. p.steps \in Seq(Step) /\ p.current \in Nat /\ p.total \in Nat /\ p.start \in Nat /\ p.where \in Places
  BY DEF CodexState
<1> QED
  BY <1>1

\* The Codex parser begins with a proper state.
LEMMA CodexEmptyState ==
    /\ X!Empty \in CodexState /\ X!Empty.steps = <<>> /\ X!Empty.current = 0
    /\ X!Empty.total = 0 /\ X!Empty.start = 0 /\ X!Empty.where = <<>>
<1>1. <<>> \in Seq(Step)
  OBVIOUS
<1> QED
  BY <1>1, NoPlaces DEF X!Empty, CodexState

\* Both kinds of step names are names, for Codex too.
LEMMA CodexNames == ASSUME NEW k \in Nat PROVE X!Native(k) \in Name /\ X!Ordinal(k) \in Name
  BY DEF X!Native, X!Ordinal, Name

\* open_step.
LEMMA CodexOpens ==
    ASSUME NEW p \in CodexState, NEW id \in Name, NEW o, o = X!OpenStep(p, id),
           NEW s, s = OpenedStep(id)
    PROVE  /\ o \in CodexState /\ s \in Step
           /\ o.steps = Append(p.steps, s)
           /\ o.current = Len(p.steps) + 1
           /\ o.where = p.where /\ o.total = p.total /\ o.start = p.start
<1> DEFINE t == Append(p.steps, s)
<1>1. t \in Seq(Step) /\ Len(p.steps) + 1 \in Nat /\ s \in Step
  <2>1. s \in Step
    BY NewSteps
  <2>2. p.steps \in Seq(Step)
    BY CodexFields
  <2> QED
    BY <2>1, <2>2, Appended
<1>2. o = [p EXCEPT !.current = Len(p.steps) + 1, !.steps = t]
  BY DEF X!OpenStep, OpenedStep
<1> HIDE DEF t
<1>3. o \in CodexState
  BY <1>1, <1>2 DEF CodexState
<1> QED
  BY <1>1, <1>2, <1>3 DEF CodexState, t

\* The last step gets its usage.
Uses(s, t, n, u) ==
    Only(s, t, n) /\ t[n].tools = s[n].tools /\ t[n].calls = s[n].calls /\ t[n].usage = u

\* To set the usage of a step changes nothing else.
LEMMA StepUses ==
    ASSUME NEW s \in Seq(Step), NEW n \in 1 .. Len(s), NEW u \in Nat, NEW t, t = [s EXCEPT ![n].usage = u]
    PROVE  Uses(s, t, n, u)
<1>1. s[n] \in Step
  BY ElementOfSeq
<1>2. PICK new : new = [s[n] EXCEPT !.usage = u]
  OBVIOUS
<1>3. new \in Step /\ new.id = s[n].id /\ new.tools = s[n].tools /\ new.calls = s[n].calls /\ new.usage = u
  BY <1>1, <1>2 DEF Step
<1>4. t = [s EXCEPT ![n] = new]
  BY <1>2
<1>5. t \in Seq(Step) /\ Len(t) = Len(s) /\ t[n] = new /\ \A i \in 1 .. Len(s) : i # n => t[i] = s[i]
  BY <1>3, <1>4, Replaced
<1> QED
  BY <1>3, <1>5 DEF Uses, Only

\* close_codex_step: the last step gets what was used since it began.
LEMMA CodexCloses ==
    ASSUME NEW p \in CodexState, p.current = Len(p.steps), NEW q, q = X!CloseStep(p)
    PROVE  /\ q \in CodexState /\ q.current = p.current /\ q.where = p.where
           /\ q.total = p.total /\ q.start = p.start
           /\ p.steps = <<>> => q.steps = p.steps
           /\ p.steps # <<>> => Uses(p.steps, q.steps, Len(p.steps), X!Difference(p.total, p.start))
<1>1. p.steps \in Seq(Step) /\ p.current \in Nat /\ p.total \in Nat /\ p.start \in Nat
  BY CodexFields
<1>2. CASE p.current = 0
  <2>1. p.steps = <<>>
    BY <1>1, <1>2, EmptySeq
  <2>2. q = p
    BY <1>2 DEF X!CloseStep
  <2> QED
    BY <2>1, <2>2
<1>3. CASE p.current # 0
  <2> DEFINE n == p.current
             u == X!Difference(p.total, p.start)
             t == [p.steps EXCEPT ![n].usage = u]
             more == IF p.steps[n].aborted THEN p.interruptions + 1 ELSE p.interruptions
  <2>1. n \in 1 .. Len(p.steps) /\ p.steps # <<>>
    BY <1>1, <1>3
  <2>2. u \in Nat /\ more \in Nat
    <3>1. p.interruptions \in Nat
      BY DEF CodexState
    <3> QED
      BY <1>1, <3>1 DEF X!Difference
  <2>3. q = [p EXCEPT !.steps = t, !.interruptions = more]
    BY <1>3 DEF X!CloseStep
  <2>4. Uses(p.steps, t, n, u)
    <3> DEFINE s == p.steps
    <3>1. s \in Seq(Step) /\ n \in 1 .. Len(s) /\ t = [s EXCEPT ![n].usage = u]
      BY <1>1, <2>1
    <3> HIDE DEF t, s, n, u
    <3>2. Uses(s, t, n, u)
      BY <2>2, <3>1, StepUses
    <3> QED
      BY <3>2 DEF s
  <2> HIDE DEF t, more, u
  <2>5. /\ q \in CodexState /\ q.steps = t /\ q.current = p.current /\ q.where = p.where
        /\ q.total = p.total /\ q.start = p.start
    <3>1. t \in Seq(Step)
      BY <2>4 DEF Uses, Only
    <3> QED
      BY <2>2, <2>3, <3>1 DEF CodexState
  <2> QED
    BY <2>1, <2>4, <2>5 DEF u
<1> QED
  BY <1>2, <1>3

\* A task_started closes the last step and opens one.
LEMMA CodexStarts ==
    ASSUME NEW p \in CodexState, p.current = Len(p.steps), NEW r \in CodexRecord, NEW q, q = X!OnStarted(p, r),
           NEW c, c = X!CloseStep(p)
    PROVE  /\ q \in CodexState /\ q.current = Len(q.steps) /\ Opened(c.steps, q.steps)
           /\ q.where = p.where /\ q.total = p.total /\ q.start = p.total
<1> DEFINE id == IF r.id = 0 THEN X!Ordinal(Len(p.steps)) ELSE X!Native(r.id)
<1>1. c \in CodexState /\ c.where = p.where /\ c.total = p.total
  BY CodexCloses
<1>2. PICK d : d = [c EXCEPT !.start = p.total]
  OBVIOUS
<1>3. p.total \in Nat /\ Len(p.steps) \in Nat /\ r.id \in Nat
  BY CodexFields DEF CodexRecord
<1>4. d \in CodexState /\ d.steps = c.steps /\ d.where = c.where /\ d.total = c.total /\ d.start = p.total
  BY <1>1, <1>2, <1>3 DEF CodexState
<1>5. id \in Name
  BY <1>3, CodexNames
<1>6. q = X!OpenStep(d, id)
  BY <1>2 DEF X!OnStarted
<1> HIDE DEF id
<1>7. PICK z : z = OpenedStep(id)
  OBVIOUS
<1>8. /\ q \in CodexState /\ z \in Step /\ q.steps = Append(d.steps, z) /\ q.current = Len(d.steps) + 1
      /\ q.where = d.where /\ q.total = d.total /\ q.start = d.start
  BY <1>4, <1>5, <1>6, <1>7, CodexOpens
<1>9. z.tools = <<>> /\ z.usage = 0
  BY <1>7 DEF OpenedStep
<1>10. Opened(c.steps, q.steps)
  BY <1>4, <1>8, <1>9 DEF Opened
<1>11. Len(q.steps) = Len(d.steps) + 1
  <2>1. d.steps \in Seq(Step)
    BY <1>4, CodexFields
  <2> QED
    BY <1>8, <2>1, Appended
<1> QED
  BY <1>1, <1>4, <1>8, <1>10, <1>11

\* A completed turn keeps its calls and its usage.
LEMMA CodexCompletes ==
    ASSUME NEW p \in CodexState, p.current = Len(p.steps), NEW q, q = X!OnComplete(p)
    PROVE  /\ q \in CodexState /\ q.current = p.current /\ q.where = p.where
           /\ q.total = p.total /\ q.start = p.start
           /\ p.steps = <<>> => q.steps = p.steps
           /\ p.steps # <<>> => Uses(p.steps, q.steps, Len(p.steps), p.steps[Len(p.steps)].usage)
<1>1. p.steps \in Seq(Step) /\ p.current \in Nat
  BY CodexFields
<1>2. CASE p.current = 0
  <2>1. p.steps = <<>>
    BY <1>1, <1>2, EmptySeq
  <2>2. q = p
    BY <1>2 DEF X!OnComplete
  <2> QED
    BY <2>1, <2>2
<1>3. CASE p.current # 0
  <2> DEFINE n == p.current
             t == [p.steps EXCEPT ![n].aborted = FALSE]
  <2>1. n \in 1 .. Len(p.steps) /\ p.steps # <<>>
    BY <1>1, <1>3
  <2>2. q = [p EXCEPT !.steps = t]
    BY <1>3 DEF X!OnComplete
  <2>3. Only(p.steps, t, n) /\ t[n].tools = p.steps[n].tools /\ t[n].calls = p.steps[n].calls
        /\ t[n].usage = p.steps[n].usage
    <3> DEFINE s == p.steps
    <3>1. s \in Seq(Step) /\ n \in 1 .. Len(s) /\ t = [s EXCEPT ![n].aborted = FALSE]
      BY <1>1, <2>1
    <3> HIDE DEF t, s, n
    <3>2. Only(s, t, n) /\ t[n].tools = s[n].tools /\ t[n].calls = s[n].calls /\ t[n].usage = s[n].usage
      BY <3>1, Aborts
    <3> QED
      BY <3>2 DEF s
  <2> HIDE DEF t
  <2>4. /\ q \in CodexState /\ q.steps = t /\ q.current = p.current /\ q.where = p.where
        /\ q.total = p.total /\ q.start = p.start
    <3>1. t \in Seq(Step)
      BY <2>3 DEF Only
    <3> QED
      BY <2>2, <3>1 DEF CodexState
  <2> QED
    BY <2>1, <2>3, <2>4 DEF Uses
<1> QED
  BY <1>2, <1>3

\* To count a call of the model leaves the tools and the usage.
LEMMA StepCounts ==
    ASSUME NEW s \in Seq(Step), NEW n \in 1 .. Len(s), NEW t, t = [s EXCEPT ![n].calls = @ + 1]
    PROVE  Only(s, t, n) /\ t[n].tools = s[n].tools /\ t[n].usage = s[n].usage
<1>1. s[n] \in Step
  BY ElementOfSeq
<1>2. PICK new : new = [s[n] EXCEPT !.calls = @ + 1]
  OBVIOUS
<1>3. new \in Step /\ new.id = s[n].id /\ new.tools = s[n].tools /\ new.usage = s[n].usage
  <2>1. PICK k : k = s[n].calls + 1
    OBVIOUS
  <2>2. k \in Nat /\ new = [s[n] EXCEPT !.calls = k]
    BY <1>1, <1>2, <2>1, StepFields
  <2> QED
    BY <1>1, <2>2 DEF Step
<1>4. t = [s EXCEPT ![n] = new]
  BY <1>2
<1>5. t \in Seq(Step) /\ Len(t) = Len(s) /\ t[n] = new /\ \A i \in 1 .. Len(s) : i # n => t[i] = s[i]
  BY <1>3, <1>4, Replaced
<1> QED
  BY <1>3, <1>5 DEF Only

\* To add a call to a step leaves the usage.
LEMMA StepCalls ==
    ASSUME NEW s \in Seq(Step), NEW n \in 1 .. Len(s), NEW x \in Tool,
           NEW t, t = [s EXCEPT ![n].tools = Append(@, x)]
    PROVE  Only(s, t, n) /\ t[n].tools = Append(s[n].tools, x) /\ t[n].usage = s[n].usage
<1>1. s[n] \in Step
  BY ElementOfSeq
<1>2. PICK tools : tools = Append(s[n].tools, x)
  OBVIOUS
<1>3. tools \in Seq(Tool)
  <2>1. s[n].tools \in Seq(Tool)
    BY <1>1, StepFields
  <2> QED
    BY <1>2, <2>1, Appended
<1>4. PICK new : new = [s[n] EXCEPT !.tools = tools]
  OBVIOUS
<1>5. new \in Step /\ new.id = s[n].id /\ new.tools = tools /\ new.usage = s[n].usage
  BY <1>1, <1>3, <1>4 DEF Step
<1>6. PICK u : u = [s EXCEPT ![n] = new]
  OBVIOUS
<1>7. u \in Seq(Step) /\ Len(u) = Len(s) /\ u[n] = new /\ \A i \in 1 .. Len(s) : i # n => u[i] = s[i]
  <2>1. new \in Step
    BY <1>5
  <2> QED
    BY <1>6, <2>1, Replaced
<1>8. t = u
  BY <1>2, <1>4, <1>6
<1> QED
  BY <1>2, <1>5, <1>7, <1>8 DEF Only

\* A token_count sets the running total.
LEMMA CodexTokens ==
    ASSUME NEW p \in CodexState, p.current = Len(p.steps), NEW r \in CodexRecord, NEW q, q = X!OnTokens(p, r)
    PROVE  /\ q \in CodexState /\ q.current = p.current /\ q.where = p.where
           /\ q.total = r.total /\ q.start = p.start
           /\ p.steps = <<>> => q.steps = p.steps
           /\ LET n == Len(p.steps) IN
              p.steps # <<>> => /\ Only(p.steps, q.steps, n) /\ q.steps[n].tools = p.steps[n].tools
                                /\ q.steps[n].usage = p.steps[n].usage
<1>1. p.steps \in Seq(Step) /\ p.current \in Nat /\ r.total \in Nat
  BY CodexFields DEF CodexRecord
<1>2. CASE p.current = 0
  <2>1. p.steps = <<>>
    BY <1>1, <1>2, EmptySeq
  <2>2. q = [p EXCEPT !.total = r.total, !.steps = p.steps]
    BY <1>2 DEF X!OnTokens
  <2> QED
    BY <1>1, <2>1, <2>2 DEF CodexState
<1>3. CASE p.current # 0
  <2> DEFINE n == p.current
             t == [p.steps EXCEPT ![n].calls = @ + 1]
  <2>1. n \in 1 .. Len(p.steps) /\ p.steps # <<>>
    BY <1>1, <1>3
  <2>2. q = [p EXCEPT !.total = r.total, !.steps = t]
    BY <1>3 DEF X!OnTokens
  <2>3. Only(p.steps, t, n) /\ t[n].tools = p.steps[n].tools /\ t[n].usage = p.steps[n].usage
    <3> DEFINE s == p.steps
    <3>1. s \in Seq(Step) /\ n \in 1 .. Len(s) /\ t = [s EXCEPT ![n].calls = @ + 1]
      BY <1>1, <2>1
    <3> HIDE DEF t, s, n
    <3>2. Only(s, t, n) /\ t[n].tools = s[n].tools /\ t[n].usage = s[n].usage
      BY <3>1, StepCounts
    <3> QED
      BY <3>2 DEF s
  <2> HIDE DEF t
  <2>4. /\ q \in CodexState /\ q.steps = t /\ q.current = p.current /\ q.where = p.where
        /\ q.total = r.total /\ q.start = p.start
    <3>1. t \in Seq(Step)
      BY <2>3 DEF Only
    <3> QED
      BY <1>1, <2>2, <3>1 DEF CodexState
  <2> QED
    BY <2>1, <2>3, <2>4
<1> QED
  BY <1>2, <1>3

\* The step that a call belongs to.
CodexBase(p) == IF p.current = 0 THEN X!OpenStep(p, X!Ordinal(Len(p.steps))) ELSE p

\* The state in which a call of the tool lands: a step is opened when there is none.
LEMMA CodexBaseIs ==
    ASSUME NEW p \in CodexState, p.current = Len(p.steps), NEW b, b = CodexBase(p)
    PROVE  /\ b \in CodexState /\ b.current = Len(b.steps) /\ Len(b.steps) \in Nat \ {0}
           /\ b.where = p.where /\ b.total = p.total /\ b.start = p.start
           /\ p.steps # <<>> => b = p
           /\ p.steps = <<>> => Opened(p.steps, b.steps)
<1>1. p.steps \in Seq(Step) /\ Len(p.steps) \in Nat /\ (p.steps = <<>> <=> p.current = 0)
  BY CodexFields, EmptySeq
<1>2. CASE p.current = 0
  <2> DEFINE id == X!Ordinal(Len(p.steps))
             z == OpenedStep(id)
  <2>1. id \in Name
    BY <1>1, CodexNames
  <2>2. b = X!OpenStep(p, id)
    BY <1>2 DEF CodexBase
  <2>3. z.tools = <<>> /\ z.usage = 0
    BY DEF OpenedStep
  <2> HIDE DEF id
  <2>4. z = OpenedStep(id)
    OBVIOUS
  <2> HIDE DEF z
  <2>5. /\ b \in CodexState /\ z \in Step /\ b.steps = Append(p.steps, z) /\ b.current = Len(p.steps) + 1
        /\ b.where = p.where /\ b.total = p.total /\ b.start = p.start
    BY <2>1, <2>2, <2>4, CodexOpens
  <2>6. Len(b.steps) = Len(p.steps) + 1
    BY <1>1, <2>5, Appended
  <2>7. Opened(p.steps, b.steps)
    BY <2>3, <2>5 DEF Opened
  <2> QED
    BY <1>1, <1>2, <2>5, <2>6, <2>7
<1>3. CASE p.current # 0
  BY <1>1, <1>3 DEF CodexBase
<1> QED
  BY <1>2, <1>3

\* A call is added to the last step.
LEMMA CodexCalls ==
    ASSUME NEW p \in CodexState, p.current = Len(p.steps), NEW r \in CodexRecord, NEW q, q = X!OnCall(p, r)
    PROVE  LET b == CodexBase(p)
               n == Len(b.steps)
           IN /\ q \in CodexState /\ q.current = n /\ q.total = p.total /\ q.start = p.start
              /\ Only(b.steps, q.steps, n) /\ q.steps[n].usage = b.steps[n].usage
              /\ q.steps[n].tools = Append(b.steps[n].tools, NewTool(r.id))
              /\ q.where = X!Placed(p.where, r.id, <<n, Len(b.steps[n].tools) + 1>>)
              /\ Len(b.steps[n].tools) \in Nat
<1> DEFINE b == CodexBase(p)
           n == b.current
           k == Len(b.steps[n].tools) + 1
           x == NewTool(r.id)
           where == X!Placed(b.where, r.id, <<n, k>>)
           t == [b.steps EXCEPT ![n].tools = Append(@, x)]
<1>1. q = [b EXCEPT !.steps[n].tools = Append(@, x),
                    !.where = X!Placed(@, r.id, <<n, Len(b.steps[n].tools) + 1>>)]
  BY Zenon DEF X!OnCall, CodexBase, NewTool
<1> HIDE DEF b
<1>2. /\ b \in CodexState /\ Len(b.steps) = n /\ n \in Nat \ {0} /\ b.where = p.where
      /\ b.total = p.total /\ b.start = p.start /\ b.steps \in Seq(Step) /\ n \in 1 .. n
  <2> HIDE DEF n
  <2>1. b = CodexBase(p)
    BY DEF b
  <2> QED
    BY <2>1, CodexBaseIs, CodexFields DEF n
<1>3. r.id \in Nat /\ x \in Tool
  <2>1. r.id \in Nat
    BY DEF CodexRecord
  <2> QED
    BY <2>1, NewToolType
<1>4. b.steps[n] \in Step
  <2>1. PICK s : s = b.steps
    OBVIOUS
  <2> QED
    BY <1>2, <2>1, ElementOfSeq
<1>5. k \in Nat /\ Len(b.steps[n].tools) \in Nat
  BY <1>4, StepFields
<1>6. where \in Places
  <2> DEFINE id == r.id
  <2>1. b.where \in Places /\ id \in Nat /\ n \in Nat
    BY <1>2, <1>3, CodexFields
  <2> HIDE DEF id, k, n
  <2>2. <<n, k>> \in Nat \X Nat
    BY <1>5, <2>1
  <2>3. X!Placed(b.where, id, <<n, k>>) \in Places
    BY <2>1, <2>2, CodexPlaces
  <2> QED
    BY <2>3 DEF id
<1>7. Only(b.steps, t, n) /\ t[n].tools = Append(b.steps[n].tools, x) /\ t[n].usage = b.steps[n].usage
  <2> DEFINE s == b.steps
  <2>1. s \in Seq(Step) /\ n \in 1 .. Len(s) /\ t = [s EXCEPT ![n].tools = Append(@, x)]
    BY <1>2
  <2> HIDE DEF t, s, n, x
  <2>2. Only(s, t, n) /\ t[n].tools = Append(s[n].tools, x) /\ t[n].usage = s[n].usage
    BY <1>3, <2>1, StepCalls
  <2> QED
    BY <2>2 DEF s
<1>8. q = [b EXCEPT !.steps = t, !.where = where]
  BY <1>1
<1> HIDE DEF where, t
<1>9. /\ q \in CodexState /\ q.steps = t /\ q.where = where /\ q.current = b.current
      /\ q.total = b.total /\ q.start = b.start
  <2>1. t \in Seq(Step)
    BY <1>7 DEF Only
  <2> HIDE DEF n
  <2> QED
    BY <1>2, <1>6, <1>8, <2>1 DEF CodexState
<1>10. where = X!Placed(p.where, r.id, <<n, Len(b.steps[n].tools) + 1>>)
  BY <1>2 DEF where
<1> HIDE DEF x
<1>11. /\ q \in CodexState /\ q.current = Len(b.steps) /\ q.total = p.total /\ q.start = p.start
       /\ Only(b.steps, q.steps, Len(b.steps)) /\ q.steps[Len(b.steps)].usage = b.steps[Len(b.steps)].usage
       /\ q.steps[Len(b.steps)].tools = Append(b.steps[Len(b.steps)].tools, x)
       /\ q.where = X!Placed(p.where, r.id, <<Len(b.steps), Len(b.steps[Len(b.steps)].tools) + 1>>)
       /\ Len(b.steps[Len(b.steps)].tools) \in Nat
  BY <1>2, <1>5, <1>7, <1>9, <1>10
<1> QED
  BY <1>11, Zenon DEF b, x

\* An output is noted where its call is, or ignored.
LEMMA CodexOutputs ==
    ASSUME NEW p \in CodexState, Located(p.steps, p.where), NEW r \in CodexRecord,
           NEW q, q = X!OnOutput(p, r)
    PROVE  /\ q \in CodexState /\ q.current = p.current /\ q.where = p.where
           /\ q.total = p.total /\ q.start = p.start
           /\ r.id \notin DOMAIN p.where => q.steps = p.steps
           /\ LET at == p.where[r.id] IN
              r.id \in DOMAIN p.where => Noted(p.steps, q.steps, at[1], at[2], r.error)
<1>1. CASE r.id \notin DOMAIN p.where
  BY <1>1 DEF X!OnOutput
<1>2. CASE r.id \in DOMAIN p.where
  <2> DEFINE at == p.where[r.id]
             n == at[1]
             c == at[2]
             s == p.steps
             e == r.error
             t == [s EXCEPT ![n].tools[c].error = e]
  <2>1. s \in Seq(Step) /\ n \in 1 .. Len(s) /\ c \in 1 .. Len(s[n].tools) /\ e \in BOOLEAN
    <3>1. e \in BOOLEAN
      BY DEF CodexRecord
    <3> QED
      BY <1>2, <3>1, CodexFields DEF Located
  <2>2. q = [p EXCEPT !.steps = t]
    BY <1>2, Zenon DEF X!OnOutput
  <2>3. Noted(s, t, n, c, e)
    <3> HIDE DEF n, c, s, e
    <3> QED
      BY <2>1, Notes
  <2> HIDE DEF t
  <2>4. t \in Seq(Step)
    BY <2>3 DEF Noted, Only
  <2>5. /\ q \in CodexState /\ q.steps = t /\ q.current = p.current /\ q.where = p.where
        /\ q.total = p.total /\ q.start = p.start
    BY <2>2, <2>4 DEF CodexState
  <2> QED
    BY <1>2, <2>3, <2>5
<1> QED
  BY <1>1, <1>2

\* Each kind of record has its handler.
LEMMA CodexTakes ==
    ASSUME NEW p, NEW r \in CodexRecord
    PROVE  /\ r.kind = "started" => X!Take(p, r) = X!OnStarted(p, r)
           /\ r.kind = "complete" => X!Take(p, r) = X!OnComplete(p)
           /\ r.kind = "tokens" => X!Take(p, r) = X!OnTokens(p, r)
           /\ r.kind = "call" => X!Take(p, r) = X!OnCall(p, r)
           /\ r.kind = "output" => X!Take(p, r) = X!OnOutput(p, r)
           /\ r.kind = "compacted" => X!Take(p, r) = [p EXCEPT !.compactions = @ + 1]
           /\ r.kind \in {"meta", "message", "other"} => X!Take(p, r) = p
<1>1. ASSUME r.kind = "started" PROVE X!Take(p, r) = X!OnStarted(p, r)
  <2>1. /\ r.kind # "complete" /\ r.kind # "tokens" /\ r.kind # "call" /\ r.kind # "output"
        /\ r.kind # "compacted"
    BY <1>1
  <2> QED
    BY <1>1, <2>1, Zenon DEF X!Take
<1>2. ASSUME r.kind = "complete" PROVE X!Take(p, r) = X!OnComplete(p)
  <2>1. /\ r.kind # "started" /\ r.kind # "tokens" /\ r.kind # "call" /\ r.kind # "output"
        /\ r.kind # "compacted"
    BY <1>2
  <2> QED
    BY <1>2, <2>1, Zenon DEF X!Take
<1>3. ASSUME r.kind = "tokens" PROVE X!Take(p, r) = X!OnTokens(p, r)
  <2>1. /\ r.kind # "started" /\ r.kind # "complete" /\ r.kind # "call" /\ r.kind # "output"
        /\ r.kind # "compacted"
    BY <1>3
  <2> QED
    BY <1>3, <2>1, Zenon DEF X!Take
<1>4. ASSUME r.kind = "call" PROVE X!Take(p, r) = X!OnCall(p, r)
  <2>1. /\ r.kind # "started" /\ r.kind # "complete" /\ r.kind # "tokens" /\ r.kind # "output"
        /\ r.kind # "compacted"
    BY <1>4
  <2> QED
    BY <1>4, <2>1, Zenon DEF X!Take
<1>5. ASSUME r.kind = "output" PROVE X!Take(p, r) = X!OnOutput(p, r)
  <2>1. /\ r.kind # "started" /\ r.kind # "complete" /\ r.kind # "tokens" /\ r.kind # "call"
        /\ r.kind # "compacted"
    BY <1>5
  <2> QED
    BY <1>5, <2>1, Zenon DEF X!Take
<1>6. ASSUME r.kind = "compacted" PROVE X!Take(p, r) = [p EXCEPT !.compactions = @ + 1]
  <2>1. /\ r.kind # "started" /\ r.kind # "complete" /\ r.kind # "tokens" /\ r.kind # "call"
        /\ r.kind # "output"
    BY <1>6
  <2> QED
    BY <1>6, <2>1, Zenon DEF X!Take
<1>7. ASSUME r.kind \in {"meta", "message", "other"} PROVE X!Take(p, r) = p
  <2>1. /\ r.kind # "started" /\ r.kind # "complete" /\ r.kind # "tokens" /\ r.kind # "call"
        /\ r.kind # "output" /\ r.kind # "compacted"
    BY <1>7
  <2> QED
    BY <2>1, Zenon DEF X!Take
<1> QED
  BY <1>1, <1>2, <1>3, <1>4, <1>5, <1>6, <1>7

\* The running total after n records.
TokensBy(recs, n) == {i \in 1 .. n : recs[i].kind = "tokens"}
TotalAt(recs, n) == IF TokensBy(recs, n) = {} THEN 0 ELSE recs[LastOf(TokensBy(recs, n))].total

\* The running total after one record more.
LEMMA TotalNext ==
    ASSUME NEW recs, NEW n \in Nat
    PROVE  /\ recs[n + 1].kind = "tokens" => TotalAt(recs, n + 1) = recs[n + 1].total
           /\ recs[n + 1].kind # "tokens" => TotalAt(recs, n + 1) = TotalAt(recs, n)
<1>1. CASE recs[n + 1].kind = "tokens"
  <2> DEFINE R == TokensBy(recs, n + 1)
  <2>1. n + 1 \in R /\ \A k \in R : k \in 1 .. n + 1
    BY <1>1 DEF TokensBy
  <2>2. \A k \in R : k <= n + 1
    BY <2>1
  <2>3. LastOf(R) \in R /\ \A k \in R : k <= LastOf(R)
    BY <2>1, <2>2 DEF LastOf
  <2>4. R # {}
    BY <2>1
  <2> HIDE DEF R
  <2>5. LastOf(R) <= n + 1 /\ n + 1 <= LastOf(R) /\ LastOf(R) \in 1 .. n + 1
    BY <2>1, <2>2, <2>3
  <2>6. LastOf(R) = n + 1
    BY <2>5
  <2> QED
    BY <1>1, <2>4, <2>6 DEF R, TotalAt
<1>2. CASE recs[n + 1].kind # "tokens"
  <2>1. TokensBy(recs, n + 1) = TokensBy(recs, n)
    BY <1>2, OneMore DEF TokensBy
  <2> QED
    BY <1>2, <2>1 DEF TotalAt
<1> QED
  BY <1>1, <1>2

\* Before the first record the running total is zero.
LEMMA TotalNone == ASSUME NEW recs PROVE TotalAt(recs, 0) = 0
  BY DEF TotalAt, TokensBy

\* What the agent writes: a call has its place as its id, an output comes after
\* its call, and the totals run.
CodexWritten(recs) ==
    /\ recs \in Seq(CodexRecord)
    /\ \A i \in 1 .. Len(recs) :
         /\ recs[i].kind = "call" => recs[i].id = i
         /\ recs[i].kind = "output" => recs[i].id < i
         /\ recs[i].kind = "started" => recs[i].id \in {0, i}
         /\ recs[i].kind = "tokens" => TotalAt(recs, i - 1) <= recs[i].total

CodexSound(recs, n, p) ==
    /\ p \in CodexState /\ p.current = Len(p.steps)
    /\ Told(p.steps, p.where, Bad(recs, n))
    /\ \A id \in DOMAIN p.where : id \in 1 .. n

\* Before the first record what is kept of a Codex transcript is right.
LEMMA CodexSoundEmpty ==
    ASSUME NEW recs
    PROVE  CodexSound(recs, 0, X!Empty)
<1>1. X!Empty \in CodexState /\ X!Empty.where = <<>> /\ X!Empty.steps = <<>> /\ X!Empty.current = 0
  BY CodexEmptyState
<1>2. DOMAIN <<>> = {} /\ Len(<<>>) = 0
  OBVIOUS
<1>3. Told(<<>>, <<>>, Bad(recs, 0))
  BY <1>2 DEF Told
<1> QED
  BY <1>1, <1>2, <1>3 DEF CodexSound

\* What a record may do to a parse.
Stays(s, t) ==
    \/ t = s \/ Touched(s, t)
    \/ LastOnly(s, t) /\ t[Len(s)].usage = s[Len(s)].usage

CodexEffect(p, q, r) ==
    \/ /\ r.kind = "started" /\ Opened(X!CloseStep(p).steps, q.steps)
       /\ q.total = p.total /\ q.start = p.total
    \/ /\ r.kind = "call" /\ Assisted(p.steps, q.steps, 0)
       /\ q.total = p.total /\ q.start = p.start
    \/ /\ r.kind \notin {"started", "call"} /\ Stays(p.steps, q.steps)
       /\ q.total = IF r.kind = "tokens" THEN r.total ELSE p.total
       /\ q.start = p.start

\* A change of the last step that leaves its calls leaves the errors told right.
LEMMA LastStays ==
    ASSUME NEW s \in Seq(Step), NEW w, NEW bad, Told(s, w, bad), NEW t,
           s = <<>> => t = s,
           s # <<>> => LastOnly(s, t) /\ t[Len(s)].tools = s[Len(s)].tools /\ t[Len(s)].usage = s[Len(s)].usage
    PROVE  Told(t, w, bad) /\ Stays(s, t) /\ Len(t) = Len(s)
<1>1. CASE s = <<>>
  BY <1>1 DEF Stays
<1>2. CASE s # <<>>
  <2>1. PICK n : n = Len(s)
    OBVIOUS
  <2>2. Only(s, t, n) /\ t[n].tools = s[n].tools
    BY <1>2, <2>1 DEF LastOnly
  <2>3. Told(t, w, bad)
    BY <2>2, ToldSame
  <2>4. Len(t) = Len(s)
    BY <2>2 DEF Only
  <2> QED
    BY <1>2, <2>3, <2>4 DEF Stays
<1> QED
  BY <1>1, <1>2

\* So does one that sets a usage.
LEMMA UsesTold ==
    ASSUME NEW s \in Seq(Step), NEW w, NEW bad, Told(s, w, bad), NEW t, NEW n, NEW u, Uses(s, t, n, u)
    PROVE  Told(t, w, bad)
  BY ToldSame DEF Uses

\* Closing the last step changes its usage and nothing that was told.
LEMMA CodexClosed ==
    ASSUME NEW recs, NEW n, NEW p, CodexSound(recs, n, p), NEW c, c = X!CloseStep(p)
    PROVE  /\ c \in CodexState /\ Told(c.steps, p.where, Bad(recs, n)) /\ c.total = p.total
           /\ p.steps = <<>> => c.steps = <<>>
           /\ p.steps # <<>> => /\ Only(p.steps, c.steps, Len(p.steps)) /\ LastOnly(p.steps, c.steps)
                                /\ c.steps[Len(p.steps)].usage = X!Difference(p.total, p.start)
<1>1. p \in CodexState /\ p.current = Len(p.steps) /\ Told(p.steps, p.where, Bad(recs, n))
  BY DEF CodexSound
<1>2. p.steps \in Seq(Step)
  BY <1>1, CodexFields
<1>3. /\ c \in CodexState /\ c.total = p.total
      /\ p.steps = <<>> => c.steps = p.steps
      /\ p.steps # <<>> => Uses(p.steps, c.steps, Len(p.steps), X!Difference(p.total, p.start))
  BY <1>1, CodexCloses
<1>4. Told(c.steps, p.where, Bad(recs, n))
  BY <1>1, <1>2, <1>3, UsesTold
<1> QED
  BY <1>3, <1>4 DEF Uses, LastOnly

\* What parse_codex keeps of a transcript stays true when a record is taken, and the
\* record has one of the effects.
LEMMA CodexNext ==
    ASSUME NEW recs, CodexWritten(recs), NEW n \in Nat, n + 1 <= Len(recs),
           NEW p, CodexSound(recs, n, p), NEW q, q = X!Take(p, recs[n + 1])
    PROVE  CodexSound(recs, n + 1, q) /\ CodexEffect(p, q, recs[n + 1])
<1> DEFINE r == recs[n + 1]
<1>1. /\ r \in CodexRecord
      /\ r.kind = "call" => r.id = n + 1
      /\ r.kind = "output" => r.id < n + 1
  <2>1. recs \in Seq(CodexRecord) /\ n + 1 \in 1 .. Len(recs)
    BY DEF CodexWritten
  <2> QED
    BY <2>1, ElementOfSeq DEF CodexWritten
<1>2. /\ r.kind \in {"meta", "message", "complete", "compacted", "started", "call", "tokens", "output", "other"}
      /\ r.id \in Nat /\ r.total \in Nat /\ r.error \in BOOLEAN
  BY <1>1 DEF CodexRecord, CodexKinds
<1>3. /\ p \in CodexState /\ p.current = Len(p.steps)
      /\ Told(p.steps, p.where, Bad(recs, n))
      /\ \A id \in DOMAIN p.where : id \in 1 .. n
  BY DEF CodexSound
<1>4. p.steps \in Seq(Step) /\ Len(p.steps) \in Nat /\ p.where \in Places
  BY <1>3, CodexFields
<1>5. r.kind # "output" => Bad(recs, n + 1) = Bad(recs, n)
  <2>1. r.kind # "result"
    BY <1>2
  <2> QED
    BY <2>1, BadOther DEF ResultOf
<1>6. \A id \in DOMAIN p.where : id \in 1 .. n + 1
  BY <1>3, OneMore
<1> HIDE DEF r
<1>7. q = X!Take(p, r)
  BY DEF r
<1> SUFFICES CodexSound(recs, n + 1, q) /\ CodexEffect(p, q, r)
  BY DEF r
<1>8. CASE r.kind = "started"
  <2>1. q = X!OnStarted(p, r) /\ r.kind # "output"
    BY <1>1, <1>7, <1>8, CodexTakes
  <2>2. PICK c : c = X!CloseStep(p)
    OBVIOUS
  <2>3. /\ q \in CodexState /\ q.current = Len(q.steps) /\ Opened(c.steps, q.steps)
        /\ q.where = p.where /\ q.total = p.total /\ q.start = p.total
    BY <1>1, <1>3, <2>1, <2>2, CodexStarts
  <2>4. c \in CodexState /\ Told(c.steps, p.where, Bad(recs, n))
    BY <2>2, CodexClosed
  <2>5. c.steps \in Seq(Step)
    BY <2>4, CodexFields
  <2>6. Told(q.steps, p.where, Bad(recs, n))
    BY <2>3, <2>4, <2>5, ToldOpened DEF Opened
  <2>7. CodexEffect(p, q, r)
    BY <1>8, <2>2, <2>3 DEF CodexEffect
  <2> QED
    BY <1>5, <1>6, <2>1, <2>3, <2>6, <2>7 DEF CodexSound
<1>9. CASE r.kind = "complete"
  <2>1. q = X!OnComplete(p) /\ r.kind # "output" /\ r.kind \notin {"started", "call", "tokens"}
    BY <1>1, <1>7, <1>9, CodexTakes
  <2>2. /\ q \in CodexState /\ q.current = p.current /\ q.where = p.where
        /\ q.total = p.total /\ q.start = p.start
        /\ p.steps = <<>> => q.steps = p.steps
        /\ p.steps # <<>> => Uses(p.steps, q.steps, Len(p.steps), p.steps[Len(p.steps)].usage)
    BY <1>3, <2>1, CodexCompletes
  <2>3. Told(q.steps, p.where, Bad(recs, n)) /\ Stays(p.steps, q.steps) /\ Len(q.steps) = Len(p.steps)
    BY <1>3, <1>4, <2>2, LastStays DEF Uses, LastOnly
  <2>4. CodexEffect(p, q, r)
    BY <2>1, <2>2, <2>3 DEF CodexEffect
  <2> QED
    BY <1>3, <1>5, <1>6, <2>1, <2>2, <2>3, <2>4 DEF CodexSound
<1>10. CASE r.kind = "tokens"
  <2>1. q = X!OnTokens(p, r) /\ r.kind # "output" /\ r.kind \notin {"started", "call"}
    BY <1>1, <1>7, <1>10, CodexTakes
  <2>2. /\ q \in CodexState /\ q.current = p.current /\ q.where = p.where
        /\ q.total = r.total /\ q.start = p.start
        /\ p.steps = <<>> => q.steps = p.steps
        /\ LET m == Len(p.steps) IN
           p.steps # <<>> => /\ Only(p.steps, q.steps, m) /\ q.steps[m].tools = p.steps[m].tools
                             /\ q.steps[m].usage = p.steps[m].usage
    BY <1>1, <1>3, <2>1, CodexTokens
  <2>3. Told(q.steps, p.where, Bad(recs, n)) /\ Stays(p.steps, q.steps) /\ Len(q.steps) = Len(p.steps)
    BY <1>3, <1>4, <2>2, LastStays DEF LastOnly
  <2>4. CodexEffect(p, q, r)
    BY <1>10, <2>1, <2>2, <2>3 DEF CodexEffect
  <2> QED
    BY <1>3, <1>5, <1>6, <2>1, <2>2, <2>3, <2>4 DEF CodexSound
<1>11. CASE r.kind = "call"
  <2>1. q = X!OnCall(p, r) /\ r.kind # "output"
    BY <1>1, <1>7, <1>11, CodexTakes
  <2>2. PICK b : b = CodexBase(p)
    OBVIOUS
  <2>3. PICK m : m = Len(b.steps)
    OBVIOUS
  <2>4. /\ q \in CodexState /\ q.current = m /\ q.total = p.total /\ q.start = p.start
        /\ Only(b.steps, q.steps, m) /\ q.steps[m].usage = b.steps[m].usage
        /\ q.steps[m].tools = Append(b.steps[m].tools, NewTool(r.id))
        /\ q.where = X!Placed(p.where, r.id, <<m, Len(b.steps[m].tools) + 1>>)
        /\ Len(b.steps[m].tools) \in Nat
    BY <1>1, <1>3, <2>1, <2>2, <2>3, CodexCalls
  <2>5. /\ b \in CodexState
        /\ p.steps # <<>> => b = p
        /\ p.steps = <<>> => Opened(p.steps, b.steps)
        /\ b.where = p.where
    BY <1>3, <2>2, CodexBaseIs
  <2>6. b.steps \in Seq(Step) /\ m \in Nat
    BY <2>3, <2>5, CodexFields
  <2>7. Told(b.steps, p.where, Bad(recs, n))
    BY <1>3, <1>4, <2>5, ToldOpened DEF Opened
  <2>8. r.id = n + 1 /\ r.id \notin DOMAIN p.where /\ r.id \in Nat
    BY <1>1, <1>2, <1>3, <1>11
  <2>9. r.id \notin Bad(recs, n)
    <3>1. \A j \in 1 .. n : ~ResultOf(recs[j], r.id)
      <4> SUFFICES ASSUME NEW j \in 1 .. n PROVE ~ResultOf(recs[j], r.id)
        OBVIOUS
      <4>1. recs \in Seq(CodexRecord) /\ j \in 1 .. Len(recs)
        BY DEF CodexWritten
      <4>2. recs[j] \in CodexRecord /\ (recs[j].kind = "output" => recs[j].id < j)
        BY <4>1, ElementOfSeq DEF CodexWritten
      <4>3. recs[j].kind # "result" /\ recs[j].id \in Nat
        BY <4>2 DEF CodexRecord, CodexKinds
      <4> QED
        BY <4>2, <4>3, <2>8 DEF ResultOf
    <3> QED
      BY <3>1, BadNever
  <2>10. /\ DOMAIN q.where = DOMAIN p.where \cup {r.id} /\ q.where[r.id] = <<m, Len(b.steps[m].tools) + 1>>
         /\ \A x \in DOMAIN p.where : x # r.id => q.where[x] = p.where[x]
    <3>1. PICK w, v, id, k : w = p.where /\ v = q.where /\ id = r.id /\ k = Len(b.steps[m].tools) + 1
      OBVIOUS
    <3>2. v = [c \in DOMAIN w \cup {id} |-> IF c = id THEN <<m, k>> ELSE w[c]]
      BY <2>4, <3>1 DEF X!Placed
    <3>3. DOMAIN v = DOMAIN w \cup {id} /\ v[id] = <<m, k>> /\ \A x \in DOMAIN w : x # id => v[x] = w[x]
      BY <3>2
    <3> QED
      BY <3>1, <3>3
  <2>11. Told(q.steps, q.where, Bad(recs, n))
    <3>1. PICK s, t, w, v, id :
            s = b.steps /\ t = q.steps /\ w = p.where /\ v = q.where /\ id = r.id
      OBVIOUS
    <3>2. /\ s \in Seq(Step) /\ Told(s, w, Bad(recs, n)) /\ id \in Nat /\ id \notin DOMAIN w
          /\ id \notin Bad(recs, n)
      BY <2>6, <2>7, <2>8, <2>9, <3>1
    <3>3. Only(s, t, m) /\ t[m].tools = Append(s[m].tools, NewTool(id))
      BY <2>4, <3>1
    <3>4. /\ DOMAIN v = DOMAIN w \cup {id} /\ v[id] = <<m, Len(s[m].tools) + 1>>
          /\ \A x \in DOMAIN w : x # id => v[x] = w[x]
      BY <2>10, <3>1
    <3>5. Told(t, v, Bad(recs, n))
      BY <3>2, <3>3, <3>4, ToldCalled
    <3> QED
      BY <3>1, <3>5
  <2>12. \A id \in DOMAIN q.where : id \in 1 .. n + 1
    BY <1>6, <2>8, <2>10
  <2>13. Assisted(p.steps, q.steps, 0)
    <3>1. b.steps[m].usage \in Nat
      BY <2>4, <2>6, ElementOfSeq, StepFields DEF Only
    <3>2. q.steps[m].usage = b.steps[m].usage + 0
      BY <2>4, <3>1
    <3> QED
      BY <2>3, <2>4, <2>5, <2>6, <3>2 DEF Assisted, LastOnly
  <2>14. CodexEffect(p, q, r)
    BY <1>11, <2>4, <2>13 DEF CodexEffect
  <2>15. q.current = Len(q.steps)
    BY <2>3, <2>4 DEF Only
  <2> QED
    BY <1>5, <2>1, <2>4, <2>11, <2>12, <2>14, <2>15 DEF CodexSound
<1>12. CASE r.kind = "output"
  <2>1. q = X!OnOutput(p, r) /\ r.kind \notin {"started", "call", "tokens"}
    BY <1>1, <1>7, <1>12, CodexTakes
  <2>2. Located(p.steps, p.where)
    BY <1>3, ToldLocated
  <2>3. /\ q \in CodexState /\ q.current = p.current /\ q.where = p.where
        /\ q.total = p.total /\ q.start = p.start
        /\ r.id \notin DOMAIN p.where => q.steps = p.steps
        /\ r.id \in DOMAIN p.where =>
             Noted(p.steps, q.steps, p.where[r.id][1], p.where[r.id][2], r.error)
    BY <1>1, <1>3, <2>1, <2>2, CodexOutputs
  <2>4. Bad(recs, n + 1) = IF r.error THEN Bad(recs, n) \cup {r.id} ELSE Bad(recs, n) \ {r.id}
    <3>1. ResultOf(r, r.id) /\ \A other \in Nat : ResultOf(r, other) => other = r.id
      BY <1>12 DEF ResultOf
    <3>2. /\ r.error = TRUE => Bad(recs, n + 1) = Bad(recs, n) \cup {r.id}
          /\ r.error = FALSE => Bad(recs, n + 1) = Bad(recs, n) \ {r.id}
      BY <3>1, <1>2, BadResult DEF r
    <3> QED
      BY <3>2, <1>2
  <2>5. Told(q.steps, p.where, Bad(recs, n + 1)) /\ Len(q.steps) = Len(p.steps) /\ Stays(p.steps, q.steps)
    <3>1. CASE r.id \in DOMAIN p.where
      <4> DEFINE i == p.where[r.id][1]
                 c == p.where[r.id][2]
      <4>1. Noted(p.steps, q.steps, i, c, r.error)
        BY <2>3, <3>1
      <4>2. Told(q.steps, p.where, Bad(recs, n + 1))
        BY <1>2, <1>3, <1>4, <2>4, <3>1, <4>1, ToldNoted
      <4>3. Len(q.steps) = Len(p.steps)
        BY <4>1 DEF Noted, Only
      <4>4. Stays(p.steps, q.steps)
        <5>1. p.steps \in Seq(Step)
          BY <1>3, CodexFields
        <5>2. Touched(p.steps, q.steps)
          BY <4>1, <5>1, NotedTouches
        <5> QED
          BY <5>2 DEF Stays
      <4> QED
        BY <4>2, <4>3, <4>4
    <3>2. CASE r.id \notin DOMAIN p.where
      <4>1. q.steps = p.steps
        BY <2>3, <3>2
      <4>2. \A x \in DOMAIN p.where : x \in Bad(recs, n + 1) <=> x \in Bad(recs, n)
        BY <2>4, <3>2
      <4>3. Told(q.steps, p.where, Bad(recs, n + 1))
        BY <1>3, <4>1, <4>2, ToldOthers
      <4> QED
        BY <4>1, <4>3 DEF Stays
    <3> QED
      BY <3>1, <3>2
  <2>6. CodexEffect(p, q, r)
    BY <2>1, <2>3, <2>5 DEF CodexEffect
  <2> QED
    BY <1>3, <1>6, <2>3, <2>5, <2>6 DEF CodexSound
<1>13. CASE r.kind = "compacted"
  <2>1. /\ q = [p EXCEPT !.compactions = @ + 1] /\ r.kind # "output"
        /\ r.kind \notin {"started", "call", "tokens"}
    BY <1>1, <1>7, <1>13, CodexTakes
  <2>2. p.compactions + 1 \in Nat
    BY <1>3 DEF CodexState
  <2>3. /\ q \in CodexState /\ q.current = p.current /\ q.where = p.where /\ q.steps = p.steps
        /\ q.total = p.total /\ q.start = p.start
    BY <1>3, <2>1, <2>2 DEF CodexState
  <2>4. CodexEffect(p, q, r)
    BY <2>1, <2>3 DEF CodexEffect, Stays
  <2> QED
    BY <1>3, <1>5, <1>6, <2>1, <2>3, <2>4 DEF CodexSound
<1>14. CASE r.kind \in {"meta", "message", "other"}
  <2>1. q = p /\ r.kind # "output" /\ r.kind \notin {"started", "call", "tokens"}
    BY <1>1, <1>7, <1>14, CodexTakes
  <2>2. CodexEffect(p, q, r)
    BY <2>1 DEF CodexEffect, Stays
  <2> QED
    BY <1>3, <1>5, <1>6, <2>1, <2>2 DEF CodexSound
<1> QED
  BY <1>2, <1>8, <1>9, <1>10, <1>11, <1>12, <1>13, <1>14

\* The running total is a number wherever the totals told are.
LEMMA TotalIn ==
    ASSUME NEW recs, NEW n \in Nat, \A j \in TokensBy(recs, n) : recs[j] \in CodexRecord
    PROVE  TotalAt(recs, n) \in Nat
<1>1. CASE TokensBy(recs, n) = {}
  BY <1>1 DEF TotalAt
<1>2. CASE TokensBy(recs, n) # {}
  <2>1. LastOf(TokensBy(recs, n)) \in TokensBy(recs, n)
    <3>1. TokensBy(recs, n) \subseteq 1 .. n
      BY DEF TokensBy
    <3> QED
      BY <1>2, <3>1, LastIn
  <2>2. recs[LastOf(TokensBy(recs, n))].total \in Nat
    BY <2>1 DEF CodexRecord
  <2> QED
    BY <1>2, <2>2 DEF TotalAt
<1> QED
  BY <1>1, <1>2

\* What has grown from a list with another last step has grown from the list itself.
LEMMA GrowsBehind ==
    ASSUME NEW s \in Seq(Step), NEW t \in Seq(Step), NEW u, LastOnly(s, t), Grows(t, u)
    PROVE  Grows(s, u)
<1>1. Len(t) = Len(s) /\ \A i \in 1 .. Len(s) : t[i].id = s[i].id /\ (i # Len(s) => t[i] = s[i])
  BY DEF LastOnly, Only
<1> QED
  BY <1>1 DEF Grows

\* A change that stays with the last step adds no usage.
LEMMA StaysAdds ==
    ASSUME NEW s \in Seq(Step), NEW t, Stays(s, t)
    PROVE  /\ Grows(s, t) /\ UsageOf(t) = UsageOf(s) /\ t \in Seq(Step) /\ Len(t) = Len(s)
           /\ s # <<>> => t[Len(s)].usage = s[Len(s)].usage
<1>1. CASE t = s
  BY <1>1, GrowsSame
<1>2. CASE Touched(s, t)
  <2>1. Grows(s, t) /\ UsageOf(t) = UsageOf(s)
    BY <1>2, GrowsTouched, TouchedAdds
  <2>2. t \in Seq(Step) /\ Len(t) = Len(s) /\ \A i \in 1 .. Len(s) : t[i].usage = s[i].usage
    BY <1>2 DEF Touched, Only
  <2>3. s # <<>> => Len(s) \in 1 .. Len(s)
    BY EmptySeq
  <2> QED
    BY <2>1, <2>2, <2>3
<1>3. CASE LastOnly(s, t) /\ t[Len(s)].usage = s[Len(s)].usage
  <2>1. PICK n : n = Len(s)
    OBVIOUS
  <2>2. Only(s, t, n) /\ t[n].usage = s[n].usage
    BY <1>3, <2>1 DEF LastOnly
  <2>3. UsageOf(t) + s[n].usage = UsageOf(s) + t[n].usage /\ s[n].usage \in Nat
    BY <2>2, UsageOnly
  <2>4. t \in Seq(Step) /\ Len(t) = Len(s)
    BY <2>2 DEF Only
  <2>5. UsageOf(s) \in Nat /\ UsageOf(t) \in Nat
    BY <2>4, UsageNat
  <2>6. UsageOf(t) = UsageOf(s)
    BY <2>2, <2>3, <2>5
  <2>7. Grows(s, t)
    BY <1>3, GrowsSame, GrowsLast
  <2> QED
    BY <1>3, <2>4, <2>6, <2>7
<1> QED
  BY <1>1, <1>2, <1>3 DEF Stays

\* A step that is opened adds no usage.
LEMMA OpenedAdds ==
    ASSUME NEW s \in Seq(Step), NEW t, Opened(s, t)
    PROVE  /\ t \in Seq(Step) /\ t # <<>> /\ UsageOf(t) = UsageOf(s)
           /\ t[Len(t)].usage = 0
<1>1. PICK z \in Step : z.usage = 0 /\ t = Append(s, z)
  BY DEF Opened
<1>2. Len(t) = Len(s) + 1 /\ t[Len(s) + 1] = z /\ t \in Seq(Step)
  BY <1>1, Appended
<1>3. UsageOf(t) = UsageOf(s)
  BY <1>1, UsageOpened
<1>4. t # <<>>
  BY GrowsOpened
<1> QED
  BY <1>1, <1>2, <1>3, <1>4

\* A record that uses nothing leaves the last step unpaid if it was.
LEMMA AssistedLast ==
    ASSUME NEW s \in Seq(Step), NEW t, Assisted(s, t, 0)
    PROVE  /\ t \in Seq(Step) /\ t # <<>>
           /\ (s # <<>> => s[Len(s)].usage = 0) => t[Len(t)].usage = 0
<1>1. PICK b \in Seq(Step) :
      /\ s # <<>> => b = s
      /\ s = <<>> => Opened(s, b)
      /\ LastOnly(b, t) /\ t[Len(b)].usage = b[Len(b)].usage + 0
  BY DEF Assisted
<1>2. PICK n : n = Len(b)
  OBVIOUS
<1>3. t \in Seq(Step) /\ Len(t) = n /\ n \in 1 .. n
  BY <1>1, <1>2 DEF LastOnly, Only
<1>4. t # <<>>
  BY <1>3, EmptySeq
<1>5. ASSUME s # <<>> => s[Len(s)].usage = 0 PROVE t[Len(t)].usage = 0
  <2>1. b[n].usage = 0
    <3>1. CASE s = <<>>
      BY <1>1, <1>2, <3>1, OpenedAdds
    <3>2. CASE s # <<>>
      BY <1>1, <1>2, <1>5, <3>2
    <3> QED
      BY <3>1, <3>2
  <2> QED
    BY <1>1, <1>2, <1>3, <2>1
<1> QED
  BY <1>3, <1>4, <1>5

\* The record that opens the first step, and what was used before it.
Opener(r) == r.kind \in {"started", "call"}
Closed(recs, n) == \A j \in 1 .. n : ~Opener(recs[j])
Opens(recs, f) == Opener(recs[f]) /\ Closed(recs, f - 1)
Before(recs, f) == IF recs[f].kind = "call" THEN 0 ELSE TotalAt(recs, f - 1)

CodexCounted(recs, n, p) ==
    /\ p.total = TotalAt(recs, n) /\ p.start <= p.total
    /\ p.steps = <<>> <=> Closed(recs, n)
    /\ p.steps = <<>> => p.start = 0
    /\ p.steps # <<>> =>
         /\ p.steps[Len(p.steps)].usage = 0
         /\ \E f \in 1 .. n : Opens(recs, f) /\ UsageOf(p.steps) + Before(recs, f) = p.start

\* To close a step pays for what the running total rose since it began.
LEMMA ClosedUsage ==
    ASSUME NEW recs, NEW n, NEW p, CodexSound(recs, n, p), p.steps # <<>>,
           p.steps[Len(p.steps)].usage = 0, p.start <= p.total, NEW c, c = X!CloseStep(p)
    PROVE  UsageOf(c.steps) + p.start = UsageOf(p.steps) + p.total
<1>1. PICK m : m = Len(p.steps)
  OBVIOUS
<1>2. Only(p.steps, c.steps, m) /\ c.steps[m].usage = X!Difference(p.total, p.start) /\ c \in CodexState
  BY <1>1, CodexClosed
<1>3. p.steps \in Seq(Step) /\ p.total \in Nat /\ p.start \in Nat
  BY CodexFields DEF CodexSound
<1>4. UsageOf(c.steps) + p.steps[m].usage = UsageOf(p.steps) + c.steps[m].usage
  BY <1>2, <1>3, UsageOnly
<1>5. c.steps \in Seq(Step)
  BY <1>2, CodexFields
<1>6. UsageOf(c.steps) \in Nat /\ UsageOf(p.steps) \in Nat
  BY <1>3, <1>5, UsageNat
<1>7. X!Difference(p.total, p.start) + p.start = p.total /\ X!Difference(p.total, p.start) \in Nat
  BY <1>3 DEF X!Difference
<1>8. UsageOf(c.steps) = UsageOf(p.steps) + X!Difference(p.total, p.start)
  BY <1>1, <1>2, <1>4, <1>6, <1>7
<1> QED
  BY <1>3, <1>6, <1>7, <1>8

\* The steps that are closed and what came before the first account for all that was
\* used when the open one began.
LEMMA CodexCountedNext ==
    ASSUME NEW recs, CodexWritten(recs), NEW n \in Nat, n + 1 <= Len(recs),
           NEW p, CodexSound(recs, n, p), CodexCounted(recs, n, p), NEW q, q = X!Take(p, recs[n + 1])
    PROVE  CodexCounted(recs, n + 1, q) /\ Grows(p.steps, q.steps)
<1> DEFINE r == recs[n + 1]
<1>1. CodexSound(recs, n + 1, q) /\ CodexEffect(p, q, r)
  BY CodexNext
<1>2. r.kind = "tokens" => TotalAt(recs, n) <= r.total
  <2>1. n + 1 \in 1 .. Len(recs) /\ n + 1 - 1 = n
    BY DEF CodexWritten
  <2> QED
    BY <2>1 DEF CodexWritten
<1>3. /\ r.kind = "tokens" => TotalAt(recs, n + 1) = r.total
      /\ r.kind # "tokens" => TotalAt(recs, n + 1) = TotalAt(recs, n)
  BY TotalNext
<1>4. /\ p.total = TotalAt(recs, n) /\ p.start <= p.total
      /\ p.steps = <<>> <=> Closed(recs, n)
      /\ p.steps = <<>> => p.start = 0
      /\ p.steps # <<>> =>
           /\ p.steps[Len(p.steps)].usage = 0
           /\ \E f \in 1 .. n : Opens(recs, f) /\ UsageOf(p.steps) + Before(recs, f) = p.start
  BY DEF CodexCounted
<1>5. Closed(recs, n + 1) <=> Closed(recs, n) /\ ~Opener(r)
  BY OneMore DEF Closed
<1>6. Opener(r) /\ Closed(recs, n) => Opens(recs, n + 1)
  <2>1. n + 1 - 1 = n
    OBVIOUS
  <2> QED
    BY <2>1 DEF Opens
<1>7. /\ r.kind = "started" => Before(recs, n + 1) = TotalAt(recs, n)
      /\ r.kind = "call" => Before(recs, n + 1) = 0
  <2>1. n + 1 - 1 = n
    OBVIOUS
  <2> QED
    BY <2>1 DEF Before
<1>8. p.steps \in Seq(Step) /\ p.total \in Nat /\ p.start \in Nat /\ UsageOf(p.steps) \in Nat
  BY CodexFields, UsageNat DEF CodexSound
<1>9. \A f \in 1 .. n : f \in 1 .. n + 1 /\ n + 1 \in 1 .. n + 1
  OBVIOUS
<1>10. \A f \in 1 .. n : Opens(recs, f) => ~Closed(recs, n)
  BY DEF Opens, Closed
<1> HIDE DEF r
<1>11. CASE /\ r.kind = "started" /\ Opened(X!CloseStep(p).steps, q.steps)
            /\ q.total = p.total /\ q.start = p.total
  <2>1. PICK c : c = X!CloseStep(p)
    OBVIOUS
  <2>2. /\ c \in CodexState /\ (p.steps = <<>> => c.steps = <<>>)
        /\ p.steps # <<>> => LastOnly(p.steps, c.steps)
    BY <2>1, CodexClosed
  <2>3. c.steps \in Seq(Step) /\ Opened(c.steps, q.steps)
    BY <1>11, <2>1, <2>2, CodexFields
  <2>4. q.steps # <<>> /\ UsageOf(q.steps) = UsageOf(c.steps) /\ q.steps[Len(q.steps)].usage = 0 /\ q.steps \in Seq(Step)
    BY <2>3, OpenedAdds
  <2>5. Opener(r) /\ ~Closed(recs, n + 1)
    BY <1>5, <1>11 DEF Opener
  <2>6. \E f \in 1 .. n + 1 : Opens(recs, f) /\ UsageOf(q.steps) + Before(recs, f) = p.total
    <3>1. CASE p.steps = <<>>
      <4>1. UsageOf(q.steps) = 0
        BY <2>2, <2>4, <3>1, UsageNone
      <4>2. Opens(recs, n + 1) /\ Before(recs, n + 1) = p.total
        BY <1>4, <1>6, <1>7, <1>11, <2>5, <3>1
      <4>3. UsageOf(q.steps) + Before(recs, n + 1) = p.total
        BY <1>8, <4>1, <4>2
      <4>4. n + 1 \in 1 .. n + 1
        OBVIOUS
      <4> QED
        BY <4>2, <4>3, <4>4
    <3>2. CASE p.steps # <<>>
      <4>1. PICK f \in 1 .. n : Opens(recs, f) /\ UsageOf(p.steps) + Before(recs, f) = p.start
        BY <1>4, <3>2
      <4>2. UsageOf(c.steps) + p.start = UsageOf(p.steps) + p.total
        BY <1>4, <2>1, <3>2, ClosedUsage
      <4>3. UsageOf(c.steps) \in Nat
        BY <2>3, UsageNat
      <4>4. Before(recs, f) \in Int
        <5>1. TotalAt(recs, f - 1) \in Int
          <6>1. \A j \in TokensBy(recs, f - 1) : j \in 1 .. Len(recs) /\ recs[j] \in CodexRecord
            <7>1. recs \in Seq(CodexRecord)
              BY DEF CodexWritten
            <7>2. \A j \in TokensBy(recs, f - 1) : j \in 1 .. Len(recs)
              BY DEF TokensBy
            <7> QED
              BY <7>1, <7>2, ElementOfSeq
          <6> QED
            BY <6>1, TotalIn
        <5> QED
          BY <5>1 DEF Before
      <4>5. PICK k : k = Before(recs, f)
        OBVIOUS
      <4>6. UsageOf(c.steps) + k = p.total
        <5>1. PICK u, v, b, e : u = UsageOf(c.steps) /\ v = UsageOf(p.steps) /\ b = p.start /\ e = p.total
          OBVIOUS
        <5>2. u + b = v + e /\ v + k = b
          BY <4>1, <4>2, <4>5, <5>1
        <5>3. u \in Int /\ v \in Int /\ k \in Int /\ b \in Int /\ e \in Int
          BY <1>8, <4>3, <4>4, <4>5, <5>1, UsageNat
        <5>4. u + k = e
          BY <5>2, <5>3
        <5> QED
          BY <5>1, <5>4
      <4> QED
        BY <1>9, <2>4, <4>1, <4>5, <4>6
    <3> QED
      BY <3>1, <3>2
  <2>7. Grows(p.steps, q.steps)
    <3>1. CASE p.steps = <<>>
      BY <2>4, <3>1, GrowsEmpty
    <3>2. CASE p.steps # <<>>
      <4>1. LastOnly(p.steps, c.steps) /\ Grows(c.steps, q.steps)
        BY <2>2, <2>3, <3>2, GrowsOpened
      <4> QED
        BY <1>8, <2>3, <4>1, GrowsBehind
    <3> QED
      BY <3>1, <3>2
  <2>8. q.total = TotalAt(recs, n + 1) /\ q.start <= q.total /\ q.start = p.total
    BY <1>3, <1>4, <1>8, <1>11
  <2> QED
    BY <2>4, <2>5, <2>6, <2>7, <2>8 DEF CodexCounted
<1>12. CASE /\ r.kind = "call" /\ Assisted(p.steps, q.steps, 0)
            /\ q.total = p.total /\ q.start = p.start
  <2>1. Grows(p.steps, q.steps) /\ UsageOf(q.steps) = UsageOf(p.steps)
    <3>1. Grows(p.steps, q.steps) /\ UsageOf(q.steps) = UsageOf(p.steps) + 0
      BY <1>8, <1>12, AssistedAdds
    <3> QED
      BY <1>8, <3>1
  <2>2. q.steps # <<>> /\ q.steps[Len(q.steps)].usage = 0
    BY <1>4, <1>8, <1>12, AssistedLast
  <2>3. Opener(r) /\ ~Closed(recs, n + 1)
    BY <1>5, <1>12 DEF Opener
  <2>4. \E f \in 1 .. n + 1 : Opens(recs, f) /\ UsageOf(q.steps) + Before(recs, f) = p.start
    <3>1. CASE p.steps = <<>>
      <4>1. UsageOf(q.steps) = 0 /\ p.start = 0
        BY <1>4, <2>1, <3>1, UsageNone
      <4>2. Opens(recs, n + 1) /\ Before(recs, n + 1) = 0
        BY <1>4, <1>6, <1>7, <1>12, <2>3, <3>1
      <4>3. n + 1 \in 1 .. n + 1
        OBVIOUS
      <4> QED
        BY <4>1, <4>2, <4>3
    <3>2. CASE p.steps # <<>>
      BY <1>4, <1>9, <2>1, <3>2
    <3> QED
      BY <3>1, <3>2
  <2>5. q.total = TotalAt(recs, n + 1) /\ q.start <= q.total
    BY <1>3, <1>4, <1>8, <1>12
  <2> QED
    BY <1>12, <2>1, <2>2, <2>3, <2>4, <2>5 DEF CodexCounted
<1>13. CASE /\ r.kind \notin {"started", "call"} /\ Stays(p.steps, q.steps)
            /\ q.total = IF r.kind = "tokens" THEN r.total ELSE p.total
            /\ q.start = p.start
  <2>1. /\ Grows(p.steps, q.steps) /\ UsageOf(q.steps) = UsageOf(p.steps) /\ q.steps \in Seq(Step)
        /\ Len(q.steps) = Len(p.steps)
        /\ p.steps # <<>> => q.steps[Len(p.steps)].usage = p.steps[Len(p.steps)].usage
    BY <1>8, <1>13, StaysAdds
  <2>2. q.steps = <<>> <=> p.steps = <<>>
    BY <1>8, <2>1, EmptySeq
  <2>3. Closed(recs, n + 1) <=> Closed(recs, n)
    BY <1>5, <1>13 DEF Opener
  <2>4. q.total \in Nat
    BY <1>1, CodexFields DEF CodexSound
  <2>5. q.total = TotalAt(recs, n + 1) /\ q.start <= q.total
    BY <1>2, <1>3, <1>4, <1>8, <1>13, <2>4
  <2>6. q.steps # <<>> =>
           /\ q.steps[Len(q.steps)].usage = 0
           /\ \E f \in 1 .. n + 1 : Opens(recs, f) /\ UsageOf(q.steps) + Before(recs, f) = q.start
    BY <1>4, <1>9, <1>13, <2>1, <2>2
  <2> QED
    BY <1>4, <1>13, <2>1, <2>2, <2>3, <2>5, <2>6 DEF CodexCounted
<1> QED
  BY <1>1, <1>11, <1>12, <1>13, Zenon DEF CodexEffect

\* By induction over the records.
LEMMA CodexRunSound ==
    ASSUME NEW recs, CodexWritten(recs), NEW a, IsCodexRun(a, recs)
    PROVE  \A n \in 0 .. Len(recs) : CodexSound(recs, n, a[n]) /\ CodexCounted(recs, n, a[n])
<1> DEFINE N == Len(recs)
           T == {n \in 0 .. N : CodexSound(recs, n, a[n]) /\ CodexCounted(recs, n, a[n])}
<1>1. N \in Nat
  BY DEF CodexWritten
<1>2. \A i \in 0 .. N : a[i] = IF i = 0 THEN X!Empty ELSE X!Take(a[i - 1], recs[i])
  BY DEF IsCodexRun
<1>3. 0 \in T
  <2>1. a[0] = X!Empty
    BY <1>1, <1>2
  <2>2. X!Empty.total = 0 /\ X!Empty.start = 0 /\ X!Empty.steps = <<>>
    BY CodexEmptyState
  <2>3. Closed(recs, 0)
    BY DEF Closed
  <2>4. CodexCounted(recs, 0, X!Empty)
    BY <2>2, <2>3, TotalNone DEF CodexCounted
  <2> QED
    BY <1>1, <2>1, <2>4, CodexSoundEmpty
<1>4. ASSUME NEW k \in 0 .. N, k # N, k \in T PROVE k + 1 \in T
  <2>1. k \in Nat /\ k + 1 \in 0 .. N /\ k + 1 <= Len(recs) /\ k + 1 # 0 /\ k + 1 - 1 = k
    BY <1>1, <1>4
  <2>2. a[k + 1] = X!Take(a[k], recs[k + 1])
    BY <1>2, <2>1
  <2>3. CodexSound(recs, k, a[k]) /\ CodexCounted(recs, k, a[k])
    BY <1>4
  <2>4. CodexSound(recs, k + 1, a[k + 1]) /\ CodexCounted(recs, k + 1, a[k + 1])
    BY <2>1, <2>2, <2>3, CodexNext, CodexCountedNext
  <2> QED
    BY <2>1, <2>4
<1> HIDE DEF T
<1>5. \A n \in 0 .. N : n \in T
  <2> HIDE DEF N
  <2> QED
    BY <1>1, <1>3, <1>4, UpTo
<1> QED
  BY <1>5 DEF T

\* parse_codex gives each call the error of its last output.
LEMMA CodexAttributed ==
    ASSUME NEW recs, CodexWritten(recs)
    PROVE  Attributed(recs, X!Parse(recs).steps)
<1>1. recs \in Seq(CodexRecord) /\ Len(recs) \in Nat /\ Len(recs) \in 0 .. Len(recs)
  BY DEF CodexWritten
<1>2. PICK a : IsCodexRun(a, recs) /\ X!Parse(recs) = X!CloseStep(a[Len(recs)])
  BY <1>1, CodexParses
<1>3. PICK p : p = a[Len(recs)]
  OBVIOUS
<1>4. CodexSound(recs, Len(recs), p)
  BY <1>1, <1>2, <1>3, CodexRunSound
<1>5. PICK c : c = X!CloseStep(p)
  OBVIOUS
<1>6. c.steps \in Seq(Step) /\ Told(c.steps, p.where, Bad(recs, Len(recs)))
  BY <1>4, <1>5, CodexClosed, CodexFields
<1>7. \A j \in 1 .. Len(recs) : recs[j].error \in BOOLEAN
  <2>1. \A j \in 1 .. Len(recs) : recs[j] \in CodexRecord
    BY <1>1, ElementOfSeq
  <2> QED
    BY <2>1 DEF CodexRecord
<1>8. Attributed(recs, c.steps)
  BY <1>1, <1>6, <1>7, ToldAttributed
<1> QED
  BY <1>2, <1>3, <1>5, <1>8

\* A record more keeps the names of the steps, and what all but the last did: the open
\* step is closed in both.
LEMMA CodexGrows ==
    ASSUME NEW recs, NEW r \in CodexRecord, CodexWritten(recs), CodexWritten(Append(recs, r))
    PROVE  /\ Grows(X!Parse(recs).steps, X!Parse(Append(recs, r)).steps)
           /\ X!Parse(recs).steps \in Seq(Step) /\ X!Parse(Append(recs, r)).steps \in Seq(Step)
<1> DEFINE n == Len(recs)
<1>1. recs \in Seq(CodexRecord)
  BY DEF CodexWritten
<1>2. PICK more : more = Append(recs, r)
  OBVIOUS
<1>3. /\ n \in Nat /\ Len(more) = n + 1 /\ more[n + 1] = r /\ \A i \in 1 .. n : more[i] = recs[i]
      /\ CodexWritten(more)
  BY <1>1, <1>2, Appended
<1>4. PICK a : IsCodexRun(a, recs) /\ X!Parse(recs) = X!CloseStep(a[n])
  BY <1>3, CodexParses
<1>5. PICK b : IsCodexRun(b, more) /\ X!Parse(more) = X!CloseStep(b[n + 1])
  <2>1. Len(more) \in Nat
    BY <1>3
  <2> QED
    BY <1>3, <2>1, CodexParses
<1>6. a[n] = b[n]
  <2> HIDE DEF n
  <2>1. n \in Nat /\ n <= Len(recs) /\ n <= Len(more) /\ Len(more) \in Nat /\ Len(recs) \in Nat
        /\ \A i \in 1 .. n : recs[i] = more[i]
    BY <1>3 DEF n
  <2> QED
    BY <1>4, <1>5, <2>1, CodexRunUnique
<1>7. b[n + 1] = X!Take(b[n], more[n + 1])
  <2>1. n + 1 \in 0 .. Len(more) /\ n + 1 # 0 /\ n + 1 - 1 = n
    BY <1>3
  <2> QED
    BY <1>5, <2>1 DEF IsCodexRun
<1> HIDE DEF n
<1>8. PICK p, q, c, d : p = b[n] /\ q = b[n + 1] /\ c = X!CloseStep(p) /\ d = X!CloseStep(q)
  OBVIOUS
<1>9. /\ CodexSound(more, n, p) /\ CodexCounted(more, n, p)
      /\ CodexSound(more, n + 1, q)
  <2>1. n \in 0 .. Len(more) /\ n + 1 \in 0 .. Len(more)
    BY <1>3
  <2> QED
    BY <1>3, <1>5, <1>8, <2>1, CodexRunSound
<1>10. Grows(p.steps, q.steps)
  <2>1. n + 1 <= Len(more) /\ q = X!Take(p, more[n + 1])
    BY <1>3, <1>7, <1>8
  <2> QED
    BY <1>3, <1>9, <2>1, CodexCountedNext
<1>11. p.steps \in Seq(Step) /\ q.steps \in Seq(Step)
  BY <1>9, CodexFields DEF CodexSound
<1>12. c.steps \in Seq(Step) /\ d.steps \in Seq(Step)
  BY <1>8, <1>9, CodexClosed, CodexFields
<1>13. Grows(p.steps, d.steps)
  <2>1. CASE q.steps = <<>>
    BY <1>8, <1>9, <1>10, <2>1, CodexClosed
  <2>2. CASE q.steps # <<>>
    <3>1. LastOnly(q.steps, d.steps)
      BY <1>8, <1>9, <2>2, CodexClosed
    <3> QED
      BY <1>10, <1>11, <3>1, GrowsLast
  <2> QED
    BY <2>1, <2>2
<1>14. Grows(c.steps, d.steps)
  <2>1. CASE p.steps = <<>>
    <3>1. c.steps = <<>>
      BY <1>8, <1>9, <2>1, CodexClosed
    <3> QED
      BY <1>12, <3>1, GrowsEmpty
  <2>2. CASE p.steps # <<>>
    <3>1. LastOnly(p.steps, c.steps)
      BY <1>8, <1>9, <2>2, CodexClosed
    <3> QED
      BY <1>11, <1>13, <3>1, GrowsFromLast
  <2> QED
    BY <2>1, <2>2
<1> QED
  BY <1>2, <1>4, <1>5, <1>6, <1>8, <1>12, <1>14

\* What was used before the first step, as Outside says it.
CodexOutside(recs) ==
    LET opens == Kinds(recs, "started") \cup Kinds(recs, "call") IN
    IF opens = {} \/ recs[C!First(opens, 0)].kind = "call" THEN 0
    ELSE X!Parse(SubSeq(recs, 1, C!First(opens, 0) - 1)).total

\* What Codex used outside all steps is what it had used before the first one.
LEMMA CodexFirst ==
    ASSUME NEW recs, CodexWritten(recs), NEW f \in 1 .. Len(recs), Opens(recs, f)
    PROVE  CodexOutside(recs) = Before(recs, f)
<1> DEFINE opens == Kinds(recs, "started") \cup Kinds(recs, "call")
<1>1. recs \in Seq(CodexRecord) /\ Len(recs) \in Nat /\ DOMAIN recs = 1 .. Len(recs)
  BY DEF CodexWritten
<1>2. f \in opens /\ \A j \in opens : j \in 1 .. Len(recs) /\ Opener(recs[j])
  BY <1>1 DEF Opens, Opener, Kinds
<1>3. \A j \in opens : f <= j
  <2> SUFFICES ASSUME NEW j \in opens, ~(f <= j) PROVE FALSE
    OBVIOUS
  <2>1. j \in 1 .. f - 1
    BY <1>1, <1>2
  <2> QED
    BY <1>2, <2>1 DEF Opens, Closed
<1> HIDE DEF opens
<1>4. C!First(opens, 0) = f
  <2> DEFINE g == CHOOSE i \in opens : \A j \in opens : i <= j
  <2>1. g \in opens /\ \A j \in opens : g <= j
    BY <1>2, <1>3
  <2>2. opens # {}
    BY <1>2
  <2>3. C!First(opens, 0) = g
    BY <2>2, Zenon DEF C!First
  <2> HIDE DEF g
  <2>4. g <= f /\ f <= g /\ g \in 1 .. Len(recs) /\ f \in 1 .. Len(recs)
    BY <1>2, <1>3, <2>1
  <2>5. g = f
    BY <1>1, <2>4
  <2> QED
    BY <2>3, <2>5
<1>5. CASE recs[f].kind = "call"
  <2>1. CodexOutside(recs) = 0
    BY <1>4, <1>5 DEF CodexOutside, opens
  <2> QED
    BY <1>5, <2>1 DEF Before
<1>6. CASE recs[f].kind # "call"
  <2> DEFINE pre == SubSeq(recs, 1, f - 1)
             n == f - 1
  <2>1. n \in Nat /\ n \in 0 .. Len(recs) /\ n <= Len(recs)
    BY <1>1
  <2>2. Len(pre) = n /\ \A i \in 1 .. n : pre[i] = recs[i]
    BY <1>1, <2>1
  <2>3. CodexOutside(recs) = X!Parse(pre).total
    BY <1>2, <1>4, <1>6 DEF CodexOutside, opens
  <2> HIDE DEF pre
  <2>4. PICK b : IsCodexRun(b, pre) /\ X!Parse(pre) = X!CloseStep(b[n])
    <3> HIDE DEF n
    <3> QED
      BY <2>1, <2>2, CodexParses
  <2>5. PICK a : IsCodexRun(a, recs)
    BY <1>1, CodexRunExists
  <2> HIDE DEF n
  <2>6. a[n] = b[n]
    <3>1. n <= Len(pre) /\ Len(pre) \in Nat /\ \A i \in 1 .. n : recs[i] = pre[i]
      BY <2>1, <2>2
    <3> QED
      BY <1>1, <2>1, <2>4, <2>5, <3>1, CodexRunUnique
  <2>7. PICK p : p = a[n]
    OBVIOUS
  <2>8. CodexSound(recs, n, p) /\ CodexCounted(recs, n, p)
    BY <2>1, <2>5, <2>7, CodexRunSound
  <2>9. PICK c : c = X!CloseStep(p)
    OBVIOUS
  <2>10. c.total = p.total
    BY <2>8, <2>9, CodexClosed
  <2>11. p.total = TotalAt(recs, n)
    BY <2>8 DEF CodexCounted
  <2>12. Before(recs, f) = TotalAt(recs, n)
    BY <1>6 DEF Before, n
  <2> QED
    BY <2>3, <2>4, <2>6, <2>7, <2>9, <2>10, <2>11, <2>12
<1> QED
  BY <1>5, <1>6

\* parse_codex splits the running total among the steps.
LEMMA CodexUsage ==
    ASSUME NEW recs, CodexWritten(recs), X!Parse(recs).steps # <<>>
    PROVE  UsageOf(X!Parse(recs).steps) + CodexOutside(recs) = TotalAt(recs, Len(recs))
<1> DEFINE n == Len(recs)
<1>1. recs \in Seq(CodexRecord) /\ n \in Nat /\ n \in 0 .. n
  BY DEF CodexWritten
<1>2. PICK a : IsCodexRun(a, recs) /\ X!Parse(recs) = X!CloseStep(a[n])
  BY <1>1, CodexParses
<1>3. PICK p, c : p = a[n] /\ c = X!CloseStep(p)
  OBVIOUS
<1>4. CodexSound(recs, n, p) /\ CodexCounted(recs, n, p)
  BY <1>1, <1>2, <1>3, CodexRunSound
<1>5. p.steps # <<>> /\ c.steps \in Seq(Step)
  BY <1>2, <1>3, <1>4, CodexClosed, CodexFields
<1>6. PICK f \in 1 .. n : Opens(recs, f) /\ UsageOf(p.steps) + Before(recs, f) = p.start
  BY <1>4, <1>5 DEF CodexCounted
<1>7. p.steps[Len(p.steps)].usage = 0 /\ p.start <= p.total /\ p.total = TotalAt(recs, n)
  BY <1>4, <1>5 DEF CodexCounted
<1>8. UsageOf(c.steps) + p.start = UsageOf(p.steps) + p.total
  BY <1>3, <1>4, <1>5, <1>7, ClosedUsage
<1>9. /\ UsageOf(c.steps) \in Nat /\ UsageOf(p.steps) \in Nat
      /\ p.start \in Nat /\ p.total \in Nat
  BY <1>4, <1>5, UsageNat, CodexFields DEF CodexSound
<1>10. CodexOutside(recs) = Before(recs, f)
  BY <1>6, CodexFirst
<1>11. Before(recs, f) \in Nat
  <2>1. \A j \in TokensBy(recs, f - 1) : j \in 1 .. Len(recs)
    BY <1>1 DEF TokensBy
  <2>2. \A j \in TokensBy(recs, f - 1) : recs[j] \in CodexRecord
    BY <1>1, <2>1, ElementOfSeq
  <2>3. f - 1 \in Nat
    BY <1>1
  <2>4. TotalAt(recs, f - 1) \in Nat
    BY <2>2, <2>3, TotalIn
  <2> QED
    BY <2>4 DEF Before
<1>12. PICK k : k = Before(recs, f)
  OBVIOUS
<1>13. UsageOf(c.steps) + k = p.total
  BY <1>6, <1>8, <1>9, <1>11, <1>12
<1> QED
  BY <1>2, <1>3, <1>7, <1>10, <1>12, <1>13
-----------------------------------------------------------------------------
(* Forks *)

\* The fork is there in full, as far as the running system sees it.
Complete ==
    /\ disk.transcript = "whole"
    /\ disk.copy = IF sidecars THEN "whole" ELSE "absent"

RunShape ==
    /\ run = [pc |-> run.pc, kind |-> run.kind, arg |-> run.arg, content |-> run.content]
    /\ run.pc \in Phases

DiskShape == disk \in [transcript : Parts, copy : Parts, durable : SUBSET Entries]

\* What the files are in each phase.
FilesByPhase ==
    /\ run.pc \in {"idle", "writing"} => disk = NoFiles
    /\ run.pc = "creating" => sidecars /\ disk.transcript = "whole" /\ disk.copy = "absent"
    /\ run.pc = "copying" => sidecars /\ disk.transcript = "whole"
    /\ run.pc = "cleaning" => disk.copy = "absent"
    /\ run.pc = "syncing" => Complete /\ (disk.durable = {} \/ sidecars)
    /\ run.pc = "done" => Complete /\ disk.durable = {e \in Entries : disk[e] # "absent"}

IInv == RunShape /\ DiskShape /\ (sidecars => adapter = "claude") /\ sidecars \in BOOLEAN
          /\ FilesByPhase /\ ForkAllOrNothing

\* At first no fork has been asked for.
LEMMA InitFiles == Init => IInv
<1> SUFFICES ASSUME Init PROVE IInv
  OBVIOUS
<1>1. sidecars \in BOOLEAN /\ (sidecars => adapter = "claude")
  BY DEF Init
<1>2. run.pc = "idle" /\ RunShape
  BY DEF Init, NoRun, RunShape, Phases
<1>3. DiskShape
  BY DEF Init, NoFiles, DiskShape, Parts, Entries
<1>4. FilesByPhase /\ ForkAllOrNothing
  BY <1>2 DEF Init, FilesByPhase, ForkAllOrNothing
<1>5. QED
  BY <1>1, <1>2, <1>3, <1>4 DEF IInv

\* Only the last steps can make a fork succeed or fail.
LEMMA NextFiles == IInv /\ [Next]_vars => IInv'
<1> SUFFICES ASSUME IInv, [Next]_vars PROVE IInv'
  OBVIOUS
<1> USE DEF IInv, RunShape, DiskShape, FilesByPhase, ForkAllOrNothing, Complete, NoFiles,
            Phases, Parts, Entries
<1>1. CASE AgentWrites
  BY <1>1 DEF AgentWrites
<1>2. ASSUME NEW kind, NEW arg, NEW content, Begin(kind, arg, content) PROVE IInv'
  BY <1>2 DEF Begin
<1>3. CASE \E id \in StepIds : ForkAtStep(id)
  BY <1>2, <1>3 DEF ForkAtStep
<1>4. CASE \E keep \in 0 .. MaxKeep : CraftContext(keep)
  BY <1>2, <1>4 DEF CraftContext
<1>5. CASE WriteTranscript
  BY <1>5 DEF WriteTranscript, Goes
<1>6. CASE WriteFails
  BY <1>6 DEF WriteFails, Goes
<1>7. CASE CreateCopy
  BY <1>7 DEF CreateCopy, Goes
<1>8. CASE CreateFails
  BY <1>8 DEF CreateFails, Goes
<1>9. CASE CopySidecars
  BY <1>9 DEF CopySidecars, Goes
<1>10. CASE CopyFails
  BY <1>10 DEF CopyFails, Goes
<1>11. CASE RemoveTranscript
  BY <1>11 DEF RemoveTranscript, Goes
<1>12. CASE SyncFork
  BY <1>12 DEF SyncFork, Goes
<1>13. CASE SyncFails
  BY <1>13 DEF SyncFails, Goes
<1>14. CASE Killed
  BY <1>14 DEF Killed
<1>15. CASE PowerLoss
  <2>1. /\ run.pc # "idle" /\ run.pc # "down" /\ UNCHANGED <<adapter, records, sidecars>>
        /\ run' = [run EXCEPT !.pc = IF run.pc = "done" THEN "done" ELSE "down"]
    BY <1>15 DEF PowerLoss
  <2>2. PICK t \in Parts, c \in Parts :
          /\ disk' = [disk EXCEPT !.transcript = t, !.copy = c]
          /\ t = disk.transcript \/ t = IF "transcript" \in disk.durable THEN "whole" ELSE "absent"
          /\ c = disk.copy \/ c = IF "copy" \in disk.durable THEN "whole" ELSE "absent"
    BY <1>15 DEF PowerLoss
  <2>3. CASE run.pc = "done"
    <3>1. t = disk.transcript /\ c = disk.copy
      BY <2>2, <2>3
    <3>2. disk'.transcript = disk.transcript /\ disk'.copy = disk.copy
            /\ disk'.durable = disk.durable /\ DiskShape'
      BY <2>2, <3>1
    <3>3. run'.pc = "done" /\ RunShape'
      BY <2>1, <2>3
    <3>4. QED
      BY <2>1, <2>3, <3>2, <3>3
  <2>4. CASE run.pc # "done"
    BY <2>1, <2>2, <2>4
  <2>5. QED
    BY <2>3, <2>4
<1>16. CASE UNCHANGED vars
  BY <1>16 DEF vars
<1>17. QED
  BY <1>1, <1>3, <1>4, <1>5, <1>6, <1>7, <1>8, <1>9, <1>10, <1>11, <1>12, <1>13, <1>14, <1>15,
     <1>16 DEF Next

\* A fork that succeeds is whole and durable, one that fails behind its
\* transcript is whole or absent: write_new_jsonl, copy_claude_sidecars and
\* sync_directory, in this order, with any error, kill or power loss between.
THEOREM ForkFilesTogether == Spec => []ForkAllOrNothing
<1>1. IInv => ForkAllOrNothing
  BY DEF IInv
<1>2. QED
  BY <1>1, InitFiles, NextFiles, PTL DEF Spec
-----------------------------------------------------------------------------
\* What the agent writes is well formed.
Written ==
    /\ adapter \in {"claude", "codex"}
    /\ adapter = "claude" => ClaudeWritten(records)
    /\ adapter = "codex" => CodexWritten(records)

\* At first nothing has been written.
LEMMA InitWritten == Init => Written
<1> SUFFICES ASSUME Init PROVE Written
  OBVIOUS
<1>1. adapter \in {"claude", "codex"} /\ records = <<>>
  BY DEF Init
<1>2. Len(<<>>) = 0 /\ <<>> \in Seq(ClaudeRecord) /\ <<>> \in Seq(CodexRecord)
  OBVIOUS
<1>3. ClaudeWritten(<<>>)
  BY <1>2 DEF ClaudeWritten
<1>4. CodexWritten(<<>>)
  BY <1>2 DEF CodexWritten
<1> QED
  BY <1>1, <1>3, <1>4 DEF Written

\* The running total after some records depends on those records only.
LEMMA TotalPrefix ==
    ASSUME NEW recs, NEW more, NEW n \in Nat, \A i \in 1 .. n : recs[i] = more[i]
    PROVE  TotalAt(recs, n) = TotalAt(more, n)
<1>1. TokensBy(recs, n) = TokensBy(more, n)
  BY DEF TokensBy
<1>2. CASE TokensBy(recs, n) = {}
  BY <1>1, <1>2 DEF TotalAt
<1>3. CASE TokensBy(recs, n) # {}
  <2>1. TokensBy(recs, n) \subseteq 1 .. n
    BY DEF TokensBy
  <2>2. LastOf(TokensBy(recs, n)) \in 1 .. n
    BY <1>3, <2>1, LastIn
  <2> QED
    BY <1>1, <1>3, <2>2 DEF TotalAt
<1> QED
  BY <1>2, <1>3

\* The running total of a Codex transcript is a number.
LEMMA TotalNat ==
    ASSUME NEW recs \in Seq(CodexRecord), NEW n \in 0 .. Len(recs)
    PROVE  TotalAt(recs, n) \in Nat
<1>1. \A j \in TokensBy(recs, n) : j \in 1 .. Len(recs)
  BY DEF TokensBy
<1>2. \A j \in TokensBy(recs, n) : recs[j] \in CodexRecord
  BY <1>1, ElementOfSeq
<1>3. n \in Nat
  OBVIOUS
<1> QED
  BY <1>2, <1>3, TotalIn

\* The total the agent goes on from is the running total of its transcript.
LEMMA LastTotalIs == ASSUME CodexWritten(records) PROVE LastTotal = TotalAt(records, Len(records))
<1>1. DOMAIN records = 1 .. Len(records)
  BY DEF CodexWritten
<1> DEFINE R == {i \in DOMAIN records : records[i].kind = "tokens"}
<1>2. LastTotal = IF R = {} THEN 0 ELSE records[LastOf(R)].total
  BY Zenon DEF LastTotal, LastOf
<1>3. TokensBy(records, Len(records)) = R
  BY <1>1 DEF TokensBy
<1> QED
  BY <1>2, <1>3 DEF TotalAt

\* A record that the agent may write comes where it may come.
ClaudeNextRecord(r, here) ==
    /\ r \in ClaudeRecord /\ r.id \in {0, here}
    /\ r.kind \in {"prompt", "padded", "compact"} => r.id = here
    /\ r.kind = "assistant" => r.tool \in {0, here}
    /\ r.kind = "result" => r.tool < here

\* A record that may come next keeps a Claude Code transcript a proper one.
LEMMA ClaudeMore ==
    ASSUME NEW recs, ClaudeWritten(recs), NEW r, ClaudeNextRecord(r, Len(recs) + 1)
    PROVE  ClaudeWritten(Append(recs, r))
<1>1. recs \in Seq(ClaudeRecord) /\ r \in ClaudeRecord
  BY DEF ClaudeWritten, ClaudeNextRecord
<1>2. PICK more : more = Append(recs, r)
  OBVIOUS
<1>3. /\ more \in Seq(ClaudeRecord) /\ Len(recs) \in Nat /\ Len(more) = Len(recs) + 1
      /\ more[Len(recs) + 1] = r /\ \A i \in 1 .. Len(recs) : more[i] = recs[i]
  BY <1>1, <1>2, Appended
<1>4. ASSUME NEW i \in 1 .. Len(more) PROVE ClaudeNextRecord(more[i], i)
  <2>1. CASE i = Len(recs) + 1
    BY <1>3, <2>1
  <2>2. CASE i # Len(recs) + 1
    <3>1. i \in 1 .. Len(recs) /\ more[i] = recs[i]
      BY <1>3, <2>2
    <3>2. recs[i] \in ClaudeRecord
      BY <1>1, <3>1, ElementOfSeq
    <3> QED
      BY <3>1, <3>2 DEF ClaudeNextRecord, ClaudeWritten
  <2> QED
    BY <2>1, <2>2
<1>5. ClaudeWritten(more)
  BY <1>3, <1>4 DEF ClaudeWritten, ClaudeNextRecord
<1> QED
  BY <1>2, <1>5

CodexNextRecord(r, here, total) ==
    /\ r \in CodexRecord
    /\ r.kind = "call" => r.id = here
    /\ r.kind = "output" => r.id < here
    /\ r.kind = "started" => r.id \in {0, here}
    /\ r.kind = "tokens" => total <= r.total

\* A record that may come next keeps a Codex transcript a proper one.
LEMMA CodexMore ==
    ASSUME NEW recs, CodexWritten(recs), NEW r,
           CodexNextRecord(r, Len(recs) + 1, TotalAt(recs, Len(recs)))
    PROVE  CodexWritten(Append(recs, r))
<1>1. recs \in Seq(CodexRecord) /\ r \in CodexRecord
  BY DEF CodexWritten, CodexNextRecord
<1>2. PICK more : more = Append(recs, r)
  OBVIOUS
<1>3. /\ more \in Seq(CodexRecord) /\ Len(recs) \in Nat /\ Len(more) = Len(recs) + 1
      /\ more[Len(recs) + 1] = r /\ \A i \in 1 .. Len(recs) : more[i] = recs[i]
  BY <1>1, <1>2, Appended
<1>4. ASSUME NEW i \in 1 .. Len(more) PROVE CodexNextRecord(more[i], i, TotalAt(more, i - 1))
  <2>1. i - 1 \in Nat /\ \A j \in 1 .. i - 1 : recs[j] = more[j]
    BY <1>3
  <2>2. TotalAt(more, i - 1) = TotalAt(recs, i - 1)
    BY <2>1, TotalPrefix
  <2>3. CASE i = Len(recs) + 1
    <3>1. i - 1 = Len(recs)
      BY <1>3, <2>3
    <3> QED
      BY <1>3, <2>2, <2>3, <3>1
  <2>4. CASE i # Len(recs) + 1
    <3>1. i \in 1 .. Len(recs) /\ more[i] = recs[i]
      BY <1>3, <2>4
    <3>2. recs[i] \in CodexRecord
      BY <1>1, <3>1, ElementOfSeq
    <3> QED
      BY <2>2, <3>1, <3>2 DEF CodexNextRecord, CodexWritten
  <2> QED
    BY <2>3, <2>4
<1>5. CodexWritten(more)
  BY <1>3, <1>4 DEF CodexWritten, CodexNextRecord
<1> QED
  BY <1>2, <1>5

\* The agent writes what may come next.
LEMMA ClaudeWrites ==
    ASSUME ClaudeWritten(records), NEW r \in ClaudeRecords
    PROVE  ClaudeNextRecord(r, Here)
<1>1. /\ records \in Seq(ClaudeRecord) /\ DOMAIN records = 1 .. Len(records) /\ Here \in Nat /\ Here = Len(records) + 1
      /\ Len(records) \in Nat
  BY DEF ClaudeWritten, Here
<1>2. \A i \in 1 .. Len(records) : records[i] \in ClaudeRecord
  BY <1>1, ElementOfSeq
<1>3. \A i \in 1 .. Len(records) : records[i].api \in Nat /\ records[i].tool \in Nat
  BY <1>2 DEF ClaudeRecord
<1>4. \A tool \in Tools : tool \in Nat /\ tool < Here
  <2> SUFFICES ASSUME NEW tool \in Tools PROVE tool \in Nat /\ tool < Here
    OBVIOUS
  <2>1. PICK i \in 1 .. Len(records) : records[i].kind = "assistant" /\ tool = records[i].tool /\ tool # 0
    BY <1>1 DEF Tools
  <2>2. tool = i
    BY <2>1 DEF ClaudeWritten
  <2> QED
    BY <1>1, <2>2
<1>5. LastApi \subseteq Nat
  <2> DEFINE R == {i \in DOMAIN records : records[i].kind = "assistant"}
  <2>1. R \subseteq 1 .. Len(records)
    BY <1>1
  <2>2. R # {} => LastOf(R) \in R
    <3> HIDE DEF R
    <3> QED
      BY <1>1, <2>1, LastIn
  <2>3. LastApi = IF R = {} THEN {} ELSE {records[LastOf(R)].api}
    BY Zenon DEF LastApi, LastOf
  <2> HIDE DEF R
  <2> QED
    BY <1>3, <2>1, <2>2, <2>3
<1>6. CASE \E kind \in {"prompt", "padded", "compact", "interrupt"} : r = C!Claude(kind, Here, 0, 0, FALSE)
  <2>1. PICK kind \in {"prompt", "padded", "compact", "interrupt"} : r = C!Claude(kind, Here, 0, 0, FALSE)
    BY <1>6
  <2>2. r \in ClaudeRecord /\ r.kind = kind /\ r.id = Here
    BY <1>1, <2>1 DEF C!Claude, ClaudeRecord
  <2> QED
    BY <2>2 DEF ClaudeNextRecord
<1>7. CASE r = C!Claude("last-prompt", 0, 0, 0, FALSE)
  <2>1. PICK kind : kind = "last-prompt"
    OBVIOUS
  <2>2. r \in ClaudeRecord /\ r.kind = kind /\ r.id = 0
    BY <1>7, <2>1 DEF C!Claude, ClaudeRecord
  <2> QED
    BY <2>1, <2>2 DEF ClaudeNextRecord
<1>8. CASE \E api \in LastApi \cup {Here}, tool \in {0, Here} : r = C!Claude("assistant", Here, api, tool, FALSE)
  <2>1. PICK api \in LastApi \cup {Here}, tool \in {0, Here} : r = C!Claude("assistant", Here, api, tool, FALSE)
    BY <1>8
  <2>2. PICK kind : kind = "assistant"
    OBVIOUS
  <2>3. api \in Nat /\ tool \in Nat
    BY <1>1, <1>5
  <2>4. r \in ClaudeRecord /\ r.kind = kind /\ r.id = Here /\ r.tool = tool
    BY <1>1, <2>1, <2>2, <2>3 DEF C!Claude, ClaudeRecord
  <2> QED
    BY <2>2, <2>4 DEF ClaudeNextRecord
<1>9. CASE \E tool \in Tools, e \in BOOLEAN : r = C!Claude("result", Here, 0, tool, e)
  <2>1. PICK tool \in Tools, e \in BOOLEAN : r = C!Claude("result", Here, 0, tool, e)
    BY <1>9
  <2>2. PICK kind : kind = "result"
    OBVIOUS
  <2>3. tool \in Nat /\ tool < Here
    BY <1>4
  <2>4. r \in ClaudeRecord /\ r.kind = kind /\ r.id = Here /\ r.tool = tool
    BY <1>1, <2>1, <2>2, <2>3 DEF C!Claude, ClaudeRecord
  <2> QED
    BY <2>2, <2>3, <2>4 DEF ClaudeNextRecord
<1>10. \/ \E kind \in {"prompt", "padded", "compact", "interrupt"} : r = C!Claude(kind, Here, 0, 0, FALSE)
       \/ r = C!Claude("last-prompt", 0, 0, 0, FALSE)
       \/ \E api \in LastApi \cup {Here}, tool \in {0, Here} : r = C!Claude("assistant", Here, api, tool, FALSE)
       \/ \E tool \in Tools, e \in BOOLEAN : r = C!Claude("result", Here, 0, tool, e)
  BY DEF ClaudeRecords, C!Claude
<1> QED
  BY <1>6, <1>7, <1>8, <1>9, <1>10, Zenon

\* Each record the agent may write is one that may come next.
LEMMA CodexWrites ==
    ASSUME CodexWritten(records), NEW r \in CodexRecords
    PROVE  CodexNextRecord(r, Here, TotalAt(records, Len(records)))
<1>1. /\ records \in Seq(CodexRecord) /\ DOMAIN records = 1 .. Len(records) /\ Here \in Nat /\ Here = Len(records) + 1
      /\ Len(records) \in Nat
  BY DEF CodexWritten, Here
<1>2. LastTotal = TotalAt(records, Len(records)) /\ LastTotal \in Nat
  BY <1>1, LastTotalIs, TotalNat
<1>3. \A id \in Calls : id \in Nat /\ id < Here
  <2> SUFFICES ASSUME NEW id \in Calls PROVE id \in Nat /\ id < Here
    OBVIOUS
  <2>1. PICK i \in 1 .. Len(records) : records[i].kind = "call" /\ id = records[i].id
    BY <1>1 DEF Calls
  <2>2. id = i
    BY <2>1 DEF CodexWritten
  <2> QED
    BY <1>1, <2>2
<1>4. CASE \E kind \in {"meta", "message", "complete", "compacted"} : r = X!Codex(kind, 0, 0, FALSE)
  <2>1. PICK kind \in {"meta", "message", "complete", "compacted"} : r = X!Codex(kind, 0, 0, FALSE)
    BY <1>4
  <2>2. kind \in CodexKinds
    BY DEF CodexKinds
  <2>3. r \in CodexRecord /\ r.kind = kind
    BY <2>1, <2>2 DEF X!Codex, CodexRecord
  <2> QED
    BY <2>3 DEF CodexNextRecord
<1>5. CASE \E id \in {0, Here} : r = X!Codex("started", id, 0, FALSE)
  <2>1. PICK id \in {0, Here} : r = X!Codex("started", id, 0, FALSE)
    BY <1>5
  <2>2. PICK kind \in CodexKinds : kind = "started"
    BY DEF CodexKinds
  <2>3. r \in CodexRecord /\ r.kind = kind /\ r.id = id
    BY <1>1, <2>1, <2>2 DEF X!Codex, CodexRecord
  <2> QED
    BY <2>2, <2>3 DEF CodexNextRecord
<1>6. CASE r = X!Codex("call", Here, 0, FALSE)
  <2>1. PICK kind \in CodexKinds : kind = "call"
    BY DEF CodexKinds
  <2>2. r \in CodexRecord /\ r.kind = kind /\ r.id = Here
    BY <1>1, <1>6, <2>1 DEF X!Codex, CodexRecord
  <2> QED
    BY <1>1, <2>1, <2>2 DEF CodexNextRecord
<1>7. CASE r = X!Codex("tokens", 0, LastTotal + Here, FALSE)
  <2>1. PICK kind \in CodexKinds : kind = "tokens"
    BY DEF CodexKinds
  <2>2. PICK total \in Nat : total = LastTotal + Here
    BY <1>1, <1>2
  <2>3. r \in CodexRecord /\ r.kind = kind /\ r.total = total
    BY <1>1, <1>7, <2>1, <2>2 DEF X!Codex, CodexRecord
  <2>4. TotalAt(records, Len(records)) <= total
    BY <1>1, <1>2, <2>2
  <2> QED
    BY <2>1, <2>3, <2>4 DEF CodexNextRecord
<1>8. CASE \E id \in Calls, e \in BOOLEAN : r = X!Codex("output", id, 0, e)
  <2>1. PICK id \in Calls, e \in BOOLEAN : r = X!Codex("output", id, 0, e)
    BY <1>8
  <2>2. PICK kind \in CodexKinds : kind = "output"
    BY DEF CodexKinds
  <2>3. id \in Nat /\ id < Here
    BY <1>3
  <2>4. r \in CodexRecord /\ r.kind = kind /\ r.id = id
    BY <2>1, <2>2, <2>3 DEF X!Codex, CodexRecord
  <2> QED
    BY <2>2, <2>3, <2>4 DEF CodexNextRecord
<1>9. \/ \E kind \in {"meta", "message", "complete", "compacted"} : r = X!Codex(kind, 0, 0, FALSE)
      \/ \E id \in {0, Here} : r = X!Codex("started", id, 0, FALSE)
      \/ r = X!Codex("call", Here, 0, FALSE)
      \/ r = X!Codex("tokens", 0, LastTotal + Here, FALSE)
      \/ \E id \in Calls, e \in BOOLEAN : r = X!Codex("output", id, 0, e)
  BY DEF CodexRecords, X!Codex
<1> QED
  BY <1>4, <1>5, <1>6, <1>7, <1>8, <1>9, Zenon

\* A step of the agent adds one record, before and after which the transcript is a proper one.
LEMMA AgentWritesWell ==
    ASSUME Written, AgentWrites
    PROVE  /\ adapter' = adapter
           /\ adapter = "claude" => \E r \in ClaudeRecord :
                records' = Append(records, r) /\ ClaudeWritten(records) /\ ClaudeWritten(Append(records, r))
           /\ adapter = "codex" => \E r \in CodexRecord :
                records' = Append(records, r) /\ CodexWritten(records) /\ CodexWritten(Append(records, r))
<1>1. adapter' = adapter
  BY DEF AgentWrites
<1>2. CASE adapter = "claude"
  <2>1. PICK r \in ClaudeRecords : records' = Append(records, r)
    BY <1>2 DEF AgentWrites
  <2>2. ClaudeWritten(records)
    BY <1>2 DEF Written
  <2>3. ClaudeNextRecord(r, Len(records) + 1)
    BY <2>2, ClaudeWrites DEF Here
  <2>4. ClaudeWritten(Append(records, r)) /\ r \in ClaudeRecord
    BY <2>2, <2>3, ClaudeMore DEF ClaudeNextRecord
  <2> QED
    BY <1>1, <1>2, <2>1, <2>2, <2>4
<1>3. CASE adapter = "codex"
  <2>1. PICK r \in CodexRecords : records' = Append(records, r)
    BY <1>3 DEF AgentWrites
  <2>2. CodexWritten(records)
    BY <1>3 DEF Written
  <2>3. CodexNextRecord(r, Len(records) + 1, TotalAt(records, Len(records)))
    BY <2>2, CodexWrites DEF Here
  <2>4. CodexWritten(Append(records, r)) /\ r \in CodexRecord
    BY <2>2, <2>3, CodexMore DEF CodexNextRecord
  <2> QED
    BY <1>1, <1>3, <2>1, <2>2, <2>4
<1> QED
  BY <1>1, <1>2, <1>3 DEF Written

\* Only the agent writes to the transcript.
LEMMA OthersRead ==
    ASSUME [Next]_vars
    PROVE  AgentWrites \/ UNCHANGED <<adapter, records>>
<1>1. ASSUME NEW kind, NEW arg, NEW content, Begin(kind, arg, content)
      PROVE  UNCHANGED <<adapter, records>>
  BY <1>1 DEF Begin
<1>2. CASE \E id \in StepIds : ForkAtStep(id)
  BY <1>1, <1>2 DEF ForkAtStep
<1>3. CASE \E keep \in 0 .. MaxKeep : CraftContext(keep)
  BY <1>1, <1>3 DEF CraftContext
<1>4. ASSUME NEW from, NEW to, Goes(from, to) PROVE UNCHANGED <<adapter, records>>
  BY <1>4 DEF Goes
<1>5. CASE \/ WriteTranscript \/ WriteFails \/ CreateCopy \/ CreateFails \/ CopySidecars \/ CopyFails
           \/ RemoveTranscript \/ SyncFork \/ SyncFails
  BY <1>4, <1>5 DEF WriteTranscript, WriteFails, CreateCopy, CreateFails, CopySidecars, CopyFails,
                    RemoveTranscript, SyncFork, SyncFails
<1>6. CASE Killed \/ PowerLoss
  BY <1>6 DEF Killed, PowerLoss
<1>7. CASE UNCHANGED vars
  BY <1>7 DEF vars
<1> QED
  BY <1>2, <1>3, <1>5, <1>6, <1>7 DEF Next

\* The transcript stays well formed.
LEMMA NextWritten == Written /\ [Next]_vars => Written'
<1> SUFFICES ASSUME Written, [Next]_vars PROVE Written'
  OBVIOUS
<1>1. CASE AgentWrites
  <2>1. /\ adapter' = adapter
        /\ adapter = "claude" => ClaudeWritten(records')
        /\ adapter = "codex" => CodexWritten(records')
    BY <1>1, AgentWritesWell
  <2> QED
    BY <2>1 DEF Written
<1>2. CASE UNCHANGED <<adapter, records>>
  BY <1>2 DEF Written
<1> QED
  BY <1>1, <1>2, OthersRead

\* In a proper transcript each call has the error of its last result.
LEMMA WrittenAttributed == Written => ErrorsAttributed
<1> SUFFICES ASSUME Written PROVE ErrorsAttributed
  OBVIOUS
<1>1. Attributed(records, Steps(records))
  <2>1. CASE adapter = "claude"
    BY <2>1, ClaudeAttributed DEF Written, Steps, Parse
  <2>2. CASE adapter = "codex"
    <3>1. adapter # "claude"
      BY <2>2
    <3> QED
      BY <2>2, <3>1, CodexAttributed DEF Written, Steps, Parse
  <2> QED
    BY <2>1, <2>2 DEF Written
<1> QED
  BY <1>1, Zenon DEF ErrorsAttributed, Attributed

\* In a proper transcript the steps account for all that was used.
LEMMA WrittenCounted == Written => UsageCountedOnce
<1> SUFFICES ASSUME Written, Steps(records) # <<>>
             PROVE  UsageOf(Steps(records)) + Outside = Used
  BY Zenon DEF UsageCountedOnce, UsageOf
<1>1. CASE adapter = "claude"
  <2>1. Outside = 0 /\ Used = SumOfApis({records[i].api : i \in Kinds(records, "assistant")})
    BY <1>1, Zenon DEF Outside, Used, SumOfApis
  <2>2. /\ UsageOf(Steps(records)) = SumOfApis({records[i].api : i \in Kinds(records, "assistant")})
        /\ UsageOf(Steps(records)) \in Nat
    BY <1>1, ClaudeUsage DEF Written, Steps, Parse
  <2> QED
    BY <2>1, <2>2
<1>2. CASE adapter = "codex"
  <2>1. adapter # "claude" /\ CodexWritten(records)
    BY <1>2 DEF Written
  <2>2. Outside = CodexOutside(records)
    BY <2>1, Zenon DEF Outside, CodexOutside
  <2>3. Used = TotalAt(records, Len(records))
    BY <2>1, LastTotalIs DEF Used
  <2>4. Steps(records) = X!Parse(records).steps
    BY <2>1 DEF Steps, Parse
  <2>5. UsageOf(X!Parse(records).steps) + CodexOutside(records) = TotalAt(records, Len(records))
    BY <2>1, <2>4, CodexUsage
  <2> QED
    BY <2>2, <2>3, <2>4, <2>5
<1> QED
  BY <1>1, <1>2 DEF Written

GrowsStable(before, after) ==
    /\ Len(before) <= Len(after)
    /\ \A i \in DOMAIN before : before[i].id = after[i].id
    /\ \A i \in 1 .. Len(before) - 1 :
         /\ before[i].calls = after[i].calls
         /\ before[i].usage = after[i].usage
         /\ Len(before[i].tools) = Len(after[i].tools)

\* A list of steps that has grown keeps the names and, but for the last step, what was shown.
LEMMA GrowsIsStable ==
    ASSUME NEW s \in Seq(Step), NEW t, Grows(s, t)
    PROVE  GrowsStable(s, t)
<1>1. DOMAIN s = 1 .. Len(s) /\ Len(s) \in Nat
  OBVIOUS
<1>2. \A i \in 1 .. Len(s) - 1 : i \in 1 .. Len(s) /\ i # Len(s)
  <2>1. PICK n : n = Len(s)
    OBVIOUS
  <2>2. n \in Nat
    BY <1>1, <2>1
  <2>3. \A i \in 1 .. n - 1 : i \in 1 .. n /\ i # n
    BY <2>2
  <2> QED
    BY <2>1, <2>3
<1> QED
  BY <1>1, <1>2 DEF Grows, GrowsStable

\* Every step of the machine that writes a record lets the steps grow.
LEMMA StepStable ==
    ASSUME Written, [Next]_vars, records' # records
    PROVE  GrowsStable(Steps(records), Parse(records').steps)
<1>1. AgentWrites
  BY OthersRead
<1>2. CASE adapter = "claude"
  <2>1. PICK r \in ClaudeRecord :
          records' = Append(records, r) /\ ClaudeWritten(records) /\ ClaudeWritten(Append(records, r))
    BY <1>1, <1>2, AgentWritesWell
  <2>2. Grows(C!Parse(records).steps, C!Parse(records').steps) /\ C!Parse(records).steps \in Seq(Step)
    BY <2>1, ClaudeGrows
  <2>3. Steps(records) = C!Parse(records).steps /\ Parse(records').steps = C!Parse(records').steps
    BY <1>2 DEF Steps, Parse
  <2> QED
    BY <2>2, <2>3, GrowsIsStable
<1>3. CASE adapter = "codex"
  <2>1. PICK r \in CodexRecord :
          records' = Append(records, r) /\ CodexWritten(records) /\ CodexWritten(Append(records, r))
    BY <1>1, <1>3, AgentWritesWell
  <2>2. Grows(X!Parse(records).steps, X!Parse(records').steps) /\ X!Parse(records).steps \in Seq(Step)
    BY <2>1, CodexGrows
  <2>3. Steps(records) = X!Parse(records).steps /\ Parse(records').steps = X!Parse(records').steps
    <3>1. adapter # "claude"
      BY <1>3
    <3> QED
      BY <3>1 DEF Steps, Parse
  <2> QED
    BY <2>2, <2>3, GrowsIsStable
<1> QED
  BY <1>2, <1>3 DEF Written

\* The steps of a transcript account for all that it used, each response of Claude
\* once (the seen ids of parse_claude_assistant) and each running total of Codex once
\* (close_codex_step): what the agent writes is well formed, and the parsers then count
\* record by record.
THEOREM UsageOnce == Spec => []UsageCountedOnce
<1> QED
  BY InitWritten, NextWritten, WrittenCounted, PTL DEF Spec

\* A call has failed if and only if its last result says so, wherever the result
\* comes (apply_claude_tool_results, function_call_output).
THEOREM ErrorsRight == Spec => []ErrorsAttributed
<1> QED
  BY InitWritten, NextWritten, WrittenAttributed, PTL DEF Spec

\* A transcript that grows keeps the names of its steps, and what all but the last of
\* them called and used.
THEOREM StepsKept == Spec => StepsStable
<1> DEFINE Stable == records' # records =>
                       LET before == Steps(records)
                           after == Parse(records').steps
                       IN /\ Len(before) <= Len(after)
                          /\ \A i \in DOMAIN before : before[i].id = after[i].id
                          /\ \A i \in 1 .. Len(before) - 1 :
                               /\ before[i].calls = after[i].calls
                               /\ before[i].usage = after[i].usage
                               /\ Len(before[i].tools) = Len(after[i].tools)
<1>1. Written /\ [Next]_vars => Stable
  BY StepStable, Zenon DEF GrowsStable
<1> HIDE DEF Stable
<1>2. Spec => [][Stable]_vars
  BY <1>1, InitWritten, NextWritten, PTL DEF Spec
<1> QED
  BY <1>2 DEF StepsStable, Stable
-----------------------------------------------------------------------------
\* Growth of growth.
LEMMA GrowsTwice ==
    ASSUME NEW s \in Seq(Step), NEW t \in Seq(Step), NEW u \in Seq(Step), Grows(s, t), Grows(t, u)
    PROVE  Grows(s, u)
<1>1. Len(s) \in Nat /\ Len(t) \in Nat /\ Len(u) \in Nat /\ Len(s) <= Len(t) /\ Len(t) <= Len(u)
  BY DEF Grows
<1>2. \A i \in 1 .. Len(s) : i \in 1 .. Len(t) /\ (i # Len(s) => i # Len(t))
  BY <1>1
<1> QED
  BY <1>1, <1>2 DEF Grows

\* Record by record the steps of a Claude Code transcript grow.
LEMMA ClaudeRunGrows ==
    ASSUME NEW recs, ClaudeWritten(recs), NEW a, IsClaudeRun(a, recs), NEW m \in 0 .. Len(recs)
    PROVE  \A n \in 0 .. Len(recs) : m <= n => Grows(a[m].steps, a[n].steps)
<1> DEFINE N == Len(recs)
           T == {n \in 0 .. N : m <= n => Grows(a[m].steps, a[n].steps)}
<1>1. N \in Nat
  BY DEF ClaudeWritten
<1>2. \A i \in 0 .. N : ClaudeSound(recs, i, a[i]) /\ ClaudeCounted(a[i])
  BY ClaudeRunSound
<1>3. \A i \in 0 .. N : a[i].steps \in Seq(Step)
  BY <1>2, ClaudeFields DEF ClaudeSound
<1>4. 0 \in T
  <2>1. m <= 0 => m = 0
    BY <1>1
  <2> QED
    BY <1>1, <1>3, <2>1, GrowsSame
<1>5. ASSUME NEW k \in 0 .. N, k # N, k \in T PROVE k + 1 \in T
  <2>1. k \in Nat /\ k + 1 \in 0 .. N /\ k + 1 <= Len(recs) /\ k + 1 # 0 /\ k + 1 - 1 = k
    BY <1>1, <1>5
  <2>2. a[k + 1] = C!Take(a[k], recs[k + 1])
    BY <2>1 DEF IsClaudeRun
  <2>3. Grows(a[k].steps, a[k + 1].steps)
    BY <1>2, <2>1, <2>2, ClaudeCountedNext
  <2>4. CASE m <= k
    <3>1. Grows(a[m].steps, a[k].steps)
      BY <1>5, <2>4
    <3> QED
      BY <1>3, <2>1, <2>3, <3>1, GrowsTwice
  <2>5. CASE m = k + 1
    BY <1>3, <2>1, <2>5, GrowsSame
  <2>6. m <= k \/ m = k + 1 \/ ~(m <= k + 1)
    BY <2>1
  <2> QED
    BY <2>1, <2>4, <2>5, <2>6
<1> HIDE DEF T
<1>6. \A n \in 0 .. N : n \in T
  <2> HIDE DEF N
  <2> QED
    BY <1>1, <1>4, <1>5, UpTo
<1> QED
  BY <1>6 DEF T

SameNames(s, t) == Len(s) = Len(t) /\ \A i \in 1 .. Len(s) : s[i].id = t[i].id

\* A prompt and the summary of a compaction give a step their name, nothing else does,
\* but for a response that comes first.
LEMMA ClaudeNaming ==
    ASSUME NEW recs, ClaudeWritten(recs), NEW n \in Nat, n + 1 <= Len(recs),
           NEW p, ClaudeSound(recs, n, p), NEW q, q = C!Take(p, recs[n + 1])
    PROVE  /\ recs[n + 1].kind \in {"prompt", "padded", "compact"} =>
                \E s \in Step : q.steps = Append(p.steps, s) /\ s.id = C!Native(n + 1)
           /\ recs[n + 1].kind \notin {"prompt", "padded", "compact"} =>
                \/ SameNames(p.steps, q.steps)
                \/ p.steps = <<>> /\ Len(q.steps) = 1 /\ q.steps[1].id = C!Ordinal(0)
<1> DEFINE r == recs[n + 1]
<1>1. /\ r \in ClaudeRecord
      /\ r.kind \in {"prompt", "padded", "compact"} => r.id = n + 1
  <2>1. recs \in Seq(ClaudeRecord) /\ n + 1 \in 1 .. Len(recs)
    BY DEF ClaudeWritten
  <2> QED
    BY <2>1, ElementOfSeq DEF ClaudeWritten
<1>2. r.kind \in {"prompt", "padded", "compact", "interrupt", "last-prompt", "hidden", "assistant", "result"}
  BY <1>1 DEF ClaudeRecord
<1>3. p \in ClaudeState /\ p.current = Len(p.steps) /\ Told(p.steps, p.where, Bad(recs, n))
  BY DEF ClaudeSound
<1>4. p.steps \in Seq(Step) /\ Len(p.steps) \in Nat
  BY <1>3, ClaudeFields
<1> HIDE DEF r
<1>5. q = C!Take(p, r)
  BY DEF r
<1> DEFINE Goal == /\ r.kind \in {"prompt", "padded", "compact"} =>
                        \E s \in Step : q.steps = Append(p.steps, s) /\ s.id = C!Native(n + 1)
                   /\ r.kind \notin {"prompt", "padded", "compact"} =>
                        \/ SameNames(p.steps, q.steps)
                        \/ p.steps = <<>> /\ Len(q.steps) = 1 /\ q.steps[1].id = C!Ordinal(0)
<1> SUFFICES Goal
  BY DEF r
<1>6. CASE r.kind \in {"prompt", "padded", "compact"}
  <2>1. q = C!OnPrompt(p, r)
    BY <1>1, <1>5, <1>6, ClaudeTakes
  <2>2. PICK id : id = IF r.id = 0 THEN C!Ordinal(Len(p.steps)) ELSE C!Native(r.id)
    OBVIOUS
  <2>3. PICK s : s = PromptedStep(id)
    OBVIOUS
  <2>4. s \in Step /\ q.steps = Append(p.steps, s)
    BY <1>1, <1>3, <2>1, <2>2, <2>3, ClaudePrompt
  <2>5. s.id = id /\ id = C!Native(n + 1)
    BY <1>1, <1>6, <2>2, <2>3 DEF PromptedStep
  <2> QED
    BY <1>6, <2>4, <2>5
<1>7. CASE r.kind = "interrupt"
  <2>1. q = C!OnInterrupt(p) /\ r.kind \notin {"prompt", "padded", "compact"}
    BY <1>1, <1>5, <1>7, ClaudeTakes
  <2>2. /\ p.steps = <<>> => q.steps = p.steps
        /\ p.steps # <<>> => Only(p.steps, q.steps, Len(p.steps))
    BY <1>3, <2>1, ClaudeInterrupts
  <2>3. SameNames(p.steps, q.steps)
    BY <2>2 DEF SameNames, Only
  <2> QED
    BY <2>1, <2>3
<1>8. CASE r.kind = "result"
  <2>1. q = C!OnResult(p, r) /\ r.kind \notin {"prompt", "padded", "compact"}
    BY <1>1, <1>5, <1>8, ClaudeTakes
  <2>2. Located(p.steps, p.where)
    BY <1>3, ToldLocated
  <2>3. /\ r.tool \notin DOMAIN p.where => q.steps = p.steps
        /\ LET at == p.where[r.tool] IN
           r.tool \in DOMAIN p.where => Noted(p.steps, q.steps, at[1], at[2], r.error)
    BY <1>1, <1>3, <2>1, <2>2, ClaudeResults
  <2>4. SameNames(p.steps, q.steps)
    BY <2>3 DEF SameNames, Only, Noted
  <2> QED
    BY <2>1, <2>4
<1>9. CASE r.kind = "assistant"
  <2>1. q = C!OnAssistant(p, r) /\ r.kind \notin {"prompt", "padded", "compact"}
    BY <1>1, <1>5, <1>9, ClaudeTakes
  <2>2. PICK b : b = Base(p)
    OBVIOUS
  <2>3. b.current = Len(b.steps) /\ Only(b.steps, q.steps, b.current)
    BY <1>1, <1>3, <2>1, <2>2, ClaudeAssists
  <2>4. SameNames(b.steps, q.steps)
    BY <2>3 DEF SameNames, Only
  <2>5. /\ p.steps # <<>> => b = p
        /\ p.steps = <<>> => b.steps = Append(p.steps, OpenedStep(C!Ordinal(0)))
    BY <1>3, <2>2, BaseIs
  <2>6. CASE p.steps = <<>>
    <3>1. PICK z \in Step : z = OpenedStep(C!Ordinal(0))
      BY NewSteps, Names
    <3>2. z.id = C!Ordinal(0)
      BY <3>1 DEF OpenedStep
    <3>3. b.steps = Append(p.steps, z)
      BY <2>5, <2>6, <3>1
    <3>4. Len(b.steps) = 1 /\ b.steps[1] = z
      BY <2>6, <3>3
    <3> QED
      BY <2>1, <2>4, <2>6, <3>2, <3>4 DEF SameNames
  <2> QED
    BY <2>1, <2>4, <2>5, <2>6
<1>10. CASE r.kind \in {"last-prompt", "hidden"}
  <2>1. q = p /\ r.kind \notin {"prompt", "padded", "compact"}
    BY <1>1, <1>5, <1>10, ClaudeTakes
  <2> QED
    BY <2>1 DEF SameNames
<1> QED
  BY <1>2, <1>6, <1>7, <1>8, <1>9, <1>10

\* Where the name of a step comes from: the place of its prompt, or nowhere.
PlaceOf(x) == IF x.by = "native" THEN x.n ELSE 0

\* Each step but one that a response opened is named by a prompt or by the summary of a
\* compaction, and the steps have the order of those.
ClaudeNamed(recs, n, steps) ==
    /\ \A i \in 1 .. Len(steps) :
         \/ steps[i].id.by = "ordinal"
         \/ /\ steps[i].id.by = "native" /\ steps[i].id.n \in 1 .. n
            /\ recs[steps[i].id.n].kind \in {"prompt", "padded", "compact"}
    /\ \A i, j \in 1 .. Len(steps) : i < j => PlaceOf(steps[i].id) < PlaceOf(steps[j].id)

\* The names stay in order over one record more: it names one new step at the
\* end, after its own place, or none.
LEMMA ClaudeNamedNext ==
    ASSUME NEW recs, ClaudeWritten(recs), NEW n \in Nat, n + 1 <= Len(recs),
           NEW p, ClaudeSound(recs, n, p), ClaudeNamed(recs, n, p.steps), NEW q, q = C!Take(p, recs[n + 1])
    PROVE  ClaudeNamed(recs, n + 1, q.steps)
<1> DEFINE s == p.steps
           t == q.steps
<1>1. s \in Seq(Step) /\ Len(s) \in Nat
  BY ClaudeFields DEF ClaudeSound
<1>2. CASE recs[n + 1].kind \in {"prompt", "padded", "compact"}
  <2>1. PICK z \in Step : t = Append(s, z) /\ z.id = C!Native(n + 1)
    BY <1>2, ClaudeNaming
  <2> HIDE DEF s, t
  <2>2. Len(t) = Len(s) + 1 /\ t[Len(s) + 1] = z /\ \A i \in 1 .. Len(s) : t[i] = s[i]
    BY <1>1, <2>1, Appended
  <2>3. z.id.by = "native" /\ z.id.n = n + 1 /\ PlaceOf(z.id) = n + 1
    BY <2>1 DEF C!Native, PlaceOf
  <2>4. \A i \in 1 .. Len(s) : PlaceOf(s[i].id) \in 0 .. n
    BY DEF ClaudeNamed, PlaceOf, s
  <2>5. ASSUME NEW i \in 1 .. Len(t)
        PROVE  \/ t[i].id.by = "ordinal"
               \/ /\ t[i].id.by = "native" /\ t[i].id.n \in 1 .. n + 1
                  /\ recs[t[i].id.n].kind \in {"prompt", "padded", "compact"}
    <3>1. CASE i = Len(s) + 1
      <4>1. t[i].id.by = "native" /\ t[i].id.n = n + 1
        BY <2>2, <2>3, <3>1
      <4>2. n + 1 \in 1 .. n + 1
        OBVIOUS
      <4> QED
        BY <1>2, <4>1, <4>2
    <3>2. CASE i # Len(s) + 1
      <4>1. i \in 1 .. Len(s)
        BY <1>1, <2>2, <3>2
      <4>2. PICK x : x = s[i].id
        OBVIOUS
      <4>3. t[i].id = x
        BY <2>2, <4>1, <4>2
      <4>4. \/ x.by = "ordinal"
            \/ x.by = "native" /\ x.n \in 1 .. n /\ recs[x.n].kind \in {"prompt", "padded", "compact"}
        BY <4>1, <4>2 DEF ClaudeNamed, s
      <4>5. \A k \in 1 .. n : k \in 1 .. n + 1
        OBVIOUS
      <4> QED
        BY <4>3, <4>4, <4>5
    <3> QED
      BY <3>1, <3>2
  <2>6. ASSUME NEW i \in 1 .. Len(t), NEW j \in 1 .. Len(t), i < j PROVE PlaceOf(t[i].id) < PlaceOf(t[j].id)
    <3>1. i \in 1 .. Len(s)
      BY <1>1, <2>2, <2>6
    <3>2. CASE j = Len(s) + 1
      BY <2>2, <2>3, <2>4, <3>1, <3>2
    <3>3. CASE j # Len(s) + 1
      <4>1. j \in 1 .. Len(s)
        BY <1>1, <2>2, <3>3
      <4>2. PlaceOf(s[i].id) < PlaceOf(s[j].id)
        BY <2>6, <3>1, <4>1 DEF ClaudeNamed, s
      <4> QED
        BY <2>2, <3>1, <4>1, <4>2
    <3> QED
      BY <3>2, <3>3
  <2> QED
    BY <2>5, <2>6 DEF ClaudeNamed, t
<1>3. CASE recs[n + 1].kind \notin {"prompt", "padded", "compact"} /\ SameNames(s, t)
  <2>1. Len(t) = Len(s) /\ \A i \in 1 .. Len(t) : t[i].id = s[i].id
    BY <1>3 DEF SameNames
  <2>2. \A k \in 1 .. n : k \in 1 .. n + 1
    OBVIOUS
  <2> QED
    BY <2>1, <2>2 DEF ClaudeNamed
<1>4. CASE s = <<>> /\ Len(t) = 1 /\ t[1].id = C!Ordinal(0)
  <2>1. t[1].id.by = "ordinal"
    BY <1>4 DEF C!Ordinal
  <2>2. \A i \in 1 .. Len(t) : i = 1
    BY <1>4
  <2> QED
    BY <2>1, <2>2 DEF ClaudeNamed
<1> QED
  BY <1>2, <1>3, <1>4, ClaudeNaming

\* After any number of a Claude transcript's records the names of the steps are
\* in the order of the places they come from.
LEMMA ClaudeRunNamed ==
    ASSUME NEW recs, ClaudeWritten(recs), NEW a, IsClaudeRun(a, recs)
    PROVE  \A n \in 0 .. Len(recs) : ClaudeNamed(recs, n, a[n].steps)
<1> DEFINE N == Len(recs)
           T == {n \in 0 .. N : ClaudeNamed(recs, n, a[n].steps)}
<1>1. N \in Nat
  BY DEF ClaudeWritten
<1>2. \A i \in 0 .. N : ClaudeSound(recs, i, a[i])
  BY ClaudeRunSound
<1>3. 0 \in T
  <2>1. a[0] = C!Empty
    BY <1>1 DEF IsClaudeRun
  <2>2. a[0].steps = <<>>
    BY <2>1 DEF C!Empty
  <2>3. ClaudeNamed(recs, 0, <<>>)
    BY DEF ClaudeNamed
  <2> QED
    BY <1>1, <2>2, <2>3
<1>4. ASSUME NEW k \in 0 .. N, k # N, k \in T PROVE k + 1 \in T
  <2>1. k \in Nat /\ k + 1 \in 0 .. N /\ k + 1 <= Len(recs) /\ k + 1 # 0 /\ k + 1 - 1 = k
    BY <1>1, <1>4
  <2>2. a[k + 1] = C!Take(a[k], recs[k + 1])
    BY <2>1 DEF IsClaudeRun
  <2>3. ClaudeNamed(recs, k, a[k].steps)
    BY <1>4
  <2>4. ClaudeNamed(recs, k + 1, a[k + 1].steps)
    BY <1>2, <2>1, <2>2, <2>3, ClaudeNamedNext
  <2> QED
    BY <2>1, <2>4
<1> HIDE DEF T
<1>5. \A n \in 0 .. N : n \in T
  <2> HIDE DEF N
  <2> QED
    BY <1>1, <1>3, <1>4, UpTo
<1> QED
  BY <1>5 DEF T

\* The first of some places.
LEMMA FirstIs ==
    ASSUME NEW n \in Nat, NEW S, S \subseteq 1 .. n, NEW d, NEW f, f = C!First(S, d)
    PROVE  /\ S # {} => f \in S /\ \A j \in S : f <= j
           /\ S = {} => f = d
<1>1. CASE S # {}
  <2>1. S \in SUBSET Nat
    OBVIOUS
  <2>2. \E i \in S : \A j \in S : i <= j
    BY <1>1, <2>1, NonEmptyMin
  <2>3. f = CHOOSE i \in S : \A j \in S : i <= j
    BY <1>1, Zenon DEF C!First
  <2> QED
    BY <1>1, <2>2, <2>3, Zenon
<1>2. CASE S = {}
  BY <1>2, Zenon DEF C!First
<1> QED
  BY <1>1, <1>2

\* The records that a fork leaves out say nothing to the parser.
LEMMA ClaudeKept ==
    ASSUME NEW recs \in Seq(ClaudeRecord)
    PROVE  C!Parse(C!Kept(recs)) = C!Parse(recs)
<1> DEFINE N == Len(recs)
           places == {i \in DOMAIN recs : recs[i].kind # "last-prompt"}
<1>1. N \in Nat
  OBVIOUS
<1>2. PICK u : IsSelection(u, recs, places) /\ Selection(recs, places) = u[N]
  <2> HIDE DEF places
  <2> QED
    BY SelectionIs
<1>3. C!Kept(recs) = Selection(recs, places)
  BY Zenon DEF C!Kept, C!Selection, Selection
<1>4. PICK a : IsClaudeRun(a, recs) /\ C!Parse(recs) = a[N]
  BY <1>1, ClaudeParses
<1>5. \A n \in 0 .. N : u[n] \in Seq(ClaudeRecord)
  <2> HIDE DEF places
  <2> QED
    BY <1>2, SelectionType
<1>6. /\ u[0] = <<>>
      /\ \A n \in Nat : n + 1 <= N =>
           u[n + 1] = IF n + 1 \in places THEN Append(u[n], recs[n + 1]) ELSE u[n]
  <2> HIDE DEF places
  <2> QED
    BY <1>2, SelectionSteps
<1> DEFINE T == {n \in 0 .. N : C!Parse(u[n]) = a[n]}
<1>7. 0 \in T
  <2>1. a[0] = C!Empty
    BY <1>1, <1>4 DEF IsClaudeRun
  <2>2. Len(<<>>) = 0 /\ Len(<<>>) \in Nat
    OBVIOUS
  <2>3. PICK b : IsClaudeRun(b, <<>>) /\ C!Parse(<<>>) = b[0]
    BY <2>2, ClaudeParses
  <2>4. b[0] = C!Empty
    BY <2>2, <2>3 DEF IsClaudeRun
  <2> QED
    BY <1>1, <1>6, <2>1, <2>3, <2>4
<1>8. ASSUME NEW k \in 0 .. N, k # N, k \in T PROVE k + 1 \in T
  <2>1. k \in Nat /\ k + 1 \in 0 .. N /\ k + 1 <= N /\ k + 1 # 0 /\ k + 1 - 1 = k /\ k + 1 \in DOMAIN recs
    BY <1>1, <1>8
  <2>2. a[k + 1] = C!Take(a[k], recs[k + 1])
    BY <1>4, <2>1 DEF IsClaudeRun
  <2>3. recs[k + 1] \in ClaudeRecord
    BY <2>1, ElementOfSeq
  <2>4. C!Parse(u[k]) = a[k] /\ u[k] \in Seq(ClaudeRecord)
    BY <1>5, <1>8
  <2>5. CASE recs[k + 1].kind # "last-prompt"
    <3>1. u[k + 1] = Append(u[k], recs[k + 1])
      BY <1>6, <2>1, <2>5
    <3>2. C!Parse(u[k + 1]) = C!Take(C!Parse(u[k]), recs[k + 1])
      BY <2>3, <2>4, <3>1, ClaudeAppend
    <3> QED
      BY <2>1, <2>2, <2>4, <3>2
  <2>6. CASE recs[k + 1].kind = "last-prompt"
    <3>1. u[k + 1] = u[k]
      BY <1>6, <2>1, <2>6
    <3>2. C!Take(a[k], recs[k + 1]) = a[k]
      BY <2>3, <2>6, ClaudeTakes
    <3> QED
      BY <2>1, <2>2, <2>4, <3>1, <3>2
  <2> QED
    BY <2>5, <2>6
<1> HIDE DEF T
<1>9. \A n \in 0 .. N : n \in T
  <2> HIDE DEF N
  <2> QED
    BY <1>1, <1>7, <1>8, UpTo
<1>10. C!Parse(u[N]) = a[N]
  BY <1>1, <1>9 DEF T
<1> QED
  BY <1>2, <1>3, <1>4, <1>10

\* One list of steps is the beginning of the other, in all that a fork must keep.
Beginning(short, long) ==
    /\ Len(short) <= Len(long)
    /\ \A i \in 1 .. Len(short) : long[i].id = short[i].id /\ SameStep(long[i], short[i])

\* Steps that did the same are the same to a reader.
LEMMA SameSteps ==
    ASSUME NEW x, NEW y, x.calls = y.calls, x.usage = y.usage, ToolIds(x) = ToolIds(y)
    PROVE  SameStep(x, y)
  BY Zenon DEF SameStep, ToolIds

\* What was done when a step is opened stays done.
LEMMA BeginningOpened ==
    ASSUME NEW s \in Seq(Step), NEW z \in Step, NEW t, t = Append(s, z), NEW u \in Seq(Step), Grows(t, u)
    PROVE  Beginning(s, u) /\ Len(s) + 1 \in 1 .. Len(u) /\ u[Len(s) + 1].id = z.id
<1>1. Len(s) \in Nat /\ Len(u) \in Nat /\ Len(t) = Len(s) + 1 /\ t[Len(s) + 1] = z
      /\ \A i \in 1 .. Len(s) : t[i] = s[i]
  BY Appended
<1>2. ASSUME NEW i \in 1 .. Len(s) PROVE u[i].id = s[i].id /\ SameStep(u[i], s[i])
  <2>1. i \in 1 .. Len(t) /\ i # Len(t)
    BY <1>1
  <2>2. t[i].id = u[i].id /\ t[i].calls = u[i].calls /\ t[i].usage = u[i].usage /\ ToolIds(t[i]) = ToolIds(u[i])
    BY <2>1 DEF Grows
  <2>3. t[i] = s[i]
    BY <1>1
  <2> QED
    BY <2>2, <2>3, SameSteps
<1>3. Len(s) + 1 \in 1 .. Len(t) /\ Len(t) <= Len(u) /\ t[Len(s) + 1].id = u[Len(s) + 1].id
  BY <1>1 DEF Grows
<1> QED
  BY <1>1, <1>2, <1>3 DEF Beginning

\* A list of steps is its own beginning.
LEMMA BeginningSame == ASSUME NEW s \in Seq(Step) PROVE Beginning(s, s)
<1>1. ASSUME NEW i \in 1 .. Len(s) PROVE SameStep(s[i], s[i])
  BY SameSteps
<1>2. Len(s) \in Nat
  OBVIOUS
<1> QED
  BY <1>1, <1>2 DEF Beginning

\* What ForkEndsAtStep asks of a fork at a step.
EndsAt(recs, id, before, after) ==
    LET last == CHOOSE i \in DOMAIN before : before[i].id = id
    IN /\ Len(after) >= last
       /\ \A i \in 1 .. last : before[i].id = after[i].id /\ SameStep(before[i], after[i])
       /\ \A i \in last + 1 .. Len(after) : \E c \in Unseen(recs) : after[i].id = C!Native(c)

\* What has to be shown of a fork for it to end at the step that was named:
\* that step is in it, and only what the forks take for no prompt may come after.
LEMMA EndsAtIs ==
    ASSUME NEW recs, NEW id, NEW before \in Seq(Step), NEW after \in Seq(Step), Beginning(after, before),
           \E i \in 1 .. Len(before) : before[i].id = id,
           \A last \in 1 .. Len(before) : before[last].id = id =>
             /\ last <= Len(after)
             /\ \A i \in 1 .. Len(after) : last < i =>
                  \E c \in Unseen(recs) : after[i].id = C!Native(c)
    PROVE  EndsAt(recs, id, before, after)
<1> DEFINE last == CHOOSE i \in DOMAIN before : before[i].id = id
<1>1. last \in 1 .. Len(before) /\ before[last].id = id
  <2>1. DOMAIN before = 1 .. Len(before)
    OBVIOUS
  <2> QED
    BY <2>1
<1> HIDE DEF last
<1>2. Len(before) \in Nat /\ Len(after) \in Nat /\ last <= Len(after)
  BY <1>1
<1>3. \A i \in 1 .. last : before[i].id = after[i].id /\ SameStep(before[i], after[i])
  <2>1. \A i \in 1 .. last : i \in 1 .. Len(after)
    BY <1>1, <1>2
  <2> QED
    BY <2>1 DEF Beginning
<1>4. \A i \in last + 1 .. Len(after) : \E c \in Unseen(recs) : after[i].id = C!Native(c)
  <2>1. \A i \in last + 1 .. Len(after) : i \in 1 .. Len(after) /\ last < i
    BY <1>1, <1>2
  <2> QED
    BY <1>1, <2>1
<1>5. Len(after) >= last
  BY <1>1, <1>2
<1> QED
  BY <1>3, <1>4, <1>5, Zenon DEF EndsAt, last

\* fork_claude_at_step: the parser has the same steps up to the cut, which is before
\* the prompt that follows the target.
LEMMA ClaudeForkEnds ==
    ASSUME NEW recs, ClaudeWritten(recs), NEW id, C!CanFork(recs, id),
           NEW before, before = C!Parse(recs).steps, \E i \in 1 .. Len(before) : before[i].id = id
    PROVE  EndsAt(recs, id, before, C!Parse(C!ForkAt(recs, id)).steps)
<1> DEFINE N == Len(recs)
<1>1. recs \in Seq(ClaudeRecord) /\ N \in Nat /\ DOMAIN recs = 1 .. N
  BY DEF ClaudeWritten
<1>2. PICK k : k = C!First(C!Anchors(recs, id), 0)
  OBVIOUS
<1>3. k \in 1 .. N /\ id = C!Native(k)
  <2>1. C!Anchors(recs, id) \subseteq 1 .. N /\ C!Anchors(recs, id) # {}
    BY <1>1 DEF C!Anchors, C!CanFork
  <2>2. k \in C!Anchors(recs, id)
    BY <1>1, <1>2, <2>1, FirstIs
  <2>3. k \in 1 .. N /\ recs[k].id # 0 /\ C!Native(recs[k].id) = id
    BY <1>1, <2>2 DEF C!Anchors
  <2>4. recs[k].id = k
    BY <2>3 DEF ClaudeWritten
  <2> QED
    BY <2>3, <2>4
<1>4. PICK cut : cut = C!CutAfter(recs, k)
  OBVIOUS
<1>5. /\ cut \in k + 1 .. N + 1
      /\ \A i \in k + 1 .. cut - 1 : recs[i].kind # "prompt"
      /\ cut <= N => recs[cut].kind = "prompt"
  <2> DEFINE P == {i \in DOMAIN recs : i > k /\ C!IsPrompt(recs[i])}
  <2>1. cut = C!First(P, N + 1)
    BY <1>4, Zenon DEF C!CutAfter
  <2>2. P \subseteq 1 .. N /\ \A i \in 1 .. N : i \in P <=> i > k /\ recs[i].kind = "prompt"
    BY <1>1 DEF C!IsPrompt
  <2> HIDE DEF P
  <2>3. /\ P # {} => cut \in P /\ \A j \in P : cut <= j
        /\ P = {} => cut = N + 1
    <3>1. N \in Nat /\ P \subseteq 1 .. N
      BY <1>1, <2>2
    <3>2. PICK n \in Nat : n = N
      BY <3>1
    <3>3. PICK d : d = N + 1
      OBVIOUS
    <3>4. P \subseteq 1 .. n /\ cut = C!First(P, d)
      BY <2>1, <3>1, <3>2, <3>3
    <3> HIDE DEF N
    <3> QED
      BY <3>3, <3>4, FirstIs
  <2>4. CASE P # {}
    <3>1. cut \in 1 .. N /\ cut > k /\ recs[cut].kind = "prompt"
      BY <2>2, <2>3, <2>4
    <3>2. \A i \in k + 1 .. cut - 1 : i \in 1 .. N /\ i > k /\ ~(cut <= i)
      BY <1>1, <1>3, <3>1
    <3>3. \A i \in k + 1 .. cut - 1 : recs[i].kind # "prompt"
      BY <2>2, <2>3, <2>4, <3>2
    <3> QED
      BY <1>1, <1>3, <3>1, <3>3
  <2>5. CASE P = {}
    <3>1. cut = N + 1
      BY <2>3, <2>5
    <3>2. \A i \in k + 1 .. cut - 1 : i \in 1 .. N /\ i > k
      BY <1>1, <1>3, <3>1
    <3>3. \A i \in k + 1 .. cut - 1 : recs[i].kind # "prompt"
      BY <2>2, <2>5, <3>2
    <3>4. cut \in k + 1 .. N + 1 /\ ~(cut <= N)
      BY <1>1, <1>3, <3>1
    <3> QED
      BY <3>3, <3>4
  <2> QED
    BY <2>4, <2>5
<1>6. PICK m : m = cut - 1
  OBVIOUS
<1>7. m \in 0 .. N /\ k <= m /\ m \in Nat /\ cut = m + 1
  BY <1>1, <1>3, <1>5, <1>6
<1>8. PICK a : IsClaudeRun(a, recs) /\ C!Parse(recs) = a[N]
  BY <1>1, ClaudeParses
<1>9. C!Parse(C!ForkAt(recs, id)) = a[m]
  <2>1. PICK pre : pre = SubSeq(recs, 1, m)
    OBVIOUS
  <2>2. pre \in Seq(ClaudeRecord) /\ Len(pre) = m /\ \A i \in 1 .. m : recs[i] = pre[i]
    BY <1>1, <1>7, <2>1
  <2>3. C!ForkAt(recs, id) = C!Kept(pre)
    BY <1>2, <1>4, <1>6, <2>1, Zenon DEF C!ForkAt
  <2>4. C!Parse(C!Kept(pre)) = C!Parse(pre)
    BY <2>2, ClaudeKept
  <2>5. PICK b : IsClaudeRun(b, pre) /\ C!Parse(pre) = b[m]
    BY <1>7, <2>2, ClaudeParses
  <2>6. a[m] = b[m]
    <3>1. m <= Len(recs) /\ m <= Len(pre) /\ Len(pre) \in Nat /\ Len(recs) \in Nat
      BY <1>1, <1>7, <2>2
    <3>2. IsClaudeRun(a, recs) /\ IsClaudeRun(b, pre) /\ \A i \in 1 .. m : recs[i] = pre[i]
      BY <1>8, <2>2, <2>5
    <3>3. m \in Nat
      BY <1>7
    <3> QED
      BY <3>1, <3>2, <3>3, ClaudeRunUnique
  <2> QED
    BY <2>3, <2>4, <2>5, <2>6
<1>10. PICK after : after = a[m].steps
  OBVIOUS
<1>11. /\ before = a[N].steps /\ before \in Seq(Step) /\ after \in Seq(Step)
       /\ ClaudeNamed(recs, N, before) /\ ClaudeNamed(recs, m, after)
  <2>1. N \in 0 .. N
    BY <1>1
  <2>2. ClaudeSound(recs, N, a[N]) /\ ClaudeSound(recs, m, a[m])
    BY <1>7, <1>8, <2>1, ClaudeRunSound
  <2>3. ClaudeNamed(recs, N, a[N].steps) /\ ClaudeNamed(recs, m, a[m].steps)
    BY <1>7, <1>8, <2>1, ClaudeRunNamed
  <2> QED
    BY <1>8, <1>10, <2>2, <2>3, ClaudeFields DEF ClaudeSound
<1>12. Len(before) \in Nat /\ Len(after) \in Nat
  BY <1>11
<1>13. Beginning(after, before)
       /\ (m # N => Len(after) + 1 \in 1 .. Len(before) /\ before[Len(after) + 1].id = C!Native(m + 1))
  <2>1. CASE m = N
    BY <1>10, <1>11, <2>1, BeginningSame
  <2>2. CASE m # N
    <3>1. m + 1 \in 0 .. N /\ m + 1 <= N /\ m + 1 # 0 /\ m + 1 - 1 = m /\ N \in 0 .. N
      <4>1. N \in Nat /\ m \in 0 .. N /\ m # N
        BY <1>1, <1>7, <2>2
      <4> HIDE DEF N
      <4> QED
        BY <4>1
    <3>2. a[m + 1] = C!Take(a[m], recs[m + 1])
      <4>1. IsClaudeRun(a, recs) /\ m \in Nat
        BY <1>7, <1>8
      <4> QED
        BY <3>1, <4>1 DEF IsClaudeRun
    <3>3. ClaudeSound(recs, m, a[m]) /\ ClaudeSound(recs, m + 1, a[m + 1])
      BY <1>7, <1>8, <3>1, ClaudeRunSound
    <3>4. recs[m + 1].kind = "prompt"
      BY <1>5, <1>7, <3>1
    <3>5. PICK z \in Step : a[m + 1].steps = Append(after, z) /\ z.id = C!Native(m + 1)
      <4>1. PICK p, q : p = a[m] /\ q = a[m + 1]
        OBVIOUS
      <4>2. m \in Nat /\ m + 1 <= Len(recs)
        BY <1>1, <1>7, <3>1
      <4>3. ClaudeSound(recs, m, p) /\ q = C!Take(p, recs[m + 1])
        BY <3>2, <3>3, <4>1
      <4>4. PICK z \in Step : q.steps = Append(p.steps, z) /\ z.id = C!Native(m + 1)
        BY <3>4, <4>2, <4>3, ClaudeNaming
      <4>5. p.steps = after
        BY <1>10, <4>1
      <4> QED
        BY <4>1, <4>4, <4>5
    <3>6. Grows(a[m + 1].steps, before)
      BY <1>8, <1>11, <3>1, ClaudeRunGrows
    <3> QED
      BY <1>11, <3>5, <3>6, BeginningOpened
  <2> QED
    BY <2>1, <2>2
<1>14. ASSUME NEW last \in 1 .. Len(before), before[last].id = id
       PROVE  /\ last <= Len(after)
              /\ \A i \in 1 .. Len(after) : last < i =>
                   \E c \in Unseen(recs) : after[i].id = C!Native(c)
  <2>1. PlaceOf(id) = k
    BY <1>3 DEF PlaceOf, C!Native
  <2>2. last <= Len(after)
    <3> SUFFICES ASSUME ~(last <= Len(after)) PROVE FALSE
      OBVIOUS
    <3>1. m # N
      BY <1>10, <1>11, <1>12
    <3>2. PICK l : l = Len(after) + 1
      OBVIOUS
    <3>3. l \in 1 .. Len(before) /\ before[l].id = C!Native(m + 1)
      BY <1>13, <3>1, <3>2
    <3>4. PlaceOf(before[l].id) = m + 1
      BY <3>3 DEF PlaceOf, C!Native
    <3>5. l = last \/ l < last
      BY <1>12, <3>2
    <3>6. PlaceOf(before[l].id) <= PlaceOf(before[last].id)
      <4>1. CASE l = last
        BY <1>7, <3>4, <4>1
      <4>2. CASE l < last
        <5>1. PlaceOf(before[l].id) < PlaceOf(before[last].id)
          BY <1>11, <3>3, <4>2 DEF ClaudeNamed
        <5> QED
          BY <1>3, <1>7, <1>14, <2>1, <3>4, <5>1
      <4> QED
        BY <3>5, <4>1, <4>2
    <3> QED
      BY <1>3, <1>7, <1>14, <2>1, <3>4, <3>6
  <2>3. ASSUME NEW i \in 1 .. Len(after), last < i
        PROVE  \E c \in Unseen(recs) : after[i].id = C!Native(c)
    <3>1. last \in 1 .. Len(after)
      BY <1>12, <2>2
    <3>2. after[last].id = id
      BY <1>13, <1>14, <3>1 DEF Beginning
    <3>3. PICK x : x = after[i].id
      OBVIOUS
    <3>4. k < PlaceOf(x)
      BY <1>11, <2>1, <2>3, <3>1, <3>2, <3>3 DEF ClaudeNamed
    <3>5. \/ x.by = "ordinal"
          \/ x.by = "native" /\ x.n \in 1 .. m /\ recs[x.n].kind \in {"prompt", "padded", "compact"}
      BY <1>11, <3>3 DEF ClaudeNamed
    <3>6. x.by = "native"
      BY <1>3, <3>4, <3>5 DEF PlaceOf
    <3>7. x.n \in 1 .. m /\ recs[x.n].kind \in {"prompt", "padded", "compact"} /\ k < x.n
      BY <3>4, <3>5, <3>6 DEF PlaceOf
    <3>8. x.n \in k + 1 .. cut - 1 /\ x.n \in 1 .. N
      BY <1>1, <1>3, <1>7, <3>7
    <3>9. recs[x.n].kind \in {"compact", "padded"}
      BY <1>5, <3>7, <3>8
    <3>10. x \in Name
      BY <1>11, <3>3, ElementOfSeq, StepFields
    <3>11. x = C!Native(x.n)
      BY <3>6, <3>10 DEF Name, C!Native
    <3>12. x.n \in Unseen(recs)
      BY <1>1, <3>8, <3>9 DEF Unseen
    <3> QED
      BY <3>3, <3>11, <3>12
  <2> QED
    BY <2>2, <2>3
<1>15. EndsAt(recs, id, before, after)
  BY <1>11, <1>13, <1>14, EndsAtIs
<1> QED
  BY <1>9, <1>10, <1>15

\* Record by record the steps of a Codex transcript grow.
LEMMA CodexRunGrows ==
    ASSUME NEW recs, CodexWritten(recs), NEW a, IsCodexRun(a, recs), NEW m \in 0 .. Len(recs)
    PROVE  \A n \in 0 .. Len(recs) : m <= n => Grows(a[m].steps, a[n].steps)
<1> DEFINE N == Len(recs)
           T == {n \in 0 .. N : m <= n => Grows(a[m].steps, a[n].steps)}
<1>1. N \in Nat
  BY DEF CodexWritten
<1>2. \A i \in 0 .. N : CodexSound(recs, i, a[i]) /\ CodexCounted(recs, i, a[i])
  BY CodexRunSound
<1>3. \A i \in 0 .. N : a[i].steps \in Seq(Step)
  BY <1>2, CodexFields DEF CodexSound
<1>4. 0 \in T
  <2>1. m <= 0 => m = 0
    BY <1>1
  <2> QED
    BY <1>1, <1>3, <2>1, GrowsSame
<1>5. ASSUME NEW k \in 0 .. N, k # N, k \in T PROVE k + 1 \in T
  <2>1. k \in Nat /\ k + 1 \in 0 .. N /\ k + 1 <= Len(recs) /\ k + 1 # 0 /\ k + 1 - 1 = k
    BY <1>1, <1>5
  <2>2. a[k + 1] = X!Take(a[k], recs[k + 1])
    BY <2>1 DEF IsCodexRun
  <2>3. Grows(a[k].steps, a[k + 1].steps)
    BY <1>2, <2>1, <2>2, CodexCountedNext
  <2>4. CASE m <= k
    <3>1. Grows(a[m].steps, a[k].steps)
      BY <1>5, <2>4
    <3> QED
      BY <1>3, <2>1, <2>3, <3>1, GrowsTwice
  <2>5. CASE m = k + 1
    BY <1>3, <2>1, <2>5, GrowsSame
  <2>6. m <= k \/ m = k + 1 \/ ~(m <= k + 1)
    BY <2>1
  <2> QED
    BY <2>1, <2>4, <2>5, <2>6
<1> HIDE DEF T
<1>6. \A n \in 0 .. N : n \in T
  <2> HIDE DEF N
  <2> QED
    BY <1>1, <1>4, <1>5, UpTo
<1> QED
  BY <1>6 DEF T

\* A task_started gives a step its turn_id, or its number, and nothing else does, but for
\* a call that comes first.
LEMMA CodexNaming ==
    ASSUME NEW recs, CodexWritten(recs), NEW n \in Nat, n + 1 <= Len(recs),
           NEW p, CodexSound(recs, n, p), NEW q, q = X!Take(p, recs[n + 1])
    PROVE  /\ recs[n + 1].kind = "started" =>
                \E z \in Step : /\ q.steps = Append(X!CloseStep(p).steps, z)
                                /\ z.id = IF recs[n + 1].id = 0 THEN X!Ordinal(Len(p.steps))
                                          ELSE X!Native(recs[n + 1].id)
           /\ recs[n + 1].kind = "call" /\ p.steps = <<>> =>
                Len(q.steps) = 1 /\ q.steps[1].id = X!Ordinal(0)
           /\ recs[n + 1].kind = "call" /\ p.steps # <<>> => SameNames(p.steps, q.steps)
           /\ recs[n + 1].kind \notin {"started", "call"} => SameNames(p.steps, q.steps)
<1> DEFINE r == recs[n + 1]
<1>1. r \in CodexRecord
  <2>1. recs \in Seq(CodexRecord) /\ n + 1 \in 1 .. Len(recs)
    BY DEF CodexWritten
  <2> QED
    BY <2>1, ElementOfSeq
<1>2. p \in CodexState /\ p.current = Len(p.steps)
  BY DEF CodexSound
<1>3. p.steps \in Seq(Step) /\ Len(p.steps) \in Nat
  BY <1>2, CodexFields
<1>4. CodexEffect(p, q, r)
  BY CodexNext
<1>5. q = X!Take(p, r)
  OBVIOUS
<1> HIDE DEF r
<1>6. ASSUME r.kind = "started"
      PROVE  \E z \in Step : /\ q.steps = Append(X!CloseStep(p).steps, z)
                             /\ z.id = IF r.id = 0 THEN X!Ordinal(Len(p.steps)) ELSE X!Native(r.id)
  <2>1. q = X!OnStarted(p, r)
    BY <1>1, <1>5, <1>6, CodexTakes
  <2>2. PICK id : id = IF r.id = 0 THEN X!Ordinal(Len(p.steps)) ELSE X!Native(r.id)
    OBVIOUS
  <2>3. PICK c : c = X!CloseStep(p)
    OBVIOUS
  <2>4. c \in CodexState
    BY <1>2, <2>3, CodexCloses
  <2>5. PICK d : d = [c EXCEPT !.start = p.total]
    OBVIOUS
  <2>6. p.total \in Nat /\ r.id \in Nat
    BY <1>1, <1>2, CodexFields DEF CodexRecord
  <2>7. d \in CodexState /\ d.steps = c.steps
    BY <2>4, <2>5, <2>6 DEF CodexState
  <2>8. id \in Name
    BY <1>3, <2>2, <2>6, CodexNames
  <2>9. q = X!OpenStep(d, id)
    BY <2>1, <2>2, <2>3, <2>5 DEF X!OnStarted
  <2>10. PICK z : z = OpenedStep(id)
    OBVIOUS
  <2>11. z \in Step /\ q.steps = Append(d.steps, z)
    BY <2>7, <2>8, <2>9, <2>10, CodexOpens
  <2>12. z.id = id
    BY <2>10 DEF OpenedStep
  <2> QED
    BY <2>2, <2>3, <2>7, <2>11, <2>12
<1>7. ASSUME r.kind = "call", p.steps = <<>>
      PROVE  Len(q.steps) = 1 /\ q.steps[1].id = X!Ordinal(0)
  <2>1. q = X!OnCall(p, r)
    BY <1>1, <1>5, <1>7, CodexTakes
  <2>2. PICK b : b = CodexBase(p)
    OBVIOUS
  <2>3. PICK z : z = OpenedStep(X!Ordinal(0))
    OBVIOUS
  <2>4. Len(p.steps) = 0
    BY <1>7
  <2>5. b = X!OpenStep(p, X!Ordinal(0))
    BY <1>2, <2>2, <2>4 DEF CodexBase
  <2>6. z \in Step /\ b.steps = Append(p.steps, z)
    <3>1. PICK id : id = X!Ordinal(0)
      OBVIOUS
    <3>2. id \in Name /\ b = X!OpenStep(p, id) /\ z = OpenedStep(id)
      BY <2>3, <2>5, <3>1, CodexNames
    <3> QED
      BY <1>2, <3>2, CodexOpens
  <2>7. Len(b.steps) = 1 /\ b.steps[1] = z
    BY <1>7, <2>6
  <2>8. z.id = X!Ordinal(0)
    BY <2>3 DEF OpenedStep
  <2>9. PICK l : l = Len(b.steps)
    OBVIOUS
  <2>10. Only(b.steps, q.steps, l)
    BY <1>1, <1>2, <2>1, <2>2, <2>9, CodexCalls
  <2> QED
    BY <2>7, <2>8, <2>9, <2>10 DEF Only
<1>8. ASSUME r.kind = "call", p.steps # <<>> PROVE SameNames(p.steps, q.steps)
  <2>1. Assisted(p.steps, q.steps, 0)
    BY <1>4, <1>8 DEF CodexEffect
  <2>2. LastOnly(p.steps, q.steps)
    BY <1>8, <2>1 DEF Assisted
  <2> QED
    BY <2>2 DEF LastOnly, Only, SameNames
<1>9. ASSUME r.kind \notin {"started", "call"} PROVE SameNames(p.steps, q.steps)
  <2>1. Stays(p.steps, q.steps)
    BY <1>4, <1>9 DEF CodexEffect
  <2> QED
    BY <2>1 DEF Stays, Touched, LastOnly, Only, SameNames
<1> QED
  BY <1>6, <1>7, <1>8, <1>9 DEF r

\* A call comes before the first task_started, and opens a step of its own.
Early(recs) ==
    \E c \in 1 .. Len(recs) : recs[c].kind = "call" /\ \A s \in 1 .. c - 1 : recs[s].kind # "started"

Shift(recs) == IF Early(recs) THEN 1 ELSE 0

StartName(recs, w, j) ==
    IF recs[w[j]].id = 0 THEN X!Ordinal(j + Shift(recs) - 1) ELSE X!Native(recs[w[j]].id)

\* The steps are those of the task_starteds at the places w, after the one of an early call.
CodexNamed(recs, steps, w) ==
    /\ steps = <<>> => w = <<>>
    /\ steps # <<>> =>
         /\ Len(steps) = Len(w) + Shift(recs)
         /\ Early(recs) => steps[1].id = X!Ordinal(0)
         /\ \A j \in 1 .. Len(w) : steps[j + Shift(recs)].id = StartName(recs, w, j)

StartPlaces(recs) == {i \in DOMAIN recs : recs[i].kind = "started"}
NextStarts(recs, n, w) == IF n + 1 \in StartPlaces(recs) THEN Append(w, n + 1) ELSE w

\* One record more of a Codex rollout names the next step by the turn that it
\* starts, or names none.
LEMMA CodexNamedNext ==
    ASSUME NEW recs, CodexWritten(recs), NEW n \in Nat, n + 1 <= Len(recs),
           NEW p, CodexSound(recs, n, p), CodexCounted(recs, n, p), NEW q, q = X!Take(p, recs[n + 1]),
           NEW w \in Seq(Nat), CodexNamed(recs, p.steps, w),
           NEW v, v = NextStarts(recs, n, w)
    PROVE  CodexNamed(recs, q.steps, v)
<1>1. recs \in Seq(CodexRecord) /\ Len(recs) \in Nat /\ DOMAIN recs = 1 .. Len(recs)
  BY DEF CodexWritten
<1>2. n + 1 \in 1 .. Len(recs) /\ (n + 1 \in StartPlaces(recs) <=> recs[n + 1].kind = "started")
  BY <1>1 DEF StartPlaces
<1>11. v = IF n + 1 \in StartPlaces(recs) THEN Append(w, n + 1) ELSE w
  BY DEF NextStarts
<1>3. p.steps \in Seq(Step) /\ Len(p.steps) \in Nat /\ Len(w) \in Nat
  BY CodexFields DEF CodexSound
<1>4. PICK k : k = Shift(recs)
  OBVIOUS
<1>5. k \in {0, 1} /\ (k = 1 <=> Early(recs))
  BY <1>4 DEF Shift
<1>6. p.steps = <<>> => \A j \in 1 .. n : recs[j].kind # "started" /\ recs[j].kind # "call"
  BY DEF CodexCounted, Closed, Opener
<1>7. CASE recs[n + 1].kind = "started"
  <2>1. PICK c : c = X!CloseStep(p).steps
    OBVIOUS
  <2>2. PICK z \in Step : /\ q.steps = Append(c, z)
                          /\ z.id = IF recs[n + 1].id = 0 THEN X!Ordinal(Len(p.steps))
                                    ELSE X!Native(recs[n + 1].id)
    <3>1. \E z \in Step : /\ q.steps = Append(X!CloseStep(p).steps, z)
                         /\ z.id = IF recs[n + 1].id = 0 THEN X!Ordinal(Len(p.steps))
                                   ELSE X!Native(recs[n + 1].id)
      BY <1>7, CodexNaming
    <3> QED
      BY <2>1, <3>1, Zenon
  <2>3. c \in Seq(Step) /\ SameNames(p.steps, c)
    <3>1. PICK e : e = X!CloseStep(p)
      OBVIOUS
    <3>2. /\ e \in CodexState
          /\ p.steps = <<>> => e.steps = <<>>
          /\ p.steps # <<>> => Only(p.steps, e.steps, Len(p.steps))
      BY <3>1, CodexClosed
    <3>3. SameNames(p.steps, e.steps)
      BY <3>2 DEF SameNames, Only
    <3> QED
      BY <2>1, <3>1, <3>2, <3>3, CodexFields
  <2>4. PICK s, t : s = p.steps /\ t = q.steps
    OBVIOUS
  <2>5. /\ Len(t) = Len(s) + 1 /\ t[Len(s) + 1] = z
        /\ \A i \in 1 .. Len(s) : t[i].id = s[i].id
    <3>1. Len(t) = Len(c) + 1 /\ t[Len(c) + 1] = z /\ \A i \in 1 .. Len(c) : t[i] = c[i]
      BY <2>2, <2>3, <2>4, Appended
    <3> QED
      BY <2>3, <2>4, <3>1 DEF SameNames
  <2>6. Len(v) = Len(w) + 1 /\ v[Len(w) + 1] = n + 1 /\ \A i \in 1 .. Len(w) : v[i] = w[i]
    <3>1. v = Append(w, n + 1) /\ n + 1 \in Nat
      BY <1>2, <1>7, <1>11
    <3> QED
      BY <3>1, OneAppended
  <2>7. Len(s) = Len(w) + k
    <3>1. CASE s = <<>>
      <4>1. ~Early(recs)
        <5> SUFFICES ASSUME NEW d \in 1 .. Len(recs), recs[d].kind = "call",
                            \A i \in 1 .. d - 1 : recs[i].kind # "started"
                     PROVE  FALSE
          BY DEF Early
        <5>1. d \notin 1 .. n
          BY <1>6, <2>4, <3>1
        <5>2. d # n + 1
          BY <1>7
        <5>3. n + 1 \in 1 .. d - 1
          BY <1>1, <5>1, <5>2
        <5> QED
          BY <1>7, <5>3
      <4>2. w = <<>>
        BY <2>4, <3>1 DEF CodexNamed
      <4> QED
        BY <1>5, <3>1, <4>1, <4>2
    <3>2. CASE s # <<>>
      BY <1>4, <2>4, <3>2 DEF CodexNamed
    <3> QED
      BY <3>1, <3>2
  <2>8. t # <<>>
    BY <1>3, <2>4, <2>5
  <2>9. Len(t) = Len(v) + k
    BY <1>3, <1>5, <2>5, <2>6, <2>7
  <2>10. ASSUME Early(recs) PROVE t[1].id = X!Ordinal(0)
    <3>1. k = 1 /\ 1 \in 1 .. Len(s) /\ s # <<>>
      BY <1>3, <1>5, <2>7, <2>10
    <3>2. s[1].id = X!Ordinal(0)
      BY <2>4, <2>10, <3>1 DEF CodexNamed
    <3> QED
      BY <2>5, <3>1, <3>2
  <2>11. ASSUME NEW j \in 1 .. Len(v) PROVE t[j + k].id = StartName(recs, v, j)
    <3>1. CASE j = Len(w) + 1
      <4>1. j + k = Len(s) + 1 /\ v[j] = n + 1 /\ j + k - 1 = Len(s)
        BY <1>3, <1>5, <2>4, <2>6, <2>7, <3>1
      <4>2. t[j + k].id = IF recs[v[j]].id = 0 THEN X!Ordinal(j + k - 1) ELSE X!Native(recs[v[j]].id)
        BY <2>2, <2>4, <2>5, <4>1
      <4> QED
        BY <1>4, <4>2 DEF StartName
    <3>2. CASE j # Len(w) + 1
      <4>1. j \in 1 .. Len(w) /\ j + k \in 1 .. Len(s) /\ v[j] = w[j]
        BY <1>3, <1>5, <2>4, <2>6, <2>7, <3>2
      <4>2. s # <<>>
        BY <4>1
      <4>3. s[j + k].id = StartName(recs, w, j)
        BY <1>4, <2>4, <4>1, <4>2 DEF CodexNamed
      <4>4. StartName(recs, w, j) = StartName(recs, v, j)
        BY <4>1 DEF StartName
      <4> QED
        BY <2>5, <4>1, <4>3, <4>4
    <3> QED
      BY <3>1, <3>2
  <2> QED
    BY <1>4, <2>4, <2>8, <2>9, <2>10, <2>11 DEF CodexNamed
<1>8. CASE recs[n + 1].kind = "call" /\ p.steps = <<>>
  <2>1. Len(q.steps) = 1 /\ q.steps[1].id = X!Ordinal(0) /\ q.steps # <<>>
    <3>1. Len(q.steps) = 1 /\ q.steps[1].id = X!Ordinal(0)
      BY <1>8, CodexNaming
    <3>2. q.steps # <<>>
      BY <3>1
    <3> QED
      BY <3>1, <3>2
  <2>2. v = w /\ w = <<>>
    BY <1>2, <1>8, <1>11 DEF CodexNamed
  <2>3. Early(recs)
    <3>1. PICK c \in 1 .. Len(recs) : c = n + 1
      BY <1>2
    <3>2. recs[c].kind = "call"
      BY <1>8, <3>1
    <3>3. \A i \in 1 .. c - 1 : i \in 1 .. n
      BY <3>1
    <3>4. \A i \in 1 .. n : recs[i].kind # "started"
      BY <1>6, <1>8
    <3>5. \A i \in 1 .. c - 1 : recs[i].kind # "started"
      BY <3>3, <3>4
    <3> QED
      BY <3>2, <3>5 DEF Early
  <2>4. Len(v) = 0 /\ k = 1
    BY <1>5, <2>2, <2>3
  <2> QED
    BY <1>4, <2>1, <2>3, <2>4 DEF CodexNamed
<1>9. CASE recs[n + 1].kind # "started" /\ SameNames(p.steps, q.steps)
  <2>1. v = w
    BY <1>2, <1>9, <1>11
  <2>2. q.steps \in Seq(Step)
    <3>1. CodexSound(recs, n + 1, q)
      BY CodexNext
    <3> QED
      BY <3>1, CodexFields DEF CodexSound
  <2>3. PICK s, t : s = p.steps /\ t = q.steps
    OBVIOUS
  <2>4. Len(t) = Len(s) /\ (\A i \in 1 .. Len(s) : t[i].id = s[i].id) /\ (s = <<>> <=> t = <<>>)
    BY <1>3, <1>9, <2>2, <2>3 DEF SameNames
  <2>5. CASE t = <<>>
    BY <2>1, <2>3, <2>4, <2>5 DEF CodexNamed
  <2>6. CASE t # <<>>
    <3>1. /\ Len(s) = Len(w) + k /\ (Early(recs) => s[1].id = X!Ordinal(0))
          /\ \A j \in 1 .. Len(w) : s[j + k].id = StartName(recs, w, j)
      BY <1>4, <2>3, <2>4, <2>6 DEF CodexNamed
    <3>2. 1 \in 1 .. Len(s) /\ \A j \in 1 .. Len(w) : j + k \in 1 .. Len(s)
      <4>1. Len(s) # 0
        BY <1>3, <2>3, <2>4, <2>6
      <4> QED
        BY <1>3, <1>5, <2>3, <3>1, <4>1
    <3>3. /\ Len(t) = Len(v) + k /\ (Early(recs) => t[1].id = X!Ordinal(0))
          /\ \A j \in 1 .. Len(v) : t[j + k].id = StartName(recs, v, j)
      BY <2>1, <2>4, <3>1, <3>2
    <3> QED
      BY <1>4, <2>3, <2>6, <3>3 DEF CodexNamed
  <2> QED
    BY <2>5, <2>6
<1>10. recs[n + 1].kind \notin {"started", "call"} \/ recs[n + 1].kind \in {"started", "call"}
  OBVIOUS
<1> QED
  BY <1>7, <1>8, <1>9, <1>10, CodexNaming

\* The places of the task_starteds, record by record, as codex_steps lists them.
LEMMA CodexStartsRun ==
    ASSUME NEW recs, CodexWritten(recs)
    PROVE  \E u : /\ u[Len(recs)] = X!Starts(recs)
                  /\ \A n \in 0 .. Len(recs) : Orderly(u[n], n, StartPlaces(recs))
                  /\ \A n \in 0 .. Len(recs) : n # Len(recs) =>
                       u[n + 1] = NextStarts(recs, n, u[n])
                  /\ \A m, n \in 0 .. Len(recs) : m <= n => Begins(u[m], u[n])
                  /\ u[0] = <<>>
<1>1. PICK N \in Nat : N = Len(recs)
  BY DEF CodexWritten
<1>2. PICK seq : seq = [i \in DOMAIN recs |-> i]
  OBVIOUS
<1>3. DOMAIN recs = 1 .. N
  BY <1>1 DEF CodexWritten
<1>4. seq \in Seq(Nat) /\ Len(seq) = N /\ \A i \in 1 .. N : seq[i] = i
  BY <1>2, <1>3
<1>5. PICK places : places = StartPlaces(recs)
  OBVIOUS
<1>6. PICK u : IsSelection(u, seq, places) /\ Selection(seq, places) = u[N]
  <2>1. Len(seq) \in Nat
    BY <1>4
  <2> QED
    BY <1>4, <2>1, SelectionIs
<1>7. X!Starts(recs) = Selection(seq, places)
  BY <1>2, <1>5, Zenon DEF X!Starts, X!Selection, Selection, StartPlaces
<1>8. /\ \A n \in 0 .. N : Orderly(u[n], n, places)
      /\ \A n \in 0 .. N : n # N => u[n + 1] = IF n + 1 \in places THEN Append(u[n], n + 1) ELSE u[n]
  BY <1>4, <1>6, PlacesOrderly
<1>9. \A m, n \in 0 .. N : m <= n => Begins(u[m], u[n])
  BY <1>4, <1>6, SelectionGrows
<1>10. u[0] = <<>>
  <2>1. Len(seq) \in Nat
    BY <1>4
  <2>2. IsSelection(u, seq, places)
    BY <1>6
  <2>3. 0 \in 0 .. Len(seq)
    BY <2>1
  <2> QED
    BY <2>2, <2>3 DEF IsSelection
<1> QED
  BY <1>1, <1>5, <1>6, <1>7, <1>8, <1>9, <1>10 DEF NextStarts

\* Every step has the name of its task_started, all along the transcript.
LEMMA CodexRunNamed ==
    ASSUME NEW recs, CodexWritten(recs), NEW a, IsCodexRun(a, recs), NEW u,
           \A n \in 0 .. Len(recs) : Orderly(u[n], n, StartPlaces(recs)),
           \A n \in 0 .. Len(recs) : n # Len(recs) =>
             u[n + 1] = NextStarts(recs, n, u[n]),
           u[0] = <<>>
    PROVE  \A n \in 0 .. Len(recs) : CodexNamed(recs, a[n].steps, u[n])
<1> DEFINE N == Len(recs)
           T == {n \in 0 .. N : CodexNamed(recs, a[n].steps, u[n])}
<1>1. N \in Nat
  BY DEF CodexWritten
<1>2. \A i \in 0 .. N : CodexSound(recs, i, a[i]) /\ CodexCounted(recs, i, a[i])
  BY CodexRunSound
<1>3. 0 \in T
  <2>1. a[0] = X!Empty
    BY <1>1 DEF IsCodexRun
  <2>2. a[0].steps = <<>>
    BY <2>1, CodexEmptyState
  <2>3. CodexNamed(recs, <<>>, <<>>)
    BY DEF CodexNamed
  <2> QED
    BY <1>1, <2>2, <2>3
<1>4. ASSUME NEW k \in 0 .. N, k # N, k \in T PROVE k + 1 \in T
  <2>1. k \in Nat /\ k + 1 \in 0 .. N /\ k + 1 <= Len(recs) /\ k + 1 # 0 /\ k + 1 - 1 = k
    BY <1>1, <1>4
  <2>2. a[k + 1] = X!Take(a[k], recs[k + 1])
    BY <2>1 DEF IsCodexRun
  <2>3. CodexNamed(recs, a[k].steps, u[k]) /\ CodexSound(recs, k, a[k]) /\ CodexCounted(recs, k, a[k])
    BY <1>2, <1>4
  <2>4. u[k] \in Seq(Nat)
    <3>1. Orderly(u[k], k, StartPlaces(recs))
      BY <1>4
    <3> QED
      BY <3>1 DEF Orderly
  <2>5. u[k + 1] = NextStarts(recs, k, u[k])
    BY <1>4
  <2>6. CodexNamed(recs, a[k + 1].steps, u[k + 1])
    <3>1. PICK p, q, v, w : p = a[k] /\ q = a[k + 1] /\ v = u[k + 1] /\ w = u[k]
      OBVIOUS
    <3>2. CodexSound(recs, k, p) /\ CodexCounted(recs, k, p) /\ q = X!Take(p, recs[k + 1])
      BY <2>2, <2>3, <3>1
    <3>3. /\ w \in Seq(Nat) /\ CodexNamed(recs, p.steps, w)
          /\ v = NextStarts(recs, k, w)
      BY <2>3, <2>4, <2>5, <3>1
    <3>4. k \in Nat /\ k + 1 <= Len(recs) /\ CodexWritten(recs)
      BY <2>1
    <3>5. CodexNamed(recs, q.steps, v)
      BY <3>2, <3>3, <3>4, CodexNamedNext
    <3> QED
      BY <3>1, <3>5
  <2> QED
    BY <2>1, <2>6
<1> HIDE DEF T
<1>5. \A n \in 0 .. N : n \in T
  <2> HIDE DEF N
  <2> QED
    BY <1>1, <1>3, <1>4, UpTo
<1> QED
  BY <1>5 DEF T

\* The cut of a fork is right before the task_started that follows the target: as many
\* task_starteds come before it as the number of the target.
LEMMA CodexCut ==
    ASSUME NEW N \in Nat, NEW places, NEW S, Orderly(S, N, places), NEW t \in 1 .. Len(S),
           NEW m, m = IF t = Len(S) THEN N ELSE S[t + 1] - 1, NEW w, m \in 0 .. N => Orderly(w, m, places) /\ Begins(w, S)
    PROVE  m \in 0 .. N /\ S[t] <= m /\ Len(w) = t /\ (m # N => m + 1 \in places /\ t # Len(S))
<1>1. /\ S \in Seq(Nat) /\ Len(S) \in Nat /\ \A j \in 1 .. Len(S) : S[j] \in places /\ S[j] \in 1 .. N
      /\ \A i, j \in 1 .. Len(S) : i < j => S[i] < S[j]
  BY DEF Orderly
<1>2. m \in 0 .. N /\ S[t] <= m /\ (t # Len(S) => t + 1 \in 1 .. Len(S) /\ S[t + 1] = m + 1)
  <2>1. CASE t = Len(S)
    BY <1>1, <2>1
  <2>2. CASE t # Len(S)
    <3>1. t + 1 \in 1 .. Len(S) /\ t < t + 1
      BY <1>1, <2>2
    <3>2. S[t] < S[t + 1] /\ S[t] \in 1 .. N /\ S[t + 1] \in 1 .. N
      BY <1>1, <3>1
    <3>3. m = S[t + 1] - 1
      BY <2>2
    <3> QED
      BY <3>1, <3>2, <3>3
  <2> QED
    BY <2>1, <2>2
<1>3. /\ w \in Seq(Nat) /\ Len(w) \in Nat /\ \A j \in 1 .. Len(w) : w[j] \in 1 .. m
      /\ \A x \in 1 .. m : x \in places => \E j \in 1 .. Len(w) : w[j] = x
      /\ Len(w) <= Len(S) /\ \A j \in 1 .. Len(w) : S[j] = w[j]
  BY <1>2 DEF Orderly, Begins
<1>4. t <= Len(w)
  <2>1. S[t] \in 1 .. m /\ S[t] \in places
    BY <1>1, <1>2
  <2>2. PICK j \in 1 .. Len(w) : w[j] = S[t]
    BY <1>3, <2>1
  <2>3. j \in 1 .. Len(S) /\ S[j] = S[t]
    BY <1>1, <1>3, <2>2
  <2>4. ~(j < t)
    BY <1>1, <2>1, <2>3
  <2> QED
    BY <1>3, <2>2, <2>4
<1>5. Len(w) <= t
  <2>1. CASE t = Len(S)
    BY <1>3, <2>1
  <2>2. CASE t # Len(S)
    <3> SUFFICES ASSUME ~(Len(w) <= t) PROVE FALSE
      OBVIOUS
    <3>1. t + 1 \in 1 .. Len(w)
      BY <1>3
    <3>2. w[t + 1] = m + 1 /\ w[t + 1] \in 1 .. m
      BY <1>2, <1>3, <2>2, <3>1
    <3> QED
      BY <1>2, <3>2
  <2> QED
    BY <2>1, <2>2
<1>6. m # N => m + 1 \in places /\ t # Len(S)
  BY <1>1, <1>2
<1> QED
  BY <1>2, <1>3, <1>4, <1>5, <1>6

\* A fork of Codex is as long as the steps up to its target.
LEMMA CodexTarget ==
    ASSUME NEW recs, CodexWritten(recs), NEW S, S = X!Starts(recs), Orderly(S, Len(recs), StartPlaces(recs)),
           NEW id, X!CanFork(recs, id), id.by = "native" \/ ~Early(recs),
           NEW t, t = C!First(X!Targets(recs, id), 0),
           NEW before, CodexNamed(recs, before, S), Len(before) \in Nat,
           NEW last \in 1 .. Len(before), before[last].id = id
    PROVE  t \in 1 .. Len(S) /\ last = t + Shift(recs)
<1>1. /\ S \in Seq(Nat) /\ Len(S) \in Nat /\ DOMAIN S = 1 .. Len(S)
      /\ \A j \in 1 .. Len(S) : S[j] \in StartPlaces(recs) /\ S[j] \in 1 .. Len(recs)
      /\ \A i, j \in 1 .. Len(S) : i < j => S[i] < S[j]
  BY DEF Orderly
<1>2. \A j \in 1 .. Len(S) : recs[S[j]].id # 0 => recs[S[j]].id = S[j]
  <2> SUFFICES ASSUME NEW j \in 1 .. Len(S), recs[S[j]].id # 0 PROVE recs[S[j]].id = S[j]
    OBVIOUS
  <2>1. PICK i \in 1 .. Len(recs) : i = S[j]
    BY <1>1
  <2>2. recs[i].kind = "started" /\ recs[i].id # 0
    BY <1>1, <2>1 DEF StartPlaces
  <2>3. recs[i].id \in {0, i}
    BY <2>2 DEF CodexWritten
  <2> QED
    BY <2>1, <2>2, <2>3
<1>3. t \in 1 .. Len(S) /\ id \in X!Names(recs, S, t)
  <2>1. X!Targets(recs, id) = {n \in 1 .. Len(S) : id \in X!Names(recs, S, n)}
    BY <1>1 DEF X!Targets
  <2>2. X!Targets(recs, id) # {}
    BY DEF X!CanFork
  <2>3. t \in X!Targets(recs, id)
    <3>1. PICK P : P = X!Targets(recs, id)
      OBVIOUS
    <3>2. P \subseteq 1 .. Len(S) /\ P # {} /\ t = C!First(P, 0)
      BY <2>1, <2>2, <3>1
    <3> QED
      BY <1>1, <3>1, <3>2, FirstIs
  <2> QED
    BY <2>1, <2>3
<1>4. id = X!Ordinal(t - 1) \/ (recs[S[t]].id = S[t] /\ S[t] # 0 /\ id = X!Native(S[t]))
  <2>1. id = X!Ordinal(t - 1) \/ (recs[S[t]].id # 0 /\ id = X!Native(recs[S[t]].id))
    BY <1>3 DEF X!Names
  <2> QED
    BY <1>2, <1>3, <2>1
<1>5. PICK k : k = Shift(recs)
  OBVIOUS
<1>6. k \in {0, 1} /\ (k = 1 <=> Early(recs))
  BY <1>5 DEF Shift
<1>7. before # <<>>
  OBVIOUS
<1>8. /\ Len(before) = Len(S) + k /\ (Early(recs) => before[1].id = X!Ordinal(0))
      /\ \A j \in 1 .. Len(S) : before[j + k].id = StartName(recs, S, j)
  BY <1>5, <1>7 DEF CodexNamed
<1>9. \A x : X!Ordinal(x).by = "ordinal" /\ X!Native(x).by = "native" /\ X!Ordinal(x).n = x /\ X!Native(x).n = x
  BY DEF X!Ordinal, X!Native
<1>10. last - k \in 1 .. Len(S)
  <2>1. CASE last = 1 /\ k = 1
    <3>1. id = X!Ordinal(0) /\ Early(recs)
      BY <1>6, <1>8, <2>1
    <3>2. id.by = "ordinal"
      BY <1>9, <3>1
    <3> QED
      BY <3>1, <3>2
  <2>2. CASE ~(last = 1 /\ k = 1)
    BY <1>1, <1>6, <1>8, <2>2
  <2> QED
    BY <2>1, <2>2
<1>11. PICK j \in 1 .. Len(S) : j = last - k
  BY <1>10
<1>12. last = j + k
  BY <1>6, <1>11
<1>13. id = IF recs[S[j]].id = 0 THEN X!Ordinal(j + k - 1) ELSE X!Native(recs[S[j]].id)
  BY <1>5, <1>8, <1>12 DEF StartName
<1>14. j = t
  <2>1. CASE id.by = "ordinal"
    <3>1. id = X!Ordinal(t - 1) /\ k = 0
      BY <1>4, <1>6, <1>9, <2>1
    <3>2. id = X!Ordinal(j + k - 1)
      BY <1>9, <1>13, <2>1
    <3>3. id.n = t - 1 /\ id.n = j + k - 1
      <4>1. id.n = t - 1
        BY <1>9, <3>1
      <4>2. id.n = j + k - 1
        BY <1>9, <3>2
      <4> QED
        BY <4>1, <4>2
    <3> QED
      BY <1>1, <1>3, <3>1, <3>3
  <2>2. CASE id.by # "ordinal"
    <3>1. id = X!Native(S[t])
      BY <1>4, <1>9, <2>2
    <3>2. recs[S[j]].id # 0 /\ id = X!Native(recs[S[j]].id)
      BY <1>9, <1>13, <2>2
    <3>3. id.n = S[t] /\ id.n = S[j]
      BY <1>2, <1>9, <3>1, <3>2
    <3>4. S[t] \in Nat /\ S[j] \in Nat /\ S[t] = S[j]
      BY <1>1, <1>3, <3>3
    <3>5. ~(j < t) /\ ~(t < j)
      BY <1>1, <1>3, <3>4
    <3> QED
      BY <1>1, <1>3, <3>5
  <2> QED
    BY <2>1, <2>2
<1> QED
  BY <1>3, <1>5, <1>12, <1>14

\* fork_codex_at_step: the cut is before the task_started that follows the target.
LEMMA CodexForkEnds ==
    ASSUME NEW recs, CodexWritten(recs), NEW id, X!CanFork(recs, id), id.by = "native" \/ ~Early(recs),
           NEW before, before = X!Parse(recs).steps, \E i \in 1 .. Len(before) : before[i].id = id
    PROVE  EndsAt(recs, id, before, X!Parse(X!ForkAt(recs, id)).steps)
<1>1. PICK N \in Nat : N = Len(recs)
  BY DEF CodexWritten
<1>2. recs \in Seq(CodexRecord) /\ DOMAIN recs = 1 .. N
  BY <1>1 DEF CodexWritten
<1>3. PICK S : S = X!Starts(recs)
  OBVIOUS
<1>4. PICK u : /\ u[N] = S
               /\ \A n \in 0 .. N : Orderly(u[n], n, StartPlaces(recs))
               /\ \A n \in 0 .. N : n # N => u[n + 1] = NextStarts(recs, n, u[n])
               /\ \A m, n \in 0 .. N : m <= n => Begins(u[m], u[n])
               /\ u[0] = <<>>
  BY <1>1, <1>3, CodexStartsRun
<1>5. PICK a : IsCodexRun(a, recs) /\ X!Parse(recs) = X!CloseStep(a[N])
  BY <1>1, CodexParses
<1>6. \A n \in 0 .. N : CodexNamed(recs, a[n].steps, u[n])
  BY <1>1, <1>4, <1>5, CodexRunNamed
<1>7. \A n \in 0 .. N : CodexSound(recs, n, a[n])
  BY <1>1, <1>5, CodexRunSound
<1>8. N \in 0 .. N /\ Orderly(S, N, StartPlaces(recs))
  <2>1. N \in 0 .. N
    OBVIOUS
  <2> QED
    BY <1>4, <2>1
\* What the end of a step leaves of the names.
<1>9. ASSUME NEW n \in 0 .. N
      PROVE  /\ X!CloseStep(a[n]).steps \in Seq(Step) /\ a[n].steps \in Seq(Step)
             /\ SameNames(a[n].steps, X!CloseStep(a[n]).steps)
             /\ \A s \in Seq(Step) : Grows(s, a[n].steps) => Grows(s, X!CloseStep(a[n]).steps)
  <2>1. PICK p, c : p = a[n] /\ c = X!CloseStep(p)
    OBVIOUS
  <2>2. CodexSound(recs, n, p)
    BY <1>7, <2>1
  <2>3. /\ c \in CodexState
        /\ p.steps = <<>> => c.steps = <<>>
        /\ p.steps # <<>> => Only(p.steps, c.steps, Len(p.steps)) /\ LastOnly(p.steps, c.steps)
    BY <2>1, <2>2, CodexClosed
  <2>4. p.steps \in Seq(Step) /\ c.steps \in Seq(Step)
    BY <2>2, <2>3, CodexFields DEF CodexSound
  <2>5. SameNames(p.steps, c.steps)
    BY <2>3 DEF Only, SameNames
  <2>6. ASSUME NEW s \in Seq(Step), Grows(s, p.steps) PROVE Grows(s, c.steps)
    BY <2>3, <2>4, <2>6, GrowsLast
  <2> QED
    BY <2>1, <2>4, <2>5, <2>6
<1>10. before = X!CloseStep(a[N]).steps /\ before \in Seq(Step) /\ Len(before) \in Nat
  BY <1>5, <1>8, <1>9
<1>11. CodexNamed(recs, before, S)
  <2>1. PICK s : s = a[N].steps
    OBVIOUS
  <2>2. CodexNamed(recs, s, S) /\ SameNames(s, before) /\ s \in Seq(Step)
    BY <1>4, <1>6, <1>8, <1>9, <1>10, <2>1
  <2>3. Len(s) = Len(before) /\ (s = <<>> <=> before = <<>>) /\ \A i \in 1 .. Len(s) : s[i].id = before[i].id
    BY <1>10, <2>2 DEF SameNames
  <2>4. CASE before = <<>>
    BY <2>2, <2>3, <2>4 DEF CodexNamed
  <2>5. CASE before # <<>>
    <3>1. PICK k : k = Shift(recs)
      OBVIOUS
    <3>2. k \in {0, 1}
      BY <3>1 DEF Shift
    <3>3. /\ Len(s) = Len(S) + k /\ (Early(recs) => s[1].id = X!Ordinal(0))
          /\ \A j \in 1 .. Len(S) : s[j + k].id = StartName(recs, S, j)
      BY <2>2, <2>3, <2>5, <3>1 DEF CodexNamed
    <3>4. Len(S) \in Nat
      BY <1>8 DEF Orderly
    <3>5. 1 \in 1 .. Len(s) /\ \A j \in 1 .. Len(S) : j + k \in 1 .. Len(s)
      <4>1. Len(s) # 0
        BY <2>2, <2>3, <2>5
      <4> QED
        BY <2>2, <3>2, <3>3, <3>4, <4>1
    <3>6. /\ Len(before) = Len(S) + k /\ (Early(recs) => before[1].id = X!Ordinal(0))
          /\ \A j \in 1 .. Len(S) : before[j + k].id = StartName(recs, S, j)
      BY <2>3, <3>3, <3>5
    <3> QED
      BY <2>5, <3>1, <3>6 DEF CodexNamed
  <2> QED
    BY <2>4, <2>5
<1>12. PICK t : t = C!First(X!Targets(recs, id), 0)
  OBVIOUS
<1>13. \A last \in 1 .. Len(before) : before[last].id = id => t \in 1 .. Len(S) /\ last = t + Shift(recs)
  <2>1. Orderly(S, Len(recs), StartPlaces(recs))
    BY <1>1, <1>8
  <2> QED
    BY <1>3, <1>10, <1>11, <1>12, <2>1, CodexTarget
<1>14. t \in 1 .. Len(S)
  BY <1>13
<1>15. PICK m : m = IF t = Len(S) THEN N ELSE S[t + 1] - 1
  OBVIOUS
<1>16. m \in 0 .. N /\ S[t] <= m /\ Len(u[m]) = t /\ (m # N => m + 1 \in StartPlaces(recs))
  <2>1. m \in 0 .. N => Orderly(u[m], m, StartPlaces(recs)) /\ Begins(u[m], S)
    <3> HAVE m \in 0 .. N
    <3>1. m <= N
      OBVIOUS
    <3> QED
      BY <1>4, <1>8, <3>1
  <2>2. PICK w, places : w = u[m] /\ places = StartPlaces(recs)
    OBVIOUS
  <2>3. Orderly(S, N, places) /\ (m \in 0 .. N => Orderly(w, m, places) /\ Begins(w, S))
    BY <1>8, <2>1, <2>2
  <2>4. m \in 0 .. N /\ S[t] <= m /\ Len(w) = t /\ (m # N => m + 1 \in places /\ t # Len(S))
    BY <1>14, <1>15, <2>3, CodexCut
  <2> QED
    BY <2>2, <2>4
<1>17. PICK after : after = X!CloseStep(a[m]).steps
  OBVIOUS
<1>18. X!Parse(X!ForkAt(recs, id)).steps = after
  <2>1. PICK pre : pre = SubSeq(recs, 1, m)
    OBVIOUS
  <2>2. pre \in Seq(CodexRecord) /\ Len(pre) = m /\ \A i \in 1 .. m : recs[i] = pre[i]
    <3>1. m \in 0 .. Len(recs)
      BY <1>1, <1>16
    <3> QED
      BY <1>2, <2>1, <3>1
  <2>3. X!ForkAt(recs, id) = pre
    <3>1. t = X!First(X!Targets(recs, id), 0)
      BY <1>12, Zenon DEF C!First, X!First
    <3> QED
      BY <1>1, <1>3, <1>15, <2>1, <3>1 DEF X!ForkAt
  <2>4. m \in Nat
    BY <1>16
  <2>5. PICK b : IsCodexRun(b, pre) /\ X!Parse(pre) = X!CloseStep(b[m])
    BY <2>2, <2>4, CodexParses
  <2>6. a[m] = b[m]
    <3>1. m <= Len(recs) /\ m <= Len(pre) /\ Len(pre) \in Nat /\ Len(recs) \in Nat
      BY <1>1, <1>16, <2>2, <2>4
    <3>2. IsCodexRun(a, recs) /\ IsCodexRun(b, pre) /\ \A i \in 1 .. m : recs[i] = pre[i]
      BY <1>5, <2>2, <2>5
    <3> QED
      BY <2>4, <3>1, <3>2, CodexRunUnique
  <2> QED
    BY <1>17, <2>3, <2>5, <2>6
<1>19. after \in Seq(Step) /\ Len(after) \in Nat /\ Len(after) = t + Shift(recs)
  <2>1. PICK s, w : s = a[m].steps /\ w = u[m]
    OBVIOUS
  <2>2. after \in Seq(Step) /\ SameNames(s, after) /\ CodexNamed(recs, s, w) /\ Len(w) = t
    BY <1>6, <1>9, <1>16, <1>17, <2>1
  <2>3. s # <<>>
    <3>1. Len(w) # 0
      BY <1>14, <2>2
    <3>2. w # <<>>
      BY <3>1
    <3> QED
      BY <2>2, <3>2 DEF CodexNamed
  <2>4. Len(s) = t + Shift(recs)
    BY <2>2, <2>3 DEF CodexNamed
  <2> QED
    BY <2>2, <2>4 DEF SameNames
<1>20. Beginning(after, before)
  <2>1. CASE m = N
    BY <1>10, <1>17, <2>1, BeginningSame
  <2>2. CASE m # N
    <3>1. /\ m \in Nat /\ m + 1 \in 0 .. N /\ m + 1 <= Len(recs) /\ m + 1 # 0 /\ m + 1 - 1 = m
      BY <1>1, <1>16, <2>2
    <3>2. a[m + 1] = X!Take(a[m], recs[m + 1])
      <4>1. IsCodexRun(a, recs) /\ m + 1 \in 0 .. Len(recs)
        BY <1>1, <1>5, <3>1
      <4> QED
        BY <3>1, <4>1 DEF IsCodexRun
    <3>3. recs[m + 1].kind = "started"
      BY <1>16, <2>2 DEF StartPlaces
    <3>4. PICK p, q : p = a[m] /\ q = a[m + 1]
      OBVIOUS
    <3>5. CodexSound(recs, m, p) /\ q = X!Take(p, recs[m + 1])
      BY <1>7, <1>16, <3>2, <3>4
    <3>6. PICK z \in Step : q.steps = Append(X!CloseStep(p).steps, z)
      <4>1. CodexWritten(recs) /\ m \in Nat /\ m + 1 <= Len(recs)
        BY <3>1
      <4>2. \E z \in Step : /\ q.steps = Append(X!CloseStep(p).steps, z)
                           /\ z.id = IF recs[m + 1].id = 0 THEN X!Ordinal(Len(p.steps))
                                     ELSE X!Native(recs[m + 1].id)
        BY <3>3, <3>5, <4>1, CodexNaming
      <4> QED
        BY <4>2
    <3>7. q.steps = Append(after, z)
      BY <1>17, <3>4, <3>6
    <3>8. Grows(q.steps, a[N].steps)
      <4>1. m + 1 \in 0 .. Len(recs) /\ N \in 0 .. Len(recs) /\ m + 1 <= N
        BY <1>1, <1>8, <3>1
      <4> QED
        BY <1>5, <3>4, <4>1, CodexRunGrows
    <3>9. Grows(q.steps, before)
      BY <1>8, <1>9, <1>10, <3>1, <3>4, <3>8
    <3> QED
      BY <1>10, <1>19, <3>7, <3>9, BeginningOpened
  <2> QED
    BY <2>1, <2>2
<1>21. \A last \in 1 .. Len(before) : before[last].id = id =>
         /\ last <= Len(after)
         /\ \A i \in 1 .. Len(after) : last < i =>
              \E c \in Unseen(recs) : after[i].id = C!Native(c)
  <2> SUFFICES ASSUME NEW last \in 1 .. Len(before), before[last].id = id
               PROVE  last <= Len(after) /\ \A i \in 1 .. Len(after) : ~(last < i)
    OBVIOUS
  <2>1. last = Len(after)
    BY <1>13, <1>19
  <2> QED
    BY <1>19, <2>1
<1>22. EndsAt(recs, id, before, after)
  BY <1>10, <1>19, <1>20, <1>21, EndsAtIs
<1> QED
  BY <1>18, <1>22
-----------------------------------------------------------------------------
\* What is being written is the fork that was asked for.
Forked ==
    run.pc = "writing" /\ run.kind = "step" =>
        CanFork(run.arg) /\ run.content = ForkAt(run.arg) /\ run.arg \in StepIds

\* A fork is asked for at a step that a reader was shown, and nothing is written meanwhile.
LEMMA NextForked == IInv /\ Forked /\ [Next]_vars => Forked'
<1> SUFFICES ASSUME IInv, Forked, [Next]_vars PROVE Forked'
  OBVIOUS
<1>1. run = [pc |-> run.pc, kind |-> run.kind, arg |-> run.arg, content |-> run.content]
  BY DEF IInv, RunShape
<1>2. ASSUME run'.pc # "writing" PROVE Forked'
  BY <1>2 DEF Forked
<1>3. CASE AgentWrites
  BY <1>2, <1>3 DEF AgentWrites
<1>4. CASE \E id \in StepIds : ForkAtStep(id)
  <2>1. PICK id \in StepIds : CanFork(id) /\ Begin("step", id, ForkAt(id))
    BY <1>4 DEF ForkAtStep
  <2>2. adapter' = adapter /\ records' = records /\ run'.arg = id /\ run'.content = ForkAt(id)
    BY <2>1 DEF Begin
  <2>3. CanFork(id)' /\ ForkAt(id)' = ForkAt(id) /\ StepIds' = StepIds
    BY <2>1, <2>2 DEF CanFork, ForkAt, StepIds, Steps, Parse
  <2> QED
    BY <2>1, <2>2, <2>3 DEF Forked
<1>5. CASE \E keep \in 0 .. MaxKeep : CraftContext(keep)
  <2>1. PICK keep : Begin("craft", keep, Craft(keep))
    BY <1>5 DEF CraftContext
  <2>2. run'.kind = "craft"
    BY <2>1 DEF Begin
  <2> QED
    BY <2>2 DEF Forked
<1>6. ASSUME NEW from, NEW to, Goes(from, to), to # "writing" PROVE Forked'
  <2>1. run'.pc = to
    BY <1>1, <1>6 DEF Goes
  <2> QED
    BY <1>2, <1>6, <2>1
<1>7. CASE WriteTranscript
  BY <1>6, <1>7 DEF WriteTranscript
<1>8. CASE \/ WriteFails \/ CreateCopy \/ CreateFails \/ CopySidecars \/ CopyFails
           \/ RemoveTranscript \/ SyncFork \/ SyncFails
  BY <1>6, <1>8 DEF WriteFails, CreateCopy, CreateFails, CopySidecars, CopyFails,
                    RemoveTranscript, SyncFork, SyncFails
<1>9. CASE Killed
  <2>1. run'.pc = "down"
    BY <1>1, <1>9 DEF Killed
  <2> QED
    BY <1>2, <2>1
<1>10. CASE PowerLoss
  <2>1. run'.pc \in {"done", "down"}
    BY <1>1, <1>10 DEF PowerLoss
  <2> QED
    BY <1>2, <2>1
<1>11. CASE UNCHANGED vars
  BY <1>11 DEF vars, Forked, CanFork, ForkAt, StepIds, Steps, Parse
<1> QED
  BY <1>3, <1>4, <1>5, <1>7, <1>8, <1>9, <1>10, <1>11 DEF Next

\* At first nothing is written.
LEMMA InitForked == Init => Forked
  BY DEF Init, NoRun, Forked

\* The fork that was asked for ends where it was asked to.
LEMMA ForkedEnds == Written /\ Forked => ForkEndsAtStep
<1> SUFFICES ASSUME Written, Forked, run.pc = "writing", run.kind = "step", Named(run.arg)
             PROVE  EndsAt(records, run.arg, Steps(records), Steps(run.content))
  BY Zenon DEF ForkEndsAtStep, EndsAt
<1>1. PICK id : id = run.arg
  OBVIOUS
<1>2. CanFork(id) /\ run.content = ForkAt(id) /\ id \in StepIds /\ Named(id)
  BY <1>1 DEF Forked
<1>3. PICK before : before = Steps(records)
  OBVIOUS
<1>4. \E i \in DOMAIN before : before[i].id = id
  BY <1>2, <1>3 DEF StepIds
<1>5. CASE adapter = "claude"
  <2>1. ClaudeWritten(records) /\ C!CanFork(records, id) /\ run.content = C!ForkAt(records, id)
    BY <1>2, <1>5 DEF Written, CanFork, ForkAt
  <2>2. before = C!Parse(records).steps /\ Steps(run.content) = C!Parse(C!ForkAt(records, id)).steps
    BY <1>3, <1>5, <2>1 DEF Steps, Parse
  <2>3. before \in Seq(Step)
    BY <2>1, <2>2, ClaudeParsed, ClaudeFields DEF ClaudeSound
  <2>4. \E i \in 1 .. Len(before) : before[i].id = id
    BY <1>4, <2>3
  <2>5. EndsAt(records, id, before, C!Parse(C!ForkAt(records, id)).steps)
    BY <2>1, <2>2, <2>4, ClaudeForkEnds
  <2> QED
    BY <1>1, <1>3, <2>2, <2>5
<1>6. CASE adapter = "codex"
  <2>1. adapter # "claude"
    BY <1>6
  <2>2. CodexWritten(records) /\ X!CanFork(records, id) /\ run.content = X!ForkAt(records, id)
    BY <1>2, <1>6, <2>1 DEF Written, CanFork, ForkAt
  <2>3. before = X!Parse(records).steps /\ Steps(run.content) = X!Parse(X!ForkAt(records, id)).steps
    BY <1>3, <2>1, <2>2 DEF Steps, Parse
  <2>4. before \in Seq(Step)
    <3>1. Len(records) \in Nat /\ Len(records) \in 0 .. Len(records)
      BY <2>2 DEF CodexWritten
    <3>2. PICK a : IsCodexRun(a, records) /\ X!Parse(records) = X!CloseStep(a[Len(records)])
      BY <3>1, CodexParses
    <3>3. PICK p, c : p = a[Len(records)] /\ c = X!CloseStep(p)
      OBVIOUS
    <3>4. CodexSound(records, Len(records), p)
      BY <2>2, <3>1, <3>2, <3>3, CodexRunSound
    <3>5. c \in CodexState
      BY <3>3, <3>4, CodexClosed
    <3> QED
      BY <2>3, <3>2, <3>3, <3>5, CodexFields
  <2>5. \E i \in 1 .. Len(before) : before[i].id = id
    BY <1>4, <2>4
  <2>6. id.by = "native" \/ ~Early(records)
    <3>1. DOMAIN records = 1 .. Len(records) /\ Len(records) \in Nat
      BY <2>2 DEF CodexWritten
    <3> SUFFICES ASSUME NEW c \in 1 .. Len(records), records[c].kind = "call",
                        \A s \in 1 .. c - 1 : records[s].kind # "started", id.by # "native"
                 PROVE  FALSE
      BY DEF Early
    <3>2. c \in Kinds(records, "call")
      BY <3>1 DEF Kinds
    <3>3. PICK s \in Kinds(records, "started") : s < c
      BY <1>2, <2>1, <3>2 DEF Named
    <3>4. s \in 1 .. c - 1 /\ records[s].kind = "started"
      BY <3>1, <3>3 DEF Kinds
    <3> QED
      BY <3>4
  <2>7. EndsAt(records, id, before, X!Parse(X!ForkAt(records, id)).steps)
    BY <2>2, <2>3, <2>5, <2>6, CodexForkEnds
  <2> QED
    BY <1>1, <1>3, <2>3, <2>7
<1> QED
  BY <1>5, <1>6 DEF Written

\* A fork at a step has the steps up to it, with all that they called and used, and no
\* step after it but of a record that the parser takes for a prompt and is_claude_prompt
\* does not: fork_claude_at_step cuts before the prompt that it sees next and
\* fork_codex_at_step before the task_started that follows, and what a parser has made
\* of a step is not changed by what comes after the next one has begun.
THEOREM ForkStopsThere == Spec => []ForkEndsAtStep
<1>1. Init => Written /\ IInv /\ Forked
  BY InitWritten, InitFiles, InitForked
<1>2. (Written /\ IInv /\ Forked) /\ [Next]_vars => (Written /\ IInv /\ Forked)'
  BY NextWritten, NextFiles, NextForked
<1>3. Written /\ IInv /\ Forked => ForkEndsAtStep
  BY ForkedEnds
<1> QED
  BY <1>1, <1>2, <1>3, PTL DEF Spec
-----------------------------------------------------------------------------
(* Context forks *)

\* Two parsers that have the same records before them, one behind L steps and one behind M:
\* the m steps behind have the same calls, and a call that one of them knows and the other
\* does not is in a step before.
Alike(s, v, L, t, w, M, m) ==
    /\ s \in Seq(Step) /\ t \in Seq(Step) /\ v \in Places /\ w \in Places
    /\ L \in Nat /\ M \in Nat /\ m \in Nat
    /\ Len(s) = L + m /\ Len(t) = M + m
    /\ \A i \in 1 .. m : s[L + i].tools = t[M + i].tools
    /\ \A i \in 1 .. M : t[i].tools = <<>>
    /\ DOMAIN w \subseteq DOMAIN v
    /\ \A c \in DOMAIN v : c \notin DOMAIN w => v[c][1] <= L
    /\ \A c \in DOMAIN w : /\ v[c][1] \in L + 1 .. L + m
                           /\ w[c][1] + L = v[c][1] + M /\ w[c][2] = v[c][2]

SameTools(s, t) ==
    /\ t \in Seq(Step) /\ Len(t) = Len(s) /\ \A i \in 1 .. Len(s) : t[i].tools = s[i].tools

\* Steps that get usage or a mark have the calls they had.
LEMMA AlikeSame ==
    ASSUME NEW s, NEW v, NEW L, NEW t, NEW w, NEW M, NEW m, Alike(s, v, L, t, w, M, m),
           NEW s2, SameTools(s, s2), NEW t2, SameTools(t, t2)
    PROVE  Alike(s2, v, L, t2, w, M, m)
<1>1. /\ L \in Nat /\ M \in Nat /\ m \in Nat /\ Len(s) = L + m /\ Len(t) = M + m
      /\ \A i \in 1 .. m : s[L + i].tools = t[M + i].tools
      /\ \A i \in 1 .. M : t[i].tools = <<>>
  BY DEF Alike
<1>2. /\ s2 \in Seq(Step) /\ Len(s2) = Len(s) /\ \A i \in 1 .. Len(s) : s2[i].tools = s[i].tools
      /\ t2 \in Seq(Step) /\ Len(t2) = Len(t) /\ \A i \in 1 .. Len(t) : t2[i].tools = t[i].tools
  BY DEF SameTools
<1>3. /\ \A i \in 1 .. m : L + i \in 1 .. Len(s) /\ M + i \in 1 .. Len(t)
      /\ \A i \in 1 .. M : i \in 1 .. Len(t)
  BY <1>1
<1>4. /\ \A i \in 1 .. m : s2[L + i].tools = t2[M + i].tools
      /\ \A i \in 1 .. M : t2[i].tools = <<>>
  BY <1>1, <1>2, <1>3
<1> QED
  BY <1>1, <1>2, <1>4 DEF Alike

\* Both parsers open a step.
LEMMA AlikeOpened ==
    ASSUME NEW s, NEW v, NEW L, NEW t, NEW w, NEW M, NEW m, Alike(s, v, L, t, w, M, m),
           NEW y \in Step, y.tools = <<>>, NEW s2, s2 = Append(s, y),
           NEW z \in Step, z.tools = <<>>, NEW t2, t2 = Append(t, z)
    PROVE  Alike(s2, v, L, t2, w, M, m + 1)
<1>1. /\ s \in Seq(Step) /\ t \in Seq(Step)
      /\ L \in Nat /\ M \in Nat /\ m \in Nat /\ Len(s) = L + m /\ Len(t) = M + m
      /\ \A i \in 1 .. m : s[L + i].tools = t[M + i].tools
      /\ \A i \in 1 .. M : t[i].tools = <<>>
  BY DEF Alike
<1>2. /\ s2 \in Seq(Step) /\ Len(s2) = Len(s) + 1 /\ s2[Len(s) + 1] = y /\ \A i \in 1 .. Len(s) : s2[i] = s[i]
      /\ t2 \in Seq(Step) /\ Len(t2) = Len(t) + 1 /\ t2[Len(t) + 1] = z /\ \A i \in 1 .. Len(t) : t2[i] = t[i]
  BY <1>1, OneAppended
<1>3. /\ \A i \in 1 .. m : L + i \in 1 .. Len(s) /\ M + i \in 1 .. Len(t)
      /\ \A i \in 1 .. M : i \in 1 .. Len(t)
      /\ \A i \in 1 .. m + 1 : i = m + 1 \/ i \in 1 .. m
  BY <1>1
<1>4. s2[L + (m + 1)] = y /\ t2[M + (m + 1)] = z
  <2>1. L + (m + 1) = Len(s) + 1 /\ M + (m + 1) = Len(t) + 1
    BY <1>1
  <2> QED
    BY <1>2, <2>1
<1>5. \A i \in 1 .. m + 1 : s2[L + i].tools = t2[M + i].tools
  BY <1>1, <1>2, <1>3, <1>4
<1>6. \A i \in 1 .. M : t2[i].tools = <<>>
  BY <1>1, <1>2, <1>3
<1>7. m + 1 \in Nat \ {0} /\ Len(s2) = L + (m + 1) /\ Len(t2) = M + (m + 1)
  BY <1>1, <1>2
<1>8. \A k \in L + 1 .. L + m : k \in L + 1 .. L + (m + 1)
  BY <1>1
<1> QED
  BY <1>1, <1>2, <1>5, <1>6, <1>7, <1>8 DEF Alike

\* A call of the last step is put down.
PutDown(s, v, id, s2, v2) ==
    /\ Only(s, s2, Len(s)) /\ s2[Len(s)].tools = Append(s[Len(s)].tools, NewTool(id))
    /\ v2 \in Places /\ DOMAIN v2 = DOMAIN v \cup {id}
    /\ v2[id] = <<Len(s), Len(s[Len(s)].tools) + 1>>
    /\ \A c \in DOMAIN v : c # id => v2[c] = v[c]

\* Both parsers put down a call of the last step.
LEMMA AlikeCalled ==
    ASSUME NEW s, NEW v, NEW L, NEW t, NEW w, NEW M, NEW m, Alike(s, v, L, t, w, M, m),
           m # 0, NEW id \in Nat,
           NEW s2, NEW v2, PutDown(s, v, id, s2, v2), NEW t2, NEW w2, PutDown(t, w, id, t2, w2)
    PROVE  Alike(s2, v2, L, t2, w2, M, m)
<1>1. /\ s \in Seq(Step) /\ t \in Seq(Step)
      /\ L \in Nat /\ M \in Nat /\ m \in Nat /\ Len(s) = L + m /\ Len(t) = M + m
      /\ \A i \in 1 .. m : s[L + i].tools = t[M + i].tools
      /\ \A i \in 1 .. M : t[i].tools = <<>>
  BY DEF Alike
<1>2. PICK a, b : a = s[Len(s)].tools /\ b = t[Len(t)].tools
  OBVIOUS
<1>3. m \in 1 .. m /\ a = b
  <2>1. m \in 1 .. m
    BY <1>1
  <2>2. s[L + m].tools = t[M + m].tools
    BY <1>1, <2>1
  <2> QED
    BY <1>1, <1>2, <2>1, <2>2
<1>4. /\ s2 \in Seq(Step) /\ Len(s2) = Len(s) /\ s2[Len(s)].tools = Append(a, NewTool(id))
      /\ \A i \in 1 .. Len(s) : i # Len(s) => s2[i] = s[i]
      /\ v2 \in Places /\ DOMAIN v2 = DOMAIN v \cup {id}
      /\ v2[id] = <<Len(s), Len(a) + 1>> /\ \A c \in DOMAIN v : c # id => v2[c] = v[c]
  BY <1>2 DEF PutDown, Only
<1>5. /\ t2 \in Seq(Step) /\ Len(t2) = Len(t) /\ t2[Len(t)].tools = Append(a, NewTool(id))
      /\ \A i \in 1 .. Len(t) : i # Len(t) => t2[i] = t[i]
      /\ w2 \in Places /\ DOMAIN w2 = DOMAIN w \cup {id}
      /\ w2[id] = <<Len(t), Len(a) + 1>> /\ \A c \in DOMAIN w : c # id => w2[c] = w[c]
  BY <1>2, <1>3 DEF PutDown, Only
<1>6. \A i \in 1 .. m : s2[L + i].tools = t2[M + i].tools
  <2> SUFFICES ASSUME NEW i \in 1 .. m PROVE s2[L + i].tools = t2[M + i].tools
    OBVIOUS
  <2>1. CASE i = m
    <3>1. L + i = Len(s) /\ M + i = Len(t)
      BY <1>1, <2>1
    <3> QED
      BY <1>4, <1>5, <3>1
  <2>2. CASE i # m
    <3>1. /\ L + i \in 1 .. Len(s) /\ L + i # Len(s)
          /\ M + i \in 1 .. Len(t) /\ M + i # Len(t)
      BY <1>1, <2>2
    <3>2. s2[L + i] = s[L + i] /\ t2[M + i] = t[M + i]
      BY <1>4, <1>5, <3>1
    <3> QED
      BY <1>1, <3>2
  <2> QED
    BY <2>1, <2>2
<1>7. \A i \in 1 .. M : t2[i].tools = <<>>
  <2>1. \A i \in 1 .. M : i \in 1 .. Len(t) /\ i # Len(t)
    BY <1>1
  <2> QED
    BY <1>1, <1>5, <2>1
<1>8. /\ DOMAIN w \subseteq DOMAIN v
      /\ \A c \in DOMAIN v : c \notin DOMAIN w => v[c][1] <= L
      /\ \A c \in DOMAIN w : /\ v[c][1] \in L + 1 .. L + m
                             /\ w[c][1] + L = v[c][1] + M /\ w[c][2] = v[c][2]
  BY DEF Alike
<1>9. DOMAIN w2 \subseteq DOMAIN v2
  BY <1>4, <1>5, <1>8
<1>10. \A c \in DOMAIN v2 : c \notin DOMAIN w2 => v2[c][1] <= L
  BY <1>4, <1>5, <1>8
<1>11. ASSUME NEW c \in DOMAIN w2
       PROVE  /\ v2[c][1] \in L + 1 .. L + m
              /\ w2[c][1] + L = v2[c][1] + M /\ w2[c][2] = v2[c][2]
  <2>1. CASE c = id
    <3>1. v2[c][1] = L + m /\ w2[c][1] = M + m /\ w2[c][2] = v2[c][2]
      BY <1>1, <1>4, <1>5, <2>1
    <3> QED
      BY <1>1, <3>1
  <2>2. CASE c # id
    <3>1. c \in DOMAIN w /\ c \in DOMAIN v /\ v2[c] = v[c] /\ w2[c] = w[c]
      BY <1>4, <1>5, <1>8, <2>2
    <3> QED
      BY <1>8, <3>1
  <2> QED
    BY <2>1, <2>2
<1> QED
  BY <1>1, <1>4, <1>5, <1>6, <1>7, <1>9, <1>10, <1>11 DEF Alike

\* The place of a call is a step and a number in it.
LEMMA PlaceIs == ASSUME NEW w \in Places, NEW c \in DOMAIN w PROVE w[c] \in Nat \X Nat
<1>1. PICK S \in SUBSET Nat : w \in [S -> Nat \X Nat]
  BY DEF Places
<1> QED
  BY <1>1

\* What a parser is ignorant of is located where it has something.
LEMMA AlikeLocated ==
    ASSUME NEW s, NEW v, NEW L, NEW t, NEW w, NEW M, NEW m, Alike(s, v, L, t, w, M, m), Located(s, v)
    PROVE  Located(t, w)
<1>1. /\ s \in Seq(Step) /\ t \in Seq(Step)
      /\ L \in Nat /\ M \in Nat /\ m \in Nat /\ Len(s) = L + m /\ Len(t) = M + m
      /\ \A i \in 1 .. m : s[L + i].tools = t[M + i].tools
      /\ \A i \in 1 .. M : t[i].tools = <<>>
      /\ v \in Places /\ w \in Places
  BY DEF Alike
<1>2. /\ DOMAIN w \subseteq DOMAIN v
      /\ \A c \in DOMAIN v : c \notin DOMAIN w => v[c][1] <= L
      /\ \A c \in DOMAIN w : /\ v[c][1] \in L + 1 .. L + m
                             /\ w[c][1] + L = v[c][1] + M /\ w[c][2] = v[c][2]
  BY DEF Alike
<1>3. \A c \in DOMAIN w : w[c] \in Nat \X Nat
  BY <1>1, PlaceIs
<1>4. ASSUME NEW c \in DOMAIN w
      PROVE  /\ w[c][1] \in 1 .. Len(t)
             /\ w[c][2] \in 1 .. Len(t[w[c][1]].tools)
             /\ t[w[c][1]].tools[w[c][2]].id = c
  <2>1. PICK i, j, k : i = v[c][1] /\ j = w[c][1] /\ k = w[c][2]
    OBVIOUS
  <2>2. /\ i \in L + 1 .. L + m /\ j + L = i + M /\ v[c][2] = k /\ c \in DOMAIN v
        /\ j \in Nat
    BY <1>2, <1>3, <2>1
  <2>3. k \in 1 .. Len(s[i].tools) /\ s[i].tools[k].id = c
    BY <2>1, <2>2 DEF Located
  <2>4. PICK d \in 1 .. m : i = L + d
    <3>1. i - L \in 1 .. m /\ i = L + (i - L)
      BY <1>1, <2>2
    <3> QED
      BY <3>1
  <2>5. j = M + d
    <3>1. j \in Nat /\ j + L = i + M /\ i = L + d /\ L \in Nat /\ M \in Nat /\ d \in Nat
      BY <1>1, <2>2, <2>4
    <3> QED
      BY <3>1
  <2>6. s[i].tools = t[j].tools
    BY <1>1, <2>4, <2>5
  <2>7. j \in 1 .. Len(t)
    BY <1>1, <2>5
  <2> QED
    BY <2>1, <2>3, <2>6, <2>7
<1>5. ASSUME NEW j \in 1 .. Len(t), NEW k \in 1 .. Len(t[j].tools)
      PROVE  t[j].tools[k].id \in DOMAIN w /\ w[t[j].tools[k].id] = <<j, k>>
  <2>1. j \notin 1 .. M
    <3>1. Len(<<>>) = 0
      OBVIOUS
    <3> QED
      BY <1>1, <3>1
  <2>2. PICK d \in 1 .. m : j = M + d
    <3>1. j - M \in 1 .. m /\ j = M + (j - M)
      BY <1>1, <2>1
    <3> QED
      BY <3>1
  <2>3. PICK i : i = L + d
    OBVIOUS
  <2>4. i \in 1 .. Len(s) /\ t[j].tools = s[i].tools /\ ~(i <= L)
    <3>1. d \in 1 .. m /\ L \in Nat /\ m \in Nat /\ Len(s) = L + m
      BY <1>1, <2>2
    <3>2. i \in 1 .. Len(s) /\ ~(i <= L)
      BY <2>3, <3>1
    <3>3. t[j].tools = s[i].tools
      BY <1>1, <2>2, <2>3
    <3> QED
      BY <3>2, <3>3
  <2>5. PICK c : c = s[i].tools[k].id
    OBVIOUS
  <2>6. c \in DOMAIN v /\ v[c] = <<i, k>> /\ t[j].tools[k].id = c
    BY <2>4, <2>5 DEF Located
  <2>7. c \in DOMAIN w
    BY <1>2, <2>4, <2>6
  <2>8. w[c][1] + L = i + M /\ w[c][2] = k
    BY <1>2, <2>6, <2>7
  <2>9. w[c] \in Nat \X Nat /\ w[c][1] \in Nat
    BY <1>3, <2>7
  <2>10. w[c][1] = j
    <3>1. PICK x : x = w[c][1]
      OBVIOUS
    <3>2. x \in Nat /\ x + L = i + M
      BY <2>8, <2>9, <3>1
    <3>3. x = j
      BY <1>1, <2>2, <2>3, <3>2
    <3> QED
      BY <3>1, <3>3
  <2>11. w[c] = <<j, k>>
    BY <2>8, <2>9, <2>10
  <2> QED
    BY <2>6, <2>7, <2>11
<1>6. \A c \in DOMAIN w : /\ w[c][1] \in 1 .. Len(t)
                          /\ w[c][2] \in 1 .. Len(t[w[c][1]].tools)
                          /\ t[w[c][1]].tools[w[c][2]].id = c
  BY <1>4, Zenon
<1>7. \A j \in 1 .. Len(t) : \A k \in 1 .. Len(t[j].tools) :
         t[j].tools[k].id \in DOMAIN w /\ w[t[j].tools[k].id] = <<j, k>>
  BY <1>5, Zenon
<1> QED
  BY <1>6, <1>7, Zenon DEF Located

\* Calls that agree in all but one, and in that one too.
LEMMA ToolsAgree ==
    ASSUME NEW a \in Seq(Tool), NEW b \in Seq(Tool), Len(a) = Len(b), NEW c \in 1 .. Len(a),
           \A k \in 1 .. Len(a) : k # c => a[k] = b[k], a[c].id = b[c].id, a[c].error = b[c].error
    PROVE  a = b
<1>1. a[c] \in Tool /\ b[c] \in Tool
  BY ElementOfSeq
<1>2. a[c] = b[c]
  <2>1. PICK x \in Tool, y \in Tool : x = a[c] /\ y = b[c]
    BY <1>1
  <2>2. x.id = y.id /\ x.error = y.error
    BY <2>1
  <2>3. x = [id |-> x.id, error |-> x.error] /\ y = [id |-> y.id, error |-> y.error]
    BY DEF Tool
  <2> QED
    BY <2>1, <2>2, <2>3, Zenon
<1>3. \A k \in 1 .. Len(a) : a[k] = b[k]
  BY <1>2
<1> QED
  BY <1>3, SeqEqual

\* A result is noted by both parsers,
LEMMA AlikeNoted ==
    ASSUME NEW s, NEW v, NEW L, NEW t, NEW w, NEW M, NEW m, Alike(s, v, L, t, w, M, m),
           NEW id \in DOMAIN w, NEW e,
           NEW i, NEW c, i = v[id][1], c = v[id][2], NEW s2, Noted(s, s2, i, c, e),
           NEW j, NEW d, j = w[id][1], d = w[id][2], NEW t2, Noted(t, t2, j, d, e)
    PROVE  Alike(s2, v, L, t2, w, M, m)
<1>1. /\ s \in Seq(Step) /\ t \in Seq(Step)
      /\ L \in Nat /\ M \in Nat /\ m \in Nat /\ Len(s) = L + m /\ Len(t) = M + m
      /\ \A k \in 1 .. m : s[L + k].tools = t[M + k].tools
      /\ \A k \in 1 .. M : t[k].tools = <<>>
      /\ w \in Places
  BY DEF Alike
<1>2. i \in L + 1 .. L + m /\ j + L = i + M /\ d = c
  BY DEF Alike
<1>3. w[id] \in Nat \X Nat /\ j \in Nat
  <2>1. w[id] \in Nat \X Nat
    BY <1>1, PlaceIs
  <2> QED
    BY <2>1
<1>4. PICK n \in 1 .. m : i = L + n /\ j = M + n
  <2>1. /\ L \in Nat /\ M \in Nat /\ m \in Nat /\ j \in Nat
        /\ i \in L + 1 .. L + m /\ j + L = i + M
    BY <1>1, <1>2, <1>3
  <2>2. ASSUME NEW x \in Nat, NEW y \in L + 1 .. L + m, x + L = y + M
        PROVE  y - L \in 1 .. m /\ y = L + (y - L) /\ x = M + (y - L)
    BY <2>1, <2>2
  <2>3. i - L \in 1 .. m /\ i = L + (i - L) /\ j = M + (i - L)
    BY <2>1, <2>2
  <2> QED
    BY <2>3
<1>5. s[i].tools = t[j].tools
  BY <1>1, <1>4
<1>6. PICK a, b, x : a = s2[i].tools /\ b = t2[j].tools /\ x = s[i].tools
  OBVIOUS
<1>7. /\ s2 \in Seq(Step) /\ Len(s2) = Len(s) /\ \A k \in 1 .. Len(s) : k # i => s2[k] = s[k]
      /\ a \in Seq(Tool) /\ Len(a) = Len(x) /\ c \in 1 .. Len(x)
      /\ \A k \in 1 .. Len(x) : k # c => a[k] = x[k]
      /\ a[c].id = x[c].id /\ a[c].error = e
  BY <1>6 DEF Noted, Only
<1>8. /\ t2 \in Seq(Step) /\ Len(t2) = Len(t) /\ \A k \in 1 .. Len(t) : k # j => t2[k] = t[k]
      /\ b \in Seq(Tool) /\ Len(b) = Len(x)
      /\ \A k \in 1 .. Len(x) : k # c => b[k] = x[k]
      /\ b[c].id = x[c].id /\ b[c].error = e
  <2>1. Noted(t, t2, j, c, e) /\ x = t[j].tools /\ b = t2[j].tools
    BY <1>2, <1>5, <1>6
  <2> HIDE <1>5, <1>6
  <2>2. t2 \in Seq(Step) /\ Len(t2) = Len(t) /\ \A k \in 1 .. Len(t) : k # j => t2[k] = t[k]
    BY <2>1 DEF Noted, Only
  <2>3. b \in Seq(Tool) /\ Len(b) = Len(x) /\ b[c].id = x[c].id /\ b[c].error = e
    BY <2>1 DEF Noted
  <2>4. \A k \in 1 .. Len(x) : k # c => b[k] = x[k]
    BY <2>1 DEF Noted
  <2> QED
    BY <2>2, <2>3, <2>4
<1>9. a = b
  <2>1. Len(a) = Len(b) /\ c \in 1 .. Len(a) /\ \A k \in 1 .. Len(a) : k # c => a[k] = b[k]
    BY <1>7, <1>8
  <2>2. a[c].id = b[c].id /\ a[c].error = b[c].error
    BY <1>7, <1>8
  <2> QED
    BY <1>7, <1>8, <2>1, <2>2, ToolsAgree
<1>10. ASSUME NEW k \in 1 .. m PROVE s2[L + k].tools = t2[M + k].tools
  <2>1. CASE k = n
    BY <1>4, <1>6, <1>9, <2>1
  <2>2. CASE k # n
    <3>1. /\ L + k \in 1 .. Len(s) /\ L + k # i
          /\ M + k \in 1 .. Len(t) /\ M + k # j
      BY <1>1, <1>4, <2>2
    <3>2. s2[L + k] = s[L + k] /\ t2[M + k] = t[M + k]
      BY <1>7, <1>8, <3>1
    <3> QED
      BY <1>1, <3>2
  <2> QED
    BY <2>1, <2>2
<1>11. \A k \in 1 .. M : t2[k].tools = <<>>
  <2>1. \A k \in 1 .. M : k \in 1 .. Len(t) /\ k # j
    BY <1>1, <1>4
  <2> QED
    BY <1>1, <1>8, <2>1
<1> QED
  BY <1>1, <1>7, <1>8, <1>10, <1>11 DEF Alike

\* or by the one that knows of the call, in a step before.
LEMMA AlikeNotedBefore ==
    ASSUME NEW s, NEW v, NEW L, NEW t, NEW w, NEW M, NEW m, Alike(s, v, L, t, w, M, m),
           NEW id \in DOMAIN v, id \notin DOMAIN w, NEW e,
           NEW i, NEW c, i = v[id][1], c = v[id][2], NEW s2, Noted(s, s2, i, c, e)
    PROVE  Alike(s2, v, L, t, w, M, m)
<1>1. /\ s \in Seq(Step) /\ L \in Nat /\ m \in Nat /\ Len(s) = L + m
      /\ \A k \in 1 .. m : s[L + k].tools = t[M + k].tools
      /\ i <= L
  BY DEF Alike
<1>2. /\ s2 \in Seq(Step) /\ Len(s2) = Len(s) /\ i \in 1 .. Len(s)
      /\ \A k \in 1 .. Len(s) : k # i => s2[k] = s[k]
  BY DEF Noted, Only
<1>3. \A k \in 1 .. m : L + k \in 1 .. Len(s) /\ L + k # i
  BY <1>1, <1>2
<1>4. \A k \in 1 .. m : s2[L + k].tools = t[M + k].tools
  BY <1>1, <1>2, <1>3
<1> QED
  BY <1>1, <1>2, <1>4 DEF Alike

\* Steps keep their names, and others may follow.
Keeps(s, t) == t \in Seq(Step) /\ Len(s) <= Len(t) /\ \A i \in 1 .. Len(s) : t[i].id = s[i].id

\* Both parsers have the step of this name.
Marks(s, L, t, M, m, id) == \E i \in 1 .. m : s[L + i].id = id /\ t[M + i].id = id

\* Both parsers take a record.
Together(s, v, t, w, L, M, m, s2, v2, t2, w2) ==
    /\ Keeps(s, s2) /\ Keeps(t, t2)
    /\ \E k \in {m, m + 1} : Alike(s2, v2, L, t2, w2, M, k)

\* A step that both have keeps its name for both.
LEMMA MarksKept ==
    ASSUME NEW s, NEW v, NEW L, NEW t, NEW w, NEW M, NEW m, Alike(s, v, L, t, w, M, m),
           NEW s2, Keeps(s, s2), NEW t2, Keeps(t, t2), NEW k \in {m, m + 1},
           NEW id, Marks(s, L, t, M, m, id)
    PROVE  Marks(s2, L, t2, M, k, id)
<1>1. L \in Nat /\ M \in Nat /\ m \in Nat /\ Len(s) = L + m /\ Len(t) = M + m
  BY DEF Alike
<1>2. PICK i \in 1 .. m : s[L + i].id = id /\ t[M + i].id = id
  BY DEF Marks
<1>3. L + i \in 1 .. Len(s) /\ M + i \in 1 .. Len(t) /\ i \in 1 .. k
  BY <1>1
<1>4. s2[L + i].id = id /\ t2[M + i].id = id
  BY <1>2, <1>3 DEF Keeps
<1> QED
  BY <1>3, <1>4 DEF Marks

\* A step that is opened leaves the others.
LEMMA KeepsOpened ==
    ASSUME NEW s \in Seq(Step), NEW z \in Step, NEW t, t = Append(s, z)
    PROVE  Keeps(s, t)
<1>1. t \in Seq(Step) /\ Len(t) = Len(s) + 1 /\ Len(s) \in Nat /\ \A i \in 1 .. Len(s) : t[i] = s[i]
  BY OneAppended
<1> QED
  BY <1>1 DEF Keeps

\* A step that is changed leaves the others and has its name.
LEMMA KeepsOnly ==
    ASSUME NEW s \in Seq(Step), NEW t, NEW n, Only(s, t, n)
    PROVE  Keeps(s, t)
<1>1. t \in Seq(Step) /\ Len(t) = Len(s) /\ Len(s) \in Nat /\ \A i \in 1 .. Len(s) : t[i].id = s[i].id
  BY DEF Only
<1> QED
  BY <1>1 DEF Keeps

\* Nothing is changed.
LEMMA KeepsSame == ASSUME NEW s \in Seq(Step) PROVE Keeps(s, s) /\ SameTools(s, s)
<1>1. Len(s) \in Nat
  OBVIOUS
<1> QED
  BY <1>1 DEF Keeps, SameTools

\* A step that is changed but for its calls.
LEMMA SameToolsOnly ==
    ASSUME NEW s \in Seq(Step), NEW t, NEW n, Only(s, t, n), t[n].tools = s[n].tools
    PROVE  SameTools(s, t)
<1>1. t \in Seq(Step) /\ Len(t) = Len(s) /\ \A i \in 1 .. Len(s) : t[i].tools = s[i].tools
  BY DEF Only
<1> QED
  BY <1>1 DEF SameTools

\* Calls stay where they are.
LEMMA TogetherSame ==
    ASSUME NEW s, NEW v, NEW L, NEW t, NEW w, NEW M, NEW m, Alike(s, v, L, t, w, M, m),
           NEW s2, Keeps(s, s2), SameTools(s, s2), NEW t2, Keeps(t, t2), SameTools(t, t2)
    PROVE  Together(s, v, t, w, L, M, m, s2, v, t2, w)
<1>1. Alike(s2, v, L, t2, w, M, m)
  BY AlikeSame
<1> QED
  BY <1>1 DEF Together

\* Both open a step, perhaps of one name.
LEMMA TogetherOpened ==
    ASSUME NEW s, NEW v, NEW L, NEW t, NEW w, NEW M, NEW m, Alike(s, v, L, t, w, M, m),
           NEW y \in Step, y.tools = <<>>, NEW s2, s2 = Append(s, y),
           NEW z \in Step, z.tools = <<>>, NEW t2, t2 = Append(t, z)
    PROVE  /\ Together(s, v, t, w, L, M, m, s2, v, t2, w)
           /\ y.id = z.id => \A k \in {m, m + 1} : Alike(s2, v, L, t2, w, M, k) => Marks(s2, L, t2, M, k, y.id)
<1>1. s \in Seq(Step) /\ t \in Seq(Step) /\ Len(s) = L + m /\ Len(t) = M + m
      /\ L \in Nat /\ M \in Nat /\ m \in Nat
  BY DEF Alike
<1>2. Alike(s2, v, L, t2, w, M, m + 1)
  BY AlikeOpened
<1>3. Keeps(s, s2) /\ Keeps(t, t2)
  BY <1>1, KeepsOpened
<1>4. Together(s, v, t, w, L, M, m, s2, v, t2, w)
  BY <1>2, <1>3 DEF Together
<1>5. ASSUME y.id = z.id, NEW k \in {m, m + 1}, Alike(s2, v, L, t2, w, M, k)
      PROVE  Marks(s2, L, t2, M, k, y.id)
  <2>1. Len(s2) = Len(s) + 1 /\ s2[Len(s) + 1] = y /\ t2[Len(t) + 1] = z
    BY <1>1, OneAppended
  <2>2. Len(s2) = L + k
    BY <1>5 DEF Alike
  <2>3. k = m + 1
    BY <1>1, <2>1, <2>2
  <2>4. L + k = Len(s) + 1 /\ M + k = Len(t) + 1 /\ k \in 1 .. k
    BY <1>1, <2>3
  <2>5. s2[L + k].id = y.id /\ t2[M + k].id = y.id
    BY <1>5, <2>1, <2>4
  <2> QED
    BY <2>4, <2>5 DEF Marks
<1> QED
  BY <1>4, <1>5

\* Both put down a call.
LEMMA TogetherCalled ==
    ASSUME NEW s, NEW v, NEW L, NEW t, NEW w, NEW M, NEW m, Alike(s, v, L, t, w, M, m),
           m # 0, NEW id \in Nat,
           NEW s2, NEW v2, PutDown(s, v, id, s2, v2), NEW t2, NEW w2, PutDown(t, w, id, t2, w2)
    PROVE  Together(s, v, t, w, L, M, m, s2, v2, t2, w2)
<1>1. s \in Seq(Step) /\ t \in Seq(Step)
  BY DEF Alike
<1>2. Alike(s2, v2, L, t2, w2, M, m)
  BY AlikeCalled
<1>3. Only(s, s2, Len(s)) /\ Only(t, t2, Len(t))
  BY DEF PutDown
<1>4. Keeps(s, s2) /\ Keeps(t, t2)
  BY <1>1, <1>3, KeepsOnly
<1> QED
  BY <1>2, <1>4 DEF Together

\* What a result does to the steps.
Answered(s, v, id, e, s2) ==
    /\ id \notin DOMAIN v => s2 = s
    /\ LET at == v[id] IN id \in DOMAIN v => Noted(s, s2, at[1], at[2], e)

\* Both note a result, or one of them, or none.
LEMMA TogetherAnswered ==
    ASSUME NEW s, NEW v, NEW L, NEW t, NEW w, NEW M, NEW m, Alike(s, v, L, t, w, M, m),
           NEW id, NEW e, NEW s2, Answered(s, v, id, e, s2), NEW t2, Answered(t, w, id, e, t2)
    PROVE  Together(s, v, t, w, L, M, m, s2, v, t2, w)
<1>1. s \in Seq(Step) /\ t \in Seq(Step) /\ DOMAIN w \subseteq DOMAIN v
  BY DEF Alike
<1>2. CASE id \notin DOMAIN v
  <2>1. s2 = s /\ t2 = t
    BY <1>1, <1>2 DEF Answered
  <2>2. Keeps(s, s2) /\ Keeps(t, t2) /\ SameTools(s, s2) /\ SameTools(t, t2)
    BY <1>1, <2>1, KeepsSame
  <2> QED
    BY <2>2, TogetherSame
<1>3. CASE id \in DOMAIN v
  <2>1. PICK i, c : i = v[id][1] /\ c = v[id][2]
    OBVIOUS
  <2>2. Noted(s, s2, i, c, e)
    BY <1>3, <2>1 DEF Answered
  <2>3. Only(s, s2, i)
    BY <2>2 DEF Noted
  <2>4. Keeps(s, s2)
    BY <1>1, <2>3, KeepsOnly
  <2>5. CASE id \notin DOMAIN w
    <3>1. t2 = t
      BY <2>5 DEF Answered
    <3>2. Keeps(t, t2)
      BY <1>1, <3>1, KeepsSame
    <3>3. Alike(s2, v, L, t2, w, M, m)
      BY <1>3, <2>1, <2>2, <2>5, <3>1, AlikeNotedBefore
    <3> QED
      BY <2>4, <3>2, <3>3 DEF Together
  <2>6. CASE id \in DOMAIN w
    <3>1. PICK j, d : j = w[id][1] /\ d = w[id][2]
      OBVIOUS
    <3>2. Noted(t, t2, j, d, e)
      BY <2>6, <3>1 DEF Answered
    <3>3. Only(t, t2, j)
      BY <3>2 DEF Noted
    <3>4. Keeps(t, t2)
      BY <1>1, <3>3, KeepsOnly
    <3>5. Alike(s2, v, L, t2, w, M, m)
      BY <2>1, <2>2, <2>6, <3>1, <3>2, AlikeNoted
    <3> QED
      BY <2>4, <3>4, <3>5 DEF Together
  <2> QED
    BY <2>5, <2>6
<1> QED
  BY <1>2, <1>3

Put(v, id, at, v2) ==
    /\ v2 \in Places /\ DOMAIN v2 = DOMAIN v \cup {id} /\ v2[id] = at
    /\ \A c \in DOMAIN v : c # id => v2[c] = v[c]

\* A call that is put down has a place, for Claude Code
LEMMA ClaudePlaced ==
    ASSUME NEW v \in Places, NEW id \in Nat, NEW n \in Nat, NEW a \in Seq(Tool)
    PROVE  Put(v, id, <<n, Len(a) + 1>>, C!Placed(v, id, <<n, Len(a) + 1>>))
<1>1. PICK t \in Nat : t = Len(a) + 1
  OBVIOUS
<1>2. PICK v2 : v2 = C!Placed(v, id, <<n, t>>)
  OBVIOUS
<1>3. t \in Nat /\ <<n, t>> \in Nat \X Nat
  BY <1>1
<1>4. v2 \in Places
  <2>1. C!Placed(v, id, <<n, t>>) \in Places
    BY <1>3, ClaudePlaces
  <2> QED
    BY <1>2, <2>1
<1>5. /\ DOMAIN v2 = DOMAIN v \cup {id} /\ v2[id] = <<n, t>>
      /\ \A c \in DOMAIN v : c # id => v2[c] = v[c]
  BY <1>2 DEF C!Placed
<1> QED
  BY <1>1, <1>2, <1>4, <1>5 DEF Put

\* and for Codex.
LEMMA CodexPlaced ==
    ASSUME NEW v \in Places, NEW id \in Nat, NEW n \in Nat, NEW a \in Seq(Tool)
    PROVE  Put(v, id, <<n, Len(a) + 1>>, X!Placed(v, id, <<n, Len(a) + 1>>))
<1>1. PICK t \in Nat : t = Len(a) + 1
  OBVIOUS
<1>2. PICK v2 : v2 = X!Placed(v, id, <<n, t>>)
  OBVIOUS
<1>3. t \in Nat /\ <<n, t>> \in Nat \X Nat
  BY <1>1
<1>4. v2 \in Places
  <2>1. X!Placed(v, id, <<n, t>>) \in Places
    BY <1>3, CodexPlaces
  <2> QED
    BY <1>2, <2>1
<1>5. /\ DOMAIN v2 = DOMAIN v \cup {id} /\ v2[id] = <<n, t>>
      /\ \A c \in DOMAIN v : c # id => v2[c] = v[c]
  BY <1>2 DEF X!Placed
<1> QED
  BY <1>1, <1>2, <1>4, <1>5 DEF Put

\* The last step has calls.
LEMMA LastTools ==
    ASSUME NEW s \in Seq(Step), NEW s2, Only(s, s2, Len(s))
    PROVE  s[Len(s)].tools \in Seq(Tool) /\ Len(s) \in Nat
<1>1. PICK n : n = Len(s)
  OBVIOUS
<1>2. n \in 1 .. Len(s)
  BY <1>1 DEF Only
<1>3. s[n] \in Step
  BY <1>2, ElementOfSeq
<1>4. s[n].tools \in Seq(Tool)
  BY <1>3, StepFields
<1> QED
  BY <1>1, <1>4

\* A call that is put down is behind the others of the last step, for Claude Code
LEMMA ClaudePutDown ==
    ASSUME NEW s \in Seq(Step), NEW v \in Places, NEW id \in Nat,
           NEW s2, Only(s, s2, Len(s)), s2[Len(s)].tools = Append(s[Len(s)].tools, NewTool(id)),
           NEW v2, v2 = C!Placed(v, id, <<Len(s), Len(s[Len(s)].tools) + 1>>)
    PROVE  PutDown(s, v, id, s2, v2)
<1>1. s[Len(s)].tools \in Seq(Tool) /\ Len(s) \in Nat
  BY LastTools
<1>2. Put(v, id, <<Len(s), Len(s[Len(s)].tools) + 1>>, v2)
  BY <1>1, ClaudePlaced
<1> QED
  BY <1>2 DEF Put, PutDown

\* and for Codex.
LEMMA CodexPutDown ==
    ASSUME NEW s \in Seq(Step), NEW v \in Places, NEW id \in Nat,
           NEW s2, Only(s, s2, Len(s)), s2[Len(s)].tools = Append(s[Len(s)].tools, NewTool(id)),
           NEW v2, v2 = X!Placed(v, id, <<Len(s), Len(s[Len(s)].tools) + 1>>)
    PROVE  PutDown(s, v, id, s2, v2)
<1>1. s[Len(s)].tools \in Seq(Tool) /\ Len(s) \in Nat
  BY LastTools
<1>2. Put(v, id, <<Len(s), Len(s[Len(s)].tools) + 1>>, v2)
  BY <1>1, CodexPlaced
<1> QED
  BY <1>2 DEF Put, PutDown

\* What a record of the assistant does when there is a step.
Assists(p, r, q) ==
    /\ q \in ClaudeState /\ q.current = Len(p.steps)
    /\ Only(p.steps, q.steps, Len(p.steps))
    /\ q.steps[Len(p.steps)].tools =
         IF r.tool = 0 THEN p.steps[Len(p.steps)].tools
         ELSE Append(p.steps[Len(p.steps)].tools, NewTool(r.tool))
    /\ q.where = IF r.tool = 0 THEN p.where
                 ELSE C!Placed(p.where, r.tool, <<Len(p.steps), Len(p.steps[Len(p.steps)].tools) + 1>>)

\* It adds to the last.
LEMMA ClaudeAssisted ==
    ASSUME NEW p \in ClaudeState, p.current = Len(p.steps), Base(p) = p, NEW r \in ClaudeRecord,
           NEW q, q = C!OnAssistant(p, r)
    PROVE  Assists(p, r, q)
<1>1. PICK b : b = Base(p)
  OBVIOUS
<1>2. /\ q \in ClaudeState /\ q.current = b.current
      /\ Only(b.steps, q.steps, b.current)
      /\ q.steps[b.current].tools = IF r.tool = 0 THEN b.steps[b.current].tools
                             ELSE Append(b.steps[b.current].tools, NewTool(r.tool))
      /\ q.where = IF r.tool = 0 THEN p.where
                    ELSE C!Placed(p.where, r.tool, <<b.current, Len(b.steps[b.current].tools) + 1>>)
  BY <1>1, ClaudeAssists
<1>3. b = p
  BY <1>1
<1> QED
  BY <1>2, <1>3 DEF Assists

\* What the parser of a context fork has to do with the parser of the transcript, for Claude
\* Code, after a record that both have taken.
ClaudeFollow(p, q, L, M, m, r, p2, q2) ==
    /\ q2 \in ClaudeState /\ q2.current = Len(q2.steps)
    /\ Together(p.steps, p.where, q.steps, q.where, L, M, m, p2.steps, p2.where, q2.steps, q2.where)
    /\ r.kind = "prompt" =>
         \A k \in {m, m + 1} : Alike(p2.steps, p2.where, L, q2.steps, q2.where, M, k) =>
                                 Marks(p2.steps, L, q2.steps, M, k, C!Native(r.id))

\* Each record is taken by the parser of the fork as it was taken by that of the transcript.
LEMMA ClaudeFollows ==
    ASSUME NEW p \in ClaudeState, p.current = Len(p.steps), Located(p.steps, p.where),
           NEW q \in ClaudeState, q.current = Len(q.steps),
           NEW L, NEW M, NEW m, Alike(p.steps, p.where, L, q.steps, q.where, M, m),
           NEW r \in ClaudeRecord, r.kind \in {"prompt", "padded", "compact"} => r.id # 0,
           m # 0 \/ r.kind = "prompt",
           NEW p2, p2 = C!Take(p, r), NEW q2, q2 = C!Take(q, r)
    PROVE  ClaudeFollow(p, q, L, M, m, r, p2, q2)
<1>1. PICK s, v, t, w : s = p.steps /\ v = p.where /\ t = q.steps /\ w = q.where
  OBVIOUS
<1>2. PICK s2, v2, t2, w2 : s2 = p2.steps /\ v2 = p2.where /\ t2 = q2.steps /\ w2 = q2.where
  OBVIOUS
<1>3. Alike(s, v, L, t, w, M, m) /\ Located(s, v)
  BY <1>1
<1>4. Located(t, w)
  BY <1>3, AlikeLocated
<1>5. s \in Seq(Step) /\ t \in Seq(Step) /\ L \in Nat /\ M \in Nat /\ m \in Nat
      /\ Len(s) = L + m /\ Len(t) = M + m /\ (m # 0 => s # <<>> /\ t # <<>>)
  <2>1. s \in Seq(Step) /\ t \in Seq(Step) /\ L \in Nat /\ M \in Nat /\ m \in Nat
        /\ Len(s) = L + m /\ Len(t) = M + m
    BY <1>3 DEF Alike
  <2>2. m # 0 => Len(s) # 0 /\ Len(t) # 0
    BY <2>1
  <2>3. m # 0 => s # <<>> /\ t # <<>>
    BY <2>2
  <2> QED
    BY <2>1, <2>3
<1> DEFINE Goal == /\ q2 \in ClaudeState /\ q2.current = Len(q2.steps)
                   /\ Together(s, v, t, w, L, M, m, s2, v2, t2, w2)
                   /\ r.kind = "prompt" =>
                        \A k \in {m, m + 1} : Alike(s2, v2, L, t2, w2, M, k) =>
                                                Marks(s2, L, t2, M, k, C!Native(r.id))
<1> SUFFICES Goal
  BY <1>1, <1>2 DEF ClaudeFollow
<1>6. CASE r.kind \in {"prompt", "padded", "compact"}
  <2>1. p2 = C!OnPrompt(p, r) /\ q2 = C!OnPrompt(q, r)
    BY <1>6, ClaudeTakes
  <2>2. PICK id : id = C!Native(r.id)
    OBVIOUS
  <2>3. id = IF r.id = 0 THEN C!Ordinal(Len(p.steps)) ELSE C!Native(r.id)
    BY <1>6, <2>2
  <2>4. id = IF r.id = 0 THEN C!Ordinal(Len(q.steps)) ELSE C!Native(r.id)
    BY <1>6, <2>2
  <2>5. PICK z : z = PromptedStep(id)
    OBVIOUS
  <2>6. p2 \in ClaudeState /\ z \in Step /\ p2.steps = Append(p.steps, z) /\ p2.where = p.where
    BY <2>1, <2>3, <2>5, ClaudePrompt
  <2>7. /\ q2 \in ClaudeState /\ q2.steps = Append(q.steps, z) /\ q2.current = Len(q2.steps)
        /\ q2.where = q.where
    BY <2>1, <2>4, <2>5, ClaudePrompt
  <2>8. z.tools = <<>> /\ z.id = id
    BY <2>5 DEF PromptedStep
  <2>9. s2 = Append(s, z) /\ t2 = Append(t, z) /\ v2 = v /\ w2 = w
    BY <1>1, <1>2, <2>6, <2>7
  <2>10. /\ Together(s, v, t, w, L, M, m, s2, v, t2, w)
         /\ \A k \in {m, m + 1} : Alike(s2, v, L, t2, w, M, k) => Marks(s2, L, t2, M, k, z.id)
    BY <1>3, <2>6, <2>8, <2>9, TogetherOpened
  <2> QED
    BY <2>2, <2>7, <2>8, <2>9, <2>10
<1>7. CASE r.kind = "interrupt"
  <2>1. p2 = C!OnInterrupt(p) /\ q2 = C!OnInterrupt(q) /\ r.kind # "prompt" /\ m # 0
    BY <1>7, ClaudeTakes
  <2>2. PICK n, k : n = Len(p.steps) /\ k = Len(q.steps)
    OBVIOUS
  <2>3. p2.where = p.where /\ Only(p.steps, p2.steps, n) /\ p2.steps[n].tools = p.steps[n].tools
    BY <1>1, <1>5, <2>1, <2>2, ClaudeInterrupts
  <2>4. /\ q2 \in ClaudeState /\ q2.current = q.current /\ q2.where = q.where
        /\ Only(q.steps, q2.steps, k) /\ q2.steps[k].tools = q.steps[k].tools
    BY <1>1, <1>5, <2>1, <2>2, ClaudeInterrupts
  <2>5. Keeps(s, s2) /\ SameTools(s, s2)
    BY <1>1, <1>2, <1>5, <2>3, KeepsOnly, SameToolsOnly
  <2>6. Keeps(t, t2) /\ SameTools(t, t2)
    BY <1>1, <1>2, <1>5, <2>4, KeepsOnly, SameToolsOnly
  <2>7. Together(s, v, t, w, L, M, m, s2, v2, t2, w2)
    BY <1>1, <1>2, <1>3, <2>3, <2>4, <2>5, <2>6, TogetherSame
  <2>8. q2.current = Len(q2.steps)
    BY <2>4 DEF Only
  <2> QED
    BY <2>1, <2>4, <2>7, <2>8
<1>8. CASE r.kind = "result"
  <2>1. p2 = C!OnResult(p, r) /\ q2 = C!OnResult(q, r) /\ r.kind # "prompt"
    BY <1>8, ClaudeTakes
  <2>2. PICK id, e : id = r.tool /\ e = r.error
    OBVIOUS
  <2>3. p2.where = p.where /\ Answered(p.steps, p.where, id, e, p2.steps)
    BY <1>1, <1>3, <2>1, <2>2, ClaudeResults DEF Answered
  <2>4. /\ q2 \in ClaudeState /\ q2.current = q.current /\ q2.where = q.where
        /\ Answered(q.steps, q.where, id, e, q2.steps)
    BY <1>1, <1>4, <2>1, <2>2, ClaudeResults DEF Answered
  <2>5. Together(s, v, t, w, L, M, m, s2, v2, t2, w2)
    BY <1>1, <1>2, <1>3, <2>3, <2>4, TogetherAnswered
  <2>6. Len(q2.steps) = Len(q.steps)
    <3>1. CASE id \notin DOMAIN q.where
      BY <2>4, <3>1 DEF Answered
    <3>2. CASE id \in DOMAIN q.where
      BY <2>4, <3>2 DEF Answered, Noted, Only
    <3> QED
      BY <3>1, <3>2
  <2> QED
    BY <2>1, <2>4, <2>5, <2>6
<1>9. CASE r.kind = "assistant"
  <2>1. p2 = C!OnAssistant(p, r) /\ q2 = C!OnAssistant(q, r) /\ r.kind # "prompt" /\ m # 0
    BY <1>9, ClaudeTakes
  <2>2. Base(p) = p /\ Base(q) = q
    BY <1>1, <1>5, <2>1, BaseIs
  <2>4. Assists(p, r, p2)
    BY <2>1, <2>2, ClaudeAssisted
  <2>5. Assists(q, r, q2)
    BY <2>1, <2>2, ClaudeAssisted
  <2>6. q2 \in ClaudeState /\ q2.current = Len(q2.steps)
    BY <2>5 DEF Assists, Only
  <2>7. CASE r.tool = 0
    <3>1. /\ Only(s, s2, Len(s)) /\ s2[Len(s)].tools = s[Len(s)].tools /\ v2 = v
          /\ Only(t, t2, Len(t)) /\ t2[Len(t)].tools = t[Len(t)].tools /\ w2 = w
      BY <1>1, <1>2, <2>4, <2>5, <2>7 DEF Assists
    <3>2. Keeps(s, s2) /\ SameTools(s, s2)
      BY <1>5, <3>1, KeepsOnly, SameToolsOnly
    <3>3. Keeps(t, t2) /\ SameTools(t, t2)
      BY <1>5, <3>1, KeepsOnly, SameToolsOnly
    <3>4. Together(s, v, t, w, L, M, m, s2, v2, t2, w2)
      BY <1>3, <3>1, <3>2, <3>3, TogetherSame
    <3> QED
      BY <2>1, <2>6, <3>4
  <2>8. CASE r.tool # 0
    <3>1. PICK id \in Nat : id = r.tool
      BY DEF ClaudeRecord
    <3>2. PutDown(s, v, id, s2, v2)
      <4>1. /\ Only(s, s2, Len(s)) /\ s2[Len(s)].tools = Append(s[Len(s)].tools, NewTool(id))
            /\ v2 = C!Placed(v, id, <<Len(s), Len(s[Len(s)].tools) + 1>>)
        BY <1>1, <1>2, <2>4, <2>8, <3>1 DEF Assists
      <4>2. v \in Places /\ s \in Seq(Step)
        BY <1>3 DEF Alike
      <4> QED
        BY <4>1, <4>2, ClaudePutDown
    <3>3. PutDown(t, w, id, t2, w2)
      <4>1. /\ Only(t, t2, Len(t)) /\ t2[Len(t)].tools = Append(t[Len(t)].tools, NewTool(id))
            /\ w2 = C!Placed(w, id, <<Len(t), Len(t[Len(t)].tools) + 1>>)
        BY <1>1, <1>2, <2>5, <2>8, <3>1 DEF Assists
      <4>2. w \in Places /\ t \in Seq(Step)
        BY <1>3 DEF Alike
      <4> QED
        BY <4>1, <4>2, ClaudePutDown
    <3>4. Together(s, v, t, w, L, M, m, s2, v2, t2, w2)
      BY <1>3, <2>1, <3>2, <3>3, TogetherCalled
    <3> QED
      BY <2>1, <2>6, <3>4
  <2> QED
    BY <2>7, <2>8
<1>10. CASE r.kind \in {"last-prompt", "hidden"}
  <2>1. p2 = p /\ q2 = q /\ r.kind # "prompt"
    BY <1>10, ClaudeTakes
  <2>2. s2 = s /\ t2 = t /\ v2 = v /\ w2 = w
    BY <1>1, <1>2, <2>1
  <2>3. Keeps(s, s2) /\ Keeps(t, t2) /\ SameTools(s, s2) /\ SameTools(t, t2)
    BY <1>5, <2>2, KeepsSame
  <2>4. Together(s, v, t, w, L, M, m, s2, v2, t2, w2)
    BY <1>3, <2>2, <2>3, TogetherSame
  <2> QED
    BY <2>1, <2>4
<1>11. r.kind \in {"prompt", "padded", "compact", "interrupt", "last-prompt", "hidden", "assistant", "result"}
  BY DEF ClaudeRecord
<1> QED
  BY <1>6, <1>7, <1>8, <1>9, <1>10, <1>11

\* What two parsers have of the same records: from the place from on, up to the place n.
ClaudeTailed(recs, from, n, p, q, L, M) ==
    /\ q \in ClaudeState /\ q.current = Len(q.steps)
    /\ \E m \in Nat : /\ Alike(p.steps, p.where, L, q.steps, q.where, M, m)
                      /\ \A x \in from .. n : recs[x].kind = "prompt" =>
                           Marks(p.steps, L, q.steps, M, m, C!Native(x))

\* A record more.
LEMMA ClaudeTailedNext ==
    ASSUME NEW recs, ClaudeWritten(recs), NEW n \in Nat, n + 1 <= Len(recs),
           NEW p, ClaudeSound(recs, n, p), NEW from \in Nat, from <= n + 1,
           NEW L, NEW M, NEW q, ClaudeTailed(recs, from, n, p, q, L, M),
           recs[from].kind = "prompt",
           NEW p2, p2 = C!Take(p, recs[n + 1]), NEW q2, q2 = C!Take(q, recs[n + 1])
    PROVE  ClaudeTailed(recs, from, n + 1, p2, q2, L, M)
<1>1. PICK r : r = recs[n + 1]
  OBVIOUS
<1>2. r \in ClaudeRecord /\ (r.kind \in {"prompt", "padded", "compact"} => r.id = n + 1)
  <2>1. recs \in Seq(ClaudeRecord) /\ n + 1 \in 1 .. Len(recs)
    BY DEF ClaudeWritten
  <2> QED
    BY <1>1, <2>1, ElementOfSeq DEF ClaudeWritten
<1>3. q \in ClaudeState /\ q.current = Len(q.steps)
  BY DEF ClaudeTailed
<1>4. PICK m \in Nat : /\ Alike(p.steps, p.where, L, q.steps, q.where, M, m)
                       /\ \A x \in from .. n : recs[x].kind = "prompt" =>
                            Marks(p.steps, L, q.steps, M, m, C!Native(x))
  BY DEF ClaudeTailed
<1>5. m # 0 \/ r.kind = "prompt"
  <2>1. CASE from = n + 1
    BY <1>1, <2>1
  <2>2. CASE from # n + 1
    <3>1. from \in from .. n
      BY <2>2
    <3>2. Marks(p.steps, L, q.steps, M, m, C!Native(from))
      BY <1>4, <3>1
    <3>3. 1 .. m # {}
      BY <3>2 DEF Marks
    <3> QED
      BY <3>3
  <2> QED
    BY <2>1, <2>2
<1>6. p \in ClaudeState /\ p.current = Len(p.steps) /\ Located(p.steps, p.where)
  BY ToldLocated DEF ClaudeSound
<1>7. ClaudeFollow(p, q, L, M, m, r, p2, q2)
  <2>1. p2 = C!Take(p, r) /\ q2 = C!Take(q, r)
    BY <1>1
  <2>2. r.kind \in {"prompt", "padded", "compact"} => r.id # 0
    BY <1>2
  <2> QED
    BY <1>2, <1>3, <1>4, <1>5, <1>6, <2>1, <2>2, ClaudeFollows
<1>8. PICK k \in {m, m + 1} : Alike(p2.steps, p2.where, L, q2.steps, q2.where, M, k)
  BY <1>7 DEF ClaudeFollow, Together
<1>9. Keeps(p.steps, p2.steps) /\ Keeps(q.steps, q2.steps)
  BY <1>7 DEF ClaudeFollow, Together
<1>10. ASSUME NEW x \in from .. n + 1, recs[x].kind = "prompt"
       PROVE  Marks(p2.steps, L, q2.steps, M, k, C!Native(x))
  <2>1. CASE x = n + 1
    <3>1. r.kind = "prompt" /\ r.id = x
      BY <1>1, <1>2, <1>10, <2>1
    <3>2. Marks(p2.steps, L, q2.steps, M, k, C!Native(r.id))
      BY <1>7, <1>8, <3>1 DEF ClaudeFollow
    <3> QED
      BY <3>1, <3>2
  <2>2. CASE x # n + 1
    <3>1. x \in from .. n
      BY <2>2
    <3>2. Marks(p.steps, L, q.steps, M, m, C!Native(x))
      BY <1>4, <1>10, <3>1
    <3>3. PICK id : id = C!Native(x)
      OBVIOUS
    <3>4. Marks(p2.steps, L, q2.steps, M, k, id)
      BY <1>4, <1>8, <1>9, <3>2, <3>3, MarksKept
    <3> QED
      BY <3>3, <3>4
  <2> QED
    BY <2>1, <2>2
<1>11. k \in Nat /\ q2 \in ClaudeState /\ q2.current = Len(q2.steps)
  BY <1>7, <1>8 DEF ClaudeFollow
<1> QED
  BY <1>8, <1>10, <1>11 DEF ClaudeTailed

\* A transcript that begins with the summary of a compaction and goes on with another one.
ClaudeContext(recs, from, D, whole) ==
    /\ whole \in Seq(ClaudeRecord) /\ Len(whole) = D + 3
    /\ whole[1].kind = "hidden" /\ whole[2].kind = "compact"
    /\ \A j \in 0 .. D : whole[3 + j] = recs[from + j]

\* What a summary leaves to the parser.
LEMMA ClaudeSummary ==
    ASSUME NEW recs, NEW from, NEW D \in Nat, NEW whole, ClaudeContext(recs, from, D, whole),
           NEW b, IsClaudeRun(b, whole)
    PROVE  /\ b[2] \in ClaudeState /\ b[2].current = Len(b[2].steps) /\ Len(b[2].steps) = 1
           /\ b[2].steps[1].tools = <<>> /\ DOMAIN b[2].where = {}
<1>1. /\ whole \in Seq(ClaudeRecord) /\ Len(whole) = D + 3
      /\ whole[1].kind = "hidden" /\ whole[2].kind = "compact"
  BY DEF ClaudeContext
<1>2. whole[1] \in ClaudeRecord /\ whole[2] \in ClaudeRecord
  <2>1. 1 \in 1 .. Len(whole) /\ 2 \in 1 .. Len(whole)
    BY <1>1
  <2> QED
    BY <1>1, <2>1, ElementOfSeq
<1>3. b[0] = C!Empty /\ b[1] = C!Take(b[0], whole[1]) /\ b[2] = C!Take(b[1], whole[2])
  <2>1. 0 \in 0 .. Len(whole) /\ 1 \in 0 .. Len(whole) /\ 2 \in 0 .. Len(whole)
    BY <1>1
  <2>2. \A i \in 0 .. Len(whole) : b[i] = IF i = 0 THEN C!Empty ELSE C!Take(b[i - 1], whole[i])
    BY DEF IsClaudeRun
  <2>3. 1 - 1 = 0 /\ 2 - 1 = 1
    OBVIOUS
  <2> QED
    BY <2>1, <2>2, <2>3
<1>4. b[1] = C!Empty
  BY <1>1, <1>2, <1>3, ClaudeTakes
<1>5. PICK p, q, r : p = b[1] /\ q = b[2] /\ r = whole[2]
  OBVIOUS
<1>6. /\ p \in ClaudeState /\ p.steps = <<>> /\ p.where = <<>> /\ r \in ClaudeRecord
      /\ q = C!OnPrompt(p, r)
  <2>1. C!Empty.where = <<>>
    BY DEF C!Empty
  <2>2. q = C!OnPrompt(p, r)
    BY <1>1, <1>2, <1>3, <1>5, ClaudeTakes
  <2> QED
    BY <1>2, <1>4, <1>5, <2>1, <2>2, EmptyState
<1>7. PICK id, s : id = (IF r.id = 0 THEN C!Ordinal(Len(p.steps)) ELSE C!Native(r.id)) /\ s = PromptedStep(id)
  OBVIOUS
<1>8. q \in ClaudeState /\ s \in Step /\ q.steps = Append(p.steps, s) /\ q.current = Len(q.steps) /\ q.where = p.where
  BY <1>6, <1>7, ClaudePrompt
<1>9. s.tools = <<>>
  BY <1>7 DEF PromptedStep
<1>10. Len(q.steps) = 1 /\ q.steps[1] = s
  BY <1>6, <1>8
<1>11. DOMAIN q.where = {}
  BY <1>6, <1>8
<1> QED
  BY <1>5, <1>8, <1>9, <1>10, <1>11

\* Before the first record of the tail.
LEMMA ClaudeTailedFirst ==
    ASSUME NEW recs, NEW n \in Nat, NEW p, ClaudeSound(recs, n, p),
           NEW q \in ClaudeState, q.current = Len(q.steps), Len(q.steps) = 1,
           q.steps[1].tools = <<>>, DOMAIN q.where = {}
    PROVE  ClaudeTailed(recs, n + 1, n, p, q, Len(p.steps), 1)
<1>1. p \in ClaudeState /\ Located(p.steps, p.where)
  BY ToldLocated DEF ClaudeSound
<1>2. PICK s, v, t, w : s = p.steps /\ v = p.where /\ t = q.steps /\ w = q.where
  OBVIOUS
<1>3. /\ s \in Seq(Step) /\ v \in Places /\ t \in Seq(Step) /\ w \in Places
      /\ Len(s) \in Nat
  BY <1>1, <1>2, ClaudeFields
<1>4. \A c \in DOMAIN v : v[c][1] \in 1 .. Len(s)
  BY <1>1, <1>2 DEF Located
<1>5. \A c \in DOMAIN v : v[c][1] <= Len(s)
  BY <1>3, <1>4
<1>6. Len(t) = 1 /\ t[1].tools = <<>> /\ DOMAIN w = {}
  BY <1>2
<1>7. Alike(s, v, Len(s), t, w, 1, 0)
  <2>1. Len(s) = Len(s) + 0 /\ Len(t) = 1 + 0 /\ 1 .. 0 = {} /\ \A i \in 1 .. 1 : i = 1
    BY <1>3, <1>6
  <2> QED
    BY <1>3, <1>5, <1>6, <2>1 DEF Alike
<1>8. n + 1 .. n = {}
  OBVIOUS
<1> QED
  BY <1>2, <1>7, <1>8 DEF ClaudeTailed

\* At the end of the transcript.
LEMMA ClaudeTailedAll ==
    ASSUME NEW recs, ClaudeWritten(recs), NEW a, IsClaudeRun(a, recs),
           NEW from \in 1 .. Len(recs), recs[from].kind = "prompt",
           NEW D, D = Len(recs) - from, NEW whole, ClaudeContext(recs, from, D, whole),
           NEW b, IsClaudeRun(b, whole)
    PROVE  \E L : ClaudeTailed(recs, from, Len(recs), a[Len(recs)], b[Len(whole)], L, 1)
<1>1. /\ D \in Nat /\ from \in Nat /\ Len(recs) \in Nat /\ from + D = Len(recs)
      /\ from - 1 \in 0 .. Len(recs) /\ from - 1 + 1 = from /\ Len(whole) = D + 3
  <2>1. recs \in Seq(ClaudeRecord)
    BY DEF ClaudeWritten
  <2>2. Len(recs) \in Nat
    BY <2>1
  <2>3. Len(whole) = D + 3
    BY DEF ClaudeContext
  <2> QED
    BY <2>2, <2>3
<1>2. PICK L : L = Len(a[from - 1].steps)
  OBVIOUS
<1>3. \A n \in 0 .. Len(recs) : ClaudeSound(recs, n, a[n])
  BY ClaudeRunSound
<1> DEFINE T == {j \in 0 .. D + 1 : ClaudeTailed(recs, from, from - 1 + j, a[from - 1 + j], b[2 + j], L, 1)}
<1>4. 0 \in T
  <2>1. PICK n \in Nat : n = from - 1
    BY <1>1
  <2>2. PICK q : q = b[2]
    OBVIOUS
  <2>3. /\ q \in ClaudeState /\ q.current = Len(q.steps) /\ Len(q.steps) = 1
        /\ q.steps[1].tools = <<>> /\ DOMAIN q.where = {}
    <3>1. D \in Nat
      BY <1>1
    <3>2. /\ b[2] \in ClaudeState /\ b[2].current = Len(b[2].steps) /\ Len(b[2].steps) = 1
          /\ b[2].steps[1].tools = <<>> /\ DOMAIN b[2].where = {}
      BY <3>1, ClaudeSummary, Zenon
    <3> QED
      BY <2>2, <3>2
  <2>4. ClaudeSound(recs, n, a[n])
    BY <1>1, <1>3, <2>1
  <2>5. PICK p : p = a[n]
    OBVIOUS
  <2>6. ClaudeTailed(recs, n + 1, n, p, q, Len(p.steps), 1)
    BY <2>3, <2>4, <2>5, ClaudeTailedFirst
  <2>7. L = Len(p.steps)
    BY <1>2, <2>1, <2>5
  <2>8. n + 1 = from /\ from - 1 + 0 = n /\ 2 + 0 = 2 /\ 0 \in 0 .. D + 1
    BY <1>1, <2>1
  <2> QED
    BY <2>2, <2>5, <2>6, <2>7, <2>8
<1>5. ASSUME NEW j \in 0 .. D + 1, j # D + 1, j \in T
      PROVE  j + 1 \in T
  <2>1. PICK n \in Nat : n = from - 1 + j
    BY <1>1
  <2>2. /\ n + 1 <= Len(recs) /\ n \in 0 .. Len(recs) /\ from <= n + 1 /\ n + 1 = from + j /\ j \in 0 .. D
        /\ from - 1 + (j + 1) = n + 1 /\ 2 + (j + 1) = 3 + j /\ j + 1 \in 0 .. D + 1
    BY <1>1, <1>5, <2>1
  <2>3. PICK p, q, r : p = a[n] /\ q = b[2 + j] /\ r = recs[n + 1]
    OBVIOUS
  <2>4. ClaudeTailed(recs, from, n, p, q, L, 1)
    BY <1>5, <2>1, <2>3
  <2>5. a[n + 1] = C!Take(p, r)
    <3>1. n + 1 \in 0 .. Len(recs) /\ n + 1 # 0 /\ n + 1 - 1 = n
      BY <1>1, <2>1, <2>2
    <3> QED
      BY <2>3, <3>1 DEF IsClaudeRun
  <2>6. b[3 + j] = C!Take(q, r)
    <3>1. 3 + j \in 0 .. Len(whole) /\ 3 + j # 0 /\ 3 + j - 1 = 2 + j
      BY <1>1, <2>2
    <3>2. whole[3 + j] = r
      BY <2>2, <2>3 DEF ClaudeContext
    <3>3. \A i \in 0 .. Len(whole) : b[i] = IF i = 0 THEN C!Empty ELSE C!Take(b[i - 1], whole[i])
      BY DEF IsClaudeRun
    <3>4. b[3 + j] = C!Take(b[3 + j - 1], whole[3 + j])
      BY <3>1, <3>3
    <3> QED
      BY <2>3, <3>1, <3>2, <3>4
  <2>7. ClaudeSound(recs, n, p)
    BY <1>3, <2>2, <2>3
  <2>8. PICK p2, q2 : p2 = a[n + 1] /\ q2 = b[3 + j]
    OBVIOUS
  <2>9. ClaudeTailed(recs, from, n + 1, p2, q2, L, 1)
    <3>1. p2 = C!Take(p, recs[n + 1]) /\ q2 = C!Take(q, recs[n + 1])
      BY <2>3, <2>5, <2>6, <2>8
    <3> QED
      BY <1>1, <2>2, <2>4, <2>7, <3>1, ClaudeTailedNext
  <2> QED
    BY <2>2, <2>8, <2>9
<1>6. \A j \in 0 .. D + 1 : j \in T
  <2> HIDE DEF T
  <2>1. D + 1 \in Nat
    BY <1>1
  <2> QED
    BY <1>4, <1>5, <2>1, UpTo
<1>7. D + 1 \in 0 .. D + 1 /\ from - 1 + (D + 1) = Len(recs) /\ 2 + (D + 1) = Len(whole)
  BY <1>1
<1>8. ClaudeTailed(recs, from, Len(recs), a[Len(recs)], b[Len(whole)], L, 1)
  BY <1>6, <1>7
<1> QED
  BY <1>8

\* A prompt of the tail is in the steps of the transcript and of the fork, with the same calls.
Carried(s, t, id) ==
    \E i \in DOMAIN s, j \in DOMAIN t : s[i].id = id /\ t[j].id = id /\ s[i].tools = t[j].tools

\* What both parsers have under a name, both have with the same calls.
LEMMA MarksCarry ==
    ASSUME NEW s, NEW v, NEW L, NEW t, NEW w, NEW M, NEW m, Alike(s, v, L, t, w, M, m),
           NEW id, Marks(s, L, t, M, m, id)
    PROVE  Carried(s, t, id)
<1>1. /\ s \in Seq(Step) /\ t \in Seq(Step)
      /\ L \in Nat /\ M \in Nat /\ m \in Nat /\ Len(s) = L + m /\ Len(t) = M + m
      /\ \A i \in 1 .. m : s[L + i].tools = t[M + i].tools
  BY DEF Alike
<1>2. PICK i \in 1 .. m : s[L + i].id = id /\ t[M + i].id = id
  BY DEF Marks
<1>3. PICK x, y : x = L + i /\ y = M + i
  OBVIOUS
<1>4. x \in 1 .. Len(s) /\ y \in 1 .. Len(t)
  BY <1>1, <1>3
<1>5. x \in DOMAIN s /\ y \in DOMAIN t
  BY <1>1, <1>4
<1>6. s[x].id = id /\ t[y].id = id /\ s[x].tools = t[y].tools
  BY <1>1, <1>2, <1>3
<1> QED
  BY <1>5, <1>6 DEF Carried

Increasing(f) == f \in Seq(Nat) /\ \A i, j \in 1 .. Len(f) : i < j => f[i] < f[j]
Covers(f, g) == \A i \in 1 .. Len(f) : \E j \in 1 .. Len(g) : g[j] = f[i]

\* Of two increasing lists with the same numbers one is the beginning of the other,
LEMMA IncreasingBegins ==
    ASSUME NEW f, Increasing(f), NEW g, Increasing(g), Covers(f, g), Covers(g, f)
    PROVE  Len(f) <= Len(g) /\ \A i \in 1 .. Len(f) : f[i] = g[i]
<1>1. PICK F, G : F = Len(f) /\ G = Len(g)
  OBVIOUS
<1>2. F \in Nat /\ G \in Nat
  BY <1>1 DEF Increasing
<1>3. /\ \A i \in 1 .. F : f[i] \in Nat
      /\ \A i \in 1 .. G : g[i] \in Nat
  BY <1>1, ElementOfSeq DEF Increasing
<1>4. /\ \A i, j \in 1 .. F : i < j => f[i] < f[j]
      /\ \A i, j \in 1 .. G : i < j => g[i] < g[j]
  BY <1>1 DEF Increasing
<1> DEFINE T == {n \in 0 .. F : n <= G /\ \A i \in 1 .. n : f[i] = g[i]}
<1>5. 0 \in T
  BY <1>2
<1>6. ASSUME NEW n \in 0 .. F, n # F, n \in T PROVE n + 1 \in T
  <2>1. n \in Nat /\ n + 1 \in 1 .. F /\ n + 1 \in 0 .. F /\ n <= G
    BY <1>2, <1>6
  <2>2. \A i \in 1 .. n : f[i] = g[i] /\ i \in 1 .. F /\ i \in 1 .. G
    BY <1>2, <1>6, <2>1
  <2>3. PICK j \in 1 .. G : g[j] = f[n + 1]
    BY <1>1, <2>1 DEF Covers
  <2>4. ~(j <= n)
    <3> SUFFICES ASSUME j <= n PROVE FALSE
      OBVIOUS
    <3>1. j \in 1 .. n /\ j < n + 1
      BY <2>1
    <3>2. f[j] = g[j] /\ f[j] < f[n + 1] /\ f[j] \in Nat /\ f[n + 1] \in Nat
      BY <1>3, <1>4, <2>1, <2>2, <3>1
    <3> QED
      BY <2>3, <3>2
  <2>5. n + 1 \in 1 .. G /\ n + 1 <= G
    BY <1>2, <2>1, <2>4
  <2>6. PICK i \in 1 .. F : f[i] = g[n + 1]
    BY <1>1, <2>5 DEF Covers
  <2>7. ~(i <= n)
    <3> SUFFICES ASSUME i <= n PROVE FALSE
      OBVIOUS
    <3>1. i \in 1 .. n /\ i < n + 1
      BY <2>1
    <3>2. f[i] = g[i] /\ i \in 1 .. G
      BY <2>2, <3>1
    <3>3. g[i] < g[n + 1] /\ g[i] \in Nat /\ g[n + 1] \in Nat
      BY <1>3, <1>4, <2>5, <3>1, <3>2
    <3> QED
      BY <2>6, <3>2, <3>3
  <2>8. f[n + 1] <= f[i] /\ f[n + 1] \in Nat /\ f[i] \in Nat
    <3>1. f[n + 1] \in Nat /\ f[i] \in Nat
      BY <1>3, <2>1
    <3>2. i = n + 1 \/ n + 1 < i
      BY <2>1, <2>7
    <3>3. i # n + 1 => f[n + 1] < f[i]
      BY <1>4, <2>1, <3>2
    <3> QED
      BY <3>1, <3>3
  <2>9. g[n + 1] <= g[j] /\ g[n + 1] \in Nat /\ g[j] \in Nat
    <3>1. g[n + 1] \in Nat /\ g[j] \in Nat
      BY <1>3, <2>5
    <3>2. j = n + 1 \/ n + 1 < j
      BY <2>1, <2>4
    <3>3. j # n + 1 => g[n + 1] < g[j]
      BY <1>4, <2>5, <3>2
    <3> QED
      BY <3>1, <3>3
  <2>10. f[n + 1] = g[n + 1]
    BY <2>3, <2>6, <2>8, <2>9
  <2>11. \A k \in 1 .. n + 1 : k = n + 1 \/ k \in 1 .. n
    BY <2>1
  <2> QED
    BY <2>1, <2>2, <2>5, <2>10, <2>11
<1> HIDE DEF T
<1>7. \A n \in 0 .. F : n \in T
  BY <1>2, <1>5, <1>6, UpTo
<1>8. F \in T
  BY <1>2, <1>7
<1> QED
  BY <1>1, <1>8 DEF T

\* so both are the same.
LEMMA IncreasingSame ==
    ASSUME NEW f, Increasing(f), NEW g, Increasing(g), Covers(f, g), Covers(g, f)
    PROVE  Len(f) = Len(g) /\ \A i \in 1 .. Len(f) : f[i] = g[i]
<1>1. Len(f) <= Len(g) /\ \A i \in 1 .. Len(f) : f[i] = g[i]
  BY IncreasingBegins
<1>2. Len(g) <= Len(f)
  BY IncreasingBegins
<1>3. Len(f) \in Nat /\ Len(g) \in Nat
  BY DEF Increasing
<1> QED
  BY <1>1, <1>2, <1>3

\* The places of one list that are also places of another, in the same order.
CarriedOver(e, K, Q, from, N, P) ==
    /\ \A y \in 1 .. K : y \in Q => e[y] \in P /\ e[y] \in from .. N
    /\ \A y, z \in 1 .. K : y \in Q /\ z \in Q /\ y < z => e[y] < e[z]
    /\ \A x \in from .. N : x \in P => \E y \in 1 .. K : y \in Q /\ e[y] = x

\* They are the places of the other from some place on: from is behind the first s of them.
Splits(W, N, P, s, from) ==
    /\ N \in Nat /\ Orderly(W, N, P) /\ from \in Nat \ {0} /\ s \in 0 .. Len(W)
    /\ \A j \in 1 .. Len(W) : from <= W[j] <=> s < j

Follows(V, W, s, e) ==
    Len(V) + s = Len(W) /\ \A n \in 1 .. Len(V) : e[V[n]] = W[s + n]

\* The places that are carried over are the last ones of the list, one by one: there are as
\* many, and both go up.
LEMMA PlacesCarried ==
    ASSUME NEW N, NEW P, NEW W, NEW s, NEW from, Splits(W, N, P, s, from),
           NEW K \in Nat, NEW Q, NEW V, Orderly(V, K, Q), NEW e, CarriedOver(e, K, Q, from, N, P)
    PROVE  Follows(V, W, s, e)
<1>0. /\ N \in Nat /\ Orderly(W, N, P) /\ from \in Nat \ {0} /\ s \in 0 .. Len(W)
      /\ \A j \in 1 .. Len(W) : from <= W[j] <=> s < j
  BY DEF Splits
<1>1. PICK w, v : w = Len(W) /\ v = Len(V)
  OBVIOUS
<1>2. /\ w \in Nat /\ \A j \in 1 .. w : W[j] \in P /\ W[j] \in 1 .. N
      /\ \A i, j \in 1 .. w : i < j => W[i] < W[j]
      /\ \A x \in 1 .. N : x \in P => \E j \in 1 .. w : W[j] = x
  <2>1. Len(W) \in Nat
    BY <1>0 DEF Orderly
  <2> QED
    BY <1>0, <1>1, <2>1 DEF Orderly
<1>3. /\ v \in Nat /\ \A j \in 1 .. v : V[j] \in Q /\ V[j] \in 1 .. K
      /\ \A i, j \in 1 .. v : i < j => V[i] < V[j]
      /\ \A x \in 1 .. K : x \in Q => \E j \in 1 .. v : V[j] = x
  <2>1. Len(V) \in Nat
    BY DEF Orderly
  <2> QED
    BY <1>1, <2>1 DEF Orderly
<1>4. s \in 0 .. w /\ w - s \in Nat /\ \A j \in 1 .. w : from <= W[j] <=> s < j
  BY <1>0, <1>1, <1>2
<1>5. PICK f : f = [n \in 1 .. v |-> e[V[n]]]
  OBVIOUS
<1>6. PICK g : g = [n \in 1 .. w - s |-> W[s + n]]
  OBVIOUS
<1>7. Increasing(f) /\ Len(f) = v
  <2>1. \A n \in 1 .. v : e[V[n]] \in Nat
    BY <1>0, <1>3 DEF CarriedOver
  <2>2. f \in Seq(Nat) /\ Len(f) = v
    <3>1. v \in Nat
      BY <1>3
    <3>2. f \in [1 .. v -> Nat]
      BY <1>5, <2>1, Zenon
    <3> QED
      BY <3>1, <3>2
  <2>3. \A i, j \in 1 .. v : i < j => f[i] < f[j]
    BY <1>3, <1>5 DEF CarriedOver
  <2> QED
    BY <2>2, <2>3 DEF Increasing
<1>8. Increasing(g) /\ Len(g) = w - s
  <2>1. \A n \in 1 .. w - s : s + n \in 1 .. w
    BY <1>2, <1>4
  <2>2. g \in Seq(Nat) /\ Len(g) = w - s
    BY <1>2, <1>4, <1>6, <2>1
  <2>3. \A i, j \in 1 .. w - s : i < j => g[i] < g[j]
    <3>1. \A i, j \in 1 .. w - s : i < j => s + i < s + j
      BY <1>4
    <3> QED
      BY <1>2, <1>6, <2>1, <3>1
  <2> QED
    BY <2>2, <2>3 DEF Increasing
<1>9. Covers(f, g)
  <2> SUFFICES ASSUME NEW i \in 1 .. v PROVE \E j \in 1 .. w - s : g[j] = f[i]
    BY <1>7, <1>8 DEF Covers
  <2>1. PICK x : x = f[i]
    OBVIOUS
  <2>2. x = e[V[i]] /\ V[i] \in Q /\ V[i] \in 1 .. K
    BY <1>3, <1>5, <2>1
  <2>3. x \in P /\ x \in from .. N
    BY <2>2 DEF CarriedOver
  <2>4. x \in 1 .. N /\ from <= x
    BY <1>0, <2>3
  <2>5. PICK j \in 1 .. w : W[j] = x
    BY <1>2, <2>3, <2>4
  <2>6. s < j
    BY <1>4, <2>4, <2>5
  <2>7. j - s \in 1 .. w - s /\ s + (j - s) = j
    BY <1>2, <1>4, <2>6
  <2>8. g[j - s] = x
    BY <1>6, <2>5, <2>7
  <2> QED
    BY <2>1, <2>7, <2>8
<1>10. Covers(g, f)
  <2> SUFFICES ASSUME NEW i \in 1 .. w - s PROVE \E j \in 1 .. v : f[j] = g[i]
    BY <1>7, <1>8 DEF Covers
  <2>1. PICK x, k : k = s + i /\ x = W[k]
    OBVIOUS
  <2>2. k \in 1 .. w /\ s < k
    BY <1>2, <1>4, <2>1
  <2>3. x \in P /\ x \in 1 .. N /\ from <= x /\ g[i] = x
    BY <1>2, <1>4, <1>6, <2>1, <2>2
  <2>4. x \in from .. N
    BY <1>0, <2>3
  <2>5. PICK y \in 1 .. K : y \in Q /\ e[y] = x
    BY <2>3, <2>4 DEF CarriedOver
  <2>6. PICK j \in 1 .. v : V[j] = y
    BY <1>3, <2>5
  <2>7. f[j] = x
    BY <1>5, <2>5, <2>6
  <2> QED
    BY <2>3, <2>7
<1>11. Len(f) = Len(g) /\ \A i \in 1 .. Len(f) : f[i] = g[i]
  BY <1>7, <1>8, <1>9, <1>10, IncreasingSame
<1>12. v = w - s
  BY <1>7, <1>8, <1>11
<1>13. \A n \in 1 .. v : e[V[n]] = W[s + n]
  BY <1>5, <1>6, <1>7, <1>11, <1>12
<1> QED
  BY <1>1, <1>2, <1>4, <1>12, <1>13 DEF Follows

PromptPlaces(recs) == {i \in DOMAIN recs : recs[i].kind = "prompt"}

\* Places that are selected from all of them.
LEMMA SelectedPlaces ==
    ASSUME NEW N \in Nat, NEW seq, seq = [i \in 1 .. N |-> i], NEW places
    PROVE  Orderly(Selection(seq, places), N, places)
<1>1. Len(seq) = N /\ \A i \in 1 .. N : seq[i] = i
  OBVIOUS
<1>2. Len(seq) \in Nat
  BY <1>1
<1>3. PICK u : IsSelection(u, seq, places) /\ Selection(seq, places) = u[Len(seq)]
  BY <1>2, SelectionIs
<1>4. \A n \in 0 .. N : Orderly(u[n], n, places)
  BY <1>1, <1>3, PlacesOrderly
<1>5. N \in 0 .. N
  OBVIOUS
<1> QED
  BY <1>1, <1>3, <1>4, <1>5

\* The prompts of a transcript are its steps, in order.
LEMMA ClaudeStarts ==
    ASSUME NEW recs \in Seq(ClaudeRecord)
    PROVE  Orderly(C!Starts(recs), Len(recs), PromptPlaces(recs))
<1>1. PICK N \in Nat : N = Len(recs) /\ DOMAIN recs = 1 .. N
  OBVIOUS
<1>2. PICK seq, places : seq = [i \in 1 .. N |-> i] /\ places = PromptPlaces(recs)
  OBVIOUS
<1>3. C!Starts(recs) = Selection([i \in DOMAIN recs |-> i], {i \in DOMAIN recs : recs[i].kind = "prompt"})
  BY Zenon DEF C!Starts, C!IsPrompt, C!Selection, Selection
<1>4. seq = [i \in DOMAIN recs |-> i]
  BY <1>1, <1>2, Zenon
<1>5. C!Starts(recs) = Selection(seq, places)
  BY <1>2, <1>3, <1>4, Zenon DEF PromptPlaces
<1>6. Orderly(Selection(seq, places), N, places)
  BY <1>2, SelectedPlaces
<1> QED
  BY <1>1, <1>2, <1>5, <1>6

\* The tail of a transcript begins at the first of the last prompts.
FromStart(W, N, s, from) ==
    /\ s \in 0 .. Len(W) /\ from \in 1 .. N + 1
    /\ s = Len(W) => from = N + 1
    /\ s # Len(W) => from = W[s + 1]

\* TailStart of Claude Code is the place of the first kept prompt, or the end.
LEMMA ClaudeTailStart ==
    ASSUME NEW recs, ClaudeWritten(recs), NEW W, W = C!Starts(recs), NEW keep \in Nat,
           NEW s, s = Len(W) - C!KeptCount(W, keep), NEW from, from = C!TailStart(recs, W, keep)
    PROVE  FromStart(W, Len(recs), s, from)
<1>1. recs \in Seq(ClaudeRecord) /\ Len(recs) \in Nat /\ DOMAIN recs = 1 .. Len(recs)
  BY DEF ClaudeWritten
<1>2. Orderly(W, Len(recs), PromptPlaces(recs))
  BY <1>1, ClaudeStarts
<1>3. PICK w \in Nat : w = Len(W)
  BY <1>2 DEF Orderly
<1>4. PICK k \in 0 .. w : k = C!KeptCount(W, keep) /\ s = w - k
  <2>1. PICK k : k = C!KeptCount(W, keep)
    OBVIOUS
  <2>2. k = IF keep < w THEN keep ELSE w
    BY <1>3, <2>1 DEF C!KeptCount
  <2>3. k \in 0 .. w
    BY <2>2
  <2> QED
    BY <1>3, <2>1, <2>3
<1>5. CASE k = 0
  <2>1. from = Len(recs) + 1
    BY <1>4, <1>5, Zenon DEF C!TailStart
  <2>2. s = w /\ s \in 0 .. w /\ from \in 1 .. Len(recs) + 1
    BY <1>1, <1>3, <1>4, <1>5, <2>1
  <2> QED
    BY <1>3, <2>1, <2>2 DEF FromStart
<1>6. CASE k # 0
  <2>1. s \in 0 .. w /\ s # w /\ s + 1 \in 1 .. w
    BY <1>3, <1>4, <1>6
  <2>2. PICK x : x = W[s + 1]
    OBVIOUS
  <2>3. x \in PromptPlaces(recs) /\ x \in 1 .. Len(recs)
    BY <1>2, <1>3, <2>1, <2>2 DEF Orderly
  <2>4. recs[x].id = x /\ x # 0
    BY <2>3 DEF ClaudeWritten, PromptPlaces
  <2>5. C!StepName(recs, W, s + 1) = C!Native(x)
    BY <2>2, <2>4 DEF C!StepName
  <2>6. from = C!First(C!Anchors(recs, C!Native(x)), Len(recs) + 1)
    <3>1. Len(W) - C!KeptCount(W, keep) = s /\ C!KeptCount(W, keep) # 0
      BY <1>4, <1>6
    <3>2. from = C!First(C!Anchors(recs, C!StepName(recs, W, s + 1)), Len(recs) + 1)
      BY <3>1, Zenon DEF C!TailStart
    <3> QED
      BY <2>5, <3>2
  <2>7. C!Anchors(recs, C!Native(x)) = {x}
    <3>1. \A i \in DOMAIN recs : recs[i].id # 0 /\ C!Native(recs[i].id) = C!Native(x) <=> i = x
      <4>1. \A i \in DOMAIN recs : C!Native(recs[i].id) = C!Native(x) <=> recs[i].id = x
        BY DEF C!Native
      <4>2. \A i \in DOMAIN recs : recs[i].id \in {0, i}
        BY <1>1 DEF ClaudeWritten
      <4> QED
        BY <2>4, <4>1, <4>2
    <3>2. x \in DOMAIN recs
      BY <1>1, <2>3
    <3> QED
      BY <3>1, <3>2, Zenon DEF C!Anchors
  <2>8. from = x
    <3>1. {x} \subseteq 1 .. Len(recs) /\ {x} # {}
      BY <2>3
    <3>2. PICK d : d = Len(recs) + 1
      OBVIOUS
    <3>3. from = C!First({x}, d)
      BY <2>6, <2>7, <3>2
    <3>4. from \in {x}
      BY <1>1, <3>1, <3>3, FirstIs
    <3> QED
      BY <3>4
  <2>9. from \in 1 .. Len(recs) + 1
    BY <1>1, <2>3, <2>8
  <2> QED
    BY <1>3, <2>1, <2>2, <2>8, <2>9 DEF FromStart
<1> QED
  BY <1>5, <1>6

\* A list that has the places of prompts has those from some place on behind a number of them.
LEMMA FromPlaces ==
    ASSUME NEW N \in Nat, NEW P, NEW W, Orderly(W, N, P), NEW s, NEW from, FromStart(W, N, s, from)
    PROVE  \A j \in 1 .. Len(W) : from <= W[j] <=> s < j
<1>1. PICK w \in Nat : w = Len(W)
  BY DEF Orderly
<1>2. /\ \A j \in 1 .. w : W[j] \in 1 .. N
      /\ \A i, j \in 1 .. w : i < j => W[i] < W[j]
  BY <1>1 DEF Orderly
<1>3. s \in 0 .. w /\ (s = w => from = N + 1) /\ (s # w => from = W[s + 1])
  BY <1>1 DEF FromStart
<1>4. CASE s = w
  BY <1>1, <1>2, <1>3, <1>4
<1>5. CASE s # w
  <2>1. s + 1 \in 1 .. w /\ from = W[s + 1]
    BY <1>3, <1>5
  <2> SUFFICES ASSUME NEW j \in 1 .. w PROVE from <= W[j] <=> s < j
    BY <1>1
  <2>2. W[j] \in Nat /\ from \in Nat
    BY <1>2, <2>1
  <2>3. CASE j = s + 1
    BY <1>3, <2>1, <2>2, <2>3
  <2>4. CASE j < s + 1
    <3>1. W[j] < from
      BY <1>2, <2>1, <2>4
    <3> QED
      BY <1>3, <2>2, <2>4, <3>1
  <2>5. CASE s + 1 < j
    <3>1. from < W[j]
      BY <1>2, <2>1, <2>5
    <3> QED
      BY <1>3, <2>2, <2>5, <3>1
  <2> QED
    BY <1>3, <2>3, <2>4, <2>5
<1> QED
  BY <1>4, <1>5

\* What is left out of a transcript says nothing behind other records either.
LEMMA ClaudeKeptBehind ==
    ASSUME NEW recs \in Seq(ClaudeRecord), NEW head \in Seq(ClaudeRecord)
    PROVE  C!Parse(head \o C!Kept(recs)) = C!Parse(head \o recs)
<1> DEFINE places == {i \in DOMAIN recs : recs[i].kind # "last-prompt"}
<1>1. PICK N \in Nat : N = Len(recs) /\ DOMAIN recs = 1 .. N
  OBVIOUS
<1>2. PICK u : IsSelection(u, recs, places) /\ Selection(recs, places) = u[N]
  <2> HIDE DEF places
  <2> QED
    BY <1>1, SelectionIs
<1>3. C!Kept(recs) = Selection(recs, places)
  BY Zenon DEF C!Kept, C!Selection, Selection
<1>4. PICK H \in Nat : H = Len(head)
  OBVIOUS
<1>5. PICK all : all = head \o recs
  OBVIOUS
<1>6. /\ all \in Seq(ClaudeRecord) /\ Len(all) = H + N
      /\ \A i \in 1 .. H : all[i] = head[i]
      /\ \A i \in 1 .. N : all[H + i] = recs[i]
  BY <1>1, <1>4, <1>5
<1>7. PICK a : IsClaudeRun(a, all) /\ C!Parse(all) = a[H + N]
  <2>1. Len(all) \in Nat
    BY <1>1, <1>4, <1>6
  <2> QED
    BY <1>6, <2>1, ClaudeParses
<1>8. \A n \in 0 .. N : u[n] \in Seq(ClaudeRecord)
  <2> HIDE DEF places
  <2> QED
    BY <1>1, <1>2, SelectionType
<1>9. /\ u[0] = <<>>
      /\ \A n \in Nat : n + 1 <= N =>
           u[n + 1] = IF n + 1 \in places THEN Append(u[n], recs[n + 1]) ELSE u[n]
  <2> HIDE DEF places
  <2>1. Len(recs) \in Nat
    BY <1>1
  <2>2. Advances(u, recs, places)
    BY <1>2, <2>1, SelectionAdvances
  <2> QED
    BY <1>1, <2>2 DEF Advances
<1> DEFINE T == {n \in 0 .. N : C!Parse(head \o u[n]) = a[H + n]}
<1>10. 0 \in T
  <2>1. head \o <<>> = head
    OBVIOUS
  <2>2. PICK b : IsClaudeRun(b, head) /\ C!Parse(head) = b[H]
    BY <1>4, ClaudeParses
  <2>3. b[H] = a[H]
    <3>1. Len(head) \in Nat /\ Len(all) \in Nat /\ H <= Len(head) /\ H <= Len(all)
      BY <1>1, <1>4, <1>6
    <3>2. \A i \in 1 .. H : head[i] = all[i]
      BY <1>6
    <3> QED
      BY <1>7, <2>2, <3>1, <3>2, ClaudeRunUnique
  <2>4. H + 0 = H /\ 0 \in 0 .. N
    BY <1>1, <1>4
  <2>5. C!Parse(head \o u[0]) = C!Parse(head)
    BY <1>9, <2>1
  <2> QED
    BY <2>2, <2>3, <2>4, <2>5
<1>11. ASSUME NEW k \in 0 .. N, k # N, k \in T PROVE k + 1 \in T
  <2>1. k \in Nat /\ k + 1 \in 0 .. N /\ k + 1 <= N /\ k + 1 \in 1 .. N
        /\ H + (k + 1) \in 0 .. H + N /\ H + (k + 1) # 0 /\ H + (k + 1) - 1 = H + k
    BY <1>1, <1>4, <1>11
  <2>2. PICK r : r = recs[k + 1]
    OBVIOUS
  <2>3. r \in ClaudeRecord
    BY <1>1, <2>1, <2>2, ElementOfSeq
  <2>4. a[H + (k + 1)] = C!Take(a[H + k], r)
    <3>1. \A i \in 0 .. Len(all) : a[i] = IF i = 0 THEN C!Empty ELSE C!Take(a[i - 1], all[i])
      BY <1>7 DEF IsClaudeRun
    <3>2. a[H + (k + 1)] = C!Take(a[H + (k + 1) - 1], all[H + (k + 1)])
      BY <1>6, <2>1, <3>1
    <3>3. all[H + (k + 1)] = r
      BY <1>6, <2>1, <2>2
    <3> QED
      BY <2>1, <3>2, <3>3
  <2>5. PICK v : v = u[k]
    OBVIOUS
  <2>6. C!Parse(head \o v) = a[H + k] /\ v \in Seq(ClaudeRecord)
    BY <1>8, <1>11, <2>5
  <2>7. CASE r.kind # "last-prompt"
    <3>1. u[k + 1] = Append(v, r)
      BY <1>1, <1>9, <2>1, <2>2, <2>5, <2>7
    <3>2. head \o Append(v, r) = Append(head \o v, r)
      BY <2>3, <2>6
    <3>3. head \o v \in Seq(ClaudeRecord)
      BY <2>6
    <3>4. C!Parse(Append(head \o v, r)) = C!Take(C!Parse(head \o v), r)
      BY <2>3, <3>3, ClaudeAppend
    <3>5. C!Parse(head \o u[k + 1]) = a[H + (k + 1)]
      BY <2>4, <2>6, <3>1, <3>2, <3>4
    <3> QED
      BY <2>1, <3>5
  <2>8. CASE r.kind = "last-prompt"
    <3>1. u[k + 1] = v
      BY <1>1, <1>9, <2>1, <2>2, <2>5, <2>8
    <3>2. C!Take(a[H + k], r) = a[H + k]
      BY <2>3, <2>8, ClaudeTakes
    <3>3. C!Parse(head \o u[k + 1]) = a[H + (k + 1)]
      BY <2>4, <2>6, <3>1, <3>2
    <3> QED
      BY <2>1, <3>3
  <2> QED
    BY <2>7, <2>8
<1> HIDE DEF T
<1>12. \A n \in 0 .. N : n \in T
  BY <1>1, <1>10, <1>11, UpTo
<1>13. C!Parse(head \o u[N]) = a[H + N]
  BY <1>1, <1>12 DEF T
<1> QED
  BY <1>2, <1>3, <1>5, <1>7, <1>13

\* What a context fork of Claude Code has before its tail.
ClaudeHead(summary) ==
    <<C!Claude("hidden", 0, 0, 0, FALSE), C!Claude("compact", summary, 0, 0, FALSE)>>

\* They are proper records: one that is not shown and the summary.
LEMMA ClaudeHeads ==
    ASSUME NEW summary \in Nat, NEW h, h = ClaudeHead(summary)
    PROVE  h \in Seq(ClaudeRecord) /\ Len(h) = 2 /\ h[1].kind = "hidden" /\ h[2].kind = "compact"
<1>1. PICK x, y : x = C!Claude("hidden", 0, 0, 0, FALSE) /\ y = C!Claude("compact", summary, 0, 0, FALSE)
  OBVIOUS
<1>2. x \in ClaudeRecord /\ y \in ClaudeRecord /\ x.kind = "hidden" /\ y.kind = "compact"
  BY <1>1 DEF C!Claude, ClaudeRecord
<1>3. h = <<x, y>>
  BY <1>1 DEF ClaudeHead
<1> QED
  BY <1>2, <1>3

\* Two records and others.
AfterTwo(S, g, h, t) ==
    /\ g \in Seq(S) /\ Len(g) = 2 + Len(t) /\ g[1] = h[1] /\ g[2] = h[2]
    /\ \A j \in 1 .. Len(t) : g[2 + j] = t[j]

\* A list of two records and another behind it.
LEMMA BehindTwo ==
    ASSUME NEW S, NEW h \in Seq(S), Len(h) = 2, NEW t \in Seq(S), NEW g, g = h \o t
    PROVE  AfterTwo(S, g, h, t)
<1> DEFINE n == Len(t)
<1>1. /\ g \in Seq(S) /\ Len(g) = Len(h) + Len(t)
      /\ \A i \in 1 .. Len(h) + Len(t) : g[i] = IF i <= Len(h) THEN h[i] ELSE t[i - Len(h)]
  BY ConcatProperties
<1>2. n \in Nat
  OBVIOUS
<1>3. \A i \in 1 .. 2 + n : g[i] = IF i <= 2 THEN h[i] ELSE t[i - 2]
  BY <1>1
<1>4. ASSUME NEW j \in 1 .. n PROVE g[2 + j] = t[j]
  <2>1. PICK i : i = 2 + j
    OBVIOUS
  <2>2. i \in 1 .. 2 + n /\ ~(i <= 2) /\ i - 2 = j
    BY <1>2, <2>1
  <2>3. g[i] = t[i - 2]
    BY <1>3, <2>2
  <2> QED
    BY <2>1, <2>2, <2>3
<1> QED
  BY <1>1, <1>2, <1>3, <1>4 DEF AfterTwo

\* The tail of a transcript.
LEMMA TailOf ==
    ASSUME NEW S, NEW recs \in Seq(S), NEW from \in 1 .. Len(recs) + 1,
           NEW tail, tail = SubSeq(recs, from, Len(recs))
    PROVE  /\ tail \in Seq(S) /\ Len(tail) = Len(recs) + 1 - from
           /\ \A i \in 1 .. Len(recs) + 1 - from : tail[i] = recs[from - 1 + i]
<1>1. Len(recs) \in Nat /\ \A i \in from .. Len(recs) : recs[i] \in S
  BY ElementOfSeq
<1>2. Len(tail) = Len(recs) + 1 - from /\ \A i \in 1 .. Len(recs) + 1 - from : tail[i] = recs[from - 1 + i]
  BY <1>1
<1>3. tail \in Seq(S)
  BY <1>1
<1> QED
  BY <1>2, <1>3

\* A tail with records before it, without what is left out of a transcript.
LeftOut(recs) == {i \in DOMAIN recs : recs[i].kind # "last-prompt"}

Behind(content, h, tail, w) ==
    /\ content \in Seq(ClaudeRecord) /\ Len(content) = 2 + Len(w)
    /\ content[1] = h[1] /\ content[2] = h[2]
    /\ Orderly(w, Len(tail), LeftOut(tail))
    /\ \A j \in 1 .. Len(w) : content[2 + j] = tail[w[j]]

\* A context fork of Claude Code is such: two records, and of the tail what is kept, in order.
LEMMA ClaudeBehind ==
    ASSUME NEW h \in Seq(ClaudeRecord), Len(h) = 2, NEW tail \in Seq(ClaudeRecord),
           NEW kept, kept = C!Kept(tail), NEW content, content = h \o kept
    PROVE  \E w : Behind(content, h, tail, w)
<1>1. PICK places : places = LeftOut(tail)
  OBVIOUS
<1>2. kept = Selection(tail, places)
  BY <1>1, Zenon DEF C!Kept, C!Selection, Selection, LeftOut
<1>3. PICK w : /\ Orderly(w, Len(tail), places) /\ kept \in Seq(ClaudeRecord) /\ Len(kept) = Len(w)
               /\ \A j \in 1 .. Len(w) : kept[j] = tail[w[j]]
  BY <1>2, SelectionPlaces
<1>4. PICK k : k = Len(w)
  OBVIOUS
<1>5. /\ content \in Seq(ClaudeRecord) /\ Len(content) = 2 + k /\ content[1] = h[1] /\ content[2] = h[2]
      /\ \A j \in 1 .. k : content[2 + j] = kept[j]
  <2>1. kept \in Seq(ClaudeRecord) /\ k = Len(kept)
    BY <1>3, <1>4
  <2>2. AfterTwo(ClaudeRecord, content, h, kept)
    BY <2>1, BehindTwo, Zenon
  <2> QED
    BY <2>1, <2>2 DEF AfterTwo
<1>6. \A j \in 1 .. Len(w) : content[2 + j] = tail[w[j]]
  BY <1>3, <1>4, <1>5
<1> QED
  BY <1>1, <1>3, <1>4, <1>5, <1>6 DEF Behind

\* The records from a place on.
IsTail(tail, recs, from) ==
    /\ tail \in Seq(ClaudeRecord) /\ Len(tail) = Len(recs) + 1 - from
    /\ \A i \in 1 .. Len(recs) + 1 - from : tail[i] = recs[from - 1 + i]

\* The prompts of a context fork are those of the transcript from the tail on.
LEMMA ClaudeContents ==
    ASSUME NEW recs, ClaudeWritten(recs), NEW from \in 1 .. Len(recs) + 1,
           NEW tail, IsTail(tail, recs, from),
           NEW h, h[1].kind = "hidden", h[2].kind = "compact",
           NEW content, NEW w, Behind(content, h, tail, w),
           NEW e, e = [y \in 1 .. Len(content) |-> content[y].id]
    PROVE  /\ content \in Seq(ClaudeRecord)
           /\ CarriedOver(e, Len(content), PromptPlaces(content), from, Len(recs), PromptPlaces(recs))
<1>1. recs \in Seq(ClaudeRecord)
  BY DEF ClaudeWritten
<1>2. PICK N \in Nat : N = Len(recs) /\ DOMAIN recs = 1 .. N
  BY <1>1
<1>3. PICK T : T = N + 1 - from
  OBVIOUS
<1>4. T \in Nat /\ from \in Nat /\ from + T = N + 1 /\ from \in 1 .. N + 1
  BY <1>2, <1>3
<1>5. /\ tail \in Seq(ClaudeRecord) /\ Len(tail) = T
      /\ \A i \in 1 .. T : tail[i] = recs[from - 1 + i]
  BY <1>2, <1>3 DEF IsTail
<1>6. PICK places : places = LeftOut(tail)
  OBVIOUS
<1>8. Orderly(w, T, places) /\ \A j \in 1 .. Len(w) : content[2 + j] = tail[w[j]]
  BY <1>5, <1>6 DEF Behind
<1>9. PICK k \in Nat : k = Len(w)
  BY <1>8 DEF Orderly
<1>10. /\ \A j \in 1 .. k : w[j] \in 1 .. T
       /\ \A i, j \in 1 .. k : i < j => w[i] < w[j]
       /\ \A x \in 1 .. T : x \in places => \E j \in 1 .. k : w[j] = x
  BY <1>8, <1>9 DEF Orderly
<1>12. h[1].kind = "hidden" /\ h[2].kind = "compact"
  OBVIOUS
<1>13. content \in Seq(ClaudeRecord) /\ Len(content) = 2 + k /\ content[1] = h[1] /\ content[2] = h[2]
  BY <1>9 DEF Behind
<1> DEFINE at(j) == from - 1 + w[j]
<1>14. ASSUME NEW j \in 1 .. k
       PROVE  at(j) \in from .. N /\ content[2 + j] = recs[at(j)]
  <2>1. PICK i \in 1 .. T : i = w[j]
    BY <1>10
  <2>2. from - 1 + i \in from .. N
    BY <1>4, <2>1
  <2>3. content[2 + j] = recs[from - 1 + i]
    BY <1>5, <1>8, <1>9, <2>1
  <2> QED
    BY <2>1, <2>2, <2>3
<1>15. ASSUME NEW y \in 1 .. Len(content), y \in PromptPlaces(content)
       PROVE  \E j \in 1 .. k : y = 2 + j /\ e[y] = at(j) /\ at(j) \in PromptPlaces(recs) /\ at(j) \in from .. N
  <2>1. content[y].kind = "prompt" /\ y \in 1 .. 2 + k
    BY <1>13, <1>15 DEF PromptPlaces
  <2>2. y # 1 /\ y # 2
    BY <1>12, <1>13, <2>1
  <2>3. PICK j \in 1 .. k : y = 2 + j
    <3>1. y - 2 \in 1 .. k /\ y = 2 + (y - 2)
      BY <1>9, <2>1, <2>2
    <3> QED
      BY <3>1
  <2>4. PICK x : x = at(j)
    OBVIOUS
  <2>5. x \in from .. N /\ content[y] = recs[x]
    BY <1>14, <2>3, <2>4
  <2>6. x \in 1 .. N
    BY <1>4, <2>5
  <2>7. recs[x].kind = "prompt" /\ recs[x].id = x
    BY <1>2, <2>1, <2>5, <2>6 DEF ClaudeWritten
  <2>8. e[y] = x
    BY <2>5, <2>7
  <2>9. x \in PromptPlaces(recs)
    BY <1>2, <2>6, <2>7 DEF PromptPlaces
  <2> QED
    BY <2>3, <2>4, <2>5, <2>8, <2>9
<1>16. \A y \in 1 .. Len(content) : y \in PromptPlaces(content) =>
         e[y] \in PromptPlaces(recs) /\ e[y] \in from .. N
  BY <1>15
<1>17. ASSUME NEW y \in 1 .. Len(content), NEW z \in 1 .. Len(content),
              y \in PromptPlaces(content), z \in PromptPlaces(content), y < z
       PROVE  e[y] < e[z]
  <2>1. PICK i \in 1 .. k : y = 2 + i /\ e[y] = at(i)
    BY <1>15, <1>17
  <2>2. PICK j \in 1 .. k : z = 2 + j /\ e[z] = at(j)
    BY <1>15, <1>17
  <2>3. i < j
    BY <1>17, <2>1, <2>2
  <2>4. w[i] < w[j] /\ w[i] \in 1 .. T /\ w[j] \in 1 .. T
    BY <1>10, <2>3
  <2>5. PICK x, u : x = w[i] /\ u = w[j]
    OBVIOUS
  <2>6. from - 1 + x < from - 1 + u
    BY <1>4, <2>4, <2>5
  <2> QED
    BY <2>1, <2>2, <2>5, <2>6
<1>18. ASSUME NEW x \in from .. N, x \in PromptPlaces(recs)
       PROVE  \E y \in 1 .. Len(content) : y \in PromptPlaces(content) /\ e[y] = x
  <2>1. PICK i : i = x + 1 - from
    OBVIOUS
  <2>2. i \in 1 .. T /\ from - 1 + i = x /\ x \in 1 .. N
    BY <1>4, <2>1
  <2>3. tail[i] = recs[x] /\ recs[x].kind = "prompt"
    BY <1>5, <1>18, <2>2 DEF PromptPlaces
  <2>4. i \in places
    <3>1. DOMAIN tail = 1 .. T
      BY <1>5
    <3> QED
      BY <1>6, <2>2, <2>3, <3>1 DEF LeftOut
  <2>5. PICK j \in 1 .. k : w[j] = i
    BY <1>10, <2>2, <2>4
  <2>6. content[2 + j] = recs[x]
    BY <1>14, <2>2, <2>5
  <2>7. 2 + j \in 1 .. Len(content) /\ 2 + j \in DOMAIN content
    BY <1>9, <1>13
  <2>8. recs[x].id = x
    BY <1>2, <2>2, <2>3 DEF ClaudeWritten
  <2>9. e[2 + j] = x
    BY <2>6, <2>7, <2>8
  <2>10. 2 + j \in PromptPlaces(content)
    BY <2>3, <2>6, <2>7 DEF PromptPlaces
  <2> QED
    BY <2>7, <2>9, <2>10
<1> HIDE DEF at
<1>19. CarriedOver(e, Len(content), PromptPlaces(content), from, N, PromptPlaces(recs))
  BY <1>16, <1>17, <1>18, Zenon DEF CarriedOver
<1> QED
  BY <1>2, <1>13, <1>19

\* The prompts of the tail are steps of the fork, with their calls.
LEMMA ClaudeCarried ==
    ASSUME NEW recs, ClaudeWritten(recs), NEW from \in 1 .. Len(recs), recs[from].kind = "prompt",
           NEW tail, IsTail(tail, recs, from),
           NEW h \in Seq(ClaudeRecord), Len(h) = 2, h[1].kind = "hidden", h[2].kind = "compact",
           NEW content, content = h \o C!Kept(tail),
           NEW x \in from .. Len(recs), recs[x].kind = "prompt"
    PROVE  Carried(C!Parse(recs).steps, C!Parse(content).steps, C!Native(x))
<1>1. recs \in Seq(ClaudeRecord) /\ Len(recs) \in Nat
  BY DEF ClaudeWritten
<1>4. PICK D \in Nat : D = Len(recs) - from
  BY <1>1
<1>5. /\ tail \in Seq(ClaudeRecord) /\ Len(tail) = D + 1
      /\ \A i \in 1 .. D + 1 : tail[i] = recs[from - 1 + i]
  <2>1. Len(recs) + 1 - from = D + 1
    BY <1>1, <1>4
  <2> QED
    BY <2>1 DEF IsTail
<1>6. PICK whole : whole = h \o tail
  OBVIOUS
<1>7. ClaudeContext(recs, from, D, whole)
  <2>1. PICK n : n = D + 1
    OBVIOUS
  <2>2. n = Len(tail)
    BY <1>5, <2>1
  <2>4. /\ whole \in Seq(ClaudeRecord) /\ Len(whole) = 2 + n
        /\ whole[1] = h[1] /\ whole[2] = h[2]
        /\ \A j \in 1 .. n : whole[2 + j] = tail[j]
    <3>1. AfterTwo(ClaudeRecord, whole, h, tail)
      BY <1>5, <1>6, BehindTwo, Zenon
    <3> QED
      BY <2>2, <3>1 DEF AfterTwo
  <2>5. Len(whole) = D + 3
    BY <2>1, <2>4
  <2>3. ASSUME NEW j \in 0 .. D PROVE whole[3 + j] = recs[from + j]
    <3>1. j + 1 \in 1 .. D + 1 /\ 3 + j = 2 + (j + 1) /\ from - 1 + (j + 1) = from + j
      BY <1>1
    <3>2. whole[2 + (j + 1)] = tail[j + 1]
      BY <2>1, <2>4, <3>1
    <3>3. tail[j + 1] = recs[from - 1 + (j + 1)]
      BY <1>5, <3>1
    <3> QED
      BY <3>1, <3>2, <3>3
  <2> QED
    BY <2>3, <2>4, <2>5 DEF ClaudeContext
<1>8. PICK a : IsClaudeRun(a, recs) /\ C!Parse(recs) = a[Len(recs)]
  BY <1>1, ClaudeParses
<1>9. PICK b : IsClaudeRun(b, whole) /\ C!Parse(whole) = b[Len(whole)]
  <2>1. Len(whole) \in Nat
    BY <1>7 DEF ClaudeContext
  <2> QED
    BY <2>1, ClaudeParses
<1>10. C!Parse(content) = C!Parse(whole)
  BY <1>5, <1>6, ClaudeKeptBehind
<1>11. PICK L : ClaudeTailed(recs, from, Len(recs), a[Len(recs)], b[Len(whole)], L, 1)
  BY <1>4, <1>7, <1>8, <1>9, ClaudeTailedAll
<1>12. PICK p, q : p = C!Parse(recs) /\ q = C!Parse(content)
  OBVIOUS
<1>13. ClaudeTailed(recs, from, Len(recs), p, q, L, 1)
  BY <1>8, <1>9, <1>10, <1>11, <1>12
<1>14. PICK m \in Nat : /\ Alike(p.steps, p.where, L, q.steps, q.where, 1, m)
                        /\ Marks(p.steps, L, q.steps, 1, m, C!Native(x))
  BY <1>13 DEF ClaudeTailed
<1>15. PICK id : id = C!Native(x)
  OBVIOUS
<1>16. Carried(p.steps, q.steps, id)
  BY <1>14, <1>15, MarksCarry
<1> QED
  BY <1>12, <1>15, <1>16

\* What a context fork promises of the names of the steps, those of the digest and those of
\* the fork, and of the steps that were parsed.
LosesNone(all, digest, kept, before, after) ==
    (Len(digest) + 1 \in DOMAIN all => all[Len(digest) + 1].by = "native") =>
      /\ Len(digest) + Len(kept) = Len(all)
      /\ \A n \in DOMAIN digest : digest[n] = all[n]
      /\ \A n \in DOMAIN kept : all[Len(digest) + n].by = "native" =>
           kept[n] = all[Len(digest) + n] /\ Carried(before, after, kept[n])

ClaudePrompts(recs) == [n \in DOMAIN C!Starts(recs) |-> C!StepName(recs, C!Starts(recs), n)]

\* A context fork of Claude Code loses no prompt.
LEMMA ClaudeCrafts ==
    ASSUME NEW recs, ClaudeWritten(recs), NEW keep \in Nat,
           NEW content, content = C!Craft(recs, keep, Len(recs) + 1)
    PROVE  LosesNone(ClaudePrompts(recs), C!Digest(recs, keep), ClaudePrompts(content),
                     C!Parse(recs).steps, C!Parse(content).steps)
<1>1. recs \in Seq(ClaudeRecord)
  BY DEF ClaudeWritten
<1>2. PICK N \in Nat : N = Len(recs) /\ DOMAIN recs = 1 .. N
  BY <1>1
<1>3. PICK W : W = C!Starts(recs)
  OBVIOUS
<1>4. Orderly(W, N, PromptPlaces(recs))
  BY <1>1, <1>2, <1>3, ClaudeStarts
<1>5. PICK k : k = C!KeptCount(W, keep)
  OBVIOUS
<1>6. PICK s : s = Len(W) - k
  OBVIOUS
<1>7. PICK from : from = C!TailStart(recs, W, keep)
  OBVIOUS
<1>8. FromStart(W, N, s, from)
  BY <1>2, <1>3, <1>5, <1>6, <1>7, ClaudeTailStart
<1>9. \A j \in 1 .. Len(W) : from <= W[j] <=> s < j
  BY <1>4, <1>8, FromPlaces
<1>10. PICK w \in Nat : w = Len(W) /\ DOMAIN W = 1 .. w
  <2>1. W \in Seq(Nat)
    BY <1>4 DEF Orderly
  <2> QED
    BY <2>1
<1>11. s \in 0 .. w /\ from \in 1 .. N + 1 /\ from \in Nat \ {0}
  BY <1>8, <1>10 DEF FromStart
<1>12. PICK tail : tail = SubSeq(recs, from, Len(recs))
  OBVIOUS
<1>13. IsTail(tail, recs, from)
  <2>1. from \in 1 .. Len(recs) + 1
    BY <1>2, <1>11
  <2> QED
    BY <1>1, <1>12, <2>1, TailOf DEF IsTail
<1>14. PICK h : h = ClaudeHead(Len(recs) + 1)
  OBVIOUS
<1>15. h \in Seq(ClaudeRecord) /\ Len(h) = 2 /\ h[1].kind = "hidden" /\ h[2].kind = "compact"
  <2>1. PICK id \in Nat : id = Len(recs) + 1
    BY <1>2
  <2> QED
    BY <1>14, <2>1, ClaudeHeads
<1>16. content = h \o C!Kept(tail)
  BY <1>3, <1>7, <1>12, <1>14, Zenon DEF C!Craft, ClaudeHead
<1>17. PICK u : Behind(content, h, tail, u)
  <2>1. tail \in Seq(ClaudeRecord)
    BY <1>13 DEF IsTail
  <2>2. PICK kept : kept = C!Kept(tail)
    OBVIOUS
  <2>3. content = h \o kept
    BY <1>16, <2>2
  <2> QED
    BY <1>15, <2>1, <2>2, <2>3, ClaudeBehind, Zenon
<1>18. PICK K : K = Len(content)
  OBVIOUS
<1>19. PICK e : e = [y \in 1 .. K |-> content[y].id]
  OBVIOUS
<1>20. content \in Seq(ClaudeRecord) /\ CarriedOver(e, K, PromptPlaces(content), from, N, PromptPlaces(recs))
  <2>1. from \in 1 .. Len(recs) + 1 /\ e = [y \in 1 .. Len(content) |-> content[y].id]
    BY <1>2, <1>11, <1>18, <1>19
  <2>2. /\ content \in Seq(ClaudeRecord)
        /\ CarriedOver(e, Len(content), PromptPlaces(content), from, Len(recs), PromptPlaces(recs))
    BY <1>13, <1>15, <1>17, <2>1, ClaudeContents, Zenon
  <2> QED
    BY <1>2, <1>18, <2>2
<1>21. PICK V : V = C!Starts(content)
  OBVIOUS
<1>22. Orderly(V, K, PromptPlaces(content)) /\ K \in Nat
  BY <1>18, <1>20, <1>21, ClaudeStarts
<1>23. Len(V) + s = Len(W) /\ \A n \in 1 .. Len(V) : e[V[n]] = W[s + n]
  <2>1. s \in 0 .. Len(W)
    BY <1>10, <1>11
  <2>2. Splits(W, N, PromptPlaces(recs), s, from)
    BY <1>2, <1>4, <1>9, <1>11, <2>1 DEF Splits
  <2>3. Follows(V, W, s, e)
    BY <1>20, <1>22, <2>2, PlacesCarried, Zenon
  <2> QED
    BY <2>3 DEF Follows
<1>24. PICK v \in Nat : v = Len(V) /\ DOMAIN V = 1 .. v
  <2>1. V \in Seq(Nat)
    BY <1>22 DEF Orderly
  <2> QED
    BY <2>1
<1>25. v + s = w
  BY <1>10, <1>23, <1>24
<1>26. PICK all, digest, kept : all = ClaudePrompts(recs) /\ digest = C!Digest(recs, keep) /\ kept = ClaudePrompts(content)
  OBVIOUS
<1>27. PICK before, after : before = C!Parse(recs).steps /\ after = C!Parse(content).steps
  OBVIOUS
<1>28. DOMAIN all = 1 .. w /\ \A n \in 1 .. w : all[n] = C!StepName(recs, W, n)
  BY <1>3, <1>10, <1>26, Zenon DEF ClaudePrompts
<1>29. DOMAIN kept = 1 .. v /\ \A n \in 1 .. v : kept[n] = C!StepName(content, V, n)
  BY <1>21, <1>24, <1>26, Zenon DEF ClaudePrompts
<1>30. DOMAIN digest = 1 .. s /\ \A n \in 1 .. s : digest[n] = C!StepName(recs, W, n)
  <2>1. Len(C!Starts(recs)) - C!KeptCount(C!Starts(recs), keep) = s
    BY <1>3, <1>5, <1>6
  <2>2. digest = [n \in 1 .. s |-> C!StepName(recs, W, n)]
    BY <1>3, <1>26, <2>1, Zenon DEF C!Digest
  <2> QED
    BY <2>2
<1>31. all = [n \in 1 .. w |-> all[n]] /\ kept = [n \in 1 .. v |-> kept[n]] /\ digest = [n \in 1 .. s |-> digest[n]]
  <2>1. digest = [n \in 1 .. s |-> digest[n]]
    <3>1. Len(C!Starts(recs)) - C!KeptCount(C!Starts(recs), keep) = s
      BY <1>3, <1>5, <1>6
    <3>2. digest = [n \in 1 .. s |-> C!StepName(recs, W, n)]
      BY <1>3, <1>26, <3>1, Zenon DEF C!Digest
    <3> QED
      BY <3>2, Zenon
  <2>2. all = [n \in 1 .. w |-> all[n]]
    BY <1>3, <1>10, <1>26, Zenon DEF ClaudePrompts
  <2>3. kept = [n \in 1 .. v |-> kept[n]]
    BY <1>21, <1>24, <1>26, Zenon DEF ClaudePrompts
  <2> QED
    BY <2>1, <2>2, <2>3
<1>32. Len(all) = w /\ Len(digest) = s /\ Len(kept) = v
  BY <1>11, <1>31
<1>33. \A n \in 1 .. s : digest[n] = all[n]
  <2>1. \A n \in 1 .. s : n \in 1 .. w
    BY <1>11
  <2> QED
    BY <1>28, <1>30, <2>1
<1>34. ASSUME NEW n \in 1 .. v
       PROVE  kept[n] = all[s + n] /\ Carried(before, after, kept[n])
  <2>1. PICK m \in 1 .. w : m = s + n
    BY <1>11, <1>25
  <2>2. PICK x : x = W[m]
    OBVIOUS
  <2>3. x \in PromptPlaces(recs) /\ x \in 1 .. N
    BY <1>4, <1>10, <2>2 DEF Orderly
  <2>4. recs[x].kind = "prompt" /\ recs[x].id = x
    BY <1>2, <2>3 DEF PromptPlaces, ClaudeWritten
  <2>5. from <= x
    <3>1. s < m
      BY <1>11, <2>1
    <3> QED
      BY <1>9, <1>10, <2>2, <3>1
  <2>6. all[m] = C!Native(x)
    <3>1. C!StepName(recs, W, m) = C!Native(x)
      BY <2>2, <2>3, <2>4 DEF C!StepName
    <3> QED
      BY <1>28, <3>1
  <2>7. PICK y : y = V[n]
    OBVIOUS
  <2>8. y \in PromptPlaces(content) /\ y \in 1 .. K
    BY <1>22, <1>24, <2>7 DEF Orderly
  <2>9. e[y] = x
    BY <1>23, <1>24, <2>1, <2>2, <2>7
  <2>10. content[y].id = x
    BY <1>19, <2>8, <2>9
  <2>11. kept[n] = C!Native(x)
    <3>1. C!StepName(content, V, n) = C!Native(x)
      BY <2>3, <2>7, <2>10 DEF C!StepName
    <3> QED
      BY <1>29, <3>1
  <2>12. from \in 1 .. Len(recs) /\ recs[from].kind = "prompt"
    <3>1. s # w
      BY <1>11, <2>1
    <3>2. from = W[s + 1] /\ s + 1 \in 1 .. w
      BY <1>8, <1>10, <1>11, <3>1 DEF FromStart
    <3>3. from \in PromptPlaces(recs) /\ from \in 1 .. N
      BY <1>4, <1>10, <3>2 DEF Orderly
    <3> QED
      BY <1>2, <3>3 DEF PromptPlaces
  <2>13. x \in from .. Len(recs)
    BY <1>2, <1>11, <2>3, <2>5
  <2>14. Carried(C!Parse(recs).steps, C!Parse(content).steps, C!Native(x))
    BY <1>13, <1>15, <1>16, <2>4, <2>12, <2>13, ClaudeCarried, Zenon
  <2> QED
    BY <1>27, <2>1, <2>6, <2>11, <2>14
<1>35. LosesNone(all, digest, kept, before, after)
  <2>1. Len(digest) + Len(kept) = Len(all)
    BY <1>11, <1>25, <1>32
  <2>2. \A n \in DOMAIN digest : digest[n] = all[n]
    BY <1>30, <1>33
  <2>3. \A n \in DOMAIN kept : kept[n] = all[Len(digest) + n] /\ Carried(before, after, kept[n])
    BY <1>29, <1>32, <1>34
  <2> QED
    BY <2>1, <2>2, <2>3, Zenon DEF LosesNone
<1> QED
  BY <1>26, <1>27, <1>35

\* A task_started opens a step behind what the end of the last one leaves.
LEMMA CodexOpened ==
    ASSUME NEW p \in CodexState, p.current = Len(p.steps), NEW r \in CodexRecord, NEW q, q = X!OnStarted(p, r),
           NEW c, c = X!CloseStep(p)
    PROVE  \E z \in Step : /\ z.tools = <<>> /\ q.steps = Append(c.steps, z)
                           /\ r.id # 0 => z.id = X!Native(r.id)
<1>1. p.total \in Nat /\ r.id \in Nat /\ Len(p.steps) \in Nat
  BY CodexFields DEF CodexRecord
<1>2. PICK id : id = IF r.id = 0 THEN X!Ordinal(Len(p.steps)) ELSE X!Native(r.id)
  OBVIOUS
<1>3. c \in CodexState
  BY CodexCloses
<1>4. PICK d : d = [c EXCEPT !.start = p.total]
  OBVIOUS
<1>5. d \in CodexState /\ d.steps = c.steps
  BY <1>1, <1>3, <1>4 DEF CodexState
<1>6. id \in Name
  BY <1>1, <1>2, CodexNames
<1>7. q = X!OpenStep(d, id)
  BY <1>2, <1>4 DEF X!OnStarted
<1>8. PICK z : z = OpenedStep(id)
  OBVIOUS
<1>9. z \in Step /\ q.steps = Append(d.steps, z)
  BY <1>5, <1>6, <1>7, <1>8, CodexOpens
<1>10. z.id = id /\ z.tools = <<>>
  BY <1>8 DEF OpenedStep
<1> QED
  BY <1>2, <1>5, <1>9, <1>10

\* Names stay from list to list.
LEMMA KeepsTwice ==
    ASSUME NEW s \in Seq(Step), NEW t, Keeps(s, t), NEW u, Keeps(t, u)
    PROVE  Keeps(s, u)
<1>1. /\ t \in Seq(Step) /\ Len(s) <= Len(t) /\ \A i \in 1 .. Len(s) : t[i].id = s[i].id
      /\ u \in Seq(Step) /\ Len(t) <= Len(u) /\ \A i \in 1 .. Len(t) : u[i].id = t[i].id
  BY DEF Keeps
<1>2. Len(s) \in Nat /\ Len(t) \in Nat /\ Len(u) \in Nat
  BY <1>1
<1>3. Len(s) <= Len(u) /\ \A i \in 1 .. Len(s) : i \in 1 .. Len(t)
  BY <1>1, <1>2
<1> QED
  BY <1>1, <1>3 DEF Keeps

\* The end of a step leaves all but its usage.
LEMMA CodexClosing ==
    ASSUME NEW p \in CodexState, p.current = Len(p.steps), NEW c, c = X!CloseStep(p)
    PROVE  Keeps(p.steps, c.steps) /\ SameTools(p.steps, c.steps) /\ c.steps \in Seq(Step)
<1>1. p.steps \in Seq(Step)
  BY CodexFields
<1>2. /\ p.steps = <<>> => c.steps = p.steps
      /\ p.steps # <<>> => Uses(p.steps, c.steps, Len(p.steps), X!Difference(p.total, p.start))
  BY CodexCloses
<1>3. CASE p.steps = <<>>
  BY <1>1, <1>2, <1>3, KeepsSame
<1>4. CASE p.steps # <<>>
  <2>1. PICK n : n = Len(p.steps)
    OBVIOUS
  <2>2. Only(p.steps, c.steps, n) /\ c.steps[n].tools = p.steps[n].tools
    BY <1>2, <1>4, <2>1 DEF Uses
  <2> QED
    BY <1>1, <2>2, KeepsOnly, SameToolsOnly DEF Keeps
<1> QED
  BY <1>3, <1>4

\* What the parser of a context fork has to do with the parser of the transcript, for Codex,
\* after a record that both have taken.
CodexFollow(p, q, L, m, r, p2, q2) ==
    /\ q2 \in CodexState /\ q2.current = Len(q2.steps)
    /\ Together(p.steps, p.where, q.steps, q.where, L, 0, m, p2.steps, p2.where, q2.steps, q2.where)
    /\ r.kind = "started" /\ r.id # 0 =>
         \A k \in {m, m + 1} : Alike(p2.steps, p2.where, L, q2.steps, q2.where, 0, k) =>
                                 Marks(p2.steps, L, q2.steps, 0, k, X!Native(r.id))

\* Both start a task.
LEMMA CodexFollowsStart ==
    ASSUME NEW p \in CodexState, p.current = Len(p.steps), NEW q \in CodexState, q.current = Len(q.steps),
           NEW L, NEW m, Alike(p.steps, p.where, L, q.steps, q.where, 0, m),
           NEW r \in CodexRecord,
           NEW p2, p2 = X!OnStarted(p, r), NEW q2, q2 = X!OnStarted(q, r)
    PROVE  CodexFollow(p, q, L, m, r, p2, q2)
<1>1. PICK c, d : c = X!CloseStep(p) /\ d = X!CloseStep(q)
  OBVIOUS
<1>2. Keeps(p.steps, c.steps) /\ SameTools(p.steps, c.steps) /\ c.steps \in Seq(Step)
  BY <1>1, CodexClosing
<1>3. Keeps(q.steps, d.steps) /\ SameTools(q.steps, d.steps) /\ d.steps \in Seq(Step)
  BY <1>1, CodexClosing
<1>4. PICK y \in Step : /\ y.tools = <<>> /\ p2.steps = Append(c.steps, y)
                        /\ r.id # 0 => y.id = X!Native(r.id)
  BY <1>1, CodexOpened
<1>5. PICK z \in Step : /\ z.tools = <<>> /\ q2.steps = Append(d.steps, z)
                        /\ r.id # 0 => z.id = X!Native(r.id)
  BY <1>1, CodexOpened
<1>6. p2.where = p.where
  BY <1>1, CodexStarts
<1>7. q2 \in CodexState /\ q2.current = Len(q2.steps) /\ q2.where = q.where
  BY <1>1, CodexStarts
<1>8. PICK s, v, t, w, s2, t2 : /\ s = c.steps /\ v = p.where /\ t = d.steps /\ w = q.where
                                /\ s2 = p2.steps /\ t2 = q2.steps
  OBVIOUS
<1>9. Alike(s, v, L, t, w, 0, m)
  BY <1>2, <1>3, <1>8, AlikeSame
<1>10. s2 = Append(s, y) /\ t2 = Append(t, z)
  BY <1>4, <1>5, <1>8
<1>11. /\ Together(s, v, t, w, L, 0, m, s2, v, t2, w)
       /\ y.id = z.id => \A k \in {m, m + 1} : Alike(s2, v, L, t2, w, 0, k) => Marks(s2, L, t2, 0, k, y.id)
  BY <1>4, <1>5, <1>9, <1>10, TogetherOpened
<1>12. p.steps \in Seq(Step) /\ q.steps \in Seq(Step)
  BY CodexFields
<1>13. Keeps(p.steps, s2) /\ Keeps(q.steps, t2)
  <2>1. Keeps(s, s2) /\ Keeps(t, t2)
    BY <1>11 DEF Together
  <2> QED
    BY <1>2, <1>3, <1>8, <1>12, <2>1, KeepsTwice
<1>14. Together(p.steps, v, q.steps, w, L, 0, m, s2, v, t2, w)
  BY <1>11, <1>13 DEF Together
<1> QED
  BY <1>4, <1>5, <1>6, <1>7, <1>8, <1>11, <1>14 DEF CodexFollow

\* Each record is taken by the parser of the fork as it was taken by that of the transcript.
LEMMA CodexFollows ==
    ASSUME NEW p \in CodexState, p.current = Len(p.steps), Located(p.steps, p.where),
           NEW q \in CodexState, q.current = Len(q.steps),
           NEW L, NEW m, Alike(p.steps, p.where, L, q.steps, q.where, 0, m),
           NEW r \in CodexRecord, m # 0 \/ r.kind = "started",
           NEW p2, p2 = X!Take(p, r), NEW q2, q2 = X!Take(q, r)
    PROVE  CodexFollow(p, q, L, m, r, p2, q2)
<1>1. PICK s, v, t, w : s = p.steps /\ v = p.where /\ t = q.steps /\ w = q.where
  OBVIOUS
<1>2. PICK s2, v2, t2, w2 : s2 = p2.steps /\ v2 = p2.where /\ t2 = q2.steps /\ w2 = q2.where
  OBVIOUS
<1>3. Alike(s, v, L, t, w, 0, m) /\ Located(s, v)
  BY <1>1
<1>4. Located(t, w)
  BY <1>3, AlikeLocated
<1>5. s \in Seq(Step) /\ t \in Seq(Step) /\ L \in Nat /\ m \in Nat
      /\ Len(s) = L + m /\ Len(t) = 0 + m /\ (m # 0 => s # <<>> /\ t # <<>>)
  <2>1. s \in Seq(Step) /\ t \in Seq(Step) /\ L \in Nat /\ m \in Nat
        /\ Len(s) = L + m /\ Len(t) = 0 + m
    BY <1>3 DEF Alike
  <2>2. m # 0 => Len(s) # 0 /\ Len(t) # 0
    BY <2>1
  <2>3. m # 0 => s # <<>> /\ t # <<>>
    BY <2>2
  <2> QED
    BY <2>1, <2>3
<1>6. CASE r.kind = "started"
  <2>1. p2 = X!OnStarted(p, r) /\ q2 = X!OnStarted(q, r)
    BY <1>6, CodexTakes
  <2> QED
    BY <2>1, CodexFollowsStart
<1> DEFINE Goal == /\ q2 \in CodexState /\ q2.current = Len(q2.steps)
                   /\ Together(s, v, t, w, L, 0, m, s2, v2, t2, w2)
<1>7. ASSUME r.kind # "started", Goal PROVE CodexFollow(p, q, L, m, r, p2, q2)
  BY <1>1, <1>2, <1>7 DEF CodexFollow
<1>8. ASSUME r.kind = "complete" PROVE r.kind # "started" /\ Goal
  <2>1. p2 = X!OnComplete(p) /\ q2 = X!OnComplete(q) /\ r.kind # "started" /\ m # 0
    BY <1>8, CodexTakes
  <2>2. PICK n, k : n = Len(p.steps) /\ k = Len(q.steps)
    OBVIOUS
  <2>3. p2.where = p.where /\ Only(p.steps, p2.steps, n) /\ p2.steps[n].tools = p.steps[n].tools
    BY <1>1, <1>5, <2>1, <2>2, CodexCompletes DEF Uses
  <2>4. /\ q2 \in CodexState /\ q2.current = q.current /\ q2.where = q.where
        /\ Only(q.steps, q2.steps, k) /\ q2.steps[k].tools = q.steps[k].tools
    BY <1>1, <1>5, <2>1, <2>2, CodexCompletes DEF Uses
  <2>5. Keeps(s, s2) /\ SameTools(s, s2)
    BY <1>1, <1>2, <1>5, <2>3, KeepsOnly, SameToolsOnly
  <2>6. Keeps(t, t2) /\ SameTools(t, t2)
    BY <1>1, <1>2, <1>5, <2>4, KeepsOnly, SameToolsOnly
  <2>7. Together(s, v, t, w, L, 0, m, s2, v2, t2, w2)
    BY <1>1, <1>2, <1>3, <2>3, <2>4, <2>5, <2>6, TogetherSame
  <2>8. q2.current = Len(q2.steps)
    BY <2>4 DEF Only
  <2> QED
    BY <2>1, <2>4, <2>7, <2>8
<1>9. ASSUME r.kind = "tokens" PROVE r.kind # "started" /\ Goal
  <2>1. p2 = X!OnTokens(p, r) /\ q2 = X!OnTokens(q, r) /\ r.kind # "started" /\ m # 0
    BY <1>9, CodexTakes
  <2>2. PICK n, k : n = Len(p.steps) /\ k = Len(q.steps)
    OBVIOUS
  <2>3. p2.where = p.where /\ Only(p.steps, p2.steps, n) /\ p2.steps[n].tools = p.steps[n].tools
    BY <1>1, <1>5, <2>1, <2>2, CodexTokens
  <2>4. /\ q2 \in CodexState /\ q2.current = q.current /\ q2.where = q.where
        /\ Only(q.steps, q2.steps, k) /\ q2.steps[k].tools = q.steps[k].tools
    BY <1>1, <1>5, <2>1, <2>2, CodexTokens
  <2>5. Keeps(s, s2) /\ SameTools(s, s2)
    BY <1>1, <1>2, <1>5, <2>3, KeepsOnly, SameToolsOnly
  <2>6. Keeps(t, t2) /\ SameTools(t, t2)
    BY <1>1, <1>2, <1>5, <2>4, KeepsOnly, SameToolsOnly
  <2>7. Together(s, v, t, w, L, 0, m, s2, v2, t2, w2)
    BY <1>1, <1>2, <1>3, <2>3, <2>4, <2>5, <2>6, TogetherSame
  <2>8. q2.current = Len(q2.steps)
    BY <2>4 DEF Only
  <2> QED
    BY <2>1, <2>4, <2>7, <2>8
<1>10. ASSUME r.kind = "output" PROVE r.kind # "started" /\ Goal
  <2>1. p2 = X!OnOutput(p, r) /\ q2 = X!OnOutput(q, r) /\ r.kind # "started"
    BY <1>10, CodexTakes
  <2>2. PICK id, e : id = r.id /\ e = r.error
    OBVIOUS
  <2>3. p2.where = p.where /\ Answered(p.steps, p.where, id, e, p2.steps)
    BY <1>1, <1>3, <2>1, <2>2, CodexOutputs DEF Answered
  <2>4. /\ q2 \in CodexState /\ q2.current = q.current /\ q2.where = q.where
        /\ Answered(q.steps, q.where, id, e, q2.steps)
    BY <1>1, <1>4, <2>1, <2>2, CodexOutputs DEF Answered
  <2>5. Together(s, v, t, w, L, 0, m, s2, v2, t2, w2)
    BY <1>1, <1>2, <1>3, <2>3, <2>4, TogetherAnswered
  <2>6. Len(q2.steps) = Len(q.steps)
    <3>1. CASE id \notin DOMAIN q.where
      BY <2>4, <3>1 DEF Answered
    <3>2. CASE id \in DOMAIN q.where
      BY <2>4, <3>2 DEF Answered, Noted, Only
    <3> QED
      BY <3>1, <3>2
  <2> QED
    BY <2>1, <2>4, <2>5, <2>6
<1>11. ASSUME r.kind = "call" PROVE r.kind # "started" /\ Goal
  <2>1. p2 = X!OnCall(p, r) /\ q2 = X!OnCall(q, r) /\ r.kind # "started" /\ m # 0
    BY <1>11, CodexTakes
  <2>2. PICK id \in Nat : id = r.id
    BY DEF CodexRecord
  <2>3. CodexBase(p) = p /\ CodexBase(q) = q
    BY <1>1, <1>5, <2>1, CodexBaseIs
  <2>4. /\ Only(s, s2, Len(s)) /\ s2[Len(s)].tools = Append(s[Len(s)].tools, NewTool(id))
        /\ v2 = X!Placed(v, id, <<Len(s), Len(s[Len(s)].tools) + 1>>)
    <3>1. PICK b, n : b = CodexBase(p) /\ n = Len(b.steps)
      OBVIOUS
    <3>2. /\ Only(b.steps, p2.steps, n)
          /\ p2.steps[n].tools = Append(b.steps[n].tools, NewTool(r.id))
          /\ p2.where = X!Placed(p.where, r.id, <<n, Len(b.steps[n].tools) + 1>>)
      BY <2>1, <3>1, CodexCalls
    <3>3. b = p
      BY <2>3, <3>1
    <3> QED
      BY <1>1, <1>2, <2>2, <3>1, <3>2, <3>3
  <2>5. /\ q2 \in CodexState /\ q2.current = Len(t)
        /\ Only(t, t2, Len(t)) /\ t2[Len(t)].tools = Append(t[Len(t)].tools, NewTool(id))
        /\ w2 = X!Placed(w, id, <<Len(t), Len(t[Len(t)].tools) + 1>>)
    <3>1. PICK b, n : b = CodexBase(q) /\ n = Len(b.steps)
      OBVIOUS
    <3>2. /\ q2 \in CodexState /\ q2.current = n
          /\ Only(b.steps, q2.steps, n)
          /\ q2.steps[n].tools = Append(b.steps[n].tools, NewTool(r.id))
          /\ q2.where = X!Placed(q.where, r.id, <<n, Len(b.steps[n].tools) + 1>>)
      BY <2>1, <3>1, CodexCalls
    <3>3. b = q
      BY <2>3, <3>1
    <3> QED
      BY <1>1, <1>2, <2>2, <3>1, <3>2, <3>3
  <2>6. v \in Places /\ w \in Places
    BY <1>3 DEF Alike
  <2>7. PutDown(s, v, id, s2, v2)
    BY <1>5, <2>4, <2>6, CodexPutDown
  <2>8. PutDown(t, w, id, t2, w2)
    BY <1>5, <2>5, <2>6, CodexPutDown
  <2>9. Together(s, v, t, w, L, 0, m, s2, v2, t2, w2)
    BY <1>3, <2>1, <2>7, <2>8, TogetherCalled
  <2>10. Len(q2.steps) = Len(t)
    BY <1>2, <2>5 DEF Only
  <2> QED
    BY <2>1, <2>5, <2>9, <2>10
<1>12. ASSUME r.kind \in {"compacted", "meta", "message", "other"} PROVE r.kind # "started" /\ Goal
  <2>1. /\ p2.steps = p.steps /\ p2.where = p.where
        /\ q2 \in CodexState /\ q2.steps = q.steps /\ q2.where = q.where /\ q2.current = q.current
    <3>1. CASE r.kind = "compacted"
      <4>1. p2 = [p EXCEPT !.compactions = @ + 1] /\ q2 = [q EXCEPT !.compactions = @ + 1]
        BY <3>1, CodexTakes
      <4>2. q.compactions + 1 \in Nat
        BY DEF CodexState
      <4> QED
        BY <4>1, <4>2 DEF CodexState
    <3>2. CASE r.kind \in {"meta", "message", "other"}
      BY <3>2, CodexTakes
    <3> QED
      BY <1>12, <3>1, <3>2
  <2>2. s2 = s /\ t2 = t /\ v2 = v /\ w2 = w
    BY <1>1, <1>2, <2>1
  <2>3. Keeps(s, s2) /\ Keeps(t, t2) /\ SameTools(s, s2) /\ SameTools(t, t2)
    BY <1>5, <2>2, KeepsSame
  <2>4. Together(s, v, t, w, L, 0, m, s2, v2, t2, w2)
    BY <1>3, <2>2, <2>3, TogetherSame
  <2> QED
    BY <1>12, <2>1, <2>4
<1>13. r.kind \in {"meta", "message", "complete", "compacted", "started", "call", "tokens", "output", "other"}
  BY DEF CodexRecord, CodexKinds
<1> HIDE DEF Goal
<1> QED
  BY <1>6, <1>7, <1>8, <1>9, <1>10, <1>11, <1>12, <1>13

Answers(r) == r.kind = "started" /\ r.id # 0

\* What two parsers have of the same records of Codex: from the place from on, up to the place n.
CodexTailed(recs, from, n, p, q, L) ==
    /\ q \in CodexState /\ q.current = Len(q.steps)
    /\ \E m \in Nat : /\ Alike(p.steps, p.where, L, q.steps, q.where, 0, m)
                      /\ \A x \in from .. n : Answers(recs[x]) =>
                           Marks(p.steps, L, q.steps, 0, m, X!Native(x))

\* A record more.
LEMMA CodexTailedNext ==
    ASSUME NEW recs, CodexWritten(recs), NEW n \in Nat, n + 1 <= Len(recs),
           NEW p, CodexSound(recs, n, p), NEW from \in Nat, from <= n + 1,
           NEW L, NEW q, CodexTailed(recs, from, n, p, q, L), Answers(recs[from]),
           NEW p2, p2 = X!Take(p, recs[n + 1]), NEW q2, q2 = X!Take(q, recs[n + 1])
    PROVE  CodexTailed(recs, from, n + 1, p2, q2, L)
<1>1. PICK r : r = recs[n + 1]
  OBVIOUS
<1>2. r \in CodexRecord /\ (r.kind = "started" => r.id \in {0, n + 1})
  <2>1. recs \in Seq(CodexRecord) /\ n + 1 \in 1 .. Len(recs)
    BY DEF CodexWritten
  <2> QED
    BY <1>1, <2>1, ElementOfSeq DEF CodexWritten
<1>3. q \in CodexState /\ q.current = Len(q.steps)
  BY DEF CodexTailed
<1>4. PICK m \in Nat : /\ Alike(p.steps, p.where, L, q.steps, q.where, 0, m)
                       /\ \A x \in from .. n : Answers(recs[x]) =>
                            Marks(p.steps, L, q.steps, 0, m, X!Native(x))
  BY DEF CodexTailed
<1>5. m # 0 \/ r.kind = "started"
  <2>1. CASE from = n + 1
    BY <1>1, <2>1 DEF Answers
  <2>2. CASE from # n + 1
    <3>1. from \in from .. n
      BY <2>2
    <3>2. Marks(p.steps, L, q.steps, 0, m, X!Native(from))
      BY <1>4, <3>1
    <3>3. 1 .. m # {}
      BY <3>2 DEF Marks
    <3> QED
      BY <3>3
  <2> QED
    BY <2>1, <2>2
<1>6. p \in CodexState /\ p.current = Len(p.steps) /\ Located(p.steps, p.where)
  BY ToldLocated DEF CodexSound
<1>7. CodexFollow(p, q, L, m, r, p2, q2)
  <2>1. p2 = X!Take(p, r) /\ q2 = X!Take(q, r)
    BY <1>1
  <2> QED
    BY <1>2, <1>3, <1>4, <1>5, <1>6, <2>1, CodexFollows
<1>8. PICK k \in {m, m + 1} : Alike(p2.steps, p2.where, L, q2.steps, q2.where, 0, k)
  BY <1>7 DEF CodexFollow, Together
<1>9. Keeps(p.steps, p2.steps) /\ Keeps(q.steps, q2.steps)
  BY <1>7 DEF CodexFollow, Together
<1>10. ASSUME NEW x \in from .. n + 1, Answers(recs[x])
       PROVE  Marks(p2.steps, L, q2.steps, 0, k, X!Native(x))
  <2>1. CASE x = n + 1
    <3>1. r.kind = "started" /\ r.id # 0 /\ r.id = x
      BY <1>1, <1>2, <1>10, <2>1 DEF Answers
    <3>2. Marks(p2.steps, L, q2.steps, 0, k, X!Native(r.id))
      BY <1>7, <1>8, <3>1 DEF CodexFollow
    <3> QED
      BY <3>1, <3>2
  <2>2. CASE x # n + 1
    <3>1. x \in from .. n
      BY <2>2
    <3>2. Marks(p.steps, L, q.steps, 0, m, X!Native(x))
      BY <1>4, <1>10, <3>1
    <3>3. PICK id : id = X!Native(x)
      OBVIOUS
    <3>4. Marks(p2.steps, L, q2.steps, 0, k, id)
      BY <1>4, <1>8, <1>9, <3>2, <3>3, MarksKept
    <3> QED
      BY <3>3, <3>4
  <2> QED
    BY <2>1, <2>2
<1>11. k \in Nat /\ q2 \in CodexState /\ q2.current = Len(q2.steps)
  BY <1>7, <1>8 DEF CodexFollow
<1> QED
  BY <1>8, <1>10, <1>11 DEF CodexTailed

\* A transcript that begins with records that open no step and goes on with another one.
CodexContext(recs, from, D, H, whole) ==
    /\ whole \in Seq(CodexRecord) /\ Len(whole) = H + 1 + D
    /\ \A i \in 1 .. H : whole[i].kind \in {"meta", "message", "other"}
    /\ \A j \in 0 .. D : whole[H + 1 + j] = recs[from + j]

\* They leave nothing to the parser.
LEMMA CodexNothing ==
    ASSUME NEW recs, NEW from, NEW D \in Nat, NEW H \in Nat, NEW whole, CodexContext(recs, from, D, H, whole),
           NEW b, IsCodexRun(b, whole)
    PROVE  b[H] = X!Empty
<1>1. /\ whole \in Seq(CodexRecord) /\ Len(whole) = H + 1 + D
      /\ \A i \in 1 .. H : whole[i].kind \in {"meta", "message", "other"}
  BY DEF CodexContext
<1>2. \A i \in 0 .. Len(whole) : b[i] = IF i = 0 THEN X!Empty ELSE X!Take(b[i - 1], whole[i])
  BY DEF IsCodexRun
<1> DEFINE T == {n \in 0 .. H : b[n] = X!Empty}
<1>3. 0 \in T
  <2>1. 0 \in 0 .. Len(whole) /\ 0 \in 0 .. H
    BY <1>1
  <2> QED
    BY <1>2, <2>1
<1>4. ASSUME NEW n \in 0 .. H, n # H, n \in T PROVE n + 1 \in T
  <2>1. /\ n + 1 \in 0 .. Len(whole) /\ n + 1 # 0 /\ n + 1 - 1 = n
        /\ n + 1 \in 1 .. H /\ n + 1 \in 0 .. H /\ n + 1 \in 1 .. Len(whole)
    BY <1>1, <1>4
  <2>2. b[n + 1] = X!Take(b[n], whole[n + 1])
    BY <1>2, <2>1
  <2>3. PICK r : r = whole[n + 1]
    OBVIOUS
  <2>4. r \in CodexRecord /\ r.kind \in {"meta", "message", "other"}
    BY <1>1, <2>1, <2>3, ElementOfSeq
  <2>5. X!Take(b[n], r) = b[n]
    BY <2>4, CodexTakes
  <2>6. b[n] = X!Empty
    BY <1>4
  <2> QED
    BY <2>1, <2>2, <2>3, <2>5, <2>6
<1> HIDE DEF T
<1>5. \A n \in 0 .. H : n \in T
  BY <1>3, <1>4, UpTo
<1>6. H \in 0 .. H
  OBVIOUS
<1> QED
  BY <1>5, <1>6 DEF T

\* Before the first record of the tail.
LEMMA CodexTailedFirst ==
    ASSUME NEW recs, NEW n \in Nat, NEW p, CodexSound(recs, n, p), NEW q, q = X!Empty
    PROVE  CodexTailed(recs, n + 1, n, p, q, Len(p.steps))
<1>1. p \in CodexState /\ Located(p.steps, p.where)
  BY ToldLocated DEF CodexSound
<1>2. PICK s, v, t, w : s = p.steps /\ v = p.where /\ t = q.steps /\ w = q.where
  OBVIOUS
<1>3. /\ s \in Seq(Step) /\ v \in Places /\ Len(s) \in Nat
  BY <1>1, <1>2, CodexFields
<1>4. q \in CodexState /\ t = <<>> /\ w = <<>> /\ q.current = 0
  BY <1>2, CodexEmptyState
<1>5. t \in Seq(Step) /\ Len(t) = 0 /\ w \in Places /\ DOMAIN w = {}
  BY <1>4, NoPlaces
<1>6. \A c \in DOMAIN v : v[c][1] \in 1 .. Len(s)
  BY <1>1, <1>2 DEF Located
<1>7. \A c \in DOMAIN v : v[c][1] <= Len(s)
  BY <1>3, <1>6
<1>8. Alike(s, v, Len(s), t, w, 0, 0)
  <2>1. Len(s) = Len(s) + 0 /\ Len(t) = 0 + 0 /\ 1 .. 0 = {}
    BY <1>3, <1>5
  <2> QED
    BY <1>3, <1>5, <1>7, <2>1 DEF Alike
<1>9. n + 1 .. n = {}
  OBVIOUS
<1>10. q.current = Len(q.steps)
  BY <1>2, <1>4, <1>5
<1> QED
  BY <1>2, <1>4, <1>8, <1>9, <1>10 DEF CodexTailed

\* At the end of the transcript.
LEMMA CodexTailedAll ==
    ASSUME NEW recs, CodexWritten(recs), NEW a, IsCodexRun(a, recs),
           NEW from \in 1 .. Len(recs), Answers(recs[from]),
           NEW D, D = Len(recs) - from, NEW H \in Nat, NEW whole, CodexContext(recs, from, D, H, whole),
           NEW b, IsCodexRun(b, whole)
    PROVE  \E L : CodexTailed(recs, from, Len(recs), a[Len(recs)], b[Len(whole)], L)
<1>1. /\ D \in Nat /\ from \in Nat /\ Len(recs) \in Nat /\ from + D = Len(recs)
      /\ from - 1 \in 0 .. Len(recs) /\ from - 1 + 1 = from /\ Len(whole) = H + 1 + D
  <2>1. recs \in Seq(CodexRecord)
    BY DEF CodexWritten
  <2>2. Len(recs) \in Nat
    BY <2>1
  <2>3. Len(whole) = H + 1 + D
    BY DEF CodexContext
  <2> QED
    BY <2>2, <2>3
<1>2. PICK L : L = Len(a[from - 1].steps)
  OBVIOUS
<1>3. \A n \in 0 .. Len(recs) : CodexSound(recs, n, a[n])
  BY CodexRunSound
<1> DEFINE T == {j \in 0 .. D + 1 : CodexTailed(recs, from, from - 1 + j, a[from - 1 + j], b[H + j], L)}
<1>4. 0 \in T
  <2>1. PICK n \in Nat : n = from - 1
    BY <1>1
  <2>2. PICK q : q = b[H]
    OBVIOUS
  <2>3. q = X!Empty
    BY <1>1, <2>2, CodexNothing
  <2>4. CodexSound(recs, n, a[n])
    BY <1>1, <1>3, <2>1
  <2>5. PICK p : p = a[n]
    OBVIOUS
  <2>6. CodexTailed(recs, n + 1, n, p, q, Len(p.steps))
    BY <2>3, <2>4, <2>5, CodexTailedFirst
  <2>7. L = Len(p.steps)
    BY <1>2, <2>1, <2>5
  <2>8. n + 1 = from /\ from - 1 + 0 = n /\ H + 0 = H /\ 0 \in 0 .. D + 1
    BY <1>1, <2>1
  <2> QED
    BY <2>2, <2>5, <2>6, <2>7, <2>8
<1>5. ASSUME NEW j \in 0 .. D + 1, j # D + 1, j \in T
      PROVE  j + 1 \in T
  <2>1. PICK n \in Nat : n = from - 1 + j
    BY <1>1
  <2>2. /\ n + 1 <= Len(recs) /\ n \in 0 .. Len(recs) /\ from <= n + 1 /\ n + 1 = from + j /\ j \in 0 .. D
        /\ from - 1 + (j + 1) = n + 1 /\ H + (j + 1) = H + 1 + j /\ j + 1 \in 0 .. D + 1
    BY <1>1, <1>5, <2>1
  <2>3. PICK p, q, r : p = a[n] /\ q = b[H + j] /\ r = recs[n + 1]
    OBVIOUS
  <2>4. CodexTailed(recs, from, n, p, q, L)
    BY <1>5, <2>1, <2>3
  <2>5. a[n + 1] = X!Take(p, r)
    <3>1. n + 1 \in 0 .. Len(recs) /\ n + 1 # 0 /\ n + 1 - 1 = n
      BY <1>1, <2>1, <2>2
    <3> QED
      BY <2>3, <3>1 DEF IsCodexRun
  <2>6. b[H + 1 + j] = X!Take(q, r)
    <3>1. PICK x : x = H + 1 + j
      OBVIOUS
    <3>2. x \in 0 .. Len(whole) /\ x # 0 /\ x - 1 = H + j
      BY <1>1, <2>2, <3>1
    <3>3. whole[x] = r
      BY <2>2, <2>3, <3>1 DEF CodexContext
    <3>4. \A i \in 0 .. Len(whole) : b[i] = IF i = 0 THEN X!Empty ELSE X!Take(b[i - 1], whole[i])
      BY DEF IsCodexRun
    <3>5. b[x] = X!Take(b[x - 1], whole[x])
      BY <3>2, <3>4
    <3> QED
      BY <2>3, <3>1, <3>2, <3>3, <3>5
  <2>7. CodexSound(recs, n, p)
    BY <1>3, <2>2, <2>3
  <2>8. PICK p2, q2 : p2 = a[n + 1] /\ q2 = b[H + 1 + j]
    OBVIOUS
  <2>9. CodexTailed(recs, from, n + 1, p2, q2, L)
    <3>1. p2 = X!Take(p, recs[n + 1]) /\ q2 = X!Take(q, recs[n + 1])
      BY <2>3, <2>5, <2>6, <2>8
    <3> QED
      BY <1>1, <2>2, <2>4, <2>7, <3>1, CodexTailedNext
  <2> QED
    BY <2>2, <2>8, <2>9
<1>6. \A j \in 0 .. D + 1 : j \in T
  <2> HIDE DEF T
  <2>1. D + 1 \in Nat
    BY <1>1
  <2> QED
    BY <1>4, <1>5, <2>1, UpTo
<1>7. D + 1 \in 0 .. D + 1 /\ from - 1 + (D + 1) = Len(recs) /\ H + (D + 1) = Len(whole)
  BY <1>1
<1>8. CodexTailed(recs, from, Len(recs), a[Len(recs)], b[Len(whole)], L)
  BY <1>6, <1>7
<1> QED
  BY <1>8

\* The end of the last step of both changes no call.
LEMMA CodexTailedClosed ==
    ASSUME NEW recs, NEW from, NEW n \in Nat, NEW p \in CodexState, p.current = Len(p.steps),
           NEW q, NEW L, CodexTailed(recs, from, n, p, q, L), NEW x \in from .. n, Answers(recs[x]),
           NEW c, c = X!CloseStep(p), NEW d, d = X!CloseStep(q)
    PROVE  Carried(c.steps, d.steps, X!Native(x))
<1>1. q \in CodexState /\ q.current = Len(q.steps)
  BY DEF CodexTailed
<1>2. PICK m \in Nat : /\ Alike(p.steps, p.where, L, q.steps, q.where, 0, m)
                       /\ Marks(p.steps, L, q.steps, 0, m, X!Native(x))
  BY DEF CodexTailed
<1>3. Keeps(p.steps, c.steps) /\ SameTools(p.steps, c.steps) /\ Keeps(q.steps, d.steps) /\ SameTools(q.steps, d.steps)
  BY <1>1, CodexClosing
<1>4. PICK id, s, t, v, w : id = X!Native(x) /\ s = c.steps /\ t = d.steps /\ v = p.where /\ w = q.where
  OBVIOUS
<1>5. Alike(s, v, L, t, w, 0, m)
  BY <1>2, <1>3, <1>4, AlikeSame
<1>6. Marks(s, L, t, 0, m, id)
  BY <1>2, <1>3, <1>4, MarksKept
<1>7. Carried(s, t, id)
  BY <1>5, <1>6, MarksCarry
<1> QED
  BY <1>4, <1>7

\* The starts of the tasks are the steps, in order.
LEMMA CodexOrderly ==
    ASSUME NEW recs \in Seq(CodexRecord)
    PROVE  Orderly(X!Starts(recs), Len(recs), StartPlaces(recs))
<1>1. PICK N \in Nat : N = Len(recs) /\ DOMAIN recs = 1 .. N
  OBVIOUS
<1>2. PICK seq, places : seq = [i \in 1 .. N |-> i] /\ places = StartPlaces(recs)
  OBVIOUS
<1>3. X!Starts(recs) = Selection([i \in DOMAIN recs |-> i], {i \in DOMAIN recs : recs[i].kind = "started"})
  BY Zenon DEF X!Starts, X!Selection, Selection
<1>4. seq = [i \in DOMAIN recs |-> i]
  BY <1>1, <1>2, Zenon
<1>5. X!Starts(recs) = Selection(seq, places)
  BY <1>2, <1>3, <1>4, Zenon DEF StartPlaces
<1>6. Orderly(Selection(seq, places), N, places)
  BY <1>2, SelectedPlaces
<1> QED
  BY <1>1, <1>2, <1>5, <1>6

\* The tail begins at the first of the last prompts, or at the messages before it.
BackOver(recs, from, at) ==
    from \in 1 .. at /\ \A j \in from .. at - 1 : recs[j].kind = "message"

\* TailStart of Codex finds the first kept task by its turn_id, and goes back over its messages.
LEMMA CodexTailStart ==
    ASSUME NEW recs, CodexWritten(recs), NEW W, W = X!Starts(recs), NEW keep \in Nat,
           NEW s, s = Len(W) - X!KeptCount(W, keep), NEW from, from = X!TailStart(recs, W, keep),
           s + 1 \in 1 .. Len(W) => recs[W[s + 1]].id # 0
    PROVE  \E at : FromStart(W, Len(recs), s, at) /\ BackOver(recs, from, at)
<1>1. recs \in Seq(CodexRecord) /\ Len(recs) \in Nat /\ DOMAIN recs = 1 .. Len(recs)
  BY DEF CodexWritten
<1>2. Orderly(W, Len(recs), StartPlaces(recs))
  BY <1>1, CodexOrderly
<1>3. PICK w \in Nat : w = Len(W) /\ DOMAIN W = 1 .. w
  <2>1. W \in Seq(Nat)
    BY <1>2 DEF Orderly
  <2> QED
    BY <2>1
<1>4. PICK k \in 0 .. w : k = X!KeptCount(W, keep) /\ s = w - k
  <2>1. PICK k : k = X!KeptCount(W, keep)
    OBVIOUS
  <2>2. k = IF keep < w THEN keep ELSE w
    BY <1>3, <2>1 DEF X!KeptCount
  <2>3. k \in 0 .. w
    BY <2>2
  <2> QED
    BY <1>3, <2>1, <2>3
<1>5. PICK starts : starts = {W[n] : n \in {m \in DOMAIN W :
                                /\ recs[W[m]].id # 0
                                /\ X!Native(recs[W[m]].id) = X!StepName(recs, W, s + 1)}}
  OBVIOUS
<1>6. PICK at : at = IF k = 0 THEN Len(recs) + 1 ELSE X!First(starts, Len(recs) + 1)
  OBVIOUS
<1>7. from = X!First({i \in 1 .. at : \A j \in i .. at - 1 : recs[j].kind = "message"}, at)
  <2>1. s = Len(W) - X!KeptCount(W, keep)
    OBVIOUS
  <2> QED
    BY <1>4, <1>5, <1>6, <2>1, Zenon DEF X!TailStart
<1>8. FromStart(W, Len(recs), s, at)
  <2>1. CASE k = 0
    <3>1. at = Len(recs) + 1
      BY <1>6, <2>1
    <3>2. s = w /\ s \in 0 .. w /\ at \in 1 .. Len(recs) + 1
      BY <1>1, <1>3, <1>4, <2>1, <3>1
    <3> QED
      BY <1>3, <3>1, <3>2 DEF FromStart
  <2>2. CASE k # 0
    <3>1. s \in 0 .. w /\ s # w /\ s + 1 \in 1 .. w
      BY <1>3, <1>4, <2>2
    <3>2. PICK x : x = W[s + 1]
      OBVIOUS
    <3>3. x \in StartPlaces(recs) /\ x \in 1 .. Len(recs)
      BY <1>2, <1>3, <3>1, <3>2 DEF Orderly
    <3>4. recs[x].id = x /\ x # 0
      <4>1. recs[x].id # 0
        BY <1>3, <3>1, <3>2
      <4>2. recs[x].id \in {0, x}
        BY <3>3 DEF CodexWritten, StartPlaces
      <4> QED
        BY <4>1, <4>2
    <3>5. X!StepName(recs, W, s + 1) = X!Native(x)
      BY <3>2, <3>4 DEF X!StepName
    <3>6. ASSUME NEW m \in DOMAIN W
          PROVE  recs[W[m]].id # 0 /\ X!Native(recs[W[m]].id) = X!StepName(recs, W, s + 1) <=> W[m] = x
      <4>1. PICK y : y = W[m]
        OBVIOUS
      <4>2. y \in StartPlaces(recs) /\ y \in 1 .. Len(recs)
        BY <1>2, <1>3, <3>6, <4>1 DEF Orderly
      <4>3. recs[y].id \in {0, y}
        BY <4>2 DEF CodexWritten, StartPlaces
      <4>4. X!Native(recs[y].id) = X!Native(x) <=> recs[y].id = x
        BY DEF X!Native
      <4> QED
        BY <3>4, <3>5, <4>1, <4>3, <4>4
    <3>7. starts = {x}
      <4>1. \A z : z \in starts <=> \E m \in DOMAIN W : W[m] = x /\ z = W[m]
        BY <1>5, <3>6
      <4>2. s + 1 \in DOMAIN W
        BY <1>3, <3>1
      <4> QED
        BY <3>2, <4>1, <4>2
    <3>8. at = x
      <4>1. {x} \subseteq 1 .. Len(recs) /\ {x} # {}
        BY <3>3
      <4>2. PICK d : d = Len(recs) + 1
        OBVIOUS
      <4>3. at = C!First({x}, d)
        BY <1>6, <2>2, <3>7, <4>2 DEF X!First, C!First
      <4>4. PICK S : S = {x}
        OBVIOUS
      <4>5. PICK n \in Nat : n = Len(recs)
        BY <1>1
      <4>6. S \subseteq 1 .. n /\ S # {} /\ at = C!First(S, d)
        BY <4>1, <4>3, <4>4, <4>5
      <4>7. at \in S
        BY <4>6, FirstIs
      <4> QED
        BY <4>4, <4>7
    <3>9. at \in 1 .. Len(recs) + 1
      BY <1>1, <3>3, <3>8
    <3> QED
      BY <1>3, <3>1, <3>2, <3>8, <3>9 DEF FromStart
  <2> QED
    BY <2>1, <2>2
<1>9. BackOver(recs, from, at)
  <2>1. at \in Nat \ {0}
    BY <1>1, <1>8 DEF FromStart
  <2>2. PICK S : S = {i \in 1 .. at : \A j \in i .. at - 1 : recs[j].kind = "message"}
    OBVIOUS
  <2>3. S \subseteq 1 .. at
    BY <2>2
  <2>4. at \in S
    <3>1. at .. at - 1 = {} /\ at \in 1 .. at
      BY <2>1
    <3> QED
      BY <2>2, <3>1
  <2>5. from = C!First(S, at)
    BY <1>7, <2>2, Zenon DEF X!First, C!First
  <2>6. from \in S
    BY <2>1, <2>3, <2>4, <2>5, FirstIs
  <2> QED
    BY <2>2, <2>6 DEF BackOver
<1> QED
  BY <1>8, <1>9

\* No prompt is between the messages, so the kept ones are those from there on.
LEMMA BackSplits ==
    ASSUME NEW recs, NEW W, Orderly(W, Len(recs), StartPlaces(recs)), Len(recs) \in Nat,
           NEW s, NEW at, FromStart(W, Len(recs), s, at), NEW from, BackOver(recs, from, at)
    PROVE  Splits(W, Len(recs), StartPlaces(recs), s, from)
<1>1. \A j \in 1 .. Len(W) : at <= W[j] <=> s < j
  BY FromPlaces
<1>2. s \in 0 .. Len(W) /\ at \in 1 .. Len(recs) + 1
  BY DEF FromStart
<1>3. from \in 1 .. at /\ \A j \in from .. at - 1 : recs[j].kind = "message"
  BY DEF BackOver
<1>4. at \in Nat /\ from \in Nat \ {0} /\ from <= at
  BY <1>2, <1>3
<1>5. ASSUME NEW j \in 1 .. Len(W) PROVE from <= W[j] <=> s < j
  <2>1. PICK x : x = W[j]
    OBVIOUS
  <2>2. x \in StartPlaces(recs) /\ x \in 1 .. Len(recs)
    BY <2>1 DEF Orderly
  <2>3. recs[x].kind # "message"
    BY <2>2 DEF StartPlaces
  <2>4. x \notin from .. at - 1
    BY <1>3, <2>3
  <2>5. from <= x <=> at <= x
    BY <1>4, <2>2, <2>4
  <2> QED
    BY <1>1, <2>1, <2>5
<1> QED
  BY <1>2, <1>4, <1>5 DEF Splits

\* What a context fork of Codex has before its tail.
CodexHead == <<X!Codex("meta", 0, 0, FALSE), X!Codex("other", 0, 0, FALSE)>>

\* They are proper records: the session_meta and the digest.
LEMMA CodexHeads ==
    ASSUME NEW h, h = CodexHead
    PROVE  h \in Seq(CodexRecord) /\ Len(h) = 2 /\ h[1].kind = "meta" /\ h[2].kind = "other"
<1>1. PICK x, y : x = X!Codex("meta", 0, 0, FALSE) /\ y = X!Codex("other", 0, 0, FALSE)
  OBVIOUS
<1>2. x \in CodexRecord /\ y \in CodexRecord /\ x.kind = "meta" /\ y.kind = "other"
  BY <1>1 DEF X!Codex, CodexRecord, CodexKinds
<1>3. h = <<x, y>>
  BY <1>1 DEF CodexHead
<1> QED
  BY <1>2, <1>3

\* A context fork of Codex: two records that open no step, and those from a place on.
Tails(content, recs, from) ==
    /\ content \in Seq(CodexRecord) /\ Len(content) = 2 + (Len(recs) + 1 - from)
    /\ content[1].kind = "meta" /\ content[2].kind = "other"
    /\ \A y \in 3 .. Len(content) : from + y - 3 \in from .. Len(recs) /\ content[y] = recs[from + y - 3]

\* What craft_codex writes is such.
LEMMA CodexTails ==
    ASSUME NEW recs \in Seq(CodexRecord), NEW from \in 1 .. Len(recs) + 1,
           NEW h, h = CodexHead, NEW tail, tail = SubSeq(recs, from, Len(recs)),
           NEW content, content = h \o tail
    PROVE  Tails(content, recs, from)
<1>1. h \in Seq(CodexRecord) /\ Len(h) = 2 /\ h[1].kind = "meta" /\ h[2].kind = "other"
  BY CodexHeads
<1>2. /\ tail \in Seq(CodexRecord) /\ Len(tail) = Len(recs) + 1 - from
      /\ \A i \in 1 .. Len(recs) + 1 - from : tail[i] = recs[from - 1 + i]
  BY TailOf
<1>3. AfterTwo(CodexRecord, content, h, tail)
  BY <1>1, <1>2, BehindTwo, Zenon
<1>4. PICK N \in Nat : N = Len(recs)
  OBVIOUS
<1>5. PICK T \in Nat : T = N + 1 - from /\ from \in Nat
  <2>1. from \in 1 .. N + 1
    BY <1>4
  <2>2. from \in Nat /\ N + 1 - from \in Nat
    BY <2>1
  <2> QED
    BY <2>2
<1>6. /\ content \in Seq(CodexRecord) /\ Len(content) = 2 + T /\ content[1] = h[1] /\ content[2] = h[2]
      /\ \A j \in 1 .. T : content[2 + j] = tail[j] /\ tail[j] = recs[from - 1 + j]
  BY <1>2, <1>3, <1>4, <1>5 DEF AfterTwo
<1>7. ASSUME NEW y \in 3 .. 2 + T
      PROVE  from + y - 3 \in from .. N /\ content[y] = recs[from + y - 3]
  <2>1. PICK j \in 1 .. T : j = y - 2
    BY <1>5
  <2>2. 2 + j = y /\ from - 1 + j = from + y - 3 /\ from + y - 3 \in from .. N
    BY <1>4, <1>5, <2>1
  <2>3. content[2 + j] = recs[from - 1 + j]
    BY <1>6
  <2> QED
    BY <2>2, <2>3
<1>8. Len(content) = 2 + (Len(recs) + 1 - from)
  BY <1>4, <1>5, <1>6
<1> QED
  BY <1>1, <1>4, <1>6, <1>7, <1>8 DEF Tails

\* Its starts of tasks are those of the transcript from there on.
LEMMA CodexContents ==
    ASSUME NEW recs, NEW N \in Nat, N = Len(recs), DOMAIN recs = 1 .. N, NEW from \in 1 .. N + 1,
           NEW content, Tails(content, recs, from), NEW K, K = Len(content),
           NEW e, e = [y \in 1 .. K |-> from + y - 3]
    PROVE  K \in Nat /\ CarriedOver(e, K, StartPlaces(content), from, N, StartPlaces(recs))
<1>1. /\ content \in Seq(CodexRecord) /\ K = 2 + (N + 1 - from) /\ from \in Nat
      /\ content[1].kind = "meta" /\ content[2].kind = "other"
      /\ \A y \in 3 .. K : from + y - 3 \in from .. N /\ content[y] = recs[from + y - 3]
  BY DEF Tails
<1>2. K \in Nat /\ DOMAIN content = 1 .. K
  <2>1. DOMAIN content = 1 .. Len(content) /\ Len(content) \in Nat
    BY <1>1, LenProperties, Zenon
  <2> QED
    BY <2>1
<1>3. ASSUME NEW y \in 1 .. K, y \in StartPlaces(content) PROVE y \in 3 .. K
  <2>1. y # 1 /\ y # 2
    BY <1>1, <1>3 DEF StartPlaces
  <2> QED
    BY <1>2, <2>1
<1>4. ASSUME NEW y \in 1 .. K, y \in StartPlaces(content)
      PROVE  e[y] \in StartPlaces(recs) /\ e[y] \in from .. N
  <2>1. PICK x : x = from + y - 3
    OBVIOUS
  <2>2. y \in 3 .. K
    BY <1>3, <1>4
  <2>3. x \in from .. N /\ content[y] = recs[x] /\ x \in 1 .. N
    BY <1>1, <2>1, <2>2
  <2>4. content[y].kind = "started"
    BY <1>4 DEF StartPlaces
  <2>5. e[y] = x
    BY <2>1
  <2> QED
    BY <2>3, <2>4, <2>5 DEF StartPlaces
<1>5. ASSUME NEW y \in 1 .. K, NEW z \in 1 .. K, y < z PROVE e[y] < e[z]
  BY <1>1, <1>5
<1>6. ASSUME NEW x \in from .. N, x \in StartPlaces(recs)
      PROVE  \E y \in 1 .. K : y \in StartPlaces(content) /\ e[y] = x
  <2>1. PICK y \in 3 .. K : x = from + y - 3
    <3>1. x - from + 3 \in 3 .. K /\ x = from + (x - from + 3) - 3
      BY <1>1
    <3> QED
      BY <3>1
  <2>2. content[y] = recs[x]
    BY <1>1, <2>1
  <2>3. y \in 1 .. K /\ e[y] = x
    BY <2>1
  <2>4. y \in StartPlaces(content)
    BY <1>2, <1>6, <2>2, <2>3 DEF StartPlaces
  <2> QED
    BY <2>3, <2>4
<1>7. CarriedOver(e, K, StartPlaces(content), from, N, StartPlaces(recs))
  BY <1>4, <1>5, <1>6, Zenon DEF CarriedOver
<1> QED
  BY <1>2, <1>7

\* The kept tasks with a turn_id are steps of the fork, with their calls.
LEMMA CodexCarried ==
    ASSUME NEW recs, CodexWritten(recs), NEW at \in 1 .. Len(recs), Answers(recs[at]),
           NEW from, BackOver(recs, from, at), NEW content, Tails(content, recs, from),
           NEW x \in at .. Len(recs), Answers(recs[x])
    PROVE  Carried(X!Parse(recs).steps, X!Parse(content).steps, X!Native(x))
<1>1. recs \in Seq(CodexRecord) /\ Len(recs) \in Nat
  BY DEF CodexWritten
<1>2. from \in 1 .. at /\ \A j \in from .. at - 1 : recs[j].kind = "message"
  BY DEF BackOver
<1>3. /\ content \in Seq(CodexRecord) /\ Len(content) = 2 + (Len(recs) + 1 - from)
      /\ content[1].kind = "meta" /\ content[2].kind = "other"
      /\ \A y \in 3 .. Len(content) : content[y] = recs[from + y - 3]
  BY DEF Tails
<1>4. PICK H \in Nat : H = 2 + (at - from)
  BY <1>1, <1>2
<1>5. PICK D \in Nat : D = Len(recs) - at
  BY <1>1
<1>6. CodexContext(recs, at, D, H, content)
  <2>1. Len(content) = H + 1 + D
    BY <1>1, <1>2, <1>3, <1>4, <1>5
  <2>2. ASSUME NEW i \in 1 .. H PROVE content[i].kind \in {"meta", "message", "other"}
    <3>1. CASE i = 1 \/ i = 2
      BY <1>3, <3>1
    <3>2. CASE i # 1 /\ i # 2
      <4>1. PICK j : j = from + i - 3
        OBVIOUS
      <4>2. i \in 3 .. Len(content) /\ j \in from .. at - 1
        <5>1. i \in Nat /\ i >= 3 /\ i <= H /\ at \in Nat /\ from \in Nat
          BY <1>1, <1>2, <1>4, <3>2
        <5>2. j \in from .. at - 1
          BY <1>4, <4>1, <5>1
        <5>3. i <= Len(content) /\ Len(content) \in Nat
          BY <1>4, <1>5, <2>1, <5>1
        <5> QED
          BY <5>1, <5>2, <5>3
      <4>3. content[i] = recs[j] /\ recs[j].kind = "message"
        BY <1>2, <1>3, <4>1, <4>2
      <4> QED
        BY <4>3
    <3> QED
      BY <3>1, <3>2
  <2>3. ASSUME NEW j \in 0 .. D PROVE content[H + 1 + j] = recs[at + j]
    <3>1. PICK y : y = H + 1 + j
      OBVIOUS
    <3>2. y \in 3 .. Len(content) /\ from + y - 3 = at + j
      BY <1>1, <1>2, <1>4, <2>1, <3>1
    <3>3. content[y] = recs[from + y - 3]
      BY <1>3, <3>2
    <3> QED
      BY <3>1, <3>2, <3>3
  <2> QED
    BY <1>3, <2>1, <2>2, <2>3 DEF CodexContext
<1>7. PICK a : IsCodexRun(a, recs) /\ X!Parse(recs) = X!CloseStep(a[Len(recs)])
  BY <1>1, CodexParses
<1>8. PICK b : IsCodexRun(b, content) /\ X!Parse(content) = X!CloseStep(b[Len(content)])
  <2>1. Len(content) \in Nat
    BY <1>3
  <2> QED
    BY <2>1, CodexParses
<1>9. PICK p, q : p = a[Len(recs)] /\ q = b[Len(content)]
  OBVIOUS
<1>10. PICK L : CodexTailed(recs, at, Len(recs), p, q, L)
  <2>1. PICK L : CodexTailed(recs, at, Len(recs), a[Len(recs)], b[Len(content)], L)
    BY <1>5, <1>6, <1>7, <1>8, CodexTailedAll
  <2> QED
    BY <1>9, <2>1
<1>11. p \in CodexState /\ p.current = Len(p.steps)
  <2>1. Len(recs) \in 0 .. Len(recs)
    BY <1>1
  <2>2. CodexSound(recs, Len(recs), p)
    BY <1>7, <1>9, <2>1, CodexRunSound
  <2> QED
    BY <2>2 DEF CodexSound
<1>12. PICK c, d : c = X!CloseStep(p) /\ d = X!CloseStep(q)
  OBVIOUS
<1>13. Carried(c.steps, d.steps, X!Native(x))
  BY <1>1, <1>10, <1>11, <1>12, CodexTailedClosed
<1> QED
  BY <1>7, <1>8, <1>9, <1>12, <1>13

CodexPrompts(recs) == [n \in DOMAIN X!Starts(recs) |-> X!StepName(recs, X!Starts(recs), n)]

\* A context fork of Codex loses no task that has a turn_id, when the first that it keeps has one.
LEMMA CodexCrafts ==
    ASSUME NEW recs, CodexWritten(recs), NEW keep \in Nat,
           NEW content, content = X!Craft(recs, keep)
    PROVE  LosesNone(CodexPrompts(recs), X!Digest(recs, keep), CodexPrompts(content),
                     X!Parse(recs).steps, X!Parse(content).steps)
<1>1. recs \in Seq(CodexRecord)
  BY DEF CodexWritten
<1>2. PICK N \in Nat : N = Len(recs) /\ DOMAIN recs = 1 .. N
  BY <1>1
<1>3. PICK W : W = X!Starts(recs)
  OBVIOUS
<1>4. Orderly(W, N, StartPlaces(recs))
  BY <1>1, <1>2, <1>3, CodexOrderly
<1>5. PICK w \in Nat : w = Len(W) /\ DOMAIN W = 1 .. w
  <2>1. W \in Seq(Nat)
    BY <1>4 DEF Orderly
  <2> QED
    BY <2>1
<1>6. PICK k : k = X!KeptCount(W, keep)
  OBVIOUS
<1>7. PICK s : s = Len(W) - k
  OBVIOUS
<1>8. s \in 0 .. w
  <2>1. k = IF keep < w THEN keep ELSE w
    BY <1>5, <1>6 DEF X!KeptCount
  <2> QED
    BY <1>5, <1>7, <2>1
<1>9. PICK from : from = X!TailStart(recs, W, keep)
  OBVIOUS
<1>10. PICK tail : tail = SubSeq(recs, from, Len(recs))
  OBVIOUS
<1>11. PICK h : h = CodexHead
  OBVIOUS
<1>12. content = h \o tail
  BY <1>3, <1>9, <1>10, <1>11, Zenon DEF X!Craft, CodexHead
<1>13. PICK V : V = X!Starts(content)
  OBVIOUS
<1>14. PICK all, digest, kept : all = CodexPrompts(recs) /\ digest = X!Digest(recs, keep) /\ kept = CodexPrompts(content)
  OBVIOUS
<1>15. PICK before, after : before = X!Parse(recs).steps /\ after = X!Parse(content).steps
  OBVIOUS
<1>16. /\ DOMAIN all = 1 .. w /\ \A n \in 1 .. w : all[n] = X!StepName(recs, W, n)
       /\ all = [n \in 1 .. w |-> all[n]]
  BY <1>3, <1>5, <1>14, Zenon DEF CodexPrompts
<1>17. /\ DOMAIN digest = 1 .. s /\ \A n \in 1 .. s : digest[n] = X!StepName(recs, W, n)
       /\ digest = [n \in 1 .. s |-> digest[n]]
  <2>1. Len(X!Starts(recs)) - X!KeptCount(X!Starts(recs), keep) = s
    BY <1>3, <1>6, <1>7
  <2>2. digest = [n \in 1 .. s |-> X!StepName(recs, W, n)]
    BY <1>3, <1>14, <2>1, Zenon DEF X!Digest
  <2> QED
    BY <2>2, Zenon
<1>18. Len(all) = w /\ Len(digest) = s
  BY <1>8, <1>16, <1>17
<1>19. ASSUME NEW m \in 1 .. w
       PROVE  /\ W[m] \in StartPlaces(recs) /\ W[m] \in 1 .. N /\ recs[W[m]].id \in {0, W[m]}
              /\ all[m].by = "native" => recs[W[m]].id # 0
              /\ recs[W[m]].id # 0 => all[m] = X!Native(W[m]) /\ recs[W[m]].id = W[m]
  <2>1. PICK x : x = W[m]
    OBVIOUS
  <2>2. x \in StartPlaces(recs) /\ x \in 1 .. N
    BY <1>4, <1>5, <2>1 DEF Orderly
  <2>3. recs[x].id \in {0, x}
    BY <1>2, <2>2 DEF CodexWritten, StartPlaces
  <2>4. all[m] = X!StepName(recs, W, m)
    BY <1>16
  <2>5. recs[x].id = 0 => all[m].by # "native"
    BY <2>1, <2>4 DEF X!StepName, X!Ordinal
  <2>6. recs[x].id # 0 => all[m] = X!Native(recs[x].id)
    BY <2>1, <2>4 DEF X!StepName
  <2>7. recs[x].id # 0 => recs[x].id = x
    BY <2>3
  <2> QED
    BY <2>1, <2>2, <2>3, <2>5, <2>6, <2>7
<1>20. CASE ~(Len(digest) + 1 \in DOMAIN all => all[Len(digest) + 1].by = "native")
  <2>1. LosesNone(all, digest, kept, before, after)
    BY <1>20, Zenon DEF LosesNone
  <2> QED
    BY <1>14, <1>15, <2>1
<1>21. CASE Len(digest) + 1 \in DOMAIN all => all[Len(digest) + 1].by = "native"
  <2>1. s + 1 \in 1 .. Len(W) => recs[W[s + 1]].id # 0
    <3>1. ASSUME s + 1 \in 1 .. w PROVE recs[W[s + 1]].id # 0
      <4>1. PICK m \in 1 .. w : m = s + 1
        BY <3>1
      <4>2. all[m].by = "native"
        BY <1>16, <1>18, <1>21, <4>1
      <4> QED
        BY <1>19, <4>1, <4>2
    <3> QED
      BY <1>5, <3>1
  <2>2. PICK at : FromStart(W, Len(recs), s, at) /\ BackOver(recs, from, at)
    BY <1>3, <1>6, <1>7, <1>9, <2>1, CodexTailStart
  <2>3. at \in 1 .. N + 1 /\ from \in 1 .. at
    BY <1>2, <2>2 DEF FromStart, BackOver
  <2>4. from \in 1 .. N + 1 /\ from \in 1 .. Len(recs) + 1
    BY <1>2, <2>3
  <2>5. Splits(W, N, StartPlaces(recs), s, from)
    BY <1>2, <1>4, <2>2, BackSplits
  <2>6. Tails(content, recs, from)
    BY <1>1, <1>10, <1>11, <1>12, <2>4, CodexTails
  <2>7. PICK K : K = Len(content)
    OBVIOUS
  <2>8. PICK e : e = [y \in 1 .. K |-> from + y - 3]
    OBVIOUS
  <2>9. K \in Nat /\ CarriedOver(e, K, StartPlaces(content), from, N, StartPlaces(recs))
    BY <1>2, <2>4, <2>6, <2>7, <2>8, CodexContents
  <2>10. content \in Seq(CodexRecord)
    BY <2>6 DEF Tails
  <2>11. Orderly(V, K, StartPlaces(content))
    BY <1>13, <2>7, <2>10, CodexOrderly
  <2>12. Len(V) + s = Len(W) /\ \A n \in 1 .. Len(V) : e[V[n]] = W[s + n]
    <3>1. Follows(V, W, s, e)
      BY <2>5, <2>9, <2>11, PlacesCarried, Zenon
    <3> QED
      BY <3>1 DEF Follows
  <2>13. PICK v \in Nat : v = Len(V) /\ DOMAIN V = 1 .. v
    <3>1. V \in Seq(Nat)
      BY <2>11 DEF Orderly
    <3> QED
      BY <3>1
  <2>14. v + s = w
    BY <1>5, <2>12, <2>13
  <2>15. /\ DOMAIN kept = 1 .. v /\ \A n \in 1 .. v : kept[n] = X!StepName(content, V, n)
         /\ kept = [n \in 1 .. v |-> kept[n]]
    BY <1>13, <1>14, <2>13, Zenon DEF CodexPrompts
  <2>16. Len(kept) = v
    BY <2>15
  <2>17. \A n \in 1 .. s : digest[n] = all[n]
    <3>1. \A n \in 1 .. s : n \in 1 .. w
      BY <1>8
    <3> QED
      BY <1>16, <1>17, <3>1
  <2>18. ASSUME NEW n \in 1 .. v, all[s + n].by = "native"
         PROVE  kept[n] = all[s + n] /\ Carried(before, after, kept[n])
    <3>1. PICK m \in 1 .. w : m = s + n
      BY <1>8, <2>14
    <3>2. PICK x : x = W[m]
      OBVIOUS
    <3>3. /\ x \in StartPlaces(recs) /\ x \in 1 .. N /\ recs[x].id # 0
          /\ all[m] = X!Native(x) /\ recs[x].id = x
      BY <1>19, <2>18, <3>1, <3>2
    <3>4. PICK y : y = V[n]
      OBVIOUS
    <3>5. y \in StartPlaces(content) /\ y \in 1 .. K
      BY <2>11, <2>13, <3>4 DEF Orderly
    <3>6. e[y] = x
      BY <2>12, <2>13, <3>1, <3>2, <3>4
    <3>7. content[y] = recs[x]
      <4>1. from + y - 3 = x
        BY <2>8, <3>5, <3>6
      <4>2. content[y].kind = "started"
        BY <3>5 DEF StartPlaces
      <4>3. y # 1 /\ y # 2
        BY <2>6, <4>2 DEF Tails
      <4>4. y \in 3 .. K
        BY <2>9, <3>5, <4>3
      <4> QED
        BY <2>6, <2>7, <4>1, <4>4 DEF Tails
    <3>8. kept[n] = X!Native(x)
      <4>1. X!StepName(content, V, n) = X!Native(x)
        BY <3>3, <3>4, <3>7 DEF X!StepName
      <4> QED
        BY <2>15, <4>1
    <3>9. at \in 1 .. Len(recs) /\ Answers(recs[at]) /\ at <= x
      <4>1. s # w /\ s + 1 \in 1 .. w /\ s < m
        BY <1>8, <2>14, <3>1
      <4>2. at = W[s + 1]
        BY <1>5, <2>2, <4>1 DEF FromStart
      <4>3. at \in StartPlaces(recs) /\ at \in 1 .. N
        BY <1>19, <4>1, <4>2
      <4>4. recs[at].id # 0
        BY <1>5, <2>1, <4>1, <4>2
      <4>5. at <= x
        <5>1. \A j \in 1 .. Len(W) : at <= W[j] <=> s < j
          BY <1>2, <1>4, <2>2, FromPlaces
        <5> QED
          BY <1>5, <3>2, <4>1, <5>1
      <4> QED
        BY <1>2, <4>3, <4>4, <4>5 DEF StartPlaces, Answers
    <3>10. x \in at .. Len(recs) /\ Answers(recs[x])
      BY <1>2, <3>3, <3>9 DEF StartPlaces, Answers
    <3>11. Carried(X!Parse(recs).steps, X!Parse(content).steps, X!Native(x))
      BY <2>2, <2>6, <3>9, <3>10, CodexCarried, Zenon
    <3> QED
      BY <1>15, <3>1, <3>3, <3>8, <3>11
  <2>19. LosesNone(all, digest, kept, before, after)
    <3>1. Len(digest) + Len(kept) = Len(all)
      BY <1>8, <1>18, <2>14, <2>16
    <3>2. \A n \in DOMAIN digest : digest[n] = all[n]
      BY <1>17, <2>17
    <3>3. \A n \in DOMAIN kept : all[Len(digest) + n].by = "native" =>
            kept[n] = all[Len(digest) + n] /\ Carried(before, after, kept[n])
      BY <1>18, <2>15, <2>18
    <3> QED
      BY <3>1, <3>2, <3>3, Zenon DEF LosesNone
  <2> QED
    BY <1>14, <1>15, <2>19
<1> QED
  BY <1>20, <1>21

\* What is being written is the context fork that was asked for.
Crafted ==
    run.pc = "writing" /\ run.kind = "craft" =>
        CanCraft /\ run.content = Craft(run.arg) /\ run.arg \in Nat

\* A context fork is made of the transcript as it is, and nothing is written meanwhile.
LEMMA NextCrafted == IInv /\ Crafted /\ [Next]_vars => Crafted'
<1> SUFFICES ASSUME IInv, Crafted, [Next]_vars PROVE Crafted'
  OBVIOUS
<1>1. run = [pc |-> run.pc, kind |-> run.kind, arg |-> run.arg, content |-> run.content]
  BY DEF IInv, RunShape
<1>2. ASSUME run'.pc # "writing" PROVE Crafted'
  BY <1>2 DEF Crafted
<1>3. CASE AgentWrites
  BY <1>2, <1>3 DEF AgentWrites
<1>4. CASE \E id \in StepIds : ForkAtStep(id)
  <2>1. PICK id : Begin("step", id, ForkAt(id))
    BY <1>4 DEF ForkAtStep
  <2>2. run'.kind = "step"
    BY <2>1 DEF Begin
  <2> QED
    BY <2>2 DEF Crafted
<1>5. CASE \E keep \in 0 .. MaxKeep : CraftContext(keep)
  <2>1. PICK keep \in 0 .. MaxKeep : CanCraft /\ Begin("craft", keep, Craft(keep))
    BY <1>5 DEF CraftContext
  <2>2. adapter' = adapter /\ records' = records /\ run'.arg = keep /\ run'.content = Craft(keep)
    BY <2>1 DEF Begin
  <2>3. CanCraft' /\ Craft(keep)' = Craft(keep)
    BY <2>1, <2>2 DEF CanCraft, Craft, Here
  <2>4. keep \in Nat
    BY <2>1, BoundsAssumption
  <2> QED
    BY <2>2, <2>3, <2>4 DEF Crafted
<1>6. ASSUME NEW from, NEW to, Goes(from, to), to # "writing" PROVE Crafted'
  <2>1. run'.pc = to
    BY <1>1, <1>6 DEF Goes
  <2> QED
    BY <1>2, <1>6, <2>1
<1>7. CASE WriteTranscript
  BY <1>6, <1>7 DEF WriteTranscript
<1>8. CASE \/ WriteFails \/ CreateCopy \/ CreateFails \/ CopySidecars \/ CopyFails
           \/ RemoveTranscript \/ SyncFork \/ SyncFails
  BY <1>6, <1>8 DEF WriteFails, CreateCopy, CreateFails, CopySidecars, CopyFails,
                    RemoveTranscript, SyncFork, SyncFails
<1>9. CASE Killed
  <2>1. run'.pc = "down"
    BY <1>1, <1>9 DEF Killed
  <2> QED
    BY <1>2, <2>1
<1>10. CASE PowerLoss
  <2>1. run'.pc \in {"done", "down"}
    BY <1>1, <1>10 DEF PowerLoss
  <2> QED
    BY <1>2, <2>1
<1>11. CASE UNCHANGED vars
  BY <1>11 DEF vars, Crafted, CanCraft, Craft, Here
<1> QED
  BY <1>3, <1>4, <1>5, <1>7, <1>8, <1>9, <1>10, <1>11 DEF Next

\* At first nothing is written.
LEMMA InitCrafted == Init => Crafted
  BY DEF Init, NoRun, Crafted

\* The context fork that was asked for loses no prompt.
LEMMA CraftedKeeps == Written /\ Crafted => CraftLosesNoStep
<1> SUFFICES ASSUME Written, Crafted, run.pc = "writing", run.kind = "craft"
             PROVE  LosesNone(Prompts(records), Digest(run.arg), Prompts(run.content),
                              Steps(records), Steps(run.content))
  BY Zenon DEF CraftLosesNoStep, LosesNone, Carried
<1>1. PICK keep : keep = run.arg
  OBVIOUS
<1>2. PICK content : content = run.content
  OBVIOUS
<1>3. content = Craft(keep) /\ keep \in Nat
  BY <1>1, <1>2 DEF Crafted
<1>4. CASE adapter = "claude"
  <2>1. ClaudeWritten(records) /\ content = C!Craft(records, keep, Len(records) + 1)
    BY <1>3, <1>4 DEF Written, Craft, Here
  <2>2. LosesNone(ClaudePrompts(records), C!Digest(records, keep), ClaudePrompts(content),
                  C!Parse(records).steps, C!Parse(content).steps)
    BY <1>3, <2>1, ClaudeCrafts, Zenon
  <2>3. \A recs : Prompts(recs) = ClaudePrompts(recs)
    BY <1>4, Zenon DEF Prompts, ClaudePrompts
  <2>4. Digest(keep) = C!Digest(records, keep)
    BY <1>4, Zenon DEF Digest
  <2>5. \A recs : Steps(recs) = C!Parse(recs).steps
    BY <1>4, Zenon DEF Steps, Parse
  <2> QED
    BY <1>1, <1>2, <2>2, <2>3, <2>4, <2>5, Zenon
<1>5. CASE adapter = "codex"
  <2>0. adapter # "claude"
    BY <1>5
  <2>1. CodexWritten(records) /\ content = X!Craft(records, keep)
    BY <1>3, <1>5, <2>0 DEF Written, Craft
  <2>2. LosesNone(CodexPrompts(records), X!Digest(records, keep), CodexPrompts(content),
                  X!Parse(records).steps, X!Parse(content).steps)
    BY <1>3, <2>1, CodexCrafts, Zenon
  <2>3. \A recs : Prompts(recs) = CodexPrompts(recs)
    BY <2>0, Zenon DEF Prompts, CodexPrompts
  <2>4. Digest(keep) = X!Digest(records, keep)
    BY <2>0, Zenon DEF Digest
  <2>5. \A recs : Steps(recs) = X!Parse(recs).steps
    BY <2>0, Zenon DEF Steps, Parse
  <2> QED
    BY <1>1, <1>2, <2>2, <2>3, <2>4, <2>5, Zenon
<1> QED
  BY <1>4, <1>5 DEF Written

\* A context fork loses no prompt: the digest of craft_claude and craft_codex has the names
\* of the earlier ones and the transcript those of the others, whose steps have the calls
\* that they had, although the parser begins in the middle of what the agent wrote.
THEOREM CraftKeepsSteps == Spec => []CraftLosesNoStep
<1>1. Init => Written /\ IInv /\ Crafted
  BY InitWritten, InitFiles, InitCrafted
<1>2. (Written /\ IInv /\ Crafted) /\ [Next]_vars => (Written /\ IInv /\ Crafted)'
  BY NextWritten, NextFiles, NextCrafted
<1>3. Written /\ IInv /\ Crafted => CraftLosesNoStep
  BY CraftedKeeps
<1> QED
  BY <1>1, <1>2, <1>3, PTL DEF Spec
=============================================================================
