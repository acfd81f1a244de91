---------------------------- MODULE ContextBudget ----------------------------
(***************************************************************************)
(* Context assembly: redaction, compaction and the token budget.           *)
(*                                                                         *)
(* A text is its length in characters, the decisions it carries and        *)
(* whether it holds raw personal data: [len, decisions, pii].  An envelope *)
(* has a goal, a dialogue, memories and the notes of its data pointers.    *)
(***************************************************************************)
EXTENDS Naturals, Sequences, FiniteSets, SequencesExt, FiniteSetsExt

Empty == [len |-> 0, decisions |-> {}, pii |-> FALSE]
IsText(t) == DOMAIN t = {"len", "decisions", "pii"} /\ t.len \in Nat /\ t.pii \in BOOLEAN
IsTexts(texts) == texts \in Seq(ToSet(texts)) /\ \A t \in ToSet(texts) : IsText(t)
IsEnvelope(env) ==
    /\ DOMAIN env = {"goal", "dialogue", "memories", "notes"} /\ IsText(env.goal)
    /\ IsTexts(env.dialogue) /\ IsTexts(env.memories) /\ IsTexts(env.notes)

CharsPerToken == 4
estimate_tokens(len) == len \div CharsPerToken

\* The items of a sequence at some of its places, in order.
Selecting(seq, places) ==
    LET kept[n \in 0..Len(seq)] ==
            IF n = 0 THEN <<>>
            ELSE IF n \in places THEN Append(kept[n - 1], seq[n]) ELSE kept[n - 1]
    IN  kept
Select(seq, places) == Selecting(seq, places)[Len(seq)]

Lines(texts) == Select(texts, {i \in DOMAIN texts : texts[i].len > 0})
DecisionLines(dialogue) == Select(dialogue, {i \in DOMAIN dialogue : dialogue[i].decisions # {}})

\* "\n".join: the lengths and one separator between two texts.
Lengths(texts) ==
    LET total[n \in 0..Len(texts)] == IF n = 0 THEN 0 ELSE total[n - 1] + texts[n].len
    IN  total
JoinLen(texts) == Lengths(texts)[Len(texts)] + (IF texts = <<>> THEN 0 ELSE Len(texts) - 1)
Join(texts) == [len |-> JoinLen(texts),
                decisions |-> UNION {t.decisions : t \in ToSet(texts)},
                pii |-> \E t \in ToSet(texts) : t.pii]

\* text[:n]: the decisions that end within the prefix survive.
Cut(texts, n) ==
    IF JoinLen(texts) <= n THEN Join(texts)
    ELSE [len |-> n,
          decisions |-> UNION {t.decisions : t \in
              {texts[i] : i \in {j \in 1..Len(texts) : JoinLen(SubSeq(texts, 1, j)) <= n}}},
          pii |-> \E t \in ToSet(texts) : t.pii]

\* TokenBudgeter.count over _envelope_text.
count(env) ==
    estimate_tokens(JoinLen(Lines(<<env.goal>> \o env.dialogue \o env.memories \o env.notes)))

\* RegexRedactor.redact: only with the pii flag set in the envelope.
scrub(text) == [text EXCEPT !.pii = FALSE]
redact(env, flagged) ==
    IF ~flagged THEN env
    ELSE [goal |-> scrub(env.goal),
          dialogue |-> [i \in DOMAIN env.dialogue |-> scrub(env.dialogue[i])],
          memories |-> [i \in DOMAIN env.memories |-> scrub(env.memories[i])],
          notes |-> [i \in DOMAIN env.notes |-> scrub(env.notes[i])]]

\* Mutation: the prose summary wins over the decisions.
FitSummaryFirst(preserved, summary, target) ==
    IF estimate_tokens(JoinLen(Append(preserved, summary))) <= target
    THEN Join(Append(preserved, summary)) ELSE Cut(<<summary>>, target * CharsPerToken)
\* LLMCompactor._fit: decisions win over the prose summary; the last resort cuts.
fit(preserved, summary, target) ==
    IF estimate_tokens(JoinLen(Append(preserved, summary))) <= target
    THEN Join(Append(preserved, summary))
    ELSE Cut(preserved, IF estimate_tokens(JoinLen(preserved)) <= target
                        THEN JoinLen(preserved) ELSE target * CharsPerToken)

\* LLMCompactor.compact: a digest, then the last two lines.
compact(dialogue, summary, target) ==
    LET tail == SubSeq(dialogue, IF Len(dialogue) > 1 THEN Len(dialogue) - 1 ELSE 1, Len(dialogue))
    IN  <<fit(DecisionLines(dialogue), summary, target)>> \o tail

\* Mutation: the trim starts with the newest line.
DropDialogueNewestFirst(env, k) == [env EXCEPT !.dialogue = SubSeq(@, 1, Len(@) - k)]
\* dialogue.pop(0), k times.
DropDialogue(env, k) == [env EXCEPT !.dialogue = SubSeq(@, k + 1, Len(@))]
\* memories.pop(), k times.
DropMemories(env, k) == [env EXCEPT !.memories = SubSeq(@, 1, Len(@) - k)]

\* Mutation: the last resort forgets the separator and the goal.
HardTrimLoose(env, max) ==
    LET allowed == max * CharsPerToken
    IN  [env EXCEPT !.goal = Cut(<<@>>, allowed),
                    !.dialogue = IF @ # <<>> THEN <<Cut(<<Last(@)>>, allowed)>> ELSE <<>>]
\* The last resort of fit_envelope: goal and last line cut to the allowed characters.
HardTrim(env, max) ==
    LET allowed == max * CharsPerToken
        goal == Cut(<<env.goal>>, allowed)
        remaining == IF allowed > goal.len + 1 THEN allowed - goal.len - 1 ELSE 0
    IN  [env EXCEPT !.goal = goal,
                    !.dialogue = IF @ # <<>> /\ remaining > 0
                                 THEN <<Cut(<<Last(@)>>, remaining)>> ELSE <<>>]

\* The fewest drops that are enough, or all of them.
Fewest(enough, limit) == IF enough = {} THEN limit ELSE Min(enough)

\* TokenBudgeter.fit_envelope: memories, then the oldest dialogue, then the hard trim.
Lean(env, max) ==
    LET limit == Len(env.memories)
    IN  DropMemories(env, Fewest({k \in 0..limit : count(DropMemories(env, k)) <= max}, limit))
Short(env, max) ==
    LET limit == Len(env.dialogue) - 1
    IN  IF env.dialogue = <<>> THEN env
        ELSE DropDialogue(env, Fewest({k \in 0..limit : count(DropDialogue(env, k)) <= max}, limit))
fit_envelope(env, max) ==
    LET short == Short(Lean(env, max), max)
    IN  IF count(short) > max THEN HardTrim(short, max) ELSE short

\* Mutation: the compactor reads the run's dialogue instead of the redacted one.
BuildFromRunDialogue(env, flagged, compactor, summary, max) ==
    LET red == redact(env, flagged)
        com == IF compactor /\ count(red) > max
               THEN [red EXCEPT !.dialogue = compact(env.dialogue, summary, max)] ELSE red
    IN  fit_envelope(com, max)
\* ContextBuilder.build after its sources: redact, compact when over, fit.
build(env, flagged, compactor, summary, max) ==
    LET red == redact(env, flagged)
        com == IF compactor /\ count(red) > max
               THEN [red EXCEPT !.dialogue = compact(@, summary, max)] ELSE red
    IN  fit_envelope(com, max)

\* TokenBudgeter.enforce on a working dialogue: compact, or keep the last three lines.
enforce(dialogue, compactor, summary, max) ==
    IF estimate_tokens(JoinLen(dialogue)) <= max THEN dialogue
    ELSE IF compactor THEN compact(dialogue, summary, max)
    ELSE SubSeq(dialogue, IF Len(dialogue) > 2 THEN Len(dialogue) - 2 ELSE 1, Len(dialogue))

\* The text the compactor's LLM is sent: the run's goal, not the envelope's.
CompactionPrompt(goal, env, flagged) == Join(<<goal>> \o redact(env, flagged).dialogue)

DecisionsIn(env) == UNION {t.decisions : t \in ToSet(env.dialogue)}
\* The decisions of the lines from a place on.
DecisionsFrom(dialogue, place) == UNION {dialogue[i].decisions : i \in {j \in DOMAIN dialogue : j >= place}}
=============================================================================
