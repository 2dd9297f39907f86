------------------------------ MODULE MCInlines -------------------------------
\* The tokens of the runs of Inlines
EXTENDS Inlines

RunOf(ch, len, flanks) ==
  [type |-> "run", ch |-> ch, len |-> len, opens |-> flanks # "right", closes |-> flanks # "left"]

Flanks == {"left", "right", "both"}

StarRuns == {RunOf("*", n, f) : n \in 1..3, f \in Flanks} \cup {RunOf("_", 1, f) : f \in {"left", "right"}}

MixedRuns == {RunOf("*", 1, "left"), RunOf("*", 1, "right"), RunOf("*", 2, "both")} \cup {RunOf("'", 3, f) : f \in {"left", "both"}}

AllBrackets == {[type |-> t] : t \in {"[", "![", "[^", "]", "](url)"}}

TildeRuns == {RunOf("~", n, f) : n \in 1..2, f \in Flanks} \cup {RunOf("*", 1, f) : f \in {"left", "right"}}

\* A text holds the tokens of one topic, and no more than `most'
TokenTopic(runs, bracketTokens, most) == [runs |-> runs, brackets |-> bracketTokens, most |-> most]

TokenTopics ==
  <<TokenTopic(StarRuns, {}, 4), TokenTopic(MixedRuns, AllBrackets, 5), TokenTopic(TildeRuns, {}, 4),
    TokenTopic({}, {[type |-> t] : t \in {"[", "![", "]", "](url)"}}, 7)>>

\* The words of "~~a~ *b*": a pair that is refused, and emphasis
RefusedTopic ==
  TokenTopic({RunOf("~", 2, "left"), RunOf("~", 1, "right"), RunOf("*", 1, "left"), RunOf("*", 1, "right")}, {}, 4)

AllRuns == StarRuns \cup MixedRuns \cup TildeRuns
===============================================================================
