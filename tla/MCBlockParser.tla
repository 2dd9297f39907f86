----------------------------- MODULE MCBlockParser -----------------------------
\* The lines of the runs of BlockParser, by the blocks they are about
EXTENDS BlockParser

T == <<"t">>
Nothing == <<>>

ContainerLines ==
  {Nothing, T, <<"r">>, <<"in", "t">>, <<"in", "in", "t">>, <<">", "t">>, <<">", "-", "r">>, <<">">>,
   <<"-", "t">>, <<"in", "-", "r">>, <<"~~~">>, <<"---">>}

ListLines ==
  {Nothing, T, <<"in", "t">>, <<"in", "in", "t">>, <<"-", "t">>, <<"in", "-", "t">>, <<"1", "t">>, <<"-">>,
   <<"-", ">", "t">>, <<"in", ">">>, <<"-", "~~~">>, <<"in", "~~~">>}

LongListLines ==
  {Nothing, T, <<"in", "t">>, <<"-", "t">>, <<"in", "-", "t">>, <<"-">>, <<"-", "~~~">>, <<"in", "~~~">>}

FenceLines ==
  {Nothing, T, <<":::">>, <<":::s">>, <<">>>">>, <<">", ">>>">>, <<"-", "t">>, <<"r">>, <<"in", "in", "t">>,
   <<"in", "~~~">>, <<"-", ":::">>, <<"in", ":::">>}

\* Fences of two lengths: a shorter one in a longer, and where a quote's marker is read first
LengthLines ==
  {T, <<":::">>, <<"::::">>, <<"in", "::::">>, <<">>>">>, <<">>>>">>, <<">", ">>>>">>, <<">>>", "t">>, <<"~~~">>,
   <<"~~~~">>, <<"-", "t">>}

VerbatimLines ==
  {Nothing, T, <<"%%", "t">>, <<"t", "%%", "t">>, <<"%%">>, <<"t", "%%", "<!">>, <<"<!", "t">>, <<"<!", "!>">>, <<"!>">>, <<"<d">>,
   <<">", "<d">>, <<">", "%%">>, <<"-", "<!">>, <<"in", "t">>, <<"#", "t">>}

DescriptionLines ==
  {Nothing, T, <<":", "t">>, <<"in", ":", "t">>, <<"in", "t">>, <<"-", "t">>, <<">", "t">>, <<">", ":", "t">>,
   <<":">>, <<"[^", "t">>, <<"in", "in", "t">>, <<":", ":", "t">>}

FootnoteLines == {Nothing, T, <<"[^", "t">>, <<"[^", "r">>, <<"in", "in", "t">>, <<"in", "in", "r">>, <<"-", "[^", "t">>, <<">", "r">>}

FenceCloseLines == {T, <<":::">>, <<"-", "~~~">>, <<"in", "t">>}

AllLines ==
  UNION {ContainerLines, ListLines, LongListLines, FootnoteLines, VerbatimLines, FenceLines, LengthLines,
         DescriptionLines}

\* An input is made of the lines of one topic, chosen when it begins, and of no more than `most'
Topic(lines, longest) == [lines |-> lines, most |-> longest]

AllTopics ==
  {Topic(ContainerLines, 4), Topic(ListLines, 4), Topic(LongListLines, 5), Topic(FootnoteLines, 4),
   Topic(VerbatimLines, 4), Topic(FenceLines, 4), Topic(LengthLines, 4), Topic(DescriptionLines, 4),
   Topic(AllLines, 2)}
FenceCloseTopics == {Topic(FenceCloseLines, 4)}

CONSTANT Topics
VARIABLE most

TopicInit == \E topic \in Topics : most = topic.most /\ vocabulary = topic.lines /\ Init

TopicNext ==
  /\ \/ \E line \in vocabulary : lineNo < most /\ StartLine(line)
     \/ EndOfInput \/ Step \/ Done
  /\ UNCHANGED most

TopicSpec == TopicInit /\ [][TopicNext]_<<vars, most>> /\ WF_<<vars, most>>(Step /\ UNCHANGED most)
================================================================================
