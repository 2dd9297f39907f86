-------------------------------- MODULE MCTexts --------------------------------
\* Texts through the stages that read them: a line under the scanners, a block's leaf
\* inlines, its delimiters and brackets, the lines of a table, the children of a block
\* after its inlines, and the definitions in front of a paragraph.  Each behaviour is one
\* stage on one text of one topic; what a stage reads byte by byte is typed chunk by
\* chunk before it runs.
EXTENDS MCInlines, LineScans, LeafInlines, Tables, TextPost, References

CONSTANT Topics       \* the topics of each stage, by the stage's name

VARIABLES
  at,       \* [stage, topic]
  chunks    \* how many chunks have been typed; 0 once the stage runs

textsVars == <<vars, leafVars, tableVars, postVars, refVars, input, at, chunks>>

T == Topics[at.stage][at.topic]
Typing == chunks \in 1..T.most - 1
Words(S) == {Chars(w) : w \in S}
Ticks(n) == [i \in 1..n |-> Tick]
TicksThen(w) == {Ticks(n) \o Chars(w) : n \in 1..3}

-------------------------------------------------------------------------------
ScanTopics ==
  <<[words |-> Words({":::", ":", "~", "#", "-#", "###", " ", "a", "\n", ">>>", "> [!note]", "===",
                      "-", "|", "[^", "]:", "[x]"}) \cup {<<"C3", "A9">>, Ticks(3)}, most |-> 3],
    [words |-> Words({"<", ">", "/", "a", "pre", "!", "--", "?", "A ", "[CDATA[", "]]", "\n", " b=", "'", ":"}),
     most |-> 3],
    [words |-> Words({"<!--", "->", "<a", "</", " b", "=", "'", ">", "\n"}), most |-> 4],
    [words |-> Words({"<", ".a", "A", "/>", ">", "%", "!--", "--%", "{", "}", "'", "#"}), most |-> 3],
    [words |-> Words({"http", "://", "[", "f:", "%25", "]", "javascript:", "data:image/", "png", "@", ".c",
                      ">", "(", ")", "'", "\"", "\\"}), most |-> 3]>>

LeafTopic(words, opts, most) == [words |-> words, options |-> opts, most |-> most]
LeafTopics ==
  <<LeafTopic(TicksThen("a") \cup TicksThen("\nb"), {}, 4),
    LeafTopic(TicksThen("a"), {}, 6),
    LeafTopic(Words({"<", "!", "--", ">", "?", "[CDATA[", "]"}), {}, 4),
    LeafTopic(Words({"<!A b", "<![CDATA[", "<?", "<!--", "]]", ">", "?"}), {}, 4),
    LeafTopic(Words({"$", " ", "a", "1", "\\", "(\n", ")"}) \cup {Ticks(1)},
              {"math_dollars", "math_code", "math_latex"}, 4),
    LeafTopic(Words({"-", "..", ">", "&", "amp;", "  ", "\\", "a", "\r\n", "\n", "#1;", "*", "'"})
                \cup {<<"C3", "A9">>}, {"smart"}, 3),
    LeafTopic(Words({"[[", "]]", "|", "\\", "%%", "a", "\n", "]"}), {"wikilinks", "ofm_comments"}, 4),
    LeafTopic(Words({"<.a", "</.a>", "/>", "{", "}", "\"", "<%", "%>"}), {"phoenix_heex"}, 4),
    LeafTopic(Words({"http", "://", "www.", "a.b", "_", " ", ")", "&x;"}), {"autolink"}, 4),
    LeafTopic(Words({"w", "://", "www.a", "]", "(", ")", "[", " "}), {"autolink", "relaxed_autolinks"}, 4)>>

LineOffsets == <<0, 2, 1, 0, 3, 0, 2, 0, 1, 0, 0, 0, 0>>
SomeEntities == {"amp;"}

\* The lines of a table's topic, one set for each line
Lines(indents, words) == {[indent |-> n, bytes |-> w] : n \in indents, w \in words}
AnyRow ==
  LET Rows(n) == {FlattenSeq(w) \o <<"\n">> : w \in [1..n -> Words({"a", "|", "\\", " "})]}
  IN  {w \in UNION {Rows(n) : n \in 1..4} : w[1] \notin SpaceChar}
Mixed == Lines({0, 2}, Words({"|a|\n", "b \\|\n", "a|b \n", "c\n", ":-|-:\n", "|:-:|\n"}))
         \cup Lines({4}, Words({"c\n", "|:-:|\n"}))
Short == Lines({0}, Words({"a\n", "a|b|c|d\n", "a|b\n", "|||||\n", "\n"}))
TableTopics ==
  <<<<Mixed, Mixed, Mixed, Lines({0}, Words({"a|b|c\n", "|d\n"})), Lines({0, 4}, Words({"a|b\n"}))>>,
    <<Lines({1}, Words({"a|b|c\n"})), Lines({0}, Words({"-|-|-\n"})), Lines({2}, AnyRow)>>,
    <<Lines({1}, AnyRow), Lines({0}, Words({"|-|\n", ":-|-\n", "-|-|-\n"})), Lines({0}, Words({"|d\n"}))>>,
    <<Lines({0}, Words({"a|b|c\n"})), Lines({0}, Words({"-|-|-\n"})), Short, Short, Short, Short, Short>>>>

\* The children of a block: bytes, and how many columns they take
Piece(kind, bytes, span) == [kind |-> kind, bytes |-> bytes, span |-> span]
Plain(w) == Piece("text", Chars(w), Len(w))
Entity(w, n) == Piece("text", Chars(w), n)
Break == Piece("other", <<>>, 1)
Escape(c) == Piece("escaped", Chars(c), 2)
Accent == Piece("text", <<"C3", "A9">>, 2)
PlacedAt(ps, first) ==
  LET Column(k) == FoldLeft(LAMBDA n, p : n + p.span, first, SubSeq(ps, 1, k - 1))
  IN  [k \in DOMAIN ps |-> Child(ps[k].kind, ps[k].bytes, Column(k), Column(k) + ps[k].span - 1)]
TaskSets == {{"tasklist", "autolink"}, {"tasklist", "relaxed_tasklist_matching", "lemmy_mention"},
             {"tasklist", "tasklist_in_table"}}
LinkSets == {{"autolink"}, {"lemmy_mention"}, {"autolink", "relaxed_autolinks"},
             {"autolink", "lemmy_mention"}, {"escaped_char_spans"}}
PostTopics ==
  <<[words |-> {Plain("[x] "), Plain("["), Plain("]"), Entity("x", 6), Plain(" "), Break,
                Plain("a@b.cc"), Escape("_")},
     most |-> 3, sets |-> TaskSets, contexts |-> {"item", "cell", "other"}],
    [words |-> {Plain("["), Plain("]"), Accent, Entity("x", 6), Plain(" ")},
     most |-> 3, sets |-> TaskSets, contexts |-> {"item", "cell"}],
    [words |-> {Plain("@ab@c.d"), Plain(" a@b.cc"), Plain("!f@g.h."), Entity("&", 5), Entity("fj", 7),
                Escape("@"), Plain(" "), Break},
     most |-> 3, sets |-> LinkSets, contexts |-> {"other"}],
    [words |-> {Plain("@ab@c.d"), Plain(" a@b.cc"), Entity("&", 5), Escape("@")},
     most |-> 4, sets |-> LinkSets, contexts |-> {"other"}]>>

RefTopics ==
  <<[words |-> Words({"[a]:", " ", "\n", "/u", "<", ">", "\"t\"", "(", ")", "\\"}), most |-> 5],
    [words |-> Words({"[a]: /u\n", "[A]: v\n", "[ b\n]:x 't\n'\n", "[c]: <>\n", "'t'\n", "[c]\n",
                      "[\\]]:", "]: "}), most |-> 4]>>

AllTopics == [scan |-> ScanTopics, leaf |-> LeafTopics, delimiters |-> TokenTopics, table |-> TableTopics,
              post |-> PostTopics, reference |-> RefTopics]
TildeTopics == [delimiters |-> <<RefusedTopic>>]
LinkTopics == [post |-> <<PostTopics[4]>>]
TickTopics == [leaf |-> <<LeafTopics[2]>>]

-------------------------------------------------------------------------------
(* A stage that is not the behaviour's has nothing to do.                       *)

IdleLeaf == Start(<<>>, {})
IdlePost == StartPost(<<>>, {}, "other")
IdleReferences == StartParagraph(<<>>)

TextsInit ==
  /\ \E s \in DOMAIN Topics : \E n \in DOMAIN Topics[s] : at = [stage |-> s, topic |-> n]
  /\ chunks = 1
  /\ IF at.stage = "scan" THEN input \in T.words ELSE input = <<>>
  /\ IF at.stage = "leaf" THEN \E w \in T.words : Start(w, T.options) ELSE IdleLeaf
  /\ Init
  /\ NoTable
  /\ IF at.stage = "post"
     THEN \E n \in 1..T.most : \E ps \in [1..n -> T.words], o \in T.sets, c \in T.contexts :
            StartPost(PlacedAt(ps, 3), o, c)
     ELSE IdlePost
  /\ IF at.stage = "reference" THEN \E w \in T.words : StartParagraph(w) ELSE IdleReferences

ScanStage ==
  /\ at.stage = "scan" /\ Typing
  /\ \E w \in T.words : type(w)
  /\ chunks' = chunks + 1
  /\ UNCHANGED <<vars, leafVars, tableVars, postVars, refVars, at>>

\* A block's content begins and ends with neither spaces nor line ends
Trimmed(s) == s[1] \notin SpaceChar /\ s[Len(s)] \notin SpaceChar

LeafStage ==
  /\ at.stage = "leaf"
  /\ \/ /\ Typing
        /\ \E w \in T.words : text' = text \o w
        /\ chunks' = chunks + 1
        /\ UNCHANGED <<options, pos, line, columnOffset, backticks, scanned, flags, deadZone, leaves>>
     \/ (chunks = 0 \/ Trimmed(text)) /\ parse_inline /\ chunks' = 0
  /\ UNCHANGED <<vars, tableVars, postVars, refVars, input, at>>

DelimiterStage ==
  /\ at.stage = "delimiters"
  /\ \/ /\ Len(tokens) < T.most
        /\ \/ \E x \in T.runs : PushRun(x)
           \/ \E x \in T.brackets : PushBracket(x) \/ CloseMatch(x) \/ CloseFootnote(x) \/ CloseText(x)
     \/ EndOfText
  /\ UNCHANGED <<leafVars, tableVars, postVars, refVars, input, at, chunks>>

Process == Emphasis /\ UNCHANGED <<leafVars, tableVars, postVars, refVars, input, at, chunks>>

TableStage ==
  /\ at.stage = "table" /\ Len(source) < Len(T)
  /\ \E l \in T[Len(source) + 1] : table_line(l)
  /\ UNCHANGED <<vars, leafVars, postVars, refVars, input, at, chunks>>

PostStage ==
  /\ at.stage = "post" /\ postprocess
  /\ UNCHANGED <<vars, leafVars, tableVars, refVars, input, at, chunks>>

\* A paragraph's content has its line ends; three links are enough to run over its size
MaxLinks == 3
ReferenceStage ==
  /\ at.stage = "reference" /\ whole[1] = "["
  /\ \/ /\ Typing
        /\ \E w \in T.words : whole' = whole \o w /\ content' = whole'
        /\ chunks' = chunks + 1
        /\ UNCHANGED <<found, refmap, stage, refSize, looked>>
     \/ /\ Last(whole) = "\n" /\ Len(looked) < MaxLinks
        /\ references /\ chunks' = 0
  /\ UNCHANGED <<vars, leafVars, tableVars, postVars, input, at>>

TextsNext ==
  ScanStage \/ LeafStage \/ DelimiterStage \/ Process \/ TableStage \/ PostStage \/ ReferenceStage
TextsSpec == TextsInit /\ [][TextsNext]_textsVars /\ WF_textsVars(Process)
===============================================================================
