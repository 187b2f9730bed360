------------------------------- MODULE MCConf -------------------------------
\* Configurations for TLC: directives with the settings they mean, written in
\* every combination of a few ways to quote a word and to fill a gap, and
\* texts that are broken.
EXTENDS Conf

\* A meant word in one of the ways to write it.
Escape(w) == FlattenSeq([i \in DOMAIN w |->
               CASE w[i] \in {"\"", "'", "\\"} -> <<"\\", w[i]>>
                 [] w[i] = "\t" -> <<"\\", "t">>
                 [] w[i] = "\n" -> <<"\\", "n">>
                 [] OTHER       -> <<w[i]>>])
Plain(w)  == w # <<>> /\ \A i \in DOMAIN w : w[i] \notin Space \cup {";", "{", "#"}
Written(w, style) ==
  CASE style = "plain" /\ Plain(w) -> Escape(w)
    [] style = "single"            -> <<"'">> \o Escape(w) \o <<"'">>
    [] OTHER                       -> <<"\"">> \o Escape(w) \o <<"\"">>

Text(d, style, gap, end) ==
  FlattenSeq([i \in DOMAIN d |-> Written(d[i], style)
                                 \o IF i = Len(d) THEN <<>> ELSE gap]) \o end

Means(d, cmd, words, nums) == [words |-> d,
                               settings |-> <<Setting(cmd, words, nums)>>]

\* Directives and items, and what they mean.
P(w) == Means(<<<<"P">>, w>>, "P", <<w>>, <<>>)
G    == Means(<<<<"G">>, <<"b">>>>, "G", <<<<"b">>>>, <<>>)
S    == Means(<<<<"S">>, <<"h">>, <<"9">>>>, "S", <<<<"h">>>>, <<9>>)
Two  == [S EXCEPT !.words[2] = <<"n">>,
         !.settings = [i \in 1..2 |-> Setting("S", <<<<"n">>>>, <<9>>)]]
M    == Means(<<<<"M">>, <<"4", "0">>>>, "M", <<>>, <<40>>)
D    == Means(<<<<"D">>, <<"o", "n">>>>, "D", <<>>, <<1>>)
L    == Means(<<<<"L">>, <<"x">>, <<"l">>>>, "L", <<<<"x">>, <<"l">>>>, <<>>)
U(w) == Means(<<<<"U">>, w>>, "U", <<w>>, <<>>)
Inc(f) == [words |-> <<<<"I">>, f>>, settings |-> P(<<"i">>).settings]
Item(t, secs) == Means(<<<<"c">>, <<"2">>, t, <<"1">>>>, "item", <<<<"c">>>>,
                       <<2, secs, 1>>)

Words  == {<<"a">>, <<"a", " ", "b">>, <<"\"", "a">>, <<"'", "\\">>,
           <<"{", ";">>, <<"\n">>, <<"a", "t", "\t">>, <<>>, <<"a", "}">>,
           <<"a", "$", "{">>, <<"#", "a">>}
Times  == {Item(<<"5">>, 5), Item(<<"5", "s">>, 5), Item(<<"1", "m">>, 60),
           Item(<<"1", "h", "2", "m">>, 3720), Item(<<"1", "m", "7">>, 67),
           Item(<<"1", "d", " ", "3">>, 86403), Item(<<"9", " ">>, 9),
           Item(<<"1", "w", "1", "d", "1", "h">>, 694800)}
Styles == {"plain", "single", "double"}
Gaps   == {<<" ">>, <<"\t", "\n", " ">>, <<" ", "#", ";", "\"", "\n">>,
           <<"\n", "#", "{", "\n", "#", "\n", " ">>}

\* One or two directives of interest, those that must be there, and the block.
Lists == {<<P(w), U(x)>> : w, x \in Words} \cup {<<>>, <<L, D>>, <<M, Inc(<<"f">>)>>, <<Two, L>>,
          <<D, M, Two>>, <<Inc(<<"w">>), M>>}

Whole(ds, items, style, gap) ==
  LET all   == ds \o <<G, S>>
      one(d) == Text(d.words, style, gap, <<";">>) \o gap
      Flat(s) == FlattenSeq(s)
  IN  [text |-> Flat([i \in DOMAIN all |-> one(all[i])])
                \o <<"A">> \o gap \o <<"{">> \o gap
                \o Flat([i \in DOMAIN items |-> one(items[i])]) \o <<"}">>,
       ok   |-> TRUE,
       span |-> Len(gap) + Max({Len(Written(w, style)) :
                  w \in UNION {Range(d.words) : d \in Range(all \o items)}}),
       settings |-> Flat([i \in DOMAIN all |-> all[i].settings])
                    \o <<Setting("A", <<>>, <<>>)>>
                    \o Flat([i \in DOMAIN items |-> items[i].settings])]

Good == {Whole(ds, <<Item(<<"5", "s">>, 5)>>, st, gap) :
           ds \in Lists, st \in Styles, gap \in Gaps}
        \cup {Whole(<<>>, <<t, Item(<<"3">>, 3)>>, st, <<" ">>) :
                t \in Times, st \in Styles}

\* A text that is right but for a piece that comes before it, or an end that
\* is missing, or something that must be there and is not.
Base   == Whole(<<>>, <<Item(<<"5">>, 5)>>, "plain", <<" ">>).text
Pieces == {<<"}">>, <<";">>, <<"{">>, <<"P", ";">>, <<"P", " ", "a", "{">>,
           <<"X", " ", "a", ";">>, <<"M", " ", "a", ";">>, <<"M", " ">>,
           <<"M", " ", "2", "0", "4", "8", ";">>, <<"D", " ", "n", "o", ";">>,
           <<"P", " ", "\"", "a", "\"", "b", ";">>, <<"G", " ", "a", ";">>,
           <<"P", " ", "}", ";", "}">>, <<"'">>, <<"\\">>, <<"P", " ", "'", "a", "'", ")", ";">>,
           <<"I", " ", "g", ";">>, <<"I", " ", "v", ";">>,
           <<"S", " ", "u", " ", "9", ";">>, <<"S", " ", "h", " ", "9", "9", "9", ";">>,
           <<"L", " ", "a", " ", "b", ";">>, <<"P", " ", "$", "{", ";">>,
           <<"A", " ", "a", "{", "}">>, <<"#">>}
Bad    == {p \o Base : p \in Pieces}
          \cup {Base \o p : p \in {<<"P">>, <<"'">>, <<"P", " ", "a">>, <<"}">>}}
          \cup {SubSeq(Base, 1, n) : n \in 0..Len(Base) - 1}
          \cup {Whole(<<>>, <<>>, "plain", <<" ">>).text}
          \cup {Whole(<<>>, <<[words |-> <<<<"c">>, <<"2">>, t, <<"1">>>>,
                              settings |-> <<>>]>>, "double", <<" ">>).text :
                  t \in {<<"s", "x">>, <<"5", "m", "s">>, <<"1", "s", "1", "m">>,
                         <<"s">>, <<"1", "m", "1", "m">>, <<>>,
                         <<"9", "9", "9", "w">>, <<"1", "s", "1", " ">>}}

\* Texts that are not what they should be, and are taken all the same, with the
\* settings the code makes of them: "A;", which is passed over; an item that
\* "{" ends; numbers that are too large for an int, and wrap to another that
\* is none too large (4100 to 4, the port 4105 to 9); a pattern that matches
\* nothing; and one whose names, without their last character, are those of
\* another file.
Simple  == Whole(<<>>, <<Item(<<"5">>, 5)>>, "plain", <<" ">>)
Wraps   == {Means(<<<<"M">>, <<"4", "1", "0", "0">>>>, "M", <<>>, <<4>>),
            [S EXCEPT !.words[3] = <<"4", "1", "0", "5">>]}
Misread == {[Simple EXCEPT !.text = p \o @] :
              p \in {<<"A", ";">>, <<"I", " ", "*", "*", ";">>,
                     <<"I", " ", "e", "*", ";">>}}
           \cup {[Simple EXCEPT !.text = SubSeq(@, 1, Len(@) - 3) \o <<"{", "}">>]}
           \cup {Whole(<<d>>, <<Item(<<"5">>, 5)>>, "plain", <<" ">>) : d \in Wraps}

MCInputs == Good \cup Misread \cup {[text |-> t, ok |-> FALSE, span |-> 0, settings |-> <<>>] :
                         t \in Bad}
MCItems  == {<<"c">>}
MCLevels == {<<"l">>}
MCFiles  == (<<"f">> :> <<"#", "\n", "P", " ", "i", ";", " ">>)
            @@ (<<"w">> :> <<"I", " ", "f", ";">>)
            @@ (<<"e">> :> <<" ">>)
            @@ (<<"v">> :> <<"A", "{">>)
MCGlobs  == (<<"*">> :> <<<<"f">>>>)
            @@ (<<"e", "*">> :> <<<<"e", "1">>, <<"e", "2">>>>)
MCHosts  == [x \in {<<"h">>, <<"n">>} |-> IF x = <<"h">> THEN 1 ELSE 2]
=============================================================================
