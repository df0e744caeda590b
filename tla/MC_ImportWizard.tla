--------------------------- MODULE MC_ImportWizard ---------------------------
(* Three sheets, a small vocabulary, two scenes, and files with mistyped words.  *)
EXTENDS ImportWizard

CONSTANTS No, Title, Perf, Tech

mcWords == {"ca", "Ca", "cai", "guitar", "mc", "s1", "a1", "Ca_", "xa0cai", "o'b", "performer"}
mcFolded == [w \in mcWords |-> IF w \in {"Ca", "Ca_"} THEN "ca" ELSE w]
mcSpelled == {<<"ca", "cai">>, <<"ca", "xa0cai">>, <<"cai", "xa0cai">>}
keys == <<"k", "e", "y">>
voic == <<"v", "o", "i", "c">>
bass == <<"b", "a", "s", "e">>
bask == <<"b", "a", "s", "k">>
mcPatterns == << [words |-> <<"guitar">>, kind |-> bass, confidence |-> 90],
                 [words |-> <<"mc">>, kind |-> voic, confidence |-> 60],
                 [words |-> <<"mc">>, kind |-> bask, confidence |-> 60] >>
mcLowered == [n \in {"S", "s", "A"} |-> IF n = "S" THEN "s" ELSE n]

t == << <<"ca">> >>     \* any text
s1 == << <<"s1">> >>
a1 == << <<"a1">> >>
nonBreaking == <<"Ca_", "cai">>     \* comes back with the escape of its space
apostrophe == <<"o'b">>             \* does not come back
note == << <<"performer", "ca">> >>    \* quotes a performer
mcRespelled == (nonBreaking :> <<"Ca", "xa0cai">>) @@ (apostrophe :> None)
mcNamed == (note :> <<"ca">>)
singer == << <<"Ca", "cai">>, <<"guitar">> >>
two == << <<"guitar">>, apostrophe >>
mcIdentified ==
    [cell \in {t, s1, a1, note, singer, two, <<nonBreaking>>, << <<"mc">> >>} |->
        [name |-> IF cell = s1 THEN "s" ELSE "A", numbers |-> IF cell \in {s1, a1} THEN <<1>> ELSE << >>]]
row(n, id, title, perf, tech, side) == [number |-> n, cells |-> <<id, title, perf, tech, side>>]

twoSingers ==
    [headers |-> <<No, Title, Perf, Tech, None>>,
     rows |-> << row(2, << >>, t, singer, t, << >>),
                 row(3, s1, t, << <<"ca">> >>, << >>, t),
                 row(4, << >>, << >>, << <<"ca">> >>, t, << >>),
                 row(5, << >>, t, two, << >>, << >>) >>]
twoHeadings ==
    [headers |-> <<No, Title, Perf, Perf, None>>,
     rows |-> << row(2, a1, t, << <<"mc">> >>, << >>, << >>),
                 row(3, a1, t, << >>, << <<"mc">> >>, << >>) >>]

pasted ==
    [headers |-> <<No, Title, Perf, Tech, None>>,
     rows |-> << row(2, << >>, t, <<nonBreaking>>, << >>, << >>), row(3, << >>, t, << >>, note, << >>) >>]

mcSheetOf == [w \in {"one", "two", "three"} |->
    CASE w = "one" -> twoSingers [] w = "two" -> twoHeadings [] w = "three" -> pasted]

mcProposals ==
    { [columns |-> ("title" :> 2) @@ ("id" :> 1), headers |-> ("performers" :> Perf)],
      [columns |-> ("title" :> 2) @@ ("time" :> 5), headers |-> ("performers" :> Perf)],
      [columns |-> ("title" :> 2), headers |-> ("performers" :> Perf) @@ ("sound" :> Tech)],
      [columns |-> ("title" :> 2) @@ ("band" :> 3), headers |-> Nothing] }
mcGrids == { ("title" :> 2) @@ ("id" :> 1) }

mcTaught == { [kinds |-> {voic}, ignore |-> FALSE, match |-> "word"],
              [kinds |-> {bask}, ignore |-> FALSE, match |-> "exact"],
              [kinds |-> {}, ignore |-> TRUE, match |-> "word"] }
mcElsewhere == { [kinds |-> {}, ignore |-> FALSE, match |-> "exact"] }
mcInitial == { Nothing,
               (<<"cai">> :> [kinds |-> {}, ignore |-> FALSE, match |-> "word"]) }

channel(kind, sure) == [kind |-> kind, confidence |-> sure, in_use |-> TRUE]
mcScenes == { (1 :> channel(voic, 90)) @@ (2 :> channel(bass, 60)),
              (1 :> channel(bass, 90)) @@ (3 :> channel(bask, 80)) }

open == <<"o", "p", "e", "n">>
close == <<"c", "l", "o", "s", "e">>
opne == <<"o", "p", "n", "e">>
mcActions == {open, close}

cue(id, action, channels, time) == [id |-> id, action |-> action, channels |-> channels, time |-> time]
segment(n, expects, cues, time) == [id |-> [name |-> "S", numbers |-> <<n>>], expects |-> expects, cues |-> cues, time |-> time]
mcDocuments ==
    { [show |-> "x", segments |-> << segment(1, << <<"b", "a", "s", "s", "e">>, <<"v", "i", "o", "c">> >>,
                    << cue("1", opne, <<1, 2>>, 0), cue("2", close, <<1>>, Unreadable) >>, Unreadable),
                 segment(2, << >>, << cue("1", open, <<2, 1>>, 5), cue("2", open, <<1>>, 7) >>, None) >>],
      [show |-> "x", segments |-> << segment(1, << <<"b", "a", "s", "x">> >>, << >>, None) >>],
      [show |-> "x", segments |-> << segment(1, << voic >>, << cue("1", opne, <<1>>, None) >>, None),
                                     segment(2, << <<"v", "o", "i">> >>, << cue("2", << >>, <<1>>, None) >>, None) >>],
      [show |-> "x", segments |-> << segment(1, << <<"v", "o", "i", "z">> >>, << >>, Unreadable),
                                     segment(2, << voic >>, << cue("1", close, <<1>>, None), cue("2", open, <<1>>, None),
                                                               cue("3", opne, <<1>>, None) >>, None) >>],
      [show |-> "x", segments |-> << segment(1, Scalar, << >>, None) >>],
      [show |-> "x", segments |-> << segment(1, << <<"b", "a", "s", "e", "e">> >>, << >>, None),
                                     [segment(2, << >>, << >>, None) EXCEPT !.id.name = "s", !.id.numbers = <<1>>] >>] }
=============================================================================
