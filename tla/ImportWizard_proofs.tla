------------------------ MODULE ImportWizard_proofs ------------------------
(* For any workbooks, vocabularies, scenes and files: what a person teaches   *)
(* is in the import, no row of the sheet is lost, the table on the page is    *)
(* what is written, what is written loads, and a repair keeps the meaning.    *)
EXTENDS ImportWizard, Selection_proofs

-----------------------------------------------------------------------------
(* Fragments                                                               *)

\* Numbers with a bound have a greatest among them.
LEMMA GreatestNat ==
    ASSUME NEW n \in Nat, NEW T, T \subseteq 0..n, T # {}
    PROVE  \E x \in T : \A y \in T : y <= x
<1> DEFINE U == {n - t : t \in T}
<1>1. U \subseteq Nat /\ U # {}
  <2>1. ASSUME NEW t \in T PROVE n - t \in Nat
    <3>1. t \in 0..n
      OBVIOUS
    <3> QED BY <3>1
  <2> QED BY <2>1
<1>2. PICK u \in U : \A v \in U : u <= v
  <2> HIDE DEF U
  <2> QED BY <1>1, LeastNat
<1>3. PICK x \in T : u = n - x
  OBVIOUS
<1>4. ASSUME NEW y \in T PROVE y <= x
  <2>1. n - y \in U
    OBVIOUS
  <2>2. n - x <= n - y
    BY <1>2, <1>3, <2>1
  <2> QED BY <2>2
<1> QED BY <1>4

Texts == Seq(Words)

LEMMA FoldIs == ASSUME NEW text \in Texts PROVE fold(text) \in Texts /\ Len(fold(text)) = Len(text)
<1>1. \A i \in DOMAIN text : text[i] \in Words /\ folded[text[i]] \in Words
  BY RunningOrderAssumption DEF Texts
<1>2. fold(text) = [i \in 1..Len(text) |-> folded[text[i]]]
  BY DEF fold, Texts
<1>3. Len(text) \in Nat /\ DOMAIN text = 1..Len(text)
  BY DEF Texts
<1> HIDE DEF Texts
<1>4. fold(text) \in [1..Len(text) -> Words]
  BY <1>1, <1>2, <1>3
<1> QED BY <1>3, <1>4 DEF Texts

\* A phrase of a text is no longer than the text.
LEMMA OccursIs ==
    ASSUME NEW phrase \in Texts, NEW text \in Texts, occurs(phrase, text)
    PROVE  Len(phrase) <= Len(text)
<1>1. PICK i \in 1..Len(text) : i + Len(phrase) - 1 <= Len(text)
  BY DEF occurs
<1>2. Len(phrase) \in Nat /\ Len(text) \in Nat
  BY DEF Texts
<1> QED BY <1>1, <1>2

\* One word occurs in a text when it is one of its words.
LEMMA OneWordOccurs ==
    ASSUME NEW phrase \in Texts, NEW text \in Texts, occurs(phrase, text), Len(phrase) = 1
    PROVE  \E i \in 1..Len(text) : phrase[1] = text[i]
<1>1. PICK i \in 1..Len(text) : SubSeq(text, i, i + Len(phrase) - 1) = phrase
  BY DEF occurs
<1>2. i \in Int /\ i + 1 - 1 = i /\ Len(text) \in Nat
  BY DEF Texts
<1>3. SubSeq(text, i, i) = phrase
  BY <1>1, <1>2
<1>4. SubSeq(text, i, i)[1] = text[i]
  BY <1>2 DEF Texts
<1> QED BY <1>3, <1>4

\* A phrase as long as the text it occurs in is that text.
LEMMA OccursWhole ==
    ASSUME NEW phrase \in Texts, NEW text \in Texts, occurs(phrase, text), Len(phrase) = Len(text)
    PROVE  phrase = text
<1>1. PICK i \in 1..Len(text) : /\ i + Len(phrase) - 1 <= Len(text)
                                /\ SubSeq(text, i, i + Len(phrase) - 1) = phrase
  BY DEF occurs
<1>2. Len(phrase) \in Nat /\ Len(text) \in Nat
  BY DEF Texts
<1>3. i = 1 /\ i + Len(phrase) - 1 = Len(text)
  BY <1>1, <1>2
<1>4. SubSeq(text, 1, Len(text)) = text
  BY DEF Texts
<1> QED BY <1>1, <1>3, <1>4

\* The words of a text are finitely many.
LEMMA FewWords ==
    ASSUME NEW text \in Texts, NEW some, \A w \in some : \E i \in 1..Len(text) : w = text[i]
    PROVE  IsFiniteSet(some) /\ some \subseteq Words
<1> DEFINE n == Len(text)
           all == {text[i] : i \in 1..n}
           f == [i \in 1..n |-> text[i]]
<1>1. n \in Nat /\ all \subseteq Words /\ some \subseteq all
  BY DEF Texts
<1>2. f \in Surjection(1..n, all)
  BY DEF Surjection
<1>3. IsFiniteSet(1..n)
  BY <1>1, FS_Interval
<1> HIDE DEF f, all, n
<1>4. IsFiniteSet(all)
  BY <1>2, <1>3, FS_Surjection
<1> QED BY <1>1, <1>4, FS_Subset

\* Among the phrases that occur in a text one is spelled in none of the others.
LEMMA LongestStands ==
    ASSUME NEW text \in Texts, NEW hits, hits \subseteq Texts, hits # {}, \A k \in hits : occurs(k, text)
    PROVE  \E k \in hits : \A other \in hits : ~spelledIn(k, other)
<1>1. PICK longest \in hits : \A k \in hits : Len(k) <= Len(longest)
  <2> DEFINE T == {Len(k) : k \in hits}
  <2>1. ASSUME NEW k \in hits PROVE Len(k) \in 0..Len(text)
    <3>1. k \in Texts /\ Len(k) \in Nat /\ Len(text) \in Nat
      BY DEF Texts
    <3> QED BY <3>1, OccursIs
  <2>2. T \subseteq 0..Len(text) /\ T # {} /\ Len(text) \in Nat
    <3>1. Len(text) \in Nat
      BY DEF Texts
    <3>2. T \subseteq 0..Len(text) /\ T # {}
      BY <2>1
    <3> QED BY <3>1, <3>2
  <2>3. PICK n \in T : \A m \in T : m <= n
    <3> HIDE DEF T
    <3> QED BY <2>2, GreatestNat
  <2> QED BY <2>3
<1>2. ASSUME NEW k \in hits, Len(k) = Len(longest), NEW other \in hits, spelledIn(k, other)
      PROVE  Len(k) = 1 /\ k # other /\ \E i \in DOMAIN other : <<k[1], other[i]>> \in Spelled
  <2>1. CASE occurs(k, other) /\ k # other
    <3>1. k \in Texts /\ other \in Texts /\ Len(k) \in Nat /\ Len(other) \in Nat
      BY DEF Texts
    <3>2. Len(k) <= Len(other) /\ Len(other) <= Len(k)
      BY <1>1, <1>2, <2>1, <3>1, OccursIs
    <3>3. Len(k) = Len(other)
      BY <3>1, <3>2
    <3> QED BY <2>1, <3>1, <3>3, OccursWhole
  <2> QED BY <1>2, <2>1 DEF spelledIn
<1>3. CASE Len(longest) # 1
  BY <1>2, <1>3
<1>4. CASE Len(longest) = 1
  <2> DEFINE words == {k \in hits : Len(k) = 1}
             some == {k[1] : k \in words}
  <2>1. \A w \in some : \E i \in 1..Len(text) : w = text[i]
    BY OneWordOccurs
  <2>2. longest[1] \in some
    BY <1>4
  <2>3. PICK w \in some : \A v \in some : <<w, v>> \notin Spelled
    <3> HIDE DEF some
    <3>1. IsFiniteSet(some) /\ some \subseteq Words
      BY <2>1, FewWords
    <3> QED BY <2>2, <3>1, RunningOrderAssumption
  <2>4. PICK k \in words : w = k[1]
    OBVIOUS
  <2>5. ASSUME NEW other \in hits, spelledIn(k, other) PROVE FALSE
    <3>1. PICK i \in DOMAIN other : <<w, other[i]>> \in Spelled
      BY <1>2, <1>4, <2>4, <2>5
    <3>2. Len(other) \in Nat /\ Len(other) <= 1 /\ i \in 1..Len(other)
      BY <1>1, <1>4 DEF Texts
    <3>3. i = 1 /\ Len(other) = 1
      <4> DEFINE n == Len(other)
      <4> HIDE DEF n, some
      <4>1. n \in Nat /\ n <= 1 /\ i \in 1..n
        BY <3>2 DEF n
      <4>2. i = 1 /\ n = 1
        BY <4>1
      <4> QED BY <4>2 DEF n
    <3>4. other[i] \in some
      BY <3>3
    <3> HIDE DEF some
    <3> QED BY <2>3, <3>1, <3>4
  <2> QED BY <2>4, <2>5
<1> QED BY <1>3, <1>4

\* A term that says something of a text: the whole of it, or words in it.
Speaks(k, text, vocabulary) ==
    /\ k \in DOMAIN vocabulary /\ says(vocabulary[k])
    /\ \/ vocabulary[k].match = "exact" /\ k = fold(text)
       \/ vocabulary[k].match = "word" /\ occurs(k, fold(text))

IsVocabulary(vocabulary) ==
    DOMAIN vocabulary \subseteq Texts /\ vocabulary \in [DOMAIN vocabulary -> Entries]

\* The terms a match is owed to all speak; there is one when any term speaks.
LEMMA HitsSpeak ==
    ASSUME NEW text \in Texts, NEW vocabulary, IsVocabulary(vocabulary)
    PROVE  /\ \A k \in match(text, vocabulary).by : Speaks(k, text, vocabulary)
           /\ (\E k \in DOMAIN vocabulary : Speaks(k, text, vocabulary)) => match(text, vocabulary).by # {}
<1> DEFINE exact == exactly(text, vocabulary)
           said == {k \in DOMAIN vocabulary : vocabulary[k].match = "word" /\ occurs(k, fold(text)) /\ says(vocabulary[k])}
           words == wordHits(text, vocabulary)
<1>1. match(text, vocabulary).by = IF exact # {} THEN exact ELSE words
  BY DEF match
<1>2. \A k \in exact : Speaks(k, text, vocabulary)
  BY DEF exactly, Speaks
<1>3. words \subseteq said /\ \A k \in said : Speaks(k, text, vocabulary)
  BY DEF wordHits, Speaks
<1>4. said # {} => words # {}
  <2>1. said \subseteq Texts /\ fold(text) \in Texts /\ \A k \in said : occurs(k, fold(text))
    BY FoldIs DEF IsVocabulary
  <2>2. words = {k \in said : ~\E other \in said : spelledIn(k, other)}
    BY DEF wordHits
  <2> HIDE DEF said, words
  <2> QED BY <2>1, <2>2, LongestStands
<1>5. ASSUME NEW k \in DOMAIN vocabulary, Speaks(k, text, vocabulary) PROVE k \in exact \cup said
  BY <1>5 DEF Speaks, exactly
<1> HIDE DEF exact, said, words
<1> QED BY <1>1, <1>2, <1>3, <1>4, <1>5

\* A match that is owed to a term says something, and says it of kinds there are.
LEMMA MatchSays ==
    ASSUME NEW text \in Texts, NEW vocabulary, IsVocabulary(vocabulary)
    PROVE  LET m == match(text, vocabulary) IN
           /\ m.kinds \subseteq known_kinds
           /\ m.by # {} <=> m.kinds # {} \/ m.ignored
<1> DEFINE m == match(text, vocabulary)
           exact == exactly(text, vocabulary)
           loud == {h \in m.by : h \in exact \/ ~vocabulary[h].ignore}
<1>1. m.kinds = UNION {vocabulary[k].kinds : k \in loud}
  BY DEF match
<1>2. m.ignored <=> m.by # {} /\ \A k \in m.by : vocabulary[k].ignore
  BY DEF match
<1>3. \A k \in m.by : k \in DOMAIN vocabulary /\ says(vocabulary[k])
  BY HitsSpeak DEF Speaks
<1> HIDE DEF m, exact
<1>4. m.kinds \subseteq known_kinds
  <2>1. \A k \in DOMAIN vocabulary : vocabulary[k].kinds \subseteq known_kinds
    BY DEF IsVocabulary, Entries
  <2> QED BY <1>1, <1>3, <2>1
<1>5. ASSUME m.by # {}, ~m.ignored PROVE m.kinds # {}
  <2>1. PICK k \in m.by : ~vocabulary[k].ignore
    BY <1>2, <1>5
  <2>2. k \in loud /\ vocabulary[k].kinds # {}
    BY <1>3, <2>1 DEF says
  <2> QED BY <1>1, <2>2
<1>6. ASSUME m.kinds # {} \/ m.ignored PROVE m.by # {}
  BY <1>1, <1>2, <1>6
<1> QED BY <1>4, <1>5, <1>6 DEF m

\* The surest pattern is one of the patterns.
LEMMA ClassifiedKind ==
    ASSUME NEW text \in Texts, is_confident(classify(text))
    PROVE  classify(text).kind \in known_kinds
<1> DEFINE hits == {i \in DOMAIN Patterns : occurs(Patterns[i].words, text)}
           outranks(i, j) == \/ Patterns[i].confidence > Patterns[j].confidence
                             \/ /\ Patterns[i].confidence = Patterns[j].confidence
                                /\ \/ Len(Patterns[i].words) > Len(Patterns[j].words)
                                   \/ Len(Patterns[i].words) = Len(Patterns[j].words) /\ i <= j
           best == CHOOSE i \in hits : \A j \in hits : outranks(i, j)
<1>1. classify(text) = IF hits = {} THEN [kind |-> None, confidence |-> 0]
                       ELSE [kind |-> Patterns[best].kind, confidence |-> Patterns[best].confidence]
  BY DEF classify
<1>2. hits # {}
  BY <1>1 DEF is_confident, HIGH
<1>3. \A i \in hits : /\ i \in Nat
                      /\ Patterns[i].confidence \in Nat
                      /\ Patterns[i].confidence \in 0..100
                      /\ Patterns[i].words \in Texts
                      /\ Len(Patterns[i].words) \in Nat
                      /\ Len(Patterns[i].words) \in 0..Len(text)
                      /\ Patterns[i].kind \in known_kinds
  <2> TAKE i \in hits
  <2>1. Patterns[i] \in [words : Seq(Words), kind : known_kinds, confidence : 0..100] /\ i \in Nat
    <3> DEFINE P == [words : Seq(Words), kind : known_kinds, confidence : 0..100]
    <3>1. Patterns \in Seq(P) /\ i \in DOMAIN Patterns
      BY RunningOrderAssumption
    <3> HIDE DEF P
    <3>2. Patterns[i] \in P /\ i \in Nat
      BY <3>1
    <3> QED BY <3>2 DEF P
  <2>2. Patterns[i].words \in Texts /\ Len(Patterns[i].words) \in Nat /\ Len(text) \in Nat
    BY <2>1 DEF Texts
  <2>3. Len(Patterns[i].words) <= Len(text)
    BY <2>2, OccursIs
  <2>4. Patterns[i].confidence \in 0..100 /\ Patterns[i].kind \in known_kinds /\ i \in Nat
    BY <2>1
  <2>5. Patterns[i].confidence \in Nat
    BY <2>4
  <2>6. Len(Patterns[i].words) \in 0..Len(text)
    BY <2>2, <2>3
  <2> QED BY <2>2, <2>4, <2>5, <2>6
<1> HIDE DEF hits
<1>4. PICK sure \in 0..100 : /\ sure \in Nat
                             /\ \E i \in hits : Patterns[i].confidence = sure
                             /\ \A i \in hits : Patterns[i].confidence <= sure
  <2> DEFINE T == {Patterns[i].confidence : i \in hits}
  <2>1. T \subseteq 0..100 /\ T # {} /\ 100 \in Nat
    BY <1>2, <1>3
  <2>2. PICK x \in T : \A y \in T : y <= x
    <3> HIDE DEF T
    <3> QED BY <2>1, GreatestNat
  <2>3. x \in 0..100
    BY <2>1
  <2>4. x \in Nat
    <3> HIDE DEF T
    <3> QED BY <2>3
  <2> QED BY <2>2, <2>3, <2>4
<1> DEFINE surest == {i \in hits : Patterns[i].confidence = sure}
<1>5. PICK size \in Nat : /\ \E i \in surest : Len(Patterns[i].words) = size
                          /\ \A i \in surest : Len(Patterns[i].words) <= size
  <2> DEFINE T == {Len(Patterns[i].words) : i \in surest}
  <2>1. T \subseteq 0..Len(text) /\ T # {}
    BY <1>3, <1>4
  <2>4. Len(text) \in Nat
    BY DEF Texts
  <2>2. PICK x \in T : \A y \in T : y <= x
    <3> HIDE DEF T
    <3> QED BY <2>1, <2>4, GreatestNat
  <2>3. x \in Nat
    BY <2>1, <2>4
  <2> QED BY <2>2, <2>3
<1> DEFINE longest == {i \in surest : Len(Patterns[i].words) = size}
<1>6. PICK first \in longest : \A i \in longest : first <= i
  <2>1. longest \subseteq Nat /\ longest # {}
    BY <1>3, <1>5
  <2> HIDE DEF longest
  <2> QED BY <2>1, LeastNat
<1>7. ASSUME NEW j \in hits PROVE outranks(first, j)
  <2>6. Patterns[j].confidence \in Nat /\ Len(Patterns[j].words) \in Nat
    BY <1>3
  <2>7. Patterns[j].confidence <= sure
    BY <1>4
  <2>8. Patterns[first].confidence = sure /\ Len(Patterns[first].words) = size
    OBVIOUS
  <2>1. /\ Patterns[j].confidence \in Nat /\ Patterns[j].confidence <= sure /\ sure \in Nat
        /\ Patterns[first].confidence = sure /\ Len(Patterns[first].words) = size
        /\ Len(Patterns[j].words) \in Nat
    BY <1>4, <2>6, <2>7, <2>8
  <2>2. CASE Patterns[j].confidence # sure
    BY <2>1, <2>2
  <2>3. CASE Patterns[j].confidence = sure /\ Len(Patterns[j].words) # size
    BY <1>5, <2>1, <2>3
  <2>4. CASE Patterns[j].confidence = sure /\ Len(Patterns[j].words) = size
    BY <1>6, <2>1, <2>4
  <2> QED BY <2>2, <2>3, <2>4
<1>8. best \in hits
  <2>1. \E i \in hits : \A j \in hits : outranks(i, j)
    BY <1>7
  <2> HIDE DEF outranks
  <2> QED BY <2>1
<1> HIDE DEF best
<1> QED BY <1>1, <1>2, <1>3, <1>8

\* What a fragment comes to: it is understood when a term speaks of it or the patterns are
\* sure, it is owed to terms that speak, and it means kinds there are.
LEMMA FragmentResolved ==
    ASSUME NEW text \in Texts, NEW vocabulary, IsVocabulary(vocabulary)
    PROVE  LET r == resolve_fragment(text, vocabulary) IN
           /\ r.kinds \subseteq known_kinds
           /\ \A k \in r.by : Speaks(k, text, vocabulary)
           /\ resolves(text, vocabulary) /\ r.by = {} => is_confident(classify(text))
           /\ is_confident(classify(text)) => resolves(text, vocabulary)
           /\ (\E k \in DOMAIN vocabulary : Speaks(k, text, vocabulary)) => resolves(text, vocabulary)
<1> DEFINE r == resolve_fragment(text, vocabulary)
           found == match(text, vocabulary)
           pattern == classify(text)
<1>1. r = IF found.kinds # {} \/ found.ignored THEN found
          ELSE [kinds |-> IF is_confident(pattern) THEN {pattern.kind} ELSE {}, ignored |-> FALSE, by |-> {}]
  BY DEF resolve_fragment
<1>2. resolves(text, vocabulary) <=> r.kinds # {} \/ r.ignored
  BY DEF resolves
<1>3. found.kinds \subseteq known_kinds /\ (found.by # {} <=> found.kinds # {} \/ found.ignored)
  BY MatchSays
<1>4. /\ \A k \in found.by : Speaks(k, text, vocabulary)
      /\ (\E k \in DOMAIN vocabulary : Speaks(k, text, vocabulary)) => found.by # {}
  BY HitsSpeak
<1>5. is_confident(pattern) => pattern.kind \in known_kinds
  BY ClassifiedKind
<1> HIDE DEF r, found, pattern
<1>6. CASE found.kinds # {} \/ found.ignored
  <2>1. r = found
    BY <1>1, <1>6
  <2> QED BY <1>2, <1>3, <1>4, <1>6, <2>1 DEF r, found
<1>7. CASE ~(found.kinds # {} \/ found.ignored)
  <2>1. /\ r.kinds = IF is_confident(pattern) THEN {pattern.kind} ELSE {}
        /\ r.ignored = FALSE /\ r.by = {}
    BY <1>1, <1>7
  <2> QED BY <1>2, <1>3, <1>4, <1>5, <1>7, <2>1 DEF r, pattern
<1> QED BY <1>6, <1>7

-----------------------------------------------------------------------------
(* Ids                                                                     *)

\* Of as many different ids as there are used ones, and one more, one is free, and one of
\* the free ones is the first.
LEMMA FirstFree ==
    ASSUME NEW used, IsFiniteSet(used), NEW first \in Nat, NEW last,
           last = first + Cardinality(used), NEW g,
           \A n, m \in first..last : g[n] = g[m] => n = m
    PROVE  /\ first..last \subseteq Nat
           /\ \E n \in first..last :
                 g[n] \notin used /\ \A m \in first..last : g[m] \notin used => n <= m
<1>1. Cardinality(used) \in Nat /\ last \in Nat /\ first <= last
  BY FS_CardinalityType
<1>2. IsFiniteSet(first..last) /\ Cardinality(first..last) = Cardinality(used) + 1
  <2>1. Cardinality(first..last) = IF first > last THEN 0 ELSE last - first + 1
    BY <1>1, FS_Interval
  <2> QED BY <1>1, <2>1, FS_Interval
<1> DEFINE free == {n \in first..last : g[n] \notin used}
<1>3. free # {}
  <2> SUFFICES ASSUME \A n \in first..last : g[n] \in used PROVE FALSE
    OBVIOUS
  <2> DEFINE h == [n \in first..last |-> g[n]]
  <2>1. h \in Injection(first..last, used)
    BY DEF Injection, IsInjective
  <2> HIDE DEF h
  <2>2. Cardinality(first..last) <= Cardinality(used)
    BY <2>1, FS_Injection
  <2> QED BY <1>1, <1>2, <2>2
<1>4. first..last \subseteq Nat /\ free \subseteq Nat
  BY <1>1
<1>5. PICK n \in free : \A m \in free : n <= m
  <2> HIDE DEF free
  <2> QED BY <1>3, <1>4, LeastNat
<1> QED BY <1>4, <1>5

\* Folding an id leaves its numbers, and a suffix is behind them.
LEMMA IdParts ==
    ASSUME NEW id \in Ids
    PROVE  id.numbers \in Seq(Nat) /\ _fold(id).numbers = id.numbers
<1>1. id \in [name : DOMAIN Lowered, numbers : Seq(Nat)]
  BY DEF Ids
<1>2. _fold(id) = [id EXCEPT !.name = Lowered[id.name]]
  BY DEF _fold
<1> QED BY <1>1, <1>2

LEMMA SuffixedId ==
    ASSUME NEW id \in Ids, NEW n \in Nat
    PROVE  suffixed(id, n) \in Ids /\ suffixed(id, n).numbers = Append(id.numbers, n)
<1>1. id \in [name : DOMAIN Lowered, numbers : Seq(Nat)]
  BY DEF Ids
<1> DEFINE longer == Append(id.numbers, n)
<1>2. longer \in Seq(Nat)
  BY <1>1, AppendProperties
<1>3. suffixed(id, n) = [id EXCEPT !.numbers = longer]
  BY DEF suffixed
<1> HIDE DEF longer
<1>4. suffixed(id, n) \in [name : DOMAIN Lowered, numbers : Seq(Nat)] /\ suffixed(id, n).numbers = longer
  BY <1>1, <1>2, <1>3
<1> QED BY <1>4 DEF Ids, longer

\* A suffix tells ids apart, and so does a number.
LEMMA SuffixesDiffer ==
    ASSUME NEW id \in Ids, NEW n \in Nat, NEW m \in Nat, _fold(suffixed(id, n)) = _fold(suffixed(id, m))
    PROVE  n = m
<1>1. ASSUME NEW i \in Nat PROVE _fold(suffixed(id, i)).numbers = Append(id.numbers, i)
  <2> DEFINE other == suffixed(id, i)
  <2>1. other \in Ids /\ other.numbers = Append(id.numbers, i)
    BY SuffixedId
  <2> HIDE DEF other
  <2>2. _fold(other).numbers = other.numbers
    BY <2>1, IdParts
  <2> QED BY <2>1, <2>2 DEF other
<1>3. Append(id.numbers, n) = Append(id.numbers, m)
  BY <1>1
<1>5. id.numbers \in Seq(Nat)
  BY IdParts
<1>4. n = Append(id.numbers, n)[Len(id.numbers) + 1] /\ m = Append(id.numbers, m)[Len(id.numbers) + 1]
  BY <1>5, AppendProperties
<1> QED BY <1>3, <1>4

LEMMA NumbersDiffer ==
    ASSUME NEW n \in Nat
    PROVE  /\ numbered(n) \in Ids
           /\ \A m \in Nat : _fold(numbered(n)) = _fold(numbered(m)) => n = m
<1>1. ASSUME NEW m \in Nat PROVE numbered(m) \in Ids /\ _fold(numbered(m)).numbers = <<m>>
  <2> DEFINE other == numbered(m)
  <2>1. other \in Ids /\ other.numbers = <<m>>
    BY RunningOrderAssumption DEF numbered, Ids
  <2> HIDE DEF other
  <2>2. _fold(other).numbers = other.numbers
    BY <2>1, IdParts
  <2> QED BY <2>1, <2>2 DEF other
<1>2. \A m \in Nat : <<n>> = <<m>> => n = m
  OBVIOUS
<1> QED BY <1>1, <1>2

\* What _unique and nextFree return is nobody's id yet.
LEMMA UniqueIsFree ==
    ASSUME NEW used, IsFiniteSet(used), NEW id \in Ids
    PROVE  _unique(id, used) \in Ids /\ _fold(_unique(id, used)) \notin used
<1> DEFINE last == Cardinality(used) + 2
           g == [n \in Nat |-> _fold(suffixed(id, n))]
           free == {n \in 2..last : _fold(suffixed(id, n)) \notin used}
           n == CHOOSE n \in free : \A m \in free : n <= m
<1>1. Cardinality(used) \in Nat
  BY FS_CardinalityType
<1>2. last = 2 + Cardinality(used) /\ 2..last \subseteq Nat
  BY <1>1
<1>3. \A i, j \in 2..last : g[i] = g[j] => i = j
  BY <1>2, SuffixesDiffer
<1>4. \A i \in Nat : g[i] = _fold(suffixed(id, i))
  OBVIOUS
<1>5. n \in free
  <2> HIDE DEF g, last
  <2>1. PICK i \in 2..last : g[i] \notin used /\ \A m \in 2..last : g[m] \notin used => i <= m
    BY <1>2, <1>3, FirstFree
  <2>2. i \in free /\ \A m \in free : i <= m
    BY <1>2, <1>4, <2>1
  <2> HIDE DEF free
  <2> QED BY <2>2
<1>6. _unique(id, used) = suffixed(id, n)
  BY DEF _unique
<1>7. n \in Nat /\ _fold(suffixed(id, n)) \notin used
  <2> HIDE DEF n, last
  <2> QED BY <1>2, <1>5
<1> HIDE DEF n
<1> QED BY <1>6, <1>7, SuffixedId

LEMMA NextIsFree ==
    ASSUME NEW used, IsFiniteSet(used), NEW generated \in Nat
    PROVE  nextFree(generated, used) \in Nat /\ _fold(numbered(nextFree(generated, used))) \notin used
<1> DEFINE first == generated + 1
           last == generated + Cardinality(used) + 1
           g == [n \in Nat |-> _fold(numbered(n))]
           free == {n \in first..last : _fold(numbered(n)) \notin used}
<1>1. Cardinality(used) \in Nat
  BY FS_CardinalityType
<1>2. first \in Nat /\ last = first + Cardinality(used) /\ first..last \subseteq Nat
  BY <1>1
<1>3. \A i, j \in first..last : g[i] = g[j] => i = j
  BY <1>2, NumbersDiffer
<1>4. \A i \in Nat : g[i] = _fold(numbered(i))
  OBVIOUS
<1>5. nextFree(generated, used) = CHOOSE n \in free : \A m \in free : n <= m
  BY DEF nextFree
<1>6. nextFree(generated, used) \in free
  <2> HIDE DEF g, first, last
  <2>1. PICK i \in first..last : g[i] \notin used /\ \A m \in first..last : g[m] \notin used => i <= m
    BY <1>2, <1>3, FirstFree
  <2>2. i \in free /\ \A m \in free : i <= m
    BY <1>2, <1>4, <2>1
  <2> HIDE DEF free
  <2> QED BY <1>5, <2>2
<1> HIDE DEF first, last
<1> QED BY <1>2, <1>6

\* The id of the next segment is an id, and nobody's yet.
LEMMA IdIsFresh ==
    ASSUME NEW done, IsFiniteSet(done.used), done.generated \in Nat,
           NEW written, blank(written) \/ written \in DOMAIN identified
    PROVE  idOf(written, done) \in Ids /\ _fold(idOf(written, done)) \notin done.used
<1>1. CASE blank(written)
  BY <1>1, NextIsFree, NumbersDiffer DEF idOf
<1>2. CASE ~blank(written)
  <2>1. identified[written] \in Ids
    BY <1>2, RunningOrderAssumption
  <2>2. CASE _fold(identified[written]) \in done.used
    BY <1>2, <2>1, <2>2, UniqueIsFree DEF idOf
  <2>3. CASE _fold(identified[written]) \notin done.used
    BY <1>2, <2>1, <2>3 DEF idOf
  <2> QED BY <2>2, <2>3
<1> QED BY <1>1, <1>2

-----------------------------------------------------------------------------
(* Rows and segments                                                       *)

SheetRows == [number : Nat, cells : Seq(Cells)]

IsSheet(sheet) ==
    /\ Len(sheet.headers) \in Nat /\ DOMAIN sheet.headers = 1..Len(sheet.headers)
    /\ sheet.rows \in Seq(SheetRows)
    /\ \A r \in DOMAIN sheet.rows :
        /\ DOMAIN sheet.rows[r].cells = DOMAIN sheet.headers
        /\ \A c \in DOMAIN sheet.headers :
            blank(sheet.rows[r].cells[c]) \/ sheet.rows[r].cells[c] \in DOMAIN identified

IsMapping(mapping, sheet) ==
    DOMAIN mapping \subseteq FIELDS /\ \A f \in DOMAIN mapping : mapping[f] \in DOMAIN sheet.headers

Expected == [id : Ids, title : Cells, expects : SUBSET known_kinds, kept : SUBSET FIELDS]
Commented == [unread : SUBSET Texts, kept : SUBSET FIELDS, columns : SUBSET Nat, quoted : SUBSET Cells]
Built == [row : Nat, segment : Expected, comments : Commented]
Loose == [row : Nat, kept : SUBSET FIELDS]

LEMMA ResultsAre == Results = [segments : Seq(Built), loose : Seq(Loose)]
BY DEF Results, Built, Expected, Commented, Loose, Texts

LEMMA RowIs ==
    ASSUME NEW sheet, IsSheet(sheet), NEW r \in 1..Len(sheet.rows)
    PROVE  /\ r \in DOMAIN sheet.rows /\ sheet.rows[r] \in SheetRows
           /\ sheet.rows[r].number \in Nat
<1>1. r \in DOMAIN sheet.rows /\ sheet.rows[r] \in SheetRows
  BY DEF IsSheet
<1> DEFINE row == sheet.rows[r]
<1>2. row \in SheetRows
  BY <1>1
<1> HIDE DEF row
<1>3. row.number \in Nat
  BY <1>2 DEF SheetRows
<1> QED BY <1>1, <1>3 DEF row

\* A cell of a row, and what it reads as when it is an id.
LEMMA CellIs ==
    ASSUME NEW sheet, IsSheet(sheet), NEW mapping, IsMapping(mapping, sheet),
           NEW r \in 1..Len(sheet.rows), NEW f
    PROVE  /\ _cell(sheet.rows[r], mapping, f) \in Cells
           /\ blank(_cell(sheet.rows[r], mapping, f)) \/ _cell(sheet.rows[r], mapping, f) \in DOMAIN identified
<1>1. sheet.rows[r] \in SheetRows /\ r \in DOMAIN sheet.rows
  BY DEF IsSheet
<1>2. CASE f \notin DOMAIN mapping
  <2>1. _cell(sheet.rows[r], mapping, f) = << >>
    BY <1>2 DEF _cell
  <2>2. << >> \in Seq(Seq(Words))
    OBVIOUS
  <2> QED BY <2>1, <2>2 DEF blank, Cells
<1>3. CASE f \in DOMAIN mapping
  <2> DEFINE c == mapping[f]
             cells == sheet.rows[r].cells
  <2>1. c \in DOMAIN cells /\ c \in DOMAIN sheet.headers
    BY <1>1, <1>3 DEF IsSheet, IsMapping
  <2>2. cells \in Seq(Cells)
    BY <1>1 DEF SheetRows
  <2>3. _cell(sheet.rows[r], mapping, f) = cells[c]
    BY <1>3 DEF _cell
  <2>4. blank(cells[c]) \/ cells[c] \in DOMAIN identified
    BY <1>1, <2>1 DEF IsSheet
  <2> HIDE DEF c, cells
  <2>5. cells[c] \in Cells
    BY <2>1, <2>2
  <2> QED BY <2>3, <2>4, <2>5
<1> QED BY <1>2, <1>3

LEMMA FragmentsAre ==
    ASSUME NEW cell \in Cells, NEW i \in DOMAIN cell PROVE cell[i] \in Texts
BY DEF Cells, Texts

entryOf(row, id, sheet, mapping, vocabulary) ==
    [row |-> row.number, segment |-> segmentOf(row, mapping, vocabulary, id),
     comments |-> comments(row, mapping, sheet, vocabulary, id)]

\* A row's segment and comments are typed.
LEMMA EntryIs ==
    ASSUME NEW sheet, IsSheet(sheet), NEW mapping, IsMapping(mapping, sheet),
           NEW vocabulary, IsVocabulary(vocabulary),
           NEW r \in 1..Len(sheet.rows), NEW id \in Ids
    PROVE  entryOf(sheet.rows[r], id, sheet, mapping, vocabulary) \in Built
<1> DEFINE row == sheet.rows[r]
           spoken == _cell(row, mapping, "performers")
<1>1. row.number \in Nat
  BY RowIs
<1>2. spoken \in Cells /\ _cell(row, mapping, "title") \in Cells
  BY CellIs
<1>3. expected(spoken, vocabulary) \subseteq known_kinds
  <2>1. \A i \in DOMAIN spoken : resolve_fragment(spoken[i], vocabulary).kinds \subseteq known_kinds
    BY <1>2, FragmentsAre, FragmentResolved
  <2> QED BY <2>1 DEF expected
<1>4. unread(spoken, vocabulary) \subseteq Texts
  BY <1>2, FragmentsAre DEF unread
<1>5. otherColumns(row, mapping, sheet) \subseteq Nat
  <2>1. headed(sheet) \subseteq 1..Len(sheet.headers) /\ Len(sheet.headers) \in Nat
    BY DEF headed, IsSheet
  <2> QED BY <2>1 DEF otherColumns
<1>8. quoted(row, mapping, sheet, id) \subseteq Cells
  <2>1. \A f : _cell(row, mapping, f) \in Cells
    BY CellIs
  <2>2. ASSUME NEW c \in otherColumns(row, mapping, sheet) PROVE row.cells[c] \in Cells
    <3>1. row \in SheetRows /\ r \in DOMAIN sheet.rows /\ c \in DOMAIN sheet.headers
      BY <2>2 DEF otherColumns, headed, IsSheet
    <3> DEFINE cells == row.cells
    <3>2. cells \in Seq(Cells) /\ c \in DOMAIN cells
      BY <3>1 DEF SheetRows, IsSheet
    <3> HIDE DEF cells
    <3>3. cells[c] \in Cells
      BY <3>2
    <3> QED BY <3>3 DEF cells
  <2> HIDE DEF row
  <2> QED BY <2>1, <2>2 DEF quoted
<1> HIDE DEF row
<1>6. segmentOf(row, mapping, vocabulary, id) \in Expected
  BY <1>2, <1>3 DEF segmentOf, Expected, FIELDS
<1>7. comments(row, mapping, sheet, vocabulary, id) \in Commented
  BY <1>4, <1>5, <1>8 DEF comments, Commented, FIELDS
<1> QED BY <1>1, <1>6, <1>7 DEF entryOf, Built, row

\* The sheet so far.
Partial ==
    [segments : Seq(Built), loose : Seq(Loose), generated : Nat,
     used : {u \in SUBSET Ids : IsFiniteSet(u)}]

\* One more row is one more comment, or one more segment with an id that nobody has.
OneMore(after, done, row, sheet, mapping, vocabulary) ==
    /\ blank(_cell(row, mapping, "title")) =>
        /\ after.segments = done.segments /\ after.used = done.used
        /\ \E line \in Loose : after.loose = Append(done.loose, line)
    /\ ~blank(_cell(row, mapping, "title")) => \E id \in Ids :
        /\ after.segments = Append(done.segments, entryOf(row, id, sheet, mapping, vocabulary))
        /\ after.loose = done.loose
        /\ _fold(id) \notin done.used /\ after.used = done.used \cup {_fold(id)}

LEMMA RowIsBuilt ==
    ASSUME NEW sheet, IsSheet(sheet), NEW mapping, IsMapping(mapping, sheet),
           NEW vocabulary, IsVocabulary(vocabulary),
           NEW r \in 1..Len(sheet.rows), NEW done \in Partial
    PROVE  LET row == sheet.rows[r]
               after == rowBuilt(done, row, sheet, mapping, vocabulary) IN
           after \in Partial /\ OneMore(after, done, row, sheet, mapping, vocabulary)
<1> DEFINE row == sheet.rows[r]
           after == rowBuilt(done, row, sheet, mapping, vocabulary)
           written == _cell(row, mapping, "id")
           id == idOf(written, done)
           line == loose(row, mapping)
<1>1. /\ done.segments \in Seq(Built) /\ done.loose \in Seq(Loose)
      /\ done.generated \in Nat /\ done.used \subseteq Ids /\ IsFiniteSet(done.used)
      /\ DOMAIN done = {"segments", "loose", "generated", "used"}
  BY DEF Partial
<1>2. row.number \in Nat
  BY RowIs
<1>3. id \in Ids /\ _fold(id) \notin done.used
  <2>1. blank(written) \/ written \in DOMAIN identified
    BY CellIs
  <2> HIDE DEF written
  <2> QED BY <1>1, <2>1, IdIsFresh
<1>4. CASE blank(_cell(row, mapping, "title"))
  <2>1. after = [done EXCEPT !.loose = Append(done.loose, line)]
    BY <1>4 DEF rowBuilt
  <2>2. line \in Loose
    BY <1>2 DEF loose, Loose, FIELDS
  <2> HIDE DEF row, line, after, id, written
  <2> DEFINE more == Append(done.loose, line)
  <2>3. more \in Seq(Loose)
    BY <1>1, <2>2, AppendProperties
  <2> HIDE DEF more
  <2>4. /\ after.segments = done.segments /\ after.used = done.used /\ after.loose = more
        /\ after \in Partial
    BY <2>1, <2>3 DEF Partial, more
  <2> QED BY <1>4, <2>2, <2>4 DEF more, row, after, OneMore
<1>5. CASE ~blank(_cell(row, mapping, "title"))
  <2> DEFINE next == IF blank(written) THEN nextFree(done.generated, done.used) ELSE done.generated
             entry == entryOf(row, id, sheet, mapping, vocabulary)
             more == Append(done.segments, entry)
             taken == done.used \cup {_fold(id)}
  <2>1. after = [segments |-> more, loose |-> done.loose, generated |-> next, used |-> taken]
    BY <1>5 DEF rowBuilt, entryOf
  <2>2. next \in Nat
    BY <1>1, NextIsFree
  <2>3. entry \in Built
    BY <1>3, EntryIs
  <2>4. more \in Seq(Built)
    <3> HIDE DEF entry
    <3> QED BY <1>1, <2>3, AppendProperties
  <2>5. taken \subseteq Ids /\ IsFiniteSet(taken)
    <3>1. _fold(id) \in Ids
      <4> HIDE DEF id
      <4>1. id \in [name : DOMAIN Lowered, numbers : Seq(Nat)]
        BY <1>3 DEF Ids
      <4>2. Lowered[id.name] \in DOMAIN Lowered
        BY <4>1, RunningOrderAssumption
      <4> QED BY <4>1, <4>2 DEF Ids, _fold
    <3> HIDE DEF id
    <3> QED BY <1>1, <3>1, FS_AddElement
  <2> HIDE DEF next, more, taken
  <2>6. after \in Partial /\ after.segments = more /\ after.loose = done.loose /\ after.used = taken
    <3> HIDE DEF after
    <3> QED BY <1>1, <2>1, <2>2, <2>4, <2>5 DEF Partial
  <2> HIDE DEF row, after, id, written
  <2> QED BY <1>3, <1>5, <2>6 DEF more, taken, row, after, OneMore
<1> QED BY <1>4, <1>5

\* The sheet after each of its rows.
Builds(f, sheet, mapping, vocabulary) ==
    /\ f[0] = blankSheet
    /\ \A i \in 1..Len(sheet.rows) : f[i] = rowBuilt(f[i - 1], sheet.rows[i], sheet, mapping, vocabulary)

LEMMA BuildChain ==
    ASSUME NEW sheet, IsSheet(sheet), NEW mapping, IsMapping(mapping, sheet),
           NEW vocabulary, IsVocabulary(vocabulary)
    PROVE  \E f \in [0..Len(sheet.rows) -> Partial] :
              /\ Builds(f, sheet, mapping, vocabulary)
              /\ build(sheet, mapping, vocabulary) = [segments |-> f[Len(sheet.rows)].segments,
                                                      loose |-> f[Len(sheet.rows)].loose]
<1> DEFINE n == Len(sheet.rows)
           D == Partial
           next(i, done) == rowBuilt(done, sheet.rows[i], sheet, mapping, vocabulary)
           stepping == [p \in (1..n) \X D |-> next(p[1], p[2])]
<1>1. \A i \in 1..n, done \in D : next(i, done) \in D
  BY RowIsBuilt
<1>2. n \in Nat
  BY DEF IsSheet
<1>3. blankSheet \in D
  <2>1. << >> \in Seq(Built) /\ << >> \in Seq(Loose) /\ 0 \in Nat
        /\ {} \in {u \in SUBSET Ids : IsFiniteSet(u)}
    BY FS_EmptySet
  <2> QED BY <2>1 DEF Partial, blankSheet
<1> HIDE DEF n, D, next
<1>4. stepping \in [(1..n) \X D -> D]
  BY <1>1
<1>5. PICK f \in Runs(n, D, blankSheet, stepping) : TRUE
  <2> HIDE DEF stepping
  <2> QED BY <1>2, <1>3, <1>4, Recursion
<1>6. /\ f \in [0..n -> D] /\ f[0] = blankSheet
      /\ \A i \in 1..n : f[i] = stepping[<<i, f[i - 1]>>]
  <2> HIDE DEF stepping
  <2> QED BY DEF Runs
<1>7. \A i \in 1..n : f[i] = next(i, f[i - 1])
  <2> TAKE i \in 1..n
  <2>1. i - 1 \in 0..n
    BY <1>2
  <2>2. f[i - 1] \in D
    BY <1>6, <2>1
  <2>3. <<i, f[i - 1]>> \in (1..n) \X D
    BY <2>2
  <2> QED BY <1>6, <2>3
<1> HIDE DEF stepping
<1>8. f = [i \in 0..n |-> IF i = 0 THEN blankSheet ELSE next(i, f[i - 1])]
  <2>1. ASSUME NEW i \in 0..n PROVE f[i] = IF i = 0 THEN blankSheet ELSE next(i, f[i - 1])
    <3>1. i = 0 \/ i \in 1..n
      BY <1>2
    <3> QED BY <1>6, <1>7, <3>1
  <2> QED BY <1>6, <2>1
<1> DEFINE g == CHOOSE h : h = [i \in 0..n |-> IF i = 0 THEN blankSheet ELSE next(i, h[i - 1])]
<1>9. g = [i \in 0..n |-> IF i = 0 THEN blankSheet ELSE next(i, g[i - 1])]
  BY <1>8
<1>10. build(sheet, mapping, vocabulary) = [segments |-> g[n].segments, loose |-> g[n].loose]
  BY DEF build, n, next
<1> HIDE DEF g
<1>11. g[0] = blankSheet
  BY <1>2, <1>9
<1>12. \A i \in 1..n : g[i] = next(i, g[i - 1])
  <2> TAKE i \in 1..n
  <2>1. i \in 0..n /\ i # 0
    BY <1>2
  <2> QED BY <1>9, <2>1
<1>13. g \in [0..n -> D]
  <2> DEFINE G == {i \in 0..n : g[i] \in D}
  <2>1. 0 \in G
    BY <1>2, <1>3, <1>11
  <2>2. ASSUME NEW i \in 1..n, i - 1 \in G PROVE i \in G
    <3>1. i \in 0..n /\ g[i - 1] \in D
      BY <1>2, <2>2
    <3> QED BY <1>1, <1>12, <3>1
  <2>3. 0..n \subseteq G
    <3> HIDE DEF G
    <3> QED BY <1>2, <2>1, <2>2, InductionUpTo
  <2>4. \A i \in 0..n : g[i] \in D
    BY <2>3
  <2>5. g = [i \in 0..n |-> g[i]]
    BY <1>9
  <2> QED BY <2>4, <2>5
<1>14. Builds(g, sheet, mapping, vocabulary)
  BY <1>11, <1>12 DEF Builds, n, next
<1> QED BY <1>10, <1>13, <1>14 DEF n, D

\* The sheet's own rows that have a title.
titledRows(sheet, mapping) == {row \in ToSet(sheet.rows) : ~blank(_cell(row, mapping, "title"))}

\* The segments so far stand for the titled rows so far, in their order, under ids that the
\* loader tells apart, and every other row is a comment.
InStep(done, titled, i, sheet, mapping, vocabulary) ==
    /\ Len(done.segments) = Len(titled)
    /\ Len(done.segments) + Len(done.loose) = i
    /\ \A a \in 1..Len(titled) : \E id \in Ids :
          /\ done.segments[a] = entryOf(titled[a], id, sheet, mapping, vocabulary)
          /\ _fold(id) \in done.used
    /\ \A a, b \in 1..Len(titled) :
          a # b => _fold(done.segments[a].segment.id) # _fold(done.segments[b].segment.id)

LEMMA EntryId ==
    ASSUME NEW row, NEW id, NEW sheet, NEW mapping, NEW vocabulary
    PROVE  entryOf(row, id, sheet, mapping, vocabulary).segment.id = id
BY DEF entryOf, segmentOf

\* A row more, titled or not, and they are in step still.
LEMMA StaysInStep ==
    ASSUME NEW sheet, IsSheet(sheet), NEW mapping, IsMapping(mapping, sheet),
           NEW vocabulary, IsVocabulary(vocabulary),
           NEW r \in 1..Len(sheet.rows), NEW done \in Partial, NEW titled \in Seq(SheetRows),
           InStep(done, titled, r - 1, sheet, mapping, vocabulary)
    PROVE  InStep(rowBuilt(done, sheet.rows[r], sheet, mapping, vocabulary),
                  IF sheet.rows[r] \in titledRows(sheet, mapping)
                  THEN Append(titled, sheet.rows[r]) ELSE titled,
                  r, sheet, mapping, vocabulary)
<1> DEFINE row == sheet.rows[r]
           after == rowBuilt(done, row, sheet, mapping, vocabulary)
           entry(some, id) == entryOf(some, id, sheet, mapping, vocabulary)
           idAt(s, a) == s[a].segment.id
<1>1. row \in titledRows(sheet, mapping) <=> ~blank(_cell(row, mapping, "title"))
  <2>1. row \in ToSet(sheet.rows)
    BY RowIs DEF ToSet
  <2> QED BY <2>1 DEF titledRows
<1>2. /\ after \in Partial
      /\ blank(_cell(row, mapping, "title")) =>
            /\ after.segments = done.segments /\ after.used = done.used
            /\ \E line \in Loose : after.loose = Append(done.loose, line)
      /\ ~blank(_cell(row, mapping, "title")) => \E id \in Ids :
            /\ after.segments = Append(done.segments, entry(row, id))
            /\ after.loose = done.loose
            /\ _fold(id) \notin done.used /\ after.used = done.used \cup {_fold(id)}
  <2>1. after \in Partial /\ OneMore(after, done, row, sheet, mapping, vocabulary)
    BY RowIsBuilt
  <2> HIDE DEF row, after
  <2> QED BY <2>1 DEF OneMore
<1>3. done.segments \in Seq(Built) /\ done.loose \in Seq(Loose)
  BY DEF Partial
<1>4. /\ Len(done.segments) = Len(titled)
      /\ Len(done.segments) + Len(done.loose) = r - 1
      /\ \A a \in 1..Len(titled) : \E id \in Ids :
            done.segments[a] = entry(titled[a], id) /\ _fold(id) \in done.used
      /\ \A a, b \in 1..Len(titled) : a # b => _fold(idAt(done.segments, a)) # _fold(idAt(done.segments, b))
  BY DEF InStep
<1>5. row \in SheetRows /\ r \in Nat /\ r = (r - 1) + 1
  BY RowIs DEF IsSheet
<1>6. \A some, id : idAt(<<entry(some, id)>>, 1) = id /\ entry(some, id).segment.id = id
  BY EntryId
<1> HIDE DEF after, entry, row
<1>7. CASE blank(_cell(row, mapping, "title"))
  <2>1. PICK line \in Loose : after.loose = Append(done.loose, line)
    BY <1>2, <1>7
  <2>2. Len(after.loose) = Len(done.loose) + 1 /\ Len(done.loose) \in Nat /\ Len(done.segments) \in Nat
    BY <1>3, <2>1, AppendProperties
  <2>3. after.segments = done.segments /\ after.used = done.used
    BY <1>2, <1>7
  <2>4. Len(after.segments) + Len(after.loose) = r
    <3> DEFINE x == Len(done.segments)
               y == Len(done.loose)
    <3>1. x \in Nat /\ y \in Nat /\ x + y = r - 1 /\ Len(after.segments) = x /\ Len(after.loose) = y + 1
      BY <1>4, <2>2, <2>3
    <3> HIDE DEF x, y
    <3> QED BY <1>5, <3>1
  <2>5. InStep(after, titled, r, sheet, mapping, vocabulary)
    BY <1>4, <2>3, <2>4 DEF InStep, entry
  <2> QED BY <1>1, <1>7, <2>5 DEF row, after
<1>8. CASE ~blank(_cell(row, mapping, "title"))
  <2> DEFINE m == Len(titled)
             more == Append(titled, row)
             segments == after.segments
  <2>1. PICK id \in Ids :
            /\ segments = Append(done.segments, entry(row, id))
            /\ after.loose = done.loose
            /\ _fold(id) \notin done.used /\ after.used = done.used \cup {_fold(id)}
    BY <1>2, <1>8
  <2>2. /\ m \in Nat /\ Len(more) = m + 1 /\ more[m + 1] = row
        /\ \A a \in 1..m : more[a] = titled[a]
    BY <1>5, AppendProperties
  <2>3. segments \in Seq(Built) /\ Len(done.loose) \in Nat
    BY <1>2, <1>3 DEF Partial
  <2>4. /\ Len(segments) = m + 1 /\ segments[m + 1] = entry(row, id)
        /\ \A a \in 1..m : segments[a] = done.segments[a]
    BY <1>3, <1>4, <2>1
  <2> HIDE DEF segments, more
  <2>5. Len(segments) + Len(after.loose) = r
    <3> DEFINE y == Len(done.loose)
    <3>1. y \in Nat /\ m + y = r - 1 /\ Len(segments) = m + 1 /\ Len(after.loose) = y
      BY <1>4, <2>1, <2>3, <2>4
    <3> HIDE DEF y, m
    <3> QED BY <1>5, <2>2, <3>1
  <2>6. ASSUME NEW a \in 1..(m + 1)
        PROVE  \E one \in Ids : segments[a] = entry(more[a], one) /\ _fold(one) \in after.used
    <3>1. CASE a = m + 1
      BY <2>1, <2>2, <2>4, <3>1
    <3>2. CASE a # m + 1
      <4>1. a \in 1..m
        BY <2>2, <3>2
      <4>2. PICK one \in Ids : done.segments[a] = entry(titled[a], one) /\ _fold(one) \in done.used
        BY <1>4, <4>1
      <4> QED BY <2>1, <2>2, <2>4, <4>1, <4>2
    <3> QED BY <3>1, <3>2
  <2>7. ASSUME NEW a \in 1..m
        PROVE  _fold(idAt(segments, a)) \in done.used /\ idAt(segments, a) = idAt(done.segments, a)
    <3>1. PICK one \in Ids : done.segments[a] = entry(titled[a], one) /\ _fold(one) \in done.used
      BY <1>4, <2>7
    <3>2. idAt(done.segments, a) = one
      BY <1>6, <3>1
    <3> QED BY <2>4, <3>1, <3>2
  <2>8. idAt(segments, m + 1) = id
    BY <1>6, <2>4
  <2>9. ASSUME NEW a \in 1..(m + 1), NEW b \in 1..(m + 1), a # b
        PROVE  _fold(idAt(segments, a)) # _fold(idAt(segments, b))
    <3>1. CASE a = m + 1
      <4>1. b \in 1..m
        BY <2>2, <2>9, <3>1
      <4> QED BY <2>1, <2>7, <2>8, <3>1, <4>1
    <3>2. CASE b = m + 1
      <4>1. a \in 1..m
        BY <2>2, <2>9, <3>2
      <4> QED BY <2>1, <2>7, <2>8, <3>2, <4>1
    <3>3. CASE a # m + 1 /\ b # m + 1
      <4>1. a \in 1..m /\ b \in 1..m
        BY <2>2, <3>3
      <4> QED BY <1>4, <2>7, <2>9, <4>1
    <3> QED BY <3>1, <3>2, <3>3
  <2>10. InStep(after, more, r, sheet, mapping, vocabulary)
    BY <2>2, <2>4, <2>5, <2>6, <2>9 DEF InStep, entry, segments
  <2> QED BY <1>1, <1>8, <2>10 DEF row, after, more
<1> QED BY <1>7, <1>8

\* What build returns: the titled rows as segments, in order, under ids that the loader
\* tells apart, and the others as comments.
Imported(made, sheet, mapping, vocabulary) ==
    LET titled == selected(sheet.rows, titledRows(sheet, mapping)) IN
    /\ made \in Results
    /\ Len(made.segments) + Len(made.loose) = Len(sheet.rows)
    /\ Len(made.segments) = Len(titled)
    /\ \A a \in 1..Len(titled) : \E id \in Ids :
          made.segments[a] = entryOf(titled[a], id, sheet, mapping, vocabulary)
    /\ \A a, b \in 1..Len(titled) :
          a # b => _fold(made.segments[a].segment.id) # _fold(made.segments[b].segment.id)

LEMMA BuildImports ==
    ASSUME NEW sheet, IsSheet(sheet), NEW mapping, IsMapping(mapping, sheet),
           NEW vocabulary, IsVocabulary(vocabulary)
    PROVE  Imported(build(sheet, mapping, vocabulary), sheet, mapping, vocabulary)
<1> DEFINE rows_ == sheet.rows
           n == Len(rows_)
           X == titledRows(sheet, mapping)
           made == build(sheet, mapping, vocabulary)
<1>1. n \in Nat /\ rows_ \in Seq(SheetRows)
  BY DEF IsSheet
<1>2. PICK f \in [0..n -> Partial] : /\ Builds(f, sheet, mapping, vocabulary)
                                     /\ made = [segments |-> f[n].segments, loose |-> f[n].loose]
  BY BuildChain
<1>3. PICK g \in [0..n -> Seq(SheetRows)] : Selects(g, rows_, X) /\ selected(rows_, X) = g[n]
  <2> HIDE DEF rows_, X
  <2> QED BY <1>1, SelectedChain
<1>4. /\ f[0] = blankSheet
      /\ \A i \in 1..n : f[i] = rowBuilt(f[i - 1], rows_[i], sheet, mapping, vocabulary)
  BY <1>2 DEF Builds
<1>5. /\ g[0] = << >>
      /\ \A i \in 1..n : g[i] = IF rows_[i] \in X THEN Append(g[i - 1], rows_[i]) ELSE g[i - 1]
  BY <1>3 DEF Selects
<1> DEFINE P(i) == InStep(f[i], g[i], i, sheet, mapping, vocabulary)
           G == {i \in 0..n : P(i)}
<1>6. P(0)
  BY <1>4, <1>5 DEF InStep, blankSheet
<1>7. ASSUME NEW i \in 1..n, P(i - 1) PROVE P(i)
  <2>1. i - 1 \in 0..n /\ i \in 1..Len(sheet.rows)
    BY <1>1
  <2>2. f[i - 1] \in Partial /\ g[i - 1] \in Seq(SheetRows)
    BY <2>1
  <2> DEFINE done == f[i - 1]
             titled == g[i - 1]
  <2>3. InStep(done, titled, i - 1, sheet, mapping, vocabulary)
    BY <1>7
  <2> HIDE DEF done, titled
  <2>4. InStep(rowBuilt(done, sheet.rows[i], sheet, mapping, vocabulary),
               IF sheet.rows[i] \in titledRows(sheet, mapping) THEN Append(titled, sheet.rows[i]) ELSE titled,
               i, sheet, mapping, vocabulary)
    BY <2>1, <2>2, <2>3, StaysInStep DEF done, titled
  <2>5. f[i] = rowBuilt(done, sheet.rows[i], sheet, mapping, vocabulary)
    BY <1>4, <2>1 DEF done
  <2>6. g[i] = IF sheet.rows[i] \in titledRows(sheet, mapping) THEN Append(titled, sheet.rows[i]) ELSE titled
    BY <1>5, <2>1 DEF titled
  <2> QED BY <2>4, <2>5, <2>6
<1> HIDE DEF P
<1>8. P(n)
  <2>1. 0 \in G
    BY <1>1, <1>6
  <2>2. ASSUME NEW i \in 1..n, i - 1 \in G PROVE i \in G
    <3>1. i \in 0..n /\ P(i - 1)
      BY <1>1, <2>2
    <3> QED BY <1>7, <3>1
  <2> HIDE DEF G, n
  <2>3. 0..n \subseteq G
    BY <1>1, <2>1, <2>2, InductionUpTo
  <2>4. n \in G
    BY <1>1, <2>3
  <2> QED BY <2>4 DEF G
<1>9. f[n] \in Partial /\ g[n] \in Seq(SheetRows)
  BY <1>1
<1> DEFINE end == f[n]
           titled == g[n]
<1>10. InStep(end, titled, n, sheet, mapping, vocabulary)
  BY <1>8 DEF P
<1>11. made.segments = end.segments /\ made.loose = end.loose
  BY <1>2
<1>12. made \in Results
  <2>1. end.segments \in Seq(Built) /\ end.loose \in Seq(Loose)
    BY <1>9 DEF Partial
  <2>2. made = [segments |-> end.segments, loose |-> end.loose]
    BY <1>2
  <2> HIDE DEF made, end
  <2> QED BY <2>1, <2>2, ResultsAre
<1>13. selected(sheet.rows, titledRows(sheet, mapping)) = titled
  BY <1>3
<1> HIDE DEF made, end, titled
<1>14. Imported(made, sheet, mapping, vocabulary)
  <2>1. /\ Len(end.segments) = Len(titled)
        /\ Len(end.segments) + Len(end.loose) = n
        /\ \A a \in 1..Len(titled) : \E id \in Ids :
              end.segments[a] = entryOf(titled[a], id, sheet, mapping, vocabulary)
        /\ \A a, b \in 1..Len(titled) :
              a # b => _fold(end.segments[a].segment.id) # _fold(end.segments[b].segment.id)
    BY <1>10 DEF InStep
  <2> QED BY <1>11, <1>12, <1>13, <2>1 DEF Imported
<1> QED BY <1>14 DEF made

-----------------------------------------------------------------------------
(* The document                                                            *)

\* A finite set as a sequence has the elements of the set.
LEMMA ListedSet ==
    ASSUME NEW S, IsFiniteSet(S)
    PROVE  SetToSeq(S) \in Seq(S) /\ ToSet(SetToSeq(S)) = S
<1> DEFINE n == Cardinality(S)
           listed == SetToSeq(S)
<1>1. n \in Nat /\ ExistsBijection(1..n, S)
  BY FS_CardinalityType
<1>2. \E f \in [1..n -> S] : IsInjective(f)
  BY <1>1 DEF ExistsBijection, Bijection, Injection
<1>3. listed \in [1..n -> S] /\ IsInjective(listed)
  BY <1>2 DEF SetToSeq
<1> HIDE DEF listed, n
<1>4. listed \in Seq(S) /\ Len(listed) = n
  BY <1>1, <1>3
<1>5. ToSet(listed) \subseteq S /\ Cardinality(ToSet(listed)) = n
  BY <1>3, <1>4, ElementsOf, InjectiveLength
<1>6. ToSet(listed) = S
  BY <1>5, FS_Subset DEF n
<1> QED BY <1>4, <1>6 DEF listed

LEMMA KindsFinite == ASSUME NEW kinds, kinds \subseteq known_kinds PROVE IsFiniteSet(kinds)
<1> DEFINE n == Len(Patterns)
           f == [i \in 1..n |-> Patterns[i].kind]
<1>1. n \in Nat /\ DOMAIN Patterns = 1..n
  BY RunningOrderAssumption
<1>2. f \in Surjection(1..n, known_kinds)
  <2> HIDE DEF n
  <2> QED BY <1>1 DEF Surjection, known_kinds
<1>3. IsFiniteSet(1..n)
  BY <1>1, FS_Interval
<1> HIDE DEF f, n
<1> QED BY <1>2, <1>3, FS_Surjection, FS_Subset

\* The kinds of a segment, written down.
LEMMA KindsListed ==
    ASSUME NEW kinds, kinds \subseteq known_kinds
    PROVE  /\ SetToSeq(kinds) \in Seq(known_kinds) /\ ToSet(SetToSeq(kinds)) = kinds
           /\ \A i \in DOMAIN SetToSeq(kinds) : SetToSeq(kinds)[i] \in known_kinds
<1> DEFINE listed == SetToSeq(kinds)
<1>1. listed \in Seq(kinds) /\ ToSet(listed) = kinds
  BY KindsFinite, ListedSet
<1> HIDE DEF listed
<1>2. Len(listed) \in Nat /\ DOMAIN listed = 1..Len(listed) /\ \A i \in 1..Len(listed) : listed[i] \in known_kinds
  BY <1>1
<1>3. listed \in Seq(known_kinds)
  BY <1>1, <1>2
<1> QED BY <1>1, <1>2, <1>3 DEF listed

\* A segment of the document that is written.
writtenSegment(s, scene_) ==
    [id |-> s.id, expects |-> SetToSeq(s.expects), cues |-> << >>, time |-> None, proposed |-> proposal(s, scene_)]

LEMMA SegmentsAre ==
    ASSUME NEW made \in Results
    PROVE  /\ Len(made.segments) \in Nat /\ DOMAIN made.segments = 1..Len(made.segments)
           /\ \A i \in 1..Len(made.segments) :
                 made.segments[i].segment \in Expected /\ made.segments[i].segment.expects \subseteq known_kinds
<1>1. made.segments \in Seq(Built)
  BY ResultsAre
<1> DEFINE segments == made.segments
<1> HIDE DEF segments
<1>2. Len(segments) \in Nat /\ DOMAIN segments = 1..Len(segments)
      /\ \A i \in 1..Len(segments) : segments[i] \in Built
  BY <1>1 DEF segments
<1>3. \A i \in 1..Len(segments) : segments[i].segment \in Expected /\ segments[i].segment.expects \subseteq known_kinds
  BY <1>2 DEF Built, Expected
<1> QED BY <1>2, <1>3 DEF segments

\* The document that is written, segment by segment.
IsWritten(doc, show, made, scene_) ==
    /\ doc.show = show
    /\ doc.segments = [i \in 1..Len(made.segments) |-> writtenSegment(made.segments[i].segment, scene_)]

LEMMA RenderIs ==
    ASSUME NEW show, NEW made \in Results, NEW scene_
    PROVE  IsWritten(render(show, made, scene_), show, made, scene_)
<1>1. DOMAIN made.segments = 1..Len(made.segments)
  BY SegmentsAre
<1> QED BY <1>1 DEF render, writtenSegment, IsWritten

\* A segment as it is written is read without a repair, with the expectations it had.
LEMMA WrittenReads ==
    ASSUME NEW s \in Expected, NEW scene_
    PROVE  LET written == writtenSegment(s, scene_) IN
           /\ readableSegment(written) /\ anomaliesOf(written) = {}
           /\ parseSegment(written).expects = written.expects
           /\ ToSet(written.expects) = s.expects
           /\ written.id = s.id
<1> DEFINE written == writtenSegment(s, scene_)
<1>1. s.expects \subseteq known_kinds
  BY DEF Expected
<1>2. /\ written.expects \in Seq(known_kinds) /\ ToSet(written.expects) = s.expects
      /\ \A i \in DOMAIN written.expects : written.expects[i] \in known_kinds
  BY <1>1, KindsListed DEF writtenSegment
<1>3. written.cues = << >> /\ written.time = None /\ written.id = s.id /\ DOMAIN written.cues = {}
  BY DEF writtenSegment
<1> HIDE DEF written
<1>4. readableSegment(written)
  <2>1. written.expects # Scalar
    BY <1>2, ContextAssumption
  <2>2. distinct([i \in DOMAIN written.cues |-> written.cues[i].id])
    BY <1>3 DEF distinct
  <2> QED BY <1>2, <1>3, <2>1, <2>2 DEF readableSegment, resolvable_token
<1>5. anomaliesOf(written) = {}
  <2>1. {i \in DOMAIN written.expects : repaired(written.expects[i], known_kinds)} = {}
    BY <1>2 DEF repaired
  <2>2. /\ {i \in DOMAIN written.cues : repaired(written.cues[i].action, KNOWN_ACTIONS)} = {}
        /\ {i \in DOMAIN written.cues : written.cues[i].time = Unreadable} = {}
    BY <1>3
  <2>3. written.time # Unreadable
    BY <1>3, ContextAssumption
  <2> QED BY <2>1, <2>2, <2>3 DEF anomaliesOf
<1>6. parseSegment(written).expects = written.expects
  <2> DEFINE kinds == written.expects
  <2>1. parseSegment(written).expects = [i \in DOMAIN kinds |-> resolve(kinds[i], known_kinds)]
    BY DEF parseSegment
  <2>2. \A i \in DOMAIN kinds : resolve(kinds[i], known_kinds) = kinds[i]
    BY <1>2 DEF resolve
  <2>3. kinds = [i \in DOMAIN kinds |-> kinds[i]]
    BY <1>2
  <2> HIDE DEF kinds
  <2>4. [i \in DOMAIN kinds |-> resolve(kinds[i], known_kinds)] = [i \in DOMAIN kinds |-> kinds[i]]
    BY <2>2
  <2> QED BY <2>1, <2>3, <2>4 DEF kinds
<1> QED BY <1>2, <1>3, <1>4, <1>5, <1>6 DEF written

\* An import whose ids the loader tells apart.
IsMade(made) ==
    /\ made \in Results
    /\ \A a, b \in 1..Len(made.segments) :
          a # b => _fold(made.segments[a].segment.id) # _fold(made.segments[b].segment.id)

\* A document that is read as the import it was made of, no id refused and no kind repaired.
ReadsAs(doc, show, made) ==
    LET read == parse_show_context(doc) IN
    /\ loadable(doc) /\ anomalies(doc) = {} /\ doc.show = show
    /\ Len(read) = Len(made.segments) /\ DOMAIN read = 1..Len(made.segments)
    /\ \A i \in 1..Len(made.segments) : ToSet(read[i].expects) = made.segments[i].segment.expects

\* What is written of an import is read: no id refused, no kind repaired, every segment
\* with its expectations.
LEMMA RenderLoads ==
    ASSUME NEW show, NEW made, IsMade(made), NEW scene_
    PROVE  ReadsAs(render(show, made, scene_), show, made)
<1> DEFINE doc == render(show, made, scene_)
           n == Len(made.segments)
           seg(i) == made.segments[i].segment
           read == parse_show_context(doc)
<1>1. /\ doc.show = show /\ doc.segments = [i \in 1..n |-> writtenSegment(seg(i), scene_)]
      /\ n \in Nat /\ \A i \in 1..n : seg(i) \in Expected
  <2>1. made \in Results
    BY DEF IsMade
  <2>2. IsWritten(doc, show, made, scene_)
    BY <2>1, RenderIs
  <2> HIDE DEF doc
  <2>3. doc.show = show /\ doc.segments = [i \in 1..n |-> writtenSegment(seg(i), scene_)]
    BY <2>2 DEF IsWritten
  <2>4. n \in Nat /\ \A i \in 1..n : seg(i) \in Expected
    BY <2>1, SegmentsAre
  <2> QED BY <2>3, <2>4
<1> HIDE DEF doc, n, seg
<1>2. DOMAIN doc.segments = 1..n /\ \A i \in 1..n : doc.segments[i] = writtenSegment(seg(i), scene_)
  BY <1>1
<1>3. \A i \in 1..n : /\ readableSegment(doc.segments[i]) /\ anomaliesOf(doc.segments[i]) = {}
                      /\ ToSet(parseSegment(doc.segments[i]).expects) = seg(i).expects
                      /\ doc.segments[i].id = seg(i).id
  BY <1>1, <1>2, WrittenReads
<1>4. loadable(doc)
  <2> DEFINE ids == [i \in DOMAIN doc.segments |-> lower(doc.segments[i].id)]
  <2>1. \A i \in 1..n : ids[i] = _fold(seg(i).id)
    BY <1>2, <1>3 DEF lower, _fold
  <2>2. \A a, b \in 1..n : a # b => ids[a] # ids[b]
    <3>1. \A a, b \in 1..n : a # b => _fold(seg(a).id) # _fold(seg(b).id)
      BY DEF IsMade, n, seg
    <3> HIDE DEF ids
    <3> QED BY <2>1, <3>1
  <2>3. distinct(ids)
    BY <1>2, <2>2 DEF distinct
  <2> QED BY <1>2, <1>3, <2>3 DEF loadable
<1>5. anomalies(doc) = {}
  BY <1>2, <1>3 DEF anomalies
<1>6. read = [i \in 1..n |-> parseSegment(doc.segments[i])]
  BY <1>2 DEF parse_show_context
<1>7. Len(read) = n /\ DOMAIN read = 1..n /\ \A i \in 1..n : read[i] = parseSegment(doc.segments[i])
  <2> DEFINE T == {parseSegment(doc.segments[i]) : i \in 1..n}
  <2>1. read \in [1..n -> T]
    BY <1>6
  <2> HIDE DEF T, read
  <2>2. Len(read) = n /\ DOMAIN read = 1..n
    BY <1>1, <2>1
  <2> QED BY <1>6, <2>2
<1> HIDE DEF read
<1>8. \A i \in 1..n : ToSet(read[i].expects) = seg(i).expects
  BY <1>3, <1>7
<1>9. ReadsAs(doc, show, made)
  BY <1>1, <1>4, <1>5, <1>7, <1>8 DEF ReadsAs, n, seg, read
<1> QED BY <1>9 DEF doc

\* The table of a scene shows, segment by segment, what the document proposes, and what it
\* calls missing are the kinds the scene has no channel for.
LEMMA TableIsJoined ==
    ASSUME NEW show, NEW made, IsMade(made), NEW scene_, scene_ # None
    PROVE  TableJoins(tableOf(made, scene_), render(show, made, scene_), scene_)
<1> DEFINE doc == render(show, made, scene_)
           shown == tableOf(made, scene_)
           n == Len(made.segments)
           seg(i) == made.segments[i].segment
           read == parse_show_context(doc)
           unmet == {k \in DOMAIN build_expectations(read) : is_unmet(scene_, k)}
<1>1. /\ doc.segments = [i \in 1..n |-> writtenSegment(seg(i), scene_)]
      /\ n \in Nat /\ DOMAIN made.segments = 1..n
  <2>1. made \in Results
    BY DEF IsMade
  <2>2. IsWritten(doc, show, made, scene_)
    BY <2>1, RenderIs
  <2> HIDE DEF doc
  <2> QED BY <2>1, <2>2, SegmentsAre DEF IsWritten
<1>2. DOMAIN read = 1..n /\ \A i \in 1..n : ToSet(read[i].expects) = seg(i).expects
  <2>1. ReadsAs(doc, show, made)
    BY RenderLoads
  <2> HIDE DEF doc
  <2> QED BY <2>1 DEF ReadsAs
<1>3. shown = [i \in 1..n |-> [found |-> UNION {channels_of(scene_, k) : k \in seg(i).expects},
                               missing |-> missingKinds(seg(i), scene_)]]
  BY <1>1 DEF tableOf
<1>4. \A i \in 1..n : shown[i].found = proposal(seg(i), scene_) /\ shown[i].missing = missingKinds(seg(i), scene_)
  BY <1>3 DEF proposal
<1>5. \A i \in 1..n : doc.segments[i].proposed = proposal(seg(i), scene_)
  BY <1>1 DEF writtenSegment
<1>6. DOMAIN shown = 1..n /\ DOMAIN doc.segments = 1..n
  BY <1>1, <1>3
<1>7. DOMAIN build_expectations(read) = UNION {ToSet(read[i].expects) : i \in DOMAIN read}
  BY DEF build_expectations
<1> HIDE DEF doc, shown, read, n, seg
<1>8. UNION {shown[i].missing : i \in DOMAIN shown} = unmet
  <2>1. ASSUME NEW i \in 1..n, NEW k \in shown[i].missing PROVE k \in unmet
    <3>1. k \in seg(i).expects /\ channels_of(scene_, k) = {}
      BY <1>4, <2>1 DEF missingKinds
    <3>2. k \in DOMAIN build_expectations(read)
      BY <1>2, <1>7, <3>1
    <3> QED BY <3>1, <3>2 DEF is_unmet
  <2>2. ASSUME NEW k \in unmet PROVE \E i \in 1..n : k \in shown[i].missing
    <3>1. PICK i \in 1..n : k \in seg(i).expects
      BY <1>2, <1>7
    <3>2. channels_of(scene_, k) = {}
      BY DEF is_unmet
    <3> QED BY <1>4, <3>1, <3>2 DEF missingKinds
  <2> HIDE DEF unmet
  <2> QED BY <1>6, <2>1, <2>2
<1> QED BY <1>4, <1>5, <1>6, <1>8 DEF TableJoins, doc, shown, read, unmet

-----------------------------------------------------------------------------
(* Repairs                                                                 *)

\* What a token is repaired to is a word, which needs no repair.
LEMMA ResolvesToWord ==
    ASSUME NEW token, NEW vocabulary, resolvable_token(token, vocabulary)
    PROVE  /\ resolve(token, vocabulary) \in vocabulary
           /\ resolve(resolve(token, vocabulary), vocabulary) = resolve(token, vocabulary)
<1>1. CASE token \in vocabulary
  BY <1>1 DEF resolve
<1>2. CASE token \notin vocabulary
  <2>1. near(token, vocabulary) # {}
    <3>1. Cardinality(near(token, vocabulary)) = 1
      BY <1>2 DEF resolvable_token
    <3> QED BY <3>1, FS_EmptySet
  <2>2. near(token, vocabulary) \subseteq vocabulary
    BY DEF near
  <2>3. resolve(token, vocabulary) = CHOOSE w \in near(token, vocabulary) : TRUE
    BY <1>2 DEF resolve
  <2>4. resolve(token, vocabulary) \in vocabulary
    BY <2>1, <2>2, <2>3
  <2> QED BY <2>4 DEF resolve
<1> QED BY <1>1, <1>2

readCue(c) == [c EXCEPT !.action = resolve(c.action, KNOWN_ACTIONS), !.time = readTime(c.time)]

CueFields == {"id", "action", "channels", "time"}

\* A repaired cue reads as it did.
LEMMA CueFixed ==
    ASSUME NEW c, CueFields \subseteq DOMAIN c, resolvable_token(c.action, KNOWN_ACTIONS)
    PROVE  /\ DOMAIN repairedCue(c) = DOMAIN c
           /\ repairedCue(c).id = c.id /\ repairedCue(c).time = c.time /\ repairedCue(c).channels = c.channels
           /\ repairedCue(c).action \in KNOWN_ACTIONS
           /\ readCue(repairedCue(c)) = readCue(c)
<1> DEFINE word == resolve(c.action, KNOWN_ACTIONS)
           d == repairedCue(c)
<1>1. word \in KNOWN_ACTIONS /\ resolve(word, KNOWN_ACTIONS) = word
  BY ResolvesToWord
<1>2. repairedAction(c.action) = word
  <2>1. c.action = << >> => c.action \in KNOWN_ACTIONS
    <3> SUFFICES ASSUME c.action = << >>, c.action \notin KNOWN_ACTIONS PROVE FALSE
      OBVIOUS
    <3>1. Len(c.action) < MIN_REPAIR_LENGTH
      BY DEF MIN_REPAIR_LENGTH
    <3>2. near(c.action, KNOWN_ACTIONS) = {}
      BY <3>1 DEF near
    <3>3. Cardinality(near(c.action, KNOWN_ACTIONS)) = 0
      BY <3>2, FS_EmptySet
    <3> QED BY <3>3 DEF resolvable_token
  <2>2. c.action \in KNOWN_ACTIONS => word = c.action
    BY DEF resolve
  <2> QED BY <2>1, <2>2 DEF repairedAction
<1>3. d = [c EXCEPT !.action = word]
  BY <1>2 DEF repairedCue
<1> HIDE DEF word, d
<1>4. /\ DOMAIN d = DOMAIN c /\ d.action = word
      /\ d.id = c.id /\ d.time = c.time /\ d.channels = c.channels
  BY <1>3 DEF CueFields
<1>5. readCue(d) = [d EXCEPT !.action = word, !.time = readTime(c.time)]
  BY <1>1, <1>4 DEF readCue
<1>6. readCue(c) = [c EXCEPT !.action = word, !.time = readTime(c.time)]
  BY DEF readCue, word
<1>7. [d EXCEPT !.action = word, !.time = readTime(c.time)] = [c EXCEPT !.action = word, !.time = readTime(c.time)]
  <2> DEFINE t == readTime(c.time)
  <2> HIDE DEF t
  <2> QED BY <1>3
<1> QED BY <1>1, <1>4, <1>5, <1>6, <1>7 DEF d

SegmentFields == {"id", "expects", "cues", "time"}

\* A segment with the fields the loader looks for.
HasFields(s) ==
    /\ SegmentFields \subseteq DOMAIN s
    /\ s.expects # Scalar => Len(s.expects) \in Nat /\ DOMAIN s.expects = 1..Len(s.expects)
    /\ \A k \in DOMAIN s.cues : CueFields \subseteq DOMAIN s.cues[k]

LEMMA WellFormedIs ==
    ASSUME NEW doc
    PROVE  wellFormed(doc) <=> "segments" \in DOMAIN doc /\ \A i \in DOMAIN doc.segments : HasFields(doc.segments[i])
BY Zenon DEF wellFormed, HasFields, SegmentFields, CueFields

LEMMA RepairsAre ==
    ASSUME NEW doc, wellFormed(doc)
    PROVE  /\ apply_repairs(doc).segments = [i \in DOMAIN doc.segments |-> repairedSegment(doc.segments[i])]
           /\ DOMAIN apply_repairs(doc) = DOMAIN doc
<1> DEFINE fixed == [i \in DOMAIN doc.segments |-> repairedSegment(doc.segments[i])]
<1>1. apply_repairs(doc) = [doc EXCEPT !.segments = fixed]
  BY DEF apply_repairs
<1>2. "segments" \in DOMAIN doc
  BY WellFormedIs
<1> HIDE DEF fixed
<1>3. apply_repairs(doc).segments = fixed /\ DOMAIN apply_repairs(doc) = DOMAIN doc
  BY <1>1, <1>2
<1> QED BY <1>3 DEF fixed

\* The fields of a repaired segment.
LEMMA FixedFields ==
    ASSUME NEW s, SegmentFields \subseteq DOMAIN s
    PROVE  LET after == repairedSegment(s) IN
           /\ DOMAIN after = DOMAIN s /\ after.id = s.id /\ after.time = s.time
           /\ after.expects = [k \in DOMAIN s.expects |-> resolve(s.expects[k], known_kinds)]
           /\ after.cues = [k \in DOMAIN s.cues |-> repairedCue(s.cues[k])]
<1> DEFINE kinds == [k \in DOMAIN s.expects |-> resolve(s.expects[k], known_kinds)]
           cues == [k \in DOMAIN s.cues |-> repairedCue(s.cues[k])]
           after == repairedSegment(s)
<1>1. after = [s EXCEPT !.expects = kinds, !.cues = cues]
  BY DEF repairedSegment
<1> HIDE DEF kinds, cues, after
<1>2. /\ DOMAIN after = DOMAIN s /\ after.id = s.id /\ after.time = s.time
      /\ after.expects = kinds /\ after.cues = cues
  BY <1>1 DEF SegmentFields
<1> QED BY <1>2 DEF kinds, cues, after

\* A repair leaves the fields where they are, whatever is wrong with the document.
LEMMA RepairsWellFormed ==
    ASSUME NEW doc, wellFormed(doc), repairable(doc)
    PROVE  wellFormed(apply_repairs(doc))
<1> DEFINE after == apply_repairs(doc)
<1>1. /\ after.segments = [i \in DOMAIN doc.segments |-> repairedSegment(doc.segments[i])]
      /\ DOMAIN after = DOMAIN doc
  BY RepairsAre
<1>2. "segments" \in DOMAIN doc /\ \A i \in DOMAIN doc.segments : HasFields(doc.segments[i])
  BY WellFormedIs
<1> HIDE DEF after
<1>3. ASSUME NEW i \in DOMAIN doc.segments PROVE HasFields(repairedSegment(doc.segments[i]))
  <2> DEFINE s == doc.segments[i]
             new == repairedSegment(s)
             kinds == new.expects
  <2>1. HasFields(s) /\ s.expects # Scalar
    BY <1>2 DEF repairable
  <2>6. SegmentFields \subseteq DOMAIN s
    BY <2>1 DEF HasFields
  <2> HIDE DEF s
  <2>2. /\ DOMAIN new = DOMAIN s
        /\ kinds = [k \in DOMAIN s.expects |-> resolve(s.expects[k], known_kinds)]
        /\ new.cues = [k \in DOMAIN s.cues |-> repairedCue(s.cues[k])]
    BY <2>6, FixedFields
  <2> HIDE DEF new, kinds
  <2>3. Len(kinds) \in Nat /\ DOMAIN kinds = 1..Len(kinds)
    <3> DEFINE n == Len(s.expects)
               T == {resolve(s.expects[k], known_kinds) : k \in 1..n}
    <3>1. n \in Nat /\ DOMAIN s.expects = 1..n
      BY <2>1 DEF HasFields
    <3> HIDE DEF n
    <3>2. kinds \in [1..n -> T]
      BY <2>2, <3>1
    <3> HIDE DEF T
    <3> QED BY <3>1, <3>2
  <2>4. \A k \in DOMAIN new.cues : CueFields \subseteq DOMAIN new.cues[k]
    <3> TAKE k \in DOMAIN new.cues
    <3>1. k \in DOMAIN s.cues /\ new.cues[k] = repairedCue(s.cues[k])
      BY <2>2
    <3>2. DOMAIN repairedCue(s.cues[k]) = DOMAIN s.cues[k]
      BY DEF repairedCue
    <3> QED BY <2>1, <3>1, <3>2 DEF HasFields
  <2>5. HasFields(new)
    BY <2>2, <2>3, <2>4, <2>6 DEF HasFields, kinds
  <2> QED BY <2>5 DEF new, s
<1>4. wellFormed(after)
  BY <1>1, <1>2, <1>3, WellFormedIs
<1> QED BY <1>4 DEF after

\* A segment that is read is read the same when it is repaired, with the anomalies left
\* that no repair is for.
LEMMA SegmentFixed ==
    ASSUME NEW s, HasFields(s), readableSegment(s)
    PROVE  /\ readableSegment(repairedSegment(s))
           /\ parseSegment(repairedSegment(s)) = parseSegment(s)
           /\ anomaliesOf(repairedSegment(s)) = {a \in anomaliesOf(s) : ~a.fixable}
           /\ repairedSegment(s).id = s.id
<1> DEFINE new == repairedSegment(s)
           kinds == s.expects
           cues == s.cues
<1>1. /\ SegmentFields \subseteq DOMAIN s
      /\ Len(kinds) \in Nat /\ DOMAIN kinds = 1..Len(kinds)
      /\ \A k \in DOMAIN cues : CueFields \subseteq DOMAIN cues[k]
  BY DEF HasFields, readableSegment
<1>2. /\ new.id = s.id /\ new.time = s.time
      /\ new.expects = [k \in DOMAIN kinds |-> resolve(kinds[k], known_kinds)]
      /\ new.cues = [k \in DOMAIN cues |-> repairedCue(cues[k])]
  BY <1>1, FixedFields
<1>3. /\ \A k \in DOMAIN kinds : resolvable_token(kinds[k], known_kinds)
      /\ distinct([k \in DOMAIN cues |-> cues[k].id])
      /\ \A k \in DOMAIN cues : resolvable_token(cues[k].action, KNOWN_ACTIONS) /\ cues[k].channels # Scalar
  BY DEF readableSegment, readableCue
<1> HIDE DEF new, kinds, cues
<1>4. /\ DOMAIN new.expects = DOMAIN kinds
      /\ \A k \in DOMAIN kinds : /\ new.expects[k] \in known_kinds
                                 /\ resolve(new.expects[k], known_kinds) = resolve(kinds[k], known_kinds)
  BY <1>2, <1>3, ResolvesToWord
<1>5. /\ DOMAIN new.cues = DOMAIN cues
      /\ \A k \in DOMAIN cues : /\ new.cues[k].id = cues[k].id /\ new.cues[k].time = cues[k].time
                                /\ new.cues[k].channels = cues[k].channels
                                /\ new.cues[k].action \in KNOWN_ACTIONS
                                /\ readCue(new.cues[k]) = readCue(cues[k])
  BY <1>1, <1>2, <1>3, CueFixed
<1>6. readableSegment(new)
  <2>1. new.expects # Scalar
    <3> DEFINE n == Len(kinds)
    <3> HIDE DEF n
    <3>1. new.expects \in [1..n -> known_kinds]
      BY <1>1, <1>2, <1>4 DEF n
    <3>2. new.expects \in Seq(known_kinds)
      BY <1>1, <3>1 DEF n
    <3> QED BY <3>2, ContextAssumption
  <2>2. [k \in DOMAIN new.cues |-> new.cues[k].id] = [k \in DOMAIN cues |-> cues[k].id]
    BY <1>5
  <2>3. \A k \in DOMAIN new.cues : readableCue(new.cues[k])
    BY <1>3, <1>5 DEF readableCue, resolvable_token
  <2>4. \A k \in DOMAIN new.expects : resolvable_token(new.expects[k], known_kinds)
    BY <1>4 DEF resolvable_token
  <2>5. distinct([k \in DOMAIN new.cues |-> new.cues[k].id])
    BY <1>3, <2>2
  <2> QED BY <2>1, <2>3, <2>4, <2>5 DEF readableSegment
<1>7. parseSegment(new) = parseSegment(s)
  <2> DEFINE read(z) == [id |-> z.id, time |-> readTime(z.time),
                         expects |-> [i \in DOMAIN z.expects |-> resolve(z.expects[i], known_kinds)],
                         cues |-> [i \in DOMAIN z.cues |-> readCue(z.cues[i])]]
  <2>1. \A z : parseSegment(z) = read(z)
    BY DEF parseSegment, readCue
  <2>2. [i \in DOMAIN new.expects |-> resolve(new.expects[i], known_kinds)]
            = [i \in DOMAIN kinds |-> resolve(kinds[i], known_kinds)]
    BY <1>4
  <2>3. [i \in DOMAIN new.cues |-> readCue(new.cues[i])] = [i \in DOMAIN cues |-> readCue(cues[i])]
    BY <1>5
  <2>4. read(new) = read(s)
    BY <1>2, <2>2, <2>3 DEF kinds, cues
  <2> QED BY <2>1, <2>4
<1>8. anomaliesOf(new) = {a \in anomaliesOf(s) : ~a.fixable}
  <2> DEFINE timed(k) == [at |-> <<"time", k>>, fixable |-> FALSE]
             late == {k \in DOMAIN cues : cues[k].time = Unreadable}
             own == IF s.time = Unreadable THEN {timed(0)} ELSE {}
             mistyped == {[at |-> <<"expects", i>>, fixable |-> TRUE] :
                            i \in {i \in DOMAIN kinds : repaired(kinds[i], known_kinds)}}
                         \cup {[at |-> <<"action", i>>, fixable |-> TRUE] :
                            i \in {i \in DOMAIN cues : repaired(cues[i].action, KNOWN_ACTIONS)}}
             times == {timed(k) : k \in late} \cup own
  <2>1. anomaliesOf(s) = mistyped \cup times
    BY DEF anomaliesOf, kinds, cues
  <2>2. /\ {i \in DOMAIN new.expects : repaired(new.expects[i], known_kinds)} = {}
        /\ {i \in DOMAIN new.cues : repaired(new.cues[i].action, KNOWN_ACTIONS)} = {}
        /\ {i \in DOMAIN new.cues : new.cues[i].time = Unreadable} = late
    BY <1>4, <1>5 DEF repaired
  <2>3. anomaliesOf(new) = times
    BY <1>2, <2>2 DEF anomaliesOf
  <2>4. (\A a \in mistyped : a.fixable) /\ (\A a \in times : ~a.fixable)
    OBVIOUS
  <2> HIDE DEF mistyped, times
  <2> QED BY <2>1, <2>3, <2>4
<1> QED BY <1>2, <1>6, <1>7, <1>8 DEF new

\* A repaired document reads as it did, with the anomalies left that no repair is for.
LEMMA DocumentFixed ==
    ASSUME NEW doc, wellFormed(doc), loadable(doc)
    PROVE  LET after == apply_repairs(doc) IN
           /\ loadable(after)
           /\ parse_show_context(after) = parse_show_context(doc)
           /\ anomalies(after) = {a \in anomalies(doc) : ~a.fixable}
<1> DEFINE after == apply_repairs(doc)
           old == doc.segments
           new == after.segments
           told(s) == {[segment |-> s.id, at |-> a.at, fixable |-> a.fixable] : a \in anomaliesOf(s)}
<1>1. new = [i \in DOMAIN old |-> repairedSegment(old[i])]
  BY RepairsAre
<1>2. \A i \in DOMAIN old : HasFields(old[i]) /\ readableSegment(old[i])
  BY WellFormedIs DEF loadable
<1> HIDE DEF after, old
<1>3. /\ DOMAIN new = DOMAIN old
      /\ \A i \in DOMAIN old : /\ readableSegment(new[i])
                               /\ parseSegment(new[i]) = parseSegment(old[i])
                               /\ anomaliesOf(new[i]) = {a \in anomaliesOf(old[i]) : ~a.fixable}
                               /\ new[i].id = old[i].id
  BY <1>1, <1>2, SegmentFixed
<1>4. loadable(after)
  <2>1. [i \in DOMAIN new |-> lower(new[i].id)] = [i \in DOMAIN old |-> lower(old[i].id)]
    BY <1>3
  <2>2. distinct([i \in DOMAIN old |-> lower(old[i].id)])
    BY DEF loadable, old
  <2> QED BY <1>3, <2>1, <2>2 DEF loadable
<1>5. parse_show_context(after) = parse_show_context(doc)
  <2>1. [i \in DOMAIN new |-> parseSegment(new[i])] = [i \in DOMAIN old |-> parseSegment(old[i])]
    BY <1>3
  <2> QED BY <2>1 DEF parse_show_context, old
<1>6. anomalies(after) = {a \in anomalies(doc) : ~a.fixable}
  <2> DEFINE left == {a \in anomalies(doc) : ~a.fixable}
  <2>1. anomalies(after) = UNION {told(new[i]) : i \in DOMAIN new}
    BY DEF anomalies
  <2>2. anomalies(doc) = UNION {told(old[i]) : i \in DOMAIN old}
    BY DEF anomalies, old
  <2>3. \A i \in DOMAIN old : told(new[i]) = {a \in told(old[i]) : ~a.fixable}
    <3> TAKE i \in DOMAIN old
    <3> DEFINE A == anomaliesOf(old[i])
               say(a) == [segment |-> old[i].id, at |-> a.at, fixable |-> a.fixable]
    <3>1. told(new[i]) = {say(a) : a \in {a \in A : ~a.fixable}}
      BY <1>3
    <3>2. told(old[i]) = {say(a) : a \in A}
      OBVIOUS
    <3>3. \A a : say(a).fixable = a.fixable
      OBVIOUS
    <3> HIDE DEF A, say, told
    <3> QED BY <3>1, <3>2, <3>3
  <2> HIDE DEF told
  <2>4. ASSUME NEW a \in anomalies(after) PROVE a \in left
    <3>1. PICK i \in DOMAIN old : a \in told(new[i])
      BY <1>3, <2>1
    <3> QED BY <2>2, <2>3, <3>1
  <2>5. ASSUME NEW a \in left PROVE a \in anomalies(after)
    <3>1. PICK i \in DOMAIN old : a \in told(old[i])
      BY <2>2
    <3>2. a \in told(new[i])
      BY <2>3, <3>1
    <3> QED BY <1>3, <2>1, <3>2
  <2> HIDE DEF left
  <2>6. anomalies(after) = left
    BY <2>4, <2>5
  <2> QED BY <2>6 DEF left
<1> QED BY <1>4, <1>5, <1>6 DEF after

-----------------------------------------------------------------------------
(* Where the page stands                                                   *)

LEMMA SheetsAre == ASSUME NEW path \in Workbooks PROVE IsSheet(sheetOf[path])
BY ImportAssumption DEF IsSheet, SheetRows

\* A mapping that resolves points into the sheet.
LEMMA ColumnsResolved ==
    ASSUME NEW sheet, IsSheet(sheet), NEW map, resolvable(map, sheet)
    PROVE  IsMapping(resolve_columns(map, sheet), sheet)
<1> DEFINE n == Len(sheet.headers)
           holding == headed(sheet) \cup
             UNION {{c \in DOMAIN sheet.rows[r].cells : ~blank(sheet.rows[r].cells[c])} : r \in DOMAIN sheet.rows}
<1>1. n \in Nat /\ DOMAIN sheet.headers = 1..n
      /\ \A r \in DOMAIN sheet.rows : DOMAIN sheet.rows[r].cells = 1..n
  BY DEF IsSheet
<1>2. headed(sheet) \subseteq 1..n
  BY <1>1 DEF headed
<1>3. holding \subseteq 1..n
  BY <1>1, <1>2
<1>4. last_column(sheet) = IF holding = {} THEN 0 ELSE CHOOSE c \in holding : \A d \in holding : d <= c
  BY DEF last_column
<1> HIDE DEF holding, n
<1>5. last_column(sheet) \in 0..n
  <2>1. CASE holding = {}
    BY <1>1, <1>4, <2>1
  <2>2. CASE holding # {}
    <3>1. holding \subseteq 0..n
      BY <1>1, <1>3
    <3>2. \E c \in holding : \A d \in holding : d <= c
      BY <1>1, <2>2, <3>1, GreatestNat
    <3>3. last_column(sheet) \in holding
      BY <1>4, <2>2, <3>2
    <3> QED BY <3>1, <3>3
  <2> QED BY <2>1, <2>2
<1>6. 1..last_column(sheet) \subseteq 1..n
  BY <1>1, <1>5
<1>7. \A f \in DOMAIN map.columns : map.columns[f] \in 1..n
  BY <1>2, <1>6 DEF resolvable
<1>8. \A f \in DOMAIN map.headers : (CHOOSE c \in reading(sheet, map.headers[f]) : TRUE) \in 1..n
  <2> TAKE f \in DOMAIN map.headers
  <2> DEFINE R == reading(sheet, map.headers[f])
  <2>1. Cardinality(R) = 1
    BY DEF resolvable
  <2>2. R # {}
    BY <2>1, FS_EmptySet
  <2>3. R \subseteq 1..n
    BY <1>2 DEF reading
  <2> HIDE DEF R
  <2>4. (CHOOSE c \in R : TRUE) \in 1..n
    BY <2>2, <2>3
  <2> QED BY <2>4 DEF R
<1>9. /\ DOMAIN resolve_columns(map, sheet) = DOMAIN map.columns \cup DOMAIN map.headers
      /\ \A f \in DOMAIN resolve_columns(map, sheet) : resolve_columns(map, sheet)[f] \in 1..n
  BY <1>7, <1>8 DEF resolve_columns
<1>10. DOMAIN map.columns \cup DOMAIN map.headers \subseteq FIELDS
  BY DEF resolvable
<1> QED BY <1>1, <1>9, <1>10 DEF IsMapping

LEMMA ImportedIsMade ==
    ASSUME NEW sheet, IsSheet(sheet), NEW mapping, IsMapping(mapping, sheet),
           NEW vocabulary, IsVocabulary(vocabulary)
    PROVE  IsMade(build(sheet, mapping, vocabulary))
<1> DEFINE made == build(sheet, mapping, vocabulary)
<1>1. Imported(made, sheet, mapping, vocabulary)
  BY BuildImports
<1> HIDE DEF made
<1>2. IsMade(made)
  BY <1>1 DEF Imported, IsMade
<1> QED BY <1>2 DEF made

\* The titled rows are rows of the sheet.
LEMMA TitledAre ==
    ASSUME NEW sheet, IsSheet(sheet), NEW mapping, NEW titled,
           titled = selected(sheet.rows, titledRows(sheet, mapping))
    PROVE  /\ titled \in Seq(SheetRows)
           /\ \A a \in 1..Len(titled) : \E r \in 1..Len(sheet.rows) : sheet.rows[r] = titled[a]
<1> DEFINE given == sheet.rows
           X == titledRows(sheet, mapping)
<1>1. given \in Seq(SheetRows)
  BY DEF IsSheet
<1> HIDE DEF X
<1>2. /\ selected(given, X) \in Seq(SheetRows)
      /\ \A a \in 1..Len(selected(given, X)) : \E r \in 1..Len(given) : given[r] = selected(given, X)[a]
  <2> HIDE DEF given
  <2> QED BY <1>1, SelectedRange
<1> QED BY <1>2 DEF X

\* The fragments an import leaves unread are the ones nobody understands.
LEMMA UnreadAre ==
    ASSUME NEW sheet, IsSheet(sheet), NEW mapping, IsMapping(mapping, sheet),
           NEW vocabulary, NEW made, Imported(made, sheet, mapping, vocabulary),
           NEW a \in DOMAIN made.segments, NEW f \in made.segments[a].comments.unread
    PROVE  f \in Texts /\ ~resolves(f, vocabulary)
<1> DEFINE titled == selected(sheet.rows, titledRows(sheet, mapping))
<1>1. /\ titled \in Seq(SheetRows)
      /\ \A b \in 1..Len(titled) : \E r \in 1..Len(sheet.rows) : sheet.rows[r] = titled[b]
  BY TitledAre
<1>2. /\ made \in Results /\ Len(made.segments) = Len(titled)
      /\ \A b \in 1..Len(titled) : \E id \in Ids :
            made.segments[b] = entryOf(titled[b], id, sheet, mapping, vocabulary)
  BY DEF Imported
<1> HIDE DEF titled
<1>3. a \in 1..Len(titled)
  BY <1>2, SegmentsAre
<1>4. PICK r \in 1..Len(sheet.rows) : sheet.rows[r] = titled[a]
  BY <1>1, <1>3
<1> DEFINE cell == _cell(sheet.rows[r], mapping, "performers")
<1>5. made.segments[a].comments.unread = unread(cell, vocabulary)
  <2>1. PICK id \in Ids : made.segments[a] = entryOf(titled[a], id, sheet, mapping, vocabulary)
    BY <1>2, <1>3
  <2> QED BY <1>4, <2>1 DEF entryOf, comments
<1>6. cell \in Cells
  BY CellIs
<1> HIDE DEF cell
<1>7. PICK i \in DOMAIN cell : f = cell[i] /\ ~resolves(cell[i], vocabulary)
  BY <1>5 DEF unread
<1> QED BY <1>6, <1>7, FragmentsAre

\* What is read back from an import's comments is a text, and one nobody understands unless it
\* is misread.
LEMMA ReadBackAre ==
    ASSUME NEW sheet, IsSheet(sheet), NEW mapping, IsMapping(mapping, sheet),
           NEW vocabulary, NEW made, Imported(made, sheet, mapping, vocabulary),
           NEW f \in unresolved_terms(made)
    PROVE  f \in Texts /\ (f \in misread(made) \/ ~resolves(f, vocabulary))
<1> DEFINE c(a) == made.segments[a].comments
<1>1. PICK a \in DOMAIN made.segments : f \in ({readBack(g) : g \in c(a).unread} \ {None}) \cup namedIn(c(a))
  BY DEF unresolved_terms
<1>2. CASE f \in namedIn(c(a))
  <2>1. f \in misread(made)
    BY <1>2 DEF misread
  <2>2. f \in Texts
    BY <1>2, RunningOrderAssumption DEF namedIn, Texts
  <2> QED BY <2>1, <2>2
<1>3. CASE f \notin namedIn(c(a))
  <2>1. PICK g \in c(a).unread : f = readBack(g) /\ f # None
    BY <1>1, <1>3
  <2>2. g \in Texts /\ ~resolves(g, vocabulary)
    BY UnreadAre
  <2>3. f \in Texts
    BY <2>1, <2>2, RunningOrderAssumption DEF readBack, Texts
  <2>4. readBack(g) # g => f \in misread(made)
    BY <2>1 DEF misread
  <2> QED BY <2>1, <2>2, <2>3, <2>4
<1> QED BY <1>2, <1>3

-----------------------------------------------------------------------------
(* The inductive invariant                                                 *)

RowStates == [state : {"pending", "recorded", "resolved", "skipped"}, by : SUBSET Texts]

\* A workbook is picked on the first step only, and every later step has one.
PlaceInv ==
    /\ step \in 0..4
    /\ call # None /\ call.kind = "pick" => step = 0 /\ call.path \in Workbooks
    /\ step >= 1 => xlsx \in Workbooks

\* From the Terms step on there is a mapping into that sheet, and an import of it.
ImportInv ==
    /\ IsVocabulary(terms)
    /\ step >= 2 => IsMapping(fields, sheetOf[xlsx]) /\ IsMade(result)

\* A row that is done is owed to sure patterns or to terms that still speak of it, but for
\* those that were taken away.
Owed(row, f, vocabulary, gone) ==
    /\ row \in RowStates
    /\ row.state \in {"recorded", "resolved"} =>
          /\ row.by = {} => is_confident(classify(f))
          /\ \A k \in row.by \ gone : Speaks(k, f, vocabulary)

RowsInv ==
    /\ DOMAIN rows \subseteq Texts
    /\ \A f \in DOMAIN rows : Owed(rows[f], f, terms, undone)

\* From the Scene step on such a row is not in the import's comments, unless they are misread.
ReviewedInv ==
    step >= 3 => \A f \in DOMAIN rows :
        rows[f].state \in {"recorded", "resolved"} /\ rows[f].by \cap undone = {}
        => (f \in unresolved_terms(result) => f \in misread(result))

\* The preview is the import as it is, and what is saved is the preview.
PreviewInv ==
    /\ step = 4 => preview = render(xlsx, result, chosen)
    /\ saved # None => step = 4 /\ saved = preview

\* The dialog's file is torn, or has the fields the loader looks for.
LintInv ==
    lint # None =>
        /\ DOMAIN lint = {"file", "bak", "edited", "listed", "enabled"}
        /\ lint.file = Torn \/ wellFormed(lint.file)

IInv == PlaceInv /\ ImportInv /\ RowsInv /\ ReviewedInv /\ PreviewInv /\ LintInv

-----------------------------------------------------------------------------
(* Changes of the vocabulary                                               *)

\* Of a vocabulary every entry is kept but the ones taken away.
Keeps(before, after, gone) ==
    \A k \in DOMAIN before \ gone : k \in DOMAIN after /\ after[k] = before[k]

LEMMA KeysAre == ASSUME NEW text \in Texts PROVE keysOf(text) \subseteq Texts
<1>1. fold(text) \in Texts /\ Len(fold(text)) = Len(text) /\ Len(text) \in Nat
  BY FoldIs DEF Texts
<1> DEFINE folded_ == fold(text)
<1> HIDE DEF folded_
<1>2. ASSUME NEW i \in 1..Len(text), NEW j \in 1..Len(text) PROVE SubSeq(folded_, i, j) \in Texts
  <2>1. folded_ \in Seq(Words) /\ i \in 1..Len(folded_) /\ j \in 1..Len(folded_)
    BY <1>1 DEF folded_, Texts
  <2>2. SubSeq(folded_, i, j) \in Seq(Words)
    BY <2>1, SubSeqProperties
  <2> QED BY <2>2 DEF Texts
<1>3. ASSUME NEW key \in keysOf(text) PROVE key \in Texts
  <2>1. PICK i \in 1..Len(text), j \in 1..Len(text) : key = SubSeq(folded_, i, j)
    BY DEF keysOf, folded_
  <2> QED BY <1>2, <2>1
<1> QED BY <1>3

LEMMA PutIs ==
    ASSUME NEW before, IsVocabulary(before), NEW key \in Texts, NEW entry \in Entries
    PROVE  IsVocabulary(put(before, key, entry)) /\ Keeps(before, put(before, key, entry), {key} \cap DOMAIN before)
<1> DEFINE after == put(before, key, entry)
<1>1. after = [k \in DOMAIN before \cup {key} |-> IF k = key THEN entry ELSE before[k]]
  BY DEF put
<1>2. DOMAIN before \subseteq Texts /\ \A k \in DOMAIN before : before[k] \in Entries
  BY DEF IsVocabulary
<1> HIDE DEF after
<1>3. DOMAIN after = DOMAIN before \cup {key} /\ \A k \in DOMAIN after : after[k] \in Entries
  BY <1>1, <1>2
<1>4. after \in [DOMAIN after -> Entries]
  BY <1>1, <1>3
<1>5. Keeps(before, after, {key} \cap DOMAIN before)
  BY <1>1, <1>3 DEF Keeps
<1>6. IsVocabulary(after)
  BY <1>2, <1>3, <1>4 DEF IsVocabulary
<1> QED BY <1>5, <1>6 DEF after

\* What happens to the file elsewhere keeps it a vocabulary, and every entry it does not
\* take away.
LEMMA EmptiedIs == ASSUME NEW entry \in Entries PROVE emptied(entry) \in Entries
<1> DEFINE fewer == [entry EXCEPT !.kinds = {}]
<1>1. fewer \in Entries
  BY DEF Entries
<1>2. emptied(entry) = [fewer EXCEPT !.ignore = FALSE]
  BY DEF emptied
<1> HIDE DEF fewer
<1> QED BY <1>1, <1>2 DEF Entries

LEMMA ChangedAre ==
    ASSUME IsVocabulary(terms), DOMAIN rows \subseteq Texts, NEW c \in changedTerms
    PROVE  IsVocabulary(c.terms) /\ Keeps(terms, c.terms, c.undone)
<1>1. DOMAIN terms \subseteq Texts /\ terms \in [DOMAIN terms -> Entries]
  BY DEF IsVocabulary
<1> DEFINE unknown == (UNION {keysOf(f) : f \in DOMAIN rows}) \ DOMAIN terms
           less(k) == Restrict(terms, DOMAIN terms \ {k})
           bare(k) == put(terms, k, emptied(terms[k]))
<1>2. \/ c \in {[undone |-> {}, terms |-> put(terms, k, e)] : k \in unknown, e \in Elsewhere}
      \/ c \in {[undone |-> {k}, terms |-> less(k)] : k \in DOMAIN terms}
      \/ c \in {[undone |-> {k}, terms |-> bare(k)] : k \in DOMAIN terms}
  BY DEF changedTerms
<1>3. CASE c \in {[undone |-> {}, terms |-> put(terms, k, e)] : k \in unknown, e \in Elsewhere}
  <2>1. PICK k \in unknown, e \in Elsewhere : c = [undone |-> {}, terms |-> put(terms, k, e)]
    BY <1>3
  <2>2. PICK f \in DOMAIN rows : k \in keysOf(f)
    OBVIOUS
  <2>3. k \in Texts /\ e \in Entries
    BY <2>2, KeysAre, ImportAssumption
  <2>4. c.terms = put(terms, k, e) /\ c.undone = {k} \cap DOMAIN terms
    BY <2>1
  <2> HIDE DEF unknown
  <2> QED BY <2>3, <2>4, PutIs
<1> HIDE DEF less, bare
<1>4. CASE c \in {[undone |-> {k}, terms |-> less(k)] : k \in DOMAIN terms}
  <2>1. PICK k \in DOMAIN terms : c = [undone |-> {k}, terms |-> less(k)]
    BY <1>4
  <2>2. c.undone = {k} /\ c.terms = [x \in DOMAIN terms \ {k} |-> terms[x]]
    BY <2>1 DEF less, Restrict
  <2>3. DOMAIN c.terms \subseteq Texts /\ c.terms \in [DOMAIN c.terms -> Entries]
    BY <1>1, <2>2
  <2>4. Keeps(terms, c.terms, c.undone)
    BY <2>2 DEF Keeps
  <2> QED BY <2>3, <2>4 DEF IsVocabulary
<1>5. CASE c \in {[undone |-> {k}, terms |-> bare(k)] : k \in DOMAIN terms}
  <2>1. PICK k \in DOMAIN terms : c = [undone |-> {k}, terms |-> bare(k)]
    BY <1>5
  <2>2. c.terms = bare(k) /\ c.undone = {k} \cap DOMAIN terms
    BY <2>1
  <2>3. k \in Texts /\ emptied(terms[k]) \in Entries
    BY <1>1, EmptiedIs
  <2> QED BY <2>2, <2>3, PutIs DEF bare
<1> QED BY <1>2, <1>3, <1>4, <1>5

\* Keys that are there and not taken away speak as they did.
LEMMA StillOwed ==
    ASSUME NEW f, NEW by, NEW gone, NEW before, NEW after,
           Keeps(before, after, gone), \A k \in by : Speaks(k, f, before)
    PROVE  \A k \in by \ gone : Speaks(k, f, after)
BY DEF Keeps, Speaks

-----------------------------------------------------------------------------
(* The invariant is kept                                                   *)

LEMMA InitIInv == Init => IInv
<1> SUFFICES ASSUME Init PROVE IInv
  OBVIOUS
<1>1. PlaceInv
  BY DEF Init, PlaceInv
<1>2. ImportInv
  BY ImportAssumption DEF Init, ImportInv, IsVocabulary, Texts
<1>3. DOMAIN rows = {}
  BY DEF Init, Nothing
<1>4. RowsInv /\ ReviewedInv
  BY <1>3 DEF RowsInv, ReviewedInv
<1>5. PreviewInv /\ LintInv
  BY DEF Init, PreviewInv, LintInv
<1> QED BY <1>1, <1>2, <1>4, <1>5 DEF IInv

LEMMA KeepsPlace ==
    ASSUME PlaceInv, [Next]_vars
    PROVE  PlaceInv'
<1> USE DEF PlaceInv, pick
<1>1. CASE PickFile
  BY <1>1 DEF PickFile
<1>2. CASE ProposalArrives
  BY <1>2 DEF ProposalArrives
<1>3. CASE CallEnds \/ TryAi \/ Back \/ EditGrid
  BY <1>3 DEF CallEnds, TryAi, Back, EditGrid
<1>4. CASE Next_
  BY <1>4 DEF Next_
<1>5. CASE Record \/ Skip \/ OpenVocabulary \/ TermsChange
  BY <1>5 DEF Record, Skip, OpenVocabulary, TermsChange
<1>6. CASE Preview
  BY <1>6 DEF Preview
<1>7. CASE ChooseSource \/ OpenSceneFile \/ WindowOpens \/ Pull
  BY <1>7 DEF ChooseSource, OpenSceneFile, WindowOpens, Pull
<1>8. CASE Continue \/ SkipScene
  BY <1>8 DEF Continue, SkipScene, finish_scene
<1>9. CASE Save \/ OpenLint \/ EditFile \/ Fix \/ CloseLint
  BY <1>9 DEF Save, OpenLint, EditFile, Fix, CloseLint
<1>10. CASE UNCHANGED vars
  BY <1>10 DEF vars
<1> QED BY <1>1, <1>2, <1>3, <1>4, <1>5, <1>6, <1>7, <1>8, <1>9, <1>10 DEF Next

LEMMA KeepsImport ==
    ASSUME PlaceInv, ImportInv, RowsInv, [Next]_vars
    PROVE  ImportInv'
<1> USE DEF ImportInv
<1>p. step \in Int /\ (step >= 1 => xlsx \in Workbooks) /\ (call # None /\ call.kind = "pick" => step = 0)
  BY DEF PlaceInv
<1>1. CASE PickFile \/ CallEnds \/ TryAi \/ Back \/ EditGrid
  BY <1>p, <1>1 DEF PickFile, CallEnds, TryAi, Back, EditGrid, teach, build_
<1>2. CASE ProposalArrives
  BY <1>p, <1>2 DEF ProposalArrives, teach, build_
<1>3. CASE Next_
  <2>1. IsSheet(sheetOf[xlsx])
    BY <1>p, <1>3, SheetsAre DEF Next_
  <2>2. IsMapping(fields', sheetOf[xlsx])
    BY <1>3, <2>1, ColumnsResolved DEF Next_
  <2>3. IsMade(result')
    BY <1>3, <2>1, <2>2, ImportedIsMade DEF Next_
  <2> QED BY <1>3, <2>2, <2>3 DEF Next_
<1>4. CASE Record
  <2>1. PICK f \in DOMAIN rows : \E key \in keysOf(f), entry \in Taught : taught(f, key, entry)
    BY <1>4 DEF Record
  <2>2. PICK key \in keysOf(f), entry \in Taught : taught(f, key, entry)
    BY <2>1
  <2>3. IsVocabulary(terms')
    <3>1. key \in Texts /\ entry \in Entries
      BY KeysAre, ImportAssumption DEF RowsInv
    <3> QED BY <2>2, <3>1, PutIs DEF taught
  <2> QED BY <1>4, <2>3 DEF Record, pick, build_
<1>5. CASE OpenVocabulary \/ TermsChange
  <2>1. PICK c \in changedTerms : terms' = c.terms
    BY <1>5 DEF OpenVocabulary, TermsChange
  <2>2. IsVocabulary(terms')
    BY <2>1, ChangedAre DEF RowsInv
  <2> QED BY <1>5, <2>2 DEF OpenVocabulary, TermsChange, pick, build_
<1>6. CASE Skip
  BY <1>6 DEF Skip, pick, build_
<1>7. CASE Preview
  <2>1. step = 2 /\ IsSheet(sheetOf[xlsx]) /\ IsMapping(fields, sheetOf[xlsx])
    BY <1>p, <1>7, SheetsAre DEF Preview
  <2>2. IsMade(result')
    BY <1>7, <2>1, ImportedIsMade DEF Preview, refresh_result
  <2> QED BY <1>7, <2>1, <2>2 DEF Preview, teach
<1>8. CASE ChooseSource \/ OpenSceneFile \/ WindowOpens \/ Pull
  BY <1>8 DEF ChooseSource, OpenSceneFile, WindowOpens, Pull, pick, teach, build_
<1>9. CASE Continue \/ SkipScene
  BY <1>9 DEF Continue, SkipScene, finish_scene, teach, build_
<1>10. CASE Save \/ OpenLint \/ EditFile \/ Fix \/ CloseLint
  BY <1>10 DEF Save, OpenLint, EditFile, Fix, CloseLint, pick, teach, build_
<1>11. CASE UNCHANGED vars
  BY <1>11 DEF vars, pick, teach, build_
<1> QED BY <1>1, <1>2, <1>3, <1>4, <1>5, <1>6, <1>7, <1>8, <1>9, <1>10, <1>11 DEF Next

\* A row is owed to what it was, whatever was taken away.
LEMMA OwedStill ==
    ASSUME NEW row, NEW f, NEW before, NEW after, NEW gone, NEW more,
           Owed(row, f, before, gone), Keeps(before, after, more)
    PROVE  Owed(row, f, after, gone \cup more)
BY DEF Owed, Keeps, Speaks

\* What a fragment comes to is owed to the terms it names.
LEMMA OwedNow ==
    ASSUME NEW f \in Texts, NEW vocabulary, IsVocabulary(vocabulary), resolves(f, vocabulary),
           NEW state \in {"recorded", "resolved"}, NEW gone
    PROVE  Owed([state |-> state, by |-> resolve_fragment(f, vocabulary).by], f, vocabulary, gone)
<1> DEFINE by == resolve_fragment(f, vocabulary).by
<1>1. /\ by = {} => is_confident(classify(f))
      /\ \A k \in by : Speaks(k, f, vocabulary)
  BY FragmentResolved
<1>2. by \subseteq Texts
  BY <1>1 DEF Speaks, IsVocabulary
<1> HIDE DEF by
<1> QED BY <1>1, <1>2 DEF Owed, RowStates, by

\* The sweep over the rows keeps them owed.
LEMMA SweptOwed ==
    ASSUME RowsInv, NEW after, IsVocabulary(after), NEW more, Keeps(terms, after, more)
    PROVE  /\ DOMAIN reresolved(rows, after) = DOMAIN rows
           /\ \A f \in DOMAIN rows : Owed(reresolved(rows, after)[f], f, after, undone \cup more)
<1>1. DOMAIN reresolved(rows, after) = DOMAIN rows
  BY DEF reresolved
<1>2. ASSUME NEW f \in DOMAIN rows PROVE Owed(reresolved(rows, after)[f], f, after, undone \cup more)
  <2>1. f \in Texts /\ Owed(rows[f], f, terms, undone)
    BY DEF RowsInv
  <2>2. CASE rows[f].state = "pending" /\ resolves(f, after)
    <3>1. reresolved(rows, after)[f] = [state |-> "resolved", by |-> resolve_fragment(f, after).by]
      BY <2>2 DEF reresolved
    <3> QED BY <2>1, <2>2, <3>1, OwedNow
  <2>3. CASE ~(rows[f].state = "pending" /\ resolves(f, after))
    <3>1. reresolved(rows, after)[f] = rows[f]
      BY <2>3 DEF reresolved
    <3> QED BY <2>1, <3>1, OwedStill
  <2> QED BY <2>2, <2>3
<1> QED BY <1>1, <1>2

LEMMA KeepsRows ==
    ASSUME PlaceInv, ImportInv, RowsInv, [Next]_vars
    PROVE  RowsInv'
<1>i. /\ IsVocabulary(terms)
      /\ DOMAIN rows \subseteq Texts /\ \A f \in DOMAIN rows : Owed(rows[f], f, terms, undone)
  BY DEF ImportInv, RowsInv
<1>v. IsVocabulary(terms)'
  BY KeepsImport DEF ImportInv
<1>1. CASE PickFile \/ ProposalArrives \/ CallEnds \/ TryAi \/ Back \/ EditGrid
  BY <1>1, <1>i DEF RowsInv, PickFile, ProposalArrives, CallEnds, TryAi, Back, EditGrid, teach
<1>2. CASE Next_
  <2> DEFINE sheet == sheetOf[xlsx]
             left == unresolved_terms(result')
  <2>1. IsSheet(sheet)
    BY <1>2, SheetsAre DEF Next_, PlaceInv
  <2>2. IsMapping(fields', sheet)
    BY <1>2, <2>1, ColumnsResolved DEF Next_
  <2>3. Imported(result', sheet, fields', terms)
    BY <1>2, <1>i, <2>1, <2>2, BuildImports DEF Next_
  <2> HIDE DEF sheet
  <2>4. \A f \in left : f \in Texts
    BY <2>1, <2>2, <2>3, ReadBackAre
  <2>5. rows' = pendingRows(left)
    BY <1>2 DEF Next_
  <2> HIDE DEF left
  <2>6. DOMAIN rows' = left /\ \A f \in left : rows'[f] = [state |-> "pending", by |-> {}]
    BY <2>5 DEF pendingRows
  <2>7. \A f \in left : Owed(rows'[f], f, terms', undone')
    BY <2>6 DEF Owed, RowStates
  <2> QED BY <2>4, <2>6, <2>7 DEF RowsInv
<1>3. CASE Record
  <2>1. PICK f \in DOMAIN rows : \E key \in keysOf(f), entry \in Taught : taught(f, key, entry)
    BY <1>3 DEF Record
  <2>2. PICK key \in keysOf(f), entry \in Taught : taught(f, key, entry)
    BY <2>1
  <2> DEFINE more == {key} \cap DOMAIN terms
             swept == reresolved(rows, terms')
             mine == IF resolves(f, terms') THEN [state |-> "recorded", by |-> resolve_fragment(f, terms').by]
                     ELSE rows[f]
  <2>3. Keeps(terms, terms', more)
    <3>1. key \in Texts /\ entry \in Entries
      BY <1>i, KeysAre, ImportAssumption
    <3> QED BY <1>i, <2>2, <3>1, PutIs DEF taught
  <2>4. undone' = undone \cup more /\ rows' = [swept EXCEPT ![f] = mine]
    BY <2>2 DEF taught
  <2> HIDE DEF more
  <2>5. /\ DOMAIN swept = DOMAIN rows
        /\ \A g \in DOMAIN rows : Owed(swept[g], g, terms', undone')
    BY <1>v, <2>3, <2>4, SweptOwed
  <2>6. Owed(mine, f, terms', undone')
    <3>1. CASE resolves(f, terms')
      BY <1>i, <1>v, <3>1, OwedNow
    <3>2. CASE ~resolves(f, terms')
      BY <1>i, <2>3, <2>4, <3>2, OwedStill
    <3> QED BY <3>1, <3>2
  <2> HIDE DEF swept, mine
  <2>7. DOMAIN rows' = DOMAIN rows /\ \A g \in DOMAIN rows : rows'[g] = IF g = f THEN mine ELSE swept[g]
    BY <2>4, <2>5
  <2> QED BY <1>i, <2>5, <2>6, <2>7 DEF RowsInv
<1>4. CASE Skip
  <2>1. PICK f \in DOMAIN rows : rows' = [rows EXCEPT ![f].state = "skipped"]
    BY <1>4 DEF Skip
  <2> DEFINE mine == [rows[f] EXCEPT !.state = "skipped"]
  <2>2. Owed(mine, f, terms, undone)
    <3>1. rows[f] \in RowStates
      BY <1>i DEF Owed
    <3>2. mine \in RowStates /\ mine.state = "skipped"
      BY <3>1 DEF RowStates
    <3> QED BY <3>2 DEF Owed
  <2> HIDE DEF mine
  <2>3. DOMAIN rows' = DOMAIN rows /\ \A g \in DOMAIN rows : rows'[g] = IF g = f THEN mine ELSE rows[g]
    BY <2>1 DEF mine
  <2>4. terms' = terms /\ undone' = undone
    BY <1>4 DEF Skip
  <2> QED BY <1>i, <2>2, <2>3, <2>4 DEF RowsInv
<1>5. CASE OpenVocabulary
  <2>1. PICK c \in changedTerms : terms' = c.terms /\ undone' = undone \cup c.undone
    BY <1>5 DEF OpenVocabulary
  <2>2. Keeps(terms, terms', c.undone)
    BY <1>i, <2>1, ChangedAre
  <2>3. rows' = reresolved(rows, terms')
    BY <1>5 DEF OpenVocabulary
  <2>4. DOMAIN rows' = DOMAIN rows /\ \A f \in DOMAIN rows : Owed(rows'[f], f, terms', undone')
    BY <1>v, <2>1, <2>2, <2>3, SweptOwed
  <2> QED BY <1>i, <2>4 DEF RowsInv
<1>6. CASE TermsChange
  <2>1. PICK c \in changedTerms : terms' = c.terms /\ undone' = undone \cup c.undone
    BY <1>6 DEF TermsChange
  <2>2. Keeps(terms, terms', c.undone)
    BY <1>i, <2>1, ChangedAre
  <2>3. rows' = rows
    BY <1>6 DEF TermsChange
  <2>4. \A f \in DOMAIN rows : Owed(rows[f], f, terms', undone')
    BY <1>i, <2>1, <2>2, OwedStill
  <2> QED BY <1>i, <2>3, <2>4 DEF RowsInv
<1>7. CASE Preview \/ ChooseSource \/ OpenSceneFile \/ WindowOpens \/ Pull \/ Continue \/ SkipScene
  BY <1>7, <1>i DEF RowsInv, Preview, ChooseSource, OpenSceneFile, WindowOpens, Pull, Continue, SkipScene, teach
<1>8. CASE Save \/ OpenLint \/ EditFile \/ Fix \/ CloseLint
  BY <1>8, <1>i DEF RowsInv, Save, OpenLint, EditFile, Fix, CloseLint, teach
<1>9. CASE UNCHANGED vars
  BY <1>9, <1>i DEF RowsInv, vars, teach
<1> QED BY <1>1, <1>2, <1>3, <1>4, <1>5, <1>6, <1>7, <1>8, <1>9 DEF Next

\* A row that is done, and of which nothing was taken away, is understood.
LEMMA OwedResolves ==
    ASSUME NEW f \in Texts, NEW vocabulary, IsVocabulary(vocabulary), NEW row, NEW gone,
           Owed(row, f, vocabulary, gone), row.state \in {"recorded", "resolved"}, row.by \cap gone = {}
    PROVE  resolves(f, vocabulary)
<1>1. CASE row.by = {}
  <2>1. is_confident(classify(f))
    BY <1>1 DEF Owed
  <2> QED BY <2>1, FragmentResolved
<1>2. CASE row.by # {}
  <2>1. PICK k \in row.by : TRUE
    BY <1>2
  <2>2. Speaks(k, f, vocabulary)
    BY <2>1 DEF Owed
  <2>3. k \in DOMAIN vocabulary
    BY <2>2 DEF Speaks
  <2> QED BY <2>2, <2>3, FragmentResolved
<1> QED BY <1>1, <1>2

\* What the Preview step builds is Imported, with the terms there are now.
LEMMA PreviewImports ==
    ASSUME PlaceInv, ImportInv, Preview
    PROVE  /\ IsSheet(sheetOf[xlsx]) /\ IsMapping(fields, sheetOf[xlsx])
           /\ Imported(result', sheetOf[xlsx], fields, terms)
<1>1. step = 2 /\ xlsx \in Workbooks /\ IsVocabulary(terms) /\ IsMapping(fields, sheetOf[xlsx])
  BY DEF Preview, PlaceInv, ImportInv
<1>2. IsSheet(sheetOf[xlsx])
  BY <1>1, SheetsAre
<1>3. result' = build(sheetOf[xlsx], fields, terms)
  BY DEF Preview, refresh_result
<1> QED BY <1>1, <1>2, <1>3, BuildImports

LEMMA KeepsReviewed ==
    ASSUME PlaceInv, ImportInv, RowsInv, ReviewedInv, [Next]_vars
    PROVE  ReviewedInv'
<1> USE DEF ReviewedInv
<1>p. step \in Int /\ (call # None /\ call.kind = "pick" => step = 0)
  BY DEF PlaceInv
<1>1. CASE Preview
  <2> DEFINE sheet == sheetOf[xlsx]
  <2>1. IsSheet(sheet) /\ IsMapping(fields, sheet) /\ Imported(result', sheet, fields, terms)
    BY <1>1, PreviewImports
  <2>2. rows' = rows /\ undone' = undone
    BY <1>1 DEF Preview, teach
  <2>3. ASSUME NEW f \in DOMAIN rows, rows[f].state \in {"recorded", "resolved"}, rows[f].by \cap undone = {}
        PROVE  f \in unresolved_terms(result') => f \in misread(result')
    <3>1. f \in Texts /\ Owed(rows[f], f, terms, undone) /\ IsVocabulary(terms)
      BY DEF RowsInv, ImportInv
    <3>2. resolves(f, terms)
      BY <2>3, <3>1, OwedResolves
    <3> HIDE DEF sheet
    <3> QED BY <2>1, <3>2, ReadBackAre
  <2> QED BY <2>2, <2>3
<1>2. CASE PickFile \/ CallEnds \/ TryAi \/ Back \/ EditGrid \/ Next_
  BY <1>2 DEF PickFile, CallEnds, TryAi, Back, EditGrid, Next_, teach, build_
<1>3. CASE ProposalArrives
  BY <1>p, <1>3 DEF ProposalArrives
<1>4. CASE Record \/ Skip \/ OpenVocabulary
  BY <1>4 DEF Record, Skip, OpenVocabulary, pick
<1>5. CASE TermsChange
  <2>1. rows' = rows /\ result' = result /\ step' = step /\ undone \subseteq undone'
    BY <1>5 DEF TermsChange, pick, build_
  <2>2. \A f \in DOMAIN rows : rows[f].by \cap undone' = {} => rows[f].by \cap undone = {}
    BY <2>1
  <2> QED BY <2>1, <2>2
<1>6. CASE ChooseSource \/ OpenSceneFile \/ WindowOpens \/ Pull
  BY <1>6 DEF ChooseSource, OpenSceneFile, WindowOpens, Pull, pick, teach, build_
<1>7. CASE Continue \/ SkipScene
  <2>1. step = 3 /\ rows' = rows /\ result' = result /\ undone' = undone
    BY <1>7 DEF Continue, SkipScene, teach, build_
  <2> QED BY <2>1
<1>8. CASE Save \/ OpenLint \/ EditFile \/ Fix \/ CloseLint
  BY <1>8 DEF Save, OpenLint, EditFile, Fix, CloseLint, pick, teach, build_
<1>9. CASE UNCHANGED vars
  BY <1>9 DEF vars, pick, teach, build_
<1> QED BY <1>1, <1>2, <1>3, <1>4, <1>5, <1>6, <1>7, <1>8, <1>9 DEF Next

LEMMA KeepsPreview ==
    ASSUME PlaceInv, PreviewInv, [Next]_vars
    PROVE  PreviewInv'
<1> USE DEF PreviewInv
<1>p. step \in Int /\ (call # None /\ call.kind = "pick" => step = 0)
  BY DEF PlaceInv
<1>1. CASE Continue \/ SkipScene
  BY <1>1 DEF Continue, SkipScene, finish_scene, build_
<1>2. CASE Save
  BY <1>2 DEF Save, pick, build_, scene
<1>3. CASE PickFile \/ CallEnds \/ TryAi \/ Back \/ EditGrid
  BY <1>3 DEF PickFile, CallEnds, TryAi, Back, EditGrid, build_, scene, out
<1>4. CASE ProposalArrives
  BY <1>p, <1>4 DEF ProposalArrives, build_, scene, out
<1>5. CASE Next_
  BY <1>5 DEF Next_, out
<1>6. CASE Record \/ Skip \/ OpenVocabulary \/ TermsChange
  BY <1>6 DEF Record, Skip, OpenVocabulary, TermsChange, pick, build_, scene, out
<1>7. CASE Preview \/ ChooseSource \/ OpenSceneFile \/ WindowOpens \/ Pull
  BY <1>7 DEF Preview, ChooseSource, OpenSceneFile, WindowOpens, Pull, pick, out
<1>8. CASE OpenLint \/ EditFile \/ Fix \/ CloseLint
  BY <1>8 DEF OpenLint, EditFile, Fix, CloseLint, pick, build_, scene, out
<1>9. CASE UNCHANGED vars
  BY <1>9 DEF vars, pick, build_, scene, out
<1> QED BY <1>1, <1>2, <1>3, <1>4, <1>5, <1>6, <1>7, <1>8, <1>9 DEF Next

LEMMA KeepsLint ==
    ASSUME LintInv, [Next]_vars
    PROVE  LintInv'
<1> USE DEF LintInv
<1>1. CASE OpenLint
  <2>1. PICK d \in Documents : lint' = [file |-> d, bak |-> None, edited |-> FALSE,
                                        listed |-> linted(d).listed, enabled |-> linted(d).enabled]
    BY <1>1 DEF OpenLint
  <2>2. d = Torn \/ wellFormed(d)
    BY ImportAssumption
  <2> QED BY <2>1, <2>2
<1>2. CASE EditFile
  <2>1. PICK d \in Documents : lint # None /\ lint' = [lint EXCEPT !.file = d, !.edited = TRUE]
    BY <1>2 DEF EditFile
  <2>2. d = Torn \/ wellFormed(d)
    BY ImportAssumption
  <2> QED BY <2>1, <2>2
<1>3. CASE Fix
  <2> DEFINE file == lint.file
             after == apply_repairs(file)
  <2>1. lint # None /\ (file = Torn \/ wellFormed(file))
    BY <1>3 DEF Fix
  <2>2. \/ lint' = [lint EXCEPT !.bak = file]
        \/ lint' = [lint EXCEPT !.bak = file, !.listed = linted(file).listed, !.enabled = linted(file).enabled]
        \/ lint' = [lint EXCEPT !.bak = file, !.file = Torn]
        \/ /\ file # Torn /\ repairable(file)
           /\ lint' = [lint EXCEPT !.bak = file, !.file = after,
                                   !.listed = linted(after).listed, !.enabled = linted(after).enabled]
    BY <1>3 DEF Fix, backedUp
  <2>3. file # Torn /\ repairable(file) => wellFormed(after)
    BY <2>1, RepairsWellFormed
  <2> HIDE DEF after
  <2> QED BY <2>1, <2>2, <2>3
<1>4. CASE CloseLint
  BY <1>4 DEF CloseLint
<1>5. CASE PickFile \/ ProposalArrives \/ CallEnds \/ TryAi \/ Back \/ EditGrid \/ Next_
  BY <1>5 DEF PickFile, ProposalArrives, CallEnds, TryAi, Back, EditGrid, Next_
<1>6. CASE Record \/ Skip \/ OpenVocabulary \/ TermsChange
  BY <1>6 DEF Record, Skip, OpenVocabulary, TermsChange
<1>7. CASE Preview \/ ChooseSource \/ OpenSceneFile \/ WindowOpens \/ Pull
  BY <1>7 DEF Preview, ChooseSource, OpenSceneFile, WindowOpens, Pull
<1>8. CASE Continue \/ SkipScene \/ Save
  BY <1>8 DEF Continue, SkipScene, Save
<1>9. CASE UNCHANGED vars
  BY <1>9 DEF vars
<1> QED BY <1>1, <1>2, <1>3, <1>4, <1>5, <1>6, <1>7, <1>8, <1>9 DEF Next

LEMMA NextIInv == IInv /\ [Next]_vars => IInv'
BY KeepsPlace, KeepsImport, KeepsRows, KeepsReviewed, KeepsPreview, KeepsLint DEF IInv

\* In every state of the page: a workbook and a mapping into it at every later step, an import
\* the loader can read, rows that are owed to what was taught, a preview of that import.
THEOREM ImportInvariance == Spec => []IInv
<1>1. Init => IInv
  BY InitIInv
<1>2. IInv /\ [Next]_vars => IInv'
  BY NextIInv
<1> QED BY <1>1, <1>2, PTL DEF Spec

-----------------------------------------------------------------------------
(* The properties                                                          *)

\* What the Terms step says was recorded or cleared is understood, and is not a comment
\* in the file unless the comment only seems to say it (a fragment spelled otherwise, a note), while none of the terms it is owed to is taken away: whoever else writes
\* the vocabulary, and whenever (TaughtIsImported).
THEOREM TaughtIsImportedHolds == Spec => []TaughtIsImported
<1>1. IInv => TaughtIsImported
  <2> SUFFICES ASSUME IInv, NEW f \in DOMAIN rows,
                      rows[f].state \in {"recorded", "resolved"}, rows[f].by \cap undone = {}
               PROVE  /\ step = 2 => resolves(f, terms)
                      /\ step > 2 /\ f \in unresolved_terms(result) => f \in misread(result)
    BY DEF TaughtIsImported
  <2>1. f \in Texts /\ Owed(rows[f], f, terms, undone) /\ IsVocabulary(terms)
    BY DEF IInv, RowsInv, ImportInv
  <2>2. resolves(f, terms)
    BY <2>1, OwedResolves
  <2>3. step > 2 => step >= 3
    BY DEF IInv, PlaceInv
  <2>4. step > 2 /\ f \in unresolved_terms(result) => f \in misread(result)
    BY <2>3 DEF IInv, ReviewedInv
  <2> QED BY <2>2, <2>4
<1> QED BY <1>1, ImportInvariance, PTL

\* What Save writes is read again, no id refused and no kind repaired, with the
\* expectations that were reviewed (SavedLoads).
THEOREM SavedLoadsHolds == Spec => []SavedLoads
<1>1. IInv => SavedLoads
  <2> SUFFICES ASSUME IInv, saved # None
               PROVE  /\ loadable(saved) /\ anomalies(saved) = {}
                      /\ Len(parse_show_context(saved)) = Len(result.segments)
                      /\ \A i \in DOMAIN parse_show_context(saved) :
                            ToSet(parse_show_context(saved)[i].expects) = result.segments[i].segment.expects
                      /\ saved.show = xlsx
    BY DEF SavedLoads
  <2>1. step = 4 /\ saved = render(xlsx, result, chosen)
    BY DEF IInv, PreviewInv
  <2>2. IsMade(result)
    BY <2>1 DEF IInv, ImportInv
  <2>3. ReadsAs(saved, xlsx, result)
    BY <2>1, <2>2, RenderLoads
  <2> QED BY <2>3 DEF ReadsAs
<1> QED BY <1>1, ImportInvariance, PTL

\* What an import holds of its sheet.
LEMMA ImportedLosesNothing ==
    ASSUME NEW sheet, IsSheet(sheet), NEW mapping, IsMapping(mapping, sheet),
           NEW vocabulary, IsVocabulary(vocabulary),
           NEW made, Imported(made, sheet, mapping, vocabulary)
    PROVE  SheetIsKept(made, sheet, mapping, vocabulary)
<1> DEFINE titled == selected(sheet.rows, titledRows(sheet, mapping))
<1>1. /\ titled \in Seq(SheetRows)
      /\ \A a \in 1..Len(titled) : \E r \in 1..Len(sheet.rows) : sheet.rows[r] = titled[a]
  BY TitledAre
<1>2. /\ Len(made.segments) = Len(titled)
      /\ Len(made.segments) + Len(made.loose) = Len(sheet.rows)
      /\ \A a \in 1..Len(titled) : \E id \in Ids :
            made.segments[a] = entryOf(titled[a], id, sheet, mapping, vocabulary)
  BY DEF Imported
<1> HIDE DEF titled
<1>3. ASSUME NEW i \in 1..Len(titled)
      PROVE  RowIsKept(titled[i], made.segments[i], sheet, mapping, vocabulary)
  <2> DEFINE row == titled[i]
             built == made.segments[i]
             cell == _cell(row, mapping, "performers")
  <2>1. PICK id \in Ids : built = entryOf(row, id, sheet, mapping, vocabulary)
    BY <1>2
  <2>2. PICK r \in 1..Len(sheet.rows) : row = sheet.rows[r]
    BY <1>1
  <2> HIDE DEF row, built
  <2>3. cell \in Cells
    BY <2>2, CellIs
  <2>4. built.row = row.number /\ built.segment = segmentOf(row, mapping, vocabulary, id)
        /\ built.comments = comments(row, mapping, sheet, vocabulary, id)
    BY <2>1 DEF entryOf
  <2>5. /\ built.segment.expects = expected(cell, vocabulary)
        /\ built.segment.kept = {f \in {"sound", "lighting", "led"} : ~blank(_cell(row, mapping, f))}
        /\ built.comments.unread = unread(cell, vocabulary)
        /\ built.comments.kept = {f \in {"time", "note"} : ~blank(_cell(row, mapping, f))}
        /\ built.comments.columns = {c \in headed(sheet) \ Range(mapping) : ~blank(row.cells[c])}
    BY <2>4 DEF segmentOf, comments, otherColumns
  <2>6. ASSUME NEW c \in headed(sheet) \cup Range(mapping), ~blank(row.cells[c]), c \notin built.comments.columns
        PROVE  \E f \in DOMAIN mapping :
                  mapping[f] = c /\ f \in built.segment.kept \cup built.comments.kept \cup {"id", "title", "performers"}
    <3>1. PICK f \in DOMAIN mapping : mapping[f] = c
      BY <2>5, <2>6 DEF Range
    <3>2. ~blank(_cell(row, mapping, f))
      BY <2>6, <3>1 DEF _cell
    <3>3. f \in {"id", "title", "time", "performers", "note", "sound", "lighting", "led"}
      BY DEF IsMapping, FIELDS
    <3> QED BY <2>5, <3>1, <3>2, <3>3
  <2>7. ToSet(cell) = {cell[j] : j \in DOMAIN cell}
    BY DEF ToSet
  <2> HIDE DEF cell
  <2>8. ASSUME NEW f \in ToSet(cell)
        PROVE  \/ f \in built.comments.unread \/ resolve_fragment(f, vocabulary).ignored
               \/ /\ resolve_fragment(f, vocabulary).kinds # {}
                  /\ resolve_fragment(f, vocabulary).kinds \subseteq built.segment.expects
    <3>1. PICK j \in DOMAIN cell : f = cell[j]
      BY <2>7
    <3>2. ~resolves(f, vocabulary) => f \in built.comments.unread
      BY <2>5, <3>1 DEF unread
    <3>3. resolve_fragment(f, vocabulary).kinds \subseteq built.segment.expects
      BY <2>5, <3>1 DEF expected
    <3> QED BY <3>2, <3>3 DEF resolves
  <2>9. ASSUME NEW k \in built.segment.expects
        PROVE  \E f \in ToSet(cell) : k \in resolve_fragment(f, vocabulary).kinds
    BY <2>5, <2>7 DEF expected
  <2>10. cell = IF "performers" \in DOMAIN mapping THEN row.cells[mapping["performers"]] ELSE << >>
    BY DEF cell, _cell
  <2>11. RowIsKept(row, built, sheet, mapping, vocabulary)
    BY <2>4, <2>6, <2>8, <2>9, <2>10 DEF RowIsKept
  <2> QED BY <2>11 DEF row, built
<1>4. DOMAIN titled = 1..Len(titled)
  BY <1>1
<1> DEFINE isTitled(row) == "title" \in DOMAIN mapping /\ ~blank(row.cells[mapping["title"]])
<1>5. titled = selected(sheet.rows, {row \in ToSet(sheet.rows) : isTitled(row)})
  <2>1. \A row : ~blank(_cell(row, mapping, "title")) <=> isTitled(row)
    BY DEF _cell, blank
  <2>2. titledRows(sheet, mapping) = {row \in ToSet(sheet.rows) : isTitled(row)}
    BY <2>1 DEF titledRows
  <2> QED BY <2>2 DEF titled
<1> QED BY <1>2, <1>3, <1>4, <1>5 DEF SheetIsKept

\* Nothing of the sheet is lost: every row is a segment or a comment, in order, every cell of
\* a titled row that stands in a column with a heading or a field is in one of them, every fragment is understood, ignored on purpose or kept, and nothing is
\* expected that no fragment said (NothingLost).
THEOREM NothingLostHolds == Spec => NothingLost
<1>1. ASSUME IInv, [Next]_vars, result' # result
      PROVE  SheetIsKept(result', sheetOf[xlsx], fields', terms)
  <2>i. PlaceInv /\ ImportInv /\ IsVocabulary(terms)
    BY <1>1 DEF IInv, ImportInv
  <2>1. CASE Next_
    <3>1. IsSheet(sheetOf[xlsx])
      BY <2>1, <2>i, SheetsAre DEF Next_, PlaceInv
    <3>2. IsMapping(fields', sheetOf[xlsx])
      BY <2>1, <3>1, ColumnsResolved DEF Next_
    <3>3. Imported(result', sheetOf[xlsx], fields', terms)
      BY <2>1, <2>i, <3>1, <3>2, BuildImports DEF Next_
    <3> QED BY <2>i, <3>1, <3>2, <3>3, ImportedLosesNothing
  <2>2. CASE Preview
    <3>1. /\ IsSheet(sheetOf[xlsx]) /\ IsMapping(fields, sheetOf[xlsx])
          /\ Imported(result', sheetOf[xlsx], fields, terms)
      BY <2>2, <2>i, PreviewImports
    <3>2. fields' = fields
      BY <2>2 DEF Preview
    <3> QED BY <2>i, <3>1, <3>2, ImportedLosesNothing
  <2>3. CASE PickFile \/ ProposalArrives \/ CallEnds \/ TryAi \/ Back \/ EditGrid
    BY <1>1, <2>3 DEF PickFile, ProposalArrives, CallEnds, TryAi, Back, EditGrid, build_
  <2>4. CASE Record \/ Skip \/ OpenVocabulary \/ TermsChange
    BY <1>1, <2>4 DEF Record, Skip, OpenVocabulary, TermsChange, build_
  <2>5. CASE ChooseSource \/ OpenSceneFile \/ WindowOpens \/ Pull
    BY <1>1, <2>5 DEF ChooseSource, OpenSceneFile, WindowOpens, Pull, build_
  <2>6. CASE Continue \/ SkipScene \/ Save
    BY <1>1, <2>6 DEF Continue, SkipScene, Save, build_
  <2>7. CASE OpenLint \/ EditFile \/ Fix \/ CloseLint
    BY <1>1, <2>7 DEF OpenLint, EditFile, Fix, CloseLint, build_
  <2>8. CASE UNCHANGED vars
    BY <1>1, <2>8 DEF vars, build_
  <2> QED BY <1>1, <2>1, <2>2, <2>3, <2>4, <2>5, <2>6, <2>7, <2>8 DEF Next
<1>2. IInv /\ [Next]_vars => [result' # result => SheetIsKept(result', sheetOf[xlsx], fields', terms)]_vars
  BY <1>1
<1> QED BY <1>2, ImportInvariance, PTL DEF Spec, NothingLost

\* The table that is on the page at Continue is the written file's join with that scene
\* (TableIsEmitted).
THEOREM TableIsEmittedHolds == Spec => TableIsEmitted
<1>1. ASSUME IInv, [Next]_vars, step = 3, step' = 4, chosen' # None
      PROVE  TableJoins(table', preview', chosen')
  <2>1. Continue
    <3>1. CASE PickFile \/ ProposalArrives \/ CallEnds \/ TryAi \/ Back \/ EditGrid \/ Next_
      BY <1>1, <3>1 DEF PickFile, ProposalArrives, CallEnds, TryAi, Back, EditGrid, Next_, IInv, PlaceInv
    <3>2. CASE Record \/ Skip \/ OpenVocabulary \/ TermsChange
      BY <1>1, <3>2 DEF Record, Skip, OpenVocabulary, TermsChange, pick
    <3>3. CASE Preview \/ ChooseSource \/ OpenSceneFile \/ WindowOpens \/ Pull
      BY <1>1, <3>3 DEF Preview, ChooseSource, OpenSceneFile, WindowOpens, Pull, pick
    <3>4. CASE SkipScene
      BY <1>1, <3>4 DEF SkipScene, finish_scene
    <3>5. CASE Save \/ OpenLint \/ EditFile \/ Fix \/ CloseLint
      BY <1>1, <3>5 DEF Save, OpenLint, EditFile, Fix, CloseLint, pick
    <3>6. CASE UNCHANGED vars
      BY <1>1, <3>6 DEF vars, pick
    <3> QED BY <1>1, <3>1, <3>2, <3>3, <3>4, <3>5, <3>6 DEF Next
  <2>2. /\ table' = IF result = None \/ chosen' = None THEN << >> ELSE tableOf(result, chosen')
        /\ preview' = render(xlsx, result, chosen')
    BY <2>1 DEF Continue, continued, refreshed, finish_scene
  <2>3. IsMade(result)
    BY <1>1 DEF IInv, ImportInv
  <2>4. result # None
    BY <2>3, NoneAssumption DEF IsMade
  <2>5. table' = tableOf(result, chosen')
    BY <1>1, <2>2, <2>4
  <2> QED BY <1>1, <2>2, <2>3, <2>5, TableIsJoined
<1>2. IInv /\ [Next]_vars =>
         [step = 3 /\ step' = 4 /\ chosen' # None => TableJoins(table', preview', chosen')]_vars
  BY <1>1
<1> QED BY <1>2, ImportInvariance, PTL DEF Spec, TableIsEmitted

\* A Fix of a file that no Fix before it cut short leaves the file as it was beside it; and when
\* it writes, one that reads as the one before, with the anomalies alone that no repair is for
\* (FixKeepsMeaning).
THEOREM FixKeepsMeaningHolds == Spec => FixKeepsMeaning
<1>1. ASSUME IInv, [Next]_vars, lint # None, lint' # None, lint'.edited = lint.edited, lint' # lint, lint.file # Torn
      PROVE  MeansTheSame(lint, lint')
  <2>d. DOMAIN lint = {"file", "bak", "edited", "listed", "enabled"}
    BY <1>1 DEF IInv, LintInv
  <2>1. Fix
    <3>1. CASE PickFile \/ ProposalArrives \/ CallEnds \/ TryAi \/ Back \/ EditGrid \/ Next_
      BY <1>1, <3>1 DEF PickFile, ProposalArrives, CallEnds, TryAi, Back, EditGrid, Next_
    <3>2. CASE Record \/ Skip \/ OpenVocabulary \/ TermsChange
      BY <1>1, <3>2 DEF Record, Skip, OpenVocabulary, TermsChange
    <3>3. CASE Preview \/ ChooseSource \/ OpenSceneFile \/ WindowOpens \/ Pull
      BY <1>1, <3>3 DEF Preview, ChooseSource, OpenSceneFile, WindowOpens, Pull
    <3>4. CASE Continue \/ SkipScene \/ Save
      BY <1>1, <3>4 DEF Continue, SkipScene, Save
    <3>5. CASE OpenLint \/ CloseLint
      BY <1>1, <3>5 DEF OpenLint, CloseLint
    <3>6. CASE EditFile
      <4>1. PICK d \in Documents : ~lint.edited /\ lint' = [lint EXCEPT !.file = d, !.edited = TRUE]
        BY <3>6 DEF EditFile
      <4>2. lint'.edited = TRUE
        BY <2>d, <4>1
      <4> QED BY <1>1, <4>1, <4>2
    <3>7. CASE UNCHANGED vars
      BY <1>1, <3>7 DEF vars
    <3> QED BY <1>1, <3>1, <3>2, <3>3, <3>4, <3>5, <3>6, <3>7 DEF Next
  <2> DEFINE file == lint.file
             after == apply_repairs(file)
  <2>2. file # Torn /\ wellFormed(file)
    BY <1>1 DEF IInv, LintInv
  <2>3. \/ lint' = [lint EXCEPT !.bak = file]
        \/ lint' = [lint EXCEPT !.bak = file, !.file = Torn]
        \/ lint' = [lint EXCEPT !.bak = file, !.file = after,
                                !.listed = linted(after).listed, !.enabled = linted(after).enabled]
    BY <1>1, <2>1 DEF Fix, backedUp
  <2> HIDE DEF after
  <2>4. lint'.bak = file
    BY <2>d, <2>3
  <2>5. \/ lint'.file \in {Torn, file}
        \/ lint'.file = after /\ lint'.listed = linted(after).listed /\ lint'.enabled = linted(after).enabled
    BY <2>d, <2>3
  <2>6. ASSUME lint'.file \notin {Torn, file}, loadable(file)
        PROVE  /\ loadable(lint'.file)
               /\ parse_show_context(lint'.file) = parse_show_context(file)
               /\ lint'.listed = {a \in anomalies(file) : ~a.fixable}
               /\ ~lint'.enabled
    <3>1. /\ loadable(after) /\ parse_show_context(after) = parse_show_context(file)
          /\ anomalies(after) = {a \in anomalies(file) : ~a.fixable}
      BY <2>2, <2>6, DocumentFixed DEF after
    <3>2. after # Torn /\ lint'.file = after /\ lint'.listed = linted(after).listed
          /\ lint'.enabled = linted(after).enabled
      BY <2>5, <2>6
    <3>3. linted(after).listed = anomalies(after) /\ ~linted(after).enabled
      BY <3>1, <3>2 DEF linted, is_fixable_anomaly
    <3> QED BY <3>1, <3>2, <3>3
  <2> QED BY <2>4, <2>6 DEF MeansTheSame
<1>2. IInv /\ [Next]_vars =>
         [lint # None /\ lint' # None /\ lint'.edited = lint.edited /\ lint' # lint /\ lint.file # Torn
            => MeansTheSame(lint, lint')]_vars
  BY <1>1
<1> QED BY <1>2, ImportInvariance, PTL DEF Spec, FixKeepsMeaning

=============================================================================
