---------------------------- MODULE Advice_proofs ----------------------------
(* For any names, patterns, guesses, rule files, environments and number of *)
(* commands at the same time: a model is asked once for a name, what it     *)
(* said is what the next command reads unless overlapping flushes lost it,  *)
(* a printed report accounts for the base rules, and the key line and the   *)
(* calls agree.                                                             *)
EXTENDS Advice, Selection_proofs, TLAPS

Tables == [Cleaned -> Answers \cup {None}]

Tolds == [Cleaned -> Answers \cup {None, Lost}]

\* What was told of a key, and not edited since nor lost to an overlapped write, is in the
\* file, rounded; and a copy that nobody's write overlapped is the file.
ToldIsWritten ==
    /\ entries \in Tables /\ told \in Tolds
    /\ copy \in [Commands -> Copies \cup {None}]
    /\ \A k \in Cleaned : told[k] \notin {None, Lost} => entries[k] = rounded(told[k])
    /\ \A c \in Commands : copy[c] # None /\ ~copy[c].overlapped => copy[c].doc = entries

Typed ==
    /\ proc \in [Commands -> Classifiers \cup {None}]
    /\ at_start \in [Commands -> Tolds]
    /\ asked \in [Commands -> [Cleaned -> 0..1]]

\* A command that read the file has it as it was then, and asked for nothing in it.
HasRead(c) ==
    /\ proc[c].disk # None
    /\ \A k \in Cleaned :
        /\ k \notin DOMAIN proc[c].memo => asked[c][k] = 0
        /\ at_start[c][k] \notin {None, Lost} =>
            /\ proc[c].disk[k] = rounded(at_start[c][k])
            /\ asked[c][k] = 0
            /\ k \in DOMAIN proc[c].memo => proc[c].memo[k] = proc[c].disk[k]

\* One that read nothing asked nothing.
HasNotRead(c) ==
    /\ proc[c].disk = None /\ DOMAIN proc[c].memo = {}
    /\ \A k \in Cleaned : asked[c][k] = 0

Keeps(c) ==
    /\ proc[c] = None => \A k \in Cleaned : asked[c][k] = 0
    /\ proc[c] # None => HasRead(c) \/ HasNotRead(c)

IInv == Typed /\ ToldIsWritten /\ \A c \in Commands : Keeps(c)

-----------------------------------------------------------------------------
(* Three digits of a confidence                                            *)

LEMMA ConfIs == ASSUME NEW a \in Answers PROVE a.conf \in Confidences
BY DEF Answers

LEMMA ThreeDigits ==
    ASSUME NEW x \in Confidences
    PROVE  /\ three_digits(x) \in Confidences
           /\ three_digits(x) \in (x - 5)..(x + 5)
           /\ x >= LOW => three_digits(x) >= LOW
<1>1. x \in Int /\ x + 5 \in Int /\ 0 <= x /\ x <= 10000
  BY DEF Confidences
<1>2. PICK q \in Int : q = (x + 5) \div 10
  BY <1>1
<1>3. 10 * q <= x + 5 /\ x + 5 < 10 * q + 10
  BY <1>1, <1>2
<1>4. q >= 0 /\ q <= 1000
  BY <1>1, <1>3
<1>5. three_digits(x) = 10 * q
  BY <1>1, <1>2, <1>4 DEF three_digits
<1>6. x >= 4000 => q >= 400
  BY <1>1, <1>3, <1>4
<1>7. 10 * q \in 0..10000 /\ 10 * q \in (x - 5)..(x + 5)
  BY <1>1, <1>3, <1>4
<1>8. x >= 4000 => 10 * q >= 4000
  BY <1>6, <1>4
<1>9. QED BY <1>5, <1>7, <1>8 DEF Confidences, LOW

LEMMA RoundedIs ==
    ASSUME NEW a \in Answers
    PROVE  /\ rounded(a) \in Answers /\ rounded(a).kind = a.kind
           /\ rounded(a).conf \in (a.conf - 5)..(a.conf + 5)
           /\ a.conf >= LOW => rounded(a).conf >= LOW
<1>1. /\ rounded(a).kind = a.kind /\ rounded(a).conf = three_digits(a.conf)
      /\ three_digits(a.conf) \in Confidences => rounded(a) \in Answers
  <2> DEFINE d == three_digits(a.conf)
  <2>1. rounded(a) = [a EXCEPT !.conf = d]
    BY DEF rounded
  <2> HIDE DEF d
  <2>2. rounded(a).kind = a.kind /\ rounded(a).conf = d /\ (d \in Confidences => rounded(a) \in Answers)
    BY <2>1 DEF Answers
  <2> QED BY <2>2 DEF d
<1>2. /\ three_digits(a.conf) \in Confidences
      /\ three_digits(a.conf) \in (a.conf - 5)..(a.conf + 5)
      /\ a.conf >= LOW => three_digits(a.conf) >= LOW
  <2>1. a.conf \in Confidences
    BY ConfIs
  <2>2. QED BY <2>1, ThreeDigits
<1>3. QED BY <1>1, <1>2

-----------------------------------------------------------------------------
(* The invariant                                                           *)

LEMMA InitIInv == AdviceInit => IInv
<1> SUFFICES ASSUME AdviceInit PROVE IInv
  OBVIOUS
<1>1. /\ entries \in Tables /\ told = entries /\ at_start = [c \in Commands |-> entries]
      /\ copy = [c \in Commands |-> None]
      /\ \A k \in Cleaned : entries[k] = None
  BY DEF AdviceInit, NamingInit, Tables
<1>2. /\ proc = [c \in Commands |-> None]
      /\ asked = [c \in Commands |-> [k \in Cleaned |-> 0]]
  BY DEF AdviceInit, NamingInit
<1>3. Typed /\ ToldIsWritten
  <2>1. entries \in Tolds
    BY <1>1 DEF Tables, Tolds
  <2> QED BY <1>1, <1>2, <2>1 DEF Typed, ToldIsWritten
<1>4. \A c \in Commands : Keeps(c)
  BY <1>2 DEF Keeps
<1>5. QED BY <1>3, <1>4 DEF IInv

\* A command that is not disturbed keeps what it has.
LEMMA OtherKeeps ==
    ASSUME NEW c \in Commands, Keeps(c), proc'[c] = proc[c], at_start'[c] = at_start[c],
           asked'[c] = asked[c]
    PROVE  Keeps(c)'
BY DEF Keeps, HasRead, HasNotRead

LEMMA BeginKeeps == ASSUME NEW c \in Commands, IInv, Begin(c) PROVE IInv'
<1>1. /\ proc[c] = None /\ proc' = [proc EXCEPT ![c] = started("rules")]
      /\ UNCHANGED <<entries, copy, told, at_start, asked>>
  BY DEF Begin, kept
<1>2. /\ started("rules") \in Classifiers /\ started("rules").disk = None
      /\ DOMAIN started("rules").memo = {}
  <2>1. << >> \in Pending
    BY DEF Pending
  <2>2. << >> \in [{} -> Answers] /\ DOMAIN (<< >>) = {}
    OBVIOUS
  <2>3. << >> \in UNION {[S -> Answers] : S \in SUBSET Cleaned}
    BY <2>2
  <2>4. /\ started("rules").at = "rules" /\ started("rules").disk = None
        /\ started("rules").memo = << >> /\ started("rules").pending = << >>
        /\ started("rules") = [at |-> "rules", disk |-> None, memo |-> << >>, pending |-> << >>]
    BY DEF started
  <2>5. ASSUME NEW A, NEW D, NEW M, NEW P, NEW a \in A, NEW d \in D, NEW m \in M, NEW q \in P
        PROVE  [at |-> a, disk |-> d, memo |-> m, pending |-> q]
                 \in [at : A, disk : D, memo : M, pending : P]
    OBVIOUS
  <2>6. None \in [Cleaned -> Answers \cup {None}] \cup {None}
    OBVIOUS
  <2>7. started("rules") \in Classifiers
    <3>1. "rules" \in Stages
      BY DEF Stages
    <3>2. [at |-> "rules", disk |-> None, memo |-> << >>, pending |-> << >>]
            \in [at : Stages, disk : [Cleaned -> Answers \cup {None}] \cup {None},
                 memo : UNION {[S -> Answers] : S \in SUBSET Cleaned}, pending : Pending]
      BY <2>1, <2>3, <2>5, <2>6, <3>1, Zenon
    <3>3. QED BY <2>4, <3>2 DEF Classifiers
  <2>8. QED BY <2>2, <2>4, <2>7
<1>3. /\ proc'[c] = started("rules") /\ \A d \in Commands \ {c} : proc'[d] = proc[d]
      /\ proc' \in [Commands -> Classifiers \cup {None}]
  BY <1>1, <1>2 DEF IInv, Typed
<1>4. Typed' /\ ToldIsWritten'
  BY <1>1, <1>3 DEF IInv, Typed, ToldIsWritten
<1>5. Keeps(c)'
  BY <1>1, <1>2, <1>3 DEF IInv, Keeps, HasNotRead
<1>6. \A d \in Commands \ {c} : Keeps(d)'
  BY <1>1, <1>3, OtherKeeps DEF IInv
<1>7. QED BY <1>4, <1>5, <1>6 DEF IInv

\* What a step of one command does to its Classifier; the rest of the invariant follows.
LEMMA StepKeeps ==
    ASSUME NEW c \in Commands, IInv, proc[c] # None, NEW p \in Classifiers,
           proc' = [proc EXCEPT ![c] = p],
           p.disk = proc[c].disk, p.memo = proc[c].memo,
           ToldIsWritten', UNCHANGED <<at_start, asked>>
    PROVE  IInv'
<1>1. /\ proc'[c] = p /\ \A d \in Commands \ {c} : proc'[d] = proc[d]
      /\ proc' \in [Commands -> Classifiers \cup {None}]
  BY DEF IInv, Typed
<1>2. Typed'
  BY <1>1 DEF IInv, Typed
<1>3. Keeps(c)'
  <2>1. HasRead(c) \/ HasNotRead(c)
    BY DEF IInv, Keeps
  <2>2. HasRead(c)' \/ HasNotRead(c)'
    BY <1>1, <2>1 DEF HasRead, HasNotRead
  <2>3. proc'[c] # None
    BY <1>1, NamingAssumption
  <2>4. QED BY <2>2, <2>3 DEF Keeps
<1>4. \A d \in Commands \ {c} : Keeps(d)'
  BY <1>1, OtherKeeps DEF IInv
<1>5. QED BY <1>2, <1>3, <1>4 DEF IInv

\* The steps that read rule files, evaluate and print: only where the command stands moves.
LEMMA GoesKeep ==
    ASSUME NEW c \in Commands, IInv, proc[c] # None, NEW at \in Stages, goes(c, at),
           UNCHANGED <<entries, copy, told, at_start, asked>>
    PROVE  IInv'
<1> DEFINE p == [proc[c] EXCEPT !.at = at]
<1>1. proc[c] \in Classifiers
  BY DEF IInv, Typed
<1>2. p \in Classifiers /\ p.disk = proc[c].disk /\ p.memo = proc[c].memo
  BY <1>1 DEF Classifiers
<1>3. proc' = [proc EXCEPT ![c] = p]
  BY DEF goes
<1>4. ToldIsWritten'
  BY DEF IInv, ToldIsWritten
<1> HIDE DEF p
<1>5. QED BY <1>2, <1>3, <1>4, StepKeeps

LEMMA ReadingKeeps ==
    ASSUME NEW c \in Commands, IInv,
           ReadRules(c) \/ Evaluate(c) \/ ReadSuppressed(c) \/ ReadEvent(c)
    PROVE  IInv'
<1>1. proc[c] # None /\ UNCHANGED <<entries, copy, told, at_start, asked>>
  BY DEF ReadRules, Evaluate, ReadSuppressed, ReadEvent, kept
<1>2. \/ goes(c, "names") \/ goes(c, "suppressed") \/ goes(c, "event")
      \/ goes(c, "flush") \/ goes(c, "done")
  <2>1. CASE ReadRules(c)
    BY <2>1, Zenon DEF ReadRules, says
  <2>2. CASE Evaluate(c)
    BY <2>2, Zenon DEF Evaluate, says
  <2>3. CASE ReadSuppressed(c)
    BY <2>3, Zenon DEF ReadSuppressed, says
  <2>4. CASE ReadEvent(c)
    BY <2>4, Zenon DEF ReadEvent, says
  <2>5. QED BY <2>1, <2>2, <2>3, <2>4
<1>3. ASSUME NEW at \in Stages, goes(c, at) PROVE IInv'
  BY <1>1, <1>3, GoesKeep
<1>4. QED BY <1>2, <1>3 DEF Stages

\* A name is classified: the file is read if it was not, and the answer memorized.
LEMMA ClassifyKeeps ==
    ASSUME NEW c \in Commands, IInv, Classify(c) PROVE IInv' /\ proc'[c] # None
<1>1. PICK n \in Named : proc[c] # None /\ Resolve(c, n)
  BY DEF Classify, unresolved
<1> DEFINE k == clean[n]
           disk == IF proc[c].disk = None THEN entries ELSE proc[c].disk
           start == IF proc[c].disk = None THEN told ELSE at_start[c]
<1>2. k \in Cleaned /\ patterns[k] \in Answers /\ None \notin Answers /\ None \notin Tables
  BY NamingAssumption DEF Tables, Cleaned
<1>3. /\ proc[c] \in Classifiers /\ proc[c].disk \in Tables \cup {None}
      /\ proc[c].pending \in Pending /\ proc[c].at \in Stages
      /\ \E S \in SUBSET Cleaned : proc[c].memo \in [S -> Answers]
  BY <1>1 DEF IInv, Typed, Classifiers, Tables
<1>4. /\ k \notin DOMAIN proc[c].memo
      /\ at_start' = [at_start EXCEPT ![c] = start]
      /\ UNCHANGED <<entries, copy, told>>
  BY <1>1 DEF Resolve, memoKey
<1>5. disk \in Tables /\ start \in Tolds
  BY <1>3 DEF IInv, Typed, ToldIsWritten
<1>6. \A x \in Cleaned : start[x] \notin {None, Lost} =>
          disk[x] = rounded(start[x]) /\ disk[x] # None /\ asked[c][x] = 0
  <2>1. CASE proc[c].disk = None
    <3>1. \A x \in Cleaned : asked[c][x] = 0
      BY <1>1, <2>1 DEF IInv, Keeps, HasRead, HasNotRead
    <3>2. \A x \in Cleaned : told[x] \notin {None, Lost} =>
            entries[x] = rounded(told[x]) /\ told[x] \in Answers
      BY DEF IInv, ToldIsWritten, Tolds
    <3>3. QED BY <1>2, <2>1, <3>1, <3>2, RoundedIs
  <2>2. CASE proc[c].disk # None
    <3>1. HasRead(c)
      BY <1>1, <2>2 DEF IInv, Keeps, HasNotRead
    <3>2. \A x \in Cleaned : at_start[c][x] \notin {None, Lost} => at_start[c][x] \in Answers
      BY DEF IInv, Typed, Tolds
    <3>3. QED BY <1>2, <2>2, <3>1, <3>2, RoundedIs DEF HasRead
  <2>3. QED BY <2>1, <2>2
<1>7. asked[c][k] = 0
  <2>1. HasRead(c) \/ HasNotRead(c)
    BY <1>1 DEF IInv, Keeps
  <2>2. QED BY <1>2, <1>4, <2>1 DEF HasRead, HasNotRead
<1> HIDE DEF disk, start, k
\* Where the answer comes from makes no other difference.
<1>8. PICK a \in Answers, pending \in Pending, asks \in {0, 1} :
        takes(c, n, disk, a, pending, asks) /\ (disk[k] # None => a = disk[k] /\ asks = 0)
  <2>1. CASE disk[k] # None
    <3>1. takes(c, n, disk, disk[k], proc[c].pending, 0)
      BY <1>1, <2>1 DEF Resolve, readBy, disk, k
    <3>2. disk[k] \in Answers
      BY <1>2, <1>5, <2>1 DEF Tables
    <3>3. QED BY <1>3, <2>1, <3>1, <3>2
  <2>2. CASE disk[k] = None /\ settles(patterns[k])
    <3>1. takes(c, n, disk, patterns[k], proc[c].pending, 0)
      BY <1>1, <2>2 DEF Resolve, readBy, disk, k
    <3>2. QED BY <1>2, <1>3, <2>2, <3>1
  <2>3. CASE disk[k] = None /\ ~settles(patterns[k])
    <3>1. PICK guess \in guesses :
            IF guess = None THEN takes(c, n, disk, patterns[k], proc[c].pending, 1)
            ELSE takes(c, n, disk, guess, Append(proc[c].pending, [key |-> k, gives |-> guess]), 1)
      BY <1>1, <2>3 DEF Resolve, readBy, disk, k
    <3>2. CASE guess = None
      BY <1>2, <1>3, <2>3, <3>1, <3>2
    <3>3. CASE guess # None
      <4>1. guess \in Answers
        BY <3>3, NamingAssumption DEF guesses
      <4>2. [key |-> k, gives |-> guess] \in [key : Cleaned, gives : Answers]
        BY <1>2, <4>1
      <4>3. Append(proc[c].pending, [key |-> k, gives |-> guess]) \in Pending
        BY <1>3, <4>2 DEF Pending
      <4>4. takes(c, n, disk, guess, Append(proc[c].pending, [key |-> k, gives |-> guess]), 1)
        BY <3>1, <3>3
      <4>5. QED BY <2>3, <4>1, <4>3, <4>4
    <3>4. QED BY <3>2, <3>3
  <2>4. QED BY <2>1, <2>2, <2>3
<1>9. /\ proc' = [proc EXCEPT ![c] = [@ EXCEPT !.disk = disk, !.pending = pending,
                                               !.memo = memoized(proc[c].memo, k, a)]]
      /\ asked' = [asked EXCEPT ![c][k] = @ + asks]
  BY <1>8 DEF takes, memoKey, k
<1> DEFINE memo == memoized(proc[c].memo, k, a)
           p == [proc[c] EXCEPT !.disk = disk, !.pending = pending, !.memo = memo]
<1>10. /\ DOMAIN memo = {k} \cup DOMAIN proc[c].memo /\ memo[k] = a
       /\ \A x \in DOMAIN proc[c].memo : memo[x] = proc[c].memo[x]
       /\ \E S \in SUBSET Cleaned : memo \in [S -> Answers]
  <2>1. PICK S \in SUBSET Cleaned : proc[c].memo \in [S -> Answers]
    BY <1>3
  <2>2. memo \in [{k} \cup S -> Answers] /\ {k} \cup S \in SUBSET Cleaned
    BY <1>2, <2>1 DEF memoized
  <2>3. QED BY <1>4, <2>1, <2>2 DEF memoized, k
<1> HIDE DEF memo
<1>11. /\ p \in Classifiers /\ p.disk = disk /\ p.memo = memo
  BY <1>3, <1>5, <1>10 DEF Classifiers, Tables
<1>12. proc' = [proc EXCEPT ![c] = p]
  BY <1>9 DEF memo
<1> HIDE DEF p
<1>13. /\ proc' \in [Commands -> Classifiers \cup {None}]
       /\ proc'[c] = p /\ \A d \in Commands \ {c} : proc'[d] = proc[d]
  BY <1>11, <1>12 DEF IInv, Typed
<1>14. /\ asked' \in [Commands -> [Cleaned -> 0..1]]
       /\ asked'[c][k] = asks /\ \A x \in Cleaned \ {k} : asked'[c][x] = asked[c][x]
       /\ \A d \in Commands \ {c} : asked'[d] = asked[d]
  BY <1>2, <1>7, <1>8, <1>9 DEF IInv, Typed
<1>15. /\ at_start' \in [Commands -> Tolds]
       /\ at_start'[c] = start /\ \A d \in Commands \ {c} : at_start'[d] = at_start[d]
  BY <1>4, <1>5 DEF IInv, Typed
<1>16. Typed' /\ ToldIsWritten'
  BY <1>4, <1>13, <1>14, <1>15 DEF IInv, Typed, ToldIsWritten
<1>17. Keeps(c)'
  <2>1. proc'[c] # None /\ proc'[c].disk = disk /\ proc'[c].memo = memo /\ disk # None
    BY <1>2, <1>5, <1>11, <1>13, NamingAssumption
  <2>2. ASSUME NEW x \in Cleaned, x \notin DOMAIN memo
        PROVE  asked'[c][x] = 0
    <3>1. x # k /\ x \notin DOMAIN proc[c].memo
      BY <1>10, <2>2
    <3>2. HasRead(c) \/ HasNotRead(c)
      BY <1>1 DEF IInv, Keeps
    <3>3. QED BY <1>14, <3>1, <3>2 DEF HasRead, HasNotRead
  <2>3. ASSUME NEW x \in Cleaned, start[x] \notin {None, Lost}
        PROVE  /\ disk[x] = rounded(start[x]) /\ asked'[c][x] = 0
               /\ x \in DOMAIN memo => memo[x] = disk[x]
    <3>1. disk[x] = rounded(start[x]) /\ disk[x] # None /\ asked[c][x] = 0
      BY <1>6, <2>3
    <3>2. CASE x = k
      BY <1>8, <1>10, <1>14, <3>1, <3>2
    <3>3. CASE x # k
      <4>1. asked'[c][x] = 0
        BY <1>14, <3>1, <3>3
      <4>2. ASSUME x \in DOMAIN memo PROVE memo[x] = disk[x]
        <5>1. x \in DOMAIN proc[c].memo /\ memo[x] = proc[c].memo[x]
          BY <1>10, <3>3, <4>2
        <5>2. HasRead(c)
          BY <1>1, <5>1 DEF IInv, Keeps, HasNotRead
        <5>3. disk = proc[c].disk /\ start = at_start[c]
          BY <5>2 DEF HasRead, disk, start
        <5>4. QED BY <2>3, <5>1, <5>2, <5>3 DEF HasRead
      <4>3. QED BY <3>1, <4>1, <4>2
    <3>4. QED BY <3>2, <3>3
  <2>4. HasRead(c)'
    BY <1>15, <2>1, <2>2, <2>3 DEF HasRead
  <2>5. QED BY <2>1, <2>4 DEF Keeps
<1>18. \A d \in Commands \ {c} : Keeps(d)'
  BY <1>13, <1>14, <1>15, OtherKeeps DEF IInv
<1>19. proc'[c] # None
  BY <1>11, <1>13, NamingAssumption
<1>20. QED BY <1>16, <1>17, <1>18, <1>19 DEF IInv

\* Somebody wrote: every copy is of an older file.
LEMMA OverlappedIs ==
    ASSUME copy \in [Commands -> Copies \cup {None}], None \notin Copies
    PROVE  /\ overlapped \in [Commands -> Copies \cup {None}]
           /\ \A c \in Commands : overlapped[c] # None => overlapped[c].overlapped
<1> SUFFICES ASSUME NEW c \in Commands
             PROVE  /\ overlapped[c] \in Copies \cup {None}
                    /\ overlapped[c] # None => overlapped[c].overlapped
  BY DEF overlapped
<1>1. CASE copy[c] = None
  BY <1>1 DEF overlapped
<1>2. CASE copy[c] # None
  <2> DEFINE h == copy[c]
  <2>1. h \in Copies
    BY <1>2
  <2>2. overlapped[c] = [h EXCEPT !.overlapped = TRUE]
    BY <1>2 DEF overlapped
  <2> HIDE DEF h
  <2> QED BY <2>1, <2>2 DEF Copies
<1> QED BY <1>1, <1>2

\* A remember reads the file: its copy is the file.
LEMMA ReadsKeeps ==
    ASSUME NEW c \in Commands, IInv, rememberReads(c), UNCHANGED <<at_start, asked>> PROVE IInv'
<1> DEFINE h == [doc |-> entries, overlapped |-> FALSE]
<1>1. copy' = [copy EXCEPT ![c] = h] /\ UNCHANGED <<entries, proc, told>>
  BY DEF rememberReads, _read
<1>2. h \in Copies /\ h.doc = entries
  BY DEF IInv, ToldIsWritten, Copies, Tables
<1> HIDE DEF h
<1>3. /\ copy' \in [Commands -> Copies \cup {None}] /\ copy'[c] = h
      /\ \A d \in Commands \ {c} : copy'[d] = copy[d]
  BY <1>1, <1>2 DEF IInv, ToldIsWritten
<1>4. ASSUME NEW d \in Commands, copy'[d] # None, ~copy'[d].overlapped PROVE copy'[d].doc = entries
  BY <1>2, <1>3, <1>4 DEF IInv, ToldIsWritten
<1>5. ToldIsWritten'
  BY <1>1, <1>3, <1>4 DEF IInv, ToldIsWritten
<1>6. Typed' /\ \A d \in Commands : Keeps(d)'
  BY <1>1, OtherKeeps DEF IInv, Typed
<1> QED BY <1>5, <1>6 DEF IInv

\* One answer is written back: the file holds it rounded, that is what was told, and what
\* an old copy put back of the others is lost.
LEMMA WritesKeeps ==
    ASSUME NEW c \in Commands, IInv, proc[c] # None, proc[c].pending # << >>,
           rememberWrites(c), UNCHANGED <<at_start, asked>>
    PROVE  IInv' /\ proc'[c] # None
<1> DEFINE first == Head(proc[c].pending)
           p == [proc[c] EXCEPT !.pending = Tail(proc[c].pending)]
           doc == copy[c].doc
           k == first.key
           a == first.gives
<1>1. /\ copy[c] # None
      /\ entries' = [doc EXCEPT ![k] = rounded(a)]
      /\ told' = tellsOf(c, k, a)
      /\ copy' = [overlapped EXCEPT ![c] = None]
      /\ proc' = [proc EXCEPT ![c] = p]
  BY DEF rememberWrites
<1>2. proc[c] \in Classifiers /\ proc[c].pending \in Pending
  BY DEF IInv, Typed, Classifiers
<1>3. first \in [key : Cleaned, gives : Answers] /\ Tail(proc[c].pending) \in Pending
  BY <1>2, HeadTailProperties DEF Pending
<1>4. k \in Cleaned /\ a \in Answers /\ rounded(a) \in Answers
  BY <1>3, RoundedIs
<1>5. p \in Classifiers /\ p.disk = proc[c].disk /\ p.memo = proc[c].memo
  BY <1>2, <1>3 DEF Classifiers
<1>6. /\ doc \in Tables
      /\ ~copy[c].overlapped => doc = entries
  BY <1>1 DEF IInv, ToldIsWritten, Copies, Tables
<1> HIDE DEF first, p, doc, k, a
<1>7. /\ entries' \in Tables /\ entries'[k] = rounded(a)
      /\ \A x \in Cleaned \ {k} : entries'[x] = doc[x]
  BY <1>1, <1>4, <1>6 DEF Tables
<1>8. /\ told' \in Tolds /\ told'[k] = a
      /\ \A x \in Cleaned \ {k} : told'[x] \notin {None, Lost} =>
            /\ told'[x] = told[x]
            /\ copy[c].overlapped => doc[x] = rounded(told[x])
  BY <1>1, <1>4 DEF IInv, ToldIsWritten, Tolds, tellsOf, doc
<1>9. \A x \in Cleaned : told'[x] \notin {None, Lost} => entries'[x] = rounded(told'[x])
  <2> SUFFICES ASSUME NEW x \in Cleaned, told'[x] \notin {None, Lost}
               PROVE  entries'[x] = rounded(told'[x])
    OBVIOUS
  <2>1. CASE x = k
    BY <1>7, <1>8, <2>1
  <2>2. CASE x # k /\ copy[c].overlapped
    BY <1>7, <1>8, <2>2
  <2>3. CASE x # k /\ ~copy[c].overlapped
    BY <1>6, <1>7, <1>8, <2>3 DEF IInv, ToldIsWritten
  <2> QED BY <2>1, <2>2, <2>3
<1>10. /\ copy' \in [Commands -> Copies \cup {None}]
       /\ \A d \in Commands : copy'[d] # None => copy'[d].overlapped
  <2>1. None \notin Copies
    BY NamingAssumption
  <2>2. /\ overlapped \in [Commands -> Copies \cup {None}]
        /\ \A d \in Commands : overlapped[d] # None => overlapped[d].overlapped
    BY <2>1, OverlappedIs DEF IInv, ToldIsWritten
  <2> HIDE DEF overlapped
  <2> QED BY <1>1, <2>2
<1>11. ToldIsWritten'
  BY <1>7, <1>8, <1>9, <1>10 DEF ToldIsWritten
<1>12. proc'[c] # None
  BY <1>1, <1>2, <1>5, NamingAssumption DEF IInv, Typed
<1>13. QED BY <1>1, <1>5, <1>11, <1>12, StepKeeps

LEMMA WriteBackKeeps ==
    ASSUME NEW c \in Commands, IInv, WriteBack(c) PROVE IInv' /\ proc'[c] # None
<1>1. /\ proc[c] # None /\ proc[c].pending # << >> /\ UNCHANGED <<at_start, asked>>
      /\ rememberReads(c) \/ rememberWrites(c)
  BY DEF WriteBack, Flush
<1>2. CASE rememberReads(c)
  <2>1. proc' = proc
    BY <1>2 DEF rememberReads
  <2> QED BY <1>1, <1>2, <2>1, ReadsKeeps
<1>3. CASE rememberWrites(c)
  BY <1>1, <1>3, WritesKeeps
<1> QED BY <1>1, <1>2, <1>3

\* A person writes an entry: what was told of it does not count any more.
LEMMA EditEntryKeeps == ASSUME IInv, EditEntry PROVE IInv'
<1>1. UNCHANGED <<proc, at_start, asked>> /\ copy' = overlapped
  BY DEF EditEntry
<1>2. PICK k \in Cleaned, a \in {None} \cup ByHand :
        entries' = [entries EXCEPT ![k] = a] /\ told' = [told EXCEPT ![k] = None]
  BY DEF EditEntry
<1>3. a \in Answers \cup {None}
  BY NamingAssumption
<1>4. /\ copy' \in [Commands -> Copies \cup {None}]
      /\ \A d \in Commands : copy'[d] # None => copy'[d].overlapped
  <2>1. None \notin Copies
    BY NamingAssumption
  <2> QED BY <1>1, <2>1, OverlappedIs DEF IInv, ToldIsWritten
<1>5. ToldIsWritten'
  BY <1>2, <1>3, <1>4 DEF IInv, ToldIsWritten, Tables, Tolds
<1>6. Typed' /\ \A c \in Commands : Keeps(c)'
  BY <1>1, OtherKeeps DEF IInv, Typed
<1>7. QED BY <1>5, <1>6 DEF IInv

LEMMA NamingStutters == ASSUME IInv, UNCHANGED <<entries, copy, proc, told, at_start, asked>> PROVE IInv'
<1>1. Typed' /\ ToldIsWritten'
  BY DEF IInv, Typed, ToldIsWritten
<1>2. \A c \in Commands : Keeps(c)'
  BY OtherKeeps DEF IInv
<1>3. QED BY <1>1, <1>2 DEF IInv

LEMMA NextIInv == IInv /\ [AdviceNext]_all => IInv'
<1> SUFFICES ASSUME IInv, [AdviceNext]_all PROVE IInv'
  OBVIOUS
<1>1. CASE DoctorNext
  <2>1. ASSUME NEW c \in Commands, Begin(c) PROVE IInv'
    BY <2>1, BeginKeeps
  <2>2. ASSUME NEW c \in Commands, ReadRules(c) \/ Evaluate(c) \/ ReadSuppressed(c) \/ ReadEvent(c)
        PROVE  IInv'
    BY <2>2, ReadingKeeps
  <2>3. ASSUME NEW c \in Commands, Classify(c) PROVE IInv'
    BY <2>3, ClassifyKeeps
  <2>4. ASSUME NEW c \in Commands, WriteBack(c) PROVE IInv'
    BY <2>4, WriteBackKeeps
  <2>5. CASE EditRules
    BY <2>5, NamingStutters DEF EditRules
  <2>6. CASE EditEntry
    BY <2>6, EditEntryKeeps
  <2>7. QED BY <1>1, <2>1, <2>2, <2>3, <2>4, <2>5, <2>6 DEF DoctorNext
<1>2. CASE UNCHANGED advice
  BY <1>2, NamingStutters DEF advice, naming, kept
<1>3. CASE UNCHANGED all
  BY <1>3, NamingStutters DEF all, advice, naming, kept
<1>4. QED BY <1>1, <1>2, <1>3 DEF AdviceNext

\* The inductive invariant, over any number of commands at once.
THEOREM Invariance == AdviceSpec => []IInv
  BY InitIInv, NextIInv, PTL DEF AdviceSpec

\* A command asks at most once for a name, and never for one it or an earlier command wrote
\* an answer to, but for answers that overlapping flushes lost (AskedOnce).
THEOREM AskedOnceHolds == AdviceSpec => []AskedOnce
<1>1. IInv => AskedOnce
  <2> SUFFICES ASSUME IInv, NEW c \in Commands, NEW k \in Cleaned
               PROVE  asked[c][k] <= 1 /\ (at_start[c][k] \notin {None, Lost} => asked[c][k] = 0)
    BY DEF AskedOnce
  <2>1. asked[c][k] \in 0..1
    BY DEF IInv, Typed
  <2>2. at_start[c][k] \notin {None, Lost} => asked[c][k] = 0
    BY DEF IInv, Keeps, HasRead, HasNotRead
  <2>3. QED BY <2>1, <2>2
<1>2. QED BY <1>1, Invariance, PTL

\* What a command wrote the next one is told again, of the same kind and not below LOW, but
\* for answers that overlapping flushes lost (SameNextTime).
THEOREM SameNextTimeHolds == AdviceSpec => []SameNextTime
<1>1. IInv => SameNextTime
  <2> SUFFICES ASSUME IInv, NEW c \in Commands, proc[c] # None,
                      NEW k \in Cleaned \cap DOMAIN proc[c].memo, at_start[c][k] \notin {None, Lost}
               PROVE  LET before == at_start[c][k]
                          now == proc[c].memo[k]
                      IN /\ now.kind = before.kind
                         /\ now.conf \in (before.conf - 5)..(before.conf + 5)
                         /\ is_usable(before) => is_usable(now)
    BY DEF SameNextTime
  <2>1. at_start[c][k] \in Answers
    BY DEF IInv, Typed, Tolds
  <2>2. HasRead(c)
    BY DEF IInv, Keeps, HasNotRead
  <2>3. proc[c].memo[k] = rounded(at_start[c][k])
    BY <2>2 DEF HasRead
  <2>4. QED BY <2>1, <2>3, RoundedIs DEF is_usable
<1>2. QED BY <1>1, Invariance, PTL

-----------------------------------------------------------------------------
(* The key line and the calls                                              *)

\* The key line read off its configuration, and a call asked for a key, in an environment
\* that never changes: nothing usable is said of a configuration just when an adapter has
\* no key to send, but for a marker that was pasted.
HintReads ==
    hint # None => hint.says = IF hint.of.is = "no_yaml" THEN "raises"
                               ELSE IF ~raises(hint.of) /\ has_usable_key(hint.of) THEN "configured" ELSE "no_key"

CallIs ==
    call # None => /\ call = [of |-> call.of, attempt |-> call.attempt, probe |-> call.probe]
                   /\ ~raises(call.of)

AnswerTells ==
    answer # None =>
        \/ answer.fate = "config"
        \/ answer.fate = "no_key" /\ is_placeholder_key(keySent(answer.of))
        \/ /\ answer.fate \notin {"config", "no_key"}
           /\ ~raises(answer.of) /\ ~is_placeholder_key(keySent(answer.of))

KeyInv == HintReads /\ CallIs /\ AnswerTells

\* Before anything was shown or asked there is nothing to agree on.
LEMMA InitKeyInv == ProviderInit => KeyInv
BY DEF ProviderInit, KeyInv, HintReads, CallIs, AnswerTells

\* What is kept while the environment, the key line, the call and the answer are.
LEMMA HintStays == ASSUME HintReads, UNCHANGED <<environ, hint>> PROVE HintReads'
BY DEF HintReads, has_usable_key, raises

LEMMA AnswerStays == ASSUME AnswerTells, UNCHANGED <<environ, answer>> PROVE AnswerTells'
BY DEF AnswerTells, keySent, raises

LEMMA CallStays == ASSUME CallIs, UNCHANGED call PROVE CallIs'
BY DEF CallIs, raises

\* The key line is read afresh.
LEMMA ShowKeyLineKeeps == ASSUME KeyInv, ShowKeyLine PROVE KeyInv'
<1> DEFINE c == resolve_config
<1>1. hint' = [of |-> c, says |-> IF c.is = "no_yaml" THEN "raises"
                                  ELSE IF ~raises(c) /\ has_usable_key(c) THEN "configured" ELSE "no_key"]
  BY DEF ShowKeyLine
<1>2. UNCHANGED <<environ, call, answer>>
  BY DEF ShowKeyLine
<1> HIDE DEF c
<1>3. HintReads'
  BY <1>1, <1>2 DEF HintReads, has_usable_key, raises
<1>4. QED BY <1>2, <1>3, AnswerStays, CallStays DEF KeyInv

\* A call begins with a configuration that was read, or ends there.
LEMMA AskModelKeeps == ASSUME KeyInv, AskModel PROVE KeyInv'
<1> DEFINE c == resolve_config
<1>1. begins(c, None) /\ UNCHANGED <<environ, hint>>
  BY DEF AskModel
<1> HIDE DEF c
<1>2. CASE raises(c)
  <2>1. answer'.fate = "config" /\ UNCHANGED call
    BY <1>1, <1>2 DEF begins
  <2>2. AnswerTells'
    BY <2>1 DEF AnswerTells
  <2>3. QED BY <1>1, <2>1, <2>2, HintStays, CallStays DEF KeyInv
<1>3. CASE ~raises(c)
  <2>1. call' = [of |-> c, attempt |-> 1, probe |-> None] /\ answer' = None
    BY <1>1, <1>3 DEF begins
  <2>2. QED BY <1>1, <1>3, <2>1, HintStays DEF KeyInv, CallIs, AnswerTells, raises
<1>4. QED BY <1>2, <1>3

\* An attempt ends for want of a key, or sent one.
LEMMA AttemptKeeps == ASSUME KeyInv, Attempt PROVE KeyInv'
<1> DEFINE c == call.of
<1>1. UNCHANGED <<environ, hint>> /\ call # None
  BY DEF Attempt
<1>2. HintReads'
  BY <1>1, HintStays DEF KeyInv
<1>3. CASE is_placeholder_key(keySent(c))
  <2>1. ends("no_key", classify(chainOf(c, "no_key")))
    BY <1>3 DEF Attempt
  <2>2. answer'.of = c /\ answer'.fate = "no_key" /\ call' = None
    BY <2>1 DEF ends
  <2>3. QED BY <1>1, <1>2, <1>3, <2>2 DEF KeyInv, CallIs, AnswerTells, keySent, raises
<1>4. CASE ~is_placeholder_key(keySent(c))
  <2>1. PICK fate \in Fates(c) :
            IF fate = "fits" THEN ends(fate, "ok")
            ELSE IF fate # "misfits" THEN ends(fate, classify(chainOf(c, fate)))
            ELSE IF call.attempt = 2 THEN ends(fate, classify(<<exception("ProviderError", 0, "nothing")>>))
            ELSE call' = [call EXCEPT !.attempt = 2] /\ UNCHANGED answer
    BY <1>4 DEF Attempt
  <2>2. fate \notin {"config", "no_key"}
    BY DEF Fates
  <2>3. \/ answer'.of = c /\ answer'.fate = fate /\ call' = None
        \/ call' = [call EXCEPT !.attempt = 2] /\ UNCHANGED answer
    BY <2>1 DEF ends
  <2>4. CASE answer'.of = c /\ answer'.fate = fate /\ call' = None
    BY <1>1, <1>2, <1>4, <2>2, <2>4 DEF KeyInv, CallIs, AnswerTells, keySent, raises
  <2>5. CASE call' = [call EXCEPT !.attempt = 2] /\ UNCHANGED answer
    <3>1. call = [of |-> call.of, attempt |-> call.attempt, probe |-> call.probe]
      BY <1>1 DEF KeyInv, CallIs
    <3>2. call' = [of |-> call.of, attempt |-> 2, probe |-> call.probe]
      BY <2>5, <3>1
    <3>3. QED BY <1>1, <1>2, <2>5, <3>2, AnswerStays DEF KeyInv, CallIs, raises
  <2>6. QED BY <2>3, <2>4, <2>5
<1>5. QED BY <1>3, <1>4

\* Test connection asks with what resolve_config finds after the save.
LEMMA TestConnectionKeeps == ASSUME KeyInv, TestConnection PROVE KeyInv'
<1>1. UNCHANGED <<environ, hint>>
  BY DEF TestConnection
<1>2. \/ UNCHANGED <<call, answer>>
      \/ (\E c, p : call' = [of |-> c, attempt |-> 1, probe |-> p] /\ ~raises(c)) /\ answer' = None
  BY DEF TestConnection
<1>3. CASE UNCHANGED <<call, answer>>
  BY <1>1, <1>3, HintStays, AnswerStays, CallStays DEF KeyInv
<1>4. CASE (\E c, p : call' = [of |-> c, attempt |-> 1, probe |-> p] /\ ~raises(c)) /\ answer' = None
  BY <1>1, <1>4, HintStays DEF KeyInv, CallIs, AnswerTells, raises
<1>5. QED BY <1>2, <1>3, <1>4

\* No other step touches what is shown, asked and answered.
LEMMA NextKeyInv == KeyInv /\ [AdviceNext]_all => KeyInv'
<1> SUFFICES ASSUME KeyInv, [AdviceNext]_all PROVE KeyInv'
  OBVIOUS
<1>1. ASSUME UNCHANGED <<environ, hint, call, answer>> PROVE KeyInv'
  BY <1>1, HintStays, AnswerStays, CallStays DEF KeyInv
<1>2. CASE ProviderNext
  <2>1. CASE OpenSettings \/ Fill \/ Save \/ CloseSettings \/ EditFile
    BY <1>1, <2>1 DEF OpenSettings, Fill, Save, CloseSettings, EditFile
  <2>2. QED BY <1>2, <2>1, ShowKeyLineKeeps, AskModelKeeps, AttemptKeeps, TestConnectionKeeps DEF ProviderNext
<1>3. CASE UNCHANGED pvars
  BY <1>1, <1>3 DEF pvars
<1>4. CASE UNCHANGED all
  BY <1>1, <1>4 DEF all, pvars
<1>5. QED BY <1>2, <1>3, <1>4 DEF AdviceNext

\* The key line and the calls agree, whatever the files and the environment hold: of one
\* configuration the page and an adapter say the same, but for a marker that was pasted.
THEOREM HintAgreesHolds == AdviceSpec => []HintAgrees
<1>1. KeyInv => HintAgrees
  <2> SUFFICES ASSUME KeyInv, hint # None, answer # None, answer.of = hint.of
               PROVE  /\ hint.says = "no_key" => answer.fate \in {"no_key", "config"}
                      /\ hint.says = "configured" /\ hint.of.key # "marker" => answer.fate # "no_key"
    BY DEF HintAgrees
  <2> DEFINE c == hint.of
  <2>1. CASE raises(c)
    BY <2>1 DEF KeyInv, HintReads, AnswerTells
  <2>2. CASE ~raises(c) /\ has_usable_key(c)
    <3>1. c.key # "marker" => ~is_placeholder_key(keySent(c))
      BY <2>2 DEF has_usable_key, keySent, is_placeholder_key
    <3>2. hint.says # "no_key"
      BY <2>2 DEF KeyInv, HintReads
    <3>3. QED BY <3>1, <3>2 DEF KeyInv, AnswerTells
  <2>3. CASE ~raises(c) /\ ~has_usable_key(c)
    <3>1. is_placeholder_key(keySent(c))
      BY <2>3 DEF has_usable_key, keySent, is_placeholder_key
    <3>2. hint.says # "configured"
      BY <2>3 DEF KeyInv, HintReads
    <3>3. QED BY <3>1, <3>2 DEF KeyInv, AnswerTells
  <2>4. QED BY <2>1, <2>2, <2>3
<1>2. QED BY <1>1, InitKeyInv, NextKeyInv, PTL DEF AdviceSpec

-----------------------------------------------------------------------------
(* The report of the doctor                                                *)

\* What a command has read is what the files say, as long as no one edits them; a report
\* that is said accounts for every base rule.
ReadAsItStands(c) ==
    LET profile == report[c].profile IN
    proc[c] # None /\ ~edited[c] =>
        /\ proc[c].at \in {"names", "suppressed", "event"} =>
             readable(profile) /\ report[c].rules = active_rules(profile)
        /\ proc[c].at = "event" => report[c].suppressed = suppressed_ids(profile)

SaidAtTheEnd(c) ==
    /\ proc[c] = None => report[c].said # "report"
    /\ proc[c] # None /\ proc[c].at \in {"rules", "names", "suppressed", "event"} =>
         report[c].said # "report"
    /\ report[c].said = "report" /\ ~edited[c] => accountedIn(report[c])

Making(c) == ReadAsItStands(c) /\ SaidAtTheEnd(c)

\* A report has its parts.
FIELDS == {"profile", "json", "rules", "findings", "suppressed", "off_event", "said"}
IsReport(r) == r = [f \in FIELDS |-> r[f]] /\ r.profile \in BOOLEAN

FilesTyped == principles \in Principles /\ show \in {None} \cup Shows
ReportsTyped ==
    /\ report = [c \in Commands |-> report[c]] /\ \A c \in Commands : IsReport(report[c])
    /\ edited = [c \in Commands |-> edited[c]]

ReportInv == FilesTyped /\ ReportsTyped /\ \A c \in Commands : Making(c)

\* What is read of files that stay is the same.
LEMMA ReadAgain ==
    ASSUME UNCHANGED rules_on_disk, NEW p \in BOOLEAN
    PROVE  /\ readable(p)' = readable(p)
           /\ active_rules(p)' = active_rules(p)
           /\ suppressed_ids(p)' = suppressed_ids(p)
<1>0. principles' = principles /\ show' = show
  BY DEF rules_on_disk
<1>1. readable(p)' = readable(p)
  BY <1>0 DEF readable
<1>2. candidates(p)' = candidates(p)
  BY <1>0 DEF candidates
<1>3. higher(p)' = higher(p)
  BY <1>2 DEF higher
<1>4. profile_event(p)' = profile_event(p)
  BY <1>0 DEF profile_event
<1>5. active_rules(p)' = active_rules(p)
  BY <1>3, <1>4 DEF active_rules
<1>6. suppressed_ids(p)' = suppressed_ids(p)
  BY <1>3 DEF suppressed_ids, suppressing
<1> QED BY <1>1, <1>5, <1>6

\* The rules above the base: the principles, and the show's.
Above ==
    {_as_rule(principles[i]) : i \in DOMAIN principles}
        \cup {_rule_from(show.rules[i], "show") : i \in DOMAIN show.rules}

LEMMA CandidatesAreAbove ==
    ASSUME FilesTyped, NEW p \in BOOLEAN, readable(p)
    PROVE  candidates(p) \in Seq(Above)
<1> DEFINE mine == [i \in DOMAIN principles |-> _as_rule(principles[i])]
           theirs == IF p THEN [i \in DOMAIN show.rules |-> _rule_from(show.rules[i], "show")] ELSE << >>
<1>1. mine \in Seq(Above)
  <2>1. principles \in Seq(Range(principles))
    BY AdviceAssumption DEF FilesTyped
  <2>2. DOMAIN principles = 1..Len(principles) /\ Len(principles) \in Nat
    BY <2>1, LenProperties
  <2>3. mine \in [1..Len(principles) -> Above]
    BY <2>2 DEF Above
  <2> QED BY <2>2, <2>3, SeqDef
<1>2. theirs \in Seq(Above)
  <2>1. CASE p
    <3>1. show \in Shows
      BY <2>1 DEF FilesTyped, readable
    <3>2. show.rules \in Seq(Range(show.rules))
      BY <3>1, AdviceAssumption
    <3>3. DOMAIN show.rules = 1..Len(show.rules) /\ Len(show.rules) \in Nat
      BY <3>2, LenProperties
    <3>4. theirs = [i \in 1..Len(show.rules) |-> _rule_from(show.rules[i], "show")]
      BY <2>1, <3>3
    <3>5. theirs \in [1..Len(show.rules) -> Above]
      BY <3>3, <3>4 DEF Above
    <3> QED BY <3>3, <3>5, SeqDef
  <2>2. CASE ~p
    BY <2>2
  <2> QED BY <2>1, <2>2
<1>3. candidates(p) = mine \o theirs
  BY DEF candidates
<1> HIDE DEF mine, theirs
<1> QED BY <1>1, <1>2, <1>3

\* Those of them that are active are a list of rules of other layers than the base.
LEMMA HigherAreAbove ==
    ASSUME FilesTyped, NEW p \in BOOLEAN, readable(p)
    PROVE  /\ Len(higher(p)) \in Nat /\ DOMAIN higher(p) = 1..Len(higher(p))
           /\ \A rule \in Range(higher(p)) : rule.layer # "base"
<1> DEFINE X == {rule \in Range(candidates(p)) : _is_active(rule)}
<1>1. candidates(p) \in Seq(Above)
  BY CandidatesAreAbove
<1> HIDE DEF X
<1>2. selected(candidates(p), X) \in Seq(Above)
  BY <1>1, SelectedSet
<1>3. higher(p) \in Seq(Above)
  BY <1>2 DEF higher, X
<1>4. Len(higher(p)) \in Nat /\ DOMAIN higher(p) = 1..Len(higher(p))
  BY <1>3, LenProperties
<1>5. \A i \in DOMAIN higher(p) : higher(p)[i] \in Above
  BY <1>3, <1>4
<1>6. Range(higher(p)) \subseteq Above
  BY <1>5 DEF Range
<1>7. \A rule \in Above : rule.layer # "base"
  <2>1. \A e : _as_rule(e).layer = "toanaz"
    BY DEF _as_rule, ruleOf
  <2>2. \A e : _rule_from(e, "show").layer = "show"
    BY DEF _rule_from, ruleOf
  <2> QED BY <2>1, <2>2 DEF Above
<1> QED BY <1>4, <1>6, <1>7

\* Of the rules that name an id there is a last one.
LEMMA LastToName ==
    ASSUME NEW rules, Len(rules) \in Nat, DOMAIN rules = 1..Len(rules),
           NEW id, \E i \in DOMAIN rules : id \in rules[i].supersedes
    PROVE  lastNaming(rules, id) \in DOMAIN rules /\ id \in rules[lastNaming(rules, id)].supersedes
<1> DEFINE n == Len(rules)
           named == {i \in 1..n : id \in rules[i].supersedes}
           fromEnd == {k \in Nat : k < n /\ n - k \in named}
<1>1. fromEnd \subseteq Nat /\ fromEnd # {}
  <2>1. PICK i \in 1..n : id \in rules[i].supersedes
    OBVIOUS
  <2>2. n - i \in Nat /\ n - i < n /\ n - (n - i) = i
    OBVIOUS
  <2>3. n - i \in fromEnd
    BY <2>1, <2>2
  <2> QED BY <2>3
<1> HIDE DEF fromEnd
<1>2. PICK k \in fromEnd : \A j \in fromEnd : k <= j
  BY <1>1, LeastNat
<1> USE DEF fromEnd
<1> DEFINE last == n - k
<1>3. k \in Nat /\ k < n /\ last \in 1..n /\ last \in named
  BY <1>2
<1>4. \A j \in (last + 1)..n : id \notin rules[j].supersedes
  <2> SUFFICES ASSUME NEW j \in (last + 1)..n, id \in rules[j].supersedes PROVE FALSE
    OBVIOUS
  <2>1. j \in 1..n /\ n - j \in Nat /\ n - j < n /\ n - (n - j) = j /\ ~(k <= n - j)
    BY <1>3
  <2>2. n - j \in fromEnd
    BY <2>1
  <2> QED BY <1>2, <2>1, <2>2
<1> HIDE DEF last, n
<1>5. \E i \in DOMAIN rules : /\ id \in rules[i].supersedes
                              /\ \A j \in (i + 1)..Len(rules) : id \notin rules[j].supersedes
  BY <1>3, <1>4 DEF n
<1> QED BY <1>5 DEF lastNaming

\* Base rules are told apart by their ids, and by their layer from all others.
LEMMA BaseIds ==
    /\ \A a, b \in base : a.id = b.id => a = b
    /\ \A b \in base : b.layer = "base"
<1>1. \A e \in BaseRules : _rule_from(e, "base").id = e.id /\ _rule_from(e, "base").layer = "base"
  BY DEF _rule_from, ruleOf
<1>2. \A b \in base : \E e \in BaseRules : b = _rule_from(e, "base")
  BY DEF base
<1> QED BY <1>1, <1>2, AdviceAssumption

\* What was read in one piece accounts for every base rule.
LEMMA ReadInOnePiece ==
    ASSUME FilesTyped, NEW p \in BOOLEAN, readable(p), NEW r,
           r.rules = active_rules(p), r.suppressed = suppressed_ids(p), r.off_event = off_event_ids(p)
    PROVE  accountedIn(r)
<1> DEFINE H == Range(higher(p))
           off == UNION {rule.supersedes : rule \in H}
           foreign(b) == offEvent(b, profile_event(p))
<1>1. /\ Len(higher(p)) \in Nat /\ DOMAIN higher(p) = 1..Len(higher(p))
      /\ \A rule \in H : rule.layer # "base"
  BY HigherAreAbove
<1>2. r.rules = {b \in base : b.id \notin off /\ ~foreign(b)} \cup H
  BY DEF active_rules
<1>3. DOMAIN r.suppressed = off
  BY DEF suppressed_ids, suppressing, lastToName
<1>4. r.off_event = {b.id : b \in {x \in base : foreign(x)}}
  BY DEF off_event_ids
<1>5. ASSUME NEW id \in off
      PROVE  \E rule \in r.rules : rule.id = r.suppressed[id] /\ id \in rule.supersedes
  <2> DEFINE l == lastNaming(higher(p), id)
  <2>1. \E i \in DOMAIN higher(p) : id \in higher(p)[i].supersedes
    BY <1>5 DEF Range
  <2>2. l \in DOMAIN higher(p) /\ id \in higher(p)[l].supersedes
    BY <1>1, <2>1, LastToName
  <2>3. higher(p)[l] \in H
    BY <2>2 DEF Range
  <2>4. r.suppressed[id] = higher(p)[l].id
    BY <1>5 DEF suppressed_ids, suppressing, lastToName
  <2> HIDE DEF l
  <2> QED BY <1>2, <2>2, <2>3, <2>4
<1> HIDE DEF H, off, foreign
<1> DEFINE ran == {rule.id : rule \in {x \in r.rules : x.layer = "base" /\ x.enabled}}
<1>6. ASSUME NEW b \in base, b.id \in ran PROVE b.enabled /\ b.id \notin off \cup r.off_event
  <2>1. PICK x \in r.rules : x.layer = "base" /\ x.enabled /\ x.id = b.id
    BY <1>6
  <2>2. x \in base /\ x.id \notin off /\ ~foreign(x)
    BY <1>1, <1>2, <2>1
  <2>3. x = b
    BY <2>1, <2>2, BaseIds
  <2>4. b.id \notin r.off_event
    <3> SUFFICES ASSUME NEW y \in base, foreign(y), y.id = b.id PROVE FALSE
      BY <1>4
    <3>1. y = b
      BY BaseIds
    <3> QED BY <2>2, <2>3, <3>1
  <2> QED BY <2>1, <2>2, <2>3, <2>4
<1>7. ASSUME NEW b \in base, b.enabled, b.id \notin off \cup r.off_event PROVE b.id \in ran
  <2>1. ~foreign(b)
    BY <1>4, <1>7
  <2>2. b \in r.rules /\ b.layer = "base"
    BY <1>2, <1>7, <2>1, BaseIds
  <2> QED BY <1>7, <2>2
<1>8. \A b \in base : b.id \in ran <=> b.enabled /\ b.id \notin off \cup r.off_event
  BY <1>6, <1>7
<1> QED BY <1>3, <1>5, <1>8 DEF accountedIn

\* Nothing is read and nothing said before the first command.
LEMMA InitReport == AdviceInit => ReportInv
<1> SUFFICES ASSUME AdviceInit PROVE ReportInv
  OBVIOUS
<1>1. FilesTyped
  BY DEF AdviceInit, FilesTyped
<1>2. /\ report = [c \in Commands |-> unread] /\ edited = [c \in Commands |-> FALSE]
      /\ proc = [c \in Commands |-> None]
  BY DEF AdviceInit, NamingInit
<1>3. IsReport(unread) /\ unread.said = None
  BY DEF IsReport, FIELDS, unread
<1>4. ReportsTyped
  BY <1>2, <1>3 DEF ReportsTyped
<1>5. \A c \in Commands : Making(c)
  BY <1>2, <1>3, AdviceAssumption DEF Making, ReadAsItStands, SaidAtTheEnd
<1> QED BY <1>1, <1>4, <1>5 DEF ReportInv

\* A command that stands where it stood, with the files as they were.
LEMMA StandsStill ==
    ASSUME ReportInv, NEW c \in Commands, UNCHANGED rules_on_disk,
           report'[c] = report[c], edited'[c] = edited[c],
           proc'[c] = None <=> proc[c] = None, proc[c] # None => proc'[c].at = proc[c].at
    PROVE  Making(c)'
<1> DEFINE p == report[c].profile
<1>1. Making(c) /\ p \in BOOLEAN
  BY DEF ReportInv, ReportsTyped, IsReport
<1>2. report'[c].profile = p
  OBVIOUS
<1>3. readable(p)' = readable(p) /\ active_rules(p)' = active_rules(p) /\ suppressed_ids(p)' = suppressed_ids(p)
  BY <1>1, ReadAgain
<1>4. ReadAsItStands(c)'
  <2> SUFFICES ASSUME proc'[c] # None, ~edited'[c]
               PROVE  /\ proc'[c].at \in {"names", "suppressed", "event"} =>
                           readable(p)' /\ report'[c].rules = active_rules(p)'
                      /\ proc'[c].at = "event" => report'[c].suppressed = suppressed_ids(p)'
    BY DEF ReadAsItStands
  <2>1. proc[c] # None /\ ~edited[c] /\ proc'[c].at = proc[c].at
    OBVIOUS
  <2>2. /\ proc[c].at \in {"names", "suppressed", "event"} =>
             readable(p) /\ report[c].rules = active_rules(p)
        /\ proc[c].at = "event" => report[c].suppressed = suppressed_ids(p)
    BY <1>1, <2>1 DEF Making, ReadAsItStands
  <2> QED BY <1>3, <2>1, <2>2
<1>5. SaidAtTheEnd(c)'
  BY <1>1 DEF Making, SaidAtTheEnd
<1> QED BY <1>4, <1>5 DEF Making

\* A step of one command writes its own report.
LEMMA OneReport ==
    ASSUME ReportInv, NEW c \in Commands, NEW r, IsReport(r), report' = [report EXCEPT ![c] = r],
           UNCHANGED rules_on_disk, edited' = [d \in Commands |-> edited'[d]],
           \A d \in Commands \ {c} : edited'[d] = edited[d] /\ proc'[d] = proc[d],
           Making(c)'
    PROVE  ReportInv'
<1>1. /\ report'[c] = r /\ \A d \in Commands \ {c} : report'[d] = report[d]
      /\ report' = [d \in Commands |-> report'[d]]
  BY DEF ReportInv, ReportsTyped
<1>2. ReportsTyped'
  BY <1>1 DEF ReportInv, ReportsTyped
<1>3. \A d \in Commands \ {c} : Making(d)'
  BY <1>1, StandsStill
<1>4. FilesTyped'
  BY DEF ReportInv, FilesTyped, rules_on_disk
<1> QED BY <1>2, <1>3, <1>4 DEF ReportInv

LEMMA ProcIs ==
    ASSUME IInv, NEW c \in Commands, proc[c] # None, NEW at \in Stages, goes(c, at)
    PROVE  /\ proc'[c] # None /\ proc'[c].at = at
           /\ \A d \in Commands \ {c} : proc'[d] = proc[d]
<1>1. proc[c] \in Classifiers /\ proc \in [Commands -> Classifiers \cup {None}]
  BY DEF IInv, Typed
<1>2. DOMAIN proc[c] = {"at", "disk", "memo", "pending"}
  BY <1>1 DEF Classifiers
<1>3. /\ proc'[c] = [proc[c] EXCEPT !.at = at]
      /\ \A d \in Commands \ {c} : proc'[d] = proc[d]
  BY <1>1 DEF goes
<1>4. proc'[c].at = at
  BY <1>2, <1>3
<1>5. proc'[c] # None
  <2>1. proc'[c] \in Classifiers
    BY <1>1, <1>3 DEF Classifiers
  <2> QED BY <2>1, NamingAssumption
<1> QED BY <1>3, <1>4, <1>5

\* A command begins.
LEMMA BeginReports == ASSUME IInv, ReportInv, NEW c \in Commands, Begin(c) PROVE ReportInv'
<1>1. /\ proc' = [proc EXCEPT ![c] = started("rules")] /\ edited' = [edited EXCEPT ![c] = FALSE]
      /\ UNCHANGED rules_on_disk
  BY DEF Begin
<1>2. PICK profile, json \in BOOLEAN :
        report' = [report EXCEPT ![c] = [unread EXCEPT !.profile = profile, !.json = json]]
  BY DEF Begin
<1> DEFINE r == [unread EXCEPT !.profile = profile, !.json = json]
<1>3. IsReport(r) /\ r.said = None
  BY DEF unread, IsReport, FIELDS
<1> HIDE DEF r
<1>4. /\ edited' = [d \in Commands |-> edited'[d]]
      /\ \A d \in Commands \ {c} : edited'[d] = edited[d]
      /\ report'[c] = r
  BY <1>1, <1>2 DEF ReportInv, ReportsTyped, r
<1>5. /\ proc'[c] = started("rules") /\ \A d \in Commands \ {c} : proc'[d] = proc[d]
  BY <1>1 DEF IInv, Typed
<1>6. proc'[c].at = "rules"
  BY <1>5 DEF started
<1>7. ReadAsItStands(c)'
  BY <1>6 DEF ReadAsItStands
<1>8. SaidAtTheEnd(c)'
  BY <1>3, <1>4, AdviceAssumption DEF SaidAtTheEnd
<1>9. Making(c)'
  BY <1>7, <1>8 DEF Making
<1>10. report' = [report EXCEPT ![c] = r]
  BY <1>2 DEF r
<1> QED BY <1>1, <1>3, <1>4, <1>5, <1>9, <1>10, OneReport

\* A command that read its files writes into its own report, and goes on.
LEMMA ReadingReports ==
    ASSUME IInv, ReportInv, NEW c \in Commands, proc[c] # None, NEW at \in Stages, goes(c, at),
           NEW r, IsReport(r), report' = [report EXCEPT ![c] = r], r.profile = report[c].profile,
           UNCHANGED <<rules_on_disk, edited>>,
           ~edited[c] /\ at \in {"names", "suppressed", "event"} =>
               readable(r.profile) /\ r.rules = active_rules(r.profile),
           ~edited[c] /\ at = "event" => r.suppressed = suppressed_ids(r.profile),
           r.said = "report" => at \notin {"rules", "names", "suppressed", "event"},
           r.said = "report" /\ ~edited[c] => accountedIn(r)
    PROVE  ReportInv'
<1> DEFINE p == r.profile
<1>1. /\ proc'[c] # None /\ proc'[c].at = at /\ \A d \in Commands \ {c} : proc'[d] = proc[d]
  BY ProcIs
<1>2. /\ report'[c] = r /\ edited' = [d \in Commands |-> edited'[d]]
      /\ \A d \in Commands : edited'[d] = edited[d]
  BY DEF ReportInv, ReportsTyped
<1>3. p \in BOOLEAN
  BY DEF IsReport
<1>4. readable(p)' = readable(p) /\ active_rules(p)' = active_rules(p) /\ suppressed_ids(p)' = suppressed_ids(p)
  <2>1. UNCHANGED rules_on_disk
    OBVIOUS
  <2>2. \A q \in BOOLEAN : /\ readable(q)' = readable(q) /\ active_rules(q)' = active_rules(q)
                           /\ suppressed_ids(q)' = suppressed_ids(q)
    BY <2>1, ReadAgain
  <2> QED BY <1>3, <2>2
<1>5. ReadAsItStands(c)'
  BY <1>1, <1>2, <1>4 DEF ReadAsItStands
<1>6. SaidAtTheEnd(c)'
  BY <1>1, <1>2 DEF SaidAtTheEnd
<1>7. Making(c)'
  BY <1>5, <1>6 DEF Making
<1>8. UNCHANGED rules_on_disk /\ \A d \in Commands \ {c} : edited'[d] = edited[d] /\ proc'[d] = proc[d]
  BY <1>1, <1>2
<1> QED BY <1>2, <1>7, <1>8, OneReport

\* A report with one part written is a report, with the other parts as they were.
LEMMA WithSaid ==
    ASSUME NEW r, IsReport(r), NEW x, NEW s, s = [r EXCEPT !.said = x]
    PROVE  IsReport(s) /\ s.said = x /\ s.profile = r.profile
BY DEF IsReport, FIELDS

LEMMA WithRules ==
    ASSUME NEW r, IsReport(r), NEW x, NEW s, s = [r EXCEPT !.rules = x]
    PROVE  IsReport(s) /\ s.rules = x /\ s.profile = r.profile /\ s.said = r.said
BY DEF IsReport, FIELDS

LEMMA WithFindings ==
    ASSUME NEW r, IsReport(r), NEW x, NEW s, s = [r EXCEPT !.findings = x]
    PROVE  IsReport(s) /\ s.profile = r.profile /\ s.said = r.said /\ s.rules = r.rules
BY DEF IsReport, FIELDS

Dumped(r, found) == [r EXCEPT !.findings = found, !.said = "json"]
LEMMA WithDump ==
    ASSUME NEW r, IsReport(r), NEW found
    PROVE  LET s == Dumped(r, found) IN IsReport(s) /\ s.profile = r.profile /\ s.said = "json"
BY DEF IsReport, FIELDS, Dumped

LEMMA WithSuppressed ==
    ASSUME NEW r, IsReport(r), NEW x, NEW s, s = [r EXCEPT !.suppressed = x]
    PROVE  /\ IsReport(s) /\ s.suppressed = x
           /\ s.profile = r.profile /\ s.said = r.said /\ s.rules = r.rules
BY DEF IsReport, FIELDS

Printed(r, off, said) == [r EXCEPT !.off_event = off, !.said = said]
LEMMA WithEvent ==
    ASSUME NEW r, IsReport(r), NEW off, NEW said
    PROVE  LET s == Printed(r, off, said) IN
           /\ IsReport(s) /\ s.off_event = off
           /\ s.profile = r.profile /\ s.rules = r.rules /\ s.suppressed = r.suppressed
BY DEF IsReport, FIELDS, Printed

\* What went wrong is said instead of a report, and the command is done.
LEMMA SaysReports ==
    ASSUME IInv, ReportInv, NEW c \in Commands, proc[c] # None, NEW said, said # "report", says(c, said),
           UNCHANGED <<rules_on_disk, edited>>
    PROVE  ReportInv'
<1> DEFINE r == [report[c] EXCEPT !.said = said]
<1>1. IsReport(report[c]) /\ report = [d \in Commands |-> report[d]]
  BY DEF ReportInv, ReportsTyped
<1>e. r = [report[c] EXCEPT !.said = said]
  OBVIOUS
<1> HIDE DEF r
<1>2. IsReport(r) /\ r.said = said /\ r.profile = report[c].profile
  BY <1>1, <1>e, WithSaid
<1> USE DEF r
<1>3. goes(c, "done") /\ report' = [report EXCEPT ![c] = r] /\ "done" \in Stages
  BY DEF says, Stages
<1> HIDE DEF r
<1> QED BY <1>2, <1>3, ReadingReports

LEMMA ReadRulesReports == ASSUME IInv, ReportInv, NEW c \in Commands, ReadRules(c) PROVE ReportInv'
<1> DEFINE p == report[c].profile
           r == [report[c] EXCEPT !.rules = active_rules(p)]
<1>1. /\ proc[c] # None /\ proc[c].at = "rules" /\ UNCHANGED <<rules_on_disk, edited>>
      /\ \/ /\ readable(p) /\ goes(c, "names")
            /\ report' = [report EXCEPT ![c].rules = active_rules(p)]
         \/ says(c, "error")
  BY DEF ReadRules
<1>2. IsReport(report[c]) /\ report[c].said # "report"
  BY <1>1 DEF ReportInv, ReportsTyped, Making, SaidAtTheEnd
<1>e. r = [report[c] EXCEPT !.rules = active_rules(p)]
  OBVIOUS
<1> HIDE DEF r
<1>3. IsReport(r) /\ r.rules = active_rules(p) /\ r.profile = p /\ r.said # "report"
  BY <1>2, <1>e, WithRules
<1> USE DEF r
<1>4. CASE says(c, "error")
  BY <1>1, <1>4, SaysReports
<1>5. CASE readable(p) /\ goes(c, "names") /\ report' = [report EXCEPT ![c].rules = active_rules(p)]
  <2>1. report' = [report EXCEPT ![c] = r] /\ "names" \in Stages
    BY <1>5 DEF Stages
  <2> HIDE DEF r, p
  <2>2. readable(p) /\ goes(c, "names")
    BY <1>5
  <2>3. r.profile = report[c].profile /\ readable(r.profile) /\ r.rules = active_rules(r.profile)
    BY <1>3, <2>2 DEF p
  <2> QED BY <1>1, <1>3, <2>1, <2>2, <2>3, ReadingReports
<1> QED BY <1>1, <1>4, <1>5

LEMMA EvaluateReports == ASSUME IInv, ReportInv, NEW c \in Commands, Evaluate(c) PROVE ReportInv'
<1> DEFINE p == report[c].profile
<1>1. PICK found :
        /\ proc[c] # None /\ proc[c].at = "names" /\ UNCHANGED <<rules_on_disk, edited>>
        /\ \/ says(c, "error") \/ says(c, "raises")
           \/ report' = [report EXCEPT ![c] = [@ EXCEPT !.findings = found, !.said = "json"]]
              /\ goes(c, "flush")
           \/ report' = [report EXCEPT ![c].findings = found] /\ goes(c, "suppressed")
  BY DEF Evaluate
<1> DEFINE r == [report[c] EXCEPT !.findings = found]
<1>2. /\ IsReport(report[c]) /\ report[c].said # "report"
      /\ ~edited[c] => readable(p) /\ report[c].rules = active_rules(p)
  BY <1>1 DEF ReportInv, ReportsTyped, Making, SaidAtTheEnd, ReadAsItStands
<1>e. r = [report[c] EXCEPT !.findings = found]
  OBVIOUS
<1> HIDE DEF r
<1>3. IsReport(r) /\ r.rules = report[c].rules /\ r.profile = p /\ r.said # "report"
  BY <1>2, <1>e, WithFindings
<1> USE DEF r
<1>4. CASE says(c, "error") \/ says(c, "raises")
  BY <1>1, <1>4, SaysReports
<1>j. CASE report' = [report EXCEPT ![c] = [@ EXCEPT !.findings = found, !.said = "json"]]
           /\ goes(c, "flush")
  <2> DEFINE d == Dumped(report[c], found)
  <2>1. report' = [report EXCEPT ![c] = d] /\ "flush" \in Stages /\ goes(c, "flush")
    BY <1>j DEF Stages, Dumped
  <2>2. IsReport(d) /\ d.profile = report[c].profile /\ d.said = "json"
    BY <1>2, WithDump
  <2> HIDE DEF d
  <2> QED BY <1>1, <2>1, <2>2, ReadingReports
<1>5. CASE report' = [report EXCEPT ![c].findings = found] /\ goes(c, "suppressed")
  <2>1. report' = [report EXCEPT ![c] = r] /\ "suppressed" \in Stages
    BY <1>5 DEF Stages
  <2> HIDE DEF r, p
  <2>2. r.profile = report[c].profile
    BY <1>3 DEF p
  <2>3. ~edited[c] => readable(r.profile) /\ r.rules = active_rules(r.profile)
    BY <1>2, <1>3
  <2>4. goes(c, "suppressed")
    BY <1>5
  <2> QED BY <1>1, <1>3, <2>1, <2>2, <2>3, <2>4, ReadingReports
<1> QED BY <1>1, <1>4, <1>j, <1>5

LEMMA ReadSuppressedReports == ASSUME IInv, ReportInv, NEW c \in Commands, ReadSuppressed(c) PROVE ReportInv'
<1> DEFINE p == report[c].profile
           r == [report[c] EXCEPT !.suppressed = suppressed_ids(p)]
<1>1. /\ proc[c] # None /\ proc[c].at = "suppressed" /\ UNCHANGED <<rules_on_disk, edited>>
      /\ \/ report' = [report EXCEPT ![c].suppressed = suppressed_ids(p)] /\ goes(c, "event")
         \/ says(c, "raises")
  BY DEF ReadSuppressed
<1>2. /\ IsReport(report[c]) /\ report[c].said # "report"
      /\ ~edited[c] => readable(p) /\ report[c].rules = active_rules(p)
  BY <1>1 DEF ReportInv, ReportsTyped, Making, SaidAtTheEnd, ReadAsItStands
<1>e. r = [report[c] EXCEPT !.suppressed = suppressed_ids(p)]
  OBVIOUS
<1> HIDE DEF r
<1>3. /\ IsReport(r) /\ r.rules = report[c].rules /\ r.profile = p /\ r.said # "report"
      /\ r.suppressed = suppressed_ids(p)
  BY <1>2, <1>e, WithSuppressed
<1> USE DEF r
<1>4. CASE says(c, "raises")
  BY <1>1, <1>4, SaysReports
<1>5. CASE report' = [report EXCEPT ![c].suppressed = suppressed_ids(p)] /\ goes(c, "event")
  <2>1. report' = [report EXCEPT ![c] = r] /\ "event" \in Stages
    BY <1>5 DEF Stages
  <2> HIDE DEF r, p
  <2>2. r.profile = report[c].profile /\ r.suppressed = suppressed_ids(r.profile)
    BY <1>3 DEF p
  <2>3. ~edited[c] => readable(r.profile) /\ r.rules = active_rules(r.profile)
    BY <1>2, <1>3
  <2>4. goes(c, "event")
    BY <1>5
  <2> QED BY <1>1, <1>3, <2>1, <2>2, <2>3, <2>4, ReadingReports
<1> QED BY <1>1, <1>4, <1>5

LEMMA ReadEventReports == ASSUME IInv, ReportInv, NEW c \in Commands, ReadEvent(c) PROVE ReportInv'
<1> DEFINE p == report[c].profile
           r == Printed(report[c], off_event_ids(p), printed(c))
<1>1. /\ proc[c] # None /\ proc[c].at = "event" /\ UNCHANGED <<rules_on_disk, edited>>
      /\ \/ /\ report' = [report EXCEPT ![c] = [@ EXCEPT !.off_event = off_event_ids(p), !.said = printed(c)]]
            /\ goes(c, "flush")
         \/ says(c, "raises")
  BY DEF ReadEvent
<1>2. /\ IsReport(report[c]) /\ FilesTyped
      /\ ~edited[c] => /\ readable(p) /\ report[c].rules = active_rules(p)
                       /\ report[c].suppressed = suppressed_ids(p)
  BY <1>1 DEF ReportInv, ReportsTyped, Making, ReadAsItStands
<1>3. /\ IsReport(r) /\ r.rules = report[c].rules /\ r.profile = p
      /\ r.suppressed = report[c].suppressed /\ r.off_event = off_event_ids(p)
  BY <1>2, WithEvent
<1>4. CASE says(c, "raises")
  BY <1>1, <1>4, SaysReports
<1>5. CASE /\ report' = [report EXCEPT ![c] = [@ EXCEPT !.off_event = off_event_ids(p), !.said = printed(c)]]
           /\ goes(c, "flush")
  <2>1. report' = [report EXCEPT ![c] = r] /\ "flush" \in Stages
    BY <1>5 DEF Stages, Printed
  <2>p. p \in BOOLEAN
    BY <1>2 DEF IsReport
  <2> HIDE DEF r, p
  <2>2. r.profile = report[c].profile
    BY <1>3 DEF p
  <2>3. ASSUME ~edited[c] PROVE accountedIn(r)
    <3>1. readable(p) /\ r.rules = active_rules(p) /\ r.suppressed = suppressed_ids(p)
      BY <1>2, <1>3, <2>3
    <3> QED BY <1>2, <1>3, <2>p, <3>1, ReadInOnePiece
  <2>4. goes(c, "flush")
    BY <1>5
  <2> QED BY <1>1, <1>3, <2>1, <2>2, <2>3, <2>4, ReadingReports
<1> QED BY <1>1, <1>4, <1>5

\* The steps that resolve names leave every command where it stands.
LEMMA NamingReports ==
    ASSUME ReportInv, UNCHANGED <<rules_on_disk, report, edited>>,
           \A c \in Commands : /\ proc'[c] = None <=> proc[c] = None
                               /\ proc[c] # None => proc'[c].at = proc[c].at
    PROVE  ReportInv'
<1>1. \A c \in Commands : Making(c)'
  BY StandsStill
<1>2. FilesTyped' /\ ReportsTyped'
  BY DEF ReportInv, FilesTyped, ReportsTyped, rules_on_disk
<1> QED BY <1>1, <1>2 DEF ReportInv

LEMMA ClassifyReports == ASSUME IInv, ReportInv, NEW c \in Commands, Classify(c) PROVE ReportInv'
<1>1. PICK n \in Named : proc[c] # None /\ Resolve(c, n) /\ UNCHANGED <<rules_on_disk, report, edited>>
  BY DEF Classify, unresolved
<1>2. PICK disk, a, pending, asks : takes(c, n, disk, a, pending, asks)
  BY <1>1, Zenon DEF Resolve
<1>3. /\ proc \in [Commands -> Classifiers \cup {None}] /\ proc[c] \in Classifiers
  BY <1>1 DEF IInv, Typed
<1>4. DOMAIN proc[c] = {"at", "disk", "memo", "pending"}
  BY <1>3 DEF Classifiers
<1>5. PICK q : /\ q.at = proc[c].at /\ DOMAIN q = {"at", "disk", "memo", "pending"}
               /\ proc' = [proc EXCEPT ![c] = q]
  BY <1>2, <1>4 DEF takes
<1>6. /\ proc'[c] = q /\ \A d \in Commands \ {c} : proc'[d] = proc[d]
  BY <1>3, <1>5
<1>7. proc'[c] # None
  BY ClassifyKeeps
<1> QED BY <1>1, <1>5, <1>6, <1>7, NamingReports

LEMMA WriteBackReports == ASSUME IInv, ReportInv, NEW c \in Commands, WriteBack(c) PROVE ReportInv'
<1> DEFINE p == [proc[c] EXCEPT !.pending = Tail(proc[c].pending)]
<1>1. /\ proc[c] # None /\ UNCHANGED <<rules_on_disk, report, edited>>
      /\ proc' = proc \/ proc' = [proc EXCEPT ![c] = p]
  BY DEF WriteBack, Flush, rememberReads, rememberWrites
<1>2. /\ proc \in [Commands -> Classifiers \cup {None}] /\ proc[c] \in Classifiers
  BY <1>1 DEF IInv, Typed
<1>3. DOMAIN proc[c] = {"at", "disk", "memo", "pending"}
  BY <1>2 DEF Classifiers
<1>4. p.at = proc[c].at
  BY <1>3
<1> HIDE DEF p
<1>5. /\ proc'[c] = proc[c] \/ proc'[c] = p
      /\ \A d \in Commands \ {c} : proc'[d] = proc[d]
  BY <1>1, <1>2
<1>6. proc'[c] # None
  BY WriteBackKeeps
<1> QED BY <1>1, <1>4, <1>5, <1>6, NamingReports

\* Once a rule file is edited, no report of a command under way is held to anything.
LEMMA EditRulesReports == ASSUME IInv, ReportInv, EditRules PROVE ReportInv'
<1>1. /\ FilesTyped' /\ UNCHANGED <<report, proc>> /\ edited' = [c \in Commands |-> TRUE]
  BY DEF EditRules, ReportInv, FilesTyped
<1>2. ReportsTyped'
  BY <1>1 DEF ReportInv, ReportsTyped
<1>3. \A c \in Commands : Making(c)'
  BY <1>1 DEF ReportInv, Making, ReadAsItStands, SaidAtTheEnd
<1> QED BY <1>1, <1>2, <1>3 DEF ReportInv

LEMMA NextReport == IInv /\ ReportInv /\ [AdviceNext]_all => ReportInv'
<1> SUFFICES ASSUME IInv, ReportInv, [AdviceNext]_all PROVE ReportInv'
  OBVIOUS
<1>1. CASE DoctorNext
  <2>1. ASSUME NEW c \in Commands,
               Begin(c) \/ ReadRules(c) \/ Classify(c) \/ Evaluate(c)
               \/ ReadSuppressed(c) \/ ReadEvent(c) \/ WriteBack(c)
        PROVE  ReportInv'
    BY <2>1, BeginReports, ReadRulesReports, ClassifyReports, EvaluateReports,
       ReadSuppressedReports, ReadEventReports, WriteBackReports
  <2>2. CASE EditRules
    BY <2>2, EditRulesReports
  <2>3. CASE EditEntry /\ UNCHANGED <<rules_on_disk, report, edited>>
    BY <2>3, NamingReports DEF EditEntry
  <2>4. QED BY <1>1, <2>1, <2>2, <2>3 DEF DoctorNext
<1>2. CASE UNCHANGED advice
  BY <1>2, NamingReports DEF advice, naming
<1>3. CASE UNCHANGED all
  BY <1>3, NamingReports DEF all, advice, naming
<1>4. QED BY <1>1, <1>2, <1>3 DEF AdviceNext

\* A printed report accounts for every base rule that is shipped enabled, in its findings or in
\* one of its lists and for a reason, however many commands read the files and whatever they
\* say, if no one edits them while it is made (ReportAccounts).
THEOREM ReportAccountsHolds == AdviceSpec => []ReportAccounts
<1>1. AdviceInit => IInv /\ ReportInv
  BY InitIInv, InitReport
<1>2. (IInv /\ ReportInv) /\ [AdviceNext]_all => (IInv /\ ReportInv)'
  BY NextIInv, NextReport
<1>3. IInv /\ ReportInv => ReportAccounts
  BY DEF ReportInv, Making, SaidAtTheEnd, ReportAccounts
<1>4. QED BY <1>1, <1>2, <1>3, PTL DEF AdviceSpec

=============================================================================
