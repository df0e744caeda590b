------------------------------ MODULE Selection ------------------------------
(* Python's [x for x in s if x in X], as a recursive function that can be     *)
(* reasoned about.                                                            *)
EXTENDS Naturals, Sequences

\* The elements of s that are in X, in the order of s.
selected(s, X) ==
    LET kept[i \in 0..Len(s)] ==
            IF i = 0 THEN << >>
            ELSE IF s[i] \in X THEN Append(kept[i - 1], s[i])
            ELSE kept[i - 1]
    IN kept[Len(s)]
=============================================================================
