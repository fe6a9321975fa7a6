---------------------------- MODULE MCChatTurns ----------------------------
(***************************************************************************)
(* Instances of ChatTurns: two of the three messages are similar, and each *)
(* of the two was learned once to mean the third.                          *)
(***************************************************************************)
EXTENDS ChatTurns, TLC

CONSTANTS t1, t2, s1, s2, hi, hello, stop

Alike == {<<m, m>> : m \in Messages} \cup {<<hi, hello>>, <<hello, hi>>}

OfEarlierDays == {<<hi, stop>>, <<hello, stop>>}

Symmetric == {p @@ q @@ r : p \in Permutations(Turns), q \in Permutations(Sessions),
                            r \in Permutations({hi, hello})}
=============================================================================
