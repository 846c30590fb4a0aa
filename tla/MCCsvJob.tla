------------------------------ MODULE MCCsvJob ------------------------------
(* Small instances of CsvJob for TLC. *)
EXTENDS CsvJob, TLC

CONSTANTS w1, w2

MCWorkers == {w1, w2}
Symmetry  == Permutations(MCWorkers)

\* Every unit of an object version has the classes that Objects gives its rows.
Classes(Objects) == [u \in Units |-> Objects[u.name][u.version]]

\* How often each name is written to landing.
Once         == <<1>>
Twice        == <<2>>
OnceAndTwice == <<1, 2>>

\* An empty file, replaced by one with rows whose verdicts the clock turns over, in
\* chunks that are full or short at either size.
MixedContent == Classes(<< << << >>, <<"early", "rival", "good", "bad">> >> >>)

\* One early row: the smallest object whose verdict depends on the clock.
EarlyContent == Classes(<< << <<"early">>, << >> >> >>)

\* The smallest object that can be done twice.
RedoneContent == Classes(<< << <<"good", "bad">>, <<"good">> >> >>)

\* An object that fails at its second chunk, and behind it one whose first version
\* cannot even be read; the second version can be processed.
PoisonFirst ==
    Classes(<< << <<"good", "bad", "unstorable">>, << >> >>,
               << <<"unreadable">>, <<"good", "early", "bad">> >> >>)

\* A file whose second row the database refuses.
PoisonContent == Classes(<< << <<"good", "unstorable", "good">> >> >>)
=============================================================================
