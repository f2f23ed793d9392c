------------------------------- MODULE MCRates -------------------------------
(* The shipped rates, with tables cut down to some entries. *)
EXTENDS Rates

Serum == <<40, 50>>
DrPass == <<50, 80>>

\* One Gen0 bud with the best beginning rate of the table and one it does not list.
Gen0 == {[thc |-> 1, budSize |-> 1], [thc |-> 2, budSize |-> 1]}
Begin == [bud \in {[thc |-> 1, budSize |-> 1]} |-> 50]

\* Entries of hashTable, the worst, the best and those of a tenth's step, the buds
\* numbered anew: thc 4 is the table's 22, which randomNumber(22, 1) never draws and
\* which alone has 3.5. Buds that are drawn and not listed get 0.
Entries == {<<1, 1, -8>>, <<1, 2, 22>>, <<2, 1, -30>>, <<3, 1, -21>>, <<3, 2, 30>>,
            <<4, 1, 25>>, <<4, 2, 35>>}
Breed == [bud \in {[thc |-> e[1], budSize |-> e[2]] : e \in Entries} |->
            CHOOSE v \in {e[3] : e \in Entries} : <<bud.thc, bud.budSize, v>> \in Entries]

Keys == {15, 35, 50}
Sizes == [k \in Keys |-> IF k = 15 THEN 2 ELSE 3]

\* The hypothesis of the theorem on CertainOnlyWithPass, at the shipped numbers.
ASSUME ShortOfCertain

=============================================================================
