------------------------------ MODULE MCPublisher ------------------------------
(* The publisher on a calendar of seven days in months of unequal length.  *)
(* Publishing starts on the second day of month 1, so that the first month *)
(* is a partial one, and the clock may reach a day in the next month.      *)
EXTENDS PublisherStore, TLC

MCMonthOf    == [d \in 0 .. 6 |-> CASE d = 0 -> 0 [] d \in 1 .. 2 -> 1
                                    [] d = 3 -> 2 [] OTHER -> 3]
MCMonthStart == [m \in 0 .. 3 |-> CASE m = 0 -> 0 [] m = 1 -> 1
                                    [] m = 2 -> 3 [] OTHER -> 4]

MCKinds     == <<"metrics", "treasury-assets">>
MetricsOnly == <<"metrics">>

(* Without settings, and with an end date before the start date.           *)
NoWindow      == {[start |-> NoDate, end |-> NoDate]}
CrossedWindow == NoWindow \cup {[start |-> 4, end |-> 3]}

(* Nothing indexed yet, and two days behind with a half-indexed day.       *)
MCProgress == {[head |-> 0, cross |-> 0, all |-> 0],
               [head |-> 3, cross |-> 2, all |-> 2]}

(* Arbitrum and Ethereum up to the present day, another chain behind.      *)
Lagging == {[head |-> 4, cross |-> 4, all |-> 2]}

Symmetric == Permutations(Run) \cup Permutations(Deployment)
=============================================================================
