----------------------------- MODULE MCAccounts -----------------------------
(* Two customers, one of whom has two browsers; two browsers of an admin;  *)
(* two hands on the badges; two sales and a reward over three days of the  *)
(* owner's, the first midnight between two instants of one day of UTC; and *)
(* two sales to report; and two editors of the account two buyers pay to.  *)
EXTENDS AccountsProps, TLC

CONSTANTS phone, laptop, ana, bob, founder, topten

Symmetry == Permutations(Ids)

MCReads == [ b \in Browsers |-> IF b = phone THEN {ana} ELSE {ana, bob} ]

MCSales == [ card |-> [ price |-> 34900, cost |-> 42000, method |-> "card", gateway |-> "stripe",
                        reward |-> FALSE ],
             transfer |-> [ price |-> 9900, cost |-> Unknown, method |-> "transfer",
                            gateway |-> Unknown, reward |-> FALSE ],
             gift |-> [ price |-> 0, cost |-> 7000, method |-> "none", gateway |-> Unknown,
                        reward |-> TRUE ] ]

\* Two accounts, with two ways for the sums to come out, one with a number of
\* OXXO and the other with neighbours its check digit cannot tell apart; two
\* more numbers of OXXO, one of a length that will do; and what the environment
\* has, which nobody reviewed.
MCOwners == { [ clabe |-> <<0,1,2,1,8,0,0,1,2,3,4,5,6,7,8,9,0,9>>,
                card  |-> <<4,0,9,1,1,1,1,1,1,1,1,1,1,1,1,5>>,
                oxxo  |-> <<4,1,5,2,3,1,3,7,0,0>> ],
              [ clabe |-> <<0,0,2,0,1,0,0,2,7,7,7,7,7,7,7,7,7,6>>, card |-> << >>,
                oxxo  |-> << >> ] }
MCOxxoTyped == { <<4,1,5,2,3,1,7,3,0,0>>, <<4,1,5,2,3,1,3,7,0>> }
MCEnvironment == [ clabe |-> <<6,4,6>>, card |-> << >>, oxxo |-> << >> ]
=============================================================================
