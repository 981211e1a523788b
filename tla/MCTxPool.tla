------------------------------ MODULE MCTxPool ------------------------------
(* Small sets of transactions for the model checking of TxPool. *)
EXTENDS TxPool, TLC

CONSTANTS alice, bob,
          g1, g2, h1, c1,           \* coins: two of alice, one of bob, an output
          pay, bump, next, buy, chained

\* alice pays, may bump the fee, and has a later payment with a better fee;
\* bob buys, or adds what alice's payment gives him to the same coin.
AllTx == {pay, bump, next, buy, chained}
MCFrom == [t \in AllTx |-> IF t \in {pay, bump, next} THEN alice ELSE bob]
MCNonce == [t \in AllTx |-> IF t \in {next, chained} THEN 1 ELSE 0]
MCInputs == pay :> <<g1>> @@ bump :> <<g1>> @@ next :> <<g2>>
            @@ buy :> <<h1>> @@ chained :> <<h1, c1>>
MCOutputs == [t \in AllTx |-> IF t = pay THEN {c1} ELSE {}]
MCFeeRate == pay :> 2 @@ bump :> 3 @@ next :> 4 @@ buy :> 1 @@ chained :> 5
MCReplaces == [t \in AllTx |-> IF t = bump THEN pay ELSE NoTx]
=============================================================================
