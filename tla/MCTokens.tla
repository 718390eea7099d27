------------------------------ MODULE MCTokens ------------------------------
(***************************************************************************)
(* A small instance of the token contracts.  Shop is a contract that       *)
(* receives tokens, Alias another address of Alice's account.              *)
(***************************************************************************)
EXTENDS Tokens, TLC

CONSTANTS Alice, Alias, Bob, Shop

MCAccounts == {Alice, Bob}
MCAliasedAccounts == {Alice, Alias, Bob}
MCContracts == {Shop}
MCOperators == {Bob, Shop}
MCImplementors == {<<"CIS-X", {Shop}>>}

MCcanonical == [a \in {Alice, Alias, Bob} |-> IF a = Alias THEN Alice ELSE a]

Move(t, amount, from, to) == [token_id |-> t, amount |-> amount, from |-> from, to |-> to]

\* A transfer to a contract followed by one of the same tokens, a transfer by the
\* contract, a transfer to oneself and one of nothing.
Batches(t) ==
    { <<Move(t, 1, Alice, Shop), Move(t, 1, Alice, Bob)>>,
      <<Move(t, 1, Shop, Bob)>>, <<Move(t, 1, Bob, Bob), Move(t, 0, Bob, Alice)>> }

MCNftBatches ==
    Batches("t1") \cup {<<Move("t1", 1, Alice, Bob), Move("t2", 1, Alice, Shop)>>}
MCNameBatches ==
    Batches("t1") \cup {<<Move("t1", 1, Alice, Bob), Move("t2", 1, Alice, Bob)>>}
MCWccdBatches == Batches("wCCD")
MCCis3Batches == Batches(1)
MCDynamicBatches == Batches("t1")
MCRoyaltyBatches ==
    Batches("t1") \cup {<<Move("t1", 2, Alice, Shop), Move("t1", 254, Alice, Bob)>>}
MCMultiBatches ==
    { <<Move("t1", 1, Alice, Shop), Move("t1", 2, Alice, Bob)>>,
      <<Move("t1", 2, Alias, Shop), Move("t1", 1, Alias, Alias)>>,
      <<Move("t1", 1, Shop, Bob)>> }

Message(signer, nonce, entry_point) ==
    [signer |-> signer, nonce |-> nonce, entry_point |-> entry_point]

\* Two messages with the same nonce, and one with the next.
MCCis3Permits ==
    { Message(Alice, 0, "transfer") @@ [batch |-> <<Move(1, 1, Alice, Shop)>>],
      Message(Alice, 0, "updateOperator") @@ [operator |-> Shop, update |-> "add"],
      Message(Alice, 1, "transfer") @@ [batch |-> <<Move(1, 1, Alice, Bob)>>] }

MCPermits ==
    { Message(Alice, 0, "transfer") @@ [batch |-> <<Move("t1", 1, Alice, Shop)>>],
      Message(Alice, 0, "updateOperator") @@ [operator |-> Shop, update |-> "add"],
      Message(Alice, 1, "mint") @@ [token_id |-> "t1", url |-> "url2", to |-> Bob],
      Message(Alice, 0, "burn") @@ [token_id |-> "t1", amount |-> 2, owner |-> Alice] }

MCGrants == { <<Bob, "BLACKLISTER">>, <<Shop, "PAUSER">> }

MCLists == {<<"url1">>, <<"url1", "url2">>}

=============================================================================
