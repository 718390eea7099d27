---------------------------- MODULE MCContracts -----------------------------
(***************************************************************************)
(* A small instance of the other contracts of examples/.  Shop is a        *)
(* contract that may be called and call back.                              *)
(***************************************************************************)
EXTENDS Contracts, TLC

CONSTANTS Alice, Bob, Carol, Shop

MCAccounts == {Alice, Bob, Carol}
MCPartners == {Alice, Bob}
MCContracts == {Shop}

MCRequests == {<<2, Carol>>, <<3, Alice>>}

\* Alice pays Bob, both pay each other, a transfer that is not one, and one whose
\* amounts add up to 0 in the program.
Entry(address, amount) == [address |-> address, amount |-> amount]
Sheet(send, receive) == [send_transfers |-> send, receive_transfers |-> receive]
MCTransfers ==
    { Sheet(<<Entry(Alice, 1), Entry(Alice, 1)>>, <<Entry(Bob, 2)>>),
      Sheet(<<Entry(Bob, 2), Entry(Alice, 1)>>, <<Entry(Alice, 1), Entry(Bob, 2)>>),
      Sheet(<<Entry(Bob, 1)>>, <<Entry(Alice, 2)>>),
      Sheet(<<>>, <<Entry(Alice, 16), Entry(Bob, 16)>>) }

MCItemTimes == {<<0, 1>>, <<1, 0>>}

MCProducts == [p \in {"p1", "p2", "p3"} |-> IF p = "p3" THEN Bob ELSE Alice]

\* A message with withdrawals that pays a contract first, one that moves CCD and
\* one that moves tokens, and messages with the same nonce.
Asks(signer, nonce, entry_point, fee, parts) ==
    [signer |-> signer, nonce |-> nonce, entry_point |-> entry_point, expiry_time |-> 2,
     service_fee_recipient |-> "k2", service_fee_amount |-> fee, parts |-> parts]
To(to, amount) == [to |-> to, amount |-> amount]
PaysShop == Asks("k1", 0, "withdrawCcd", 0, <<To(Shop, 1), To(Bob, 1)>>)
Moves == Asks("k1", 1, "transferCcd", 1, <<To("k1", 1), To("k2", 0)>>)
MCSignedBatches ==
    { <<PaysShop>>, <<Moves>>,
      <<Asks("k2", 0, "withdrawCcd", 0, <<To(Shop, 1)>>), PaysShop>>,
      <<Asks("k1", 0, "transferCcd", 1, <<To("k1", 1)>>), Moves>>,
      <<Asks("k1", 0, "transferCis2Tokens", 1, <<To("k2", 1)>>)>>,
      <<Asks("k2", 0, "withdrawCis2Tokens", 1, <<To(Shop, 1)>>)>> }

Revocation(key, credential, nonce, entry_point) ==
    [key |-> key, credential_id |-> credential, nonce |-> nonce, entry_point |-> entry_point,
     timestamp |-> 2]
Info(revocable, from, until) ==
    [holder_revocable |-> revocable, valid_from |-> from, valid_until |-> until]
MCCredentialInfos == {Info(TRUE, 1, None), Info(TRUE, 0, 0), Info(FALSE, 0, 1)}
MCRevocations ==
    { Revocation("h1", "h1", 0, "revokeCredentialHolder"),
      Revocation("h1", "h1", 1, "revokeCredentialHolder"),
      Revocation("h2", "h1", 0, "revokeCredentialHolder"),
      Revocation("r1", "h1", 0, "revokeCredentialOther") }
MCRegistryImplementors == {{Shop}}

=============================================================================
