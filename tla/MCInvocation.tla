---------------------------- MODULE MCInvocation ----------------------------
(***************************************************************************)
(* Two chains: on one balances are near the largest amount, on the other   *)
(* all CCD fits an amount.  Account key ka has two addresses and part of   *)
(* its balance staked, kb part of it locked; contracts c1 and c2 are of    *)
(* the same module, c3 is missing; module m2 has the contract too, m3 does *)
(* not, m4 is not deployed.                                                *)
(***************************************************************************)
EXTENDS Invocation

CONSTANTS a1, a1x, b1, ka, kb, c1, c2, c3, m1, m2, m3, m4, n1, n2, receive, s0, s1

CONSTANTS Energies, RootAmounts, Senders

MCAccountAddrs  == {a1, a1x, b1}
MCAccountKeys   == {ka, kb}
MCKeyOf         == [a \in MCAccountAddrs |-> IF a = b1 THEN kb ELSE ka]
MCContractAddrs == {c1, c2, c3}
MCModuleRefs    == {m1, m2, m3, m4}
MCContractNames == {n1, n2}
MCEntrypoints   == {receive, Fallback}
MCStateVals     == {s0, s1}
MCQueryCost     == [k \in QueryKinds |-> 1]

MCModules ==
    [m \in MCModuleRefs |->
       CASE m = m1 -> [exports |-> {n1}, entrypoints |-> {<<n1, receive>>}, lookup_cost |-> 1]
         [] m = m2 -> [exports |-> {n1, n2}, entrypoints |-> {<<n1, Fallback>>},
                       lookup_cost |-> 1]
         [] m = m3 -> [exports |-> {n2}, entrypoints |-> {<<n2, receive>>}, lookup_cost |-> 1]
         [] m = m4 -> None]

MCContracts(balance) ==
    [c \in MCContractAddrs |->
       IF c = c3 THEN None
       ELSE [module_reference |-> m1, contract_name |-> n1, state |-> s0,
             self_balance |-> balance]]

MCAccounts(a, b) ==
    [k \in MCAccountKeys |->
       IF k = ka THEN [total |-> a, staked |-> 1, locked |-> 0]
                 ELSE [total |-> b, staked |-> 0, locked |-> 1]]

MCChain(a, b, balance) ==
    [accounts |-> MCAccounts(a, b), contracts |-> MCContracts(balance), modules |-> MCModules]

MCChains == {MCChain(10, 2, 7), MCChain(5, 1, 2)}

MCTransactions ==
    {[invoker |-> a1, sender |-> s, address |-> c1, name |-> n1, entrypoint |-> receive,
      amount |-> v, energy_reserved |-> e, reserved_amount |-> 2]
       : s \in Senders, v \in RootAmounts, e \in Energies}

=============================================================================
