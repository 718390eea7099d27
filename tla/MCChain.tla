------------------------------ MODULE MCChain ------------------------------
(***************************************************************************)
(* Accounts ka (two addresses, part staked) and kb (part locked), kc does  *)
(* not exist at first; contracts 0 and 1, with room for one more; module   *)
(* m1 is deployed, m2 can be, m3 is not valid.                             *)
(***************************************************************************)
EXTENDS Chain

CONSTANTS a1, a1x, b1, d1, ka, kb, kc, m1, m2, m3, n1, n2, receive, s0, s1

MCAccountAddrs  == {a1, a1x, b1, d1}
MCAccountKeys   == {ka, kb, kc}
MCKeyOf         == [a \in MCAccountAddrs |-> CASE a = b1 -> kb [] a = d1 -> kc [] OTHER -> ka]
MCContractAddrs == 0 .. 2
MCModuleRefs    == {m1, m2, m3}
MCContractNames == {n1, n2}
MCEntrypoints   == {receive}
MCStateVals     == {s0, s1}
MCStateSize     == [s \in MCStateVals |-> IF s = s0 THEN 0 ELSE 1]
MCQueryCost     == [k \in QueryKinds |-> 1]
MCRates         == {[num |-> 1, den |-> 2], [num |-> 1, den |-> 1]}
MCIssues        == {[total |-> 6, staked |-> 1, locked |-> 2]}
MCInitStates    == {s1}

MCDeployable ==
    [m \in MCModuleRefs |->
       IF m = m3 THEN None
       ELSE [exports |-> {n1}, entrypoints |-> {<<n1, receive>>}, lookup_cost |-> 1]]

MCChains ==
    {[accounts  |-> [k \in MCAccountKeys |->
                       CASE k = ka -> [total |-> 9, staked |-> 1, locked |-> 0]
                         [] k = kb -> [total |-> 3, staked |-> 0, locked |-> 1]
                         [] k = kc -> None],
      contracts |-> [c \in MCContractAddrs |->
                       IF c = 2 THEN None
                       ELSE [module_reference |-> m1, contract_name |-> n1,
                             state |-> s0, self_balance |-> 1]],
      modules   |-> [m \in MCModuleRefs |-> IF m = m1 THEN MCDeployable[m1] ELSE None]]}

Request(invoker, sender, address, amount, energy) ==
    [invoker |-> invoker, sender |-> sender, address |-> address, name |-> n1,
     entrypoint |-> receive, amount |-> amount, energy_reserved |-> energy,
     reserved_amount |-> 0]

(* Requests that are refused, invalid or run, with and without a re-entrant *)
(* sender, through an alias, on behalf of a contract.                       *)
MCTransactions ==
    {Request(a1, a1, 0, 2, 7), Request(a1x, a1, 1, 1, 6), Request(a1, b1, 0, 1, 6),
     Request(a1, 1, 0, 1, 6), Request(d1, d1, 0, 0, 6), Request(a1, 2, 0, 0, 6),
     Request(b1, b1, 0, 3, 4), Request(a1, a1, 2, 0, 0)}
=============================================================================
