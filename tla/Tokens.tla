------------------------------- MODULE Tokens -------------------------------
(***************************************************************************)
(* The token contracts of examples/: `contract' says which one a behaviour *)
(* is about.  They have the variables and most of the parameters of Cis2   *)
(* in common.                                                              *)
(***************************************************************************)
EXTENDS Integers, Sequences, FiniteSets

CONSTANTS
    Accounts, Contracts, Owner, None, MaxDepth, MaxOps,  \* Entrypoints
    TokenIds, Operators, Implementors, Modulus,          \* Cis2
    NftBatches,                          \* cis2-nft
    AliasedAccounts, FungibleIds,        \* cis2-multi
    canonical, MultiBatches, Permits, Grants, mint_airdrop, BurnAmounts, MaxMints,
    WccdBatches, Amounts, MaxCcd,        \* cis2-wccd
    Cis3Batches, Cis3Permits, MaxTokenId,\* cis3-nft-sponsored-txs
    NameBatches, REGISTRATION_PERIOD_DAYS, TimeLimit, MaxNow,  \* nametoken
    REGISTRATION_FEE, UPDATE_FEE, RENEWAL_FEE, MaxBalance,
    DynamicBatches, Lists, token_amount, MaxMetadata,          \* cis2-dynamic-nft
    RoyaltyBatches, MintAmounts, Percentages                   \* cis2-multi-royalties

\* The transfers of one entrypoint call: at least one, of tokens ids among addresses.
BatchesOf(ids, addresses) ==
    Seq([token_id : ids, amount : Nat, from : addresses, to : addresses]) \ {<<>>}

\* There are finitely many addresses and tokens, an account has a canonical
\* address, and None is no address.
ASSUME AddressAssumption ==
    /\ IsFiniteSet(Accounts) /\ IsFiniteSet(Contracts) /\ IsFiniteSet(TokenIds)
    /\ Owner \in Accounts /\ Accounts \subseteq AliasedAccounts
    /\ canonical \in [AliasedAccounts -> AliasedAccounts]
    /\ Operators \subseteq Accounts \cup Contracts
    /\ Grants \subseteq (AliasedAccounts \cup Contracts) \X STRING
    /\ None \notin Contracts

\* Amounts are whole numbers, and there is less CCD than a token amount can say.
ASSUME AmountAssumption ==
    /\ Modulus \in Nat /\ Modulus > 1
    /\ MaxCcd \in Nat /\ MaxCcd < Modulus
    /\ {mint_airdrop, token_amount} \cup Amounts \cup BurnAmounts \cup MintAmounts \cup Percentages
         \subseteq Nat
    /\ MaxTokenId \in Nat \ {0}

\* Lists of metadata have an element: a mint without one aborts.
ASSUME MetadataAssumption == Lists \subseteq Seq(STRING) \ {<<>>}

\* Names are registered for some time, and None is no record of a name.
ASSUME NamesAssumption ==
    /\ {REGISTRATION_FEE, UPDATE_FEE, RENEWAL_FEE} \subseteq Nat
    /\ REGISTRATION_PERIOD_DAYS \in Nat \ {0}
    /\ None \notin [owner : Accounts, name_expires : Nat, data : {"empty", "data"}]

\* What is asked for is about the tokens and addresses that there are.
ASSUME BatchAssumption ==
    LET addresses == Accounts \cup Contracts
    IN  /\ NftBatches \cup NameBatches \subseteq BatchesOf(TokenIds, addresses)
        /\ DynamicBatches \cup RoyaltyBatches \subseteq BatchesOf(FungibleIds, addresses)
        /\ MultiBatches \subseteq BatchesOf(FungibleIds, AliasedAccounts \cup Contracts)
        /\ WccdBatches \subseteq BatchesOf({"wCCD"}, addresses)
        /\ Cis3Batches \subseteq BatchesOf(1 .. (MaxTokenId - 1), addresses)

\* So is what has been signed.
ASSUME PermitAssumption ==
    /\ \A p \in Cis3Permits :
          /\ p.signer \in Accounts
          /\ p.entry_point = "transfer"
               => p.batch \in BatchesOf(1 .. (MaxTokenId - 1), Accounts \cup Contracts)
          /\ p.entry_point = "updateOperator"
               => p.operator \in Accounts \cup Contracts /\ p.update \in {"add", "remove"}
    /\ \A p \in Permits :
          /\ p.signer \in AliasedAccounts
          /\ p.entry_point = "transfer"
               => p.batch \in BatchesOf(FungibleIds, AliasedAccounts \cup Contracts)
          /\ p.entry_point = "updateOperator"
               => p.operator \in AliasedAccounts \cup Contracts /\ p.update \in {"add", "remove"}
          /\ p.entry_point = "mint"
               => /\ p.token_id \in FungibleIds /\ p.url \in STRING
                  /\ p.to \in AliasedAccounts \cup Contracts
          /\ p.entry_point = "burn"
               => /\ p.token_id \in FungibleIds /\ p.amount \in Nat
                  /\ p.owner \in AliasedAccounts \cup Contracts

VARIABLES contract, state, seen, calls, ops

vars == <<contract, state, seen, calls, ops>>

Nft == INSTANCE Cis2Nft
Multi == INSTANCE Cis2Multi WITH Accounts <- AliasedAccounts, TokenIds <- FungibleIds
Wccd == INSTANCE Cis2Wccd WITH TokenIds <- {"wCCD"}
Cis3 == INSTANCE Cis3Nft WITH TokenIds <- 1 .. (MaxTokenId - 1)
Names == INSTANCE NameToken
Dynamic == INSTANCE Cis2Dynamic WITH TokenIds <- FungibleIds
Royalties == INSTANCE Cis2Royalties WITH TokenIds <- FungibleIds

Init ==
    \/ contract = "nft" /\ Nft!Init
    \/ contract = "multi" /\ Multi!Init
    \/ contract = "wccd" /\ Wccd!Init
    \/ contract = "cis3" /\ Cis3!Init
    \/ contract = "names" /\ Names!Init
    \/ contract = "dynamic" /\ Dynamic!Init
    \/ contract = "royalties" /\ Royalties!Init

Next ==
    /\ UNCHANGED contract
    /\ \/ contract = "nft" /\ Nft!Next
       \/ contract = "multi" /\ Multi!Next
       \/ contract = "wccd" /\ Wccd!Next
       \/ contract = "cis3" /\ Cis3!Next
       \/ contract = "names" /\ Names!Next
       \/ contract = "dynamic" /\ Dynamic!Next
       \/ contract = "royalties" /\ Royalties!Next

Spec == Init /\ [][Next]_vars

-----------------------------------------------------------------------------

\* Somebody who follows the events knows what each contract answers about
\* balances, operators and metadata, also while a receiver is being called and
\* after it rejected.  Of the metadata of cis2-dynamic-nft, which are logged before
\* they are the current ones, it is known that they are not outdated.
LogTellsState ==
    /\ contract = "nft" => Nft!LogTellsState
    /\ contract = "multi" => Multi!LogTellsState
    /\ contract = "wccd" => Wccd!LogTellsState
    /\ contract = "cis3" => Cis3!LogTellsState
    /\ contract = "names" => Names!LogTellsState
    /\ contract = "dynamic" => Dynamic!LogTellsState
    /\ contract = "royalties" => Royalties!LogTellsState

\* A token that exists once has exactly one owner, in cis2-nft and in
\* cis3-nft-sponsored-txs, and so has a name of nametoken, the one that its record
\* says.
OneOwner ==
    /\ contract = "nft" => Nft!OneOwner
    /\ contract = "cis3" => Cis3!OneOwner
    /\ contract = "names" => Names!RecordsAgree

\* A message that an account has signed is executed at most once, in cis2-multi
\* and cis3-nft-sponsored-txs, also if it is brought again while it is executed.
PermitsOnce ==
    /\ contract = "multi" => Multi!PermitsOnce
    /\ contract = "cis3" => Cis3!PermitsOnce

\* The tokens of those on the blacklist of cis2-multi stay where they are, and
\* everybody's do while it is paused.
Frozen == [][contract = "multi" => Multi!FrozenStep]_vars

\* Every token of cis2-wccd is backed by CCD of the contract, and the other way
\* around.
WccdBacked == contract = "wccd" => Wccd!Backed

\* No name of nametoken is lost before it expires, except by its owner's or an
\* operator's hand, and none is handed on when it has.
NamesKept == [][contract = "names" => Names!LosesRightly]_vars

=============================================================================
