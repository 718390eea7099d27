----------------------------- MODULE Contracts ------------------------------
(***************************************************************************)
(* The other contracts of examples/ that keep something for somebody:      *)
(* `contract' says which one a behaviour is about.  They have the          *)
(* variables and some of the parameters of Ledger in common.               *)
(***************************************************************************)
EXTENDS Integers, Sequences, FiniteSets

CONSTANTS
    Accounts, Contracts, Owner, None, MaxDepth, MaxOps,  \* Entrypoints
    Self, Wealth, MaxNow,                                \* Ledger
    Partners,  \* the accounts that use offchain-transfers, icecream, the wallet,
               \* the credential registry and counter-notify
    Bids, minimum_raise, MicroCcdPerCent, AuctionEnd,    \* auction
    num_options, end_time,                               \* voting
    Files,                                               \* eSealing
    AmountModulus,                                       \* two-step-transfer,
    account_holders, transfer_agreement_threshold,       \* offchain-transfers
    transfer_request_ttl, RequestIds, Requests, Deposits, Attached,
    validator, judge, time_to_finality, settlement_limit,
    Transfers, SheetAmounts, MaxSettlements,
    TokenIds, TokenBids, minimum_bid, ItemTimes,         \* sponsored-tx-enabled-auction
    CounterLimit, MaxItems,
    Weather, Prices,                                     \* icecream
    Products, MaxProducts,                               \* factory
    PublicKeys, SignedBatches, WalletAmounts,            \* cis5-smart-contract-wallet
    AmountLimit, WalletImplementors, WalletMaxNow,
    Holders, RevocationKeys, issuer_account,             \* credential-registry
    CredentialInfos, Revocations, Urls, RegistryImplementors,
    Coins                                                \* piggy-bank

Addresses == Accounts \cup Contracts

\* The entries of a transfer, and the messages that are signed for the wallet.
Entries == Seq([address : Partners, amount : 0 .. AmountModulus - 1])
PartsTo(receivers) == Seq([to : receivers, amount : Nat])
MessagesFor(entry_points, receivers) ==
    [signer : PublicKeys, nonce : Nat, entry_point : entry_points, expiry_time : Nat,
     service_fee_recipient : PublicKeys, service_fee_amount : Nat, parts : PartsTo(receivers)]
WalletMessages ==
    MessagesFor({"transferCcd", "transferCis2Tokens"}, PublicKeys)
      \cup MessagesFor({"withdrawCcd", "withdrawCis2Tokens"}, Partners \cup Contracts)

\* There are finitely many accounts and contracts, and the contract in question
\* is another one.
ASSUME AddressAssumption ==
    /\ IsFiniteSet(Accounts) /\ IsFiniteSet(Contracts)
    /\ Partners \subseteq Accounts /\ Owner \in Partners
    /\ Accounts \cap Contracts = {} /\ Self \notin Addresses
    /\ {None, Weather} \cap (Addresses \cup {Self}) = {}
    /\ Weather # None

\* Amounts and times are whole numbers, and None is none of them.
ASSUME AmountAssumption ==
    /\ {Wealth, MaxNow, AuctionEnd, minimum_raise, end_time, transfer_request_ttl,
        time_to_finality, minimum_bid, WalletMaxNow} \subseteq Nat
    /\ AmountModulus \in Nat \ {0}
    /\ Bids \cup Deposits \cup Attached \cup SheetAmounts \cup TokenBids \cup Prices \cup WalletAmounts
         \cup Coins \subseteq Nat
    /\ MicroCcdPerCent \in Nat \ {0}
    /\ MaxSettlements \in Nat /\ MaxProducts \in Nat
    /\ MaxItems \in Nat /\ CounterLimit \in Nat /\ MaxItems < CounterLimit
    /\ num_options \in Nat

\* What is recorded of a product, of an item of the auction and of a credential.
ProductRecords == [factory : Contracts \cup {Self}, index : Nat]
ItemRecords ==
    [auction_state : {"NotSoldYet", "Sold"}, highest_bidder : Accounts \cup {None},
     start : Nat, end : Nat, highest_bid : Nat, creator : Accounts, token_id : TokenIds]
CredentialEntries ==
    [holder_revocable : BOOLEAN, valid_from : Nat, valid_until : Nat \cup {None},
     metadata_url : Urls, revocation_nonce : Nat, revoked : BOOLEAN]

\* None is no number, and the same as nothing that is recorded.
ASSUME NoneAssumption ==
    /\ None \notin Nat /\ None # "migration" /\ None \notin DOMAIN Products
    /\ None \notin ProductRecords \cup ItemRecords \cup CredentialEntries

\* What is asked for is about the accounts and contracts that there are: requests
\* of two-step-transfer, transfers of offchain-transfers, times of the items of
\* the auction and the credentials of the registry.
ASSUME RequestAssumption ==
    /\ account_holders \subseteq Accounts
    /\ IsFiniteSet(RequestIds) /\ Requests \subseteq Nat \X Accounts
    /\ Transfers \subseteq [send_transfers : Entries, receive_transfers : Entries]
    /\ IsFiniteSet(TokenIds) /\ ItemTimes \subseteq Nat \X Nat
    /\ CredentialInfos \subseteq [holder_revocable : BOOLEAN, valid_from : Nat,
                                 valid_until : Nat \cup {None}]

\* Keys sign messages, and a batch has at least one of them.
ASSUME MessageAssumption ==
    /\ IsFiniteSet(PublicKeys) /\ AmountLimit \in Nat
    /\ \A batch \in SignedBatches : batch \in Seq(WalletMessages) /\ batch # <<>>
    /\ \A m \in Revocations : m.nonce \in Nat /\ m.credential_id \in Holders
    /\ issuer_account \in Partners

VARIABLES contract, state, seen, calls, ops

vars == <<contract, state, seen, calls, ops>>

Bidding == INSTANCE Auction
Ballots == INSTANCE Voting
Seals == INSTANCE ESealing
TwoStep == INSTANCE TwoStepTransfer
Offchain == INSTANCE OffchainTransfers WITH Accounts <- Partners
Items == INSTANCE SponsoredAuction WITH MaxOps <- MaxOps + 1
Sales == INSTANCE IceCream WITH Accounts <- Partners
Making == INSTANCE Factory
Wallet == INSTANCE Cis5Wallet WITH Accounts <- Partners, MaxNow <- WalletMaxNow
Registry == INSTANCE CredentialRegistry WITH Accounts <- Partners, MaxOps <- MaxOps + 1
Saving == INSTANCE PiggyBank
Counting == INSTANCE CounterNotify WITH Accounts <- Partners
Upgrading == INSTANCE ContractUpgrade

\* All CCD that there is, together, is an amount.
ASSUME CcdAssumption == Offchain!CcdInTotal < AmountModulus

Init ==
    \/ contract = "auction" /\ Bidding!Init
    \/ contract = "voting" /\ Ballots!Init
    \/ contract = "eSealing" /\ Seals!Init
    \/ contract = "two-step" /\ TwoStep!Init
    \/ contract = "offchain" /\ Offchain!Init
    \/ contract = "items" /\ Items!Init
    \/ contract = "icecream" /\ Sales!Init
    \/ contract = "factory" /\ Making!Init
    \/ contract = "wallet" /\ Wallet!Init
    \/ contract = "registry" /\ Registry!Init
    \/ contract = "piggy-bank" /\ Saving!Init
    \/ contract = "counter" /\ Counting!Init
    \/ contract = "upgrade" /\ Upgrading!Init

Next ==
    /\ UNCHANGED contract
    /\ \/ contract = "auction" /\ Bidding!Next
       \/ contract = "voting" /\ Ballots!Next
       \/ contract = "eSealing" /\ Seals!Next
       \/ contract = "two-step" /\ TwoStep!Next
       \/ contract = "offchain" /\ Offchain!Next
       \/ contract = "items" /\ Items!Next
       \/ contract = "icecream" /\ Sales!Next
       \/ contract = "factory" /\ Making!Next
       \/ contract = "wallet" /\ Wallet!Next
       \/ contract = "registry" /\ Registry!Next
       \/ contract = "piggy-bank" /\ Saving!Next
       \/ contract = "counter" /\ Counting!Next
       \/ contract = "upgrade" /\ Upgrading!Next

Spec == Init /\ [][Next]_vars

-----------------------------------------------------------------------------

\* What a contract holds is what it keeps for its users: the highest bid, the
\* deposits on the sheet of offchain-transfers (until a sum has wrapped in a
\* settlement or a withdrawal that it accepted), the highest bids in tokens, the
\* sales of icecream under way, the balances of the keys of the wallet, the coins
\* in the piggy bank.
FundsAccounted ==
    /\ contract = "auction" => Bidding!FundsAccounted
    /\ contract = "offchain" => Offchain!FundsAccounted
    /\ contract = "items" => Items!FundsAccounted
    /\ contract = "icecream" => Sales!FundsAccounted
    /\ contract = "wallet" => Wallet!FundsAccounted
    /\ contract = "piggy-bank" => Saving!FundsAccounted

\* The requests of two-step-transfer that have not timed out can all be paid, unless
\* one was only accepted because the CCD that came with it was counted twice.
FundsSetAside == contract = "two-step" => TwoStep!FundsSetAside

\* Two records of the same thing agree: the tally and the ballots of voting, the
\* lists of the factory and what its products say, the state of the registry and
\* the wallet and their events, the counter and the increments, the root of an
\* upgraded contract and the migrations that its admin has had.
RecordsAgree ==
    /\ contract = "voting" => Ballots!TallyAgrees
    /\ contract = "factory" => Making!ProductsListed
    /\ contract = "registry" => Registry!LogTellsRegistry
    /\ contract = "wallet" => Wallet!LogTellsBalances
    /\ contract = "counter" => Counting!ReentryNoticed
    /\ contract = "upgrade" => Upgrading!MigratedOnRequest

\* A message that a key has signed is executed at most once, by the wallet and by
\* the credential registry.
SignedOnce ==
    /\ contract = "wallet" => Wallet!SignedOnce
    /\ contract = "registry" => Registry!SignedOnce

\* What has been decided stays: items sold, votes after the end, files sealed,
\* piggy banks smashed, settlements that are final, credentials that have expired.
Final ==
    [][/\ contract = "auction" => Bidding!StaysSold
       /\ contract = "voting" => Ballots!StaysDecided
       /\ contract = "eSealing" => Seals!StaysSealed
       /\ contract = "offchain" => Offchain!FinalSettlementsKept
       /\ contract = "items" => Items!StaysSold
       /\ contract = "piggy-bank" => Saving!StaysSmashed
       /\ contract = "registry" => Registry!StaysExpired]_vars

=============================================================================
