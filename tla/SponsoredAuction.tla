-------------------------- MODULE SponsoredAuction --------------------------
(***************************************************************************)
(* examples/sponsored-tx-enabled-auction: bids in tokens of a CIS-2        *)
(* contract for several items.  A bid is a transfer of tokens to the       *)
(* auction, for which the token contract calls `bid'.                      *)
(***************************************************************************)
EXTENDS Ledger, Functions

CONSTANTS
    TokenIds,
    TokenBids,     \* the amounts that are bid
    minimum_bid,
    ItemTimes,     \* pairs of a start and an end
    CounterLimit,  \* 2^16: the counter of items is below it
    MaxItems       \* bound: items that are added

\* The tokens are kept by the CIS-2 contract.
Init ==
    /\ state = [items   |-> [i \in 1 .. MaxItems |-> None],
                counter |-> 0,
                tokens  |-> [q \in (Accounts \cup {Self}) \X TokenIds |->
                               IF q[1] = Self THEN 0 ELSE Wealth],
                now     |-> 0]
    /\ seen = None
    /\ calls = <<>>
    /\ ops = 0

\* Cis2Client::transfer and the transfer of the token contract; to an account,
\* so that nobody else is called.
transfer(s, token_id, from, to, amount) ==
    [s EXCEPT !.tokens = Given(@, <<from, token_id>>, <<to, token_id>>, amount)]

add_item(sender, token_id, start, end) ==
    LET item_index == (state.counter + 1) % CounterLimit
    IN  /\ Called(sender)
        /\ state.counter < MaxItems
        /\ sender \in Accounts
        /\ start < end /\ state.now <= end
        /\ state' = [state EXCEPT !.counter = item_index,
                                  !.items[item_index] =
                                     [auction_state |-> "NotSoldYet", highest_bidder |-> None,
                                      start |-> start, end |-> end, highest_bid |-> minimum_bid,
                                      creator |-> sender, token_id |-> token_id]]
        /\ Quietly

\* The transfer of a bid, and the call of the auction by the token contract.  A
\* bid may come before the start.
auction_bid(from, token_id, amount, index) ==
    LET item == state.items[index]
        bid  == [transfer(state, token_id, from, Self, amount)
                   EXCEPT !.items[index].highest_bid = amount,
                          !.items[index].highest_bidder = from]
    IN  /\ Called(from)
        /\ amount <= state.tokens[<<from, token_id>>]
        /\ item # None
        /\ item.token_id = token_id
        /\ item.auction_state = "NotSoldYet"
        /\ state.now <= item.end
        /\ amount > item.highest_bid
        /\ state' = IF item.highest_bidder = None THEN bid
                    ELSE transfer(bid, token_id, Self, item.highest_bidder, item.highest_bid)
        /\ Quietly

auction_finalize(sender, index) ==
    LET item == state.items[index]
    IN  /\ Called(sender)
        /\ item # None
        /\ item.auction_state = "NotSoldYet"
        /\ state.now > item.end
        /\ item.highest_bidder # None
        /\ state' = transfer([state EXCEPT !.items[index].auction_state = "Sold"],
                             item.token_id, Self, item.creator, item.highest_bid)
        /\ Quietly

Next ==
    \/ \E sender \in Addresses, index \in 1 .. MaxItems : auction_finalize(sender, index)
    \/ \E sender \in Addresses, t \in TokenIds, time \in ItemTimes :
          add_item(sender, t, time[1], time[2])
    \/ \E from \in Accounts, t \in TokenIds, amount \in TokenBids, index \in 1 .. MaxItems :
          auction_bid(from, t, amount, index)
    \/ Tick

-----------------------------------------------------------------------------
(* Properties *)

\* The tokens that are bid for an item, while it is not sold.
Bid(i, t) ==
    LET item == state.items[i]
    IN  IF /\ item # None /\ item.token_id = t
           /\ item.auction_state = "NotSoldYet"
           /\ item.highest_bidder # None
        THEN item.highest_bid ELSE 0

\* The tokens of the auction are the highest bids for the items that are not
\* sold yet, so that each of them can be paid back or out.
FundsAccounted ==
    \A t \in TokenIds :
        state.tokens[<<Self, t>>] = SumFunction([i \in 1 .. MaxItems |-> Bid(i, t)])

\* An item that is sold stays as it is.
StaysSold ==
    \A i \in 1 .. MaxItems :
        state.items[i] # None /\ state.items[i].auction_state = "Sold"
          => state'.items[i] = state.items[i]

=============================================================================
