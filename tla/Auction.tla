------------------------------ MODULE Auction -------------------------------
(***************************************************************************)
(* examples/auction: bids in CCD for one item.  The highest bid is the     *)
(* contract's CCD; whoever is outbid is paid back.                         *)
(***************************************************************************)
EXTENDS Ledger

CONSTANTS
    Bids,           \* the amounts that are bid
    minimum_raise,  \* in euro cent
    MicroCcdPerCent,
    AuctionEnd

Init ==
    /\ state = [auction_state  |-> "NotSoldYet",
                highest_bidder |-> None,
                end            |-> AuctionEnd,
                ccd            |-> InitialCcd,
                now            |-> 0]
    /\ seen = None
    /\ calls = <<>>
    /\ ops = 0

convert_amount_to_euro_cent(amount) == amount \div MicroCcdPerCent

auction_bid(sender, amount) ==
    LET paid             == Received(sender, amount)
        previous_balance == paid.ccd[Self] - amount
    IN  /\ CalledWith(sender, amount)
        /\ state.auction_state = "NotSoldYet"
        /\ state.now <= state.end
        /\ sender \in Accounts
        /\ amount > previous_balance
        /\ convert_amount_to_euro_cent(amount - previous_balance) >= minimum_raise
        /\ state' = [(IF state.highest_bidder = None THEN paid
                      ELSE pay(paid, Self, state.highest_bidder, previous_balance))
                       EXCEPT !.highest_bidder = sender]
        /\ Quietly

\* Without a bidder nothing is sold, and the auction is not over.
auction_finalize(sender) ==
    /\ Called(sender)
    /\ state.auction_state = "NotSoldYet"
    /\ state.now > state.end
    /\ state.highest_bidder # None
    /\ state' = [pay(state, Self, Owner, state.ccd[Self]) EXCEPT !.auction_state = "Sold"]
    /\ Quietly

Next ==
    \/ \E sender \in Addresses :
          \/ \E amount \in Bids : auction_bid(sender, amount)
          \/ auction_finalize(sender)
    \/ Tick

-----------------------------------------------------------------------------
(* Properties *)

view_highest_bid == state.ccd[Self]

\* Only the highest bidder has paid, what the contract says is the highest bid;
\* when the item is sold the owner has got it.
FundsAccounted ==
    LET price(bidder) == Wealth - state.ccd[bidder]
    IN  /\ \A a \in Addresses \ {state.highest_bidder, Owner} : state.ccd[a] = Wealth
        /\ view_highest_bid =
             IF state.highest_bidder = None \/ state.auction_state = "Sold" THEN 0
             ELSE price(state.highest_bidder)
        /\ state.auction_state = "NotSoldYet" /\ state.highest_bidder # Owner
             => state.ccd[Owner] = Wealth

\* What is sold stays sold, to the same bidder.
StaysSold ==
    state.auction_state = "Sold"
      => /\ state'.auction_state = "Sold"
         /\ state'.highest_bidder = state.highest_bidder
         /\ state'.ccd = state.ccd

=============================================================================
