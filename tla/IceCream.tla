------------------------------ MODULE IceCream ------------------------------
(***************************************************************************)
(* examples/icecream: the CCD of a buyer goes to the vendor or back, as    *)
(* the weather service says, which is asked in the middle of the sale.     *)
(***************************************************************************)
EXTENDS Ledger, Functions

CONSTANTS
    Weather,  \* the weather contract of the example; other services may do anything
    Prices

Init ==
    /\ state = [weather_service |-> Weather, weather |-> "Sunny",
                ccd |-> InitialCcd, now |-> 0]
    /\ seen = None
    /\ calls = <<>>
    /\ ops = 0

\* What the invoker of the transaction, or the vendor, gets.
Settled(s, invoker, vendor, amount, weather) ==
    pay(s, Self, IF weather = "Rainy" THEN invoker ELSE vendor, amount)

\* The invoker is the account that sent the transaction, whoever calls.
Invokes(sender, invoker) ==
    /\ sender \in Accounts => invoker = sender
    /\ calls # <<>> => invoker = Top.invoker

contract_buy_icecream(sender, invoker, vendor, amount) ==
    LET paid == Received(sender, amount)
    IN  /\ CalledWith(sender, amount)
        /\ Invokes(sender, invoker)
        /\ \/ /\ state.weather_service = Weather
              /\ state' = Settled(paid, invoker, vendor, amount, state.weather)
              /\ UNCHANGED calls
           \/ /\ state.weather_service # Weather
              /\ state' = paid
              /\ calls' = Append(calls, [hook |-> state.weather_service, invoker |-> invoker,
                                         vendor |-> vendor, amount |-> amount, saved |-> Saved])
        /\ UNCHANGED seen

\* The weather service answers.
contract_bought_icecream(weather) ==
    /\ calls # <<>>
    /\ state' = Settled(state, Top.invoker, Top.vendor, Top.amount, weather)
    /\ calls' = Waiting(calls)
    /\ UNCHANGED <<seen, ops>>

contract_replace_weather_service(sender, service) ==
    /\ Called(sender)
    /\ sender = Owner
    /\ state' = [state EXCEPT !.weather_service = service]
    /\ Quietly

weather_set(sender, weather) ==
    /\ Called(sender)
    /\ sender = Owner
    /\ state' = [state EXCEPT !.weather = weather]
    /\ Quietly

Next ==
    \/ \E sender \in Addresses :
          \/ \E invoker, vendor \in Accounts, amount \in Prices :
                contract_buy_icecream(sender, invoker, vendor, amount)
          \/ \E service \in Contracts \cup {Weather} :
                contract_replace_weather_service(sender, service)
          \/ \E weather \in {"Rainy", "Sunny"} : weather_set(sender, weather)
    \/ \E weather \in {"Rainy", "Sunny"} : contract_bought_icecream(weather)
    \/ HookRejects

-----------------------------------------------------------------------------
(* Properties *)

\* The contract has the CCD of the sales that are under way, and no other.
FundsAccounted ==
    state.ccd[Self] = SumFunction([i \in DOMAIN calls |-> calls[i].amount])

=============================================================================
