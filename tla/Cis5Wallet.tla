----------------------------- MODULE Cis5Wallet -----------------------------
(***************************************************************************)
(* examples/cis5-smart-contract-wallet: CCD and tokens that belong to      *)
(* public keys, moved by messages that the keys have signed.  What is said *)
(* of CCD is said of the tokens of one CIS-2 contract as well: a currency  *)
(* is one of the two.                                                      *)
(***************************************************************************)
EXTENDS Ledger, Functions

CONSTANTS
    PublicKeys,
    SignedBatches,   \* the batches of signed messages that are brought to the wallet
    WalletAmounts,   \* the amounts that are deposited
    AmountLimit,     \* 2^64 for CCD, 2^256 for tokens: amounts are below it
    WalletImplementors

Currencies == {"ccd", "token"}

\* holdings: the CCD that the chain keeps and the tokens that the token contract
\* does.  A key that has never received anything has no balance.
Init ==
    /\ state = [balances        |-> [c \in Currencies |-> [k \in PublicKeys |-> None]],
                nonces_registry |-> [k \in PublicKeys |-> 0],
                implementors    |-> {},
                holdings        |-> [c \in Currencies |-> InitialCcd],
                now             |-> 0]
    /\ seen = [balances |-> [c \in Currencies |-> [k \in PublicKeys |-> 0]],
               nonces   |-> {},
               replayed |-> FALSE]
    /\ calls = <<>>
    /\ ops = 0

balance(s, c, k) == IF s.balances[c][k] = None THEN 0 ELSE s.balances[c][k]

\* The wallet with another balance of a key, and the chain with other holdings.
Balanced(s, c, k, amount) == [s EXCEPT !.balances[c][k] = amount]
Held(s, c, from, to, amount) ==
    [s EXCEPT !.holdings[c] = Given(s.holdings[c], from, to, amount)]

\* The events about balances.
Credited(e, c, k, amount) == [e EXCEPT !.balances[c][k] = e.balances[c][k] + amount]

-----------------------------------------------------------------------------
(* Deposits *)

Deposit(from, c, k, amount) ==
    /\ Called(from)
    /\ amount <= state.holdings[c][from]
    /\ balance(state, c, k) + amount < AmountLimit
    /\ state' = Balanced(Held(state, c, from, Self, amount), c, k, balance(state, c, k) + amount)
    /\ seen' = Credited(seen, c, k, amount)
    /\ UNCHANGED calls

deposit_ccd(sender, k, amount) == Deposit(sender, "ccd", k, amount)

\* The token contract has received the tokens for the wallet and calls it.
deposit_cis2_tokens(from, k, amount) == Deposit(from, "token", k, amount)

-----------------------------------------------------------------------------
(* Signed messages.  An entrypoint executes one message after another, and   *)
(* of a message first the fee for the service, then the parts: transfers or  *)
(* withdrawals.                                                              *)

Execute(sender, c, entry_point, batch) ==
    /\ Called(sender)
    /\ calls' = Append(calls, [hook |-> None, currency |-> c, entry_point |-> entry_point,
                               messages |-> batch, parts |-> <<>>, next |-> "sign",
                               saved |-> Saved])
    /\ UNCHANGED <<state, seen>>

transfer_ccd(sender, batch) == Execute(sender, "ccd", "transferCcd", batch)
transfer_cis2_tokens(sender, batch) == Execute(sender, "token", "transferCis2Tokens", batch)
withdraw_ccd(sender, batch) == Execute(sender, "ccd", "withdrawCcd", batch)
withdraw_cis2_tokens(sender, batch) == Execute(sender, "token", "withdrawCis2Tokens", batch)

Withdraws(entry_point) == entry_point \in {"withdrawCcd", "withdrawCis2Tokens"}

\* The entrypoint on top, which no other contract holds up, comes to a step.
ComesTo(next) ==
    /\ calls # <<>> /\ Top.hook = None /\ Top.next = next
    /\ UNCHANGED ops

Message == Head(Top.messages)
Part == Head(Top.parts)

Continues(frame) == calls' = Append(Waiting(calls), frame)

\* validate_signature_and_increase_nonce, for messages that are signed.
Valid(m) ==
    /\ m.entry_point = Top.entry_point
    /\ m.expiry_time > state.now
    /\ m.nonce = state.nonces_registry[m.signer]

NonceIncreased(s, k) == [s EXCEPT !.nonces_registry[k] = s.nonces_registry[k] + 1]

\* Mutant: the balances of both are read before they are written.
MovedWithin_read_first(s, c, from, to, amount) ==
    IF amount = 0 THEN s
    ELSE Balanced(Balanced(s, c, from, balance(s, c, from) - amount),
                  c, to, balance(s, c, to) + amount)

\* State::transfer_ccd and State::transfer_cis2_tokens: from key to key.
MovedWithin(s, c, from, to, amount) ==
    IF amount = 0 THEN s
    ELSE LET debited == Balanced(s, c, from, balance(s, c, from) - amount)
         IN  Balanced(debited, c, to, balance(debited, c, to) + amount)

\* What it requires: the balance of the sender, and no overflow.
MayMove(s, c, from, to, amount) ==
    amount > 0
      => LET debited == Balanced(s, c, from, balance(s, c, from) - amount)
         IN  /\ balance(s, c, from) >= amount
             /\ balance(debited, c, to) + amount < AmountLimit

MoveLogged(e, c, from, to, amount) == Credited(Credited(e, c, from, -amount), c, to, amount)

\* The nonce of a message is checked, and the fee for the service paid.
sign ==
    LET m        == Message
        c        == Top.currency
        to       == m.service_fee_recipient
        amount   == m.service_fee_amount
        accepted == Valid(m) /\ MayMove(state, c, m.signer, to, amount)
    IN  /\ ComesTo("sign")
        /\ \/ /\ accepted
              /\ state' = MovedWithin(NonceIncreased(state, m.signer), c, m.signer, to, amount)
              /\ seen' = MoveLogged(seen, c, m.signer, to, amount)
              /\ Continues([Top EXCEPT !.parts = m.parts, !.next = "part"])
           \/ ~ accepted /\ Rejects

\* A transfer to another key.
move ==
    LET c        == Top.currency
        from     == Message.signer
        accepted == MayMove(state, c, from, Part.to, Part.amount)
    IN  /\ ComesTo("part") /\ Top.parts # <<>> /\ ~ Withdraws(Top.entry_point)
        /\ \/ /\ accepted
              /\ state' = MovedWithin(state, c, from, Part.to, Part.amount)
              /\ seen' = MoveLogged(seen, c, from, Part.to, Part.amount)
              /\ Continues([Top EXCEPT !.parts = Tail(Top.parts)])
           \/ ~ accepted /\ Rejects

\* A withdrawal: the balance is debited before the CCD or the tokens leave, and a
\* contract that receives them is called.
pay_out ==
    LET c        == Top.currency
        from     == Message.signer
        accepted == state.balances[c][from] # None /\ balance(state, c, from) >= Part.amount
    IN  /\ ComesTo("part") /\ Top.parts # <<>> /\ Withdraws(Top.entry_point)
        /\ \/ /\ accepted
              /\ state' = Held(Balanced(state, c, from, balance(state, c, from) - Part.amount),
                               c, Self, Part.to, Part.amount)
              /\ Continues([Top EXCEPT !.next = "log",
                                       !.hook = IF Part.to \in Contracts THEN Part.to ELSE None])
              /\ UNCHANGED seen
           \/ ~ accepted /\ Rejects

HookReturns ==
    /\ calls # <<>> /\ Top.hook # None
    /\ Continues([Top EXCEPT !.hook = None])
    /\ UNCHANGED <<state, seen, ops>>

\* A withdrawal is logged when it is done.
log_withdraw ==
    /\ ComesTo("log")
    /\ seen' = Credited(seen, Top.currency, Message.signer, -Part.amount)
    /\ Continues([Top EXCEPT !.parts = Tail(Top.parts), !.next = "part"])
    /\ UNCHANGED state

\* A message ends with the event of its nonce.
log_nonce ==
    LET used == <<Message.signer, Message.nonce>>
    IN  /\ ComesTo("part") /\ Top.parts = <<>>
        /\ seen' = [seen EXCEPT !.nonces = seen.nonces \cup {used},
                                !.replayed = seen.replayed \/ used \in seen.nonces]
        /\ IF Tail(Top.messages) = <<>> THEN calls' = Waiting(calls)
           ELSE Continues([Top EXCEPT !.messages = Tail(Top.messages), !.next = "sign"])
        /\ UNCHANGED state

contract_set_implementor(sender, implementors) ==
    /\ Called(sender)
    /\ sender = Owner
    /\ state' = [state EXCEPT !.implementors = implementors]
    /\ Quietly

Next ==
    \/ \E sender \in Addresses :
          \/ \E k \in PublicKeys, amount \in WalletAmounts :
                deposit_ccd(sender, k, amount) \/ deposit_cis2_tokens(sender, k, amount)
          \/ \E batch \in SignedBatches :
                \/ transfer_ccd(sender, batch) \/ transfer_cis2_tokens(sender, batch)
                \/ withdraw_ccd(sender, batch) \/ withdraw_cis2_tokens(sender, batch)
          \/ \E implementors \in WalletImplementors : contract_set_implementor(sender, implementors)
    \/ sign \/ move \/ pay_out \/ log_withdraw \/ log_nonce
    \/ HookReturns
    \/ HookRejects
    \/ Tick

-----------------------------------------------------------------------------
(* Properties *)

\* What the keys have is what the wallet has, also while a receiver is called.
FundsAccounted ==
    \A c \in Currencies :
        /\ \A k \in PublicKeys : balance(state, c, k) >= 0
        /\ SumFunction([k \in PublicKeys |-> balance(state, c, k)]) = state.holdings[c][Self]

\* Between transactions the events have told everybody's balance.
LogTellsBalances ==
    calls = <<>> => \A c \in Currencies, k \in PublicKeys : balance(state, c, k) = seen.balances[c][k]

\* No message that a key has signed is executed twice, also if it is brought
\* again by a contract that it pays.
SignedOnce == ~ seen.replayed

=============================================================================
