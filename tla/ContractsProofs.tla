--------------------------- MODULE ContractsProofs --------------------------
(***************************************************************************)
(* What is true of the other contracts of examples/, for any accounts,     *)
(* amounts, times, requests and signed messages.                           *)
(***************************************************************************)
EXTENDS Contracts, SumProofs

\* What the contracts have in common.
Led == INSTANCE Ledger

Everybody == Accounts \cup Contracts \cup {Self}

\* What each of a set of holders has, in whole numbers that may be below zero.
Holdings(S) == [S -> Int]

-----------------------------------------------------------------------------
(* What is given leaves one and comes to the other. *)
LEMMA Gives ==
    ASSUME NEW S, NEW h \in Holdings(S), NEW from \in S, NEW to \in S, NEW amount \in Int
    PROVE  /\ Led!Given(h, from, to, amount) \in Holdings(S)
           /\ \A x \in S : Led!Given(h, from, to, amount)[x]
                             = IF from = to THEN h[x]
                               ELSE IF x = from THEN h[x] - amount
                               ELSE IF x = to THEN h[x] + amount
                               ELSE h[x]
<1> DEFINE d == [h EXCEPT ![from] = h[from] - amount]
           g == [d EXCEPT ![to] = d[to] + amount]
<1>1. d \in [S -> Int] /\ \A x \in S : d[x] = IF x = from THEN h[x] - amount ELSE h[x]
  BY DEF Holdings
<1>2. Led!Given(h, from, to, amount) = g
  BY DEF Led!Given
<1> HIDE DEF d
<1>3. g \in [S -> Int] /\ \A x \in S : g[x] = IF x = to THEN d[x] + amount ELSE d[x]
  BY <1>1
<1> HIDE DEF g
<1>4. g \in Holdings(S)
  BY <1>3 DEF Holdings
<1>5. ASSUME NEW x \in S
      PROVE  g[x] = IF from = to THEN h[x]
                    ELSE IF x = from THEN h[x] - amount
                    ELSE IF x = to THEN h[x] + amount
                    ELSE h[x]
  <2>1. h[x] \in Int
    BY DEF Holdings
  <2> QED
    BY <1>1, <1>3, <2>1
<1> QED
  BY <1>2, <1>4, <1>5

(* The giver and the receiver being two *)
LEMMA GivesOther ==
    ASSUME NEW S, NEW h \in Holdings(S), NEW from \in S, NEW to \in S, NEW amount \in Int, from # to
    PROVE  /\ Led!Given(h, from, to, amount) \in Holdings(S)
           /\ Led!Given(h, from, to, amount)[from] = h[from] - amount
           /\ Led!Given(h, from, to, amount)[to] = h[to] + amount
           /\ \A x \in S : x # from /\ x # to => Led!Given(h, from, to, amount)[x] = h[x]
  BY Gives

LEMMA EverybodyFinite == IsFiniteSet(Everybody)
<1>1. IsFiniteSet(Accounts \cup Contracts)
  BY AddressAssumption, FS_Union
<1>2. IsFiniteSet({Self})
  BY FS_Singleton
<1> QED
  BY <1>1, <1>2, FS_Union DEF Everybody

(* At first everybody has as much, and the contract nothing. *)
LEMMA InitialHoldings ==
    /\ Led!InitialCcd \in Holdings(Everybody)
    /\ \A a \in Everybody : Led!InitialCcd[a] = IF a = Self THEN 0 ELSE Wealth
  BY AmountAssumption DEF Led!InitialCcd, Led!Addresses, Everybody, Holdings

-----------------------------------------------------------------------------
(* Entrypoints that are under way *)

(* One more *)
LEMMA Pushes ==
    ASSUME NEW F, NEW s \in Seq(F), NEW e \in F
    PROVE  /\ Append(s, e) \in Seq(F) /\ Len(Append(s, e)) = Len(s) + 1
           /\ Append(s, e)[Len(s) + 1] = e
           /\ \A i \in 1 .. Len(s) : Append(s, e)[i] = s[i]
           /\ Len(s) \in Nat
  BY AppendProperties

(* One less *)
LEMMA Pops ==
    ASSUME NEW F, NEW s \in Seq(F), s # <<>>
    PROVE  /\ Led!Waiting(s) \in Seq(F) /\ Len(Led!Waiting(s)) = Len(s) - 1
           /\ \A i \in 1 .. (Len(s) - 1) : Led!Waiting(s)[i] = s[i]
           /\ Len(s) \in Nat \ {0} /\ s[Len(s)] \in F
<1>1. Len(s) \in Nat \ {0}
  BY EmptySeq
<1> DEFINE n == Len(s) - 1
           w == SubSeq(s, 1, n)
<1>2. n \in Int /\ 1 \in Int /\ n \in Nat
  BY <1>1
<1>3. \A i \in 1 .. Len(s) : s[i] \in F
  BY ElementOfSeq
<1>4. \A i \in 1 .. n : s[i] \in F
  BY <1>1, <1>3
<1> HIDE DEF n
<1>5. /\ w \in Seq(F) /\ Len(w) = (IF 1 <= n THEN n - 1 + 1 ELSE 0)
      /\ \A i \in 1 .. (n - 1 + 1) : w[i] = s[1 + i - 1]
  BY <1>2, <1>4, SubSeqProperties
<1> HIDE DEF w
<1>6. Len(w) = n /\ \A i \in 1 .. n : w[i] = s[i]
  BY <1>2, <1>5
<1>7. s[Len(s)] \in F
  BY <1>1, <1>3
<1> QED
  BY <1>1, <1>5, <1>6, <1>7 DEF Led!Waiting, w, n

(* The sum of the first numbers of a sequence *)
SumTo(f, n) == SumOf([j \in 1 .. n |-> f[j]], 1 .. n)

LEMMA SumToNone == ASSUME NEW f PROVE SumTo(f, 0) = 0
<1>1. 1 .. 0 = {} /\ IsFiniteSet({})
  BY FS_EmptySet
<1>2. \A x \in {} : [j \in {} |-> f[j]][x] = 0
  OBVIOUS
<1> QED
  BY <1>1, <1>2, SumOfZero DEF SumTo

LEMMA SumToNext ==
    ASSUME NEW n \in Nat, NEW f, \A j \in 1 .. (n + 1) : f[j] \in Int
    PROVE  SumTo(f, n + 1) = SumTo(f, n) + f[n + 1]
<1> DEFINE g == [j \in 1 .. n |-> f[j]]
           h == [j \in 1 .. (n + 1) |-> f[j]]
           S == 1 .. n
           x == n + 1
<1>1. /\ 1 .. (n + 1) = S \cup {x} /\ x \notin S
      /\ IsFiniteSet(S)
  BY FS_Interval
<1>2. /\ g \in [1 .. n -> Int] /\ h \in [S \cup {x} -> Int]
      /\ \A y \in S : h[y] = g[y]
      /\ h[x] = f[x]
  BY <1>1
<1> HIDE DEF g, h, S, x
<1>3. SumOf(h, S \cup {x}) = SumOf(g, S) + h[x]
  <2>1. g \in [S -> Int]
    BY <1>2 DEF S
  <2> QED
    BY <1>1, <1>2, <2>1, SumOfMore
<1>4. SumOf(h, 1 .. (n + 1)) = SumOf(g, 1 .. n) + h[n + 1]
  BY <1>1, <1>3 DEF S, x
<1> QED
  BY <1>2, <1>4 DEF SumTo, g, h, x

LEMMA SumToSame ==
    ASSUME NEW n, NEW f, NEW g, \A j \in 1 .. n : f[j] = g[j]
    PROVE  SumTo(f, n) = SumTo(g, n)
<1>1. [j \in 1 .. n |-> f[j]] = [j \in 1 .. n |-> g[j]]
  OBVIOUS
<1> QED
  BY <1>1 DEF SumTo

LEMMA SumToNat ==
    ASSUME NEW n \in Nat, NEW f, \A j \in 1 .. n : f[j] \in Int
    PROVE  SumTo(f, n) \in Int
<1>1. [j \in 1 .. n |-> f[j]] \in [1 .. n -> Int] /\ IsFiniteSet(1 .. n)
  BY FS_Interval
<1> QED
  BY <1>1, SumOfType DEF SumTo

(* The first of a sequence, and the rest *)
LEMMA HeadAndTail ==
    ASSUME NEW F, NEW s \in Seq(F), s # <<>>
    PROVE  Head(s) \in F /\ Tail(s) \in Seq(F)
  OBVIOUS

-----------------------------------------------------------------------------
(* Numbers that wrap *)
LEMMA WrapsAround ==
    ASSUME NEW m \in Nat \ {0}, NEW n \in Int
    PROVE  n % m \in 0 .. (m - 1) /\ (n >= 0 => n % m <= n)
<1>1. n = m * (n \div m) + (n % m) /\ n \div m \in Int /\ n % m \in 0 .. (m - 1)
  OBVIOUS
<1>2. ASSUME n >= 0, n \div m < 0 PROVE FALSE
  <2> DEFINE q == n \div m
  <2> HIDE DEF q
  <2>1. m * q <= 0 - m
    BY <1>1, <1>2 DEF q
  <2> QED
    BY <1>1, <1>2, <2>1 DEF q
<1>3. ASSUME NEW q \in Nat PROVE m * q >= 0
  OBVIOUS
<1> QED
  BY <1>1, <1>2, <1>3

LEMMA Within == ASSUME NEW n \in Nat, NEW m \in Nat, n < m PROVE n % m = n
  OBVIOUS

-----------------------------------------------------------------------------
(* Everybody pays the contract, and it pays others. *)
LEMMA PaidIn ==
    ASSUME NEW h \in Holdings(Everybody), NEW from \in Addresses, NEW amount \in Int
    PROVE  /\ Led!Given(h, from, Self, amount) \in Holdings(Everybody)
           /\ Led!Given(h, from, Self, amount)[Self] = h[Self] + amount
<1>1. from \in Everybody /\ Self \in Everybody /\ from # Self
  BY AddressAssumption DEF Everybody, Addresses
<1> QED
  BY <1>1, GivesOther

LEMMA PaidOut ==
    ASSUME NEW h \in Holdings(Everybody), NEW to \in Addresses, NEW amount \in Int
    PROVE  /\ Led!Given(h, Self, to, amount) \in Holdings(Everybody)
           /\ Led!Given(h, Self, to, amount)[Self] = h[Self] - amount
<1>1. to \in Everybody /\ Self \in Everybody /\ Self # to
  BY AddressAssumption DEF Everybody, Addresses
<1> QED
  BY <1>1, GivesOther

-----------------------------------------------------------------------------
(* The accounts that use some of the contracts *)

Among == Partners \cup Contracts \cup {Self}

LEMMA AmongAddresses ==
    /\ Self \in Among /\ Owner \in Among /\ Owner # Self /\ Self # Owner
    /\ Partners \cup Contracts \subseteq Among /\ Self \notin Partners \cup Contracts
    /\ None \notin Among
  BY AddressAssumption DEF Among, Addresses

LEMMA AmongFinite == IsFiniteSet(Among)
<1>1. IsFiniteSet(Partners \cup Contracts)
  BY AddressAssumption, FS_Subset, FS_Union
<1>2. IsFiniteSet({Self})
  BY FS_Singleton
<1> QED
  BY <1>1, <1>2, FS_Union DEF Among

LEMMA PartnersFinite == IsFiniteSet(Partners)
  BY AddressAssumption, FS_Subset

-----------------------------------------------------------------------------
(* piggy-bank *)

PiggyStates == [piggy : {"Intact", "Smashed"}, ccd : Holdings(Everybody), now : Nat]

PiggyInv ==
    /\ state \in PiggyStates /\ seen \in Nat
    /\ Saving!FundsAccounted

LEMMA PiggyInit == Saving!Init => PiggyInv
<1> SUFFICES ASSUME Saving!Init PROVE PiggyInv
  OBVIOUS
<1>1. state = [piggy |-> "Intact", ccd |-> Led!InitialCcd, now |-> 0] /\ seen = 0
  BY DEF Saving!Init, Saving!InitialCcd, Led!InitialCcd, Saving!Addresses, Led!Addresses
<1>2. state \in PiggyStates
  BY <1>1, InitialHoldings DEF PiggyStates
<1>3. state.ccd[Self] = 0
  BY <1>1, InitialHoldings DEF Everybody
<1> QED
  BY <1>1, <1>2, <1>3 DEF PiggyInv, Saving!FundsAccounted

LEMMA PiggyNext ==
    ASSUME PiggyInv, Saving!Next
    PROVE  PiggyInv' /\ Saving!StaysSmashed
<1>0. Self \in Everybody /\ state \in PiggyStates /\ seen \in Nat /\ state.ccd \in Holdings(Everybody)
      /\ Self \notin Addresses
  BY AddressAssumption DEF Everybody, PiggyInv, PiggyStates
<1>1. ASSUME NEW sender \in Addresses, NEW amount \in Coins, Saving!piggy_insert(sender, amount)
      PROVE  PiggyInv' /\ Saving!StaysSmashed
  <2>1. state' = [state EXCEPT !.ccd = Led!Given(state.ccd, sender, Self, amount)]
        /\ seen' = seen + amount /\ state.piggy = "Intact"
    BY <1>1 DEF Saving!piggy_insert, Saving!Received, Saving!pay, Saving!Given, Led!Given
  <2>2. amount \in Nat /\ sender \in Everybody /\ sender # Self
    BY <1>0, AmountAssumption DEF Everybody, Addresses
  <2> DEFINE g == Led!Given(state.ccd, sender, Self, amount)
  <2>3. g \in Holdings(Everybody) /\ g[Self] = state.ccd[Self] + amount
    BY <1>0, <2>2, Gives
  <2> HIDE DEF g
  <2>4. state' \in PiggyStates /\ state'.ccd = g /\ state'.piggy = state.piggy
    BY <1>0, <2>1, <2>3 DEF PiggyStates, g
  <2> QED
    BY <1>0, <2>1, <2>2, <2>3, <2>4 DEF PiggyInv, Saving!FundsAccounted, Saving!StaysSmashed
<1>2. ASSUME NEW sender \in Addresses, Saving!piggy_smash(sender)
      PROVE  PiggyInv' /\ Saving!StaysSmashed
  <2>1. state' = [[state EXCEPT !.piggy = "Smashed"]
                    EXCEPT !.ccd = Led!Given(state.ccd, Self, Owner, state.ccd[Self])]
        /\ seen' = seen /\ state.piggy = "Intact"
    BY <1>0, <1>2 DEF Saving!piggy_smash, Saving!pay, Saving!Given, Led!Given, Saving!Quietly, PiggyStates
  <2>2. Owner \in Everybody /\ Owner # Self
    BY AddressAssumption DEF Everybody, Addresses
  <2> DEFINE g == Led!Given(state.ccd, Self, Owner, state.ccd[Self])
  <2>3. state.ccd[Self] \in Int
    BY <1>0 DEF Holdings
  <2>4. g \in Holdings(Everybody) /\ g[Self] = 0
    BY <1>0, <2>2, <2>3, Gives
  <2> HIDE DEF g
  <2>5. state' \in PiggyStates /\ state'.ccd = g /\ state'.piggy = "Smashed"
    BY <1>0, <2>1, <2>4 DEF PiggyStates, g
  <2> QED
    BY <1>0, <2>1, <2>4, <2>5 DEF PiggyInv, Saving!FundsAccounted, Saving!StaysSmashed
<1> QED
  BY <1>1, <1>2 DEF Saving!Next, Saving!Addresses, Addresses

-----------------------------------------------------------------------------
(* eSealing *)

SealingStates ==
    [files : [Files -> [timestamp : Nat, witness : Accounts] \cup {None}], now : Nat]

SealingInv == state \in SealingStates

LEMMA SealingInit == Seals!Init => SealingInv
  BY DEF Seals!Init, SealingInv, SealingStates

LEMMA SealingNext ==
    ASSUME SealingInv, Seals!Next
    PROVE  SealingInv' /\ Seals!StaysSealed
<1>1. ASSUME NEW sender \in Seals!Addresses, NEW file \in Files, Seals!register_file(sender, file)
      PROVE  SealingInv' /\ Seals!StaysSealed
  BY <1>1 DEF Seals!register_file, SealingInv, SealingStates, Seals!StaysSealed, Seals!file_exists,
              Seals!get_file
<1>2. ASSUME Seals!Tick PROVE SealingInv' /\ Seals!StaysSealed
  BY <1>2 DEF Seals!Tick, SealingInv, SealingStates, Seals!StaysSealed, Seals!get_file
<1> QED
  BY <1>1, <1>2 DEF Seals!Next

-----------------------------------------------------------------------------
(* auction *)

AuctionStates ==
    [auction_state : {"NotSoldYet", "Sold"}, highest_bidder : Accounts \cup {None}, end : Nat,
     ccd : Holdings(Everybody), now : Nat]

(* Who has paid: the highest bidder, or the owner has been *)
AuctionFunds(ccd, bidder, sold) ==
    /\ \A a \in Addresses \ {bidder, Owner} : ccd[a] = Wealth
    /\ ccd[Self] = IF bidder = None \/ sold THEN 0 ELSE Wealth - ccd[bidder]
    /\ ~ sold /\ bidder # Owner => ccd[Owner] = Wealth

AuctionInv ==
    /\ state \in AuctionStates
    /\ AuctionFunds(state.ccd, state.highest_bidder, state.auction_state = "Sold")
    /\ state.auction_state = "Sold" => state.highest_bidder # None

LEMMA AuctionAddresses ==
    /\ Self \in Everybody /\ Owner \in Accounts /\ Accounts \subseteq Addresses
    /\ Self \notin Addresses /\ Addresses \subseteq Everybody /\ None \notin Everybody /\ Wealth \in Int
  BY AddressAssumption, AmountAssumption DEF Everybody, Addresses

LEMMA AuctionInit == Bidding!Init => AuctionInv
<1> SUFFICES ASSUME Bidding!Init PROVE AuctionInv
  OBVIOUS
<1>1. state = [auction_state |-> "NotSoldYet", highest_bidder |-> None, end |-> AuctionEnd,
               ccd |-> Led!InitialCcd, now |-> 0]
  BY DEF Bidding!Init, Bidding!InitialCcd, Led!InitialCcd, Bidding!Addresses, Led!Addresses
<1>2. state \in AuctionStates
  BY <1>1, InitialHoldings, AmountAssumption DEF AuctionStates
<1>3. /\ \A a \in Addresses : state.ccd[a] = Wealth
      /\ state.ccd[Self] = 0 /\ Owner \in Addresses
  BY <1>1, InitialHoldings, AddressAssumption DEF Everybody, Addresses
<1> QED
  BY <1>1, <1>2, <1>3 DEF AuctionInv, AuctionFunds

(* What the contract gives *)
LEMMA SelfGives ==
    ASSUME NEW h \in Holdings(Everybody), Self \in Everybody, NEW to \in Everybody, Self # to,
           NEW amount \in Int
    PROVE  /\ Led!Given(h, Self, to, amount)[Self] = h[Self] - amount
           /\ Led!Given(h, Self, to, amount)[to] = h[to] + amount
           /\ \A x \in Everybody : x # Self /\ x # to => Led!Given(h, Self, to, amount)[x] = h[x]
  BY GivesOther

(* The first bid *)
LEMMA BidFirst ==
    ASSUME NEW c \in Holdings(Everybody), AuctionFunds(c, None, FALSE),
           NEW sender \in Accounts, NEW amount \in Int
    PROVE  AuctionFunds(Led!Given(c, sender, Self, amount), sender, FALSE)
<1> DEFINE g == Led!Given(c, sender, Self, amount)
<1>1. sender \in Everybody /\ sender # Self /\ sender # None
  BY AuctionAddresses
<1>2. /\ g[sender] = c[sender] - amount /\ g[Self] = c[Self] + amount
      /\ \A x \in Everybody : x # sender /\ x # Self => g[x] = c[x]
  BY <1>1, AuctionAddresses, GivesOther
<1>3. c[sender] = Wealth /\ c[Self] = 0
  BY AuctionAddresses DEF AuctionFunds
<1> HIDE DEF g
<1>4. \A a \in Addresses \ {sender} : g[a] = Wealth
  BY <1>2, AuctionAddresses DEF AuctionFunds
<1>5. g[Self] = Wealth - g[sender]
  BY <1>2, <1>3, AuctionAddresses
<1> QED
  BY <1>1, <1>4, <1>5, AuctionAddresses DEF AuctionFunds, g

(* and one that is higher *)
LEMMA BidHigher ==
    ASSUME NEW c \in Holdings(Everybody), NEW bidder \in Accounts, AuctionFunds(c, bidder, FALSE),
           NEW sender \in Accounts, NEW amount \in Int, NEW previous \in Int, previous = c[Self]
    PROVE  AuctionFunds(Led!Given(Led!Given(c, sender, Self, amount), Self, bidder, previous),
                        sender, FALSE)
<1> DEFINE g == Led!Given(c, sender, Self, amount)
           h == Led!Given(g, Self, bidder, previous)
<1>1. /\ sender \in Everybody /\ sender # Self /\ sender # None
      /\ bidder \in Everybody /\ Self # bidder /\ bidder # None
  BY AuctionAddresses
<1>2. /\ g \in Holdings(Everybody)
      /\ g[sender] = c[sender] - amount /\ g[Self] = c[Self] + amount
      /\ \A x \in Everybody : x # sender /\ x # Self => g[x] = c[x]
  BY <1>1, AuctionAddresses, GivesOther
<1> HIDE DEF g
<1>3. /\ h[Self] = g[Self] - previous /\ h[bidder] = g[bidder] + previous
      /\ \A x \in Everybody : x # Self /\ x # bidder => h[x] = g[x]
  <2>1. /\ g \in Holdings(Everybody) /\ Self \in Everybody /\ bidder \in Everybody
        /\ Self # bidder /\ previous \in Int
    BY <1>1, <1>2, AuctionAddresses
  <2> QED
    BY <2>1, SelfGives, Zenon
<1> HIDE DEF h
<1>4. c[Self] = Wealth - c[bidder] /\ c[bidder] \in Int
  BY <1>1, AuctionAddresses DEF AuctionFunds, Holdings
<1>5. \A a \in Addresses \ {bidder} : c[a] = Wealth
  BY AuctionAddresses DEF AuctionFunds
<1>6. CASE sender = bidder
  <2>1. h[Self] = amount /\ h[bidder] = Wealth - amount
    BY <1>2, <1>3, <1>4, <1>6, AuctionAddresses
  <2>2. \A a \in Addresses \ {bidder} : h[a] = Wealth
    BY <1>2, <1>3, <1>5, <1>6, AuctionAddresses
  <2> QED
    BY <1>1, <1>6, <2>1, <2>2, AuctionAddresses DEF AuctionFunds, h, g
<1>7. CASE sender # bidder
  <2>1. h[Self] = amount /\ h[bidder] = Wealth /\ h[sender] = Wealth - amount
    BY <1>1, <1>2, <1>3, <1>4, <1>5, <1>7, AuctionAddresses
  <2>2. \A a \in Addresses \ {sender} : h[a] = Wealth
    BY <1>1, <1>2, <1>3, <1>5, <2>1, AuctionAddresses
  <2> QED
    BY <1>1, <2>1, <2>2, AuctionAddresses DEF AuctionFunds, h, g
<1> QED
  BY <1>6, <1>7

(* The owner gets the highest bid. *)
LEMMA AuctionPaid ==
    ASSUME NEW c \in Holdings(Everybody), NEW bidder \in Accounts, AuctionFunds(c, bidder, FALSE)
    PROVE  AuctionFunds(Led!Given(c, Self, Owner, c[Self]), bidder, TRUE)
<1> DEFINE g == Led!Given(c, Self, Owner, c[Self])
<1>1. /\ Owner \in Everybody /\ Self # Owner /\ c[Self] \in Int
  BY AuctionAddresses DEF Holdings
<1>2. /\ g[Self] = c[Self] - c[Self]
      /\ \A x \in Everybody : x # Self /\ x # Owner => g[x] = c[x]
  <2>1. Self \in Everybody /\ Owner \in Everybody /\ Self # Owner /\ c[Self] \in Int
    BY <1>1, AuctionAddresses
  <2> QED
    BY <2>1, SelfGives, Zenon
<1> HIDE DEF g
<1> QED
  BY <1>1, <1>2, AuctionAddresses DEF AuctionFunds, g

LEMMA AuctionBid ==
    ASSUME AuctionInv, NEW sender \in Addresses, NEW amount \in Bids, Bidding!auction_bid(sender, amount)
    PROVE  AuctionInv' /\ Bidding!StaysSold
<1> DEFINE c == state.ccd
           bidder == state.highest_bidder
           g == Led!Given(c, sender, Self, amount)
           paid == [state EXCEPT !.ccd = g]
           previous == g[Self] - amount
           h == IF bidder = None THEN g ELSE Led!Given(g, Self, bidder, previous)
<1>1. /\ state \in AuctionStates /\ c \in Holdings(Everybody) /\ bidder \in Accounts \cup {None}
  BY DEF AuctionInv, AuctionStates
<1>2. paid = Bidding!Received(sender, amount) /\ paid.ccd = g
      /\ paid.highest_bidder = bidder
  BY <1>1 DEF Bidding!Received, Bidding!pay, Bidding!Given, Led!Given, AuctionStates
<1>3. /\ state.auction_state = "NotSoldYet" /\ sender \in Accounts
      /\ state' = [(IF bidder = None THEN paid
                    ELSE Bidding!pay(paid, Self, bidder, previous)) EXCEPT !.highest_bidder = sender]
  <2> HIDE DEF paid, g
  <2> QED
    BY <1>2 DEF Bidding!auction_bid
<1>4. amount \in Int /\ sender \in Everybody /\ sender # Self
  BY AmountAssumption, AuctionAddresses
<1>5. AuctionFunds(c, bidder, FALSE)
  BY <1>3 DEF AuctionInv
<1>6. g \in Holdings(Everybody) /\ previous = c[Self] /\ previous \in Int
  <2>0. c \in Holdings(Everybody) /\ c[Self] \in Int /\ Self \in Everybody
    BY <1>1, AuctionAddresses DEF Holdings
  <2> HIDE DEF c
  <2>1. g \in Holdings(Everybody) /\ g[Self] = c[Self] + amount /\ c[Self] \in Int
    BY <2>0, <1>4, GivesOther
  <2> HIDE DEF g
  <2> QED
    BY <1>4, <2>1
<1>7. h \in Holdings(Everybody) /\ AuctionFunds(h, sender, FALSE)
  <2>1. CASE bidder = None
    BY <1>1, <1>3, <1>4, <1>5, <1>6, <2>1, BidFirst
  <2>2. CASE bidder # None
    <3>1. bidder \in Accounts /\ bidder \in Everybody
      BY <1>1, <2>2, AuctionAddresses
    <3>2. Led!Given(g, Self, bidder, previous) \in Holdings(Everybody)
      <4> HIDE DEF g, previous, bidder
      <4> QED
        BY <1>6, <3>1, AuctionAddresses, Gives
    <3>3. AuctionFunds(Led!Given(g, Self, bidder, previous), sender, FALSE)
      <4> HIDE DEF previous, bidder, c
      <4> QED
        BY <1>1, <1>3, <1>4, <1>5, <1>6, <3>1, BidHigher
    <3> QED
      BY <2>2, <3>2, <3>3
  <2> QED
    BY <2>1, <2>2
<1>8. Bidding!pay(paid, Self, bidder, previous)
          = [paid EXCEPT !.ccd = Led!Given(g, Self, bidder, previous)]
  <2> HIDE DEF paid, previous, g, bidder
  <2> QED
    BY <1>2 DEF Bidding!pay, Bidding!Given, Led!Given
<1> HIDE DEF previous, g
<1>9. state' = [state EXCEPT !.ccd = h, !.highest_bidder = sender]
  <2>1. CASE bidder = None
    BY <1>1, <1>3, <2>1 DEF AuctionStates
  <2>2. CASE bidder # None
    BY <1>1, <1>3, <1>8, <2>2 DEF AuctionStates
  <2> QED
    BY <2>1, <2>2
<1> HIDE DEF h
<1>10. state' \in AuctionStates /\ state'.ccd = h /\ state'.highest_bidder = sender
       /\ state'.auction_state = "NotSoldYet"
  BY <1>1, <1>3, <1>7, <1>9 DEF AuctionStates
<1> QED
  BY <1>3, <1>7, <1>10 DEF AuctionInv, Bidding!StaysSold

LEMMA AuctionFinalize ==
    ASSUME AuctionInv, NEW sender \in Addresses, Bidding!auction_finalize(sender)
    PROVE  AuctionInv' /\ Bidding!StaysSold
<1> DEFINE c == state.ccd
           bidder == state.highest_bidder
           g == Led!Given(c, Self, Owner, c[Self])
<1>1. /\ state \in AuctionStates /\ c \in Holdings(Everybody) /\ bidder \in Accounts
      /\ state.auction_state = "NotSoldYet"
      /\ state' = [[state EXCEPT !.ccd = g] EXCEPT !.auction_state = "Sold"]
  BY DEF AuctionInv, AuctionStates, Bidding!auction_finalize, Bidding!pay, Bidding!Given, Led!Given
<1>2. c[Self] \in Int /\ Owner \in Everybody
  BY <1>1, AuctionAddresses DEF Holdings
<1>3. g \in Holdings(Everybody) /\ AuctionFunds(g, bidder, TRUE)
  <2>1. AuctionFunds(c, bidder, FALSE)
    BY <1>1 DEF AuctionInv
  <2> HIDE DEF c, bidder
  <2> QED
    BY <1>1, <1>2, <2>1, AuctionAddresses, Gives, AuctionPaid
<1> HIDE DEF g
<1>4. state' \in AuctionStates /\ state'.ccd = g /\ state'.highest_bidder = bidder
      /\ state'.auction_state = "Sold"
  BY <1>1, <1>3 DEF AuctionStates
<1> QED
  BY <1>1, <1>3, <1>4, AuctionAddresses DEF AuctionInv, Bidding!StaysSold

LEMMA AuctionNext ==
    ASSUME AuctionInv, Bidding!Next
    PROVE  AuctionInv' /\ Bidding!StaysSold
<1>1. ASSUME Bidding!Tick PROVE AuctionInv' /\ Bidding!StaysSold
  <2>1. state' \in AuctionStates /\ state'.ccd = state.ccd
        /\ state'.highest_bidder = state.highest_bidder /\ state'.auction_state = state.auction_state
    BY <1>1 DEF Bidding!Tick, AuctionInv, AuctionStates
  <2> QED
    BY <2>1 DEF AuctionInv, Bidding!StaysSold
<1> QED
  BY <1>1, AuctionBid, AuctionFinalize DEF Bidding!Next, Bidding!Addresses, Addresses

LEMMA AuctionFundsAccounted == AuctionInv => Bidding!FundsAccounted
<1> SUFFICES ASSUME AuctionInv PROVE Bidding!FundsAccounted
  OBVIOUS
<1>1. state.auction_state = "NotSoldYet" <=> state.auction_state # "Sold"
  BY DEF AuctionInv, AuctionStates
<1> QED
  BY <1>1 DEF AuctionInv, AuctionFunds, Bidding!FundsAccounted, Bidding!view_highest_bid,
              Bidding!Addresses, Addresses

-----------------------------------------------------------------------------
(* voting *)

Options == Ballots!Indices
Tallies == [Options -> Nat \cup {None}]

\* The accounts with this ballot, and what a tally has for an option.
Voters(ballots, i) == {a \in Accounts : ballots[a] = i}
Votes(tally, i) == IF tally[i] = None THEN 0 ELSE tally[i]

VotingInv ==
    /\ state \in [ballots : [Accounts -> Options \cup {None}], tally : Tallies, now : Nat]
    /\ seen = state.ballots
    /\ \A i \in Options : Votes(state.tally, i) = Cardinality(Voters(state.ballots, i))

LEMMA VotersFinite == ASSUME NEW f, NEW i PROVE IsFiniteSet(Voters(f, i))
<1>1. Voters(f, i) \subseteq Accounts
  BY DEF Voters
<1> QED
  BY <1>1, AddressAssumption, FS_Subset

LEMMA VotingInit == Ballots!Init => VotingInv
<1> SUFFICES ASSUME Ballots!Init PROVE VotingInv
  OBVIOUS
<1> DEFINE b == [a \in Accounts |-> None]
           t == [i \in Options |-> None]
<1>1. state = [ballots |-> b, tally |-> t, now |-> 0] /\ seen = b
  BY DEF Ballots!Init, Options
<1>2. /\ b \in [Accounts -> Options \cup {None}] /\ t \in Tallies
      /\ \A a \in Accounts : b[a] = None
      /\ \A i \in Options : t[i] = None
  BY DEF Tallies
<1> HIDE DEF b, t
<1>3. \A i \in Options : i # None
  BY NoneAssumption, AmountAssumption DEF Options, Ballots!Indices
<1>4. \A i \in Options : Voters(b, i) = {}
  BY <1>2, <1>3 DEF Voters
<1>5. \A i \in Options : Votes(t, i) = Cardinality(Voters(b, i))
  BY <1>2, <1>4, FS_EmptySet DEF Votes
<1> QED
  BY <1>1, <1>2, <1>5 DEF VotingInv

Recast(f, g, x, v) == \A a \in Accounts : g[a] = IF a = x THEN v ELSE f[a]

(* Counting again when one account has cast another ballot *)
LEMMA Recount ==
    ASSUME NEW f, NEW g, NEW x \in Accounts, NEW v, NEW i, Recast(f, g, x, v)
    PROVE  /\ Cardinality(Voters(f, i)) \in Nat
           /\ Cardinality(Voters(g, i))
                = Cardinality(Voters(f, i)) - (IF f[x] = i THEN 1 ELSE 0) + (IF v = i THEN 1 ELSE 0)
           /\ f[x] = i => Cardinality(Voters(f, i)) > 0
<1> DEFINE F == Voters(f, i)
           G == Voters(g, i)
<1>1. IsFiniteSet(F) /\ IsFiniteSet(G) /\ Cardinality(F) \in Nat /\ Cardinality(G) \in Nat
  BY VotersFinite, FS_CardinalityType
<1>2. CASE f[x] = i
  <2>1. x \in F
    BY <1>2 DEF Voters
  <2>2. IsFiniteSet(F \ {x}) /\ Cardinality(F \ {x}) = Cardinality(F) - 1
        /\ Cardinality(F \ {x}) \in Nat
    BY <1>1, <2>1, FS_RemoveElement, FS_CardinalityType
  <2>3. CASE v = i
    <3>1. F = G
      BY <1>2, <2>3 DEF Voters, Recast
    <3> HIDE DEF F, G
    <3>2. Cardinality(G) = Cardinality(F) - 1 + 1 /\ Cardinality(F) > 0
      BY <1>1, <2>2, <3>1
    <3> QED
      BY <1>1, <1>2, <2>3, <3>2 DEF F, G
  <2>4. CASE v # i
    <3>1. G = F \ {x}
      BY <1>2, <2>4 DEF Voters, Recast
    <3> HIDE DEF F, G
    <3>2. Cardinality(G) = Cardinality(F) - 1 + 0 /\ Cardinality(F) > 0
      BY <1>1, <2>2, <3>1
    <3> QED
      BY <1>1, <1>2, <2>4, <3>2 DEF F, G
  <2> QED
    BY <2>3, <2>4
<1>3. CASE f[x] # i
  <2>1. x \notin F
    BY <1>3 DEF Voters
  <2>2. CASE v = i
    <3>1. G = F \cup {x}
      BY <2>2 DEF Voters, Recast
    <3>2. Cardinality(F \cup {x}) = Cardinality(F) + 1
      BY <1>1, <2>1, FS_AddElement
    <3> HIDE DEF F, G
    <3>3. Cardinality(G) = Cardinality(F) - 0 + 1
      BY <1>1, <3>1, <3>2
    <3> QED
      BY <1>1, <1>3, <2>2, <3>3 DEF F, G
  <2>3. CASE v # i
    <3>1. G = F
      BY <1>3, <2>3 DEF Voters, Recast
    <3> HIDE DEF F, G
    <3>2. Cardinality(G) = Cardinality(F) - 0 + 0
      BY <1>1, <3>1
    <3> QED
      BY <1>1, <1>3, <2>3, <3>2 DEF F, G
  <2> QED
    BY <2>2, <2>3
<1> QED
  BY <1>2, <1>3

(* The tally without an account's ballot *)
LEMMA VotesWithdrawn ==
    ASSUME VotingInv, NEW x \in Accounts
    PROVE  /\ Ballots!Withdrawn(x) \in Tallies
           /\ \A i \in Options : Votes(Ballots!Withdrawn(x), i)
                  = Cardinality(Voters(state.ballots, i)) - (IF state.ballots[x] = i THEN 1 ELSE 0)
<1> DEFINE f == state.ballots
           t == state.tally
           old == f[x]
           w == Ballots!Withdrawn(x)
<1>1. /\ f \in [Accounts -> Options \cup {None}] /\ t \in Tallies /\ old \in Options \cup {None}
      /\ \A i \in Options : Votes(t, i) = Cardinality(Voters(f, i))
  BY DEF VotingInv
<1>2. /\ \A i \in Options : Cardinality(Voters(f, i)) \in Nat
      /\ \A i \in Options : old = i => Cardinality(Voters(f, i)) > 0
  <2>1. Recast(f, f, x, old)
    BY DEF Recast
  <2> QED
    BY <2>1, Recount
<1>3. None \notin Options
  BY NoneAssumption, AmountAssumption DEF Options, Ballots!Indices
<1>4. CASE old = None
  <2>1. w = t
    BY <1>4 DEF Ballots!Withdrawn
  <2>2. \A i \in Options : old # i
    BY <1>3, <1>4
  <2> HIDE DEF f, t, old, w
  <2>3. \A i \in Options : Votes(w, i) = Cardinality(Voters(f, i)) - (IF old = i THEN 1 ELSE 0)
    BY <1>1, <1>2, <2>1, <2>2
  <2> QED
    BY <1>1, <2>1, <2>3 DEF w, f, t, old
<1>5. CASE old # None
  <2> DEFINE n == Votes(t, old)
             m == n - 1
             u == [t EXCEPT ![old] = m]
  <2>1. old \in Options
    BY <1>1, <1>5
  <2>2. n = Cardinality(Voters(f, old)) /\ n \in Nat /\ n > 0
    BY <1>1, <1>2, <2>1
  <2>3. n = t[old] /\ t[old] # None
    BY <2>2 DEF Votes
  <2>4. w = u
    BY <1>5, <2>3 DEF Ballots!Withdrawn, Ballots!or_insert
  <2> HIDE DEF n
  <2>5. m \in Nat /\ m # None
    BY <2>2, NoneAssumption
  <2> HIDE DEF m, w, t, f, old
  <2>6. u \in Tallies /\ \A i \in Options : u[i] = IF i = old THEN m ELSE t[i]
    BY <1>1, <2>1, <2>5 DEF Tallies
  <2> HIDE DEF u
  <2>7. ASSUME NEW i \in Options
        PROVE  Votes(u, i) = Cardinality(Voters(f, i)) - (IF old = i THEN 1 ELSE 0)
    <3>1. CASE i = old
      <4>1. Votes(u, i) = m
        BY <2>5, <2>6, <3>1 DEF Votes
      <4> QED
        BY <2>2, <3>1, <4>1 DEF m
    <3>2. CASE i # old
      <4>1. Votes(u, i) = Votes(t, i)
        BY <2>6, <3>2 DEF Votes
      <4> QED
        BY <1>1, <1>2, <3>2, <4>1
    <3> QED
      BY <3>1, <3>2
  <2> QED
    BY <2>4, <2>6, <2>7 DEF w, f, old
<1> QED
  BY <1>4, <1>5

LEMMA VotingVote ==
    ASSUME VotingInv, NEW sender, NEW vote_index, Ballots!vote(sender, vote_index)
    PROVE  VotingInv'
<1> DEFINE f == state.ballots
           v == vote_index
           w == Ballots!Withdrawn(sender)
           n == Votes(w, v)
           m == n + 1
           u == [w EXCEPT ![v] = m]
           g == [f EXCEPT ![sender] = v]
<1>1. /\ sender \in Accounts /\ v \in Options
      /\ state' = [[state EXCEPT !.ballots = g] EXCEPT !.tally = u]
      /\ seen' = [seen EXCEPT ![sender] = v]
  BY DEF Ballots!vote, Ballots!or_insert, Options, Votes, VotingInv
<1>2. /\ w \in Tallies
      /\ \A i \in Options : Votes(w, i) = Cardinality(Voters(f, i)) - (IF f[sender] = i THEN 1 ELSE 0)
  BY <1>1, VotesWithdrawn
<1> HIDE DEF w
<1>3. f \in [Accounts -> Options \cup {None}]
  BY DEF VotingInv
<1>4. g \in [Accounts -> Options \cup {None}] /\ \A a \in Accounts : g[a] = IF a = sender THEN v ELSE f[a]
  BY <1>1, <1>3
<1>5. seen' = g
  BY <1>1 DEF VotingInv
<1> HIDE DEF f, g
<1>6. ASSUME NEW i \in Options
      PROVE  /\ Cardinality(Voters(f, i)) \in Nat
             /\ Cardinality(Voters(g, i))
                  = Cardinality(Voters(f, i)) - (IF f[sender] = i THEN 1 ELSE 0) + (IF v = i THEN 1 ELSE 0)
             /\ f[sender] = i => Cardinality(Voters(f, i)) > 0
  <2>1. Recast(f, g, sender, v)
    BY <1>4 DEF Recast
  <2> HIDE DEF v
  <2> QED
    BY <1>1, <2>1, Recount
<1>7. \A i \in Options : Votes(w, i) \in Nat
  BY <1>2, <1>6
<1> HIDE DEF v
<1>8. n \in Nat
  BY <1>1, <1>7
<1> HIDE DEF n
<1>9. m \in Nat /\ m # None
  BY <1>8, NoneAssumption
<1> HIDE DEF m
<1>10. u \in Tallies /\ \A i \in Options : u[i] = IF i = v THEN m ELSE w[i]
  BY <1>1, <1>2, <1>9 DEF Tallies
<1> HIDE DEF u
<1>11. \A i \in Options : Votes(u, i) = Cardinality(Voters(g, i))
  <2> SUFFICES ASSUME NEW i \in Options PROVE Votes(u, i) = Cardinality(Voters(g, i))
    OBVIOUS
  <2>1. Cardinality(Voters(g, i)) = Votes(w, i) + (IF v = i THEN 1 ELSE 0)
    BY <1>2, <1>6
  <2>2. CASE i = v
    <3>1. Votes(u, i) = m
      BY <1>9, <1>10, <2>2 DEF Votes
    <3> QED
      BY <1>7, <2>1, <2>2, <3>1 DEF m, n
  <2>3. CASE i # v
    <3>1. Votes(u, i) = Votes(w, i)
      BY <1>10, <2>3 DEF Votes
    <3> QED
      BY <1>7, <2>1, <2>3, <3>1
  <2> QED
    BY <2>2, <2>3
<1>12. /\ state' \in [ballots : [Accounts -> Options \cup {None}], tally : Tallies, now : Nat]
       /\ state'.ballots = g /\ state'.tally = u
  BY <1>1, <1>4, <1>10 DEF VotingInv
<1> QED
  BY <1>5, <1>11, <1>12 DEF VotingInv

LEMMA VotingTick ==
    ASSUME VotingInv, Ballots!Tick
    PROVE  VotingInv' /\ state'.tally = state.tally
<1> DEFINE k == state.now + 1
<1>1. state' = [state EXCEPT !.now = k] /\ seen' = seen
  BY DEF Ballots!Tick
<1>2. k \in Nat
  BY DEF VotingInv
<1> HIDE DEF k
<1>3. state' \in [ballots : [Accounts -> Options \cup {None}], tally : Tallies, now : Nat]
      /\ state'.tally = state.tally /\ state'.ballots = state.ballots
  BY <1>1, <1>2 DEF VotingInv
<1> QED
  BY <1>1, <1>3 DEF VotingInv

LEMMA VotingNext == ASSUME VotingInv, Ballots!Next PROVE VotingInv'
  BY VotingVote, VotingTick DEF Ballots!Next

LEMMA VotesCounted == ASSUME NEW S PROVE Ballots!Cardinality(S) = Cardinality(S)
  BY DEF Ballots!Cardinality, Cardinality

LEMMA VotingAgrees == VotingInv => Ballots!TallyAgrees
<1> SUFFICES ASSUME VotingInv, NEW i \in Ballots!Indices
             PROVE  Ballots!get_votes(i) = Cardinality({a \in Accounts : seen[a] = i})
  BY VotesCounted DEF Ballots!TallyAgrees
<1>1. Votes(state.tally, i) = Cardinality(Voters(seen, i))
  BY DEF VotingInv, Options
<1>2. Voters(seen, i) = {a \in Accounts : seen[a] = i}
  BY DEF Voters
<1> QED
  BY <1>1, <1>2 DEF Ballots!get_votes, Ballots!or_insert, Votes

(* After the end nobody votes. *)
LEMMA VotingDecided == ASSUME VotingInv, Ballots!Next PROVE Ballots!StaysDecided
<1> SUFFICES ASSUME state.now > end_time PROVE state'.tally = state.tally
  BY DEF Ballots!StaysDecided, Ballots!get_votes, Ballots!or_insert
<1>1. state.now \in Nat /\ end_time \in Nat
  BY AmountAssumption DEF VotingInv
<1>2. ~ (state.now <= end_time)
  BY <1>1
<1> QED
  BY <1>2, VotingTick DEF Ballots!Next, Ballots!vote

-----------------------------------------------------------------------------
(* two-step-transfer *)

TransferRequests ==
    [transfer_amount : Nat, target_account : Accounts, times_out_at : Nat,
     supporters : SUBSET Addresses]

TwoStepStates ==
    [requests : [RequestIds -> TransferRequests \cup {None}], ccd : Holdings(Everybody), now : Nat]

\* What each request reserves
Reserves(requests, now, r) ==
    IF requests[r] # None /\ requests[r].times_out_at > now THEN requests[r].transfer_amount ELSE 0
Reserved(requests, now) == [r \in RequestIds |-> Reserves(requests, now, r)]

TwoStepInv ==
    /\ state \in TwoStepStates
    /\ ~ seen => SumOf(Reserved(state.requests, state.now), RequestIds) <= state.ccd[Self]

LEMMA ReservedType ==
    ASSUME NEW q \in [RequestIds -> TransferRequests \cup {None}], NEW now
    PROVE  /\ Reserved(q, now) \in [RequestIds -> Nat] /\ Reserved(q, now) \in [RequestIds -> Int]
           /\ \A r \in RequestIds : Reserved(q, now)[r] = Reserves(q, now, r)
           /\ \A r \in RequestIds : Reserves(q, now, r) \in Nat
<1>1. ASSUME NEW r \in RequestIds PROVE Reserves(q, now, r) \in Nat
  <2>1. CASE q[r] = None
    BY <2>1 DEF Reserves
  <2>2. CASE q[r] # None
    <3>1. q[r] \in TransferRequests
      BY <2>2
    <3> QED
      BY <3>1 DEF Reserves, TransferRequests
  <2> QED
    BY <2>1, <2>2
<1> QED
  BY <1>1 DEF Reserved

LEMMA ReservedBalance ==
    ASSUME NEW s, s = state
    PROVE  TwoStep!reserved_balance = SumOf(Reserved(s.requests, s.now), RequestIds)
<1> DEFINE f == [r \in RequestIds |-> IF TwoStep!Active(r) THEN state.requests[r].transfer_amount ELSE 0]
<1>1. f = Reserved(s.requests, s.now)
  BY DEF Reserved, Reserves, TwoStep!Active
<1>2. TwoStep!reserved_balance = TwoStep!SumFunction(f) /\ DOMAIN f = RequestIds
  BY DEF TwoStep!reserved_balance
<1> HIDE DEF f
<1>3. TwoStep!SumFunction(f) = SumOf(f, DOMAIN f)
  BY DEF TwoStep!SumFunction, TwoStep!SumFunctionOnSet, TwoStep!FoldFunctionOnSet,
         TwoStep!MapThenFoldSet, SumOf, Adds
<1> QED
  BY <1>1, <1>2, <1>3

LEMMA TwoStepSetAside == TwoStepInv => TwoStep!FundsSetAside
  BY ReservedBalance DEF TwoStepInv, TwoStep!FundsSetAside

LEMMA TwoStepInit == TwoStep!Init => TwoStepInv
<1> SUFFICES ASSUME TwoStep!Init PROVE TwoStepInv
  OBVIOUS
<1> DEFINE q == [r \in RequestIds |-> None]
           c == Led!InitialCcd
<1>1. state = [requests |-> q, ccd |-> c, now |-> 0]
  BY DEF TwoStep!Init, TwoStep!InitialCcd, TwoStep!Addresses, Led!InitialCcd, Led!Addresses
<1>2. q \in [RequestIds -> TransferRequests \cup {None}] /\ \A r \in RequestIds : q[r] = None
  OBVIOUS
<1>3. c \in Holdings(Everybody) /\ c[Self] = 0
  BY InitialHoldings DEF Everybody
<1> HIDE DEF q, c
<1>4. state \in TwoStepStates /\ state.requests = q /\ state.now = 0 /\ state.ccd[Self] = 0
  BY <1>1, <1>2, <1>3 DEF TwoStepStates
<1>5. \A r \in RequestIds : Reserved(q, 0)[r] = 0
  BY <1>2 DEF Reserved, Reserves
<1>6. SumOf(Reserved(q, 0), RequestIds) = 0
  BY <1>5, SumOfZero, RequestAssumption
<1> QED
  BY <1>4, <1>6 DEF TwoStepInv

(* What is paid to the contract *)
LEMMA TwoStepReceived ==
    ASSUME state \in TwoStepStates, NEW sender \in Addresses, NEW amount \in Int
    PROVE  /\ TwoStep!Received(sender, amount) \in TwoStepStates
           /\ TwoStep!Received(sender, amount).requests = state.requests
           /\ TwoStep!Received(sender, amount).now = state.now
           /\ TwoStep!Received(sender, amount).ccd[Self] = state.ccd[Self] + amount
           /\ state.ccd[Self] \in Int
<1> DEFINE g == Led!Given(state.ccd, sender, Self, amount)
<1>1. TwoStep!Received(sender, amount) = [state EXCEPT !.ccd = g]
  BY DEF TwoStep!Received, TwoStep!pay, TwoStep!Given, Led!Given
<1>2. state.ccd \in Holdings(Everybody) /\ Self \in Everybody
  BY DEF TwoStepStates, Everybody
<1>3. g \in Holdings(Everybody) /\ g[Self] = state.ccd[Self] + amount
  BY <1>2, PaidIn
<1> HIDE DEF g
<1> QED
  BY <1>1, <1>2, <1>3 DEF TwoStepStates, Holdings

LEMMA TwoStepDeposit ==
    ASSUME TwoStepInv, NEW sender \in Addresses, NEW amount \in Deposits,
           TwoStep!contract_receive_deposit(sender, amount)
    PROVE  TwoStepInv'
<1>1. amount \in Nat /\ state \in TwoStepStates
  BY AmountAssumption DEF TwoStepInv
<1>2. /\ state' \in TwoStepStates /\ state'.requests = state.requests /\ state'.now = state.now
      /\ state'.ccd[Self] = state.ccd[Self] + amount /\ state.ccd[Self] \in Int
      /\ seen' = seen
  BY <1>1, TwoStepReceived DEF TwoStep!contract_receive_deposit, TwoStep!Quietly
<1> DEFINE n == SumOf(Reserved(state.requests, state.now), RequestIds)
<1>3. (~ seen => n <= state.ccd[Self]) /\ n \in Int
  BY <1>1, ReservedType, SumOfType, RequestAssumption DEF TwoStepInv, TwoStepStates
<1>4. SumOf(Reserved(state'.requests, state'.now), RequestIds) = n
  BY <1>2
<1> HIDE DEF n
<1>5. ~ seen => n <= state'.ccd[Self]
  BY <1>1, <1>2, <1>3
<1> QED
  BY <1>2, <1>4, <1>5 DEF TwoStepInv

(* One request makes the difference. *)
LEMMA ReservedChange ==
    ASSUME NEW p \in [RequestIds -> TransferRequests \cup {None}],
           NEW q \in [RequestIds -> TransferRequests \cup {None}],
           NEW now, NEW x \in RequestIds,
           \A r \in RequestIds : r # x => Reserves(q, now, r) = Reserves(p, now, r)
    PROVE  /\ SumOf(Reserved(q, now), RequestIds)
                = SumOf(Reserved(p, now), RequestIds) + (Reserves(q, now, x) - Reserves(p, now, x))
           /\ SumOf(Reserved(p, now), RequestIds) \in Int
<1> DEFINE f == Reserved(p, now)
           g == Reserved(q, now)
<1>1. f \in [RequestIds -> Int] /\ \A r \in RequestIds : f[r] = Reserves(p, now, r)
  BY ReservedType
<1>2. g \in [RequestIds -> Int] /\ \A r \in RequestIds : g[r] = Reserves(q, now, r)
  BY ReservedType
<1> HIDE DEF f, g
<1>3. \A r \in RequestIds : r # x => g[r] = f[r]
  BY <1>1, <1>2
<1>4. SumOf(g, RequestIds) = SumOf(f, RequestIds) + (g[x] - f[x])
  BY <1>1, <1>2, <1>3, SumOfChange, RequestAssumption
<1>5. SumOf(f, RequestIds) \in Int
  BY <1>1, SumOfType, RequestAssumption
<1> QED
  BY <1>1, <1>2, <1>4, <1>5 DEF f, g

LEMMA TwoStepRequest ==
    ASSUME TwoStepInv, NEW sender \in Addresses, NEW came \in Attached,
           NEW x \in RequestIds, NEW amount \in Nat, NEW target \in Accounts,
           TwoStep!RequestTransfer(sender, came, x, amount, target)
    PROVE  TwoStepInv'
<1> DEFINE paid == TwoStep!Received(sender, came)
           ends == state.now + transfer_request_ttl
           e == [transfer_amount |-> amount, target_account |-> target, times_out_at |-> ends,
                 supporters |-> {sender}]
           p == state.requests
           q == [r \in RequestIds |->
                   IF r = x THEN e ELSE IF TwoStep!Active(r) THEN state.requests[r] ELSE None]
           n == SumOf(Reserved(p, state.now), RequestIds)
<1>1. /\ state' = [paid EXCEPT !.requests = q]
      /\ ~ TwoStep!Active(x)
      /\ TwoStep!Available(came + paid.ccd[Self], amount)
      /\ seen' = (seen \/ (came > 0 /\ TwoStep!reserved_balance + amount > paid.ccd[Self]))
  BY DEF TwoStep!RequestTransfer
<1>2. /\ state \in TwoStepStates /\ paid \in TwoStepStates /\ paid.now = state.now
      /\ paid.ccd[Self] = state.ccd[Self] + came /\ state.ccd[Self] \in Int
      /\ came \in Nat
  BY AmountAssumption, TwoStepReceived DEF TwoStepInv
<1> HIDE DEF paid
<1>3. /\ ends \in Nat /\ state.now \in Nat /\ p \in [RequestIds -> TransferRequests \cup {None}]
  BY <1>2, AmountAssumption DEF TwoStepStates
<1> HIDE DEF ends
<1>4. e \in TransferRequests /\ e.transfer_amount = amount
  BY <1>3 DEF TransferRequests
<1> HIDE DEF e
<1>5. q \in [RequestIds -> TransferRequests \cup {None}]
  BY <1>3, <1>4
<1>6. \A r \in RequestIds : r # x => Reserves(q, state.now, r) = Reserves(p, state.now, r)
  BY DEF Reserves, TwoStep!Active
<1>7. Reserves(p, state.now, x) = 0
  BY <1>1 DEF Reserves, TwoStep!Active
<1>8. Reserves(q, state.now, x) \in {0, amount}
  BY <1>4 DEF Reserves
<1> HIDE DEF p, q
<1>9. SumOf(Reserved(q, state.now), RequestIds) = n + (Reserves(q, state.now, x) - 0) /\ n \in Int
  BY <1>3, <1>5, <1>6, <1>7, ReservedChange
<1>10. (~ seen => n <= state.ccd[Self]) /\ TwoStep!reserved_balance = n
  BY ReservedBalance DEF TwoStepInv, p
<1>11. ASSUME ~ seen' PROVE n + amount <= paid.ccd[Self]
  <2> HIDE DEF n
  <2>1. ~ seen /\ ~ (came > 0 /\ n + amount > paid.ccd[Self])
    BY <1>1, <1>10, <1>11
  <2>2. n <= state.ccd[Self] /\ n \in Int /\ paid.ccd[Self] \in Int
    BY <1>2, <1>9, <1>10, <2>1
  <2>3. CASE came > 0
    BY <2>1, <2>2, <2>3
  <2>4. CASE ~ (came > 0)
    <3> DEFINE left == (came + paid.ccd[Self]) - n
    <3>1. left \in Int /\ left >= 0 /\ left = paid.ccd[Self] - n
      BY <1>2, <2>2, <2>4
    <3>2. left % AmountModulus >= amount
      BY <1>1, <1>10 DEF TwoStep!Available
    <3> HIDE DEF left
    <3>3. AmountModulus \in Nat \ {0}
      BY AmountAssumption
    <3>4. left % AmountModulus \in 0 .. (AmountModulus - 1) /\ left % AmountModulus <= left
      BY <3>1, <3>3, WrapsAround
    <3>5. left % AmountModulus \in Int
      BY <3>3, <3>4
    <3> HIDE DEF paid
    <3> DEFINE rest == left % AmountModulus
    <3> HIDE DEF rest
    <3>6. rest \in Int /\ rest >= amount /\ rest <= left
      BY <3>2, <3>4, <3>5 DEF rest
    <3> QED
      BY <2>2, <3>1, <3>6
  <2> QED
    BY <2>3, <2>4
<1>12. ~ seen' => SumOf(Reserved(q, state.now), RequestIds) <= paid.ccd[Self]
  <2> HIDE DEF n
  <2> QED
    BY <1>2, <1>8, <1>9, <1>11
<1>13. /\ state' \in TwoStepStates /\ state'.requests = q /\ state'.now = state.now
       /\ state'.ccd = paid.ccd
  BY <1>1, <1>2, <1>5 DEF TwoStepStates
<1> QED
  BY <1>12, <1>13 DEF TwoStepInv

LEMMA TwoStepSupport ==
    ASSUME TwoStepInv, NEW sender \in Addresses, NEW came \in Attached,
           NEW x \in RequestIds, NEW amount \in Nat, NEW target \in Accounts,
           TwoStep!SupportTransfer(sender, came, x, amount, target)
    PROVE  TwoStepInv'
<1> DEFINE paid == TwoStep!Received(sender, came)
           p == state.requests
           request == p[x]
           supporters == request.supporters \cup {sender}
           n == SumOf(Reserved(p, state.now), RequestIds)
<1>1. TwoStep!Active(x) /\ request.transfer_amount = amount /\ seen' = seen
  BY DEF TwoStep!SupportTransfer, TwoStep!Quietly
<1>2. /\ state \in TwoStepStates /\ paid \in TwoStepStates /\ paid.now = state.now
      /\ paid.requests = p
      /\ paid.ccd[Self] = state.ccd[Self] + came /\ state.ccd[Self] \in Int
      /\ came \in Nat
  BY AmountAssumption, TwoStepReceived DEF TwoStepInv
<1>3. state.now \in Nat /\ p \in [RequestIds -> TransferRequests \cup {None}]
  BY <1>2 DEF TwoStepStates
<1>4. request \in TransferRequests
  BY <1>1, <1>3 DEF TwoStep!Active
<1>5. Reserves(p, state.now, x) = amount
  BY <1>1 DEF Reserves, TwoStep!Active
<1>6. ~ seen => n <= state.ccd[Self]
  BY DEF TwoStepInv
<1>7. paid.ccd[Self] \in Int /\ paid.ccd[Self] >= state.ccd[Self] /\ paid.ccd \in Holdings(Everybody)
  BY <1>2 DEF TwoStepStates
<1>8. CASE state' = [paid EXCEPT !.requests[x].supporters = supporters]
  <2> DEFINE e == [request EXCEPT !.supporters = supporters]
             q == [p EXCEPT ![x] = e]
  <2>1. state' = [paid EXCEPT !.requests = q]
    BY <1>2, <1>8
  <2>2. /\ e \in TransferRequests /\ e.times_out_at = request.times_out_at
        /\ e.transfer_amount = request.transfer_amount
    BY <1>4 DEF TransferRequests
  <2> HIDE DEF e
  <2>3. /\ q \in [RequestIds -> TransferRequests \cup {None}]
        /\ \A r \in RequestIds : q[r] = IF r = x THEN e ELSE p[r]
    BY <1>3, <2>2
  <2> HIDE DEF q
  <2>4. \A r \in RequestIds : r # x => Reserves(q, state.now, r) = Reserves(p, state.now, r)
    BY <2>3 DEF Reserves
  <2>5. Reserves(q, state.now, x) \in {0, amount}
    BY <1>1, <2>2, <2>3 DEF Reserves
  <2> HIDE DEF p
  <2>6. SumOf(Reserved(q, state.now), RequestIds) = n + (Reserves(q, state.now, x) - amount) /\ n \in Int
    BY <1>3, <1>5, <2>3, <2>4, ReservedChange
  <2> HIDE DEF n
  <2>7. ~ seen => SumOf(Reserved(q, state.now), RequestIds) <= paid.ccd[Self]
    BY <1>2, <1>7, <1>6, <2>5, <2>6
  <2>8. /\ state' \in TwoStepStates /\ state'.requests = q /\ state'.now = state.now
        /\ state'.ccd = paid.ccd
    BY <1>2, <2>1, <2>3 DEF TwoStepStates
  <2> QED
    BY <1>1, <2>7, <2>8 DEF TwoStepInv
<1>9. CASE state' = [TwoStep!pay(paid, Self, target, amount) EXCEPT !.requests[x] = None]
  <2> DEFINE g == Led!Given(paid.ccd, Self, target, amount)
             q == [p EXCEPT ![x] = None]
             s == [paid EXCEPT !.ccd = g]
  <2>1. TwoStep!pay(paid, Self, target, amount) = s
    BY DEF TwoStep!pay, TwoStep!Given, Led!Given
  <2>2. target \in Addresses
    BY DEF Addresses
  <2>3. g \in Holdings(Everybody) /\ g[Self] = paid.ccd[Self] - amount
    BY <1>7, <2>2, PaidOut
  <2> HIDE DEF g
  <2>4. s \in TwoStepStates /\ s.requests = p /\ s.now = state.now /\ s.ccd = g
    BY <1>2, <2>3 DEF TwoStepStates
  <2> HIDE DEF s
  <2>5. state' = [s EXCEPT !.requests = q]
    BY <1>9, <2>1, <2>4
  <2>6. /\ q \in [RequestIds -> TransferRequests \cup {None}]
        /\ \A r \in RequestIds : q[r] = IF r = x THEN None ELSE p[r]
    BY <1>3
  <2> HIDE DEF q
  <2>7. \A r \in RequestIds : r # x => Reserves(q, state.now, r) = Reserves(p, state.now, r)
    BY <2>6 DEF Reserves
  <2>8. Reserves(q, state.now, x) = 0
    BY <2>6 DEF Reserves
  <2> HIDE DEF p
  <2>9. SumOf(Reserved(q, state.now), RequestIds) = n + (0 - amount) /\ n \in Int
    BY <1>3, <1>5, <2>6, <2>7, <2>8, ReservedChange
  <2> HIDE DEF n
  <2>10. ~ seen => SumOf(Reserved(q, state.now), RequestIds) <= paid.ccd[Self] - amount
    BY <1>2, <1>7, <1>6, <2>9
  <2>11. /\ state' \in TwoStepStates /\ state'.requests = q /\ state'.now = state.now
         /\ state'.ccd = g
    BY <2>4, <2>5, <2>6 DEF TwoStepStates
  <2> QED
    BY <1>1, <2>3, <2>10, <2>11 DEF TwoStepInv
<1> QED
  BY <1>8, <1>9 DEF TwoStep!SupportTransfer

LEMMA TwoStepTick == ASSUME TwoStepInv, TwoStep!Tick PROVE TwoStepInv'
<1> DEFINE k == state.now + 1
           q == state.requests
<1>1. state' = [state EXCEPT !.now = k] /\ seen' = seen
  BY DEF TwoStep!Tick
<1>2. /\ state \in TwoStepStates /\ k \in Nat /\ state.now \in Nat /\ k > state.now
      /\ q \in [RequestIds -> TransferRequests \cup {None}]
      /\ state.ccd[Self] \in Int
  BY DEF TwoStepInv, TwoStepStates, Holdings, Everybody
<1> HIDE DEF k
<1>3. /\ state' \in TwoStepStates /\ state'.requests = q /\ state'.now = k
      /\ state'.ccd = state.ccd
  BY <1>1, <1>2 DEF TwoStepStates
<1> DEFINE f == Reserved(q, k)
           g == Reserved(q, state.now)
<1>4. /\ f \in [RequestIds -> Int] /\ g \in [RequestIds -> Int]
      /\ \A r \in RequestIds : f[r] = Reserves(q, k, r) /\ g[r] = Reserves(q, state.now, r)
      /\ \A r \in RequestIds : Reserves(q, state.now, r) \in Nat
  BY <1>2, ReservedType
<1>5. ASSUME NEW r \in RequestIds PROVE Reserves(q, k, r) <= Reserves(q, state.now, r)
  <2>1. CASE q[r] # None
    <3>1. q[r] \in TransferRequests
      BY <1>2, <2>1
    <3> HIDE DEF q
    <3>2. q[r].times_out_at \in Nat /\ q[r].transfer_amount \in Nat
      BY <3>1 DEF TransferRequests
    <3> QED
      BY <1>2, <3>2 DEF Reserves
  <2>2. CASE q[r] = None
    BY <2>2 DEF Reserves
  <2> QED
    BY <2>1, <2>2
<1> HIDE DEF f, g
<1>6. \A r \in RequestIds : f[r] <= g[r]
  BY <1>4, <1>5
<1>7. SumOf(f, RequestIds) <= SumOf(g, RequestIds)
      /\ SumOf(f, RequestIds) \in Int /\ SumOf(g, RequestIds) \in Int
  BY <1>4, <1>6, SumOfLess, SumOfType, RequestAssumption
<1>8. ~ seen => SumOf(g, RequestIds) <= state.ccd[Self]
  BY DEF TwoStepInv, g
<1>9. ~ seen => SumOf(f, RequestIds) <= state.ccd[Self]
  BY <1>2, <1>7, <1>8
<1> QED
  BY <1>1, <1>3, <1>9 DEF TwoStepInv, f

LEMMA TwoStepNext == ASSUME TwoStepInv, TwoStep!Next PROVE TwoStepInv'
<1>1. TwoStep!Addresses = Addresses
  BY DEF TwoStep!Addresses, Addresses
<1>2. \A request \in Requests : request[1] \in Nat /\ request[2] \in Accounts
  BY RequestAssumption
<1> QED
  BY <1>1, <1>2, TwoStepDeposit, TwoStepRequest, TwoStepSupport, TwoStepTick DEF TwoStep!Next

-----------------------------------------------------------------------------
(* offchain-transfers *)

Sheets == [Partners -> Int]
EntryList == [address : Partners, amount : 0 .. AmountModulus - 1]
SettlementRecords == [transfer : Transfers, finality_time : Nat]
Settlements == [Offchain!Ids -> SettlementRecords \cup {None}]

OffchainStates ==
    [next_id : 0 .. MaxSettlements, settlements : Settlements, balance_sheet : Sheets,
     listed : SUBSET Partners, ccd : Holdings(Among), now : Nat]

\* The sheet of what the contract holds: nobody is in debt.
Sound(sheet, held) ==
    /\ sheet \in Sheets
    /\ \A a \in Partners : sheet[a] >= 0
    /\ SumOf(sheet, Partners) = held

\* What the partners and the others hold is all the CCD that there is.
Circulates(held) ==
    /\ held \in Holdings(Among)
    /\ \A a \in Among : held[a] >= 0
    /\ SumOf(held, Among) = Offchain!CcdInTotal

\* A transfer that makes no CCD, and none of whose sums wraps.
Balanced(transfer) ==
    /\ Offchain!Exact(transfer.send_transfers) = Offchain!Exact(transfer.receive_transfers)
    /\ Offchain!Exact(transfer.send_transfers) < AmountModulus

AllBalanced(q) == \A id \in Offchain!Ids : q[id] # None => Balanced(q[id].transfer)

OffchainInv ==
    /\ state \in OffchainStates
    /\ Circulates(state.ccd)
    /\ ~ seen => Sound(state.balance_sheet, state.ccd[Self]) /\ AllBalanced(state.settlements)
    /\ \A id \in Offchain!Ids : id >= state.next_id => state.settlements[id] = None

(* Sums of functions, as the contract takes them *)
LEMMA OffchainSum == ASSUME NEW f PROVE Offchain!SumFunction(f) = SumOf(f, DOMAIN f)
  BY DEF Offchain!SumFunction, Offchain!SumFunctionOnSet, Offchain!FoldFunctionOnSet,
         Offchain!MapThenFoldSet, SumOf, Adds

LEMMA Modulo == AmountModulus \in Nat \ {0} /\ \A n \in Int : n % AmountModulus \in Nat
<1>1. AmountModulus \in Nat \ {0}
  BY AmountAssumption
<1>2. ASSUME NEW n \in Int PROVE n % AmountModulus \in Nat
  BY <1>1, WrapsAround
<1> QED
  BY <1>1, <1>2

(* Everything that anybody holds is an amount, *)
LEMMA HeldFits ==
    ASSUME NEW h, Circulates(h), NEW x \in Among
    PROVE  h[x] \in Nat /\ h[x] < AmountModulus
<1>1. h \in [Among -> Int] /\ (\A a \in Among : h[a] >= 0) /\ SumOf(h, Among) = Offchain!CcdInTotal
  BY DEF Circulates, Holdings
<1>2. h[x] <= SumOf(h, Among) /\ SumOf(h, Among) \in Int
  BY <1>1, AmongFinite, PartOfSum, SumOfType
<1>3. h[x] \in Int /\ h[x] >= 0
  BY <1>1
<1>4. AmountModulus \in Int
  BY Modulo
<1> QED
  BY <1>1, <1>2, <1>3, <1>4, CcdAssumption

(* and payments keep it so. *)
LEMMA HeldPaid ==
    ASSUME NEW h, Circulates(h), NEW from \in Among, NEW to \in Among, from # to,
           NEW amount \in Nat, amount <= h[from]
    PROVE  Circulates(Led!Given(h, from, to, amount))
<1> DEFINE k == h[from] - amount
           d == [h EXCEPT ![from] = k]
           g == Led!Given(h, from, to, amount)
<1>1. h \in [Among -> Int] /\ \A a \in Among : h[a] \in Int /\ h[a] >= 0
  BY DEF Circulates, Holdings
<1>2. k \in Int /\ k >= 0 /\ k - h[from] = 0 - amount
  BY <1>1
<1>3. /\ d \in [Among -> Int] /\ d[from] = k
      /\ \A a \in Among : a # from => d[a] = h[a]
  BY <1>1, <1>2
<1>4. /\ g \in [Among -> Int] /\ g[from] = k /\ g[to] = h[to] + amount
      /\ \A a \in Among : a # from /\ a # to => g[a] = h[a]
  <2>1. h \in Holdings(Among) /\ amount \in Int
    BY <1>1 DEF Holdings
  <2>2. /\ g \in Holdings(Among) /\ g[from] = k /\ g[to] = h[to] + amount
        /\ \A a \in Among : a # from /\ a # to => g[a] = h[a]
    BY <2>1, GivesOther, SMT
  <2> QED
    BY <2>2 DEF Holdings
<1> HIDE DEF k, d, g
<1>5. SumOf(d, Among) = SumOf(h, Among) + (d[from] - h[from])
  BY <1>1, <1>3, AmongFinite, SumOfChange
<1>6. (\A a \in Among : a # to => g[a] = d[a]) /\ g[to] = d[to] + amount
  BY <1>3, <1>4
<1>7. SumOf(g, Among) = SumOf(d, Among) + (g[to] - d[to])
  BY <1>3, <1>4, <1>6, AmongFinite, SumOfChange
<1>8. SumOf(h, Among) \in Int
  BY <1>1, AmongFinite, SumOfType
<1>9. d[to] \in Int /\ d[from] - h[from] = 0 - amount
  BY <1>2, <1>3
<1>10. SumOf(g, Among) = SumOf(h, Among)
  BY <1>5, <1>6, <1>7, <1>8, <1>9
<1>11. ASSUME NEW a \in Among PROVE g[a] >= 0
  <2>1. h[to] >= 0 /\ h[to] \in Int
    BY <1>1
  <2> QED
    BY <1>1, <1>2, <1>4, <2>1
<1> QED
  BY <1>4, <1>10, <1>11 DEF Circulates, Holdings, g

-----------------------------------------------------------------------------
(* The amounts of a list of transfers, and those of one address, up to a place *)
Amounts(tr) == [i \in DOMAIN tr |-> tr[i].amount]
AmountsOf(tr, a) == [i \in DOMAIN tr |-> IF tr[i].address = a THEN tr[i].amount ELSE 0]
Shares(tr, n) == [a \in Partners |-> SumTo(AmountsOf(tr, a), n)]

LEMMA AmountsType ==
    ASSUME NEW tr \in Entries
    PROVE  /\ DOMAIN tr = 1 .. Len(tr) /\ Len(tr) \in Nat
           /\ \A i \in 1 .. Len(tr) :
                /\ tr[i] \in EntryList /\ Amounts(tr)[i] = tr[i].amount /\ Amounts(tr)[i] \in Nat
                /\ \A a : /\ AmountsOf(tr, a)[i] = IF tr[i].address = a THEN tr[i].amount ELSE 0
                          /\ AmountsOf(tr, a)[i] \in Nat
<1>1. tr \in Seq(EntryList)
  BY DEF Entries, EntryList
<1>2. DOMAIN tr = 1 .. Len(tr) /\ Len(tr) \in Nat
  BY <1>1
<1>3. \A i \in 1 .. Len(tr) : tr[i] \in EntryList
  BY <1>1, ElementOfSeq
<1>4. \A i \in 1 .. Len(tr) : tr[i].amount \in Nat
  BY <1>3, Modulo DEF EntryList
<1> QED
  BY <1>2, <1>3, <1>4 DEF Amounts, AmountsOf

LEMMA TotalsAre ==
    ASSUME NEW tr \in Entries
    PROVE  /\ Offchain!Exact(tr) = SumTo(Amounts(tr), Len(tr))
           /\ \A a : Offchain!ExactOf(tr, a) = SumTo(AmountsOf(tr, a), Len(tr))
<1> DEFINE n == Len(tr)
<1>1. DOMAIN tr = 1 .. n
  BY AmountsType
<1>2. Offchain!Exact(tr) = SumTo(Amounts(tr), n)
  <2>1. Offchain!Exact(tr) = Offchain!SumFunction(Amounts(tr))
    BY DEF Offchain!Exact, Amounts
  <2>2. DOMAIN Amounts(tr) = 1 .. n /\ Amounts(tr) = [j \in 1 .. n |-> Amounts(tr)[j]]
    BY <1>1 DEF Amounts
  <2> QED
    BY <2>1, <2>2, OffchainSum DEF SumTo
<1>3. ASSUME NEW a PROVE Offchain!ExactOf(tr, a) = SumTo(AmountsOf(tr, a), n)
  <2>1. Offchain!ExactOf(tr, a) = Offchain!SumFunction(AmountsOf(tr, a))
    BY DEF Offchain!ExactOf, AmountsOf
  <2>2. DOMAIN AmountsOf(tr, a) = 1 .. n /\ AmountsOf(tr, a) = [j \in 1 .. n |-> AmountsOf(tr, a)[j]]
    BY <1>1 DEF AmountsOf
  <2> QED
    BY <2>1, <2>2, OffchainSum DEF SumTo
<1> QED
  BY <1>2, <1>3

(* Numbers that are no integers below zero add up to such a number. *)
LEMMA SumToNatural ==
    ASSUME NEW n \in Nat, NEW f, \A j \in 1 .. n : f[j] \in Nat
    PROVE  SumTo(f, n) \in Nat
<1>1. [j \in 1 .. n |-> f[j]] \in [1 .. n -> Nat] /\ IsFiniteSet(1 .. n)
  BY FS_Interval
<1> QED
  BY <1>1, SumOfNat DEF SumTo

LEMMA TotalsType ==
    ASSUME NEW tr \in Entries
    PROVE  /\ Offchain!Exact(tr) \in Nat
           /\ \A a : Offchain!ExactOf(tr, a) \in Nat
<1> DEFINE n == Len(tr)
<1>1. /\ n \in Nat /\ \A j \in 1 .. n : Amounts(tr)[j] \in Nat
      /\ \A a : \A j \in 1 .. n : AmountsOf(tr, a)[j] \in Nat
  BY AmountsType
<1> HIDE DEF n
<1>2. SumTo(Amounts(tr), n) \in Nat /\ \A a : SumTo(AmountsOf(tr, a), n) \in Nat
  BY <1>1, SumToNatural
<1> QED
  BY <1>2, TotalsAre DEF n

(* Who is in no transfer has no share in the total. *)
LEMMA NoTotal ==
    ASSUME NEW tr \in Entries, NEW a, \A i \in DOMAIN tr : tr[i].address # a
    PROVE  Offchain!ExactOf(tr, a) = 0
<1> DEFINE n == Len(tr)
           f == [j \in 1 .. n |-> AmountsOf(tr, a)[j]]
<1>1. \A x \in 1 .. n : f[x] = 0
  BY AmountsType
<1>2. IsFiniteSet(1 .. n)
  BY AmountsType, FS_Interval
<1> HIDE DEF f
<1>3. SumOf(f, 1 .. n) = 0
  BY <1>1, <1>2, SumOfZero
<1> QED
  BY <1>3, TotalsAre DEF f, SumTo

(* The shares of all addresses make up the total. *)
LEMMA SharesNext ==
    ASSUME NEW tr \in Entries, NEW m \in Nat, m + 1 <= Len(tr),
           SumOf(Shares(tr, m), Partners) = SumTo(Amounts(tr), m)
    PROVE  SumOf(Shares(tr, m + 1), Partners) = SumTo(Amounts(tr), m + 1)
<1> DEFINE k == m + 1
           x == tr[k].address
           f == Shares(tr, m)
           g == Shares(tr, k)
<1>1. /\ k \in 1 .. Len(tr) /\ \A j \in 1 .. k : j \in 1 .. Len(tr)
      /\ \A j \in 1 .. m : j \in 1 .. Len(tr)
  BY AmountsType
<1>2. x \in Partners /\ tr[k].amount \in Nat
  BY <1>1, Modulo, AmountsType DEF EntryList
<1>3. \A a : \A j \in 1 .. (m + 1) : AmountsOf(tr, a)[j] \in Int
  BY <1>1, AmountsType
<1>4. \A j \in 1 .. (m + 1) : Amounts(tr)[j] \in Int
  BY <1>1, AmountsType
<1>5. SumTo(Amounts(tr), m + 1) = SumTo(Amounts(tr), m) + tr[k].amount
  BY <1>1, <1>4, SumToNext, AmountsType
<1>6. ASSUME NEW a \in Partners
      PROVE  /\ f[a] \in Int /\ g[a] = f[a] + (IF x = a THEN tr[k].amount ELSE 0)
  <2>1. SumTo(AmountsOf(tr, a), m) \in Int
    BY <1>3, SumToNat
  <2>2. SumTo(AmountsOf(tr, a), m + 1) = SumTo(AmountsOf(tr, a), m) + AmountsOf(tr, a)[m + 1]
    BY <1>3, SumToNext
  <2>3. AmountsOf(tr, a)[k] = IF x = a THEN tr[k].amount ELSE 0
    BY <1>1, AmountsType
  <2> QED
    BY <2>1, <2>2, <2>3 DEF Shares
<1>7. f \in [Partners -> Int] /\ g \in [Partners -> Int]
  <2>1. \A a \in Partners : f[a] \in Int /\ g[a] \in Int
    BY <1>2, <1>6
  <2> QED
    BY <2>1 DEF Shares
<1> HIDE DEF f, g, x, k
<1>8. (\A y \in Partners : y # x => g[y] = f[y]) /\ g[x] - f[x] = tr[k].amount
  BY <1>2, <1>6
<1>9. SumOf(g, Partners) = SumOf(f, Partners) + (g[x] - f[x])
  BY <1>2, <1>7, <1>8, PartnersFinite, SumOfChange
<1> QED
  BY <1>5, <1>8, <1>9 DEF f, g, k

LEMMA SharesTotal ==
    ASSUME NEW tr \in Entries
    PROVE  SumOf(Shares(tr, Len(tr)), Partners) = SumTo(Amounts(tr), Len(tr))
<1> DEFINE n == Len(tr)
           Right(m) == SumOf(Shares(tr, m), Partners) = SumTo(Amounts(tr), m)
           T == {m \in 0 .. n : ~ Right(m)}
<1>0. n \in Nat
  BY AmountsType
<1>1. Right(0)
  <2>1. SumTo(Amounts(tr), 0) = 0 /\ \A a : SumTo(AmountsOf(tr, a), 0) = 0
    BY SumToNone
  <2>2. \A a \in Partners : Shares(tr, 0)[a] = 0
    BY <2>1 DEF Shares
  <2> QED
    BY <2>1, <2>2, PartnersFinite, SumOfZero
<1>2. ASSUME NEW m \in Nat, m + 1 <= n, Right(m)
      PROVE  Right(m + 1)
  BY <1>2, SharesNext
<1> HIDE DEF Right
<1>3. T = {}
  <2> SUFFICES ASSUME T # {} PROVE FALSE
    OBVIOUS
  <2>0. T \subseteq Nat
    BY <1>0
  <2>1. PICK x \in T : \A y \in T : x <= y
    <3> HIDE DEF T
    <3> QED
      BY <2>0, LeastNumber
  <2>2. x # 0 /\ x \in 0 .. n /\ ~ Right(x)
    BY <1>1, <2>1
  <2> DEFINE m == x - 1
  <2>3. m \in Nat /\ m + 1 = x /\ m \in 0 .. n /\ m + 1 <= n /\ ~ (x <= m)
    BY <1>0, <2>2
  <2> HIDE DEF m
  <2>4. Right(m)
    BY <2>1, <2>3
  <2>5. Right(m + 1)
    BY <1>2, <2>3, <2>4
  <2> QED
    BY <2>2, <2>3, <2>5
<1> QED
  BY <1>0, <1>3 DEF Right

LEMMA TotalsTotal ==
    ASSUME NEW tr \in Entries
    PROVE  SumOf([a \in Partners |-> Offchain!ExactOf(tr, a)], Partners) = Offchain!Exact(tr)
<1>1. [a \in Partners |-> Offchain!ExactOf(tr, a)] = Shares(tr, Len(tr))
  BY TotalsAre DEF Shares
<1> QED
  BY <1>1, SharesTotal, TotalsAre

-----------------------------------------------------------------------------
(* One address has at most all. *)
LEMMA ShareOfTotal ==
    ASSUME NEW tr \in Entries, NEW a \in Partners
    PROVE  Offchain!ExactOf(tr, a) <= Offchain!Exact(tr)
<1> DEFINE f == [x \in Partners |-> Offchain!ExactOf(tr, x)]
<1>1. f \in [Partners -> Int] /\ (\A x \in Partners : f[x] >= 0) /\ f[a] = Offchain!ExactOf(tr, a)
  BY TotalsType
<1>2. SumOf(f, Partners) = Offchain!Exact(tr)
  BY TotalsTotal
<1> HIDE DEF f
<1> QED
  BY <1>1, <1>2, PartnersFinite, PartOfSum

(* A settlement is executed on any sheet, *)
LEMMA ExecutedType ==
    ASSUME NEW s \in SettlementRecords, NEW sheet \in Sheets
    PROVE  Offchain!Executed(s, sheet) \in Sheets
<1> DEFINE send == s.transfer.send_transfers
           receive == s.transfer.receive_transfers
<1>1. send \in Entries /\ receive \in Entries
  BY RequestAssumption DEF SettlementRecords
<1>2. ASSUME NEW a \in Partners
      PROVE  (sheet[a] + Offchain!TotalOf(receive, a) - Offchain!TotalOf(send, a)) % AmountModulus \in Int
  <2>1. Offchain!ExactOf(receive, a) \in Int /\ Offchain!ExactOf(send, a) \in Int
    BY <1>1, TotalsType
  <2>2. Offchain!TotalOf(receive, a) \in Int /\ Offchain!TotalOf(send, a) \in Int
    BY <2>1, Modulo DEF Offchain!TotalOf
  <2>3. sheet[a] \in Int
    BY DEF Sheets
  <2> DEFINE k == sheet[a] + Offchain!TotalOf(receive, a) - Offchain!TotalOf(send, a)
  <2>4. k \in Int
    BY <2>2, <2>3
  <2> HIDE DEF k
  <2>5. k % AmountModulus \in Int
    BY <2>4, Modulo
  <2> QED
    BY <2>5 DEF k
<1> QED
  BY <1>2 DEF Offchain!Executed, Sheets

(* A sheet of what the contract holds has amounts. *)
LEMMA SoundFits ==
    ASSUME NEW sheet, NEW held \in Nat, held < AmountModulus, Sound(sheet, held)
    PROVE  /\ \A a \in Partners : sheet[a] \in Nat /\ sheet[a] < AmountModulus
           /\ \A a \in Partners : sheet[a] % AmountModulus = sheet[a]
           /\ [a \in Partners |-> sheet[a] % AmountModulus] = sheet
<1>1. sheet \in [Partners -> Int] /\ (\A a \in Partners : sheet[a] >= 0) /\ SumOf(sheet, Partners) = held
  BY DEF Sound, Sheets
<1>2. ASSUME NEW a \in Partners PROVE sheet[a] \in Nat /\ sheet[a] < AmountModulus
  <2>1. sheet[a] <= held
    BY <1>1, PartnersFinite, PartOfSum
  <2>2. sheet[a] \in Int /\ sheet[a] >= 0
    BY <1>1
  <2> QED
    BY <2>1, <2>2, Modulo
<1>3. ASSUME NEW a \in Partners PROVE sheet[a] % AmountModulus = sheet[a]
  BY <1>2, Modulo, Within
<1> QED
  BY <1>1, <1>2, <1>3

(* and if no sum wraps, what all have together stays as it is. *)
LEMMA ExecutedSound ==
    ASSUME NEW s \in SettlementRecords, Balanced(s.transfer),
           NEW sheet, NEW held \in Nat, held < AmountModulus, Sound(sheet, held)
    PROVE  Sound(Offchain!Executed(s, sheet), held)
<1> DEFINE send == s.transfer.send_transfers
           receive == s.transfer.receive_transfers
           f == [a \in Partners |-> Offchain!ExactOf(send, a)]
           g == [a \in Partners |-> Offchain!ExactOf(receive, a)]
           h == [a \in Partners |-> sheet[a] + g[a] - f[a]]
<1>1. s.transfer \in Transfers
  BY DEF SettlementRecords
<1>2. send \in Entries /\ receive \in Entries
  BY <1>1, RequestAssumption
<1>3. Offchain!Exact(send) = Offchain!Exact(receive) /\ Offchain!Exact(send) < AmountModulus
  BY DEF Balanced
<1>4. CASE ~ Offchain!is_settlement_valid(s, sheet)
  BY <1>4 DEF Offchain!Executed
<1>5. CASE Offchain!is_settlement_valid(s, sheet)
  <2>2. /\ \A a : Offchain!ExactOf(send, a) \in Nat /\ Offchain!ExactOf(receive, a) \in Nat
        /\ Offchain!Exact(send) \in Nat
    BY <1>2, TotalsType
  <2>3. \A a \in Partners : sheet[a] \in Int /\ sheet[a] >= 0
    BY DEF Sound, Sheets
  <2>a. ASSUME NEW a \in Partners
        PROVE  Offchain!TotalOf(send, a) = f[a] /\ Offchain!TotalOf(receive, a) = g[a]
    <3>1. Offchain!ExactOf(send, a) < AmountModulus /\ Offchain!ExactOf(receive, a) < AmountModulus
      <4>1. /\ Offchain!ExactOf(send, a) <= Offchain!Exact(send)
            /\ Offchain!ExactOf(receive, a) <= Offchain!Exact(receive)
        BY <1>2, ShareOfTotal
      <4> HIDE DEF send, receive
      <4> QED
        BY <1>3, <2>2, <4>1, Modulo
    <3> HIDE DEF send, receive
    <3>2. /\ Offchain!ExactOf(send, a) % AmountModulus = Offchain!ExactOf(send, a)
          /\ Offchain!ExactOf(receive, a) % AmountModulus = Offchain!ExactOf(receive, a)
      BY <2>2, <3>1, Modulo, Within
    <3> QED
      BY <3>2 DEF Offchain!TotalOf
  <2>1. Offchain!Executed(s, sheet) = [a \in Partners |-> h[a] % AmountModulus]
    BY <1>5, <2>a DEF Offchain!Executed
  <2>4. ASSUME NEW i \in DOMAIN send
        PROVE  (sheet[send[i].address] + g[send[i].address]) % AmountModulus >= f[send[i].address]
    <3>1. send[i].address \in Partners
      BY <1>2, AmountsType DEF EntryList
    <3>2. (sheet[send[i].address] + Offchain!TotalOf(receive, send[i].address)) % AmountModulus
            >= Offchain!TotalOf(send, send[i].address)
      BY <1>5 DEF Offchain!is_settlement_valid
    <3> HIDE DEF send, receive, f, g
    <3> QED
      BY <2>a, <3>1, <3>2
  <2>5. SumOf(f, Partners) = Offchain!Exact(send) /\ SumOf(g, Partners) = Offchain!Exact(send)
    BY <1>2, <1>3, TotalsTotal
  <2>6. /\ f \in [Partners -> Int] /\ g \in [Partners -> Int]
        /\ \A a \in Partners : f[a] = Offchain!ExactOf(send, a) /\ g[a] = Offchain!ExactOf(receive, a)
    BY <2>2
  <2> HIDE DEF receive, send, f, g
  <2>7. ASSUME NEW a \in Partners
        PROVE  h[a] \in Int /\ h[a] >= 0 /\ sheet[a] + g[a] = h[a] + f[a]
    <3>1. h[a] = sheet[a] + g[a] - f[a]
      OBVIOUS
    <3>2. sheet[a] \in Int /\ f[a] \in Nat /\ g[a] \in Nat /\ sheet[a] >= 0
      BY <2>2, <2>3, <2>6
    <3> HIDE DEF h
    <3>3. sheet[a] + g[a] >= f[a]
      <4>1. CASE \E i \in DOMAIN send : send[i].address = a
        <5> DEFINE n == sheet[a] + g[a]
        <5>1. n % AmountModulus >= f[a]
          BY <2>4, <4>1
        <5>2. n \in Int /\ n >= 0
          BY <3>2
        <5> HIDE DEF n
        <5>3. n % AmountModulus <= n /\ n % AmountModulus \in Nat
          BY <5>2, Modulo, WrapsAround
        <5> DEFINE r == n % AmountModulus
        <5> HIDE DEF r
        <5>4. r \in Nat /\ r <= n /\ r >= f[a]
          BY <5>1, <5>3 DEF r
        <5>5. n >= f[a]
          BY <3>2, <5>2, <5>4
        <5> QED
          BY <5>5 DEF n
      <4>2. CASE ~ \E i \in DOMAIN send : send[i].address = a
        <5>1. f[a] = 0
          BY <1>2, <2>6, <4>2, NoTotal
        <5> QED
          BY <3>2, <5>1
      <4> QED
        BY <4>1, <4>2
    <3> QED
      BY <3>1, <3>2, <3>3
  <2>8. h \in Sheets
    BY <2>7 DEF Sheets
  <2> HIDE DEF h
  <2> DEFINE both == [a \in Partners |-> sheet[a] + g[a]]
  <2>9. both \in [Partners -> Int] /\ sheet \in [Partners -> Int] /\ h \in [Partners -> Int]
        /\ \A a \in Partners : both[a] = sheet[a] + g[a] /\ both[a] = h[a] + f[a]
    BY <2>3, <2>6, <2>7, <2>8 DEF Sound, Sheets
  <2> HIDE DEF both
  <2>10. SumOf(both, Partners) = SumOf(sheet, Partners) + SumOf(g, Partners)
    BY <2>6, <2>9, PartnersFinite, SumOfSums
  <2>11. SumOf(both, Partners) = SumOf(h, Partners) + SumOf(f, Partners)
    BY <2>6, <2>9, PartnersFinite, SumOfSums
  <2>12. SumOf(h, Partners) \in Int /\ SumOf(sheet, Partners) \in Int
    BY <2>9, PartnersFinite, SumOfType
  <2>13. SumOf(h, Partners) = SumOf(sheet, Partners)
    BY <2>2, <2>5, <2>10, <2>11, <2>12
  <2>14. Sound(h, held)
    BY <2>7, <2>8, <2>13 DEF Sound
  <2>15. [a \in Partners |-> h[a] % AmountModulus] = h
    BY <2>14, SoundFits
  <2> QED
    BY <2>1, <2>14, <2>15
<1> QED
  BY <1>4, <1>5
-----------------------------------------------------------------------------
(* Settlements that are executed in their order *)

\* The settlement that is executed last
LastOf(u) == Offchain!Latest(u)

\* The recursion over the sets of settlements
Executes(g, sheet, q, S) ==
    g = [u \in SUBSET S |-> IF u = {} THEN sheet
                            ELSE Offchain!Executed(q[LastOf(u)], g[u \ {LastOf(u)}])]

\* What g is at each of them
ExecutesAll(g, sheet, q, S) ==
    \A u \in SUBSET S :
      /\ u = {} => g[u] = sheet
      /\ u # {} => g[u] = Offchain!Executed(q[LastOf(u)], g[u \ {LastOf(u)}])

LEMMA LastIn == ASSUME NEW u \in SUBSET Offchain!Ids, u # {} PROVE LastOf(u) \in u
<1> DEFINE n == MaxSettlements - 1
           T == {n - i : i \in u}
<1>1. n \in Int /\ Offchain!Ids = 0 .. n
  BY AmountAssumption DEF Offchain!Ids
<1>2. \A i \in u : i \in Int /\ n - i \in Nat
  BY <1>1
<1>3. T \subseteq Nat /\ T # {}
  <2>1. PICK i \in u : TRUE
    OBVIOUS
  <2> QED
    BY <1>2, <2>1
<1>4. \A j \in u : n - j \in T
  OBVIOUS
<1>5. PICK x \in T : \A y \in T : x <= y
  <2> HIDE DEF T
  <2> QED
    BY <1>3, LeastNumber
<1>6. PICK i \in u : x = n - i
  OBVIOUS
<1>7. \A j \in u : i >= j
  <2> HIDE DEF T
  <2> TAKE j \in u
  <2>1. n - i <= n - j
    BY <1>4, <1>5, <1>6
  <2> HIDE DEF n
  <2> QED
    BY <1>1, <1>2, <2>1
<1> QED
  BY <1>7 DEF LastOf, Offchain!Latest

LEMMA ExecutesAt ==
    ASSUME NEW sheet, NEW q, NEW S, NEW g, Executes(g, sheet, q, S)
    PROVE  ExecutesAll(g, sheet, q, S)
  BY DEF Executes, ExecutesAll

LEMMA ExecutesIf ==
    ASSUME NEW sheet, NEW q, NEW S, NEW g, g = [u \in SUBSET S |-> g[u]],
           \A u \in SUBSET S :
             g[u] = IF u = {} THEN sheet ELSE Offchain!Executed(q[LastOf(u)], g[u \ {LastOf(u)}])
    PROVE  Executes(g, sheet, q, S)
<1> DEFINE h == [u \in SUBSET S |-> IF u = {} THEN sheet
                        ELSE Offchain!Executed(q[LastOf(u)], g[u \ {LastOf(u)}])]
<1>1. g = h
  OBVIOUS
<1> QED
  BY <1>1 DEF Executes

LEMMA IdsFinite == ASSUME NEW S \in SUBSET Offchain!Ids PROVE IsFiniteSet(S)
<1>1. MaxSettlements - 1 \in Int
  BY AmountAssumption
<1>2. IsFiniteSet(Offchain!Ids)
  BY <1>1, FS_Interval DEF Offchain!Ids
<1> QED
  BY <1>2, FS_Subset

(* There is one such function, *)
LEMMA ExecutesUnique ==
    ASSUME NEW sheet, NEW q, NEW T \in SUBSET Offchain!Ids, NEW S \in SUBSET T,
           NEW g, NEW h, ExecutesAll(g, sheet, q, T), ExecutesAll(h, sheet, q, S)
    PROVE  g[S] = h[S]
<1> DEFINE D == {u \in SUBSET S : g[u] # h[u]}
<1> SUFFICES ASSUME D # {} PROVE FALSE
  OBVIOUS
<1>c. D # {}
  OBVIOUS
<1>a. IsFiniteSet(S)
  BY IdsFinite
<1>b. D \subseteq SUBSET S
  OBVIOUS
<1>1. PICK u \in D : \A v \in D : v \subseteq u => v = u
  <2> HIDE DEF D
  <2> QED
    BY <1>a, <1>b, <1>c, LeastSubset
<1>2. u # {}
  BY <1>1 DEF ExecutesAll
<1>3. LastOf(u) \in u
  BY <1>2, LastIn
<1>4. g[u \ {LastOf(u)}] = h[u \ {LastOf(u)}]
  BY <1>1, <1>3
<1>5. /\ g[u] = Offchain!Executed(q[LastOf(u)], g[u \ {LastOf(u)}])
      /\ h[u] = Offchain!Executed(q[LastOf(u)], h[u \ {LastOf(u)}])
  BY <1>2 DEF ExecutesAll
<1> QED
  BY <1>4, <1>5

(* and there is one for all settlements. *)
LEMMA ExecutesExists ==
    ASSUME NEW sheet, NEW q, NEW S \in SUBSET Offchain!Ids
    PROVE  \E g : Executes(g, sheet, q, S)
<1> DEFINE T == {u \in SUBSET S : ~ \E g : Executes(g, sheet, q, u)}
<1> SUFFICES ASSUME T # {} PROVE FALSE
  OBVIOUS
<1>a. IsFiniteSet(S)
  BY IdsFinite
<1>b. T \subseteq SUBSET S
  OBVIOUS
<1>1. PICK t \in T : \A u \in T : u \subseteq t => u = t
  <2> HIDE DEF T
  <2> QED
    BY <1>a, <1>b, LeastSubset
<1>t. t \in SUBSET S /\ t \in SUBSET Offchain!Ids
  BY <1>1
<1> DEFINE G(u) == CHOOSE g : Executes(g, sheet, q, u)
           V(u) == G(u)[u]
           W(u) == IF u = {} THEN sheet ELSE Offchain!Executed(q[LastOf(u)], V(u \ {LastOf(u)}))
           h    == [u \in SUBSET t |-> W(u)]
<1>2. ASSUME NEW u \in SUBSET t, u # t
      PROVE  ExecutesAll(G(u), sheet, q, u)
  <2>1. \E g : Executes(g, sheet, q, u)
    BY <1>1, <1>2
  <2>2. Executes(G(u), sheet, q, u)
    BY <2>1
  <2> HIDE DEF G
  <2> QED
    BY <2>2, ExecutesAt
<1>3. ASSUME NEW u \in SUBSET t, u # t, NEW v \in SUBSET u
      PROVE  G(u)[v] = V(v)
  <2>1. v # t /\ u \in SUBSET Offchain!Ids
    BY <1>3, <1>t
  <2>2. ExecutesAll(G(u), sheet, q, u) /\ ExecutesAll(G(v), sheet, q, v)
    BY <1>2, <1>3, <2>1
  <2> HIDE DEF G
  <2>3. G(u)[v] = G(v)[v]
    <3> HIDE DEF T
    <3> QED
      BY <2>1, <2>2, ExecutesUnique
  <2> QED
    BY <2>3
<1>4. ASSUME NEW u \in SUBSET t, u # t PROVE V(u) = W(u)
  <2>1. ExecutesAll(G(u), sheet, q, u)
    BY <1>2, <1>4
  <2>2. CASE u = {}
    BY <2>1, <2>2 DEF ExecutesAll
  <2>3. CASE u # {}
    <3>1. V(u) = Offchain!Executed(q[LastOf(u)], G(u)[u \ {LastOf(u)}])
      BY <2>1, <2>3 DEF ExecutesAll
    <3>2. G(u)[u \ {LastOf(u)}] = V(u \ {LastOf(u)})
      BY <1>3, <1>4
    <3> HIDE DEF G, V
    <3> QED
      BY <2>3, <3>1, <3>2
  <2> QED
    BY <2>2, <2>3
<1>5. Executes(h, sheet, q, t)
  <2>0. h = [u \in SUBSET t |-> h[u]] /\ \A u \in SUBSET t : h[u] = W(u)
    <3> HIDE DEF W
    <3> QED
      OBVIOUS
  <2> SUFFICES ASSUME NEW u \in SUBSET t
               PROVE  h[u] = IF u = {} THEN sheet
                             ELSE Offchain!Executed(q[LastOf(u)], h[u \ {LastOf(u)}])
    <3> HIDE DEF h
    <3> QED
      BY <2>0, ExecutesIf
  <2>1. CASE u # {}
    <3>1. LastOf(u) \in u
      BY <2>1, <1>t, LastIn
    <3>2. u \ {LastOf(u)} \in SUBSET t /\ u \ {LastOf(u)} # t
      BY <3>1
    <3>3. h[u \ {LastOf(u)}] = V(u \ {LastOf(u)})
      BY <1>4, <3>2
    <3> QED
      BY <2>1, <3>3
  <2> QED
    BY <2>1
<1> QED
  BY <1>5

Finals == {id \in Offchain!Ids : Offchain!IsFinal(id)}

LEMMA SettledExecutes ==
    \E g : ExecutesAll(g, state.balance_sheet, state.settlements, Finals) /\ Offchain!Settled = g[Finals]
<1> DEFINE sheet == state.balance_sheet
           q == state.settlements
           c == CHOOSE g : Executes(g, sheet, q, Finals)
<1>1. Executes(c, sheet, q, Finals)
  <2>1. Finals \in SUBSET Offchain!Ids
    BY DEF Finals
  <2> QED
    BY <2>1, ExecutesExists
<1>2. Offchain!Settled = c[Finals]
  BY DEF Offchain!Settled, Offchain!SheetAfter, Offchain!MapThenFoldSet, Executes, LastOf, Finals
<1> HIDE DEF c
<1> QED
  BY <1>1, <1>2, ExecutesAt

(* The sheet stays one, and sound. *)
LEMMA SettledSound ==
    ASSUME OffchainInv
    PROVE  /\ Offchain!Settled \in Sheets
           /\ ~ seen => Sound(Offchain!Settled, state.ccd[Self])
<1> DEFINE held == state.ccd[Self]
           q == state.settlements
           S == Finals
           Fine(sheet) == sheet \in Sheets /\ (~ seen => Sound(sheet, held))
<1>1. PICK g : ExecutesAll(g, state.balance_sheet, q, S) /\ Offchain!Settled = g[S]
  BY SettledExecutes
<1>2. S \in SUBSET Offchain!Ids /\ \A id \in S : q[id] \in SettlementRecords /\ q[id] # None
  BY DEF Finals, Offchain!IsFinal, Offchain!Queued, OffchainInv, OffchainStates, Settlements
<1>3. Fine(state.balance_sheet)
  BY DEF OffchainInv, OffchainStates
<1>a. ~ seen => \A id \in S : Balanced(q[id].transfer)
  BY <1>2 DEF OffchainInv, AllBalanced
<1>b. held \in Nat /\ held < AmountModulus
  BY HeldFits, AmongAddresses DEF OffchainInv
<1> HIDE DEF held, q, S
<1> DEFINE T == {u \in SUBSET S : ~ Fine(g[u])}
<1>4. T = {}
  <2> HIDE DEF Fine
  <2> SUFFICES ASSUME T # {} PROVE FALSE
    OBVIOUS
  <2>a. T # {} /\ T \subseteq SUBSET S /\ IsFiniteSet(S)
    BY <1>2, IdsFinite
  <2>1. PICK u \in T : \A v \in T : v \subseteq u => v = u
    <3> HIDE DEF T
    <3> QED
      BY <2>a, LeastSubset
  <2>2. u # {}
    BY <1>1, <1>3, <2>1 DEF ExecutesAll
  <2>3. LastOf(u) \in u /\ LastOf(u) \in S
    BY <1>2, <2>1, <2>2, LastIn
  <2> DEFINE v == u \ {LastOf(u)}
  <2>4. Fine(g[v])
    BY <2>1, <2>3
  <2>5. g[u] = Offchain!Executed(q[LastOf(u)], g[v])
    BY <1>1, <2>1, <2>2 DEF ExecutesAll
  <2> HIDE DEF v
  <2>6. g[u] \in Sheets
    BY <1>2, <2>3, <2>4, <2>5, ExecutedType DEF Fine
  <2>7. ~ seen => Sound(g[u], held)
    BY <1>2, <1>a, <1>b, <2>3, <2>4, <2>5, ExecutedSound DEF Fine
  <2> QED
    BY <2>1, <2>6, <2>7 DEF Fine
<1>5. Fine(g[S])
  BY <1>4
<1> QED
  BY <1>1, <1>5 DEF held
-----------------------------------------------------------------------------
LEMMA OffchainAccounted == OffchainInv => Offchain!FundsAccounted
<1> SUFFICES ASSUME OffchainInv, ~ seen
             PROVE  Offchain!SumFunction(state.balance_sheet) = state.ccd[Self]
  BY DEF Offchain!FundsAccounted
<1>1. Sound(state.balance_sheet, state.ccd[Self])
  BY DEF OffchainInv
<1>2. DOMAIN state.balance_sheet = Partners
  BY <1>1 DEF Sound, Sheets
<1>3. Offchain!SumFunction(state.balance_sheet) = SumOf(state.balance_sheet, Partners)
  BY <1>2, OffchainSum
<1> QED
  BY <1>1, <1>3 DEF Sound

LEMMA OffchainInit == Offchain!Init => OffchainInv
<1> SUFFICES ASSUME Offchain!Init PROVE OffchainInv
  OBVIOUS
<1> DEFINE c == Offchain!InitialCcd
           b == [a \in Partners |-> 0]
           q == [id \in Offchain!Ids |-> None]
<1>1. state = [next_id |-> 0, settlements |-> q, balance_sheet |-> b, listed |-> {}, ccd |-> c, now |-> 0]
  BY DEF Offchain!Init
<1>2. /\ c \in Holdings(Among) /\ c[Self] = 0 /\ (\A a \in Among : c[a] >= 0)
      /\ DOMAIN c = Among
  BY AmountAssumption, AmongAddresses DEF Holdings, Offchain!InitialCcd, Offchain!Addresses, Among
<1>3. b \in Sheets /\ (\A a \in Partners : b[a] = 0)
      /\ q \in Settlements /\ (\A id \in Offchain!Ids : q[id] = None)
  BY DEF Sheets, Settlements
<1>4. Offchain!CcdInTotal = SumOf(c, Among)
  <2>1. Offchain!CcdInTotal = Offchain!SumFunction(c)
    BY DEF Offchain!CcdInTotal
  <2> HIDE DEF c
  <2> QED
    BY <1>2, <2>1, OffchainSum
<1> HIDE DEF b, c, q
<1>5. SumOf(b, Partners) = 0
  BY <1>3, PartnersFinite, SumOfZero
<1>6. Sound(b, 0) /\ Circulates(c) /\ AllBalanced(q)
  BY <1>2, <1>3, <1>4, <1>5 DEF Sound, Circulates, AllBalanced
<1>7. /\ state \in OffchainStates /\ state.balance_sheet = b /\ state.ccd = c
      /\ state.settlements = q
  BY <1>1, <1>2, <1>3, AmountAssumption DEF OffchainStates
<1> QED
  BY <1>2, <1>3, <1>6, <1>7 DEF OffchainInv

(* What one partner has changes, and what the contract holds by as much. *)
LEMMA SoundChange ==
    ASSUME NEW sheet, NEW held \in Int, Sound(sheet, held), NEW a \in Partners, NEW k \in Int, k >= 0
    PROVE  /\ [sheet EXCEPT ![a] = k] \in Sheets
           /\ Sound([sheet EXCEPT ![a] = k], held + (k - sheet[a]))
<1> DEFINE f == [sheet EXCEPT ![a] = k]
<1>1. sheet \in [Partners -> Int] /\ \A x \in Partners : sheet[x] >= 0
  BY DEF Sound, Sheets
<1>2. f \in [Partners -> Int] /\ \A x \in Partners : f[x] = IF x = a THEN k ELSE sheet[x]
  BY <1>1
<1> HIDE DEF f
<1>3. SumOf(f, Partners) = SumOf(sheet, Partners) + (f[a] - sheet[a])
  BY <1>1, <1>2, PartnersFinite, SumOfChange
<1>4. \A x \in Partners : f[x] >= 0
  BY <1>1, <1>2
<1> QED
  BY <1>2, <1>3, <1>4 DEF Sound, Sheets, f

LEMMA OffchainDeposit ==
    ASSUME OffchainInv, NEW sender, NEW amount \in SheetAmounts,
           Offchain!contract_receive_deposit(sender, amount)
    PROVE  OffchainInv' /\ state'.settlements = state.settlements
<1> DEFINE c == state.ccd
           g == Led!Given(c, sender, Self, amount)
           b == state.balance_sheet
           k == b[sender] + amount
           w == k % AmountModulus
           f == [b EXCEPT ![sender] = w]
           l == state.listed \cup {sender}
           s == [state EXCEPT !.ccd = g]
<1>1. /\ state \in OffchainStates /\ c \in Holdings(Among) /\ Circulates(c) /\ c[Self] \in Int
      /\ b \in Sheets /\ l \in SUBSET (Partners \cup {sender})
      /\ ~ seen => Sound(b, c[Self]) /\ AllBalanced(state.settlements)
  BY AmongAddresses DEF OffchainInv, OffchainStates, Holdings
<1>2. sender \in Partners /\ amount \in Nat /\ amount <= c[sender] /\ seen' = seen
  BY AmountAssumption DEF Offchain!contract_receive_deposit, Offchain!CalledWith, Offchain!Quietly
<1>3. Offchain!Received(sender, amount) = s
  BY DEF Offchain!Received, Offchain!pay, Offchain!Given, Led!Given
<1>a. sender \in Among /\ sender # Self /\ Self \in Among
  BY <1>2, AmongAddresses
<1>4. g \in Holdings(Among) /\ g[Self] = c[Self] + amount
  <2> HIDE DEF c
  <2> QED
    BY <1>1, <1>2, <1>a, GivesOther
<1>b. Circulates(g)
  <2> HIDE DEF c
  <2> QED
    BY <1>1, <1>2, <1>a, HeldPaid
<1> HIDE DEF g
<1>c. g[Self] \in Nat /\ g[Self] < AmountModulus
  BY <1>a, <1>b, HeldFits
<1>5. s \in OffchainStates /\ s.ccd = g /\ s.balance_sheet = b /\ s.listed = state.listed
      /\ s.settlements = state.settlements /\ s.next_id = state.next_id
  BY <1>1, <1>4 DEF OffchainStates
<1>6. state' = [[s EXCEPT !.balance_sheet = f] EXCEPT !.listed = l]
  <2>1. state' = [s EXCEPT !.balance_sheet[sender] = (s.balance_sheet[sender] + amount) % AmountModulus,
                           !.listed = s.listed \cup {sender}]
    BY <1>3 DEF Offchain!contract_receive_deposit
  <2> HIDE DEF s
  <2> QED
    BY <1>5, <2>1
<1> HIDE DEF s
<1>7. k \in Int /\ k - b[sender] = amount /\ (b[sender] >= 0 => k >= 0)
  <2>1. b[sender] \in Int
    BY <1>1, <1>2 DEF Sheets
  <2> HIDE DEF b
  <2> QED
    BY <1>2, <2>1
<1> HIDE DEF k
<1>d. w \in Int
  BY <1>7, Modulo
<1> HIDE DEF w
<1>8. f \in Sheets
  BY <1>1, <1>d DEF Sheets
<1>9. ~ seen => Sound(f, g[Self])
  <2> SUFFICES ASSUME ~ seen PROVE Sound(f, g[Self])
    OBVIOUS
  <2>1. Sound(b, c[Self]) /\ k >= 0
    BY <1>1, <1>2, <1>7 DEF Sound
  <2> DEFINE e == [b EXCEPT ![sender] = k]
  <2>2. Sound(e, c[Self] + (k - b[sender])) /\ e[sender] = k
    BY <1>1, <1>2, <1>7, <2>1, SoundChange DEF Sheets
  <2> HIDE DEF e
  <2>3. Sound(e, g[Self])
    BY <1>4, <1>7, <2>2
  <2>4. w = k
    BY <1>2, <1>c, <2>2, <2>3, SoundFits DEF w
  <2> QED
    BY <2>3, <2>4 DEF e
<1> HIDE DEF f, l
<1>10. /\ state' \in OffchainStates /\ state'.ccd = g /\ state'.balance_sheet = f
       /\ state'.settlements = state.settlements /\ state'.next_id = state.next_id
  <2>1. l \in SUBSET Partners
    BY <1>1, <1>2
  <2> QED
    BY <1>5, <1>6, <1>8, <2>1 DEF OffchainStates
<1>11. \A id \in Offchain!Ids : id >= state.next_id => state.settlements[id] = None
  BY DEF OffchainInv
<1> QED
  BY <1>1, <1>2, <1>9, <1>10, <1>11, <1>b DEF OffchainInv

LEMMA OwedType ==
    ASSUME OffchainInv, NEW a
    PROVE  Offchain!Owed(a) \in Nat
<1> DEFINE q == state.settlements
           S == Offchain!Queued
           f == [id \in S |-> Offchain!ExactOf(q[id].transfer.send_transfers, a)]
<1>1. IsFiniteSet(S)
  BY IdsFinite DEF Offchain!Queued
<1>2. Offchain!Owed(a) = SumOf(f, S)
  <2>1. Offchain!Owed(a) = Offchain!SumFunction(f) /\ DOMAIN f = S
    BY DEF Offchain!Owed
  <2> HIDE DEF f, S
  <2> QED
    BY <2>1, OffchainSum
<1>3. ASSUME NEW id \in S
      PROVE  Offchain!ExactOf(q[id].transfer.send_transfers, a) \in Nat
  <2>1. q[id] \in SettlementRecords
    BY DEF Offchain!Queued, OffchainInv, OffchainStates, Settlements
  <2>2. q[id].transfer \in Transfers
    BY <2>1 DEF SettlementRecords
  <2>3. q[id].transfer.send_transfers \in Entries
    BY <2>2, RequestAssumption
  <2> QED
    BY <2>3, TotalsType
<1>4. f \in [S -> Nat]
  BY <1>3
<1> HIDE DEF f, S
<1> QED
  BY <1>1, <1>2, <1>4, SumOfNat

LEMMA OffchainWithdraw ==
    ASSUME OffchainInv, NEW sender, NEW payout \in SheetAmounts,
           Offchain!contract_receive_withdraw(sender, payout)
    PROVE  OffchainInv' /\ state'.settlements = state.settlements
<1> DEFINE c == state.ccd
           g == Led!Given(c, Self, sender, payout)
           b == state.balance_sheet
           k == b[sender] - payout
           w == k % AmountModulus
           f == [b EXCEPT ![sender] = w]
           s == [state EXCEPT !.ccd = g]
           due == Offchain!Owed(sender)
<1>1. /\ state \in OffchainStates /\ c \in Holdings(Among) /\ Circulates(c) /\ c[Self] \in Int
      /\ b \in Sheets /\ state.listed \in SUBSET Partners
      /\ ~ seen => Sound(b, c[Self]) /\ AllBalanced(state.settlements)
  BY AmongAddresses DEF OffchainInv, OffchainStates, Holdings
<1>2. /\ sender \in Partners /\ payout \in Nat /\ payout <= c[Self]
      /\ b[sender] >= ((due % AmountModulus) + payout) % AmountModulus
      /\ seen' = (seen \/ due + payout >= AmountModulus)
  BY <1>1, AmountAssumption DEF Offchain!contract_receive_withdraw, Offchain!get_liabilities
<1>3. Offchain!pay(state, Self, sender, payout) = s
  BY DEF Offchain!pay, Offchain!Given, Led!Given
<1>a. sender \in Among /\ Self # sender /\ Self \in Among
  BY <1>2, AmongAddresses
<1>4. g \in Holdings(Among) /\ g[Self] = c[Self] - payout
  <2> HIDE DEF c
  <2> QED
    BY <1>1, <1>2, <1>a, GivesOther
<1>b. Circulates(g)
  <2> HIDE DEF c
  <2> QED
    BY <1>1, <1>2, <1>a, HeldPaid
<1> HIDE DEF g
<1>c. g[Self] \in Nat /\ g[Self] < AmountModulus
  BY <1>a, <1>b, HeldFits
<1>5. s \in OffchainStates /\ s.ccd = g /\ s.balance_sheet = b
      /\ s.settlements = state.settlements /\ s.next_id = state.next_id
  BY <1>1, <1>4 DEF OffchainStates
<1>6. state' = [s EXCEPT !.balance_sheet = f]
  <2>1. state' = [s EXCEPT !.balance_sheet[sender] = (s.balance_sheet[sender] - payout) % AmountModulus]
    BY <1>3 DEF Offchain!contract_receive_withdraw
  <2> HIDE DEF s
  <2> QED
    BY <1>5, <2>1
<1> HIDE DEF s
<1>7. k \in Int /\ k - b[sender] = 0 - payout /\ b[sender] \in Int /\ due \in Nat
  <2>1. b[sender] \in Int /\ due \in Nat
    BY <1>1, <1>2, OwedType DEF Sheets
  <2> HIDE DEF b, due
  <2> QED
    BY <1>2, <2>1
<1>d. w \in Int
  <2> HIDE DEF k
  <2> QED
    BY <1>7, Modulo
<1>8. f \in Sheets
  <2> HIDE DEF w
  <2> QED
    BY <1>1, <1>d DEF Sheets
<1>9. ~ seen' => ~ seen /\ Sound(f, g[Self])
  <2> SUFFICES ASSUME ~ seen' PROVE ~ seen /\ Sound(f, g[Self])
    OBVIOUS
  <2> HIDE DEF due
  <2>1. ~ seen /\ due + payout < AmountModulus
    <3>1. ~ seen /\ ~ (due + payout >= AmountModulus)
      BY <1>2
    <3> QED
      BY <1>2, <1>7, <3>1, Modulo
  <2>2. due % AmountModulus = due /\ (due + payout) % AmountModulus = due + payout
    <3>1. due < AmountModulus /\ due + payout \in Nat
      BY <1>2, <1>7, <2>1, Modulo
    <3> QED
      BY <1>7, <2>1, <3>1, Modulo, Within
  <2>3. b[sender] >= due + payout
    BY <1>2, <2>2
  <2>4. k >= 0
    <3> HIDE DEF b
    <3> QED
      BY <1>2, <1>7, <2>3
  <2>5. Sound(b, c[Self])
    BY <1>1, <2>1
  <2> DEFINE e == [b EXCEPT ![sender] = k]
  <2> HIDE DEF k
  <2>6. Sound(e, c[Self] + (k - b[sender])) /\ e[sender] = k
    BY <1>1, <1>2, <1>7, <2>4, <2>5, SoundChange DEF Sheets
  <2> HIDE DEF e
  <2>7. Sound(e, g[Self])
    <3>1. c[Self] + (0 - payout) = c[Self] - payout
      BY <1>1, <1>2
    <3> QED
      BY <1>4, <1>7, <2>6, <3>1
  <2>8. w = k
    BY <1>2, <1>c, <2>6, <2>7, SoundFits DEF w
  <2> QED
    BY <2>1, <2>7, <2>8 DEF e
<1> HIDE DEF f
<1>10. /\ state' \in OffchainStates /\ state'.ccd = g /\ state'.balance_sheet = f
       /\ state'.settlements = state.settlements /\ state'.next_id = state.next_id
  BY <1>5, <1>6, <1>8 DEF OffchainStates
<1>11. \A id \in Offchain!Ids : id >= state.next_id => state.settlements[id] = None
  BY DEF OffchainInv
<1> QED
  BY <1>1, <1>9, <1>10, <1>11, <1>b DEF OffchainInv

(* Other settlements, or other times *)
LEMMA OffchainAdd ==
    ASSUME OffchainInv, NEW sender, NEW transfer \in Transfers,
           Offchain!contract_receive_add_settlement(sender, transfer)
    PROVE  OffchainInv' /\ Offchain!FinalSettlementsKept
<1> DEFINE n == state.next_id
           m == n + 1
           ends == state.now + time_to_finality
           e == [transfer |-> transfer, finality_time |-> ends]
           q == [state.settlements EXCEPT ![n] = e]
<1>1. /\ state \in OffchainStates /\ n \in 0 .. MaxSettlements /\ state.settlements \in Settlements
      /\ Circulates(state.ccd)
      /\ ~ seen => Sound(state.balance_sheet, state.ccd[Self]) /\ AllBalanced(state.settlements)
      /\ \A id \in Offchain!Ids : id >= n => state.settlements[id] = None
      /\ state.now \in Nat
  BY DEF OffchainInv, OffchainStates
<1>2. /\ n < MaxSettlements /\ Offchain!is_transfer_valid(transfer)
      /\ seen' = (seen \/ Offchain!Wraps(transfer))
  BY DEF Offchain!contract_receive_add_settlement
<1>3. /\ n \in Offchain!Ids /\ m \in 0 .. MaxSettlements /\ ends \in Nat /\ n >= n
      /\ \A id \in Offchain!Ids : id >= m => id >= n /\ id # n
  BY <1>1, <1>2, AmountAssumption DEF Offchain!Ids
<1>4. state' = [[state EXCEPT !.next_id = m] EXCEPT !.settlements = q]
  BY <1>1 DEF Offchain!contract_receive_add_settlement, OffchainStates
<1> HIDE DEF m, ends
<1>5. e \in SettlementRecords /\ e.transfer = transfer
  BY <1>2, <1>3 DEF SettlementRecords
<1> HIDE DEF e
<1>6. q \in Settlements /\ \A id \in Offchain!Ids : q[id] = IF id = n THEN e ELSE state.settlements[id]
  BY <1>1, <1>3, <1>5 DEF Settlements
<1> HIDE DEF q
<1>7. /\ state' \in OffchainStates /\ state'.next_id = m /\ state'.settlements = q
      /\ state'.balance_sheet = state.balance_sheet /\ state'.ccd = state.ccd
  BY <1>1, <1>3, <1>4, <1>6 DEF OffchainStates
<1>8. \A id \in Offchain!Ids : id >= m => q[id] = None
  BY <1>1, <1>3, <1>6
<1>9. state.settlements[n] = None
  BY <1>1, <1>3
<1>10. Offchain!FinalSettlementsKept
  BY <1>6, <1>7, <1>9 DEF Offchain!FinalSettlementsKept, Offchain!IsFinal, Offchain!Queued
<1>11. ASSUME ~ seen' PROVE ~ seen /\ AllBalanced(q)
  <2>1. ~ seen /\ ~ Offchain!Wraps(transfer)
    BY <1>2, <1>11
  <2> DEFINE x == Offchain!Exact(transfer.send_transfers)
             y == Offchain!Exact(transfer.receive_transfers)
  <2>2. transfer.send_transfers \in Entries /\ transfer.receive_transfers \in Entries
    BY RequestAssumption
  <2>3. x \in Nat /\ y \in Nat
    BY <2>2, TotalsType
  <2>4. ~ (x >= AmountModulus) /\ ~ (y >= AmountModulus)
    BY <2>1 DEF Offchain!Wraps
  <2>5. x % AmountModulus = y % AmountModulus
    BY <1>2 DEF Offchain!is_transfer_valid, Offchain!Total
  <2>6. Balanced(transfer) <=> x = y /\ x < AmountModulus
    BY DEF Balanced
  <2> HIDE DEF x, y
  <2>7. x < AmountModulus /\ y < AmountModulus
    BY <2>3, <2>4, Modulo
  <2>8. x % AmountModulus = x /\ y % AmountModulus = y
    BY <2>3, <2>7, Modulo, Within
  <2>9. Balanced(transfer)
    BY <2>5, <2>6, <2>7, <2>8
  <2> QED
    BY <1>1, <1>5, <1>6, <2>1, <2>9 DEF AllBalanced
<1> QED
  BY <1>1, <1>7, <1>8, <1>10, <1>11 DEF OffchainInv

LEMMA OffchainVeto ==
    ASSUME OffchainInv, NEW sender, NEW x \in Offchain!Ids, Offchain!contract_receive_veto(sender, x)
    PROVE  OffchainInv' /\ Offchain!FinalSettlementsKept
<1> DEFINE q == [state.settlements EXCEPT ![x] = None]
<1>1. /\ state \in OffchainStates /\ state.settlements \in Settlements
      /\ Circulates(state.ccd)
      /\ ~ seen => Sound(state.balance_sheet, state.ccd[Self]) /\ AllBalanced(state.settlements)
      /\ \A id \in Offchain!Ids : id >= state.next_id => state.settlements[id] = None
      /\ state.now \in Nat
  BY DEF OffchainInv, OffchainStates
<1>2. /\ state' = [state EXCEPT !.settlements = q] /\ seen' = seen
      /\ state.settlements[x] # None /\ state.settlements[x].finality_time > state.now
  BY DEF Offchain!contract_receive_veto, Offchain!Queued, Offchain!Quietly
<1>3. q \in Settlements /\ \A id \in Offchain!Ids : q[id] = IF id = x THEN None ELSE state.settlements[id]
  BY <1>1 DEF Settlements
<1> HIDE DEF q
<1>4. /\ state' \in OffchainStates /\ state'.next_id = state.next_id /\ state'.settlements = q
      /\ state'.balance_sheet = state.balance_sheet /\ state'.ccd = state.ccd
  BY <1>1, <1>2, <1>3 DEF OffchainStates
<1>5. /\ \A id \in Offchain!Ids : id >= state.next_id => q[id] = None
      /\ ~ seen => AllBalanced(q)
  BY <1>1, <1>3 DEF AllBalanced
<1>6. ~ (state.settlements[x].finality_time <= state.now)
  <2>1. state.settlements[x] \in SettlementRecords
    BY <1>1, <1>2 DEF Settlements
  <2>2. state.settlements[x].finality_time \in Nat
    BY <2>1 DEF SettlementRecords
  <2> QED
    BY <1>1, <1>2, <2>2
<1>7. Offchain!FinalSettlementsKept
  BY <1>3, <1>4, <1>6 DEF Offchain!FinalSettlementsKept, Offchain!IsFinal
<1> QED
  BY <1>1, <1>2, <1>4, <1>5, <1>7 DEF OffchainInv

LEMMA OffchainExecute ==
    ASSUME OffchainInv, NEW sender, Offchain!contract_receive_execute_settlements(sender)
    PROVE  OffchainInv' /\ Offchain!FinalSettlementsKept
<1> DEFINE sheet == Offchain!Settled
           q == [id \in Offchain!Ids |-> IF Offchain!IsFinal(id) THEN None ELSE state.settlements[id]]
           l == state.listed \cup Offchain!Listed
<1>1. /\ state \in OffchainStates /\ state.settlements \in Settlements
      /\ Circulates(state.ccd) /\ (~ seen => AllBalanced(state.settlements))
      /\ \A id \in Offchain!Ids : id >= state.next_id => state.settlements[id] = None
      /\ state.listed \in SUBSET Partners
  BY DEF OffchainInv, OffchainStates
<1>2. sheet \in Sheets /\ (~ seen => Sound(sheet, state.ccd[Self]))
  BY SettledSound
<1>3. state' = [[[state EXCEPT !.balance_sheet = sheet] EXCEPT !.listed = l] EXCEPT !.settlements = q]
      /\ seen' = seen
  BY <1>1 DEF Offchain!contract_receive_execute_settlements, Offchain!Quietly, OffchainStates
<1>4. q \in Settlements
      /\ \A id \in Offchain!Ids : q[id] = IF Offchain!IsFinal(id) THEN None ELSE state.settlements[id]
  BY <1>1 DEF Settlements
<1>5. l \in SUBSET Partners
  BY <1>1 DEF Offchain!Listed, Offchain!Parties
<1> HIDE DEF sheet, q, l
<1>6. /\ state' \in OffchainStates /\ state'.next_id = state.next_id /\ state'.settlements = q
      /\ state'.balance_sheet = sheet /\ state'.ccd = state.ccd
  BY <1>1, <1>2, <1>3, <1>4, <1>5 DEF OffchainStates
<1>7. /\ \A id \in Offchain!Ids : id >= state.next_id => q[id] = None
      /\ ~ seen => AllBalanced(q)
  BY <1>1, <1>4 DEF AllBalanced
<1>8. Offchain!FinalSettlementsKept
  BY <1>4, <1>6 DEF Offchain!FinalSettlementsKept, sheet
<1> QED
  BY <1>1, <1>2, <1>3, <1>6, <1>7, <1>8 DEF OffchainInv

LEMMA OffchainTick ==
    ASSUME OffchainInv, Offchain!Tick
    PROVE  OffchainInv' /\ state'.settlements = state.settlements
<1> DEFINE k == state.now + 1
<1>1. state' = [state EXCEPT !.now = k] /\ seen' = seen
  BY DEF Offchain!Tick
<1>2. state \in OffchainStates /\ k \in Nat
  BY DEF OffchainInv, OffchainStates
<1> HIDE DEF k
<1>3. /\ state' \in OffchainStates /\ state'.next_id = state.next_id
      /\ state'.settlements = state.settlements
      /\ state'.balance_sheet = state.balance_sheet /\ state'.ccd = state.ccd
  BY <1>1, <1>2 DEF OffchainStates
<1> QED
  BY <1>1, <1>3 DEF OffchainInv

LEMMA OffchainNext ==
    ASSUME OffchainInv, Offchain!Next
    PROVE  OffchainInv' /\ Offchain!FinalSettlementsKept
<1>1. state'.settlements = state.settlements => Offchain!FinalSettlementsKept
  BY DEF Offchain!FinalSettlementsKept
<1> QED
  BY <1>1, OffchainDeposit, OffchainWithdraw, OffchainAdd, OffchainVeto, OffchainExecute, OffchainTick
     DEF Offchain!Next

-----------------------------------------------------------------------------
(* sponsored-tx-enabled-auction *)

Bidders == Accounts \cup {Self}
Places == Bidders \X TokenIds
Numbers == 1 .. MaxItems

ItemLists == [Numbers -> ItemRecords \cup {None}]

ItemStates == [items : ItemLists, counter : 0 .. MaxItems, tokens : Holdings(Places), now : Nat]

\* What is bid for an item in a token
BidFor(item, t) ==
    IF /\ item # None /\ item.token_id = t
       /\ item.auction_state = "NotSoldYet" /\ item.highest_bidder # None
    THEN item.highest_bid ELSE 0
Offers(items, t) == [i \in Numbers |-> BidFor(items[i], t)]

Backed(items, tokens) == \A t \in TokenIds : tokens[<<Self, t>>] = SumOf(Offers(items, t), Numbers)

ItemsInv ==
    /\ state \in ItemStates
    /\ Backed(state.items, state.tokens)
    /\ \A i \in Numbers : i > state.counter => state.items[i] = None

LEMMA BidType ==
    ASSUME NEW item \in ItemRecords \cup {None}, NEW t
    PROVE  BidFor(item, t) \in Nat
<1>1. CASE item = None
  BY <1>1 DEF BidFor
<1>2. CASE item \in ItemRecords
  BY <1>2 DEF BidFor, ItemRecords
<1> QED
  BY <1>1, <1>2

LEMMA OffersType ==
    ASSUME NEW items \in ItemLists, NEW t
    PROVE  /\ Offers(items, t) \in [Numbers -> Int]
           /\ \A i \in Numbers : Offers(items, t)[i] = BidFor(items[i], t)
           /\ IsFiniteSet(Numbers)
<1>1. \A i \in Numbers : BidFor(items[i], t) \in Nat
  BY BidType DEF ItemLists
<1>2. IsFiniteSet(Numbers)
  BY AmountAssumption, FS_Interval DEF Numbers
<1> QED
  BY <1>1, <1>2 DEF Offers

LEMMA ItemsAccounted == ItemsInv => Items!FundsAccounted
<1> SUFFICES ASSUME ItemsInv, NEW t \in TokenIds
             PROVE  state.tokens[<<Self, t>>] = Items!SumFunction([i \in 1 .. MaxItems |-> Items!Bid(i, t)])
  BY DEF Items!FundsAccounted
<1> DEFINE f == [i \in 1 .. MaxItems |-> Items!Bid(i, t)]
<1>1. f = Offers(state.items, t) /\ DOMAIN f = Numbers
  BY DEF Offers, Numbers, BidFor, Items!Bid
<1> HIDE DEF f
<1>2. Items!SumFunction(f) = SumOf(f, DOMAIN f)
  BY DEF Items!SumFunction, Items!SumFunctionOnSet, Items!FoldFunctionOnSet,
         Items!MapThenFoldSet, SumOf, Adds
<1>3. state.tokens[<<Self, t>>] = SumOf(Offers(state.items, t), Numbers)
  BY DEF ItemsInv, Backed
<1> QED
  BY <1>1, <1>2, <1>3 DEF f

LEMMA ItemsInit == Items!Init => ItemsInv
<1> SUFFICES ASSUME Items!Init PROVE ItemsInv
  OBVIOUS
<1> DEFINE p == [i \in Numbers |-> None]
           h == [q \in Places |-> IF q[1] = Self THEN 0 ELSE Wealth]
<1>1. state = [items |-> p, counter |-> 0, tokens |-> h, now |-> 0]
  BY DEF Items!Init, Numbers, Places, Bidders
<1>2. p \in ItemLists /\ \A i \in Numbers : p[i] = None
  BY DEF ItemLists
<1>3. h \in Holdings(Places) /\ \A t \in TokenIds : h[<<Self, t>>] = 0
  BY AmountAssumption DEF Holdings, Places, Bidders
<1> HIDE DEF p, h
<1>4. state \in ItemStates /\ state.items = p /\ state.tokens = h
  BY <1>1, <1>2, <1>3, AmountAssumption DEF ItemStates
<1>5. ASSUME NEW t \in TokenIds PROVE SumOf(Offers(p, t), Numbers) = 0
  <2>1. \A i \in Numbers : Offers(p, t)[i] = 0
    BY <1>2 DEF Offers, BidFor
  <2> QED
    BY <1>2, <2>1, SumOfZero, OffersType
<1> QED
  BY <1>2, <1>3, <1>4, <1>5 DEF ItemsInv, Backed

(* Tokens change hands. *)
LEMMA GivesToken ==
    ASSUME NEW h \in Holdings(Places), NEW from \in Bidders, NEW to \in Bidders, from # to,
           NEW t \in TokenIds, NEW amount \in Int
    PROVE  /\ Led!Given(h, <<from, t>>, <<to, t>>, amount) \in Holdings(Places)
           /\ Led!Given(h, <<from, t>>, <<to, t>>, amount)[<<from, t>>] = h[<<from, t>>] - amount
           /\ Led!Given(h, <<from, t>>, <<to, t>>, amount)[<<to, t>>] = h[<<to, t>>] + amount
           /\ \A u \in TokenIds : u # t =>
                 Led!Given(h, <<from, t>>, <<to, t>>, amount)[<<Self, u>>] = h[<<Self, u>>]
           /\ \A u \in TokenIds : h[<<Self, u>>] \in Int
<1> DEFINE f == <<from, t>>
           g == <<to, t>>
<1>1. f \in Places /\ g \in Places /\ f # g
  BY DEF Places
<1>2. ASSUME NEW u \in TokenIds
      PROVE  <<Self, u>> \in Places /\ (u # t => <<Self, u>> # f /\ <<Self, u>> # g)
  BY DEF Places, Bidders
<1> HIDE DEF f, g
<1>3. /\ Led!Given(h, f, g, amount) \in Holdings(Places)
      /\ Led!Given(h, f, g, amount)[f] = h[f] - amount
      /\ Led!Given(h, f, g, amount)[g] = h[g] + amount
      /\ \A x \in Places : x # f /\ x # g => Led!Given(h, f, g, amount)[x] = h[x]
  BY <1>1, GivesOther
<1>4. \A u \in TokenIds : u # t => Led!Given(h, f, g, amount)[<<Self, u>>] = h[<<Self, u>>]
  BY <1>2, <1>3
<1>5. \A u \in TokenIds : h[<<Self, u>>] \in Int
  BY <1>2 DEF Holdings
<1> QED
  BY <1>3, <1>4, <1>5 DEF f, g

(* The contract pays in tokens. *)
LEMMA PaysToken ==
    ASSUME NEW h \in Holdings(Places), NEW to \in Accounts, NEW t \in TokenIds, NEW amount \in Int
    PROVE  /\ Led!Given(h, <<Self, t>>, <<to, t>>, amount) \in Holdings(Places)
           /\ Led!Given(h, <<Self, t>>, <<to, t>>, amount)[<<Self, t>>] = h[<<Self, t>>] - amount
           /\ \A u \in TokenIds : u # t =>
                 Led!Given(h, <<Self, t>>, <<to, t>>, amount)[<<Self, u>>] = h[<<Self, u>>]
           /\ h[<<Self, t>>] \in Int
<1>1. Self \in Bidders /\ to \in Bidders /\ Self # to
  BY AddressAssumption DEF Bidders, Addresses
<1>2. PICK from \in Bidders : from = Self
  BY <1>1
<1>3. from # to
  BY <1>1, <1>2
<1>4. /\ Led!Given(h, <<from, t>>, <<to, t>>, amount) \in Holdings(Places)
      /\ Led!Given(h, <<from, t>>, <<to, t>>, amount)[<<from, t>>] = h[<<from, t>>] - amount
      /\ \A u \in TokenIds : u # t =>
            Led!Given(h, <<from, t>>, <<to, t>>, amount)[<<Self, u>>] = h[<<Self, u>>]
      /\ \A u \in TokenIds : h[<<Self, u>>] \in Int
  BY <1>1, <1>3, GivesToken
<1> QED
  BY <1>2, <1>4

(* One item changes, and the tokens of the contract by as much as what is bid for it. *)
LEMMA BackedChange ==
    ASSUME NEW p \in ItemLists, NEW q \in ItemLists, NEW x \in Numbers,
           NEW h, NEW g, Backed(p, h),
           \A i \in Numbers : i # x => q[i] = p[i],
           \A t \in TokenIds : g[<<Self, t>>] = h[<<Self, t>>] + (BidFor(q[x], t) - BidFor(p[x], t))
    PROVE  Backed(q, g)
<1> SUFFICES ASSUME NEW t \in TokenIds
             PROVE  g[<<Self, t>>] = SumOf(Offers(q, t), Numbers)
  BY DEF Backed
<1> DEFINE a == Offers(p, t)
           b == Offers(q, t)
<1>1. /\ a \in [Numbers -> Int] /\ \A i \in Numbers : a[i] = BidFor(p[i], t)
      /\ b \in [Numbers -> Int] /\ \A i \in Numbers : b[i] = BidFor(q[i], t)
      /\ IsFiniteSet(Numbers)
  BY OffersType
<1> HIDE DEF a, b
<1>2. \A i \in Numbers : i # x => b[i] = a[i]
  BY <1>1
<1>3. SumOf(b, Numbers) = SumOf(a, Numbers) + (b[x] - a[x])
  BY <1>1, <1>2, SumOfChange
<1>4. h[<<Self, t>>] = SumOf(a, Numbers)
  BY DEF Backed, a
<1> QED
  BY <1>1, <1>3, <1>4 DEF b

(* Items whose highest bid is in one token *)
LEMMA BackedItem ==
    ASSUME NEW p \in ItemLists, NEW q \in ItemLists, NEW x \in Numbers, NEW t \in TokenIds,
           NEW h \in Holdings(Places), NEW g, Backed(p, h),
           \A i \in Numbers : i # x => q[i] = p[i],
           p[x] # None, p[x].token_id = t, q[x] # None, q[x].token_id = t,
           \A u \in TokenIds : u # t => g[<<Self, u>>] = h[<<Self, u>>],
           g[<<Self, t>>] = h[<<Self, t>>] + (BidFor(q[x], t) - BidFor(p[x], t))
    PROVE  Backed(q, g)
<1>1. ASSUME NEW u \in TokenIds
      PROVE  g[<<Self, u>>] = h[<<Self, u>>] + (BidFor(q[x], u) - BidFor(p[x], u))
  <2>1. CASE u = t
    BY <2>1
  <2>2. CASE u # t
    <3>1. BidFor(q[x], u) = 0 /\ BidFor(p[x], u) = 0
      BY <2>2 DEF BidFor
    <3>2. h[<<Self, u>>] \in Int
      BY DEF Holdings, Places, Bidders
    <3> QED
      BY <2>2, <3>1, <3>2
  <2> QED
    BY <2>1, <2>2
<1> QED
  BY <1>1, BackedChange

LEMMA ItemsAdd ==
    ASSUME ItemsInv, NEW sender, NEW t \in TokenIds, NEW start \in Nat, NEW end \in Nat,
           Items!add_item(sender, t, start, end)
    PROVE  ItemsInv' /\ Items!StaysSold
<1> DEFINE n == state.counter + 1
           e == [auction_state |-> "NotSoldYet", highest_bidder |-> None, start |-> start,
                 end |-> end, highest_bid |-> minimum_bid, creator |-> sender, token_id |-> t]
           p == state.items
           q == [p EXCEPT ![n] = e]
<1>1. /\ state \in ItemStates /\ p \in ItemLists /\ state.counter \in 0 .. MaxItems
      /\ Backed(p, state.tokens) /\ \A i \in Numbers : i > state.counter => p[i] = None
      /\ state.tokens \in Holdings(Places)
  BY DEF ItemsInv, ItemStates
<1>2. sender \in Accounts /\ state.counter < MaxItems
  BY DEF Items!add_item
<1>3. n \in Nat /\ n < CounterLimit /\ n \in Numbers /\ n \in 0 .. MaxItems /\ n > state.counter
  BY <1>1, <1>2, AmountAssumption DEF Numbers
<1>4. n % CounterLimit = n
  BY <1>3, AmountAssumption, Within
<1> HIDE DEF n
<1>5. state' = [[state EXCEPT !.counter = n] EXCEPT !.items = q]
  BY <1>1, <1>4 DEF Items!add_item, n, ItemStates
<1>6. e \in ItemRecords /\ e.highest_bidder = None
  BY <1>2, AmountAssumption DEF ItemRecords
<1> HIDE DEF e
<1>7. q \in ItemLists /\ \A i \in Numbers : q[i] = IF i = n THEN e ELSE p[i]
  BY <1>1, <1>3, <1>6 DEF ItemLists
<1> HIDE DEF q
<1>8. /\ state' \in ItemStates /\ state'.items = q /\ state'.counter = n
      /\ state'.tokens = state.tokens
  BY <1>1, <1>3, <1>5, <1>7 DEF ItemStates
<1>9. p[n] = None
  BY <1>1, <1>3
<1>10. ASSUME NEW u \in TokenIds
       PROVE  /\ BidFor(q[n], u) = 0 /\ BidFor(p[n], u) = 0
              /\ state.tokens[<<Self, u>>] = state.tokens[<<Self, u>>] + (BidFor(q[n], u) - BidFor(p[n], u))
  <2>1. BidFor(q[n], u) = 0 /\ BidFor(p[n], u) = 0
    BY <1>3, <1>6, <1>7, <1>9 DEF BidFor
  <2>2. state.tokens[<<Self, u>>] \in Int
    BY <1>1 DEF Holdings, Places, Bidders
  <2> QED
    BY <2>1, <2>2
<1>11. Backed(q, state.tokens)
  <2> HIDE DEF p
  <2> QED
    BY <1>1, <1>3, <1>7, <1>10, BackedChange
<1>12. \A i \in Numbers : i > n => q[i] = None
  BY <1>1, <1>3, <1>7 DEF Numbers
<1>13. Items!StaysSold
  BY <1>7, <1>8, <1>9 DEF Items!StaysSold, Numbers
<1> QED
  BY <1>8, <1>11, <1>12, <1>13 DEF ItemsInv

LEMMA ItemsBid ==
    ASSUME ItemsInv, NEW from \in Accounts, NEW t \in TokenIds, NEW amount \in TokenBids,
           NEW x \in 1 .. MaxItems, Items!auction_bid(from, t, amount, x)
    PROVE  ItemsInv' /\ Items!StaysSold
<1> DEFINE p == state.items
           h == state.tokens
           item == p[x]
           e == [[item EXCEPT !.highest_bid = amount] EXCEPT !.highest_bidder = from]
           q == [p EXCEPT ![x] = e]
           g == Led!Given(h, <<from, t>>, <<Self, t>>, amount)
           back == Led!Given(g, <<Self, t>>, <<item.highest_bidder, t>>, item.highest_bid)
           k == IF item.highest_bidder = None THEN g ELSE back
<1>1. /\ state \in ItemStates /\ p \in ItemLists /\ h \in Holdings(Places)
      /\ Backed(p, h) /\ \A i \in Numbers : i > state.counter => p[i] = None
  BY DEF ItemsInv, ItemStates
<1>2. item # None /\ item.token_id = t /\ item.auction_state = "NotSoldYet"
  BY DEF Items!auction_bid
<1>3. x \in Numbers /\ item \in ItemRecords /\ amount \in Nat
  BY <1>1, <1>2, AmountAssumption DEF Numbers, ItemLists
<1>4. state' = [[state EXCEPT !.tokens = k] EXCEPT !.items = q]
  <2> DEFINE s == Items!transfer(state, t, from, Self, amount)
             bid == [s EXCEPT !.items[x].highest_bid = amount, !.items[x].highest_bidder = from]
  <2>1. s = [state EXCEPT !.tokens = g]
    BY DEF Items!transfer, Items!Given, Led!Given
  <2> HIDE DEF s
  <2>2. s \in [items : ItemLists, counter : 0 .. MaxItems, tokens : {g}, now : Nat] /\ s.items = p
    BY <1>1, <2>1 DEF ItemStates
  <2>3. bid = [s EXCEPT !.items = q]
    BY <1>1, <1>3, <2>2 DEF ItemLists, ItemRecords
  <2>4. state' = IF item.highest_bidder = None THEN bid
                 ELSE Items!transfer(bid, t, Self, item.highest_bidder, item.highest_bid)
    BY <2>1 DEF Items!auction_bid, s
  <2> HIDE DEF bid
  <2>5. bid = [[state EXCEPT !.tokens = g] EXCEPT !.items = q]
    BY <2>1, <2>3
  <2>6. CASE item.highest_bidder = None
    BY <2>4, <2>5, <2>6
  <2>7. CASE item.highest_bidder # None
    <3>1. state' = [bid EXCEPT !.tokens = Led!Given(bid.tokens, <<Self, t>>, <<item.highest_bidder, t>>,
                                                    item.highest_bid)]
      BY <2>4, <2>7 DEF Items!transfer, Items!Given, Led!Given
    <3> HIDE DEF q, g
    <3>2. bid.tokens = g
      BY <1>1, <2>5 DEF ItemStates
    <3>3. state' = [bid EXCEPT !.tokens = back]
      BY <3>1, <3>2
    <3> HIDE DEF back
    <3> QED
      BY <1>1, <2>5, <2>7, <3>3 DEF ItemStates
  <2> QED
    BY <2>6, <2>7
<1>5. /\ from \in Bidders /\ Self \in Bidders /\ from # Self
      /\ item.highest_bidder # None =>
            /\ item.highest_bidder \in Bidders /\ Self # item.highest_bidder
            /\ item.highest_bidder \in Accounts
      /\ item.highest_bid \in Nat
  BY <1>3, AddressAssumption DEF Bidders, Addresses, ItemRecords
<1>6. /\ e \in ItemRecords /\ e.token_id = t /\ e.auction_state = "NotSoldYet"
      /\ e.highest_bid = amount /\ e.highest_bidder = from
  BY <1>2, <1>3 DEF ItemRecords
<1> HIDE DEF e
<1>7. q \in ItemLists /\ \A i \in Numbers : q[i] = IF i = x THEN e ELSE p[i]
  BY <1>1, <1>3, <1>6 DEF ItemLists
<1> HIDE DEF q
<1>8. e # None /\ from # None
  <2>1. from # None
    BY AddressAssumption DEF Addresses
  <2>2. e # None
    BY <1>6, NoneAssumption
  <2> QED
    BY <2>1, <2>2
<1>9. BidFor(q[x], t) = amount /\ q[x] # None /\ q[x].token_id = t
  BY <1>3, <1>6, <1>7, <1>8 DEF BidFor
<1>10. /\ g \in Holdings(Places) /\ g[<<Self, t>>] = h[<<Self, t>>] + amount
       /\ \A u \in TokenIds : u # t => g[<<Self, u>>] = h[<<Self, u>>]
       /\ h[<<Self, t>>] \in Int
  <2> HIDE DEF h
  <2> QED
    BY <1>1, <1>3, <1>5, GivesToken
<1> HIDE DEF g
<1>11. /\ k \in Holdings(Places)
       /\ k[<<Self, t>>] = h[<<Self, t>>] + (BidFor(q[x], t) - BidFor(p[x], t))
       /\ \A u \in TokenIds : u # t => k[<<Self, u>>] = h[<<Self, u>>]
  <2>1. CASE item.highest_bidder = None
    <3>1. BidFor(p[x], t) = 0 /\ k = g
      BY <2>1 DEF BidFor
    <3> QED
      BY <1>3, <1>9, <1>10, <3>1
  <2>2. CASE item.highest_bidder # None
    <3> DEFINE b == item.highest_bidder
               m == item.highest_bid
    <3>1. BidFor(p[x], t) = m /\ k = back
      BY <1>2, <2>2 DEF BidFor
    <3>2. b \in Accounts /\ m \in Int
      BY <1>5, <2>2
    <3>3. back = Led!Given(g, <<Self, t>>, <<b, t>>, m)
      OBVIOUS
    <3> HIDE DEF b, m, back
    <3>4. /\ back \in Holdings(Places) /\ back[<<Self, t>>] = g[<<Self, t>>] - m
          /\ \A u \in TokenIds : u # t => back[<<Self, u>>] = g[<<Self, u>>]
      <4> DEFINE G == Led!Given(g, <<Self, t>>, <<b, t>>, m)
      <4>1. /\ G \in Holdings(Places) /\ G[<<Self, t>>] = g[<<Self, t>>] - m
            /\ \A u \in TokenIds : u # t => G[<<Self, u>>] = g[<<Self, u>>]
        BY <1>10, <3>2, PaysToken
      <4>2. back = G
        BY <3>3
      <4> QED
        BY <4>1, <4>2
    <3> HIDE DEF k
    <3> QED
      BY <1>3, <1>9, <1>10, <3>1, <3>2, <3>4
  <2> QED
    BY <2>1, <2>2
<1> HIDE DEF k
<1>12. Backed(q, k)
  <2> HIDE DEF p, h
  <2> QED
    BY <1>1, <1>2, <1>3, <1>7, <1>9, <1>11, BackedItem
<1>13. /\ state' \in ItemStates /\ state'.items = q /\ state'.counter = state.counter
       /\ state'.tokens = k
  BY <1>1, <1>4, <1>7, <1>11 DEF ItemStates
<1>14. \A i \in Numbers : i > state.counter => q[i] = None
  BY <1>1, <1>2, <1>7
<1>15. Items!StaysSold
  BY <1>2, <1>7, <1>13 DEF Items!StaysSold, Numbers
<1> QED
  BY <1>12, <1>13, <1>14, <1>15 DEF ItemsInv

LEMMA ItemsFinalize ==
    ASSUME ItemsInv, NEW sender, NEW x \in 1 .. MaxItems, Items!auction_finalize(sender, x)
    PROVE  ItemsInv' /\ Items!StaysSold
<1> DEFINE p == state.items
           h == state.tokens
           item == p[x]
           e == [item EXCEPT !.auction_state = "Sold"]
           q == [p EXCEPT ![x] = e]
           t == item.token_id
           m == item.highest_bid
           to == item.creator
           g == Led!Given(h, <<Self, t>>, <<to, t>>, m)
<1>1. /\ state \in ItemStates /\ p \in ItemLists /\ h \in Holdings(Places)
      /\ Backed(p, h) /\ \A i \in Numbers : i > state.counter => p[i] = None
  BY DEF ItemsInv, ItemStates
<1>2. item # None /\ item.auction_state = "NotSoldYet" /\ item.highest_bidder # None
  BY DEF Items!auction_finalize
<1>3. x \in Numbers /\ item \in ItemRecords
  BY <1>1, <1>2 DEF Numbers, ItemLists
<1>4. state' = [[state EXCEPT !.items = q] EXCEPT !.tokens = g]
  <2> DEFINE s == [state EXCEPT !.items[x].auction_state = "Sold"]
  <2>1. s = [state EXCEPT !.items = q]
    OBVIOUS
  <2>2. state' = Items!transfer(s, t, Self, to, m)
    BY DEF Items!auction_finalize
  <2> HIDE DEF s
  <2>3. state' = [s EXCEPT !.tokens = Led!Given(s.tokens, <<Self, t>>, <<to, t>>, m)]
    BY <2>2 DEF Items!transfer, Items!Given, Led!Given
  <2> HIDE DEF q, to, m
  <2>4. s.tokens = h
    BY <1>1, <2>1 DEF ItemStates
  <2>5. state' = [s EXCEPT !.tokens = g]
    BY <2>3, <2>4
  <2> HIDE DEF g
  <2> QED
    BY <2>1, <2>5
<1>5. /\ to \in Accounts /\ m \in Int /\ t \in TokenIds
  BY <1>3 DEF ItemRecords
<1>6. e \in ItemRecords /\ e.token_id = t /\ e.auction_state = "Sold"
  BY <1>3 DEF ItemRecords
<1> HIDE DEF e
<1>7. q \in ItemLists /\ \A i \in Numbers : q[i] = IF i = x THEN e ELSE p[i]
  BY <1>1, <1>3, <1>6 DEF ItemLists
<1>8. e # None
  BY <1>6, NoneAssumption
<1> HIDE DEF q
<1>9. /\ BidFor(q[x], t) = 0 /\ q[x] # None /\ q[x].token_id = t
      /\ BidFor(p[x], t) = m
  BY <1>2, <1>3, <1>6, <1>7, <1>8 DEF BidFor
<1> HIDE DEF to, m, t
<1>10. /\ g \in Holdings(Places) /\ g[<<Self, t>>] = h[<<Self, t>>] - m
       /\ \A u \in TokenIds : u # t => g[<<Self, u>>] = h[<<Self, u>>]
       /\ h[<<Self, t>>] \in Int
  <2> HIDE DEF h
  <2> QED
    BY <1>1, <1>5, PaysToken
<1> HIDE DEF g
<1>11. g[<<Self, t>>] = h[<<Self, t>>] + (BidFor(q[x], t) - BidFor(p[x], t))
  BY <1>5, <1>9, <1>10
<1>12. p[x].token_id = t /\ p[x] # None
  BY <1>2 DEF t
<1>13. Backed(q, g)
  <2> HIDE DEF p, h
  <2> QED
    BY <1>1, <1>3, <1>5, <1>7, <1>9, <1>10, <1>11, <1>12, BackedItem
<1>14. /\ state' \in ItemStates /\ state'.items = q /\ state'.counter = state.counter
       /\ state'.tokens = g
  BY <1>1, <1>4, <1>7, <1>10 DEF ItemStates
<1>15. \A i \in Numbers : i > state.counter => q[i] = None
  BY <1>1, <1>2, <1>7
<1>16. Items!StaysSold
  BY <1>2, <1>7, <1>14 DEF Items!StaysSold, Numbers
<1> QED
  BY <1>13, <1>14, <1>15, <1>16 DEF ItemsInv

LEMMA ItemsTick ==
    ASSUME ItemsInv, Items!Tick
    PROVE  ItemsInv' /\ Items!StaysSold
<1> DEFINE k == state.now + 1
<1>1. state' = [state EXCEPT !.now = k]
  BY DEF Items!Tick
<1>2. k \in Nat /\ state \in ItemStates
  BY DEF ItemsInv, ItemStates
<1> HIDE DEF k
<1>3. /\ state' \in ItemStates /\ state'.items = state.items /\ state'.counter = state.counter
      /\ state'.tokens = state.tokens
  BY <1>1, <1>2 DEF ItemStates
<1> QED
  BY <1>3 DEF ItemsInv, Items!StaysSold

LEMMA ItemsNext == ASSUME ItemsInv, Items!Next PROVE ItemsInv' /\ Items!StaysSold
<1>1. \A time \in ItemTimes : time[1] \in Nat /\ time[2] \in Nat
  BY RequestAssumption
<1> QED
  BY <1>1, ItemsAdd, ItemsBid, ItemsFinalize, ItemsTick DEF Items!Next

-----------------------------------------------------------------------------
(* icecream *)

SaleStates ==
    [weather_service : Contracts \cup {Weather}, weather : {"Rainy", "Sunny"},
     ccd : Holdings(Among), now : Nat]

SaleFrames ==
    [hook : Contracts, invoker : Partners, vendor : Partners, amount : Int,
     saved : [state : SaleStates, seen : {None}]]

(* The CCD of the first sales under way *)
Owed(stack, n) == SumTo([i \in 1 .. n |-> stack[i].amount], n)

SaleInv ==
    /\ state \in SaleStates /\ seen = None /\ calls \in Seq(SaleFrames)
    /\ state.ccd[Self] = Owed(calls, Len(calls))
    /\ \A i \in 1 .. Len(calls) : calls[i].saved.state.ccd[Self] = Owed(calls, i - 1)

LEMMA OwedSame ==
    ASSUME NEW n, NEW s, NEW t, \A i \in 1 .. n : s[i] = t[i]
    PROVE  Owed(s, n) = Owed(t, n)
<1>1. [i \in 1 .. n |-> s[i].amount] = [i \in 1 .. n |-> t[i].amount]
  OBVIOUS
<1> QED
  BY <1>1 DEF Owed

LEMMA OwedNone == ASSUME NEW s PROVE Owed(s, 0) = 0
  BY SumToNone DEF Owed

LEMMA OwedNext ==
    ASSUME NEW n \in Nat, NEW s, \A i \in 1 .. (n + 1) : s[i].amount \in Int
    PROVE  Owed(s, n + 1) = Owed(s, n) + s[n + 1].amount /\ Owed(s, n) \in Int
<1> DEFINE f == [i \in 1 .. (n + 1) |-> s[i].amount]
           g == [i \in 1 .. n |-> s[i].amount]
<1>1. /\ \A j \in 1 .. (n + 1) : f[j] \in Int
      /\ \A j \in 1 .. n : g[j] = f[j] /\ g[j] \in Int
      /\ f[n + 1] = s[n + 1].amount
  OBVIOUS
<1> HIDE DEF f, g
<1>2. SumTo(f, n + 1) = SumTo(f, n) + f[n + 1]
  BY <1>1, SumToNext
<1>3. SumTo(g, n) = SumTo(f, n) /\ SumTo(g, n) \in Int
  BY <1>1, SumToSame, SumToNat
<1> QED
  BY <1>1, <1>2, <1>3 DEF Owed, f, g

LEMMA SaleInit == Sales!Init => SaleInv
<1> SUFFICES ASSUME Sales!Init PROVE SaleInv
  OBVIOUS
<1> DEFINE c == [a \in Among |-> IF a = Self THEN 0 ELSE Wealth]
<1>1. /\ state = [weather_service |-> Weather, weather |-> "Sunny", ccd |-> c, now |-> 0]
      /\ seen = None /\ calls = <<>>
  BY DEF Sales!Init, Sales!InitialCcd, Sales!Addresses, Among
<1>2. c \in Holdings(Among) /\ c[Self] = 0
  BY AmountAssumption, AmongAddresses DEF Holdings
<1> HIDE DEF c
<1>3. state \in SaleStates /\ state.ccd[Self] = 0
  BY <1>1, <1>2 DEF SaleStates
<1>4. Owed(calls, 0) = 0
  BY OwedNone
<1>5. Len(calls) = 0 /\ calls \in Seq(SaleFrames)
  BY <1>1
<1> QED
  BY <1>1, <1>3, <1>4, <1>5 DEF SaleInv

(* What is owed when a sale begins *)
LEMMA OwedPushed ==
    ASSUME NEW s \in Seq(SaleFrames), NEW e \in SaleFrames
    PROVE  /\ Owed(Append(s, e), Len(s) + 1) = Owed(s, Len(s)) + e.amount
           /\ \A i \in 1 .. (Len(s) + 1) : Owed(Append(s, e), i - 1) = Owed(s, i - 1)
<1> DEFINE t == Append(s, e)
           n == Len(s)
<1>1. /\ t \in Seq(SaleFrames) /\ Len(t) = n + 1 /\ t[n + 1] = e /\ n \in Nat
      /\ \A i \in 1 .. n : t[i] = s[i]
  BY Pushes
<1>2. \A i \in 1 .. (n + 1) : t[i] \in SaleFrames
  <2> HIDE DEF t, n
  <2> QED
    BY <1>1, ElementOfSeq
<1>3. \A i \in 1 .. (n + 1) : t[i].amount \in Int
  BY <1>2 DEF SaleFrames
<1> HIDE DEF t, n
<1>4. Owed(t, n + 1) = Owed(t, n) + t[n + 1].amount
  BY <1>1, <1>3, OwedNext
<1>5. \A i \in 1 .. (n + 1) : Owed(t, i - 1) = Owed(s, i - 1)
  <2> TAKE i \in 1 .. (n + 1)
  <2>1. \A j \in 1 .. (i - 1) : t[j] = s[j]
    BY <1>1
  <2> QED
    BY <2>1, OwedSame
<1>6. Owed(t, n) = Owed(s, n)
  BY <1>1, OwedSame
<1> QED
  BY <1>1, <1>4, <1>5, <1>6 DEF t, n

(* and when it ends *)
LEMMA OwedPopped ==
    ASSUME NEW s \in Seq(SaleFrames), s # <<>>
    PROVE  /\ Owed(s, Len(s)) = Owed(Led!Waiting(s), Len(s) - 1) + s[Len(s)].amount
           /\ \A i \in 1 .. Len(s) : Owed(Led!Waiting(s), i - 1) = Owed(s, i - 1)
<1> DEFINE w == Led!Waiting(s)
           n == Len(s) - 1
<1>1. /\ w \in Seq(SaleFrames) /\ Len(w) = n /\ n \in Nat /\ Len(s) = n + 1
      /\ \A i \in 1 .. n : w[i] = s[i]
  BY Pops
<1>2. \A i \in 1 .. Len(s) : s[i] \in SaleFrames
  BY ElementOfSeq
<1>3. \A i \in 1 .. (n + 1) : s[i].amount \in Int
  BY <1>1, <1>2 DEF SaleFrames
<1> HIDE DEF w, n
<1>4. Owed(s, n + 1) = Owed(s, n) + s[n + 1].amount
  BY <1>1, <1>3, OwedNext
<1>5. \A i \in 1 .. (n + 1) : Owed(w, i - 1) = Owed(s, i - 1)
  <2> TAKE i \in 1 .. (n + 1)
  <2>1. \A j \in 1 .. (i - 1) : w[j] = s[j]
    BY <1>1
  <2> QED
    BY <2>1, OwedSame
<1>6. Owed(w, n) = Owed(s, n)
  BY <1>1, OwedSame
<1> QED
  BY <1>1, <1>4, <1>5, <1>6 DEF w, n

(* A sale is settled, *)
LEMMA SaleSettled ==
    ASSUME NEW s \in SaleStates, NEW invoker \in Partners, NEW vendor \in Partners,
           NEW amount \in Int, NEW weather
    PROVE  /\ Sales!Settled(s, invoker, vendor, amount, weather) \in SaleStates
           /\ Sales!Settled(s, invoker, vendor, amount, weather).ccd[Self] = s.ccd[Self] - amount
<1> DEFINE to == IF weather = "Rainy" THEN invoker ELSE vendor
           g == Led!Given(s.ccd, Self, to, amount)
<1>1. to \in Among /\ Self # to
  BY AmongAddresses
<1>2. Sales!Settled(s, invoker, vendor, amount, weather) = [s EXCEPT !.ccd = g]
  BY DEF Sales!Settled, Sales!pay, Sales!Given, Led!Given
<1> HIDE DEF to
<1>3. s.ccd \in Holdings(Among)
  BY DEF SaleStates
<1>4. g \in Holdings(Among) /\ g[Self] = s.ccd[Self] - amount
  BY <1>1, <1>3, AmongAddresses, GivesOther
<1> HIDE DEF g
<1> QED
  BY <1>2, <1>4 DEF SaleStates

(* and paid for. *)
LEMMA SaleReceived ==
    ASSUME state \in SaleStates, NEW sender \in Partners \cup Contracts, NEW amount \in Int
    PROVE  /\ Sales!Received(sender, amount) \in SaleStates
           /\ Sales!Received(sender, amount).ccd[Self] = state.ccd[Self] + amount
<1> DEFINE g == Led!Given(state.ccd, sender, Self, amount)
<1>1. sender \in Among /\ sender # Self
  BY AmongAddresses
<1>2. Sales!Received(sender, amount) = [state EXCEPT !.ccd = g]
  BY DEF Sales!Received, Sales!pay, Sales!Given, Led!Given
<1>3. state.ccd \in Holdings(Among)
  BY DEF SaleStates
<1>4. g \in Holdings(Among) /\ g[Self] = state.ccd[Self] + amount
  BY <1>1, <1>3, AmongAddresses, GivesOther
<1> HIDE DEF g
<1> QED
  BY <1>2, <1>4 DEF SaleStates

LEMMA SaleBought ==
    ASSUME SaleInv, NEW sender \in Partners \cup Contracts, NEW invoker \in Partners,
           NEW vendor \in Partners, NEW amount \in Prices,
           Sales!contract_buy_icecream(sender, invoker, vendor, amount)
    PROVE  SaleInv'
<1> DEFINE paid == Sales!Received(sender, amount)
           e == [hook |-> state.weather_service, invoker |-> invoker, vendor |-> vendor,
                 amount |-> amount, saved |-> [state |-> state, seen |-> seen]]
<1>0. state \in SaleStates /\ seen = None /\ calls \in Seq(SaleFrames) /\ amount \in Int
      /\ state.weather_service \in Contracts \cup {Weather}
  BY AmountAssumption DEF SaleInv, SaleStates
<1>1. paid \in SaleStates /\ paid.ccd[Self] = state.ccd[Self] + amount
  BY <1>0, SaleReceived
<1> HIDE DEF paid
<1>2. CASE state' = Sales!Settled(paid, invoker, vendor, amount, state.weather) /\ UNCHANGED calls
  <2>1. state' \in SaleStates /\ state'.ccd[Self] = paid.ccd[Self] - amount
    BY <1>0, <1>1, <1>2, SaleSettled
  <2>2. state.ccd[Self] \in Int
    BY <1>0, AmongAddresses DEF SaleStates, Holdings
  <2>3. seen' = seen
    BY DEF Sales!contract_buy_icecream
  <2> QED
    BY <1>0, <1>1, <1>2, <2>1, <2>2, <2>3 DEF SaleInv
<1>3. CASE state.weather_service # Weather /\ state' = paid /\ calls' = Append(calls, e)
  <2>1. e \in SaleFrames /\ e.amount = amount /\ e.saved.state = state
    BY <1>0, <1>3 DEF SaleFrames
  <2> HIDE DEF e
  <2> DEFINE n == Len(calls)
  <2>2. /\ calls' \in Seq(SaleFrames) /\ Len(calls') = n + 1 /\ calls'[n + 1] = e /\ n \in Nat
        /\ \A i \in 1 .. n : calls'[i] = calls[i]
    BY <1>0, <1>3, <2>1, Pushes
  <2>3. /\ Owed(calls', n + 1) = Owed(calls, n) + e.amount
        /\ \A i \in 1 .. (n + 1) : Owed(calls', i - 1) = Owed(calls, i - 1)
    BY <1>0, <1>3, <2>1, OwedPushed
  <2>4. state'.ccd[Self] = Owed(calls', Len(calls'))
    BY <1>1, <1>3, <2>1, <2>2, <2>3 DEF SaleInv
  <2>5. \A i \in 1 .. Len(calls') : calls'[i].saved.state.ccd[Self] = Owed(calls', i - 1)
    <3> TAKE i \in 1 .. Len(calls')
    <3>1. CASE i = n + 1
      BY <2>1, <2>2, <2>3, <3>1 DEF SaleInv
    <3>2. CASE i \in 1 .. n
      BY <2>2, <2>3, <3>2 DEF SaleInv
    <3> QED
      BY <2>2, <3>1, <3>2
  <2>6. seen' = seen
    BY DEF Sales!contract_buy_icecream
  <2> QED
    BY <1>0, <1>1, <1>3, <2>2, <2>4, <2>5, <2>6 DEF SaleInv
<1> QED
  BY <1>2, <1>3 DEF Sales!contract_buy_icecream, Sales!Saved, paid

(* The sale on top *)
LEMMA SaleTop ==
    ASSUME SaleInv, calls # <<>>
    PROVE  /\ Len(calls) \in Nat \ {0} /\ Sales!Top \in SaleFrames /\ Sales!Top = calls[Len(calls)]
           /\ Sales!Waiting(calls) = Led!Waiting(calls)
           /\ Len(Led!Waiting(calls)) = Len(calls) - 1 /\ Led!Waiting(calls) \in Seq(SaleFrames)
           /\ Owed(calls, Len(calls)) = Owed(Led!Waiting(calls), Len(calls) - 1) + Sales!Top.amount
           /\ \A i \in 1 .. (Len(calls) - 1) :
                 Led!Waiting(calls)[i].saved.state.ccd[Self] = Owed(Led!Waiting(calls), i - 1)
           /\ Sales!Top.saved.state.ccd[Self] = Owed(Led!Waiting(calls), Len(calls) - 1)
<1> DEFINE w == Led!Waiting(calls)
           n == Len(calls)
<1>1. calls \in Seq(SaleFrames)
  BY DEF SaleInv
<1>2. /\ w \in Seq(SaleFrames) /\ Len(w) = n - 1
      /\ \A i \in 1 .. (n - 1) : w[i] = calls[i]
      /\ n \in Nat \ {0} /\ calls[n] \in SaleFrames
  BY <1>1, Pops
<1>3. /\ Owed(calls, n) = Owed(w, n - 1) + calls[n].amount
      /\ \A i \in 1 .. n : Owed(w, i - 1) = Owed(calls, i - 1)
  BY <1>1, OwedPopped
<1>4. \A i \in 1 .. n : calls[i].saved.state.ccd[Self] = Owed(calls, i - 1)
  BY DEF SaleInv
<1> HIDE DEF w
<1>5. \A i \in 1 .. (n - 1) : w[i].saved.state.ccd[Self] = Owed(w, i - 1)
  BY <1>2, <1>3, <1>4
<1>6. calls[n].saved.state.ccd[Self] = Owed(w, n - 1)
  BY <1>2, <1>3, <1>4
<1> QED
  BY <1>2, <1>3, <1>5, <1>6 DEF Sales!Top, Sales!Waiting, Led!Waiting, w

LEMMA SaleAnswered ==
    ASSUME SaleInv, NEW weather, Sales!contract_bought_icecream(weather)
    PROVE  SaleInv'
<1> DEFINE n == Len(calls)
           w == Led!Waiting(calls)
           e == Sales!Top
<1>1. calls # <<>> /\ state' = Sales!Settled(state, e.invoker, e.vendor, e.amount, weather)
      /\ calls' = Sales!Waiting(calls) /\ seen' = seen
  BY DEF Sales!contract_bought_icecream
<1>2. /\ n \in Nat \ {0} /\ e \in SaleFrames
      /\ calls' = w /\ Len(w) = n - 1 /\ w \in Seq(SaleFrames)
      /\ Owed(calls, n) = Owed(w, n - 1) + e.amount
      /\ \A i \in 1 .. (n - 1) : w[i].saved.state.ccd[Self] = Owed(w, i - 1)
  BY <1>1, SaleTop
<1> HIDE DEF w, e
<1>3. state' \in SaleStates /\ state'.ccd[Self] = state.ccd[Self] - e.amount
  BY <1>1, <1>2, SaleSettled DEF SaleFrames, SaleInv
<1>4. Owed(w, n - 1) \in Int /\ e.amount \in Int
  <2>1. \A i \in 1 .. (n - 1) : w[i] \in SaleFrames
    BY <1>2, ElementOfSeq
  <2>2. \A i \in 1 .. (n - 1) : [j \in 1 .. (n - 1) |-> w[j].amount][i] \in Int
    BY <2>1 DEF SaleFrames
  <2>3. n - 1 \in Nat
    BY <1>2
  <2> QED
    BY <1>2, <2>2, <2>3, SumToNat DEF SaleFrames, Owed
<1>5. state.ccd[Self] = Owed(calls, n)
  BY DEF SaleInv
<1>6. state'.ccd[Self] = Owed(w, n - 1)
  BY <1>2, <1>3, <1>4, <1>5
<1> QED
  BY <1>1, <1>2, <1>3, <1>6 DEF SaleInv

LEMMA SaleRejected ==
    ASSUME SaleInv, Sales!HookRejects
    PROVE  SaleInv'
<1>1. calls # <<>> /\ state' = Sales!Top.saved.state /\ seen' = Sales!Top.saved.seen
      /\ calls' = Sales!Waiting(calls)
  BY DEF Sales!HookRejects, Sales!Rejects
<1>2. Sales!Top.saved.state \in SaleStates /\ Sales!Top.saved.seen = None
  BY <1>1, SaleTop DEF SaleFrames
<1> QED
  BY <1>1, <1>2, SaleTop DEF SaleInv

LEMMA SaleNext == ASSUME SaleInv, Sales!Next PROVE SaleInv'
<1>1. ASSUME NEW sender \in Partners \cup Contracts,
             \/ \E service \in Contracts \cup {Weather} :
                   Sales!contract_replace_weather_service(sender, service)
             \/ \E weather \in {"Rainy", "Sunny"} : Sales!weather_set(sender, weather)
      PROVE  SaleInv'
  <2>1. /\ state' \in SaleStates /\ state'.ccd = state.ccd /\ seen' = seen /\ calls' = calls
    BY <1>1 DEF Sales!contract_replace_weather_service, Sales!weather_set, Sales!Quietly,
                SaleInv, SaleStates
  <2> QED
    BY <2>1 DEF SaleInv
<1> QED
  BY <1>1, SaleBought, SaleAnswered, SaleRejected DEF Sales!Next, Sales!Addresses

(* The sum of the property is this one. *)
LEMMA SaleFundsAccounted == SaleInv => Sales!FundsAccounted
<1> SUFFICES ASSUME SaleInv PROVE Sales!FundsAccounted
  OBVIOUS
<1> DEFINE n == Len(calls)
           f == [i \in 1 .. n |-> calls[i].amount]
<1>1. DOMAIN calls = 1 .. n
  BY DEF SaleInv
<1>2. Sales!SumFunction(f) = SumOf(f, DOMAIN f)
  BY DEF Sales!SumFunction, Sales!SumFunctionOnSet, Sales!FoldFunctionOnSet, Sales!MapThenFoldSet,
         SumOf, Adds
<1>3. DOMAIN f = 1 .. n /\ [j \in 1 .. n |-> f[j]] = f
  OBVIOUS
<1> HIDE DEF f
<1>4. state.ccd[Self] = SumOf(f, 1 .. n)
  BY <1>3 DEF SaleInv, Owed, SumTo, f
<1> QED
  BY <1>1, <1>2, <1>3, <1>4 DEF Sales!FundsAccounted, f

-----------------------------------------------------------------------------
(* factory *)

FactoryStates ==
    [next_product : Nat, products : [0 .. (MaxProducts - 1) -> DOMAIN Products \cup {None}],
     product_state : [DOMAIN Products -> ProductRecords \cup {None}]]

\* A product says that it is the factory's with this number.
Says(s, p, i) == s.product_state[p] = [factory |-> Self, index |-> i]

FactoryInv ==
    /\ state \in FactoryStates
    /\ \A i \in 0 .. (MaxProducts - 1) : i < state.next_product <=> state.products[i] # None
    /\ \A i \in 0 .. (MaxProducts - 1), p \in DOMAIN Products :
          i < state.next_product => (state.products[i] = p <=> Says(state, p, i))
    /\ \A i \in Nat, p \in DOMAIN Products : Says(state, p, i) => i < state.next_product
    /\ state.next_product <= MaxProducts

LEMMA FactoryInit == Making!Init => FactoryInv
<1> SUFFICES ASSUME Making!Init PROVE FactoryInv
  OBVIOUS
<1>1. state = [next_product  |-> 0,
               products      |-> [i \in 0 .. (MaxProducts - 1) |-> None],
               product_state |-> [p \in DOMAIN Products |-> None]]
  BY DEF Making!Init
<1>2. state \in FactoryStates
  BY <1>1 DEF FactoryStates
<1>3. \A i \in Nat, p \in DOMAIN Products : ~ Says(state, p, i)
  <2>1. \A i \in Nat : [factory |-> Self, index |-> i] # None
    BY NoneAssumption DEF ProductRecords
  <2> QED
    BY <1>1, <2>1 DEF Says
<1>4. MaxProducts \in Nat /\ state.next_product = 0
      /\ \A i \in 0 .. (MaxProducts - 1) : state.products[i] = None
  BY <1>1, AmountAssumption
<1>5. \A i \in 0 .. (MaxProducts - 1) : ~ (i < 0)
  OBVIOUS
<1> QED
  BY <1>2, <1>3, <1>4, <1>5 DEF FactoryInv

LEMMA FactoryProduce ==
    ASSUME FactoryInv, NEW invoker \in Accounts, NEW p \in DOMAIN Products, Making!produce(invoker, p)
    PROVE  FactoryInv'
<1> DEFINE n == state.next_product
           r == [factory |-> Self, index |-> n]
<1>1. /\ state \in FactoryStates /\ n \in Nat /\ n < MaxProducts /\ state.product_state[p] = None
      /\ MaxProducts \in Nat
  BY AmountAssumption DEF FactoryInv, FactoryStates, Making!produce, Making!may_initialize
<1>2. state' = [[state EXCEPT !.next_product = n + 1, !.products[n] = p]
                  EXCEPT !.product_state[p] = r]
  BY <1>1 DEF Making!produce, Making!initialize, FactoryStates
<1>3. r \in ProductRecords /\ None \notin ProductRecords /\ None \notin DOMAIN Products
  BY <1>1, NoneAssumption DEF ProductRecords
<1> HIDE DEF r, n
<1>4. /\ state'.next_product = n + 1
      /\ state'.products = [state.products EXCEPT ![n] = p]
      /\ state'.product_state = [state.product_state EXCEPT ![p] = r]
      /\ state' \in FactoryStates
  <2> DEFINE ps == [state.products EXCEPT ![n] = p]
             k == n + 1
             m == [state EXCEPT !.next_product = k, !.products = ps]
  <2>1. m = [state EXCEPT !.next_product = n + 1, !.products[n] = p]
    BY <1>1 DEF FactoryStates
  <2>2. ps \in [0 .. (MaxProducts - 1) -> DOMAIN Products \cup {None}]
    BY <1>1 DEF FactoryStates
  <2>3. k \in Nat
    BY <1>1
  <2> HIDE DEF ps, k
  <2>4. m \in FactoryStates /\ m.next_product = k /\ m.products = ps
        /\ m.product_state = state.product_state
    BY <1>1, <2>2, <2>3 DEF FactoryStates
  <2> HIDE DEF m
  <2>5. state' = [m EXCEPT !.product_state[p] = r]
    BY <1>2, <2>1
  <2> QED
    BY <1>3, <2>4, <2>5 DEF FactoryStates, ps, k
<1>5. /\ \A i \in 0 .. (MaxProducts - 1) : state'.products[i] = IF i = n THEN p ELSE state.products[i]
      /\ \A q \in DOMAIN Products :
            state'.product_state[q] = IF q = p THEN r ELSE state.product_state[q]
  BY <1>1, <1>4 DEF FactoryStates
<1>6. \A i \in 0 .. (MaxProducts - 1) : i < n + 1 <=> state'.products[i] # None
  <2>1. \A i \in 0 .. (MaxProducts - 1) : i < n <=> state.products[i] # None
    BY DEF FactoryInv, n
  <2>2. \A i \in 0 .. (MaxProducts - 1) : i < n + 1 <=> (i < n \/ i = n)
    BY <1>1
  <2>3. p # None
    BY <1>3
  <2> QED
    BY <1>5, <2>1, <2>2, <2>3
<1>7. \A i \in Nat : ~ Says(state, p, i)
  <2>1. \A i \in Nat : [factory |-> Self, index |-> i] \in ProductRecords
    BY DEF ProductRecords
  <2> QED
    BY <1>1, <1>3, <2>1 DEF Says
<1>8. \A i \in Nat, q \in DOMAIN Products :
         Says(state, q, i)' <=> IF q = p THEN i = n ELSE Says(state, q, i)
  <2>1. \A i \in Nat : r = [factory |-> Self, index |-> i] <=> i = n
    BY <1>1 DEF r
  <2> QED
    BY <1>5, <2>1 DEF Says
<1>9. ASSUME NEW i \in 0 .. (MaxProducts - 1), NEW q \in DOMAIN Products, i < n + 1
      PROVE  state'.products[i] = q <=> Says(state, q, i)'
  <2>1. CASE i = n
    <3>1. ~ Says(state, q, n)
      BY <1>1 DEF FactoryInv, n
    <3> QED
      BY <1>1, <1>5, <1>8, <2>1, <3>1
  <2>2. CASE i < n
    <3>1. state.products[i] = q <=> Says(state, q, i)
      BY <2>2 DEF FactoryInv, n
    <3>2. i \in Nat /\ i # n
      BY <1>1, <2>2
    <3> QED
      BY <1>5, <1>7, <1>8, <3>1, <3>2
  <2> QED
    BY <1>1, <1>9, <2>1, <2>2
<1>10. \A i \in Nat, q \in DOMAIN Products : Says(state, q, i)' => i < n + 1
  <2>1. \A i \in Nat, q \in DOMAIN Products : Says(state, q, i) => i < n
    BY DEF FactoryInv, n
  <2> QED
    BY <1>1, <1>8, <2>1
<1>11. n + 1 <= MaxProducts
  BY <1>1
<1> QED
  BY <1>4, <1>6, <1>9, <1>10, <1>11 DEF FactoryInv

LEMMA FactoryOther ==
    ASSUME FactoryInv, NEW invoker \in Accounts, NEW p \in DOMAIN Products, NEW other \in Contracts,
           NEW index \in {0, 1}, Making!initialize_by_other(invoker, other, p, index)
    PROVE  FactoryInv'
<1> DEFINE r == [factory |-> other, index |-> index]
<1>1. state \in FactoryStates /\ state.product_state[p] = None
  BY DEF FactoryInv, Making!initialize_by_other, Making!may_initialize
<1>2. state' = [state EXCEPT !.product_state[p] = r]
  BY DEF Making!initialize_by_other, Making!initialize
<1>3. r \in ProductRecords /\ None \notin ProductRecords
  BY NoneAssumption DEF ProductRecords
<1>4. \A i \in Nat : r # [factory |-> Self, index |-> i]
  BY AddressAssumption DEF Addresses
<1> HIDE DEF r
<1>5. /\ state'.next_product = state.next_product
      /\ state'.products = state.products
      /\ state'.product_state = [state.product_state EXCEPT ![p] = r]
      /\ state' \in FactoryStates
  BY <1>1, <1>2, <1>3 DEF FactoryStates
<1>6. \A q \in DOMAIN Products :
            state'.product_state[q] = IF q = p THEN r ELSE state.product_state[q]
  BY <1>1, <1>5 DEF FactoryStates
<1>7. \A i \in Nat : ~ Says(state, p, i)
  <2>1. \A i \in Nat : [factory |-> Self, index |-> i] \in ProductRecords
    BY DEF ProductRecords
  <2> QED
    BY <1>1, <1>3, <2>1 DEF Says
<1>8. \A i \in Nat, q \in DOMAIN Products : Says(state, q, i)' <=> Says(state, q, i)
  BY <1>4, <1>6, <1>7 DEF Says
<1>9. \A i \in 0 .. (MaxProducts - 1) : i \in Nat
  OBVIOUS
<1> QED
  BY <1>5, <1>8, <1>9 DEF FactoryInv

LEMMA FactoryNext == ASSUME FactoryInv, Making!Next PROVE FactoryInv'
  BY FactoryProduce, FactoryOther DEF Making!Next

LEMMA FactoryListed == FactoryInv => Making!ProductsListed
<1> SUFFICES ASSUME FactoryInv PROVE Making!ProductsListed
  OBVIOUS
<1>1. /\ DOMAIN state.products = 0 .. (MaxProducts - 1) /\ state.next_product \in Nat
      /\ state.next_product <= MaxProducts /\ MaxProducts \in Nat
  BY AmountAssumption DEF FactoryInv, FactoryStates
<1>2. \A i \in 0 .. (state.next_product - 1) : i \in 0 .. (MaxProducts - 1) /\ i < state.next_product
  BY <1>1
<1> QED
  BY <1>1, <1>2 DEF FactoryInv, Says, Making!ProductsListed, Making!view_product_count, Making!view_product

-----------------------------------------------------------------------------
(* cis5-smart-contract-wallet *)

Coffers == [Wallet!Currencies -> [PublicKeys -> Nat \cup {None}]]
Treasuries == [Wallet!Currencies -> Holdings(Among)]
KeyBalances == [Wallet!Currencies -> [PublicKeys -> Int]]

WalletStates ==
    [balances : Coffers, nonces_registry : [PublicKeys -> Nat],
     implementors : WalletImplementors \cup {{}}, holdings : Treasuries, now : Nat]

WalletEvents ==
    [balances : KeyBalances, nonces : SUBSET (PublicKeys \X Nat), replayed : BOOLEAN]

FramesFor(entry_points, receivers) ==
    [hook : Contracts \cup {None}, currency : Wallet!Currencies, entry_point : entry_points,
     messages : Seq(WalletMessages) \ {<<>>}, parts : PartsTo(receivers),
     next : {"sign", "part", "log"}, saved : [state : WalletStates, seen : WalletEvents]]

\* Only a withdrawal that is being made is still to be logged.
WalletFrames ==
    {f \in FramesFor({"transferCcd", "transferCis2Tokens"}, PublicKeys)
             \cup FramesFor({"withdrawCcd", "withdrawCis2Tokens"}, Partners \cup Contracts) :
        f.next = "log" => f.parts # <<>>}

\* What the keys have together
KeysHave(s, c) == SumOf([k \in PublicKeys |-> Wallet!balance(s, c, k)], PublicKeys)

Covered(s) == \A c \in Wallet!Currencies : KeysHave(s, c) = s.holdings[c][Self]

\* What has been debited and not been logged, by one entrypoint and by the first n
Unlogged(f, c, k) ==
    IF f.next = "log" /\ f.currency = c /\ Head(f.messages).signer = k
      THEN Head(f.parts).amount ELSE 0
UnloggedTo(stack, n, c, k) == SumTo([i \in 1 .. n |-> Unlogged(stack[i], c, k)], n)

BalancesTold(s, e, stack, n) ==
    \A c \in Wallet!Currencies, k \in PublicKeys :
        e.balances[c][k] - Wallet!balance(s, c, k) = UnloggedTo(stack, n, c, k)

\* The nonces that are used up: those of the log, and those of the messages that
\* are under way, which are all different.
UsedUp(s, u) == u[2] < s.nonces_registry[u[1]]
UnderWay(f) == f.next \in {"part", "log"}
Uses(f) == <<Head(f.messages).signer, Head(f.messages).nonce>>

NoncesTold(s, e, stack, n) ==
    /\ ~ e.replayed
    /\ \A u \in e.nonces : UsedUp(s, u)
    /\ \A i \in 1 .. n : UnderWay(stack[i])
          => /\ UsedUp(s, Uses(stack[i])) /\ Uses(stack[i]) \notin e.nonces
             /\ \A j \in 1 .. n : UnderWay(stack[j]) /\ j # i => Uses(stack[j]) # Uses(stack[i])

WalletRight(s, e, stack, n) ==
    Covered(s) /\ BalancesTold(s, e, stack, n) /\ NoncesTold(s, e, stack, n)

\* A rejection restores what was right before.
WalletInv ==
    /\ state \in WalletStates /\ seen \in WalletEvents /\ calls \in Seq(WalletFrames)
    /\ WalletRight(state, seen, calls, Len(calls))
    /\ \A i \in 1 .. Len(calls) :
          WalletRight(calls[i].saved.state, calls[i].saved.seen, calls, i - 1)

-----------------------------------------------------------------------------
(* Entrypoints that are under way *)

LEMMA WalletFrame ==
    ASSUME NEW f \in WalletFrames
    PROVE  /\ f.currency \in Wallet!Currencies
           /\ Head(f.messages) \in WalletMessages
           /\ Tail(f.messages) \in Seq(WalletMessages)
           /\ Head(f.messages).signer \in PublicKeys /\ Head(f.messages).nonce \in Nat
           /\ f.next = "log" => Head(f.parts).amount \in Nat
           /\ f.saved.state \in WalletStates /\ f.saved.seen \in WalletEvents
<1>1. /\ f.messages \in Seq(WalletMessages) /\ f.messages # <<>> /\ f.currency \in Wallet!Currencies
      /\ f.saved \in [state : WalletStates, seen : WalletEvents]
      /\ f.next = "log" => f.parts # <<>>
      /\ f.parts \in PartsTo(PublicKeys) \/ f.parts \in PartsTo(Partners \cup Contracts)
  BY DEF WalletFrames, FramesFor
<1>2. Head(f.messages) \in WalletMessages /\ Tail(f.messages) \in Seq(WalletMessages)
  BY <1>1
<1>3. Head(f.messages).signer \in PublicKeys /\ Head(f.messages).nonce \in Nat
  BY <1>2 DEF WalletMessages, MessagesFor
<1>4. ASSUME f.next = "log" PROVE Head(f.parts).amount \in Nat
  <2>1. CASE f.parts \in PartsTo(PublicKeys)
    <3>1. Head(f.parts) \in [to : PublicKeys, amount : Nat]
      BY <1>1, <1>4, <2>1, HeadAndTail DEF PartsTo
    <3> QED
      BY <3>1
  <2>2. CASE f.parts \in PartsTo(Partners \cup Contracts)
    <3>1. Head(f.parts) \in [to : Partners \cup Contracts, amount : Nat]
      BY <1>1, <1>4, <2>2, HeadAndTail DEF PartsTo
    <3> QED
      BY <3>1
  <2> QED
    BY <1>1, <2>1, <2>2
<1> QED
  BY <1>1, <1>2, <1>3, <1>4

LEMMA UnloggedType ==
    ASSUME NEW f \in WalletFrames, NEW c, NEW k
    PROVE  Unlogged(f, c, k) \in Int
  BY WalletFrame DEF Unlogged

LEMMA UnloggedSame ==
    ASSUME NEW n, NEW s, NEW t, \A i \in 1 .. n : s[i] = t[i], NEW c, NEW k
    PROVE  UnloggedTo(s, n, c, k) = UnloggedTo(t, n, c, k)
<1>1. [i \in 1 .. n |-> Unlogged(s[i], c, k)] = [i \in 1 .. n |-> Unlogged(t[i], c, k)]
  OBVIOUS
<1> QED
  BY <1>1 DEF UnloggedTo

LEMMA UnloggedNext ==
    ASSUME NEW n \in Nat, NEW s, \A i \in 1 .. (n + 1) : s[i] \in WalletFrames, NEW c, NEW k
    PROVE  /\ UnloggedTo(s, n + 1, c, k) = UnloggedTo(s, n, c, k) + Unlogged(s[n + 1], c, k)
           /\ UnloggedTo(s, n, c, k) \in Int
<1> DEFINE f == [i \in 1 .. (n + 1) |-> Unlogged(s[i], c, k)]
           g == [i \in 1 .. n |-> Unlogged(s[i], c, k)]
<1>1. /\ \A j \in 1 .. (n + 1) : f[j] \in Int
      /\ \A j \in 1 .. n : g[j] = f[j] /\ g[j] \in Int
      /\ f[n + 1] = Unlogged(s[n + 1], c, k)
  BY UnloggedType
<1> HIDE DEF f, g
<1>2. SumTo(f, n + 1) = SumTo(f, n) + f[n + 1]
  BY <1>1, SumToNext
<1>3. SumTo(g, n) = SumTo(f, n) /\ SumTo(g, n) \in Int
  BY <1>1, SumToSame, SumToNat
<1> QED
  BY <1>1, <1>2, <1>3 DEF UnloggedTo, f, g

(* What is right is about the entrypoints in question, *)
LEMMA RightSame ==
    ASSUME NEW s, NEW e, NEW v, NEW w, NEW n, \A i \in 1 .. n : v[i] = w[i],
           WalletRight(s, e, v, n)
    PROVE  WalletRight(s, e, w, n)
<1>1. BalancesTold(s, e, w, n)
  BY UnloggedSame DEF WalletRight, BalancesTold
<1>2. NoncesTold(s, e, w, n)
  BY DEF WalletRight, NoncesTold
<1> QED
  BY <1>1, <1>2 DEF WalletRight

(* and of the one on top, *)
TopTold(s, e, stack, n, f) ==
    /\ \A c \in Wallet!Currencies, k \in PublicKeys :
          e.balances[c][k] - Wallet!balance(s, c, k)
            = UnloggedTo(stack, n, c, k) + Unlogged(f, c, k)
    /\ NoncesTold(s, e, stack, n)
    /\ UnderWay(f)
         => /\ UsedUp(s, Uses(f)) /\ Uses(f) \notin e.nonces
            /\ \A j \in 1 .. n : UnderWay(stack[j]) => Uses(stack[j]) # Uses(f)

LEMMA RightTop ==
    ASSUME NEW s, NEW e, NEW n \in Nat, NEW stack,
           \A i \in 1 .. (n + 1) : stack[i] \in WalletFrames
    PROVE  WalletRight(s, e, stack, n + 1) <=> Covered(s) /\ TopTold(s, e, stack, n, stack[n + 1])
<1>1. BalancesTold(s, e, stack, n + 1)
        <=> \A c \in Wallet!Currencies, k \in PublicKeys :
              e.balances[c][k] - Wallet!balance(s, c, k)
                = UnloggedTo(stack, n, c, k) + Unlogged(stack[n + 1], c, k)
  BY UnloggedNext DEF BalancesTold
<1>2. /\ \A i \in 1 .. n : i \in 1 .. (n + 1) /\ i # n + 1
      /\ n + 1 \in 1 .. (n + 1)
      /\ \A i \in 1 .. (n + 1) : i = n + 1 \/ i \in 1 .. n
  OBVIOUS
<1>3. NoncesTold(s, e, stack, n + 1)
        <=> /\ NoncesTold(s, e, stack, n)
            /\ UnderWay(stack[n + 1])
                 => /\ UsedUp(s, Uses(stack[n + 1])) /\ Uses(stack[n + 1]) \notin e.nonces
                    /\ \A j \in 1 .. n : UnderWay(stack[j]) => Uses(stack[j]) # Uses(stack[n + 1])
  BY <1>2 DEF NoncesTold
<1> QED
  BY <1>1, <1>3 DEF WalletRight, TopTold

LEMMA ToldSame ==
    ASSUME NEW s, NEW e, NEW v, NEW w, NEW n, \A i \in 1 .. n : v[i] = w[i], NEW f,
           TopTold(s, e, v, n, f)
    PROVE  TopTold(s, e, w, n, f)
<1>1. NoncesTold(s, e, w, n)
  BY DEF TopTold, NoncesTold
<1>2. \A c, k : UnloggedTo(v, n, c, k) = UnloggedTo(w, n, c, k)
  BY UnloggedSame
<1> QED
  BY <1>1, <1>2 DEF TopTold

(* The entrypoint on top *)
LEMMA WalletTop ==
    ASSUME WalletInv, calls # <<>>
    PROVE  /\ Len(calls) \in Nat \ {0} /\ Wallet!Top \in WalletFrames
           /\ Wallet!Waiting(calls) = Led!Waiting(calls)
           /\ Led!Waiting(calls) \in Seq(WalletFrames) /\ Len(Led!Waiting(calls)) = Len(calls) - 1
           /\ \A i \in 1 .. (Len(calls) - 1) :
                 WalletRight(Led!Waiting(calls)[i].saved.state, Led!Waiting(calls)[i].saved.seen,
                             Led!Waiting(calls), i - 1)
           /\ WalletRight(Wallet!Top.saved.state, Wallet!Top.saved.seen, Led!Waiting(calls),
                          Len(calls) - 1)
           /\ Covered(state)
           /\ TopTold(state, seen, Led!Waiting(calls), Len(calls) - 1, Wallet!Top)
<1> DEFINE w == Led!Waiting(calls)
           n == Len(calls) - 1
<1>1. calls \in Seq(WalletFrames)
  BY DEF WalletInv
<1>2. /\ w \in Seq(WalletFrames) /\ Len(w) = n
      /\ \A i \in 1 .. n : w[i] = calls[i]
      /\ Len(calls) \in Nat \ {0} /\ calls[Len(calls)] \in WalletFrames
  BY <1>1, Pops
<1>3. n \in Nat /\ Len(calls) = n + 1
  BY <1>2
<1>4. Wallet!Top = calls[n + 1] /\ Wallet!Waiting(calls) = w
  BY <1>3 DEF Wallet!Top, Wallet!Waiting, Led!Waiting
<1>5. \A i \in 1 .. (n + 1) : calls[i] \in WalletFrames
  BY <1>1, <1>3, ElementOfSeq
<1> HIDE DEF w, n
<1>6. \A i \in 1 .. (n + 1) : WalletRight(calls[i].saved.state, calls[i].saved.seen, w, i - 1)
  <2> TAKE i \in 1 .. (n + 1)
  <2>1. WalletRight(calls[i].saved.state, calls[i].saved.seen, calls, i - 1)
    BY <1>3 DEF WalletInv
  <2>2. \A j \in 1 .. (i - 1) : calls[j] = w[j]
    BY <1>2, <1>3
  <2> QED
    BY <2>1, <2>2, RightSame
<1>7. \A i \in 1 .. n : WalletRight(w[i].saved.state, w[i].saved.seen, w, i - 1)
  BY <1>2, <1>3, <1>6
<1>8. WalletRight(calls[n + 1].saved.state, calls[n + 1].saved.seen, w, n)
  <2>1. n + 1 \in 1 .. (n + 1) /\ (n + 1) - 1 = n
    BY <1>3
  <2> QED
    BY <1>6, <2>1
<1>9. Covered(state) /\ TopTold(state, seen, calls, n, calls[n + 1])
  <2>1. WalletRight(state, seen, calls, n + 1)
    BY <1>3 DEF WalletInv
  <2> QED
    BY <1>3, <1>5, <2>1, RightTop
<1>10. TopTold(state, seen, w, n, calls[n + 1])
  BY <1>2, <1>9, ToldSame
<1> QED
  BY <1>2, <1>3, <1>4, <1>7, <1>8, <1>9, <1>10 DEF w, n

(* An entrypoint ends, or another contract rejects it, *)
LEMMA WalletPopped ==
    ASSUME WalletInv, calls # <<>>, calls' = Led!Waiting(calls),
           state' \in WalletStates, seen' \in WalletEvents,
           WalletRight(state', seen', Led!Waiting(calls), Len(calls) - 1)
    PROVE  WalletInv'
  BY WalletTop DEF WalletInv

(* goes on, *)
LEMMA WalletGoesOn ==
    ASSUME WalletInv, calls # <<>>, NEW g \in WalletFrames, g.saved = Wallet!Top.saved,
           calls' = Append(Led!Waiting(calls), g),
           state' \in WalletStates, seen' \in WalletEvents, Covered(state'),
           TopTold(state', seen', Led!Waiting(calls), Len(calls) - 1, g)
    PROVE  WalletInv'
<1> DEFINE w == Led!Waiting(calls)
           n == Len(calls) - 1
<1>1. /\ w \in Seq(WalletFrames) /\ Len(w) = n /\ Len(calls) \in Nat \ {0}
      /\ \A i \in 1 .. n : WalletRight(w[i].saved.state, w[i].saved.seen, w, i - 1)
      /\ WalletRight(g.saved.state, g.saved.seen, w, n)
  BY WalletTop
<1> HIDE DEF w
<1>2. /\ calls' \in Seq(WalletFrames) /\ Len(calls') = n + 1 /\ calls'[n + 1] = g
      /\ \A i \in 1 .. n : calls'[i] = w[i]
      /\ n \in Nat
  <2>1. calls' = Append(w, g)
    BY DEF w
  <2> QED
    BY <1>1, <2>1, Pushes
<1>3. \A i \in 1 .. (n + 1) : calls'[i] \in WalletFrames
  BY <1>2, ElementOfSeq
<1>4. TopTold(state', seen', calls', n, calls'[n + 1])
  <2>1. TopTold(state', seen', w, n, g)
    BY DEF w
  <2>2. \A i \in 1 .. n : w[i] = calls'[i]
    BY <1>2
  <2>3. TopTold(state', seen', calls', n, g)
    <3> HIDE DEF n
    <3> QED
      BY <2>1, <2>2, ToldSame
  <2> QED
    BY <1>2, <2>3
<1>5. WalletRight(state', seen', calls', n + 1)
  BY <1>2, <1>3, <1>4, RightTop
<1>6. ASSUME NEW i \in 1 .. (n + 1)
      PROVE  WalletRight(calls'[i].saved.state, calls'[i].saved.seen, calls', i - 1)
  <2>1. \A j \in 1 .. (i - 1) : w[j] = calls'[j]
    <3> HIDE DEF n
    <3>1. i - 1 <= n /\ \A j \in 1 .. (i - 1) : j \in 1 .. n
      BY <1>2
    <3> QED
      BY <1>2, <3>1
  <2>2. WalletRight(calls'[i].saved.state, calls'[i].saved.seen, w, i - 1)
    <3>1. CASE i \in 1 .. n
      BY <1>1, <1>2, <3>1
    <3>2. CASE i = n + 1
      BY <1>1, <1>2, <3>2
    <3> QED
      BY <1>2, <3>1, <3>2
  <2> QED
    BY <2>1, <2>2, RightSame
<1> QED
  BY <1>2, <1>5, <1>6 DEF WalletInv

(* or begins. *)
LEMMA WalletPushed ==
    ASSUME WalletInv, NEW f \in WalletFrames, f.next = "sign",
           f.saved = [state |-> state, seen |-> seen],
           calls' = Append(calls, f), state' = state, seen' = seen
    PROVE  WalletInv'
<1> DEFINE n == Len(calls)
<1>1. /\ calls' \in Seq(WalletFrames) /\ Len(calls') = n + 1 /\ calls'[n + 1] = f /\ n \in Nat
      /\ \A i \in 1 .. n : calls'[i] = calls[i]
  BY Pushes DEF WalletInv
<1>2. \A i \in 1 .. (n + 1) : calls'[i] \in WalletFrames
  BY <1>1, ElementOfSeq
<1>3. WalletRight(state, seen, calls', n)
  BY <1>1, RightSame DEF WalletInv
<1>4. WalletRight(state, seen, calls', n + 1)
  <2>1. BalancesTold(state, seen, calls', n) /\ NoncesTold(state, seen, calls', n) /\ Covered(state)
    BY <1>3 DEF WalletRight
  <2>2. \A c, k : Unlogged(f, c, k) = 0
    BY DEF Unlogged
  <2>3. \A c, k : UnloggedTo(calls', n, c, k) + Unlogged(f, c, k) = UnloggedTo(calls', n, c, k)
    <3> TAKE c, k
    <3>1. UnloggedTo(calls', n, c, k) \in Int
      <4> HIDE DEF n
      <4> QED
        BY <1>1, <1>2, UnloggedNext
    <3> QED
      BY <2>2, <3>1
  <2>4. ~ UnderWay(f)
    BY DEF UnderWay
  <2>5. TopTold(state, seen, calls', n, f)
    BY <2>1, <2>3, <2>4 DEF TopTold, BalancesTold
  <2> QED
    BY <1>1, <1>2, <2>1, <2>5, RightTop
<1>5. ASSUME NEW i \in 1 .. (n + 1)
      PROVE  WalletRight(calls'[i].saved.state, calls'[i].saved.seen, calls', i - 1)
  <2>1. CASE i \in 1 .. n
    <3>1. WalletRight(calls[i].saved.state, calls[i].saved.seen, calls, i - 1)
      BY <2>1 DEF WalletInv
    <3>2. \A j \in 1 .. (i - 1) : calls[j] = calls'[j]
      BY <1>1, <2>1
    <3>3. WalletRight(calls[i].saved.state, calls[i].saved.seen, calls', i - 1)
      BY <3>1, <3>2, RightSame
    <3> QED
      BY <1>1, <2>1, <3>3
  <2>2. CASE i = n + 1
    <3>1. i - 1 = n /\ calls'[i] = f
      BY <1>1, <2>2
    <3> QED
      BY <1>3, <3>1
  <2> QED
    BY <1>1, <2>1, <2>2
<1>6. state' \in WalletStates /\ seen' \in WalletEvents
  BY DEF WalletInv
<1>7. WalletRight(state', seen', calls', Len(calls'))
  BY <1>1, <1>4
<1> QED
  BY <1>1, <1>5, <1>6, <1>7 DEF WalletInv

-----------------------------------------------------------------------------
(* What a step changes *)

LEMMA WalletParts ==
    ASSUME NEW s \in WalletStates
    PROVE  /\ s.balances \in Coffers /\ s.nonces_registry \in [PublicKeys -> Nat]
           /\ s.implementors \in WalletImplementors \cup {{}}
           /\ s.holdings \in Treasuries /\ s.now \in Nat
           /\ \A c \in Wallet!Currencies, k \in PublicKeys :
                 s.balances[c][k] \in Nat \cup {None} /\ Wallet!balance(s, c, k) \in Nat
           /\ \A c \in Wallet!Currencies : KeysHave(s, c) \in Nat
<1>1. /\ s.balances \in Coffers /\ s.nonces_registry \in [PublicKeys -> Nat]
      /\ s.implementors \in WalletImplementors \cup {{}}
      /\ s.holdings \in Treasuries /\ s.now \in Nat
  BY DEF WalletStates
<1>2. ASSUME NEW c \in Wallet!Currencies, NEW k \in PublicKeys
      PROVE  s.balances[c][k] \in Nat \cup {None} /\ Wallet!balance(s, c, k) \in Nat
  BY <1>1 DEF Coffers, Wallet!balance
<1>3. ASSUME NEW c \in Wallet!Currencies
      PROVE  KeysHave(s, c) \in Nat
  <2>1. [k \in PublicKeys |-> Wallet!balance(s, c, k)] \in [PublicKeys -> Nat]
    BY <1>2
  <2> QED
    BY <2>1, SumOfNat, MessageAssumption DEF KeysHave
<1> QED
  BY <1>1, <1>2, <1>3

(* Another balance of a key *)
LEMMA BalanceSet ==
    ASSUME NEW s \in WalletStates, NEW c \in Wallet!Currencies, NEW k \in PublicKeys, NEW b \in Nat
    PROVE  /\ Wallet!Balanced(s, c, k, b) \in WalletStates
           /\ Wallet!Balanced(s, c, k, b).nonces_registry = s.nonces_registry
           /\ Wallet!Balanced(s, c, k, b).holdings = s.holdings
           /\ \A x \in Wallet!Currencies, y \in PublicKeys :
                 Wallet!balance(Wallet!Balanced(s, c, k, b), x, y)
                   = IF x = c /\ y = k THEN b ELSE Wallet!balance(s, x, y)
           /\ \A x \in Wallet!Currencies :
                 KeysHave(Wallet!Balanced(s, c, k, b), x)
                   = IF x = c THEN KeysHave(s, c) + (b - Wallet!balance(s, c, k)) ELSE KeysHave(s, x)
<1> DEFINE q == [s.balances[c] EXCEPT ![k] = b]
           r == [s.balances EXCEPT ![c] = q]
           t == Wallet!Balanced(s, c, k, b)
<1>1. s.balances \in Coffers
  BY WalletParts
<1>2. s.balances[c] \in [PublicKeys -> Nat \cup {None}]
  BY <1>1 DEF Coffers
<1>3. /\ q \in [PublicKeys -> Nat \cup {None}] /\ q[k] = b
      /\ \A y \in PublicKeys : y # k => q[y] = s.balances[c][y]
  BY <1>2
<1>4. t = [s EXCEPT !.balances = r]
  BY DEF Wallet!Balanced
<1> HIDE DEF q
<1>5. /\ r \in Coffers /\ r[c] = q
      /\ \A x \in Wallet!Currencies : x # c => r[x] = s.balances[x]
  BY <1>1, <1>3 DEF Coffers
<1> HIDE DEF r, t
<1>6. /\ t \in WalletStates /\ t.balances = r
      /\ t.nonces_registry = s.nonces_registry /\ t.holdings = s.holdings
  BY <1>4, <1>5 DEF WalletStates
<1>7. ASSUME NEW x \in Wallet!Currencies, NEW y \in PublicKeys
      PROVE  Wallet!balance(t, x, y) = IF x = c /\ y = k THEN b ELSE Wallet!balance(s, x, y)
  <2>1. CASE x = c /\ y = k
    <3>1. t.balances[x][y] = b /\ b # None
      BY <1>3, <1>5, <1>6, <2>1, NoneAssumption
    <3> QED
      BY <2>1, <3>1 DEF Wallet!balance
  <2>2. CASE ~ (x = c /\ y = k)
    <3>1. t.balances[x][y] = s.balances[x][y]
      BY <1>3, <1>5, <1>6, <2>2
    <3> QED
      BY <2>2, <3>1 DEF Wallet!balance
  <2> QED
    BY <2>1, <2>2
<1>8. ASSUME NEW x \in Wallet!Currencies
      PROVE  KeysHave(t, x)
               = IF x = c THEN KeysHave(s, c) + (b - Wallet!balance(s, c, k)) ELSE KeysHave(s, x)
  <2> DEFINE f == [y \in PublicKeys |-> Wallet!balance(s, x, y)]
             g == [y \in PublicKeys |-> Wallet!balance(t, x, y)]
  <2>1. /\ f \in [PublicKeys -> Int] /\ g \in [PublicKeys -> Int]
        /\ f[k] = Wallet!balance(s, x, k) /\ g[k] = Wallet!balance(t, x, k)
        /\ \A y \in PublicKeys : y # k => g[y] = f[y]
    BY <1>6, <1>7, WalletParts
  <2>2. KeysHave(t, x) = SumOf(g, PublicKeys) /\ KeysHave(s, x) = SumOf(f, PublicKeys)
    BY DEF KeysHave
  <2>3. CASE x = c
    <3> HIDE DEF f, g
    <3>1. SumOf(g, PublicKeys) = SumOf(f, PublicKeys) + (g[k] - f[k])
      BY <2>1, SumOfChange, MessageAssumption
    <3> QED
      BY <1>7, <2>1, <2>2, <2>3, <3>1
  <2>4. CASE x # c
    <3>1. f = g
      BY <1>7, <2>4
    <3> QED
      BY <2>2, <2>4, <3>1
  <2> QED
    BY <2>3, <2>4
<1> QED
  BY <1>6, <1>7, <1>8 DEF t

(* Other holdings of the wallet and of somebody else *)
LEMMA HoldingsSet ==
    ASSUME NEW s \in WalletStates, NEW c \in Wallet!Currencies, NEW from \in Among,
           NEW to \in Among, from # to, NEW amount \in Nat
    PROVE  /\ Wallet!Held(s, c, from, to, amount) \in WalletStates
           /\ Wallet!Held(s, c, from, to, amount).nonces_registry = s.nonces_registry
           /\ Wallet!Held(s, c, from, to, amount).balances = s.balances
           /\ \A x \in Wallet!Currencies :
                 Wallet!Held(s, c, from, to, amount).holdings[x]
                   = IF x = c THEN Led!Given(s.holdings[c], from, to, amount) ELSE s.holdings[x]
<1> DEFINE g == Led!Given(s.holdings[c], from, to, amount)
           r == [s.holdings EXCEPT ![c] = g]
           t == Wallet!Held(s, c, from, to, amount)
<1>1. s.holdings \in Treasuries
  BY WalletParts
<1>2. s.holdings[c] \in Holdings(Among)
  BY <1>1 DEF Treasuries
<1>3. g \in Holdings(Among)
  BY <1>2, GivesOther
<1>4. t = [s EXCEPT !.holdings = r]
  BY DEF Wallet!Held, Wallet!Given, Led!Given
<1> HIDE DEF g
<1>5. r \in Treasuries /\ \A x \in Wallet!Currencies : r[x] = IF x = c THEN g ELSE s.holdings[x]
  BY <1>1, <1>3 DEF Treasuries
<1> HIDE DEF r, t
<1>6. /\ t \in WalletStates /\ t.holdings = r
      /\ t.nonces_registry = s.nonces_registry /\ t.balances = s.balances
  BY <1>4, <1>5 DEF WalletStates
<1> QED
  BY <1>5, <1>6 DEF t, g

LEMMA SameBalances ==
    ASSUME NEW s, NEW t, t.balances = s.balances
    PROVE  /\ \A c, k : Wallet!balance(t, c, k) = Wallet!balance(s, c, k)
           /\ \A c : KeysHave(t, c) = KeysHave(s, c)
<1>1. \A c, k : Wallet!balance(t, c, k) = Wallet!balance(s, c, k)
  BY DEF Wallet!balance
<1> QED
  BY <1>1 DEF KeysHave

(* Another balance in the log *)
LEMMA EventSet ==
    ASSUME NEW e \in WalletEvents, NEW c \in Wallet!Currencies, NEW k \in PublicKeys,
           NEW amount \in Int
    PROVE  /\ Wallet!Credited(e, c, k, amount) \in WalletEvents
           /\ Wallet!Credited(e, c, k, amount).nonces = e.nonces
           /\ Wallet!Credited(e, c, k, amount).replayed = e.replayed
           /\ \A x \in Wallet!Currencies, y \in PublicKeys :
                 Wallet!Credited(e, c, k, amount).balances[x][y]
                   = e.balances[x][y] + IF x = c /\ y = k THEN amount ELSE 0
<1> DEFINE b == e.balances[c][k] + amount
           q == [e.balances[c] EXCEPT ![k] = b]
           r == [e.balances EXCEPT ![c] = q]
           t == Wallet!Credited(e, c, k, amount)
<1>1. e.balances \in KeyBalances
  BY DEF WalletEvents
<1>2. /\ \A x \in Wallet!Currencies : e.balances[x] \in [PublicKeys -> Int]
      /\ \A x \in Wallet!Currencies, y \in PublicKeys : e.balances[x][y] \in Int
  BY <1>1 DEF KeyBalances
<1>3. b \in Int
  BY <1>2
<1>4. t = [e EXCEPT !.balances = r]
  BY DEF Wallet!Credited
<1> HIDE DEF b
<1>5. /\ q \in [PublicKeys -> Int] /\ q[k] = b
      /\ \A y \in PublicKeys : y # k => q[y] = e.balances[c][y]
  BY <1>2, <1>3
<1> HIDE DEF q
<1>6. /\ r \in KeyBalances /\ r[c] = q
      /\ \A x \in Wallet!Currencies : x # c => r[x] = e.balances[x]
  BY <1>1, <1>5 DEF KeyBalances
<1> HIDE DEF r, t
<1>7. t \in WalletEvents /\ t.balances = r /\ t.nonces = e.nonces /\ t.replayed = e.replayed
  BY <1>4, <1>6 DEF WalletEvents
<1>8. ASSUME NEW x \in Wallet!Currencies, NEW y \in PublicKeys
      PROVE  t.balances[x][y] = e.balances[x][y] + IF x = c /\ y = k THEN amount ELSE 0
  <2>1. CASE x = c /\ y = k
    BY <1>5, <1>6, <1>7, <2>1 DEF b
  <2>2. CASE ~ (x = c /\ y = k)
    <3>1. t.balances[x][y] = e.balances[x][y]
      BY <1>5, <1>6, <1>7, <2>2
    <3> QED
      BY <1>2, <2>2, <3>1
  <2> QED
    BY <2>1, <2>2
<1> QED
  BY <1>7, <1>8 DEF t

Affordable(s, c, from, amount) == amount > 0 => Wallet!balance(s, c, from) >= amount

(* What is moved from key to key leaves what they have together as it was, *)
LEMMA MoveKeeps ==
    ASSUME NEW s \in WalletStates, NEW c \in Wallet!Currencies, NEW from \in PublicKeys,
           NEW to \in PublicKeys, NEW amount \in Nat, Affordable(s, c, from, amount)
    PROVE  /\ Wallet!MovedWithin(s, c, from, to, amount) \in WalletStates
           /\ Wallet!MovedWithin(s, c, from, to, amount).nonces_registry = s.nonces_registry
           /\ Wallet!MovedWithin(s, c, from, to, amount).holdings = s.holdings
           /\ \A x \in Wallet!Currencies :
                 KeysHave(Wallet!MovedWithin(s, c, from, to, amount), x) = KeysHave(s, x)
           /\ \A x \in Wallet!Currencies, y \in PublicKeys :
                 Wallet!balance(Wallet!MovedWithin(s, c, from, to, amount), x, y)
                   = Wallet!balance(s, x, y) + (IF x = c /\ y = from THEN -amount ELSE 0)
                                             + (IF x = c /\ y = to THEN amount ELSE 0)
<1>0. /\ \A x \in Wallet!Currencies, y \in PublicKeys : Wallet!balance(s, x, y) \in Nat
      /\ \A x \in Wallet!Currencies : KeysHave(s, x) \in Nat
  BY WalletParts
<1>1. CASE amount = 0
  <2>1. Wallet!MovedWithin(s, c, from, to, amount) = s
    BY <1>1 DEF Wallet!MovedWithin
  <2> QED
    BY <1>0, <1>1, <2>1
<1>2. CASE amount # 0
  <2> DEFINE b == Wallet!balance(s, c, from) - amount
             d == Wallet!Balanced(s, c, from, b)
             g == Wallet!balance(d, c, to) + amount
             t == Wallet!Balanced(d, c, to, g)
  <2>1. b \in Nat
    <3>1. Wallet!balance(s, c, from) >= amount
      BY <1>2 DEF Affordable
    <3> QED
      BY <1>0, <3>1
  <2>2. Wallet!MovedWithin(s, c, from, to, amount) = t
    BY <1>2 DEF Wallet!MovedWithin
  <2>3. b = Wallet!balance(s, c, from) - amount
    OBVIOUS
  <2> HIDE DEF b
  <2>4. /\ d \in WalletStates /\ d.nonces_registry = s.nonces_registry /\ d.holdings = s.holdings
        /\ \A x \in Wallet!Currencies, y \in PublicKeys :
              Wallet!balance(d, x, y) = IF x = c /\ y = from THEN b ELSE Wallet!balance(s, x, y)
        /\ \A x \in Wallet!Currencies :
              KeysHave(d, x) = IF x = c THEN KeysHave(s, c) + (b - Wallet!balance(s, c, from))
                               ELSE KeysHave(s, x)
    BY <2>1, BalanceSet
  <2> HIDE DEF d
  <2>5. /\ \A x \in Wallet!Currencies, y \in PublicKeys : Wallet!balance(d, x, y) \in Nat
        /\ \A x \in Wallet!Currencies : KeysHave(d, x) \in Nat
    BY <2>4, WalletParts
  <2>6. g \in Nat /\ g = Wallet!balance(d, c, to) + amount
    BY <2>5
  <2> HIDE DEF g
  <2>7. /\ t \in WalletStates /\ t.nonces_registry = d.nonces_registry /\ t.holdings = d.holdings
        /\ \A x \in Wallet!Currencies, y \in PublicKeys :
              Wallet!balance(t, x, y) = IF x = c /\ y = to THEN g ELSE Wallet!balance(d, x, y)
        /\ \A x \in Wallet!Currencies :
              KeysHave(t, x) = IF x = c THEN KeysHave(d, c) + (g - Wallet!balance(d, c, to))
                               ELSE KeysHave(d, x)
    <3>1. d \in WalletStates /\ g \in Nat
      BY <2>4, <2>6
    <3> QED
      BY <3>1, BalanceSet
  <2> HIDE DEF t
  <2>8. ASSUME NEW x \in Wallet!Currencies
        PROVE  KeysHave(t, x) = KeysHave(s, x)
    <3>1. CASE x = c
      <4>1. KeysHave(t, c) = KeysHave(d, c) + amount
        BY <2>5, <2>6, <2>7
      <4>2. KeysHave(d, c) = KeysHave(s, c) - amount
        BY <1>0, <2>3, <2>4
      <4> QED
        BY <1>0, <3>1, <4>1, <4>2
    <3>2. CASE x # c
      BY <2>4, <2>7, <3>2
    <3> QED
      BY <3>1, <3>2
  <2>9. ASSUME NEW x \in Wallet!Currencies, NEW y \in PublicKeys
        PROVE  Wallet!balance(t, x, y)
                 = Wallet!balance(s, x, y) + (IF x = c /\ y = from THEN -amount ELSE 0)
                                           + (IF x = c /\ y = to THEN amount ELSE 0)
    <3>1. CASE x = c /\ y = to
      <4>1. Wallet!balance(t, x, y) = Wallet!balance(d, x, y) + amount
        BY <2>6, <2>7, <3>1
      <4>2. Wallet!balance(d, x, y)
              = Wallet!balance(s, x, y) + (IF x = c /\ y = from THEN -amount ELSE 0)
        BY <1>0, <2>3, <2>4
      <4> QED
        BY <3>1, <4>1, <4>2
    <3>2. CASE ~ (x = c /\ y = to)
      <4>1. Wallet!balance(t, x, y) = Wallet!balance(d, x, y)
        BY <2>7, <3>2
      <4>2. Wallet!balance(d, x, y)
              = Wallet!balance(s, x, y) + (IF x = c /\ y = from THEN -amount ELSE 0)
        BY <1>0, <2>3, <2>4
      <4> QED
        BY <1>0, <3>2, <4>1, <4>2
    <3> QED
      BY <3>1, <3>2
  <2> QED
    BY <2>2, <2>4, <2>7, <2>8, <2>9
<1> QED
  BY <1>1, <1>2

(* and is logged. *)
LEMMA MoveIsLogged ==
    ASSUME NEW e \in WalletEvents, NEW c \in Wallet!Currencies, NEW from \in PublicKeys,
           NEW to \in PublicKeys, NEW amount \in Nat
    PROVE  /\ Wallet!MoveLogged(e, c, from, to, amount) \in WalletEvents
           /\ Wallet!MoveLogged(e, c, from, to, amount).nonces = e.nonces
           /\ Wallet!MoveLogged(e, c, from, to, amount).replayed = e.replayed
           /\ \A x \in Wallet!Currencies, y \in PublicKeys :
                 Wallet!MoveLogged(e, c, from, to, amount).balances[x][y]
                   = e.balances[x][y] + (IF x = c /\ y = from THEN -amount ELSE 0)
                                      + (IF x = c /\ y = to THEN amount ELSE 0)
<1> DEFINE d == Wallet!Credited(e, c, from, -amount)
           t == Wallet!Credited(d, c, to, amount)
<1>1. Wallet!MoveLogged(e, c, from, to, amount) = t
  BY DEF Wallet!MoveLogged
<1>2. /\ d \in WalletEvents /\ d.nonces = e.nonces /\ d.replayed = e.replayed
      /\ \A x \in Wallet!Currencies, y \in PublicKeys :
            d.balances[x][y] = e.balances[x][y] + IF x = c /\ y = from THEN -amount ELSE 0
  <2>1. -amount \in Int
    OBVIOUS
  <2> QED
    BY <2>1, EventSet
<1> HIDE DEF d
<1>3. /\ t \in WalletEvents /\ t.nonces = d.nonces /\ t.replayed = d.replayed
      /\ \A x \in Wallet!Currencies, y \in PublicKeys :
            t.balances[x][y] = d.balances[x][y] + IF x = c /\ y = to THEN amount ELSE 0
  BY <1>2, EventSet
<1> HIDE DEF t
<1>4. ASSUME NEW x \in Wallet!Currencies, NEW y \in PublicKeys
      PROVE  t.balances[x][y] = e.balances[x][y] + (IF x = c /\ y = from THEN -amount ELSE 0)
                                                 + (IF x = c /\ y = to THEN amount ELSE 0)
  BY <1>2, <1>3
<1> QED
  BY <1>1, <1>2, <1>3, <1>4

(* What is not in the log stays the same. *)
SameGap(s, e, t, g) ==
    \A c \in Wallet!Currencies, k \in PublicKeys :
        g.balances[c][k] - Wallet!balance(t, c, k) = e.balances[c][k] - Wallet!balance(s, c, k)

LEMMA MoveGap ==
    ASSUME NEW s \in WalletStates, NEW e \in WalletEvents, NEW c \in Wallet!Currencies,
           NEW from \in PublicKeys, NEW to \in PublicKeys, NEW amount \in Nat,
           Affordable(s, c, from, amount)
    PROVE  SameGap(s, e, Wallet!MovedWithin(s, c, from, to, amount),
                   Wallet!MoveLogged(e, c, from, to, amount))
<1> SUFFICES ASSUME NEW x \in Wallet!Currencies, NEW y \in PublicKeys
             PROVE  Wallet!MoveLogged(e, c, from, to, amount).balances[x][y]
                      - Wallet!balance(Wallet!MovedWithin(s, c, from, to, amount), x, y)
                      = e.balances[x][y] - Wallet!balance(s, x, y)
  BY DEF SameGap
<1> DEFINE p == IF x = c /\ y = from THEN -amount ELSE 0
           q == IF x = c /\ y = to THEN amount ELSE 0
<1>1. Wallet!MoveLogged(e, c, from, to, amount).balances[x][y] = e.balances[x][y] + p + q
  BY MoveIsLogged
<1>2. Wallet!balance(Wallet!MovedWithin(s, c, from, to, amount), x, y)
        = Wallet!balance(s, x, y) + p + q
  BY MoveKeeps
<1>3. p \in Int /\ q \in Int
  OBVIOUS
<1>4. e.balances[x][y] \in Int /\ Wallet!balance(s, x, y) \in Int
  BY WalletParts DEF WalletEvents, KeyBalances
<1> HIDE DEF p, q
<1> QED
  BY <1>1, <1>2, <1>3, <1>4

(* Nonces only grow, *)
Grown(s, t) == \A k \in PublicKeys : s.nonces_registry[k] <= t.nonces_registry[k]

LEMMA GrownSame ==
    ASSUME NEW s \in WalletStates, NEW t, t.nonces_registry = s.nonces_registry
    PROVE  Grown(s, t)
<1>1. \A k \in PublicKeys : s.nonces_registry[k] \in Nat
  BY WalletParts
<1> QED
  BY <1>1 DEF Grown

LEMMA UsedUpStays ==
    ASSUME NEW s \in WalletStates, NEW t \in WalletStates, Grown(s, t),
           NEW u \in PublicKeys \X Nat, UsedUp(s, u)
    PROVE  UsedUp(t, u)
<1>1. u[1] \in PublicKeys /\ u[2] \in Nat
  OBVIOUS
<1>2. s.nonces_registry[u[1]] \in Nat /\ t.nonces_registry[u[1]] \in Nat
  BY <1>1, WalletParts
<1>3. s.nonces_registry[u[1]] <= t.nonces_registry[u[1]]
  BY <1>1 DEF Grown
<1> QED
  BY <1>1, <1>2, <1>3 DEF UsedUp

LEMMA UsesType == ASSUME NEW f \in WalletFrames PROVE Uses(f) \in PublicKeys \X Nat
  BY WalletFrame DEF Uses

(* and what is used up stays so. *)
LEMMA NoncesKept ==
    ASSUME NEW s \in WalletStates, NEW t \in WalletStates, Grown(s, t),
           NEW e \in WalletEvents, NEW g, g.nonces = e.nonces, g.replayed = e.replayed,
           NEW n, NEW stack, \A i \in 1 .. n : stack[i] \in WalletFrames,
           NoncesTold(s, e, stack, n)
    PROVE  NoncesTold(t, g, stack, n)
<1>1. \A u \in g.nonces : UsedUp(t, u)
  <2>1. \A u \in e.nonces : u \in PublicKeys \X Nat
    BY DEF WalletEvents
  <2> QED
    BY <2>1, UsedUpStays DEF NoncesTold
<1>2. \A i \in 1 .. n : UnderWay(stack[i]) => UsedUp(t, Uses(stack[i]))
  BY UsesType, UsedUpStays DEF NoncesTold
<1> QED
  BY <1>1, <1>2 DEF NoncesTold

(* A step that leaves the entrypoints as they are *)
LEMMA WalletStill ==
    ASSUME WalletInv, calls' = calls, state' \in WalletStates, seen' \in WalletEvents,
           Covered(state'), SameGap(state, seen, state', seen'), Grown(state, state'),
           seen'.nonces = seen.nonces, seen'.replayed = seen.replayed
    PROVE  WalletInv'
<1> DEFINE n == Len(calls)
<1>0. /\ state \in WalletStates /\ seen \in WalletEvents /\ calls \in Seq(WalletFrames)
      /\ BalancesTold(state, seen, calls, n) /\ NoncesTold(state, seen, calls, n)
      /\ \A i \in 1 .. n : calls[i] \in WalletFrames
  BY ElementOfSeq DEF WalletInv, WalletRight
<1>1. BalancesTold(state', seen', calls, n)
  BY <1>0 DEF BalancesTold, SameGap
<1>2. NoncesTold(state', seen', calls, n)
  BY <1>0, NoncesKept
<1>3. WalletRight(state', seen', calls, n)
  BY <1>1, <1>2 DEF WalletRight
<1> QED
  BY <1>3 DEF WalletInv

-----------------------------------------------------------------------------
LEMMA WalletInit == Wallet!Init => WalletInv
<1> SUFFICES ASSUME Wallet!Init PROVE WalletInv
  OBVIOUS
<1> DEFINE none == [k \in PublicKeys |-> None]
           b == [c \in Wallet!Currencies |-> none]
           z == [k \in PublicKeys |-> 0]
           l == [c \in Wallet!Currencies |-> z]
           i == [a \in Among |-> IF a = Self THEN 0 ELSE Wealth]
           h == [c \in Wallet!Currencies |-> i]
<1>1. /\ state = [balances |-> b, nonces_registry |-> z, implementors |-> {}, holdings |-> h, now |-> 0]
      /\ seen = [balances |-> l, nonces |-> {}, replayed |-> FALSE] /\ calls = <<>>
  BY DEF Wallet!Init, Wallet!InitialCcd, Wallet!Addresses, Among
<1>2. i \in Holdings(Among) /\ i[Self] = 0
  BY AmountAssumption, AmongAddresses DEF Holdings
<1>3. /\ none \in [PublicKeys -> Nat \cup {None}] /\ \A k \in PublicKeys : none[k] = None
      /\ z \in [PublicKeys -> Nat] /\ z \in [PublicKeys -> Int] /\ \A k \in PublicKeys : z[k] = 0
  OBVIOUS
<1> HIDE DEF i, none, z
<1>4. /\ h \in Treasuries /\ \A c \in Wallet!Currencies : h[c] = i
      /\ b \in Coffers /\ \A c \in Wallet!Currencies : b[c] = none
      /\ l \in KeyBalances /\ \A c \in Wallet!Currencies : l[c] = z
  BY <1>2, <1>3 DEF Treasuries, Coffers, KeyBalances
<1> HIDE DEF h, b, l
<1>5. state \in WalletStates /\ seen \in WalletEvents
  BY <1>1, <1>3, <1>4 DEF WalletStates, WalletEvents
<1>6. \A c \in Wallet!Currencies, k \in PublicKeys :
        Wallet!balance(state, c, k) = 0 /\ seen.balances[c][k] = 0
  BY <1>1, <1>3, <1>4 DEF Wallet!balance
<1>7. Covered(state)
  <2> SUFFICES ASSUME NEW c \in Wallet!Currencies PROVE KeysHave(state, c) = state.holdings[c][Self]
    BY DEF Covered
  <2> DEFINE f == [k \in PublicKeys |-> Wallet!balance(state, c, k)]
  <2>1. \A k \in PublicKeys : f[k] = 0
    BY <1>6
  <2> HIDE DEF f
  <2>2. SumOf(f, PublicKeys) = 0
    BY <2>1, SumOfZero, MessageAssumption
  <2> QED
    BY <1>1, <1>2, <1>4, <2>2 DEF KeysHave, f
<1>8. BalancesTold(state, seen, calls, 0)
  <2>1. \A c, k : UnloggedTo(calls, 0, c, k) = 0
    BY SumToNone DEF UnloggedTo
  <2> QED
    BY <1>6, <2>1 DEF BalancesTold
<1>9. NoncesTold(state, seen, calls, 0)
  BY <1>1 DEF NoncesTold
<1>10. Len(calls) = 0 /\ calls \in Seq(WalletFrames)
  BY <1>1
<1> QED
  BY <1>5, <1>7, <1>8, <1>9, <1>10 DEF WalletInv, WalletRight

(* A deposit *)
LEMMA WalletDeposited ==
    ASSUME WalletInv, NEW from \in Partners \cup Contracts, NEW c \in Wallet!Currencies,
           NEW k \in PublicKeys, NEW amount \in WalletAmounts, Wallet!Deposit(from, c, k, amount)
    PROVE  WalletInv'
<1> DEFINE h == Wallet!Held(state, c, from, Self, amount)
           b == Wallet!balance(state, c, k) + amount
           t == Wallet!Balanced(h, c, k, b)
           g == Wallet!Credited(seen, c, k, amount)
<1>1. calls' = calls /\ state' = t /\ seen' = g
  BY DEF Wallet!Deposit
<1>2. /\ state \in WalletStates /\ seen \in WalletEvents /\ amount \in Nat /\ amount \in Int
      /\ Covered(state) /\ from \in Among /\ from # Self /\ Self \in Among
  BY AmountAssumption, AmongAddresses DEF WalletInv, WalletRight
<1>3. /\ \A x \in Wallet!Currencies, y \in PublicKeys : Wallet!balance(state, x, y) \in Nat
      /\ \A x \in Wallet!Currencies : KeysHave(state, x) \in Nat
      /\ state.holdings[c] \in Holdings(Among)
  BY <1>2, WalletParts DEF Treasuries
<1>4. b \in Nat /\ b = Wallet!balance(state, c, k) + amount
  BY <1>2, <1>3
<1> HIDE DEF b
<1>5. /\ h \in WalletStates /\ h.nonces_registry = state.nonces_registry
      /\ h.balances = state.balances
      /\ \A x \in Wallet!Currencies :
            h.holdings[x] = IF x = c THEN Led!Given(state.holdings[c], from, Self, amount)
                            ELSE state.holdings[x]
  BY <1>2, HoldingsSet
<1> HIDE DEF h
<1>6. /\ \A x, y : Wallet!balance(h, x, y) = Wallet!balance(state, x, y)
      /\ \A x : KeysHave(h, x) = KeysHave(state, x)
  BY <1>5, SameBalances
<1>7. /\ t \in WalletStates /\ t.nonces_registry = h.nonces_registry /\ t.holdings = h.holdings
      /\ \A x \in Wallet!Currencies, y \in PublicKeys :
            Wallet!balance(t, x, y) = IF x = c /\ y = k THEN b ELSE Wallet!balance(h, x, y)
      /\ \A x \in Wallet!Currencies :
            KeysHave(t, x) = IF x = c THEN KeysHave(h, c) + (b - Wallet!balance(h, c, k))
                             ELSE KeysHave(h, x)
  BY <1>4, <1>5, BalanceSet
<1> HIDE DEF t
<1>8. /\ g \in WalletEvents /\ g.nonces = seen.nonces /\ g.replayed = seen.replayed
      /\ \A x \in Wallet!Currencies, y \in PublicKeys :
            g.balances[x][y] = seen.balances[x][y] + IF x = c /\ y = k THEN amount ELSE 0
  BY <1>2, EventSet
<1> HIDE DEF g
<1>9. Covered(t)
  <2> SUFFICES ASSUME NEW x \in Wallet!Currencies PROVE KeysHave(t, x) = t.holdings[x][Self]
    BY DEF Covered
  <2>1. KeysHave(state, x) = state.holdings[x][Self]
    BY <1>2 DEF Covered
  <2>2. CASE x = c
    <3>1. Led!Given(state.holdings[c], from, Self, amount)[Self] = state.holdings[c][Self] + amount
      BY <1>2, <1>3, GivesOther
    <3>2. t.holdings[c][Self] = state.holdings[c][Self] + amount
      BY <1>5, <1>7, <3>1
    <3>3. KeysHave(t, c) = KeysHave(state, c) + (b - Wallet!balance(state, c, k))
      BY <1>6, <1>7
    <3>4. KeysHave(t, c) = KeysHave(state, c) + amount
      BY <1>2, <1>3, <1>4, <3>3
    <3> QED
      BY <2>1, <2>2, <3>2, <3>4
  <2>3. CASE x # c
    BY <1>5, <1>6, <1>7, <2>1, <2>3
  <2> QED
    BY <2>2, <2>3
<1>10. SameGap(state, seen, t, g)
  <2> SUFFICES ASSUME NEW x \in Wallet!Currencies, NEW y \in PublicKeys
               PROVE  g.balances[x][y] - Wallet!balance(t, x, y)
                        = seen.balances[x][y] - Wallet!balance(state, x, y)
    BY DEF SameGap
  <2>1. seen.balances[x][y] \in Int /\ Wallet!balance(state, x, y) \in Int
    BY <1>2, <1>3 DEF WalletEvents, KeyBalances
  <2> QED
    BY <1>2, <1>4, <1>6, <1>7, <1>8, <2>1
<1>11. Grown(state, t)
  BY <1>2, <1>5, <1>7, GrownSame
<1> QED
  BY <1>1, <1>7, <1>8, <1>9, <1>10, <1>11, WalletStill

(* Messages are brought. *)
LEMMA WalletExecuted ==
    ASSUME WalletInv, NEW sender, NEW c \in Wallet!Currencies,
           NEW entry_point \in {"transferCcd", "transferCis2Tokens",
                                "withdrawCcd", "withdrawCis2Tokens"},
           NEW batch \in SignedBatches, Wallet!Execute(sender, c, entry_point, batch)
    PROVE  WalletInv'
<1> DEFINE f == [hook |-> None, currency |-> c, entry_point |-> entry_point,
                 messages |-> batch, parts |-> <<>>, next |-> "sign",
                 saved |-> [state |-> state, seen |-> seen]]
<1>1. calls' = Append(calls, f) /\ state' = state /\ seen' = seen
  BY DEF Wallet!Execute, Wallet!Saved
<1>2. batch \in Seq(WalletMessages) /\ batch # <<>>
  BY MessageAssumption
<1>3. /\ <<>> \in PartsTo(PublicKeys) /\ <<>> \in PartsTo(Partners \cup Contracts)
      /\ f.saved \in [state : WalletStates, seen : WalletEvents]
  BY DEF PartsTo, WalletInv
<1>4. f \in WalletFrames
  <2>1. CASE entry_point \in {"transferCcd", "transferCis2Tokens"}
    <3>1. f \in FramesFor({"transferCcd", "transferCis2Tokens"}, PublicKeys)
      BY <1>2, <1>3, <2>1 DEF FramesFor
    <3> QED
      BY <3>1 DEF WalletFrames
  <2>2. CASE entry_point \in {"withdrawCcd", "withdrawCis2Tokens"}
    <3>1. f \in FramesFor({"withdrawCcd", "withdrawCis2Tokens"}, Partners \cup Contracts)
      BY <1>2, <1>3, <2>2 DEF FramesFor
    <3> QED
      BY <3>1 DEF WalletFrames
  <2> QED
    BY <2>1, <2>2
<1>5. f.next = "sign" /\ f.saved = [state |-> state, seen |-> seen]
  OBVIOUS
<1> HIDE DEF f
<1> QED
  BY <1>1, <1>4, <1>5, WalletPushed

-----------------------------------------------------------------------------
(* An entrypoint with something else to do *)
FrameWith(f, hook, messages, parts, next) ==
    [f EXCEPT !.hook = hook, !.messages = messages, !.parts = parts, !.next = next]

ReceiversOf(entry_point) ==
    IF Wallet!Withdraws(entry_point) THEN Partners \cup Contracts ELSE PublicKeys

LEMMA FrameParts == ASSUME NEW f \in WalletFrames PROVE f.parts \in PartsTo(ReceiversOf(f.entry_point))
  BY DEF WalletFrames, FramesFor, ReceiversOf, Wallet!Withdraws

LEMMA MessageParts ==
    ASSUME NEW m \in WalletMessages
    PROVE  /\ m.parts \in PartsTo(ReceiversOf(m.entry_point))
           /\ m.signer \in PublicKeys /\ m.nonce \in Nat
           /\ m.service_fee_recipient \in PublicKeys /\ m.service_fee_amount \in Nat
  BY DEF WalletMessages, MessagesFor, ReceiversOf, Wallet!Withdraws

LEMMA FrameSet ==
    ASSUME NEW f \in WalletFrames, NEW hook \in Contracts \cup {None},
           NEW messages \in Seq(WalletMessages) \ {<<>>},
           NEW parts \in PartsTo(ReceiversOf(f.entry_point)), NEW next \in {"sign", "part", "log"},
           next = "log" => parts # <<>>
    PROVE  /\ FrameWith(f, hook, messages, parts, next) \in WalletFrames
           /\ FrameWith(f, hook, messages, parts, next).currency = f.currency
           /\ FrameWith(f, hook, messages, parts, next).messages = messages
           /\ FrameWith(f, hook, messages, parts, next).parts = parts
           /\ FrameWith(f, hook, messages, parts, next).next = next
           /\ FrameWith(f, hook, messages, parts, next).saved = f.saved
<1> DEFINE g == FrameWith(f, hook, messages, parts, next)
<1>1. CASE f \in FramesFor({"transferCcd", "transferCis2Tokens"}, PublicKeys)
  <2>1. parts \in PartsTo(PublicKeys)
    BY <1>1 DEF FramesFor, ReceiversOf, Wallet!Withdraws
  <2>2. g \in FramesFor({"transferCcd", "transferCis2Tokens"}, PublicKeys)
    BY <1>1, <2>1 DEF FramesFor, FrameWith
  <2> QED
    BY <1>1, <2>2 DEF WalletFrames, FramesFor, FrameWith
<1>2. CASE f \in FramesFor({"withdrawCcd", "withdrawCis2Tokens"}, Partners \cup Contracts)
  <2>1. parts \in PartsTo(Partners \cup Contracts)
    BY <1>2 DEF FramesFor, ReceiversOf, Wallet!Withdraws
  <2>2. g \in FramesFor({"withdrawCcd", "withdrawCis2Tokens"}, Partners \cup Contracts)
    BY <1>2, <2>1 DEF FramesFor, FrameWith
  <2> QED
    BY <1>2, <2>2 DEF WalletFrames, FramesFor, FrameWith
<1> QED
  BY <1>1, <1>2 DEF WalletFrames

-----------------------------------------------------------------------------
(* What the events tell after a step of the entrypoint on top: of balances *)
GapClosed(s, e, f, t, g, h) ==
    \A c \in Wallet!Currencies, k \in PublicKeys :
        g.balances[c][k] - Wallet!balance(t, c, k)
          = (e.balances[c][k] - Wallet!balance(s, c, k)) + (Unlogged(h, c, k) - Unlogged(f, c, k))

LEMMA SameGapClosed ==
    ASSUME NEW s \in WalletStates, NEW e \in WalletEvents, NEW t, NEW g, SameGap(s, e, t, g),
           NEW f \in WalletFrames, NEW h, \A c, k : Unlogged(h, c, k) = Unlogged(f, c, k)
    PROVE  GapClosed(s, e, f, t, g, h)
<1> SUFFICES ASSUME NEW c \in Wallet!Currencies, NEW k \in PublicKeys
             PROVE  g.balances[c][k] - Wallet!balance(t, c, k)
                      = (e.balances[c][k] - Wallet!balance(s, c, k))
                          + (Unlogged(h, c, k) - Unlogged(f, c, k))
  BY DEF GapClosed
<1>1. e.balances[c][k] \in Int /\ Wallet!balance(s, c, k) \in Int /\ Unlogged(f, c, k) \in Int
  BY WalletParts, UnloggedType DEF WalletEvents, KeyBalances
<1>2. /\ g.balances[c][k] - Wallet!balance(t, c, k) = e.balances[c][k] - Wallet!balance(s, c, k)
      /\ Unlogged(h, c, k) = Unlogged(f, c, k)
  BY DEF SameGap
<1> QED
  BY <1>1, <1>2

LEMMA TopBalances ==
    ASSUME WalletInv, calls # <<>>, NEW t, NEW g, NEW h \in WalletFrames,
           GapClosed(state, seen, Wallet!Top, t, g, h)
    PROVE  \A c \in Wallet!Currencies, k \in PublicKeys :
              g.balances[c][k] - Wallet!balance(t, c, k)
                = UnloggedTo(Led!Waiting(calls), Len(calls) - 1, c, k) + Unlogged(h, c, k)
<1> SUFFICES ASSUME NEW c \in Wallet!Currencies, NEW k \in PublicKeys
             PROVE  g.balances[c][k] - Wallet!balance(t, c, k)
                      = UnloggedTo(Led!Waiting(calls), Len(calls) - 1, c, k) + Unlogged(h, c, k)
  OBVIOUS
<1> DEFINE w == Led!Waiting(calls)
           n == Len(calls) - 1
           u == UnloggedTo(w, n, c, k)
<1>1. /\ w \in Seq(WalletFrames) /\ Len(w) = n /\ n \in Nat /\ Wallet!Top \in WalletFrames
      /\ seen.balances[c][k] - Wallet!balance(state, c, k) = u + Unlogged(Wallet!Top, c, k)
  BY WalletTop DEF TopTold
<1>2. u \in Int
  <2> DEFINE f == [i \in 1 .. n |-> Unlogged(w[i], c, k)]
  <2>1. \A i \in 1 .. n : f[i] \in Int
    <3> HIDE DEF w, n
    <3>1. \A i \in 1 .. n : w[i] \in WalletFrames
      BY <1>1, ElementOfSeq
    <3> QED
      BY <3>1, UnloggedType
  <2>2. u = SumTo(f, n)
    BY DEF UnloggedTo
  <2> HIDE DEF f, n
  <2> QED
    BY <1>1, <2>1, <2>2, SumToNat
<1>3. /\ g.balances[c][k] - Wallet!balance(t, c, k)
           = (seen.balances[c][k] - Wallet!balance(state, c, k))
               + (Unlogged(h, c, k) - Unlogged(Wallet!Top, c, k))
      /\ Unlogged(h, c, k) \in Int /\ Unlogged(Wallet!Top, c, k) \in Int
  BY <1>1, UnloggedType DEF GapClosed
<1> HIDE DEF u
<1> QED
  BY <1>1, <1>2, <1>3 DEF u

(* and of nonces. *)
LEMMA TopNonces ==
    ASSUME WalletInv, calls # <<>>, NEW t \in WalletStates, Grown(state, t),
           NEW g, g.nonces = seen.nonces, g.replayed = seen.replayed
    PROVE  NoncesTold(t, g, Led!Waiting(calls), Len(calls) - 1)
<1> DEFINE w == Led!Waiting(calls)
           n == Len(calls) - 1
<1>1. /\ w \in Seq(WalletFrames) /\ Len(w) = n /\ NoncesTold(state, seen, w, n)
      /\ state \in WalletStates /\ seen \in WalletEvents
  BY WalletTop DEF TopTold, WalletInv
<1> HIDE DEF w, n
<1>2. \A i \in 1 .. n : w[i] \in WalletFrames
  BY <1>1, ElementOfSeq
<1>3. NoncesTold(t, g, w, n)
  BY <1>1, <1>2, NoncesKept
<1> QED
  BY <1>3 DEF w, n

(* An entrypoint goes on with the same message. *)
LEMMA WalletSameMessage ==
    ASSUME WalletInv, calls # <<>>, NEW h \in WalletFrames, h.saved = Wallet!Top.saved,
           calls' = Append(Led!Waiting(calls), h),
           UnderWay(h) => UnderWay(Wallet!Top) /\ Uses(h) = Uses(Wallet!Top),
           state' \in WalletStates, seen' \in WalletEvents, Covered(state'),
           Grown(state, state'), seen'.nonces = seen.nonces, seen'.replayed = seen.replayed,
           GapClosed(state, seen, Wallet!Top, state', seen', h)
    PROVE  WalletInv'
<1> DEFINE w == Led!Waiting(calls)
           n == Len(calls) - 1
           f == Wallet!Top
<1>1. /\ UnderWay(f) => /\ UsedUp(state, Uses(f)) /\ Uses(f) \notin seen.nonces
                        /\ \A j \in 1 .. n : UnderWay(w[j]) => Uses(w[j]) # Uses(f)
      /\ f \in WalletFrames /\ state \in WalletStates
  BY WalletTop DEF TopTold, WalletInv
<1> HIDE DEF f
<1>2. UnderWay(f) => UsedUp(state', Uses(f))
  BY <1>1, UsesType, UsedUpStays
<1>3. NoncesTold(state', seen', w, n)
  BY TopNonces
<1>4. \A c \in Wallet!Currencies, k \in PublicKeys :
        seen'.balances[c][k] - Wallet!balance(state', c, k)
          = UnloggedTo(w, n, c, k) + Unlogged(h, c, k)
  BY TopBalances
<1>5. TopTold(state', seen', w, n, h)
  <2>1. UnderWay(h) => UnderWay(f) /\ Uses(h) = Uses(f)
    BY DEF f
  <2> HIDE DEF w, n
  <2> QED
    BY <1>1, <1>2, <1>3, <1>4, <2>1 DEF TopTold
<1> QED
  BY <1>5, WalletGoesOn

LEMMA WalletRejected ==
    ASSUME WalletInv, calls # <<>>, Wallet!Rejects
    PROVE  WalletInv'
<1>1. state' = Wallet!Top.saved.state /\ seen' = Wallet!Top.saved.seen /\ calls' = Led!Waiting(calls)
  BY WalletTop DEF Wallet!Rejects
<1>2. /\ Wallet!Top \in WalletFrames
      /\ WalletRight(Wallet!Top.saved.state, Wallet!Top.saved.seen, Led!Waiting(calls),
                     Len(calls) - 1)
  BY WalletTop
<1>3. state' \in WalletStates /\ seen' \in WalletEvents
  BY <1>1, <1>2, WalletFrame
<1> QED
  BY <1>1, <1>2, <1>3, WalletPopped

-----------------------------------------------------------------------------
(* Where the entrypoint on top is *)
LEMMA WalletAt ==
    ASSUME WalletInv, NEW next, Wallet!ComesTo(next)
    PROVE  /\ calls # <<>> /\ Wallet!Top \in WalletFrames
           /\ Wallet!Top.hook = None /\ Wallet!Top.next = next
           /\ Wallet!Message \in WalletMessages
           /\ Wallet!Message = Head(Wallet!Top.messages)
           /\ Wallet!Message.signer \in PublicKeys /\ Wallet!Message.nonce \in Nat
           /\ Wallet!Top.messages \in Seq(WalletMessages) \ {<<>>}
           /\ Wallet!Top.currency \in Wallet!Currencies
           /\ Wallet!Waiting(calls) = Led!Waiting(calls)
           /\ state \in WalletStates /\ seen \in WalletEvents /\ Covered(state)
           /\ Wallet!Top.parts \in PartsTo(ReceiversOf(Wallet!Top.entry_point))
<1>1. calls # <<>> /\ Wallet!Top.hook = None /\ Wallet!Top.next = next
  BY DEF Wallet!ComesTo
<1>2. Wallet!Top \in WalletFrames /\ Wallet!Waiting(calls) = Led!Waiting(calls)
  BY <1>1, WalletTop
<1>3. Wallet!Top.messages \in Seq(WalletMessages) \ {<<>>}
  BY <1>2 DEF WalletFrames, FramesFor
<1> QED
  BY <1>1, <1>2, <1>3, WalletFrame, FrameParts DEF Wallet!Message, WalletInv, WalletRight

(* The nonce of a key is used up by the message that has it. *)
LEMMA NonceIncreases ==
    ASSUME NEW s \in WalletStates, NEW k \in PublicKeys
    PROVE  /\ Wallet!NonceIncreased(s, k) \in WalletStates
           /\ Wallet!NonceIncreased(s, k).balances = s.balances
           /\ Wallet!NonceIncreased(s, k).holdings = s.holdings
           /\ Wallet!NonceIncreased(s, k).nonces_registry[k] = s.nonces_registry[k] + 1
           /\ Grown(s, Wallet!NonceIncreased(s, k))
<1> DEFINE b == s.nonces_registry[k] + 1
           r == [s.nonces_registry EXCEPT ![k] = b]
           t == Wallet!NonceIncreased(s, k)
<1>1. s.nonces_registry \in [PublicKeys -> Nat]
  BY WalletParts
<1>2. \A y \in PublicKeys : s.nonces_registry[y] \in Nat
  BY <1>1
<1>3. b \in Nat /\ s.nonces_registry[k] <= b
  BY <1>2
<1>4. t = [s EXCEPT !.nonces_registry = r]
  BY DEF Wallet!NonceIncreased
<1> HIDE DEF b
<1>5. /\ r \in [PublicKeys -> Nat] /\ r[k] = b
      /\ \A y \in PublicKeys : y # k => r[y] = s.nonces_registry[y]
  BY <1>1, <1>3
<1> HIDE DEF r, t
<1>6. /\ t \in WalletStates /\ t.nonces_registry = r /\ t.balances = s.balances
      /\ t.holdings = s.holdings
  BY <1>4, <1>5 DEF WalletStates
<1>7. \A y \in PublicKeys : s.nonces_registry[y] <= r[y]
  BY <1>2, <1>3, <1>5
<1> QED
  BY <1>5, <1>6, <1>7 DEF t, b, Grown

(* A message is accepted: its nonce is used up now, and the fee is paid. *)
LEMMA WalletSigned == ASSUME WalletInv, Wallet!sign PROVE WalletInv'
<1> DEFINE m == Wallet!Message
           c == Wallet!Top.currency
           to == m.service_fee_recipient
           amount == m.service_fee_amount
           f == Wallet!Top
           s == Wallet!NonceIncreased(state, m.signer)
           t == Wallet!MovedWithin(s, c, m.signer, to, amount)
           e == Wallet!MoveLogged(seen, c, m.signer, to, amount)
           g == [f EXCEPT !.parts = m.parts, !.next = "part"]
           h == FrameWith(f, f.hook, f.messages, m.parts, "part")
           w == Led!Waiting(calls)
           n == Len(calls) - 1
<1>0. Wallet!ComesTo("sign")
  BY DEF Wallet!sign
<1>1. /\ calls # <<>> /\ f \in WalletFrames /\ f.hook = None /\ f.next = "sign"
      /\ m \in WalletMessages /\ m = Head(f.messages) /\ m.signer \in PublicKeys /\ m.nonce \in Nat
      /\ f.messages \in Seq(WalletMessages) \ {<<>>} /\ c \in Wallet!Currencies
      /\ Wallet!Waiting(calls) = w
      /\ state \in WalletStates /\ seen \in WalletEvents /\ Covered(state)
  BY <1>0, WalletAt
<1>2. CASE Wallet!Rejects
  BY <1>1, <1>2, WalletRejected
<1>3. CASE /\ Wallet!Valid(m) /\ Wallet!MayMove(state, c, m.signer, to, amount)
           /\ state' = t /\ seen' = e /\ Wallet!Continues(g)
  <2>1. /\ to \in PublicKeys /\ amount \in Nat /\ m.entry_point = f.entry_point
        /\ m.nonce = state.nonces_registry[m.signer] /\ m.parts \in PartsTo(ReceiversOf(f.entry_point))
    BY <1>1, <1>3, MessageParts DEF Wallet!Valid
  <2>2. /\ s \in WalletStates /\ s.balances = state.balances /\ s.holdings = state.holdings
        /\ s.nonces_registry[m.signer] = state.nonces_registry[m.signer] + 1
        /\ Grown(state, s)
    BY <1>1, NonceIncreases
  <2>3. Affordable(state, c, m.signer, amount)
    BY <1>3 DEF Wallet!MayMove, Affordable
  <2> HIDE DEF s
  <2>4. /\ \A x, y : Wallet!balance(s, x, y) = Wallet!balance(state, x, y)
        /\ \A x : KeysHave(s, x) = KeysHave(state, x)
    BY <2>2, SameBalances
  <2>5. Affordable(s, c, m.signer, amount)
    BY <2>3, <2>4 DEF Affordable
  <2>6. /\ t \in WalletStates /\ t.nonces_registry = s.nonces_registry /\ t.holdings = s.holdings
        /\ \A x \in Wallet!Currencies : KeysHave(t, x) = KeysHave(s, x)
    BY <1>1, <2>1, <2>2, <2>5, MoveKeeps
  <2>7. e \in WalletEvents /\ e.nonces = seen.nonces /\ e.replayed = seen.replayed
    <3>1. /\ seen \in WalletEvents /\ c \in Wallet!Currencies /\ m.signer \in PublicKeys
          /\ to \in PublicKeys /\ amount \in Nat
      BY <1>1, <2>1
    <3> HIDE DEF m, c, to, amount
    <3> QED
      BY <3>1, MoveIsLogged
  <2>8. SameGap(s, seen, t, e)
    BY <1>1, <2>1, <2>2, <2>5, MoveGap
  <2>9. SameGap(state, seen, t, e)
    BY <2>4, <2>8 DEF SameGap
  <2>10. Covered(t)
    BY <1>1, <2>2, <2>4, <2>6 DEF Covered
  <2>11. Grown(state, t)
    BY <2>2, <2>6 DEF Grown
  <2>12. /\ h \in WalletFrames /\ h.messages = f.messages /\ h.next = "part" /\ h.saved = f.saved
    <3>1. /\ f \in WalletFrames /\ f.hook \in Contracts \cup {None}
          /\ f.messages \in Seq(WalletMessages) \ {<<>>}
          /\ m.parts \in PartsTo(ReceiversOf(f.entry_point))
          /\ "part" \in {"sign", "part", "log"} /\ "part" # "log"
      BY <1>1, <2>1
    <3> HIDE DEF m, f
    <3> QED
      BY <3>1, FrameSet
  <2>13. g = h
    BY <1>1 DEF WalletFrames, FramesFor, FrameWith
  <2>14. calls' = Append(w, h)
    BY <1>1, <1>3, <2>13 DEF Wallet!Continues
  <2> HIDE DEF t, e, h, f
  <2>15. \A x, y : Unlogged(h, x, y) = Unlogged(f, x, y)
    BY <1>1, <2>12 DEF Unlogged
  <2>16. GapClosed(state, seen, f, t, e, h)
    BY <1>1, <2>9, <2>15, SameGapClosed
  <2>17. \A x \in Wallet!Currencies, y \in PublicKeys :
           e.balances[x][y] - Wallet!balance(t, x, y) = UnloggedTo(w, n, x, y) + Unlogged(h, x, y)
    BY <1>1, <2>12, <2>16, TopBalances DEF f
  <2>18. NoncesTold(t, e, w, n)
    BY <1>1, <2>6, <2>7, <2>11, TopNonces
  <2>19. NoncesTold(state, seen, w, n)
    BY <1>1, WalletTop DEF TopTold
  <2> DEFINE u == <<m.signer, m.nonce>>
  <2>20. Uses(h) = u /\ u[1] = m.signer /\ u[2] = m.nonce
    BY <1>1, <2>12 DEF Uses
  <2>21. UsedUp(t, u) /\ ~ UsedUp(state, u)
    <3>1. t.nonces_registry[m.signer] = m.nonce + 1
      BY <2>1, <2>2, <2>6
    <3>2. m.nonce < m.nonce + 1 /\ ~ (m.nonce < m.nonce)
      BY <1>1
    <3> QED
      BY <2>1, <2>20, <3>1, <3>2 DEF UsedUp
  <2> HIDE DEF u, w, n
  <2>22. u \notin seen.nonces /\ \A j \in 1 .. n : UnderWay(w[j]) => Uses(w[j]) # u
    BY <2>19, <2>21 DEF NoncesTold
  <2>23. TopTold(t, e, w, n, h)
    BY <2>7, <2>17, <2>18, <2>20, <2>21, <2>22 DEF TopTold
  <2> QED
    BY <1>1, <1>3, <2>6, <2>7, <2>10, <2>12, <2>14, <2>23, WalletGoesOn DEF t, e, f, w, n
<1> QED
  BY <1>2, <1>3 DEF Wallet!sign

(* The part of a message that is next *)
LEMMA WalletPart ==
    ASSUME NEW f \in WalletFrames, f.parts # <<>>
    PROVE  /\ Head(f.parts).to \in ReceiversOf(f.entry_point) /\ Head(f.parts).amount \in Nat
           /\ Tail(f.parts) \in PartsTo(ReceiversOf(f.entry_point))
           /\ f.hook \in Contracts \cup {None}
           /\ f.messages \in Seq(WalletMessages) \ {<<>>}
<1> DEFINE R == ReceiversOf(f.entry_point)
           p == f.parts
<1>1. p \in PartsTo(R) /\ p # <<>>
  BY FrameParts
<1> HIDE DEF R, p
<1>2. Head(p) \in [to : R, amount : Nat] /\ Tail(p) \in PartsTo(R)
  BY <1>1, HeadAndTail DEF PartsTo
<1>3. Head(p).to \in R /\ Head(p).amount \in Nat
  BY <1>2
<1> QED
  BY <1>2, <1>3 DEF R, p, WalletFrames, FramesFor

(* A transfer to another key *)
LEMMA WalletMoved == ASSUME WalletInv, Wallet!move PROVE WalletInv'
<1> DEFINE c == Wallet!Top.currency
           from == Wallet!Message.signer
           to == Wallet!Part.to
           amount == Wallet!Part.amount
           f == Wallet!Top
           t == Wallet!MovedWithin(state, c, from, to, amount)
           e == Wallet!MoveLogged(seen, c, from, to, amount)
           p == Tail(f.parts)
           g == [f EXCEPT !.parts = p]
           h == FrameWith(f, f.hook, f.messages, p, "part")
           w == Led!Waiting(calls)
<1>0. Wallet!ComesTo("part") /\ f.parts # <<>> /\ ~ Wallet!Withdraws(f.entry_point)
  BY DEF Wallet!move
<1>1. /\ calls # <<>> /\ f \in WalletFrames /\ f.next = "part" /\ from \in PublicKeys
      /\ c \in Wallet!Currencies /\ Wallet!Waiting(calls) = w
      /\ state \in WalletStates /\ seen \in WalletEvents /\ Covered(state)
  BY <1>0, WalletAt
<1>2. CASE Wallet!Rejects
  BY <1>1, <1>2, WalletRejected
<1>3. CASE /\ Wallet!MayMove(state, c, from, to, amount)
           /\ state' = t /\ seen' = e /\ Wallet!Continues(g)
  <2>1. to \in PublicKeys /\ amount \in Nat /\ Affordable(state, c, from, amount)
    BY <1>0, <1>1, <1>3, WalletPart DEF Wallet!Part, ReceiversOf, Wallet!MayMove, Affordable
  <2>2. /\ f.hook \in Contracts \cup {None} /\ p \in PartsTo(ReceiversOf(f.entry_point))
        /\ f.messages \in Seq(WalletMessages) \ {<<>>}
    BY <1>0, <1>1, WalletPart
  <2> HIDE DEF c, from, to, amount, f, p
  <2>3. /\ t \in WalletStates /\ t.nonces_registry = state.nonces_registry
        /\ t.holdings = state.holdings
        /\ \A x \in Wallet!Currencies : KeysHave(t, x) = KeysHave(state, x)
    BY <1>1, <2>1, MoveKeeps
  <2>4. e \in WalletEvents /\ e.nonces = seen.nonces /\ e.replayed = seen.replayed
    BY <1>1, <2>1, MoveIsLogged
  <2>5. SameGap(state, seen, t, e)
    BY <1>1, <2>1, MoveGap
  <2>6. Covered(t) /\ Grown(state, t)
    BY <1>1, <2>3, GrownSame DEF Covered
  <2>7. /\ h \in WalletFrames /\ h.messages = f.messages /\ h.next = "part" /\ h.saved = f.saved
    <3>1. /\ f \in WalletFrames /\ f.hook \in Contracts \cup {None}
          /\ f.messages \in Seq(WalletMessages) \ {<<>>}
          /\ p \in PartsTo(ReceiversOf(f.entry_point))
          /\ "part" \in {"sign", "part", "log"} /\ "part" # "log"
      BY <1>1, <2>2
    <3> QED
      BY <3>1, FrameSet
  <2>8. g = h
    BY <1>1 DEF WalletFrames, FramesFor, FrameWith
  <2>9. calls' = Append(w, h)
    BY <1>1, <1>3, <2>8 DEF Wallet!Continues
  <2> HIDE DEF t, e, h, g, w
  <2>10. /\ \A x, y : Unlogged(h, x, y) = Unlogged(f, x, y)
         /\ UnderWay(f) /\ Uses(h) = Uses(f)
    BY <1>1, <2>7 DEF Unlogged, UnderWay, Uses
  <2>11. GapClosed(state, seen, f, t, e, h)
    BY <1>1, <2>5, <2>10, SameGapClosed
  <2> QED
    BY <1>1, <1>3, <2>3, <2>4, <2>6, <2>7, <2>9, <2>10, <2>11, WalletSameMessage DEF f, w
<1> QED
  BY <1>2, <1>3 DEF Wallet!move

(* A withdrawal that is made *)
LEMMA WalletPaidOut == ASSUME WalletInv, Wallet!pay_out PROVE WalletInv'
<1> DEFINE c == Wallet!Top.currency
           from == Wallet!Message.signer
           to == Wallet!Part.to
           amount == Wallet!Part.amount
           f == Wallet!Top
           b == Wallet!balance(state, c, from) - amount
           d == Wallet!Balanced(state, c, from, b)
           t == Wallet!Held(d, c, Self, to, amount)
           hook == IF to \in Contracts THEN to ELSE None
           g == [f EXCEPT !.next = "log", !.hook = hook]
           h == FrameWith(f, hook, f.messages, f.parts, "log")
           w == Led!Waiting(calls)
<1>0. Wallet!ComesTo("part") /\ f.parts # <<>> /\ Wallet!Withdraws(f.entry_point)
  BY DEF Wallet!pay_out
<1>1. /\ calls # <<>> /\ f \in WalletFrames /\ f.next = "part" /\ from \in PublicKeys
      /\ from = Head(f.messages).signer
      /\ c \in Wallet!Currencies /\ Wallet!Waiting(calls) = w
      /\ state \in WalletStates /\ seen \in WalletEvents /\ Covered(state)
      /\ f.parts \in PartsTo(ReceiversOf(f.entry_point))
  BY <1>0, WalletAt
<1>2. CASE Wallet!Rejects
  BY <1>1, <1>2, WalletRejected
<1>3. CASE /\ Wallet!balance(state, c, from) >= amount
           /\ state' = t /\ seen' = seen /\ Wallet!Continues(g)
  <2>1. /\ to \in Among /\ Self # to /\ Self \in Among /\ amount \in Nat
        /\ amount = Head(f.parts).amount
    <3>1. to \in Partners \cup Contracts /\ amount \in Nat /\ amount = Head(f.parts).amount
      BY <1>0, <1>1, WalletPart DEF Wallet!Part, ReceiversOf
    <3> QED
      BY <3>1, AmongAddresses
  <2>2. /\ hook \in Contracts \cup {None} /\ f.parts \in PartsTo(ReceiversOf(f.entry_point))
        /\ f.messages \in Seq(WalletMessages) \ {<<>>} /\ f.parts # <<>>
    BY <1>0, <1>1, WalletPart
  <2>3. b \in Nat /\ b = Wallet!balance(state, c, from) - amount
        /\ Wallet!balance(state, c, from) \in Nat
    <3>1. Wallet!balance(state, c, from) \in Nat
      BY <1>1, WalletParts
    <3> QED
      BY <1>3, <2>1, <3>1
  <2>a. c = f.currency
    OBVIOUS
  <2> HIDE DEF c, from, to, amount, f, b, hook
  <2>4. /\ d \in WalletStates /\ d.nonces_registry = state.nonces_registry
        /\ d.holdings = state.holdings
        /\ \A x \in Wallet!Currencies, y \in PublicKeys :
              Wallet!balance(d, x, y)
                = IF x = c /\ y = from THEN b ELSE Wallet!balance(state, x, y)
        /\ \A x \in Wallet!Currencies :
              KeysHave(d, x)
                = IF x = c THEN KeysHave(state, c) + (b - Wallet!balance(state, c, from))
                  ELSE KeysHave(state, x)
    <3>1. /\ state \in WalletStates /\ c \in Wallet!Currencies /\ from \in PublicKeys
          /\ b \in Nat
      BY <1>1, <2>3
    <3> QED
      BY <3>1, BalanceSet
  <2> HIDE DEF d
  <2>5. /\ t \in WalletStates /\ t.nonces_registry = d.nonces_registry /\ t.balances = d.balances
        /\ \A x \in Wallet!Currencies :
              t.holdings[x] = IF x = c THEN Led!Given(d.holdings[c], Self, to, amount)
                              ELSE d.holdings[x]
    BY <1>1, <2>1, <2>4, HoldingsSet
  <2> HIDE DEF t
  <2>6. /\ \A x, y : Wallet!balance(t, x, y) = Wallet!balance(d, x, y)
        /\ \A x : KeysHave(t, x) = KeysHave(d, x)
    BY <2>5, SameBalances
  <2>7. Covered(t)
    <3> SUFFICES ASSUME NEW x \in Wallet!Currencies PROVE KeysHave(t, x) = t.holdings[x][Self]
      BY DEF Covered
    <3>1. KeysHave(state, x) = state.holdings[x][Self] /\ KeysHave(state, x) \in Nat
      BY <1>1, WalletParts DEF Covered
    <3>2. CASE x = c
      <4>1. state.holdings[c] \in Holdings(Among)
        BY <1>1, WalletParts DEF Treasuries
      <4>2. Led!Given(state.holdings[c], Self, to, amount)[Self] = state.holdings[c][Self] - amount
        BY <2>1, <4>1, GivesOther
      <4>3. t.holdings[c][Self] = state.holdings[c][Self] - amount
        BY <1>1, <2>4, <2>5, <4>2
      <4>4. KeysHave(t, c) = KeysHave(state, c) + (b - Wallet!balance(state, c, from))
        BY <1>1, <2>4, <2>6
      <4> QED
        BY <2>1, <2>3, <3>1, <3>2, <4>3, <4>4
    <3>3. CASE x # c
      BY <2>4, <2>5, <2>6, <3>1, <3>3
    <3> QED
      BY <3>2, <3>3
  <2>8. Grown(state, t)
    BY <1>1, <2>4, <2>5, GrownSame
  <2>9. /\ h \in WalletFrames /\ h.messages = f.messages /\ h.next = "log" /\ h.saved = f.saved
        /\ h.parts = f.parts /\ h.currency = f.currency
    BY <1>1, <2>2, FrameSet
  <2>10. g = h
    BY <1>1 DEF WalletFrames, FramesFor, FrameWith
  <2>11. calls' = Append(w, h)
    BY <1>1, <1>3, <2>10 DEF Wallet!Continues
  <2> HIDE DEF h, g, w
  <2>12. UnderWay(f) /\ Uses(h) = Uses(f)
    BY <1>1, <2>9 DEF UnderWay, Uses
  <2>13. GapClosed(state, seen, f, t, seen, h)
    <3> SUFFICES ASSUME NEW x \in Wallet!Currencies, NEW y \in PublicKeys
                 PROVE  seen.balances[x][y] - Wallet!balance(t, x, y)
                          = (seen.balances[x][y] - Wallet!balance(state, x, y))
                              + (Unlogged(h, x, y) - Unlogged(f, x, y))
      BY DEF GapClosed
    <3>1. seen.balances[x][y] \in Int /\ Wallet!balance(state, x, y) \in Int
      BY <1>1, WalletParts DEF WalletEvents, KeyBalances
    <3>2. Unlogged(f, x, y) = 0
      BY <1>1 DEF Unlogged
    <3>3. Unlogged(h, x, y) = IF x = c /\ y = from THEN amount ELSE 0
      BY <1>1, <2>1, <2>9, <2>a DEF Unlogged
    <3>4. Wallet!balance(t, x, y) = IF x = c /\ y = from THEN b ELSE Wallet!balance(state, x, y)
      BY <2>4, <2>6
    <3>5. CASE x = c /\ y = from
      BY <2>1, <2>3, <3>1, <3>2, <3>3, <3>4, <3>5
    <3>6. CASE ~ (x = c /\ y = from)
      BY <3>1, <3>2, <3>3, <3>4, <3>6
    <3> QED
      BY <3>5, <3>6
  <2> QED
    BY <1>1, <1>3, <2>5, <2>7, <2>8, <2>9, <2>11, <2>12, <2>13, WalletSameMessage DEF f, w
<1> QED
  BY <1>2, <1>3 DEF Wallet!pay_out

(* and logged *)
LEMMA WalletWithdrawLogged == ASSUME WalletInv, Wallet!log_withdraw PROVE WalletInv'
<1> DEFINE c == Wallet!Top.currency
           from == Wallet!Message.signer
           amount == Wallet!Part.amount
           f == Wallet!Top
           e == Wallet!Credited(seen, c, from, -amount)
           p == Tail(f.parts)
           g == [f EXCEPT !.parts = p, !.next = "part"]
           h == FrameWith(f, f.hook, f.messages, p, "part")
           w == Led!Waiting(calls)
<1>0. Wallet!ComesTo("log")
  BY DEF Wallet!log_withdraw
<1>1. /\ calls # <<>> /\ f \in WalletFrames /\ f.next = "log" /\ from \in PublicKeys
      /\ from = Head(f.messages).signer /\ c = f.currency /\ amount = Head(f.parts).amount
      /\ c \in Wallet!Currencies /\ Wallet!Waiting(calls) = w
      /\ state \in WalletStates /\ seen \in WalletEvents /\ Covered(state)
  BY <1>0, WalletAt DEF Wallet!Part
<1>2. f.parts # <<>>
  BY <1>1 DEF WalletFrames
<1>3. /\ f.hook \in Contracts \cup {None} /\ p \in PartsTo(ReceiversOf(f.entry_point))
      /\ f.messages \in Seq(WalletMessages) \ {<<>>} /\ amount \in Nat
  BY <1>1, <1>2, WalletPart
<1>4. state' = state /\ seen' = e /\ calls' = Append(w, g)
  BY <1>1 DEF Wallet!log_withdraw, Wallet!Continues
<1> HIDE DEF c, from, amount, f, p
<1>5. /\ e \in WalletEvents /\ e.nonces = seen.nonces /\ e.replayed = seen.replayed
      /\ \A x \in Wallet!Currencies, y \in PublicKeys :
            e.balances[x][y] = seen.balances[x][y] + IF x = c /\ y = from THEN -amount ELSE 0
  <2>1. -amount \in Int
    BY <1>3
  <2> QED
    BY <1>1, <2>1, EventSet
<1>6. /\ h \in WalletFrames /\ h.messages = f.messages /\ h.next = "part" /\ h.saved = f.saved
  <2>1. /\ f \in WalletFrames /\ f.hook \in Contracts \cup {None}
        /\ f.messages \in Seq(WalletMessages) \ {<<>>}
        /\ p \in PartsTo(ReceiversOf(f.entry_point))
        /\ "part" \in {"sign", "part", "log"} /\ "part" # "log"
    BY <1>1, <1>3
  <2> QED
    BY <2>1, FrameSet
<1>7. g = h
  BY <1>1 DEF WalletFrames, FramesFor, FrameWith
<1>8. calls' = Append(w, h)
  BY <1>4, <1>7
<1>9. Grown(state, state')
  BY <1>1, <1>4, GrownSame
<1> HIDE DEF e, h, g, w
<1>10. UnderWay(f) /\ Uses(h) = Uses(f)
  BY <1>1, <1>6 DEF UnderWay, Uses
<1>11. GapClosed(state, seen, f, state, e, h)
  <2> SUFFICES ASSUME NEW x \in Wallet!Currencies, NEW y \in PublicKeys
               PROVE  e.balances[x][y] - Wallet!balance(state, x, y)
                        = (seen.balances[x][y] - Wallet!balance(state, x, y))
                            + (Unlogged(h, x, y) - Unlogged(f, x, y))
    BY DEF GapClosed
  <2>1. seen.balances[x][y] \in Int /\ Wallet!balance(state, x, y) \in Int
    BY <1>1, WalletParts DEF WalletEvents, KeyBalances
  <2>2. Unlogged(h, x, y) = 0
    BY <1>6 DEF Unlogged
  <2>3. Unlogged(f, x, y) = IF x = c /\ y = from THEN amount ELSE 0
    BY <1>1 DEF Unlogged
  <2>4. e.balances[x][y] = seen.balances[x][y] + IF x = c /\ y = from THEN -amount ELSE 0
    BY <1>5
  <2> QED
    BY <1>3, <2>1, <2>2, <2>3, <2>4
<1> QED
  BY <1>1, <1>4, <1>5, <1>6, <1>8, <1>9, <1>10, <1>11, WalletSameMessage DEF f, w

(* The contract that was paid returns. *)
LEMMA WalletReturned == ASSUME WalletInv, Wallet!HookReturns PROVE WalletInv'
<1> DEFINE f == Wallet!Top
           g == [f EXCEPT !.hook = None]
           h == FrameWith(f, None, f.messages, f.parts, f.next)
           w == Led!Waiting(calls)
<1>1. /\ calls # <<>> /\ f \in WalletFrames /\ Wallet!Waiting(calls) = w
      /\ state \in WalletStates /\ seen \in WalletEvents /\ Covered(state)
  BY WalletTop DEF Wallet!HookReturns, WalletInv, WalletRight
<1>2. state' = state /\ seen' = seen /\ calls' = Append(w, g)
  BY <1>1 DEF Wallet!HookReturns, Wallet!Continues
<1> HIDE DEF f
<1>3. /\ f.messages \in Seq(WalletMessages) \ {<<>>} /\ f.next \in {"sign", "part", "log"}
      /\ f.next = "log" => f.parts # <<>>
  BY <1>1 DEF WalletFrames, FramesFor
<1>4. f.parts \in PartsTo(ReceiversOf(f.entry_point))
  BY <1>1, FrameParts
<1>5. /\ h \in WalletFrames /\ h.messages = f.messages /\ h.next = f.next /\ h.saved = f.saved
      /\ h.parts = f.parts /\ h.currency = f.currency
  <2>1. /\ f \in WalletFrames /\ None \in Contracts \cup {None}
        /\ f.messages \in Seq(WalletMessages) \ {<<>>}
        /\ f.parts \in PartsTo(ReceiversOf(f.entry_point))
        /\ f.next \in {"sign", "part", "log"} /\ (f.next = "log" => f.parts # <<>>)
    BY <1>1, <1>3, <1>4
  <2> QED
    BY <2>1, FrameSet
<1>6. g = h
  BY <1>1 DEF WalletFrames, FramesFor, FrameWith
<1>7. Grown(state, state')
  BY <1>1, <1>2, GrownSame
<1>8. calls' = Append(w, h)
  BY <1>2, <1>6
<1> HIDE DEF h, g, w
<1>9. /\ \A x, y : Unlogged(h, x, y) = Unlogged(f, x, y)
      /\ UnderWay(h) => UnderWay(f) /\ Uses(h) = Uses(f)
  BY <1>5 DEF Unlogged, UnderWay, Uses
<1>10. GapClosed(state, seen, f, state, seen, h)
  <2>1. SameGap(state, seen, state, seen)
    BY DEF SameGap
  <2> QED
    BY <1>1, <1>9, <2>1, SameGapClosed
<1> QED
  BY <1>1, <1>2, <1>5, <1>7, <1>8, <1>9, <1>10, WalletSameMessage DEF f, w

(* A message ends. *)
LEMMA WalletNonceLogged == ASSUME WalletInv, Wallet!log_nonce PROVE WalletInv'
<1> DEFINE f == Wallet!Top
           u == <<Wallet!Message.signer, Wallet!Message.nonce>>
           e == [seen EXCEPT !.nonces = seen.nonces \cup {u},
                             !.replayed = seen.replayed \/ u \in seen.nonces]
           rest == Tail(f.messages)
           w == Led!Waiting(calls)
           n == Len(calls) - 1
<1>0. Wallet!ComesTo("part")
  BY DEF Wallet!log_nonce
<1>1. /\ calls # <<>> /\ f \in WalletFrames /\ f.next = "part" /\ u = Uses(f)
      /\ Wallet!Waiting(calls) = w
      /\ state \in WalletStates /\ seen \in WalletEvents /\ Covered(state)
  BY <1>0, WalletAt DEF Uses
<1>2. /\ UsedUp(state, u) /\ u \notin seen.nonces /\ UnderWay(f)
      /\ \A j \in 1 .. n : UnderWay(w[j]) => Uses(w[j]) # u
      /\ NoncesTold(state, seen, w, n)
      /\ w \in Seq(WalletFrames) /\ Len(w) = n /\ n \in Nat
  <2>1. UnderWay(f)
    BY <1>1 DEF UnderWay
  <2> QED
    BY <1>1, <2>1, WalletTop DEF TopTold
<1>3. u \in PublicKeys \X Nat
  BY <1>1, UsesType
<1>4. seen' = e /\ state' = state
  BY DEF Wallet!log_nonce
<1> HIDE DEF u, f, w, n
<1>5. /\ e \in WalletEvents /\ e.balances = seen.balances /\ e.nonces = seen.nonces \cup {u}
      /\ ~ e.replayed
  BY <1>1, <1>2, <1>3 DEF WalletEvents, NoncesTold
<1> HIDE DEF e
<1>6. NoncesTold(state, e, w, n)
  BY <1>2, <1>5 DEF NoncesTold
<1>7. \A x \in Wallet!Currencies, y \in PublicKeys :
        e.balances[x][y] - Wallet!balance(state, x, y) = UnloggedTo(w, n, x, y)
  <2> TAKE x \in Wallet!Currencies, y \in PublicKeys
  <2>1. seen.balances[x][y] - Wallet!balance(state, x, y)
          = UnloggedTo(w, n, x, y) + Unlogged(f, x, y)
    BY <1>1, WalletTop DEF TopTold, f, w, n
  <2>2. Unlogged(f, x, y) = 0
    BY <1>1 DEF Unlogged
  <2>3. UnloggedTo(w, n, x, y) \in Int
    <3>1. \A i \in 1 .. n : w[i] \in WalletFrames
      BY <1>2, ElementOfSeq
    <3> DEFINE q == [i \in 1 .. n |-> Unlogged(w[i], x, y)]
    <3>2. \A i \in 1 .. n : q[i] \in Int
      BY <3>1, UnloggedType
    <3>3. UnloggedTo(w, n, x, y) = SumTo(q, n)
      BY DEF UnloggedTo
    <3> HIDE DEF q
    <3> QED
      BY <1>2, <3>2, <3>3, SumToNat
  <2> QED
    BY <1>5, <2>1, <2>2, <2>3
<1>8. CASE rest = <<>> /\ calls' = w
  <2>1. WalletRight(state, e, w, n)
    BY <1>1, <1>6, <1>7 DEF WalletRight, BalancesTold
  <2> QED
    BY <1>1, <1>4, <1>5, <1>8, <2>1, WalletPopped DEF w, n
<1>9. CASE rest # <<>> /\ Wallet!Continues([f EXCEPT !.messages = rest, !.next = "sign"])
  <2> DEFINE g == [f EXCEPT !.messages = rest, !.next = "sign"]
             h == FrameWith(f, f.hook, rest, f.parts, "sign")
  <2>1. rest \in Seq(WalletMessages) \ {<<>>}
    BY <1>1, <1>9, WalletFrame
  <2> HIDE DEF rest
  <2>2. h \in WalletFrames /\ h.next = "sign" /\ h.saved = f.saved
    <3>1. /\ f \in WalletFrames /\ f.hook \in Contracts \cup {None}
          /\ f.parts \in PartsTo(ReceiversOf(f.entry_point))
          /\ "sign" \in {"sign", "part", "log"} /\ "sign" # "log"
      BY <1>1, FrameParts DEF WalletFrames, FramesFor
    <3> QED
      BY <2>1, <3>1, FrameSet
  <2>3. g = h
    BY <1>1 DEF WalletFrames, FramesFor, FrameWith
  <2>4. calls' = Append(w, h)
    BY <1>1, <1>9, <2>3 DEF Wallet!Continues
  <2> HIDE DEF g, h
  <2>5. ~ UnderWay(h) /\ \A x, y : Unlogged(h, x, y) = 0
    BY <2>2 DEF UnderWay, Unlogged
  <2>6. \A x \in Wallet!Currencies, y \in PublicKeys :
          e.balances[x][y] - Wallet!balance(state, x, y)
            = UnloggedTo(w, n, x, y) + Unlogged(h, x, y)
    <3> TAKE x \in Wallet!Currencies, y \in PublicKeys
    <3>1. e.balances[x][y] \in Int /\ Wallet!balance(state, x, y) \in Int
      BY <1>1, <1>5, WalletParts DEF WalletEvents, KeyBalances
    <3> QED
      BY <1>7, <2>5, <3>1
  <2>7. TopTold(state, e, w, n, h)
    BY <1>6, <2>5, <2>6 DEF TopTold
  <2> QED
    BY <1>1, <1>4, <1>5, <2>2, <2>4, <2>7, WalletGoesOn DEF f, w, n
<1> QED
  BY <1>1, <1>8, <1>9 DEF Wallet!log_nonce, f, w

-----------------------------------------------------------------------------
LEMMA WalletNext == ASSUME WalletInv, Wallet!Next PROVE WalletInv'
<1>1. ASSUME NEW sender \in Partners \cup Contracts, NEW k \in PublicKeys,
             NEW amount \in WalletAmounts,
             Wallet!deposit_ccd(sender, k, amount) \/ Wallet!deposit_cis2_tokens(sender, k, amount)
      PROVE  WalletInv'
  <2>1. "ccd" \in Wallet!Currencies /\ "token" \in Wallet!Currencies
    BY DEF Wallet!Currencies
  <2> QED
    BY <1>1, <2>1, WalletDeposited DEF Wallet!deposit_ccd, Wallet!deposit_cis2_tokens
<1>2. ASSUME NEW sender, NEW batch \in SignedBatches,
             \/ Wallet!transfer_ccd(sender, batch) \/ Wallet!transfer_cis2_tokens(sender, batch)
             \/ Wallet!withdraw_ccd(sender, batch) \/ Wallet!withdraw_cis2_tokens(sender, batch)
      PROVE  WalletInv'
  <2>1. "ccd" \in Wallet!Currencies /\ "token" \in Wallet!Currencies
    BY DEF Wallet!Currencies
  <2> QED
    BY <1>2, <2>1, WalletExecuted
       DEF Wallet!transfer_ccd, Wallet!transfer_cis2_tokens, Wallet!withdraw_ccd,
           Wallet!withdraw_cis2_tokens
<1>3. ASSUME \/ \E sender \in Partners \cup Contracts, implementors \in WalletImplementors :
                   Wallet!contract_set_implementor(sender, implementors)
             \/ Wallet!Tick
      PROVE  WalletInv'
  <2>1. /\ state \in WalletStates /\ seen \in WalletEvents /\ Covered(state)
    BY DEF WalletInv, WalletRight
  <2>2. /\ state' \in WalletStates /\ seen' = seen /\ calls' = calls
        /\ state'.balances = state.balances /\ state'.holdings = state.holdings
        /\ state'.nonces_registry = state.nonces_registry
    <3>1. CASE \E sender \in Partners \cup Contracts, implementors \in WalletImplementors :
                  Wallet!contract_set_implementor(sender, implementors)
      BY <2>1, <3>1 DEF Wallet!contract_set_implementor, Wallet!Quietly, WalletStates
    <3>2. CASE Wallet!Tick
      BY <2>1, <3>2 DEF Wallet!Tick, WalletStates
    <3> QED
      BY <1>3, <3>1, <3>2
  <2>3. /\ \A x, y : Wallet!balance(state', x, y) = Wallet!balance(state, x, y)
        /\ \A x : KeysHave(state', x) = KeysHave(state, x)
    BY <2>2, SameBalances
  <2>4. Covered(state') /\ SameGap(state, seen, state', seen')
    BY <2>1, <2>2, <2>3 DEF Covered, SameGap
  <2>5. Grown(state, state')
    BY <2>1, <2>2, GrownSame
  <2> QED
    BY <2>1, <2>2, <2>4, <2>5, WalletStill
<1>4. ASSUME Wallet!HookRejects PROVE WalletInv'
  BY <1>4, WalletRejected DEF Wallet!HookRejects
<1>5. ASSUME \/ Wallet!sign \/ Wallet!move \/ Wallet!pay_out \/ Wallet!log_withdraw
             \/ Wallet!log_nonce \/ Wallet!HookReturns
      PROVE  WalletInv'
  BY <1>5, WalletSigned, WalletMoved, WalletPaidOut, WalletWithdrawLogged, WalletNonceLogged,
     WalletReturned
<1>6. ASSUME NEW sender \in Partners \cup Contracts,
             \/ \E k \in PublicKeys, amount \in WalletAmounts :
                   \/ Wallet!deposit_ccd(sender, k, amount)
                   \/ Wallet!deposit_cis2_tokens(sender, k, amount)
             \/ \E batch \in SignedBatches :
                   \/ Wallet!transfer_ccd(sender, batch) \/ Wallet!transfer_cis2_tokens(sender, batch)
                   \/ Wallet!withdraw_ccd(sender, batch) \/ Wallet!withdraw_cis2_tokens(sender, batch)
             \/ \E implementors \in WalletImplementors :
                   Wallet!contract_set_implementor(sender, implementors)
      PROVE  WalletInv'
  BY <1>1, <1>2, <1>3, <1>6
<1> QED
  BY <1>3, <1>4, <1>5, <1>6 DEF Wallet!Next, Wallet!Addresses

(* The properties are parts of it. *)
LEMMA WalletFundsAccounted == WalletInv => Wallet!FundsAccounted
<1> SUFFICES ASSUME WalletInv PROVE Wallet!FundsAccounted
  OBVIOUS
<1> SUFFICES ASSUME NEW c \in Wallet!Currencies
             PROVE  /\ \A k \in PublicKeys : Wallet!balance(state, c, k) >= 0
                    /\ Wallet!SumFunction([k \in PublicKeys |-> Wallet!balance(state, c, k)])
                         = state.holdings[c][Self]
  BY DEF Wallet!FundsAccounted
<1> DEFINE f == [k \in PublicKeys |-> Wallet!balance(state, c, k)]
<1>1. state \in WalletStates /\ Covered(state)
  BY DEF WalletInv, WalletRight
<1>2. \A k \in PublicKeys : Wallet!balance(state, c, k) \in Nat
  BY <1>1, WalletParts
<1>3. DOMAIN f = PublicKeys
  OBVIOUS
<1>4. SumOf(f, PublicKeys) = state.holdings[c][Self]
  BY <1>1 DEF Covered, KeysHave
<1> HIDE DEF f
<1>5. Wallet!SumFunction(f) = SumOf(f, DOMAIN f)
  BY DEF Wallet!SumFunction, Wallet!SumFunctionOnSet, Wallet!FoldFunctionOnSet,
         Wallet!MapThenFoldSet, SumOf, Adds
<1>6. Wallet!SumFunction(f) = state.holdings[c][Self]
  BY <1>3, <1>4, <1>5
<1> QED
  BY <1>2, <1>6 DEF f

LEMMA WalletTells == WalletInv => Wallet!LogTellsBalances /\ Wallet!SignedOnce
<1> SUFFICES ASSUME WalletInv PROVE Wallet!LogTellsBalances /\ Wallet!SignedOnce
  OBVIOUS
<1>1. /\ state \in WalletStates /\ seen \in WalletEvents
      /\ BalancesTold(state, seen, calls, Len(calls)) /\ ~ seen.replayed
  BY DEF WalletInv, WalletRight, NoncesTold
<1>2. ASSUME calls = <<>>, NEW c \in Wallet!Currencies, NEW k \in PublicKeys
      PROVE  Wallet!balance(state, c, k) = seen.balances[c][k]
  <2>1. Len(calls) = 0
    BY <1>2
  <2>2. UnloggedTo(calls, 0, c, k) = 0
    BY SumToNone DEF UnloggedTo
  <2>3. seen.balances[c][k] \in Int /\ Wallet!balance(state, c, k) \in Int
    BY <1>1, WalletParts DEF WalletEvents, KeyBalances
  <2>4. seen.balances[c][k] - Wallet!balance(state, c, k) = 0
    BY <1>1, <2>1, <2>2 DEF BalancesTold
  <2> QED
    BY <2>3, <2>4
<1> QED
  BY <1>1, <1>2 DEF Wallet!LogTellsBalances, Wallet!SignedOnce

-----------------------------------------------------------------------------
(* credential-registry *)

Credentials == [Holders -> CredentialEntries \cup {None}]
KeyNonces == [RevocationKeys -> Nat \cup {None}]

RegistryStates ==
    [issuer_metadata : Urls, revocation_keys : KeyNonces,
     all_revocation_keys : SUBSET RevocationKeys, credentials : Credentials,
     credential_schema : Urls, implementors : RegistryImplementors \cup {{}}, now : Nat]

RegistryEvents ==
    [issuer_metadata : Urls, keys : SUBSET RevocationKeys, schema : Urls,
     metadata : [Holders -> Urls \cup {None}], revoked : SUBSET Holders,
     signed : SUBSET Revocations, replayed : BOOLEAN]

\* A key has a nonce only as long as it is known, and once it is it stays so.
KeysKnown(s) == \A k \in RevocationKeys : s.revocation_keys[k] # None => k \in s.all_revocation_keys

Revoked(s, h) == s.credentials[h] # None /\ s.credentials[h].revoked

\* The events of credentials and of keys
CredentialsTold(s, e) ==
    /\ \A h \in Holders : Revoked(s, h) <=> h \in e.revoked
    /\ \A h \in Holders : s.credentials[h] # None => s.credentials[h].metadata_url = e.metadata[h]
KeysTold(s, e) ==
    /\ \A k \in RevocationKeys : s.revocation_keys[k] # None <=> k \in e.keys
    /\ s.issuer_metadata = e.issuer_metadata /\ s.credential_schema = e.schema

\* A message whose nonce has gone by, or whose key has
Spent(s, m) ==
    \/ /\ m.entry_point = "revokeCredentialHolder"
       /\ s.credentials[m.credential_id] # None
       /\ m.nonce < s.credentials[m.credential_id].revocation_nonce
    \/ /\ m.entry_point = "revokeCredentialOther"
       /\ m.key \in s.all_revocation_keys
       /\ s.revocation_keys[m.key] # None => m.nonce < s.revocation_keys[m.key]

AllSpent(s, signed) == \A m \in signed : Spent(s, m)

RegistryInv ==
    /\ state \in RegistryStates /\ seen \in RegistryEvents
    /\ KeysKnown(state)
    /\ CredentialsTold(state, seen) /\ KeysTold(state, seen)
    /\ AllSpent(state, seen.signed) /\ ~ seen.replayed

\* What a step keeps of the credentials that there are, and of the keys that are known
CredentialsKept(s, t) ==
    \A h \in Holders : s.credentials[h] # None
        => /\ t.credentials[h] # None
           /\ t.credentials[h].valid_until = s.credentials[h].valid_until
           /\ t.credentials[h].revocation_nonce >= s.credentials[h].revocation_nonce
KeysKept(s, t) ==
    /\ s.all_revocation_keys \subseteq t.all_revocation_keys
    /\ \A k \in s.all_revocation_keys : t.revocation_keys[k] # None
          => s.revocation_keys[k] # None /\ t.revocation_keys[k] >= s.revocation_keys[k]

-----------------------------------------------------------------------------
LEMMA RegistryTells == RegistryInv => Registry!LogTellsRegistry
<1> SUFFICES ASSUME RegistryInv PROVE Registry!LogTellsRegistry
  OBVIOUS
<1>1. CredentialsTold(state, seen) /\ KeysTold(state, seen) /\ seen \in RegistryEvents
  BY DEF RegistryInv
<1>2. ASSUME NEW h \in Holders
      PROVE  Registry!credential_status(h) = "Revoked" <=> Revoked(state, h)
  BY DEF Registry!credential_status, Registry!get_status, Revoked
<1>3. \A h \in Holders : Registry!credential_status(h) = "Revoked" <=> h \in seen.revoked
  BY <1>1, <1>2 DEF CredentialsTold
<1>4. \A h \in Holders : state.credentials[h] # None
                           => state.credentials[h].metadata_url = seen.metadata[h]
  BY <1>1 DEF CredentialsTold
<1>5. Registry!contract_revocation_keys = seen.keys
  <2>1. seen.keys \subseteq RevocationKeys
    BY <1>1 DEF RegistryEvents
  <2> QED
    BY <1>1, <2>1 DEF KeysTold, Registry!contract_revocation_keys
<1> QED
  BY <1>1, <1>3, <1>4, <1>5 DEF Registry!LogTellsRegistry, KeysTold

(* What has expired stays expired. *)
LEMMA RegistryExpired ==
    ASSUME state \in RegistryStates, state' \in RegistryStates,
           CredentialsKept(state, state'), state'.now >= state.now
    PROVE  Registry!StaysExpired
<1> SUFFICES ASSUME NEW h \in Holders,
                    state.credentials[h] # None, state.credentials[h].valid_until # None,
                    state.credentials[h].valid_until < state.now
             PROVE  Registry!credential_status(h)' \in {"Expired", "Revoked"}
  BY DEF Registry!StaysExpired
<1> DEFINE e == state'.credentials[h]
           n == state.credentials[h].valid_until
<1>1. e # None /\ e.valid_until = n
  BY DEF CredentialsKept
<1>2. n \in Nat /\ n # None
  <2>1. state.credentials[h] \in CredentialEntries
    BY DEF RegistryStates, Credentials
  <2> QED
    BY <2>1 DEF CredentialEntries
<1>3. state.now \in Nat /\ state'.now \in Nat
  BY DEF RegistryStates
<1>4. n < state.now
  OBVIOUS
<1> HIDE DEF n
<1>5. n < state'.now
  BY <1>2, <1>3, <1>4
<1>6. Registry!credential_status(h)'
        = IF e = None THEN "CredentialNotFound"
          ELSE IF e.revoked THEN "Revoked"
          ELSE IF e.valid_until # None /\ e.valid_until < state'.now THEN "Expired"
          ELSE IF state'.now < e.valid_from THEN "NotActivated" ELSE "Active"
  BY DEF Registry!credential_status, Registry!get_status
<1> HIDE DEF e
<1> QED
  BY <1>1, <1>2, <1>5, <1>6

(* What is spent stays spent, *)
LEMMA SpentStays ==
    ASSUME NEW s \in RegistryStates, NEW t \in RegistryStates,
           CredentialsKept(s, t), KeysKept(s, t), NEW m \in Revocations, Spent(s, m)
    PROVE  Spent(t, m)
<1>1. m.nonce \in Nat /\ m.credential_id \in Holders
  BY MessageAssumption
<1>2. CASE m.entry_point = "revokeCredentialHolder" /\ s.credentials[m.credential_id] # None
           /\ m.nonce < s.credentials[m.credential_id].revocation_nonce
  <2> DEFINE a == s.credentials[m.credential_id]
             b == t.credentials[m.credential_id]
  <2>1. b # None /\ b.revocation_nonce >= a.revocation_nonce
    BY <1>1, <1>2 DEF CredentialsKept
  <2>2. a \in CredentialEntries /\ b \in CredentialEntries
    BY <1>1, <1>2, <2>1 DEF RegistryStates, Credentials
  <2>3. a.revocation_nonce \in Nat /\ b.revocation_nonce \in Nat /\ m.nonce < a.revocation_nonce
    BY <1>2, <2>2 DEF CredentialEntries
  <2> HIDE DEF a
  <2>4. m.nonce < b.revocation_nonce
    BY <1>1, <2>1, <2>3
  <2> QED
    BY <1>2, <2>1, <2>4 DEF Spent
<1>3. CASE m.entry_point = "revokeCredentialOther" /\ m.key \in s.all_revocation_keys
           /\ (s.revocation_keys[m.key] # None => m.nonce < s.revocation_keys[m.key])
  <2> DEFINE a == s.revocation_keys[m.key]
             b == t.revocation_keys[m.key]
  <2>1. m.key \in t.all_revocation_keys
    BY <1>3 DEF KeysKept
  <2>2. CASE b # None
    <3>1. a # None /\ b >= a /\ m.nonce < a
      BY <1>3, <2>2 DEF KeysKept
    <3>2. m.key \in RevocationKeys
      BY <1>3 DEF RegistryStates
    <3>3. a \in Nat /\ b \in Nat
      BY <2>2, <3>1, <3>2 DEF RegistryStates, KeyNonces
    <3> HIDE DEF a, b
    <3>4. m.nonce < b
      BY <1>1, <3>1, <3>3
    <3> QED
      BY <1>3, <2>1, <3>4 DEF Spent, b
  <2>3. CASE b = None
    BY <1>3, <2>1, <2>3 DEF Spent
  <2> QED
    BY <2>2, <2>3
<1> QED
  BY <1>2, <1>3 DEF Spent

(* and so do all messages, with one more that is spent now. *)
LEMMA AllSpentStays ==
    ASSUME NEW s \in RegistryStates, NEW t \in RegistryStates, NEW signed \in SUBSET Revocations,
           CredentialsKept(s, t), KeysKept(s, t), AllSpent(s, signed)
    PROVE  AllSpent(t, signed)
  BY SpentStays DEF AllSpent

LEMMA AllSpentMore ==
    ASSUME NEW t, NEW signed, NEW m, AllSpent(t, signed), Spent(t, m)
    PROVE  AllSpent(t, signed \cup {m})
  BY DEF AllSpent

(* States without a change *)
LEMMA KeptSame ==
    ASSUME NEW s \in RegistryStates, NEW t
    PROVE  /\ t.credentials = s.credentials => CredentialsKept(s, t)
           /\ t.revocation_keys = s.revocation_keys /\ t.all_revocation_keys = s.all_revocation_keys
                => KeysKept(s, t) /\ (KeysKnown(s) => KeysKnown(t))
<1>1. ASSUME NEW h \in Holders, s.credentials[h] # None
      PROVE  s.credentials[h].revocation_nonce >= s.credentials[h].revocation_nonce
  <2>1. s.credentials[h] \in CredentialEntries
    BY <1>1 DEF RegistryStates, Credentials
  <2>2. s.credentials[h].revocation_nonce \in Nat
    BY <2>1 DEF CredentialEntries
  <2> QED
    BY <2>2
<1>2. ASSUME NEW k \in s.all_revocation_keys, s.revocation_keys[k] # None
      PROVE  s.revocation_keys[k] >= s.revocation_keys[k]
  <2>1. k \in RevocationKeys
    BY DEF RegistryStates
  <2>2. s.revocation_keys[k] \in Nat
    BY <1>2, <2>1 DEF RegistryStates, KeyNonces
  <2> QED
    BY <2>2
<1> QED
  BY <1>1, <1>2 DEF CredentialsKept, KeysKept, KeysKnown

-----------------------------------------------------------------------------
LEMMA RegistryInit == Registry!Init => RegistryInv
<1> SUFFICES ASSUME Registry!Init PROVE RegistryInv
  OBVIOUS
<1>1. PICK url \in Urls, keys \in SUBSET RevocationKeys :
        /\ state = [issuer_metadata     |-> url,
                    revocation_keys     |-> [k \in RevocationKeys |-> IF k \in keys THEN 0 ELSE None],
                    all_revocation_keys |-> keys,
                    credentials         |-> [h \in Holders |-> None],
                    credential_schema   |-> url,
                    implementors        |-> {},
                    now                 |-> 0]
        /\ seen = [issuer_metadata |-> url, keys |-> keys, schema |-> url,
                   metadata |-> [h \in Holders |-> None], revoked |-> {},
                   signed |-> {}, replayed |-> FALSE]
  BY DEF Registry!Init
<1> DEFINE n == [k \in RevocationKeys |-> IF k \in keys THEN 0 ELSE None]
           c == [h \in Holders |-> None]
<1>2. /\ n \in KeyNonces /\ c \in Credentials /\ c \in [Holders -> Urls \cup {None}]
      /\ \A k \in RevocationKeys : n[k] = IF k \in keys THEN 0 ELSE None
      /\ \A h \in Holders : c[h] = None
  BY DEF KeyNonces, Credentials
<1>3. \A k \in RevocationKeys : n[k] # None <=> k \in keys
  BY <1>2, NoneAssumption
<1> HIDE DEF n, c
<1>4. /\ state = [issuer_metadata |-> url, revocation_keys |-> n, all_revocation_keys |-> keys,
                  credentials |-> c, credential_schema |-> url, implementors |-> {}, now |-> 0]
      /\ seen = [issuer_metadata |-> url, keys |-> keys, schema |-> url, metadata |-> c,
                 revoked |-> {}, signed |-> {}, replayed |-> FALSE]
  BY <1>1 DEF n, c
<1>5. state \in RegistryStates /\ seen \in RegistryEvents
  BY <1>2, <1>4 DEF RegistryStates, RegistryEvents
<1>6. KeysKnown(state) /\ KeysTold(state, seen)
  BY <1>3, <1>4 DEF KeysKnown, KeysTold
<1>7. CredentialsTold(state, seen)
  BY <1>2, <1>4 DEF CredentialsTold, Revoked
<1>8. AllSpent(state, seen.signed) /\ ~ seen.replayed
  BY <1>4 DEF AllSpent
<1> QED
  BY <1>5, <1>6, <1>7, <1>8 DEF RegistryInv

-----------------------------------------------------------------------------
(* One credential changes: e is what is recorded of h now. *)
CredentialSet(s, t, h, e) ==
    /\ t.credentials \in Credentials
    /\ t.credentials[h] = e
    /\ \A g \in Holders : g # h => t.credentials[g] = s.credentials[g]

LEMMA CredentialIsSet ==
    ASSUME NEW s \in RegistryStates, NEW h \in Holders, NEW e \in CredentialEntries
    PROVE  /\ [s EXCEPT !.credentials = [s.credentials EXCEPT ![h] = e]] \in RegistryStates
           /\ CredentialSet(s, [s EXCEPT !.credentials = [s.credentials EXCEPT ![h] = e]], h, e)
<1> DEFINE q == [s.credentials EXCEPT ![h] = e]
           t == [s EXCEPT !.credentials = q]
<1>1. s.credentials \in Credentials
  BY DEF RegistryStates
<1>2. q \in Credentials /\ q[h] = e /\ \A g \in Holders : g # h => q[g] = s.credentials[g]
  BY <1>1 DEF Credentials
<1> HIDE DEF q
<1>3. t \in RegistryStates /\ t.credentials = q
  BY <1>2 DEF RegistryStates
<1> QED
  BY <1>2, <1>3 DEF CredentialSet, q

LEMMA SetKept ==
    ASSUME NEW s \in RegistryStates, NEW t, NEW h \in Holders, NEW e, CredentialSet(s, t, h, e),
           e # None,
           s.credentials[h] # None =>
               /\ e.valid_until = s.credentials[h].valid_until
               /\ e.revocation_nonce >= s.credentials[h].revocation_nonce
    PROVE  CredentialsKept(s, t)
<1> SUFFICES ASSUME NEW g \in Holders, s.credentials[g] # None
             PROVE  /\ t.credentials[g] # None
                    /\ t.credentials[g].valid_until = s.credentials[g].valid_until
                    /\ t.credentials[g].revocation_nonce >= s.credentials[g].revocation_nonce
  BY DEF CredentialsKept
<1>1. CASE g = h
  BY <1>1 DEF CredentialSet
<1>2. CASE g # h
  <2>1. t.credentials[g] = s.credentials[g]
    BY <1>2 DEF CredentialSet
  <2>2. CredentialsKept(s, s)
    BY KeptSame
  <2> QED
    BY <2>1, <2>2 DEF CredentialsKept
<1> QED
  BY <1>1, <1>2

LEMMA SetTold ==
    ASSUME NEW s, NEW t, NEW h \in Holders, NEW e, CredentialSet(s, t, h, e), e # None,
           NEW a, NEW b, CredentialsTold(s, a),
           e.revoked <=> h \in b.revoked,
           \A g \in Holders : g # h => (g \in b.revoked <=> g \in a.revoked),
           e.metadata_url = b.metadata[h],
           \A g \in Holders : g # h => b.metadata[g] = a.metadata[g]
    PROVE  CredentialsTold(t, b)
<1>1. ASSUME NEW g \in Holders
      PROVE  /\ Revoked(t, g) <=> g \in b.revoked
             /\ t.credentials[g] # None => t.credentials[g].metadata_url = b.metadata[g]
  <2>1. CASE g = h
    BY <2>1 DEF CredentialSet, Revoked
  <2>2. CASE g # h
    <3>1. t.credentials[g] = s.credentials[g]
      BY <2>2 DEF CredentialSet
    <3>2. Revoked(t, g) <=> Revoked(s, g)
      BY <3>1 DEF Revoked
    <3> QED
      BY <2>2, <3>1, <3>2 DEF CredentialsTold
  <2> QED
    BY <2>1, <2>2
<1> QED
  BY <1>1 DEF CredentialsTold

-----------------------------------------------------------------------------
(* A step that uses no signed message *)
LEMMA RegistryDone ==
    ASSUME RegistryInv, state' \in RegistryStates, seen' \in RegistryEvents,
           CredentialsKept(state, state'), KeysKept(state, state'), KeysKnown(state'),
           CredentialsTold(state', seen'), KeysTold(state', seen'),
           seen'.signed = seen.signed, ~ seen'.replayed, state'.now >= state.now
    PROVE  RegistryInv' /\ Registry!StaysExpired
<1>1. state \in RegistryStates /\ seen.signed \in SUBSET Revocations /\ AllSpent(state, seen.signed)
  BY DEF RegistryInv, RegistryEvents
<1>2. AllSpent(state', seen'.signed)
  BY <1>1, AllSpentStays
<1>3. Registry!StaysExpired
  BY <1>1, RegistryExpired
<1> QED
  BY <1>2, <1>3 DEF RegistryInv

(* A step about credentials only *)
SameKeys ==
    /\ state'.revocation_keys = state.revocation_keys
    /\ state'.all_revocation_keys = state.all_revocation_keys
    /\ state'.issuer_metadata = state.issuer_metadata
    /\ state'.credential_schema = state.credential_schema
    /\ state'.now = state.now
    /\ seen'.keys = seen.keys
    /\ seen'.issuer_metadata = seen.issuer_metadata
    /\ seen'.schema = seen.schema

LEMMA SameKeysKept ==
    ASSUME RegistryInv, SameKeys
    PROVE  /\ KeysKept(state, state') /\ KeysKnown(state') /\ KeysTold(state', seen')
           /\ state'.now >= state.now
<1>1. state \in RegistryStates /\ KeysKnown(state) /\ KeysTold(state, seen)
  BY DEF RegistryInv
<1>2. KeysKept(state, state') /\ KeysKnown(state')
  BY <1>1, KeptSame DEF SameKeys
<1>3. KeysTold(state', seen')
  BY <1>1 DEF KeysTold, SameKeys
<1>4. state.now \in Nat /\ state'.now = state.now
  BY <1>1 DEF RegistryStates, SameKeys
<1> QED
  BY <1>2, <1>3, <1>4

LEMMA RegistryRegister ==
    ASSUME RegistryInv, NEW sender, NEW h \in Holders, NEW info \in CredentialInfos, NEW url \in Urls,
           Registry!contract_register_credential(sender, h, info, url)
    PROVE  RegistryInv' /\ Registry!StaysExpired
<1> DEFINE e == [holder_revocable |-> info.holder_revocable, valid_from |-> info.valid_from,
                 valid_until |-> info.valid_until, metadata_url |-> url,
                 revocation_nonce |-> 0, revoked |-> FALSE]
           m == [seen.metadata EXCEPT ![h] = url]
           t == [state EXCEPT !.credentials = [state.credentials EXCEPT ![h] = e]]
<1>1. /\ state \in RegistryStates /\ seen \in RegistryEvents /\ CredentialsTold(state, seen)
      /\ ~ seen.replayed
  BY DEF RegistryInv
<1>2. state.credentials[h] = None /\ state' = t /\ seen' = [seen EXCEPT !.metadata = m]
  BY DEF Registry!contract_register_credential, Registry!NotRegistered
<1>3. info \in [holder_revocable : BOOLEAN, valid_from : Nat, valid_until : Nat \cup {None}]
  BY RequestAssumption
<1>4. e \in CredentialEntries /\ e.metadata_url = url /\ ~ e.revoked
  BY <1>3 DEF CredentialEntries
<1> HIDE DEF e
<1>5. e # None
  BY <1>4, NoneAssumption
<1>6. t \in RegistryStates /\ CredentialSet(state, t, h, e)
  BY <1>1, <1>4, CredentialIsSet
<1> DEFINE q == [state.credentials EXCEPT ![h] = e]
<1> HIDE DEF q
<1>7. state' = [state EXCEPT !.credentials = q]
  BY <1>2 DEF q
<1>8. m \in [Holders -> Urls \cup {None}] /\ m[h] = url
      /\ \A g \in Holders : g # h => m[g] = seen.metadata[g]
  BY <1>1 DEF RegistryEvents
<1> HIDE DEF m
<1>9. /\ seen' \in RegistryEvents /\ seen'.metadata = m /\ seen'.revoked = seen.revoked
      /\ seen'.signed = seen.signed
  BY <1>1, <1>2, <1>8 DEF RegistryEvents
<1>10. seen'.replayed <=> seen.replayed
  BY <1>1, <1>2 DEF RegistryEvents
<1>11. SameKeys
  BY <1>1, <1>2, <1>7 DEF SameKeys, RegistryStates, RegistryEvents
<1>12. CredentialsKept(state, state')
  BY <1>1, <1>2, <1>5, <1>6, SetKept
<1>13. h \notin seen.revoked
  BY <1>1, <1>2 DEF CredentialsTold, Revoked
<1>14. CredentialsTold(state', seen')
  <2>1. CredentialSet(state, state', h, e)
    BY <1>2, <1>6
  <2>2. e.revoked <=> h \in seen'.revoked
    BY <1>4, <1>9, <1>13
  <2>3. \A g \in Holders : g # h => (g \in seen'.revoked <=> g \in seen.revoked)
    BY <1>9
  <2>4. \A g \in Holders : g # h => seen'.metadata[g] = seen.metadata[g]
    BY <1>8, <1>9
  <2>5. e.metadata_url = seen'.metadata[h]
    BY <1>4, <1>8, <1>9
  <2> QED
    BY <1>1, <1>5, <2>1, <2>2, <2>3, <2>4, <2>5, SetTold
<1>15. state' \in RegistryStates
  BY <1>2, <1>6
<1> QED
  BY <1>1, <1>9, <1>10, <1>11, <1>12, <1>14, <1>15, SameKeysKept, RegistryDone

(* A credential is revoked, or restored. *)
LEMMA EntryRevoked ==
    ASSUME NEW a \in CredentialEntries, NEW v \in BOOLEAN
    PROVE  /\ [a EXCEPT !.revoked = v] \in CredentialEntries
           /\ [a EXCEPT !.revoked = v].revoked <=> v
           /\ [a EXCEPT !.revoked = v].valid_until = a.valid_until
           /\ [a EXCEPT !.revoked = v].metadata_url = a.metadata_url
           /\ [a EXCEPT !.revoked = v].revocation_nonce = a.revocation_nonce
           /\ a.revocation_nonce \in Nat
  BY DEF CredentialEntries

LEMMA RevokeTold ==
    ASSUME NEW e \in RegistryEvents, NEW h \in Holders
    PROVE  /\ Registry!RevokeEvent(e, h) \in RegistryEvents
           /\ Registry!RevokeEvent(e, h).revoked = e.revoked \cup {h}
           /\ Registry!RevokeEvent(e, h).metadata = e.metadata
           /\ Registry!RevokeEvent(e, h).signed = e.signed
           /\ Registry!RevokeEvent(e, h).replayed <=> e.replayed
           /\ Registry!RevokeEvent(e, h).keys = e.keys
           /\ Registry!RevokeEvent(e, h).issuer_metadata = e.issuer_metadata
           /\ Registry!RevokeEvent(e, h).schema = e.schema
<1> DEFINE r == e.revoked \cup {h}
<1>1. Registry!RevokeEvent(e, h) = [e EXCEPT !.revoked = r]
  BY DEF Registry!RevokeEvent
<1>2. r \in SUBSET Holders
  BY DEF RegistryEvents
<1> HIDE DEF r
<1>3. /\ [e EXCEPT !.revoked = r] \in RegistryEvents
      /\ [e EXCEPT !.revoked = r].revoked = r
      /\ [e EXCEPT !.revoked = r].metadata = e.metadata
      /\ [e EXCEPT !.revoked = r].signed = e.signed
      /\ [e EXCEPT !.revoked = r].replayed <=> e.replayed
      /\ [e EXCEPT !.revoked = r].keys = e.keys
      /\ [e EXCEPT !.revoked = r].issuer_metadata = e.issuer_metadata
      /\ [e EXCEPT !.revoked = r].schema = e.schema
  BY <1>2 DEF RegistryEvents
<1> QED
  BY <1>1, <1>3 DEF r

LEMMA KeptTold ==
    ASSUME NEW e \in RegistryEvents, NEW m \in Revocations, m \notin e.signed, ~ e.replayed
    PROVE  /\ Registry!Kept(e, m) \in RegistryEvents
           /\ Registry!Kept(e, m).revoked = e.revoked
           /\ Registry!Kept(e, m).metadata = e.metadata
           /\ Registry!Kept(e, m).signed = e.signed \cup {m}
           /\ ~ Registry!Kept(e, m).replayed
           /\ Registry!Kept(e, m).keys = e.keys
           /\ Registry!Kept(e, m).issuer_metadata = e.issuer_metadata
           /\ Registry!Kept(e, m).schema = e.schema
<1> DEFINE r == e.signed \cup {m}
           a == [e EXCEPT !.signed = r]
           v == e.replayed \/ m \in e.signed
           b == [a EXCEPT !.replayed = v]
<1>1. Registry!Kept(e, m) = b
  BY DEF Registry!Kept
<1>2. r \in SUBSET Revocations /\ ~ v /\ v \in BOOLEAN
  BY DEF RegistryEvents
<1> HIDE DEF r, v
<1>3. /\ a \in RegistryEvents /\ a.revoked = e.revoked /\ a.metadata = e.metadata
      /\ a.signed = r /\ a.keys = e.keys /\ a.issuer_metadata = e.issuer_metadata
      /\ a.schema = e.schema
  BY <1>2 DEF RegistryEvents
<1> HIDE DEF a
<1>4. /\ b \in RegistryEvents /\ b.revoked = a.revoked /\ b.metadata = a.metadata
      /\ b.signed = a.signed /\ b.keys = a.keys /\ b.issuer_metadata = a.issuer_metadata
      /\ b.schema = a.schema /\ (b.replayed <=> v)
  BY <1>2, <1>3 DEF RegistryEvents
<1> QED
  BY <1>1, <1>2, <1>3, <1>4 DEF r

LEMMA RegistryIssuerRevokes ==
    ASSUME RegistryInv, NEW sender, NEW h \in Holders,
           Registry!contract_revoke_credential_issuer(sender, h)
    PROVE  RegistryInv' /\ Registry!StaysExpired
<1> DEFINE a == state.credentials[h]
           e == [a EXCEPT !.revoked = TRUE]
           q == [state.credentials EXCEPT ![h] = e]
           t == [state EXCEPT !.credentials = q]
<1>1. /\ state \in RegistryStates /\ seen \in RegistryEvents /\ CredentialsTold(state, seen)
      /\ ~ seen.replayed
  BY DEF RegistryInv
<1>2. a # None /\ state' = t /\ seen' = Registry!RevokeEvent(seen, h)
  BY DEF Registry!contract_revoke_credential_issuer, Registry!revoke_credential,
         Registry!Revocable, Registry!credential_status
<1>3. a \in CredentialEntries
  BY <1>1, <1>2 DEF RegistryStates, Credentials
<1>4. /\ e \in CredentialEntries /\ e.revoked /\ e.valid_until = a.valid_until
      /\ e.metadata_url = a.metadata_url /\ e.revocation_nonce = a.revocation_nonce
      /\ a.revocation_nonce \in Nat
  BY <1>3, EntryRevoked
<1> HIDE DEF e
<1>5. e # None
  BY <1>4, NoneAssumption
<1>6. t \in RegistryStates /\ CredentialSet(state, t, h, e)
  BY <1>1, <1>4, CredentialIsSet
<1>7. state' \in RegistryStates /\ CredentialSet(state, state', h, e)
  BY <1>2, <1>6
<1> HIDE DEF q
<1>8. /\ seen' \in RegistryEvents /\ seen'.revoked = seen.revoked \cup {h}
      /\ seen'.metadata = seen.metadata /\ seen'.signed = seen.signed
      /\ (seen'.replayed <=> seen.replayed) /\ seen'.keys = seen.keys
      /\ seen'.issuer_metadata = seen.issuer_metadata /\ seen'.schema = seen.schema
  BY <1>1, <1>2, RevokeTold
<1>9. SameKeys
  BY <1>1, <1>2, <1>8 DEF SameKeys, RegistryStates
<1>10. CredentialsKept(state, state')
  <2>1. e.revocation_nonce >= a.revocation_nonce
    BY <1>4
  <2> QED
    BY <1>1, <1>4, <1>5, <1>7, <2>1, SetKept
<1>11. CredentialsTold(state', seen')
  <2>1. e.metadata_url = seen'.metadata[h]
    BY <1>1, <1>2, <1>4, <1>8 DEF CredentialsTold
  <2>2. e.revoked <=> h \in seen'.revoked
    BY <1>4, <1>8
  <2>3. \A g \in Holders : g # h => (g \in seen'.revoked <=> g \in seen.revoked)
    BY <1>8
  <2>4. \A g \in Holders : g # h => seen'.metadata[g] = seen.metadata[g]
    BY <1>8
  <2> QED
    BY <1>1, <1>5, <1>7, <2>1, <2>2, <2>3, <2>4, SetTold
<1> QED
  BY <1>1, <1>7, <1>8, <1>9, <1>10, <1>11, SameKeysKept, RegistryDone

LEMMA RegistryRestores ==
    ASSUME RegistryInv, NEW sender, NEW h \in Holders,
           Registry!contract_restore_credential(sender, h)
    PROVE  RegistryInv' /\ Registry!StaysExpired
<1> DEFINE a == state.credentials[h]
           e == [a EXCEPT !.revoked = FALSE]
           q == [state.credentials EXCEPT ![h] = e]
           t == [state EXCEPT !.credentials = q]
           r == seen.revoked \ {h}
<1>1. /\ state \in RegistryStates /\ seen \in RegistryEvents /\ CredentialsTold(state, seen)
      /\ ~ seen.replayed
  BY DEF RegistryInv
<1>2. a # None /\ state' = t /\ seen' = [seen EXCEPT !.revoked = r]
  BY DEF Registry!contract_restore_credential, Registry!credential_status
<1>3. a \in CredentialEntries
  BY <1>1, <1>2 DEF RegistryStates, Credentials
<1>4. /\ e \in CredentialEntries /\ ~ e.revoked /\ e.valid_until = a.valid_until
      /\ e.metadata_url = a.metadata_url /\ e.revocation_nonce = a.revocation_nonce
      /\ a.revocation_nonce \in Nat
  BY <1>3, EntryRevoked
<1> HIDE DEF e
<1>5. e # None
  BY <1>4, NoneAssumption
<1>6. t \in RegistryStates /\ CredentialSet(state, t, h, e)
  BY <1>1, <1>4, CredentialIsSet
<1>7. state' \in RegistryStates /\ CredentialSet(state, state', h, e)
  BY <1>2, <1>6
<1> HIDE DEF q
<1>r. r \in SUBSET Holders /\ h \notin r
      /\ \A g \in Holders : g # h => (g \in r <=> g \in seen.revoked)
  BY <1>1 DEF RegistryEvents
<1> HIDE DEF r
<1>8. /\ seen' \in RegistryEvents /\ seen'.revoked = r
      /\ seen'.metadata = seen.metadata /\ seen'.signed = seen.signed
      /\ (seen'.replayed <=> seen.replayed) /\ seen'.keys = seen.keys
      /\ seen'.issuer_metadata = seen.issuer_metadata /\ seen'.schema = seen.schema
  BY <1>1, <1>2, <1>r DEF RegistryEvents
<1>9. SameKeys
  BY <1>1, <1>2, <1>8 DEF SameKeys, RegistryStates
<1>10. CredentialsKept(state, state')
  <2>1. e.revocation_nonce >= a.revocation_nonce
    BY <1>4
  <2> QED
    BY <1>1, <1>4, <1>5, <1>7, <2>1, SetKept
<1>11. CredentialsTold(state', seen')
  <2>1. e.metadata_url = seen'.metadata[h]
    BY <1>1, <1>2, <1>4, <1>8 DEF CredentialsTold
  <2>2. e.revoked <=> h \in seen'.revoked
    BY <1>4, <1>8, <1>r
  <2>3. \A g \in Holders : g # h => (g \in seen'.revoked <=> g \in seen.revoked)
    BY <1>8, <1>r
  <2>4. \A g \in Holders : g # h => seen'.metadata[g] = seen.metadata[g]
    BY <1>8
  <2> QED
    BY <1>1, <1>5, <1>7, <2>1, <2>2, <2>3, <2>4, SetTold
<1> QED
  BY <1>1, <1>7, <1>8, <1>9, <1>10, <1>11, SameKeysKept, RegistryDone

(* A message whose nonce is accepted is not spent. *)
LEMMA AcceptedUnspent ==
    ASSUME state \in RegistryStates, NEW m \in Revocations,
           \/ /\ m.entry_point = "revokeCredentialHolder"
              /\ m.nonce = state.credentials[m.credential_id].revocation_nonce
           \/ /\ m.entry_point = "revokeCredentialOther"
              /\ state.revocation_keys[m.key] # None
              /\ m.nonce = state.revocation_keys[m.key]
    PROVE  ~ Spent(state, m)
<1>1. m.nonce \in Nat
  BY MessageAssumption
<1>2. ~ (m.nonce < m.nonce)
  BY <1>1
<1> QED
  BY <1>2 DEF Spent

LEMMA RegistryHolderRevokes ==
    ASSUME RegistryInv, NEW sender, NEW m \in Revocations,
           Registry!contract_revoke_credential_holder(sender, m)
    PROVE  RegistryInv' /\ Registry!StaysExpired
<1> DEFINE h == m.credential_id
           a == state.credentials[h]
           e == [a EXCEPT !.revoked = TRUE]
           s == [state EXCEPT !.credentials = [state.credentials EXCEPT ![h] = e]]
           n == a.revocation_nonce
           k == n + 1
           f == [e EXCEPT !.revocation_nonce = k]
           t == [s EXCEPT !.credentials = [s.credentials EXCEPT ![h] = f]]
           kept == Registry!Kept(seen, m)
<1>1. /\ state \in RegistryStates /\ seen \in RegistryEvents /\ CredentialsTold(state, seen)
      /\ ~ seen.replayed /\ AllSpent(state, seen.signed) /\ h \in Holders
  BY MessageAssumption DEF RegistryInv
<1>2. /\ a # None /\ seen' = Registry!RevokeEvent(kept, h)
      /\ m.nonce = n /\ m.entry_point = "revokeCredentialHolder"
  BY DEF Registry!contract_revoke_credential_holder, Registry!Authorized
<1>3. a \in CredentialEntries
  BY <1>1, <1>2 DEF RegistryStates, Credentials
<1>4. /\ e \in CredentialEntries /\ e.revoked /\ e.valid_until = a.valid_until
      /\ e.metadata_url = a.metadata_url /\ e.revocation_nonce = n /\ n \in Nat
  BY <1>3, EntryRevoked
<1>5. s \in RegistryStates /\ CredentialSet(state, s, h, e)
  BY <1>1, <1>4, CredentialIsSet
<1>6. s.credentials[h] = e
  BY <1>5 DEF CredentialSet
<1>7. state' = t
  <2>1. Registry!revoke_credential(state, h) = s
    BY DEF Registry!revoke_credential
  <2> HIDE DEF s
  <2>2. state' = [s EXCEPT !.credentials[h].revocation_nonce = s.credentials[h].revocation_nonce + 1]
    BY <2>1 DEF Registry!contract_revoke_credential_holder
  <2> HIDE DEF e
  <2> QED
    BY <1>4, <1>6, <2>2
<1> DEFINE p == [state.credentials EXCEPT ![h] = e]
           q == [s.credentials EXCEPT ![h] = f]
<1>8. state' = [[state EXCEPT !.credentials = p] EXCEPT !.credentials = q]
  BY <1>7
<1> HIDE DEF p, q, s, e
<1>9. k \in Nat /\ k >= n /\ n < k
  BY <1>4
<1> HIDE DEF k
<1>10. /\ f \in CredentialEntries /\ f.revoked /\ f.valid_until = a.valid_until
       /\ f.metadata_url = a.metadata_url /\ f.revocation_nonce = k
  BY <1>4, <1>9 DEF CredentialEntries
<1> HIDE DEF f
<1>11. f # None
  BY <1>10, NoneAssumption
<1>12. t \in RegistryStates /\ CredentialSet(s, t, h, f)
  BY <1>1, <1>5, <1>10, CredentialIsSet
<1>13. state' \in RegistryStates /\ CredentialSet(state, state', h, f)
  BY <1>5, <1>7, <1>12 DEF CredentialSet
<1>14. ~ Spent(state, m) /\ m \notin seen.signed
  BY <1>1, <1>2, AcceptedUnspent DEF AllSpent
<1>15. /\ kept \in RegistryEvents /\ kept.revoked = seen.revoked
       /\ kept.metadata = seen.metadata /\ kept.signed = seen.signed \cup {m}
       /\ ~ kept.replayed /\ kept.keys = seen.keys
       /\ kept.issuer_metadata = seen.issuer_metadata /\ kept.schema = seen.schema
  BY <1>1, <1>14, KeptTold
<1> HIDE DEF kept
<1>16. /\ seen' \in RegistryEvents /\ seen'.revoked = seen.revoked \cup {h}
       /\ seen'.metadata = seen.metadata /\ seen'.signed = seen.signed \cup {m}
       /\ ~ seen'.replayed /\ seen'.keys = seen.keys
       /\ seen'.issuer_metadata = seen.issuer_metadata /\ seen'.schema = seen.schema
  BY <1>1, <1>2, <1>15, RevokeTold
<1>17. SameKeys
  BY <1>1, <1>8, <1>16 DEF SameKeys, RegistryStates
<1>18. CredentialsKept(state, state')
  BY <1>1, <1>9, <1>10, <1>11, <1>13, SetKept
<1>19. CredentialsTold(state', seen')
  <2>1. f.metadata_url = seen'.metadata[h]
    BY <1>1, <1>2, <1>10, <1>16 DEF CredentialsTold
  <2>2. f.revoked <=> h \in seen'.revoked
    BY <1>10, <1>16
  <2>3. \A g \in Holders : g # h => (g \in seen'.revoked <=> g \in seen.revoked)
    BY <1>16
  <2>4. \A g \in Holders : g # h => seen'.metadata[g] = seen.metadata[g]
    BY <1>16
  <2> HIDE DEF h
  <2> QED
    BY <1>1, <1>11, <1>13, <2>1, <2>2, <2>3, <2>4, SetTold
<1>20. KeysKept(state, state') /\ KeysKnown(state') /\ KeysTold(state', seen')
       /\ state'.now >= state.now
  BY <1>17, SameKeysKept
<1>21. Spent(state', m)
  <2>1. state'.credentials[h] = f
    BY <1>13 DEF CredentialSet
  <2> QED
    BY <1>2, <1>9, <1>10, <1>11, <2>1 DEF Spent
<1>22. AllSpent(state', seen'.signed)
  <2>1. seen.signed \in SUBSET Revocations
    BY <1>1 DEF RegistryEvents
  <2>2. AllSpent(state', seen.signed)
    BY <1>1, <1>13, <1>18, <1>20, <2>1, AllSpentStays
  <2> QED
    BY <1>16, <1>21, <2>2, AllSpentMore
<1>23. Registry!StaysExpired
  BY <1>1, <1>13, <1>18, <1>20, RegistryExpired
<1> QED
  BY <1>13, <1>16, <1>19, <1>20, <1>22, <1>23 DEF RegistryInv

LEMMA RegistryOtherRevokes ==
    ASSUME RegistryInv, NEW sender, NEW m \in Revocations,
           Registry!contract_revoke_credential_other(sender, m)
    PROVE  RegistryInv' /\ Registry!StaysExpired
<1> DEFINE h == m.credential_id
           x == m.key
           a == state.credentials[h]
           e == [a EXCEPT !.revoked = TRUE]
           q == [state.credentials EXCEPT ![h] = e]
           s == [state EXCEPT !.credentials = q]
           n == state.revocation_keys[x]
           k == n + 1
           p == [state.revocation_keys EXCEPT ![x] = k]
           kept == Registry!Kept(seen, m)
<1>1. /\ state \in RegistryStates /\ seen \in RegistryEvents /\ CredentialsTold(state, seen)
      /\ ~ seen.replayed /\ AllSpent(state, seen.signed) /\ h \in Holders
      /\ KeysKnown(state) /\ KeysTold(state, seen)
  BY MessageAssumption DEF RegistryInv
<1>2. /\ a # None /\ seen' = Registry!RevokeEvent(kept, h)
      /\ x \in RevocationKeys /\ n # None
      /\ m.nonce = n /\ m.entry_point = "revokeCredentialOther"
  BY DEF Registry!contract_revoke_credential_other, Registry!Authorized
<1>3. a \in CredentialEntries /\ n \in Nat /\ state.revocation_keys \in KeyNonces
  BY <1>1, <1>2 DEF RegistryStates, Credentials, KeyNonces
<1>4. /\ e \in CredentialEntries /\ e.revoked /\ e.valid_until = a.valid_until
      /\ e.metadata_url = a.metadata_url /\ e.revocation_nonce = a.revocation_nonce
      /\ a.revocation_nonce \in Nat
  BY <1>3, EntryRevoked
<1> HIDE DEF e
<1>5. e # None
  BY <1>4, NoneAssumption
<1>6. s \in RegistryStates /\ CredentialSet(state, s, h, e)
  BY <1>1, <1>4, CredentialIsSet
<1> HIDE DEF q
<1>7. s.revocation_keys = state.revocation_keys
  BY <1>1 DEF RegistryStates
<1>8. state' = [s EXCEPT !.revocation_keys = p]
  <2>1. Registry!revoke_credential(state, h) = s
    BY DEF Registry!revoke_credential, q, e
  <2> HIDE DEF s
  <2>2. state' = [s EXCEPT !.revocation_keys[x] = s.revocation_keys[x] + 1]
    BY <2>1 DEF Registry!contract_revoke_credential_other
  <2> QED
    BY <1>7, <2>2
<1>9. k \in Nat /\ k >= n /\ n < k /\ k # None
  BY <1>3, NoneAssumption
<1> HIDE DEF k
<1>10. p \in KeyNonces /\ \A y \in RevocationKeys : p[y] = IF y = x THEN k ELSE state.revocation_keys[y]
  BY <1>2, <1>3, <1>9 DEF KeyNonces
<1> HIDE DEF p
<1>11. /\ state' \in RegistryStates /\ state'.revocation_keys = p
       /\ state'.credentials = s.credentials
       /\ state'.all_revocation_keys = state.all_revocation_keys
       /\ state'.issuer_metadata = state.issuer_metadata
       /\ state'.credential_schema = state.credential_schema
       /\ state'.now = state.now
  BY <1>1, <1>6, <1>8, <1>10 DEF RegistryStates
<1> HIDE DEF s
<1>12. CredentialSet(state, state', h, e)
  BY <1>6, <1>11 DEF CredentialSet
<1>13. ~ Spent(state, m) /\ m \notin seen.signed
  BY <1>1, <1>2, AcceptedUnspent DEF AllSpent
<1>14. /\ kept \in RegistryEvents /\ kept.revoked = seen.revoked
       /\ kept.metadata = seen.metadata /\ kept.signed = seen.signed \cup {m}
       /\ ~ kept.replayed /\ kept.keys = seen.keys
       /\ kept.issuer_metadata = seen.issuer_metadata /\ kept.schema = seen.schema
  BY <1>1, <1>13, KeptTold
<1> HIDE DEF kept
<1>15. /\ seen' \in RegistryEvents /\ seen'.revoked = seen.revoked \cup {h}
       /\ seen'.metadata = seen.metadata /\ seen'.signed = seen.signed \cup {m}
       /\ ~ seen'.replayed /\ seen'.keys = seen.keys
       /\ seen'.issuer_metadata = seen.issuer_metadata /\ seen'.schema = seen.schema
  BY <1>1, <1>2, <1>14, RevokeTold
<1>16. CredentialsKept(state, state')
  <2>1. e.revocation_nonce >= a.revocation_nonce
    BY <1>4
  <2> QED
    BY <1>1, <1>4, <1>5, <1>12, <2>1, SetKept
<1>17. CredentialsTold(state', seen')
  <2>1. e.metadata_url = seen'.metadata[h]
    BY <1>1, <1>2, <1>4, <1>15 DEF CredentialsTold
  <2>2. e.revoked <=> h \in seen'.revoked
    BY <1>4, <1>15
  <2>3. \A g \in Holders : g # h => (g \in seen'.revoked <=> g \in seen.revoked)
    BY <1>15
  <2>4. \A g \in Holders : g # h => seen'.metadata[g] = seen.metadata[g]
    BY <1>15
  <2> HIDE DEF h
  <2> QED
    BY <1>1, <1>5, <1>12, <2>1, <2>2, <2>3, <2>4, SetTold
<1>18. /\ x \in state.all_revocation_keys
       /\ \A y \in RevocationKeys : p[y] # None <=> state.revocation_keys[y] # None
  BY <1>1, <1>2, <1>9, <1>10 DEF KeysKnown
<1>19. KeysKnown(state') /\ KeysTold(state', seen')
  <2>1. KeysKnown(state')
    BY <1>1, <1>11, <1>18 DEF KeysKnown
  <2>2. KeysTold(state', seen')
    BY <1>1, <1>11, <1>15, <1>18 DEF KeysTold
  <2> QED
    BY <2>1, <2>2
<1>20. KeysKept(state, state')
  <2>1. ASSUME NEW y \in state.all_revocation_keys, p[y] # None
        PROVE  state.revocation_keys[y] # None /\ p[y] >= state.revocation_keys[y]
    <3>1. y \in RevocationKeys /\ state.revocation_keys[y] # None
      BY <1>1, <1>18, <2>1 DEF RegistryStates
    <3>2. state.revocation_keys[y] \in Nat
      BY <1>3, <3>1 DEF KeyNonces
    <3>3. CASE y = x
      BY <1>9, <1>10, <3>1, <3>3
    <3>4. CASE y # x
      <4>1. p[y] = state.revocation_keys[y]
        BY <1>10, <3>1, <3>4
      <4> QED
        BY <3>1, <3>2, <4>1
    <3> QED
      BY <3>3, <3>4
  <2> QED
    BY <1>11, <2>1 DEF KeysKept
<1>21. Spent(state', m)
  <2>1. state'.revocation_keys[x] = k
    BY <1>2, <1>10, <1>11
  <2> QED
    BY <1>2, <1>9, <1>11, <1>18, <2>1 DEF Spent
<1>22. AllSpent(state', seen'.signed)
  <2>1. seen.signed \in SUBSET Revocations
    BY <1>1 DEF RegistryEvents
  <2>2. AllSpent(state', seen.signed)
    BY <1>1, <1>11, <1>16, <1>20, <2>1, AllSpentStays
  <2> QED
    BY <1>15, <1>21, <2>2, AllSpentMore
<1>23. Registry!StaysExpired
  <2>1. state'.now >= state.now
    BY <1>1, <1>11 DEF RegistryStates
  <2> QED
    BY <1>1, <1>11, <1>16, <2>1, RegistryExpired
<1> QED
  BY <1>11, <1>15, <1>17, <1>19, <1>22, <1>23 DEF RegistryInv

(* The url after two updates is one of them, or what it was. *)
LEMMA UrlOf ==
    ASSUME NEW g, NEW f, NEW url, NEW h, NEW old
    PROVE  Registry!UrlAfter(old, h, <<<<g, url>>, <<f, url>>>>) \in {old, url}
<1> DEFINE updates == <<<<g, url>>, <<f, url>>>>
           own == {i \in DOMAIN updates : updates[i][1] = h}
           last == Registry!Latest(own)
<1>1. DOMAIN updates = {1, 2} /\ updates[1][2] = url /\ updates[2][2] = url
  OBVIOUS
<1>2. CASE own = {}
  BY <1>2 DEF Registry!UrlAfter
<1>3. CASE own # {}
  <2>1. own \subseteq {1, 2}
    BY <1>1
  <2>2. Registry!UrlAfter(old, h, updates) = updates[last][2]
    BY <1>3 DEF Registry!UrlAfter
  <2> HIDE DEF own
  <2>3. \E i \in own : \A j \in own : i >= j
    <3>1. CASE 2 \in own
      BY <2>1, <3>1
    <3>2. CASE 2 \notin own
      <4>1. \A j \in own : j = 1
        BY <2>1, <3>2
      <4>2. 1 \in own
        BY <1>3, <4>1
      <4> QED
        BY <4>1, <4>2
    <3> QED
      BY <3>1, <3>2
  <2>4. last \in own
    BY <2>3 DEF Registry!Latest
  <2> HIDE DEF last
  <2>5. last \in {1, 2}
    BY <2>1, <2>4
  <2> HIDE DEF updates
  <2>6. updates[last][2] = url
    BY <1>1, <2>5
  <2> QED
    BY <2>2, <2>6 DEF updates
<1> QED
  BY <1>2, <1>3

LEMMA RegistryUpdates ==
    ASSUME RegistryInv, NEW sender, NEW updates,
           \A old \in Urls \cup {None}, h \in Holders :
              Registry!UrlAfter(old, h, updates) \in Urls \cup {old},
           Registry!contract_update_credential_metadata(sender, updates)
    PROVE  RegistryInv' /\ Registry!StaysExpired
<1> DEFINE c == state.credentials
           url(old, h) == Registry!UrlAfter(old, h, updates)
           m == [h \in Holders |-> url(seen.metadata[h], h)]
           q == [h \in Holders |-> IF c[h] = None THEN None
                                   ELSE [c[h] EXCEPT !.metadata_url = url(c[h].metadata_url, h)]]
<1>1. /\ state \in RegistryStates /\ seen \in RegistryEvents /\ CredentialsTold(state, seen)
      /\ ~ seen.replayed /\ c \in Credentials /\ seen.metadata \in [Holders -> Urls \cup {None}]
  BY DEF RegistryInv, RegistryStates, RegistryEvents
<1>2. state' = [state EXCEPT !.credentials = q] /\ seen' = [seen EXCEPT !.metadata = m]
  BY DEF Registry!contract_update_credential_metadata
<1>3. m \in [Holders -> Urls \cup {None}] /\ \A h \in Holders : m[h] = url(seen.metadata[h], h)
  <2>1. \A h \in Holders : url(seen.metadata[h], h) \in Urls \cup {None}
    BY <1>1
  <2> HIDE DEF url
  <2> QED
    BY <2>1
<1>4. ASSUME NEW h \in Holders
      PROVE  /\ c[h] = None => q[h] = None
             /\ c[h] # None =>
                   /\ q[h] \in CredentialEntries
                   /\ q[h].valid_until = c[h].valid_until
                   /\ q[h].revocation_nonce = c[h].revocation_nonce
                   /\ q[h].metadata_url = url(c[h].metadata_url, h)
                   /\ q[h].revoked <=> c[h].revoked
                   /\ c[h].revocation_nonce \in Nat
  <2>1. CASE c[h] = None
    BY <2>1
  <2>2. CASE c[h] # None
    <3> DEFINE v == url(c[h].metadata_url, h)
    <3>1. c[h] \in CredentialEntries
      BY <1>1, <2>2 DEF Credentials
    <3>2. c[h].metadata_url \in Urls
      BY <3>1 DEF CredentialEntries
    <3>3. v \in Urls
      BY <3>2
    <3>4. q[h] = [c[h] EXCEPT !.metadata_url = v]
      BY <2>2
    <3> HIDE DEF v, q
    <3>5. /\ q[h] \in CredentialEntries
          /\ q[h].valid_until = c[h].valid_until
          /\ q[h].revocation_nonce = c[h].revocation_nonce
          /\ q[h].metadata_url = v
          /\ q[h].revoked <=> c[h].revoked
          /\ c[h].revocation_nonce \in Nat
      BY <3>1, <3>3, <3>4 DEF CredentialEntries
    <3> QED
      BY <2>2, <3>5 DEF v
  <2> QED
    BY <2>1, <2>2
<1>5. \A h \in Holders : c[h] # None => q[h] # None
  BY <1>4, NoneAssumption
<1>6. q \in Credentials
  <2>1. \A h \in Holders : q[h] \in CredentialEntries \cup {None}
    BY <1>4
  <2>2. q = [h \in Holders |-> q[h]]
    OBVIOUS
  <2> HIDE DEF q
  <2> QED
    BY <2>1, <2>2 DEF Credentials
<1> HIDE DEF m, q
<1>7. state' \in RegistryStates /\ state'.credentials = q
  BY <1>1, <1>2, <1>6 DEF RegistryStates
<1>8. /\ seen' \in RegistryEvents /\ seen'.metadata = m /\ seen'.revoked = seen.revoked
      /\ seen'.signed = seen.signed /\ (seen'.replayed <=> seen.replayed)
  BY <1>1, <1>2, <1>3 DEF RegistryEvents
<1>9. SameKeys
  BY <1>1, <1>2 DEF SameKeys, RegistryStates, RegistryEvents
<1>10. CredentialsKept(state, state')
  <2>1. \A h \in Holders : c[h] # None => q[h].revocation_nonce >= c[h].revocation_nonce
    BY <1>4
  <2> QED
    BY <1>4, <1>5, <1>7, <2>1 DEF CredentialsKept
<1>11. CredentialsTold(state', seen')
  <2> SUFFICES ASSUME NEW h \in Holders
               PROVE  /\ Revoked(state', h) <=> h \in seen'.revoked
                      /\ q[h] # None => q[h].metadata_url = m[h]
    BY <1>7, <1>8 DEF CredentialsTold
  <2>1. Revoked(state', h) <=> Revoked(state, h)
    BY <1>4, <1>5, <1>7 DEF Revoked
  <2>2. CASE q[h] # None
    <3>1. c[h] # None
      BY <1>4, <2>2
    <3>2. c[h].metadata_url = seen.metadata[h]
      BY <1>1, <3>1 DEF CredentialsTold
    <3>3. q[h].metadata_url = m[h]
      BY <1>3, <1>4, <3>1, <3>2
    <3> QED
      BY <1>1, <1>8, <2>1, <3>3 DEF CredentialsTold
  <2>3. CASE q[h] = None
    BY <1>1, <1>8, <2>1, <2>3 DEF CredentialsTold
  <2> QED
    BY <2>2, <2>3
<1> QED
  BY <1>1, <1>7, <1>8, <1>9, <1>10, <1>11, SameKeysKept, RegistryDone

(* A step about no credential *)
SameCredentials ==
    /\ state'.credentials = state.credentials
    /\ seen'.revoked = seen.revoked
    /\ seen'.metadata = seen.metadata

LEMMA SameCredentialsKept ==
    ASSUME RegistryInv, SameCredentials
    PROVE  CredentialsKept(state, state') /\ CredentialsTold(state', seen')
<1>1. state \in RegistryStates /\ CredentialsTold(state, seen)
  BY DEF RegistryInv
<1>2. CredentialsKept(state, state')
  BY <1>1, KeptSame DEF SameCredentials
<1>3. CredentialsTold(state', seen')
  BY <1>1 DEF CredentialsTold, Revoked, SameCredentials
<1> QED
  BY <1>2, <1>3

LEMMA RegistryAddsKeys ==
    ASSUME RegistryInv, NEW sender, NEW keys \in SUBSET RevocationKeys,
           Registry!contract_register_revocation_keys(sender, keys)
    PROVE  RegistryInv' /\ Registry!StaysExpired
<1> DEFINE n == state.revocation_keys
           p == [k \in RevocationKeys |-> IF k \in keys THEN 0 ELSE n[k]]
           all == state.all_revocation_keys \cup keys
           told == seen.keys \cup keys
<1>1. /\ state \in RegistryStates /\ seen \in RegistryEvents /\ ~ seen.replayed
      /\ KeysKnown(state) /\ KeysTold(state, seen)
      /\ n \in KeyNonces /\ state.now \in Nat
  BY DEF RegistryInv, RegistryStates
<1>2. /\ state' = [[state EXCEPT !.all_revocation_keys = all] EXCEPT !.revocation_keys = p]
      /\ seen' = [seen EXCEPT !.keys = told]
      /\ \A k \in keys : k \notin state.all_revocation_keys
  BY <1>1 DEF Registry!contract_register_revocation_keys, Registry!MayRegister, RegistryStates
<1>3. /\ p \in KeyNonces
      /\ \A k \in RevocationKeys : p[k] = IF k \in keys THEN 0 ELSE n[k]
  BY <1>1 DEF KeyNonces
<1>4. all \in SUBSET RevocationKeys /\ told \in SUBSET RevocationKeys
  BY <1>1 DEF RegistryStates, RegistryEvents
<1> HIDE DEF p
<1>5. \A k \in RevocationKeys : p[k] # None <=> k \in keys \/ n[k] # None
  BY <1>3, NoneAssumption
<1>6. /\ KeysKnown(state') /\ KeysTold(state', seen') /\ state'.now = state.now
      /\ state' \in RegistryStates /\ seen' \in RegistryEvents /\ seen'.signed = seen.signed
      /\ (seen'.replayed <=> seen.replayed) /\ SameCredentials
      /\ state'.revocation_keys = p /\ state'.all_revocation_keys = all
  <2> HIDE DEF all, told
  <2>1. /\ state' \in RegistryStates /\ state'.revocation_keys = p
        /\ state'.all_revocation_keys = all /\ state'.now = state.now
        /\ state'.credentials = state.credentials
        /\ state'.issuer_metadata = state.issuer_metadata
        /\ state'.credential_schema = state.credential_schema
    BY <1>1, <1>2, <1>3, <1>4 DEF RegistryStates
  <2>2. /\ seen' \in RegistryEvents /\ seen'.keys = told /\ seen'.signed = seen.signed
        /\ (seen'.replayed <=> seen.replayed) /\ seen'.revoked = seen.revoked
        /\ seen'.metadata = seen.metadata /\ seen'.issuer_metadata = seen.issuer_metadata
        /\ seen'.schema = seen.schema
    BY <1>1, <1>2, <1>4 DEF RegistryEvents
  <2>3. KeysKnown(state')
    BY <1>1, <1>5, <2>1 DEF KeysKnown, all
  <2>4. KeysTold(state', seen')
    BY <1>1, <1>5, <2>1, <2>2 DEF KeysTold, told
  <2> QED
    BY <2>1, <2>2, <2>3, <2>4 DEF SameCredentials
<1>7. KeysKept(state, state')
  <2>1. ASSUME NEW k \in state.all_revocation_keys, p[k] # None
        PROVE  n[k] # None /\ p[k] >= n[k]
    <3>1. k \in RevocationKeys /\ k \notin keys
      BY <1>1, <1>2 DEF RegistryStates
    <3>2. p[k] = n[k] /\ n[k] # None
      BY <1>3, <2>1, <3>1
    <3>3. n[k] \in Nat
      BY <1>1, <3>1, <3>2 DEF KeyNonces
    <3> QED
      BY <3>2, <3>3
  <2> QED
    BY <1>6, <2>1 DEF KeysKept
<1>8. state'.now >= state.now
  BY <1>1, <1>6
<1> QED
  BY <1>1, <1>6, <1>7, <1>8, SameCredentialsKept, RegistryDone

LEMMA RegistryRemovesKeys ==
    ASSUME RegistryInv, NEW sender, NEW keys \in SUBSET RevocationKeys,
           Registry!contract_remove_revocation_keys(sender, keys)
    PROVE  RegistryInv' /\ Registry!StaysExpired
<1> DEFINE n == state.revocation_keys
           p == [k \in RevocationKeys |-> IF k \in keys THEN None ELSE n[k]]
           told == seen.keys \ keys
<1>1. /\ state \in RegistryStates /\ seen \in RegistryEvents /\ ~ seen.replayed
      /\ KeysKnown(state) /\ KeysTold(state, seen)
      /\ n \in KeyNonces /\ state.now \in Nat
  BY DEF RegistryInv, RegistryStates
<1>2. /\ state' = [state EXCEPT !.revocation_keys = p]
      /\ seen' = [seen EXCEPT !.keys = told]
  BY DEF Registry!contract_remove_revocation_keys
<1>3. /\ p \in KeyNonces
      /\ \A k \in RevocationKeys : p[k] = IF k \in keys THEN None ELSE n[k]
  BY <1>1 DEF KeyNonces
<1>4. told \in SUBSET RevocationKeys
  BY <1>1 DEF RegistryEvents
<1> HIDE DEF p
<1>5. \A k \in RevocationKeys : p[k] # None <=> k \notin keys /\ n[k] # None
  BY <1>3
<1>6. /\ KeysKnown(state') /\ KeysTold(state', seen') /\ state'.now = state.now
      /\ state' \in RegistryStates /\ seen' \in RegistryEvents /\ seen'.signed = seen.signed
      /\ (seen'.replayed <=> seen.replayed) /\ SameCredentials
      /\ state'.revocation_keys = p
      /\ state'.all_revocation_keys = state.all_revocation_keys
  <2> HIDE DEF told
  <2>1. /\ state' \in RegistryStates /\ state'.revocation_keys = p
        /\ state'.all_revocation_keys = state.all_revocation_keys /\ state'.now = state.now
        /\ state'.credentials = state.credentials
        /\ state'.issuer_metadata = state.issuer_metadata
        /\ state'.credential_schema = state.credential_schema
    BY <1>1, <1>2, <1>3 DEF RegistryStates
  <2>2. /\ seen' \in RegistryEvents /\ seen'.keys = told /\ seen'.signed = seen.signed
        /\ (seen'.replayed <=> seen.replayed) /\ seen'.revoked = seen.revoked
        /\ seen'.metadata = seen.metadata /\ seen'.issuer_metadata = seen.issuer_metadata
        /\ seen'.schema = seen.schema
    BY <1>1, <1>2, <1>4 DEF RegistryEvents
  <2>3. KeysKnown(state')
    BY <1>1, <1>5, <2>1 DEF KeysKnown
  <2>4. KeysTold(state', seen')
    BY <1>1, <1>5, <2>1, <2>2 DEF KeysTold, told
  <2> QED
    BY <2>1, <2>2, <2>3, <2>4 DEF SameCredentials
<1>7. KeysKept(state, state')
  <2>1. ASSUME NEW k \in state.all_revocation_keys, p[k] # None
        PROVE  n[k] # None /\ p[k] >= n[k]
    <3>1. k \in RevocationKeys
      BY <1>1 DEF RegistryStates
    <3>2. p[k] = n[k] /\ n[k] # None
      BY <1>3, <2>1, <3>1
    <3>3. n[k] \in Nat
      BY <1>1, <3>1, <3>2 DEF KeyNonces
    <3> QED
      BY <3>2, <3>3
  <2> QED
    BY <1>6, <2>1 DEF KeysKept
<1>8. state'.now >= state.now
  BY <1>1, <1>6
<1> QED
  BY <1>1, <1>6, <1>7, <1>8, SameCredentialsKept, RegistryDone

(* The metadata of the issuer, the schema, who else implements what, and time *)
LEMMA RegistryOther ==
    ASSUME RegistryInv, state' \in RegistryStates, seen' \in RegistryEvents,
           SameCredentials,
           state'.revocation_keys = state.revocation_keys,
           state'.all_revocation_keys = state.all_revocation_keys,
           seen'.keys = seen.keys, seen'.signed = seen.signed, seen'.replayed <=> seen.replayed,
           state'.issuer_metadata = seen'.issuer_metadata,
           state'.credential_schema = seen'.schema,
           state'.now >= state.now
    PROVE  RegistryInv' /\ Registry!StaysExpired
<1>1. state \in RegistryStates /\ KeysKnown(state) /\ KeysTold(state, seen) /\ ~ seen.replayed
  BY DEF RegistryInv
<1>2. KeysKept(state, state') /\ KeysKnown(state')
  BY <1>1, KeptSame
<1>3. KeysTold(state', seen')
  BY <1>1 DEF KeysTold
<1> QED
  BY <1>1, <1>2, <1>3, SameCredentialsKept, RegistryDone

LEMMA RegistryMetadata ==
    ASSUME RegistryInv, NEW sender, NEW url \in Urls,
           \/ Registry!contract_update_issuer_metadata(sender, url)
           \/ Registry!contract_update_credential_schema(sender, url)
    PROVE  RegistryInv' /\ Registry!StaysExpired
<1>1. /\ state \in RegistryStates /\ seen \in RegistryEvents /\ state.now \in Nat
      /\ state.issuer_metadata = seen.issuer_metadata /\ state.credential_schema = seen.schema
  BY DEF RegistryInv, KeysTold, RegistryStates
<1>2. CASE /\ state' = [state EXCEPT !.issuer_metadata = url]
           /\ seen' = [seen EXCEPT !.issuer_metadata = url]
  <2>1. /\ state' \in RegistryStates /\ seen' \in RegistryEvents
        /\ state'.credentials = state.credentials
        /\ state'.revocation_keys = state.revocation_keys
        /\ state'.all_revocation_keys = state.all_revocation_keys
        /\ state'.issuer_metadata = url /\ state'.credential_schema = state.credential_schema
        /\ state'.now = state.now
    BY <1>1, <1>2 DEF RegistryStates, RegistryEvents
  <2>2. /\ seen'.revoked = seen.revoked /\ seen'.metadata = seen.metadata
        /\ seen'.keys = seen.keys /\ seen'.signed = seen.signed
        /\ (seen'.replayed <=> seen.replayed)
        /\ seen'.issuer_metadata = url /\ seen'.schema = seen.schema
    BY <1>1, <1>2 DEF RegistryEvents
  <2>3. state'.now >= state.now
    BY <1>1, <2>1
  <2> QED
    BY <1>1, <2>1, <2>2, <2>3, RegistryOther DEF SameCredentials
<1>3. CASE /\ state' = [state EXCEPT !.credential_schema = url]
           /\ seen' = [seen EXCEPT !.schema = url]
  <2>1. /\ state' \in RegistryStates /\ seen' \in RegistryEvents
        /\ state'.credentials = state.credentials
        /\ state'.revocation_keys = state.revocation_keys
        /\ state'.all_revocation_keys = state.all_revocation_keys
        /\ state'.issuer_metadata = state.issuer_metadata /\ state'.credential_schema = url
        /\ state'.now = state.now
    BY <1>1, <1>3 DEF RegistryStates, RegistryEvents
  <2>2. /\ seen'.revoked = seen.revoked /\ seen'.metadata = seen.metadata
        /\ seen'.keys = seen.keys /\ seen'.signed = seen.signed
        /\ (seen'.replayed <=> seen.replayed)
        /\ seen'.issuer_metadata = seen.issuer_metadata /\ seen'.schema = url
    BY <1>1, <1>3 DEF RegistryEvents
  <2>3. state'.now >= state.now
    BY <1>1, <2>1
  <2> QED
    BY <1>1, <2>1, <2>2, <2>3, RegistryOther DEF SameCredentials
<1> QED
  BY <1>2, <1>3 DEF Registry!contract_update_issuer_metadata,
                    Registry!contract_update_credential_schema

LEMMA RegistryImplementor ==
    ASSUME RegistryInv, NEW sender, NEW implementors \in RegistryImplementors,
           Registry!contract_set_implementor(sender, implementors)
    PROVE  RegistryInv' /\ Registry!StaysExpired
<1>1. /\ state \in RegistryStates /\ seen \in RegistryEvents /\ state.now \in Nat
      /\ state.issuer_metadata = seen.issuer_metadata /\ state.credential_schema = seen.schema
  BY DEF RegistryInv, KeysTold, RegistryStates
<1>2. state' = [state EXCEPT !.implementors = implementors] /\ seen' = seen
  BY DEF Registry!contract_set_implementor, Registry!Quietly
<1>3. /\ state' \in RegistryStates
      /\ state'.credentials = state.credentials
      /\ state'.revocation_keys = state.revocation_keys
      /\ state'.all_revocation_keys = state.all_revocation_keys
      /\ state'.issuer_metadata = state.issuer_metadata
      /\ state'.credential_schema = state.credential_schema
      /\ state'.now = state.now
  BY <1>1, <1>2 DEF RegistryStates
<1>4. state'.now >= state.now
  BY <1>1, <1>3
<1> QED
  BY <1>1, <1>2, <1>3, <1>4, RegistryOther DEF SameCredentials

LEMMA RegistryTick == ASSUME RegistryInv, Registry!Tick PROVE RegistryInv' /\ Registry!StaysExpired
<1> DEFINE k == state.now + 1
<1>1. /\ state \in RegistryStates /\ seen \in RegistryEvents /\ state.now \in Nat
      /\ state.issuer_metadata = seen.issuer_metadata /\ state.credential_schema = seen.schema
  BY DEF RegistryInv, KeysTold, RegistryStates
<1>2. state' = [state EXCEPT !.now = k] /\ seen' = seen
  BY DEF Registry!Tick
<1>3. k \in Nat /\ k >= state.now
  BY <1>1
<1> HIDE DEF k
<1>4. /\ state' \in RegistryStates
      /\ state'.credentials = state.credentials
      /\ state'.revocation_keys = state.revocation_keys
      /\ state'.all_revocation_keys = state.all_revocation_keys
      /\ state'.issuer_metadata = state.issuer_metadata
      /\ state'.credential_schema = state.credential_schema
      /\ state'.now = k
  BY <1>1, <1>2, <1>3 DEF RegistryStates
<1>5. state'.now >= state.now
  BY <1>3, <1>4
<1> QED
  BY <1>1, <1>2, <1>4, <1>5, RegistryOther DEF SameCredentials

LEMMA RegistryNext == ASSUME RegistryInv, Registry!Next PROVE RegistryInv' /\ Registry!StaysExpired
<1>1. ASSUME NEW sender, NEW h \in Holders, NEW g \in Holders, NEW url \in Urls,
             Registry!contract_update_credential_metadata(sender, <<<<h, url>>, <<g, url>>>>)
      PROVE  RegistryInv' /\ Registry!StaysExpired
  <2> DEFINE updates == <<<<h, url>>, <<g, url>>>>
  <2>1. \A old \in Urls \cup {None}, f \in Holders :
           Registry!UrlAfter(old, f, updates) \in {old, url}
    BY UrlOf
  <2>2. \A old \in Urls \cup {None}, f \in Holders :
           Registry!UrlAfter(old, f, updates) \in Urls \cup {old}
    BY <2>1
  <2> HIDE DEF updates
  <2>3. Registry!contract_update_credential_metadata(sender, updates)
    BY <1>1 DEF updates
  <2> QED
    BY <2>2, <2>3, RegistryUpdates
<1> QED
  BY <1>1, RegistryRegister, RegistryIssuerRevokes, RegistryRestores, RegistryHolderRevokes,
     RegistryOtherRevokes, RegistryAddsKeys, RegistryRemovesKeys, RegistryMetadata,
     RegistryImplementor, RegistryTick
     DEF Registry!Next

-----------------------------------------------------------------------------
(* counter-notify *)

Answers == [occurance : {"ReentryAttack", "NoReentryAttack"}, before : Nat, after : Nat]
CounterStates == [count : Nat, answers : Seq(Answers)]

\* The counter counts what is seen, and the answers are right.
Counted(s, n) ==
    /\ s \in CounterStates /\ s.count = n
    /\ \A i \in DOMAIN s.answers :
          s.answers[i].occurance = "ReentryAttack" <=> s.answers[i].after > s.answers[i].before

CounterFrames ==
    [hook : Contracts, preinvoke_count : Nat, before : Nat,
     saved : [state : CounterStates, seen : Nat]]

\* What is told counts up to here, and so does what is told while it is.
CounterFrame(f, n) ==
    /\ Counted(f.saved.state, f.saved.seen) /\ f.preinvoke_count = f.before /\ f.before <= n

CounterInv ==
    /\ Counted(state, seen) /\ calls \in Seq(CounterFrames)
    /\ \A i \in 1 .. Len(calls) : CounterFrame(calls[i], seen)
    /\ \A i, j \in 1 .. Len(calls) : i < j => calls[i].before <= calls[j].saved.seen

LEMMA CounterInit == Counting!Init => CounterInv
<1> SUFFICES ASSUME Counting!Init PROVE CounterInv
  OBVIOUS
<1>1. state = [count |-> 0, answers |-> <<>>] /\ seen = 0 /\ calls = <<>>
  BY DEF Counting!Init
<1>2. <<>> \in Seq(Answers) /\ DOMAIN <<>> = {} /\ calls \in Seq(CounterFrames) /\ Len(calls) = 0
  BY <1>1
<1>3. Counted(state, seen)
  BY <1>1, <1>2 DEF Counted, CounterStates
<1> QED
  BY <1>2, <1>3 DEF CounterInv

(* An increment counts. *)
LEMMA CounterIncremented ==
    ASSUME NEW n, Counted(state, n)
    PROVE  n \in Nat /\ Counted(Counting!Incremented, n + 1) /\ Counting!Incremented.count = n + 1
<1> DEFINE k == n + 1
           s == [state EXCEPT !.count = k]
<1>1. state \in CounterStates /\ n \in Nat /\ k \in Nat /\ state.count = n
  BY DEF Counted, CounterStates
<1>2. s = Counting!Incremented
  BY <1>1 DEF Counting!Incremented
<1> HIDE DEF k
<1>3. s \in CounterStates /\ s.count = k /\ s.answers = state.answers
  BY <1>1 DEF CounterStates
<1> HIDE DEF s
<1>4. Counted(s, k)
  BY <1>3 DEF Counted
<1> QED
  BY <1>1, <1>2, <1>3, <1>4 DEF k

(* More increments do no harm to what is told. *)
LEMMA CounterLater ==
    ASSUME NEW m \in Nat, NEW n \in Nat, m <= n, NEW f \in CounterFrames, CounterFrame(f, m)
    PROVE  CounterFrame(f, n)
<1>1. f.before \in Nat /\ f.before <= m
  BY DEF CounterFrames, CounterFrame
<1>2. f.before <= n
  BY <1>1
<1> QED
  BY <1>2 DEF CounterFrame

LEMMA CounterJust ==
    ASSUME CounterInv, NEW sender, Counting!just_increment(sender)
    PROVE  CounterInv'
<1>1. Counted(state', seen') /\ seen' = seen + 1 /\ seen \in Nat /\ calls' = calls
  BY CounterIncremented DEF CounterInv, Counting!just_increment
<1>2. \A i \in 1 .. Len(calls) : calls[i] \in CounterFrames
  BY ElementOfSeq DEF CounterInv
<1>3. \A f \in CounterFrames : CounterFrame(f, seen) => CounterFrame(f, seen')
  BY <1>1, CounterLater
<1>4. \A i \in 1 .. Len(calls) : CounterFrame(calls[i], seen')
  BY <1>2, <1>3 DEF CounterInv
<1> QED
  BY <1>1, <1>4 DEF CounterInv

LEMMA CounterNotifies ==
    ASSUME CounterInv, NEW sender, NEW other \in Contracts, Counting!increment_and_notify(sender, other)
    PROVE  CounterInv'
<1> DEFINE n == Len(calls)
           e == [hook |-> other, preinvoke_count |-> Counting!Incremented.count,
                 before |-> seen + 1, saved |-> [state |-> state, seen |-> seen]]
<1>1. /\ Counted(state', seen') /\ seen' = seen + 1 /\ seen \in Nat
      /\ Counting!Incremented.count = seen + 1
      /\ calls' = Append(calls, e) /\ calls \in Seq(CounterFrames)
  BY CounterIncremented DEF CounterInv, Counting!increment_and_notify, Counting!Saved
<1>2. /\ e.preinvoke_count = seen' /\ e.before = seen' /\ e.saved.state = state /\ e.saved.seen = seen
      /\ e.hook = other /\ e.saved \in [state : CounterStates, seen : Nat]
      /\ e = [hook |-> other, preinvoke_count |-> seen', before |-> seen', saved |-> e.saved]
      /\ seen' \in Nat
  BY <1>1 DEF CounterInv, Counted
<1> HIDE DEF e
<1>3. e \in CounterFrames
  BY <1>2 DEF CounterFrames
<1>4. CounterFrame(e, seen')
  BY <1>2 DEF CounterFrame, CounterInv
<1>5. /\ calls' \in Seq(CounterFrames) /\ Len(calls') = n + 1 /\ calls'[n + 1] = e /\ n \in Nat
      /\ \A i \in 1 .. n : calls'[i] = calls[i]
  BY <1>1, <1>3, Pushes
<1>6. \A i \in 1 .. n : calls[i] \in CounterFrames /\ CounterFrame(calls[i], seen)
  BY <1>1, ElementOfSeq DEF CounterInv
<1>7. \A i \in 1 .. n : CounterFrame(calls[i], seen') /\ calls[i].before <= seen
  BY <1>1, <1>6 DEF CounterFrame, CounterFrames
<1>8. \A i \in 1 .. Len(calls') : CounterFrame(calls'[i], seen')
  <2>1. \A i \in 1 .. (n + 1) : i \in 1 .. n \/ i = n + 1
    BY <1>5
  <2> QED
    BY <1>4, <1>5, <1>7, <2>1
<1>9. ASSUME NEW i \in 1 .. Len(calls'), NEW j \in 1 .. Len(calls'), i < j
      PROVE  calls'[i].before <= calls'[j].saved.seen
  <2>1. i \in 1 .. n /\ (j \in 1 .. n \/ j = n + 1)
    BY <1>5, <1>9
  <2>2. CASE j \in 1 .. n
    BY <1>5, <1>9, <2>1, <2>2 DEF CounterInv
  <2>3. CASE j = n + 1
    BY <1>2, <1>5, <1>7, <2>1, <2>3
  <2> QED
    BY <2>1, <2>2, <2>3
<1> QED
  BY <1>1, <1>5, <1>8, <1>9 DEF CounterInv

(* The contract that was told last *)
LEMMA CounterTop ==
    ASSUME CounterInv, calls # <<>>
    PROVE  /\ Counting!Top \in CounterFrames /\ CounterFrame(Counting!Top, seen)
           /\ Counting!Waiting(calls) \in Seq(CounterFrames)
           /\ \A i \in 1 .. Len(Counting!Waiting(calls)) :
                 /\ CounterFrame(Counting!Waiting(calls)[i], seen)
                 /\ CounterFrame(Counting!Waiting(calls)[i], Counting!Top.saved.seen)
           /\ \A i, j \in 1 .. Len(Counting!Waiting(calls)) :
                 i < j => Counting!Waiting(calls)[i].before <= Counting!Waiting(calls)[j].saved.seen
<1> DEFINE n == Len(calls)
           w == Led!Waiting(calls)
<1>1. /\ w \in Seq(CounterFrames) /\ Len(w) = n - 1
      /\ \A i \in 1 .. (n - 1) : w[i] = calls[i]
      /\ n \in Nat \ {0} /\ calls[n] \in CounterFrames
  BY Pops DEF CounterInv
<1>2. w = Counting!Waiting(calls) /\ calls[n] = Counting!Top
  BY DEF Led!Waiting, Counting!Waiting, Counting!Top
<1> DEFINE m == Len(w)
           e == calls[n]
<1> HIDE DEF w
<1>3. \A i \in 1 .. n : CounterFrame(calls[i], seen)
  BY DEF CounterInv
<1>4. \A i, j \in 1 .. n : i < j => calls[i].before <= calls[j].saved.seen
  BY DEF CounterInv
<1>5. \A i \in 1 .. m : i \in 1 .. n /\ i < n /\ w[i] = calls[i]
  BY <1>1
<1>6. n \in 1 .. n
  BY <1>1
<1>7. \A i \in 1 .. m : calls[i].before <= e.saved.seen
  BY <1>4, <1>5, <1>6
<1>8. \A i \in 1 .. m : CounterFrame(w[i], seen) /\ CounterFrame(w[i], e.saved.seen)
  BY <1>3, <1>5, <1>7 DEF CounterFrame
<1>9. \A i, j \in 1 .. m : i < j => w[i].before <= w[j].saved.seen
  BY <1>4, <1>5
<1>10. e \in CounterFrames /\ CounterFrame(e, seen)
  BY <1>1, <1>3, <1>6
<1> HIDE DEF e
<1>11. /\ e \in CounterFrames /\ CounterFrame(e, seen)
       /\ w \in Seq(CounterFrames)
       /\ \A i \in 1 .. Len(w) : CounterFrame(w[i], seen) /\ CounterFrame(w[i], e.saved.seen)
       /\ \A i, j \in 1 .. Len(w) : i < j => w[i].before <= w[j].saved.seen
  BY <1>1, <1>8, <1>9, <1>10
<1>12. e = Counting!Top /\ w = Counting!Waiting(calls)
  BY <1>2 DEF e
<1> QED
  BY <1>11, <1>12

LEMMA CounterReturns ==
    ASSUME CounterInv, Counting!incremented_and_notified
    PROVE  CounterInv'
<1> DEFINE e == Counting!Top
           w == Counting!Waiting(calls)
           o == Counting!ReentryOccurance(e.preinvoke_count)
           a == [occurance |-> o, before |-> e.before, after |-> seen]
           s == Append(state.answers, a)
<1>1. /\ calls # <<>> /\ calls' = w /\ seen' = seen
      /\ state' = [state EXCEPT !.answers = s]
  BY DEF Counting!incremented_and_notified
<1>2. /\ e \in CounterFrames /\ CounterFrame(e, seen) /\ w \in Seq(CounterFrames)
      /\ \A i \in 1 .. Len(w) : CounterFrame(w[i], seen)
      /\ \A i, j \in 1 .. Len(w) : i < j => w[i].before <= w[j].saved.seen
  BY <1>1, CounterTop
<1>3. state \in CounterStates /\ state.count = seen /\ seen \in Nat
  BY DEF CounterInv, Counted, CounterStates
<1> HIDE DEF w, e
<1>4. o = "ReentryAttack" <=> seen > e.before
  <2>1. e.before \in Nat /\ e.before <= seen /\ e.preinvoke_count = e.before
    BY <1>2 DEF CounterFrame, CounterFrames
  <2> QED
    BY <1>3, <2>1 DEF Counting!ReentryOccurance
<1>5. o \in {"ReentryAttack", "NoReentryAttack"} /\ e.before \in Nat
  BY <1>2 DEF Counting!ReentryOccurance, CounterFrames
<1> HIDE DEF o
<1>6. a \in Answers /\ (a.occurance = "ReentryAttack" <=> a.after > a.before)
  BY <1>3, <1>4, <1>5 DEF Answers
<1> HIDE DEF a
<1>7. state.answers \in Seq(Answers)
  BY <1>3 DEF CounterStates
<1> DEFINE n == Len(state.answers)
<1>8. /\ s \in Seq(Answers) /\ Len(s) = n + 1 /\ s[n + 1] = a /\ n \in Nat
      /\ \A i \in 1 .. n : s[i] = state.answers[i]
  BY <1>6, <1>7, Pushes
<1>9. DOMAIN s = 1 .. (n + 1) /\ DOMAIN state.answers = 1 .. n
  <2> HIDE DEF s
  <2> QED
    BY <1>7, <1>8
<1> HIDE DEF s
<1>10. \A i \in DOMAIN state.answers : state.answers[i].occurance = "ReentryAttack"
            <=> state.answers[i].after > state.answers[i].before
  BY DEF CounterInv, Counted
<1>11. \A i \in DOMAIN s : s[i].occurance = "ReentryAttack" <=> s[i].after > s[i].before
  <2>1. \A i \in 1 .. (n + 1) : i \in 1 .. n \/ i = n + 1
    BY <1>8
  <2> QED
    BY <1>6, <1>8, <1>9, <1>10, <2>1
<1>12. state' \in CounterStates /\ state'.count = seen /\ state'.answers = s
  BY <1>1, <1>3, <1>8 DEF CounterStates
<1> QED
  BY <1>1, <1>2, <1>11, <1>12 DEF CounterInv, Counted

LEMMA CounterRejects ==
    ASSUME CounterInv, Counting!HookRejects
    PROVE  CounterInv'
<1>1. /\ calls # <<>> /\ calls' = Counting!Waiting(calls)
      /\ state' = Counting!Top.saved.state /\ seen' = Counting!Top.saved.seen
  BY DEF Counting!HookRejects, Counting!Rejects
<1>2. Counted(state', seen')
  BY <1>1, CounterTop DEF CounterFrame
<1> QED
  BY <1>1, <1>2, CounterTop DEF CounterInv

LEMMA CounterNext == ASSUME CounterInv, Counting!Next PROVE CounterInv'
  BY CounterJust, CounterNotifies, CounterReturns, CounterRejects DEF Counting!Next

LEMMA CounterNoticed == CounterInv => Counting!ReentryNoticed
  BY DEF CounterInv, Counted, Counting!ReentryNoticed

-----------------------------------------------------------------------------
(* smart-contract-upgrade *)

Texts == {"not to be migrated", "to be migrated", "new"}

\* What the root is after so many migrations
Migrated(s, n) ==
    /\ s \in [module : Upgrading!Modules, root : Accounts \X Texts \X Texts]
    /\ n \in Nat
    /\ s.root[1] = Owner
    /\ n = 0 => s.root[3] = "to be migrated"
    /\ n = 1 => s.root[2] = "to be migrated"

\* No other contract is called, and so only one entrypoint is under way: what it has
\* called by itself is the upgrade's last step.
UpgradeInv ==
    \/ calls = <<>> /\ Migrated(state, seen)
    \/ /\ Len(calls) = 1 /\ calls # <<>> /\ Upgrading!Waiting(calls) = <<>>
       /\ Upgrading!Top.hook = None
       /\ Migrated(Upgrading!Top.saved.state, Upgrading!Top.saved.seen)
       /\ Migrated(state, Upgrading!Top.saved.seen)
       /\ seen = IF Upgrading!Top.migrate = "migration" THEN Upgrading!Top.saved.seen + 1
                 ELSE Upgrading!Top.saved.seen

LEMMA UpgradeInit == Upgrading!Init => UpgradeInv
<1> SUFFICES ASSUME Upgrading!Init PROVE UpgradeInv
  OBVIOUS
<1> DEFINE r == <<Owner, "not to be migrated", "to be migrated">>
           s == [module |-> "contract-version1", root |-> r]
<1>1. state = s /\ seen = 0 /\ calls = <<>>
  BY DEF Upgrading!Init
<1>2. Owner \in Accounts
  BY AddressAssumption
<1>3. /\ r \in Accounts \X Texts \X Texts
      /\ r[1] = Owner /\ r[2] = "not to be migrated" /\ r[3] = "to be migrated"
  BY <1>2 DEF Texts
<1> HIDE DEF r
<1>4. s \in [module : Upgrading!Modules, root : Accounts \X Texts \X Texts] /\ s.root = r
  BY <1>3 DEF Upgrading!Modules
<1> HIDE DEF s
<1>5. Migrated(s, 0)
  BY <1>3, <1>4 DEF Migrated
<1> QED
  BY <1>1, <1>5 DEF UpgradeInv

LEMMA UpgradeUpgrade ==
    ASSUME UpgradeInv, NEW sender \in Addresses, NEW module \in Upgrading!Modules, NEW migrate,
           Upgrading!contract_upgrade(sender, module, migrate)
    PROVE  UpgradeInv'
<1>1. calls = <<>> /\ Migrated(state, seen)
  BY DEF UpgradeInv, Upgrading!contract_upgrade, Upgrading!Called
<1>2. state' = [state EXCEPT !.module = module]
      /\ seen' = (IF migrate = "migration" THEN seen + 1 ELSE seen)
  BY DEF Upgrading!contract_upgrade
<1>3. Migrated(state', seen)
  BY <1>1, <1>2 DEF Migrated
<1>4. CASE migrate = None
  <2>1. calls' = calls /\ seen' = seen
    BY <1>2, <1>4, NoneAssumption DEF Upgrading!contract_upgrade
  <2> QED
    BY <1>1, <1>3, <2>1 DEF UpgradeInv
<1>5. CASE migrate # None
  <2> DEFINE e == [hook |-> None, migrate |-> migrate, saved |-> [state |-> state, seen |-> seen]]
  <2>1. calls' = Append(<<>>, e)
    BY <1>1, <1>5 DEF Upgrading!contract_upgrade, Upgrading!Saved
  <2>2. /\ e.hook = None /\ e.migrate = migrate /\ e.saved.state = state /\ e.saved.seen = seen
    OBVIOUS
  <2> HIDE DEF e
  <2>3. calls' = <<e>>
    BY <2>1
  <2>4. Len(calls') = 1 /\ calls' # <<>> /\ Upgrading!Waiting(calls') = <<>> /\ calls'[1] = e
    BY <2>3 DEF Upgrading!Waiting
  <2> QED
    BY <1>1, <1>2, <1>3, <2>2, <2>4 DEF UpgradeInv, Upgrading!Top
<1> QED
  BY <1>4, <1>5

LEMMA UpgradeMigration ==
    ASSUME UpgradeInv, NEW sender, Upgrading!contract_migration(sender)
    PROVE  UpgradeInv'
<1> DEFINE e == Upgrading!Top
           n == e.saved.seen
<1>1. /\ calls # <<>> /\ e.migrate = "migration" /\ calls' = Upgrading!Waiting(calls) /\ seen' = seen
      /\ state' = [state EXCEPT !.root = <<state.root[1], state.root[3], "new">>]
  BY DEF Upgrading!contract_migration, Upgrading!CalledAs, Upgrading!Finished
<1>2. /\ Upgrading!Waiting(calls) = <<>> /\ Migrated(state, n) /\ seen = n + 1
  BY <1>1 DEF UpgradeInv
<1> HIDE DEF e, n
<1> DEFINE k == n + 1
           r == <<state.root[1], state.root[3], "new">>
<1>4. /\ state \in [module : Upgrading!Modules, root : Accounts \X Texts \X Texts]
      /\ n \in Nat /\ state.root[1] = Owner /\ (n = 0 => state.root[3] = "to be migrated")
  BY <1>2 DEF Migrated
<1>10. n \in Nat
  BY <1>4
<1>5. k \in Nat /\ k # 0 /\ (k = 1 => n = 0)
  BY <1>10
<1> HIDE DEF k
<1>6. state.root \in Accounts \X Texts \X Texts
  BY <1>4
<1>7. r \in Accounts \X Texts \X Texts /\ r[1] = state.root[1] /\ r[2] = state.root[3]
  BY <1>6 DEF Texts
<1> HIDE DEF r
<1>8. state' \in [module : Upgrading!Modules, root : Accounts \X Texts \X Texts] /\ state'.root = r
  BY <1>1, <1>4, <1>7 DEF r
<1>9. Migrated(state', k)
  BY <1>4, <1>5, <1>7, <1>8 DEF Migrated
<1>3. Migrated(state', n + 1)
  BY <1>9 DEF k
<1> QED
  BY <1>1, <1>2, <1>3 DEF UpgradeInv

LEMMA UpgradeView ==
    ASSUME UpgradeInv, NEW sender, Upgrading!contract_view(sender)
    PROVE  UpgradeInv'
<1>1. /\ state' = state /\ seen' = seen
      /\ calls' = IF calls = <<>> THEN calls ELSE Upgrading!Waiting(calls)
      /\ calls # <<>> => Upgrading!Top.migrate = "view" \/ Upgrading!Top.hook # None
  BY DEF Upgrading!contract_view, Upgrading!CalledAs, Upgrading!Finished, Upgrading!Called
<1>2. CASE calls = <<>>
  BY <1>1, <1>2 DEF UpgradeInv
<1>3. CASE calls # <<>>
  <2>1. Upgrading!Waiting(calls) = <<>> /\ Migrated(state, seen)
    BY <1>1, <1>3 DEF UpgradeInv
  <2> QED
    BY <1>1, <1>3, <2>1 DEF UpgradeInv
<1> QED
  BY <1>2, <1>3

LEMMA UpgradeNext == ASSUME UpgradeInv, Upgrading!Next PROVE UpgradeInv'
<1>1. ASSUME Upgrading!MigrationFails PROVE UpgradeInv'
  BY <1>1 DEF Upgrading!MigrationFails, Upgrading!Rejects, UpgradeInv
<1>2. Upgrading!Addresses = Addresses
  BY DEF Upgrading!Addresses, Addresses
<1> QED
  BY <1>1, <1>2, UpgradeUpgrade, UpgradeMigration, UpgradeView DEF Upgrading!Next

LEMMA UpgradeMigrates == UpgradeInv => Upgrading!MigratedOnRequest
  BY DEF UpgradeInv, Migrated, Upgrading!MigratedOnRequest

-----------------------------------------------------------------------------
(* All the contracts *)

ContractsInv ==
    /\ contract = "auction" => AuctionInv
    /\ contract = "voting" => VotingInv
    /\ contract = "eSealing" => SealingInv
    /\ contract = "two-step" => TwoStepInv
    /\ contract = "offchain" => OffchainInv
    /\ contract = "items" => ItemsInv
    /\ contract = "icecream" => SaleInv
    /\ contract = "factory" => FactoryInv
    /\ contract = "wallet" => WalletInv
    /\ contract = "registry" => RegistryInv
    /\ contract = "piggy-bank" => PiggyInv
    /\ contract = "counter" => CounterInv
    /\ contract = "upgrade" => UpgradeInv

(* What is true before the first step *)
LEMMA ContractsInit == Init => ContractsInv
  BY AuctionInit, VotingInit, SealingInit, TwoStepInit, OffchainInit, ItemsInit, SaleInit,
     FactoryInit, WalletInit, RegistryInit, PiggyInit, CounterInit, UpgradeInit
     DEF Init, ContractsInv

(* stays true, as long as nothing happens *)
LEMMA ContractsSame == ASSUME ContractsInv, UNCHANGED vars PROVE ContractsInv'
<1>0. contract' = contract /\ state' = state /\ seen' = seen /\ calls' = calls
  BY DEF vars
<1>1. /\ AuctionInv' <=> AuctionInv
      /\ VotingInv' <=> VotingInv
      /\ SealingInv' <=> SealingInv
      /\ TwoStepInv' <=> TwoStepInv
      /\ OffchainInv' <=> OffchainInv
      /\ ItemsInv' <=> ItemsInv
      /\ SaleInv' <=> SaleInv
      /\ FactoryInv' <=> FactoryInv
  BY <1>0 DEF AuctionInv, VotingInv, SealingInv, TwoStepInv, OffchainInv, ItemsInv, SaleInv,
              FactoryInv
<1>2. /\ WalletInv' <=> WalletInv
      /\ RegistryInv' <=> RegistryInv
      /\ PiggyInv' <=> PiggyInv
      /\ CounterInv' <=> CounterInv
  BY <1>0 DEF WalletInv, RegistryInv, PiggyInv, Saving!FundsAccounted, CounterInv
<1>3. UpgradeInv' <=> UpgradeInv
  BY <1>0 DEF UpgradeInv, Upgrading!Top, Upgrading!Waiting
<1> QED
  BY <1>0, <1>1, <1>2, <1>3 DEF ContractsInv

(* and when something does. *)
LEMMA ContractsNext ==
    ASSUME ContractsInv, Next
    PROVE  /\ ContractsInv'
           /\ contract = "auction" => Bidding!StaysSold
           /\ contract = "voting" => Ballots!StaysDecided
           /\ contract = "eSealing" => Seals!StaysSealed
           /\ contract = "offchain" => Offchain!FinalSettlementsKept
           /\ contract = "items" => Items!StaysSold
           /\ contract = "piggy-bank" => Saving!StaysSmashed
           /\ contract = "registry" => Registry!StaysExpired
  BY AuctionNext, VotingNext, VotingDecided, SealingNext, TwoStepNext, OffchainNext, ItemsNext,
     SaleNext, FactoryNext, WalletNext, RegistryNext, PiggyNext, CounterNext, UpgradeNext
     DEF Next, ContractsInv

LEMMA ContractsInvariant == Spec => []ContractsInv
<1>1. ContractsInv /\ [Next]_vars => ContractsInv'
  BY ContractsSame, ContractsNext
<1> QED
  BY ContractsInit, <1>1, PTL DEF Spec

(* The CCD and the tokens that auction, offchain-transfers, the auction of      *)
(* sponsored-tx-enabled-auction, icecream, the wallet of cis5-smart-contract-  *)
(* wallet and piggy-bank hold are what they keep for their users, also while a *)
(* contract that was called or paid is running and calls them again, and after *)
(* a rejection has undone what an entrypoint had done; of offchain-transfers,  *)
(* until it has accepted a settlement or a withdrawal in which a sum wrapped.  *)
THEOREM ContractsKeepFunds == Spec => []FundsAccounted
<1>1. ContractsInv => FundsAccounted
  BY AuctionFundsAccounted, OffchainAccounted, ItemsAccounted, SaleFundsAccounted,
     WalletFundsAccounted DEF ContractsInv, PiggyInv, FundsAccounted
<1> QED
  BY <1>1, ContractsInvariant, PTL

(* receive_transaction of two-step-transfer sets aside what a request asks for: *)
(* its account can pay all the requests that have not timed out, with CCD of   *)
(* their own or without, unless one of them was accepted only because the CCD  *)
(* that came with it was counted twice.                                        *)
THEOREM TwoStepSetsAside == Spec => []FundsSetAside
<1>1. ContractsInv => FundsSetAside
  BY TwoStepSetAside DEF ContractsInv, FundsSetAside
<1> QED
  BY <1>1, ContractsInvariant, PTL

(* The tally of voting counts the ballots, what factory lists is what its      *)
(* products say of themselves, the events of credential-registry and of the    *)
(* wallet tell their states between transactions, counter-notify notices every *)
(* increment behind its back, and contract-upgrade has migrated when its admin *)
(* asked for it.                                                               *)
THEOREM ContractsRecordsAgree == Spec => []RecordsAgree
<1>1. ContractsInv => RecordsAgree
  BY VotingAgrees, FactoryListed, RegistryTells, WalletTells, CounterNoticed, UpgradeMigrates
     DEF ContractsInv, RecordsAgree
<1> QED
  BY <1>1, ContractsInvariant, PTL

(* A message that a key has signed is executed once by the wallet, although a  *)
(* contract that a withdrawal pays may bring it again before the withdrawal is *)
(* done, and a revocation once by the registry, also if the key was removed    *)
(* and registered again.                                                       *)
THEOREM ContractsExecuteOnce == Spec => []SignedOnce
<1>1. ContractsInv => SignedOnce
  BY WalletTells DEF ContractsInv, RegistryInv, Registry!SignedOnce, SignedOnce
<1> QED
  BY <1>1, ContractsInvariant, PTL

(* No entrypoint takes back what has been decided: an item that has been sold  *)
(* and its highest bidder, the tally after the end, the file that is sealed,   *)
(* a settlement that is final, the piggy bank that is smashed, the credential  *)
(* that has expired.                                                           *)
THEOREM ContractsStayDecided == Spec => Final
<1>1. ContractsInv /\ [Next]_vars
        => [/\ contract = "auction" => Bidding!StaysSold
            /\ contract = "voting" => Ballots!StaysDecided
            /\ contract = "eSealing" => Seals!StaysSealed
            /\ contract = "offchain" => Offchain!FinalSettlementsKept
            /\ contract = "items" => Items!StaysSold
            /\ contract = "piggy-bank" => Saving!StaysSmashed
            /\ contract = "registry" => Registry!StaysExpired]_vars
  BY ContractsNext
<1> QED
  BY <1>1, ContractsInvariant, PTL DEF Spec, Final


=============================================================================
