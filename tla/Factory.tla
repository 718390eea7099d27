------------------------------ MODULE Factory -------------------------------
(***************************************************************************)
(* examples/factory: a factory that numbers its products, which are        *)
(* contracts of their own that are created first and initialized once.     *)
(***************************************************************************)
EXTENDS Ledger

CONSTANTS
    Products,   \* the product contracts: a function to their owners
    MaxProducts \* bound: products that are made

Init ==
    /\ state = [next_product  |-> 0,
                products      |-> [i \in 0 .. (MaxProducts - 1) |-> None],
                product_state |-> [p \in DOMAIN Products |-> None]]
    /\ seen = None
    /\ calls = <<>>
    /\ ops = 0

\* Mutant: a product can be initialized again.
may_initialize_again(product, invoker) == invoker = Products[product]

\* The checks of initialize, and what it makes of the product.
may_initialize(product, invoker) ==
    state.product_state[product] = None /\ invoker = Products[product]

initialize(s, product, factory, index) ==
    [s EXCEPT !.product_state[product] = [factory |-> factory, index |-> index]]

\* An address that is no product, of the module of the factory, is rejected; the
\* factory's records are written before the product is initialized, and undone
\* if it refuses.
produce(invoker, product) ==
    LET next_product == state.next_product
        recorded     == [state EXCEPT !.next_product = @ + 1, !.products[next_product] = product]
    IN  /\ Called(invoker)
        /\ next_product < MaxProducts
        /\ may_initialize(product, invoker)
        /\ state' = initialize(recorded, product, Self, next_product)
        /\ Quietly

\* Another contract, a factory or not, initializes a product.
initialize_by_other(invoker, contract, product, index) ==
    /\ Called(invoker)
    /\ may_initialize(product, invoker)
    /\ state' = initialize(state, product, contract, index)
    /\ Quietly

Next ==
    \E invoker \in Accounts, product \in DOMAIN Products :
        \/ produce(invoker, product)
        \/ \E contract \in Contracts, index \in {0, 1} :
              initialize_by_other(invoker, contract, product, index)

-----------------------------------------------------------------------------
(* Properties *)

view_product_count == state.next_product
view_product(i) == state.products[i]

\* The products that say they are of this factory are those the factory lists,
\* each under its own number.
ProductsListed ==
    /\ \A i \in DOMAIN state.products : i < view_product_count <=> view_product(i) # None
    /\ \A i \in 0 .. (view_product_count - 1), p \in DOMAIN Products :
          view_product(i) = p <=> state.product_state[p] = [factory |-> Self, index |-> i]

=============================================================================
