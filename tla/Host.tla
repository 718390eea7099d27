-------------------------------- MODULE Host --------------------------------
(***************************************************************************)
(* ExternHost of concordium-std (impls.rs): the state of a contract in     *)
(* memory, against the state that the node keeps, over calls that come     *)
(* back to the same contract.  The contract's state is a flat value and a  *)
(* StateBox; the root entry of the node holds the flat value and where the *)
(* box is, the box's own entry holds its value.                            *)
(*                                                                         *)
(* Loading the state before a receive function, storing it after, and      *)
(* rolling back a call that fails are done by generated code and by the    *)
(* node; they are modelled from how HasHost uses them.                     *)
(***************************************************************************)
EXTENDS Naturals, Sequences, SequencesExt

CONSTANTS
    Values,
    NoValue,
    MaxDepth    \* bound on the nesting of calls

ASSUME HostAssumption ==
    /\ NoValue \notin Values
    /\ MaxDepth \in Nat \ {0}

VARIABLES
    root,      \* the flat value in the node
    entry,     \* the value of the box in the node
    stack,     \* the receive functions under way, the running one last
    trapped,   \* a caller was aborted by the library
    logical    \* history: flat value and box, as they were last assigned, and
               \* whether a call was made with a box modified only in memory

hostVars == <<root, entry, stack, trapped, logical>>

-----------------------------------------------------------------------------

(* StateBoxInner *)
Reference == [loaded |-> FALSE, value |-> NoValue, modified |-> FALSE]

Loaded(v, modified) == [loaded |-> TRUE, value |-> v, modified |-> modified]

(* A receive function with the state in memory; readonly ones have a       *)
(* shared reference to the host.                                           *)
Activation(readonly) ==
    [flat |-> root, box |-> Reference, readonly |-> readonly, call |-> "none",
     saved |-> [root |-> root, entry |-> entry, logical |-> logical]]

Top == Last(stack)

WithTop(a) == [stack EXCEPT ![Len(stack)] = a]

Running == stack # << >> /\ ~trapped

Writable == Running /\ ~Top.readonly

Init ==
    /\ root \in Values /\ entry \in Values
    /\ stack = << >>
    /\ trapped = FALSE
    /\ logical = [flat |-> root, box |-> entry, exposed |-> FALSE]

(* A transaction invokes the contract. *)
Receive(readonly) ==
    /\ stack = << >> /\ ~trapped
    /\ stack' = <<Activation(readonly)>>
    /\ UNCHANGED <<root, entry, trapped, logical>>

-----------------------------------------------------------------------------
(* What the contract does with its state *)

state_mut(v) ==
    /\ Writable
    /\ stack' = WithTop([Top EXCEPT !.flat = v])
    /\ logical' = [logical EXCEPT !.flat = v]
    /\ UNCHANGED <<root, entry, trapped>>

Cached(box) == IF box.loaded THEN box ELSE Loaded(entry, FALSE)

box_get ==
    /\ Running
    /\ stack' = WithTop([Top EXCEPT !.box = Cached(@)])
    /\ UNCHANGED <<root, entry, trapped, logical>>

(* In memory only *)
box_get_mut(v) ==
    /\ Writable
    /\ stack' = WithTop([Top EXCEPT !.box = Loaded(v, TRUE)])
    /\ logical' = [logical EXCEPT !.box = v]
    /\ UNCHANGED <<root, entry, trapped>>

(* In memory and in the node *)
box_update(v) ==
    /\ Writable
    /\ entry' = v
    /\ stack' = WithTop([Top EXCEPT !.box = Loaded(v, Cached(@).modified)])
    /\ logical' = [logical EXCEPT !.box = v]
    /\ UNCHANGED <<root, trapped>>

(* The state is serialized into the root entry.  Of the box this is its    *)
(* location.                                                               *)
commit_state ==
    /\ Writable
    /\ root' = Top.flat
    /\ UNCHANGED <<entry, stack, trapped, logical>>

-----------------------------------------------------------------------------
(* Calls *)

MayCall == Len(stack) < MaxDepth

Exposed == [logical EXCEPT !.exposed = @ \/ Top.box.modified]

(* What the function that the running one calls starts with, when the      *)
(* node's root entry is r.                                                 *)
Callee(readonly, r) ==
    [Activation(readonly) EXCEPT
        !.flat = r, !.saved = [root |-> r, entry |-> entry, logical |-> Exposed]]

(* Mutant: the state is not committed before the call. *)
invoke_contract_raw_uncommitted(readonly) ==
    /\ Writable /\ MayCall
    /\ stack' = Append(WithTop([Top EXCEPT !.call = "raw"]), Callee(readonly, root))
    /\ logical' = Exposed
    /\ UNCHANGED <<root, entry, trapped>>

(* The state is committed, then the callee, or one that it calls, invokes  *)
(* the contract again.                                                     *)
invoke_contract_raw(readonly) ==
    /\ Writable /\ MayCall
    /\ root' = Top.flat
    /\ stack' = Append(WithTop([Top EXCEPT !.call = "raw"]), Callee(readonly, Top.flat))
    /\ logical' = Exposed
    /\ UNCHANGED <<entry, trapped>>

(* "the state must be manually stored" before the call                     *)
(* (traits.rs:430), so a contract that has not done so does not call;      *)
(* readonly functions have nothing to store.                               *)
invoke_contract_raw_read_only(readonly) ==
    /\ Running /\ MayCall
    /\ root = Top.flat
    /\ stack' = Append(WithTop([Top EXCEPT !.call = "read_only"]), Callee(readonly, root))
    /\ logical' = Exposed
    /\ UNCHANGED <<root, entry, trapped>>

(* The node's state after a receive function has succeeded: what a         *)
(* writable one has in memory is stored, and its box dropped.              *)
StoredRoot  == IF Top.readonly THEN root ELSE Top.flat

(* Mutant: the drop does not write. *)
StoredEntry_undropped == entry

StoredEntry == IF Top.box.modified THEN Top.box.value ELSE entry

(* The outermost function succeeds. *)
Finish ==
    /\ Running /\ Len(stack) = 1
    /\ root' = StoredRoot /\ entry' = StoredEntry
    /\ stack' = << >>
    /\ UNCHANGED <<trapped, logical>>

Caller == stack[Len(stack) - 1]

(* A callee that modifies nothing leaves the caller as it is. *)
ReturnUnmodified ==
    /\ Running /\ Len(stack) > 1 /\ Top.readonly
    /\ stack' = Append(SubSeq(stack, 1, Len(stack) - 2), [Caller EXCEPT !.call = "none"])
    /\ UNCHANGED <<root, entry, trapped, logical>>

(* The state has been modified, so the caller loads it again.  That drops  *)
(* the caller's old state: a box that it had modified is written, if its   *)
(* entry is still valid, and the caller is aborted if not.                 *)
ReturnModified ==
    /\ Running /\ Len(stack) > 1 /\ ~Top.readonly
    /\ Caller.call = "raw"
    /\ root' = StoredRoot
    /\ stack' = Append(SubSeq(stack, 1, Len(stack) - 2),
                       [Caller EXCEPT !.flat = StoredRoot, !.box = Reference, !.call = "none"])
    /\ \E valid \in IF Caller.box.modified THEN BOOLEAN ELSE {TRUE} :
         /\ trapped' = ~valid
         /\ entry' = IF valid /\ Caller.box.modified THEN Caller.box.value ELSE StoredEntry
    /\ UNCHANGED logical

(* A read-only call that modified the state aborts the caller, which the   *)
(* node answers by taking back what it did.                                *)
ReturnForbidden ==
    /\ Running /\ Len(stack) > 1 /\ ~Top.readonly
    /\ Caller.call = "read_only"
    /\ LET saved == Caller.saved
           below == SubSeq(stack, 1, Len(stack) - 2)
       IN  /\ root' = saved.root /\ entry' = saved.entry /\ logical' = saved.logical
           /\ stack' = IF below = << >> THEN below
                       ELSE [below EXCEPT ![Len(below)].call = "none"]
    /\ UNCHANGED trapped

(* The running function rejects, fails or was aborted, and the node takes  *)
(* back what it did.  The caller does not load the state again.            *)
Reject ==
    /\ stack # << >>
    /\ root' = Top.saved.root /\ entry' = Top.saved.entry /\ logical' = Top.saved.logical
    /\ stack' = IF Len(stack) = 1 THEN << >>
                ELSE Append(SubSeq(stack, 1, Len(stack) - 2), [Caller EXCEPT !.call = "none"])
    /\ trapped' = FALSE

-----------------------------------------------------------------------------

Next ==
    \/ \E readonly \in BOOLEAN : \/ Receive(readonly)
                                 \/ invoke_contract_raw(readonly)
                                 \/ invoke_contract_raw_read_only(readonly)
    \/ \E v \in Values : state_mut(v) \/ box_get_mut(v) \/ box_update(v)
    \/ box_get \/ commit_state
    \/ Finish \/ ReturnUnmodified \/ ReturnModified \/ ReturnForbidden \/ Reject

Spec == Init /\ [][Next]_hostVars

-----------------------------------------------------------------------------
(* Properties *)

Box == {Reference} \cup {Loaded(v, m) : v \in Values, m \in BOOLEAN}

Logical == [flat: Values, box: Values, exposed: BOOLEAN]

ActivationType ==
    [flat: Values, box: Box, readonly: BOOLEAN, call: {"none", "raw", "read_only"},
     saved: [root: Values, entry: Values, logical: Logical]]

(* Each of the functions below the running one waits for a call.           *)
TypeOK ==
    /\ root \in Values /\ entry \in Values /\ trapped \in BOOLEAN /\ logical \in Logical
    /\ stack \in Seq(ActivationType) /\ Len(stack) <= MaxDepth
    /\ \A n \in DOMAIN stack : stack[n].call = "none" <=> n = Len(stack)

(* The running function reads, in memory or from the node, the values that *)
(* were last assigned, by itself, by a caller before the call or by a      *)
(* callee that succeeded: what a function has changed is committed before  *)
(* a call (HasHost::invoke_contract_raw), and what a callee has changed is *)
(* loaded after it.  The flat value always; the box as long as no function *)
(* whose work is kept has called out with the box modified in memory.      *)
ViewIsCurrent ==
    Running => /\ Top.flat = logical.flat
               /\ ~logical.exposed => Cached(Top.box).value = logical.box

(* Between transactions the node has what was assigned in functions that   *)
(* succeeded, and nothing of those that failed: the flat value always, the *)
(* box unless a call was made while it was modified in memory.             *)
StoredAtEnd ==
    stack = << >> => /\ root = logical.flat
                     /\ ~logical.exposed => entry = logical.box

(* The reload after a call aborts no caller but one whose box was modified *)
(* in memory when it called.                                               *)
TrappedByExposed == trapped => logical.exposed

(* What the node has agrees with what functions that succeeded assigned,   *)
(* through calls that return, reject or are read-only, and a caller that   *)
(* is aborted by the reload had left a box in memory.                      *)
Consistent == TypeOK /\ StoredAtEnd /\ TrappedByExposed

(* The claim of HasHost::commit_state, which is done before a call: "Make  *)
(* sure the contract state is fully written out, so that any changes that  *)
(* were done in-memory up to the point in contract execution are reflected *)
(* in the actual contract state." (traits.rs:553).  The code writes the    *)
(* root entry, and a box modified in memory keeps its change.              *)
CommitWritesBox == Running => Cached(Top.box).value = logical.box

=============================================================================
