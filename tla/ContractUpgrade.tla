-------------------------- MODULE ContractUpgrade ---------------------------
(***************************************************************************)
(* examples/smart-contract-upgrade: the admin moves an instance from       *)
(* contract-version1 to contract-version2 and back, with an entrypoint of  *)
(* the new module called in the same transaction, the migration.           *)
(*                                                                         *)
(* The root of the state is read as what the running code expects.  Both   *)
(* versions keep the account of the admin and two texts, so that either    *)
(* reads what the other has written: the root is these three.              *)
(***************************************************************************)
EXTENDS Entrypoints

CONSTANT Self

Modules == {"contract-version1", "contract-version2"}

\* seen is how many migrations the admin has had.
Init ==
    /\ state = [module |-> "contract-version1", root |-> <<Owner, "not to be migrated", "to be migrated">>]
    /\ seen = 0
    /\ calls = <<>>
    /\ ops = 0

\* The module is replaced at once; the entrypoint that is then called by the
\* contract itself is the new module's.
contract_upgrade(sender, module, migrate) ==
    /\ Called(sender)
    /\ sender = state.root[1]
    /\ state' = [state EXCEPT !.module = module]
    /\ seen' = IF migrate = "migration" THEN seen + 1 ELSE seen
    /\ calls' = IF migrate = None THEN calls
                ELSE Append(calls, [hook |-> None, migrate |-> migrate, saved |-> Saved])

\* A call to an entrypoint from outside, or the call of the upgrade under way.
CalledAs(sender, entrypoint) ==
    IF sender = Self
    THEN calls # <<>> /\ Top.migrate = entrypoint /\ UNCHANGED ops
    ELSE Called(sender)

Finished == calls' = IF calls = <<>> THEN calls ELSE Waiting(calls)

contract_migration(sender) ==
    /\ state.module = "contract-version2"
    /\ CalledAs(sender, "migration")
    /\ sender = Self
    /\ state' = [state EXCEPT !.root = <<@[1], @[3], "new">>]
    /\ Finished
    /\ UNCHANGED seen

contract_view(sender) ==
    /\ CalledAs(sender, "view")
    /\ Finished
    /\ UNCHANGED <<state, seen>>

\* The upgrade calls what the new module does not have, or the upgrade itself,
\* which only the admin may: it is undone with what it has done so far.
MigrationFails ==
    /\ calls # <<>>
    /\ \/ Top.migrate = "upgrade"
       \/ Top.migrate = "migration" /\ state.module = "contract-version1"
    /\ Rejects
    /\ UNCHANGED ops

Next ==
    \/ \E sender \in Addresses \cup {Self} :
          \/ contract_migration(sender)
          \/ contract_view(sender)
    \/ \E sender \in Addresses, module \in Modules, migrate \in {None, "migration", "view", "upgrade"} :
          contract_upgrade(sender, module, migrate)
    \/ MigrationFails

-----------------------------------------------------------------------------
(* Properties *)

\* The admin stays, the state is migrated when the admin has it migrated and
\* never otherwise, and what was to be migrated is there after one migration.
\* A second migration loses it: the version-2 root is read as a version-1 root.
MigratedOnRequest ==
    /\ state.root[1] = Owner
    /\ calls = <<>> =>
         /\ seen = 0 => state.root[3] = "to be migrated"
         /\ seen = 1 => state.root[2] = "to be migrated"

=============================================================================
