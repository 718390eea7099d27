------------------------- MODULE CredentialRegistry -------------------------
(***************************************************************************)
(* examples/credential-registry: credentials that the issuer registers and *)
(* that the issuer, their holder or a revocation authority can revoke, the *)
(* last two by signed messages.                                            *)
(***************************************************************************)
EXTENDS Ledger

CONSTANTS
    Holders, RevocationKeys,  \* public keys
    issuer_account,
    CredentialInfos,          \* holder_revocable, valid_from, valid_until of credentials
    Revocations,              \* signed messages: key, credential, nonce, entrypoint, time
    Urls,
    RegistryImplementors

\* `seen' is also what somebody knows who has kept the signed messages.
Init ==
    /\ \E url \in Urls, keys \in SUBSET RevocationKeys :
          /\ state = [issuer_metadata     |-> url,
                      revocation_keys     |-> [k \in RevocationKeys |-> IF k \in keys THEN 0 ELSE None],
                      all_revocation_keys |-> keys,
                      credentials         |-> [h \in Holders |-> None],
                      credential_schema   |-> url,
                      implementors        |-> {},
                      now                 |-> 0]
          /\ seen = [issuer_metadata |-> url, keys |-> keys, schema |-> url,
                     metadata |-> [h \in Holders |-> None], revoked |-> {},
                     signed |-> {}, replayed |-> FALSE]
    /\ calls = <<>>
    /\ ops = 0

get_status(entry) ==
    IF entry.revoked THEN "Revoked"
    ELSE IF entry.valid_until # None /\ entry.valid_until < state.now THEN "Expired"
    ELSE IF state.now < entry.valid_from THEN "NotActivated"
    ELSE "Active"

credential_status(h) ==
    IF state.credentials[h] = None THEN "CredentialNotFound" ELSE get_status(state.credentials[h])

\* Entrypoints that are for the issuer only.
CalledByIssuer(sender) == Called(sender) /\ sender = issuer_account

Same == UNCHANGED calls

-----------------------------------------------------------------------------
(* Credentials *)

NotRegistered(h) == state.credentials[h] = None

contract_register_credential(sender, h, info, url) ==
    /\ CalledByIssuer(sender)
    /\ NotRegistered(h)
    /\ state' = [state EXCEPT !.credentials[h] =
                   [holder_revocable |-> info.holder_revocable, valid_from |-> info.valid_from,
                    valid_until |-> info.valid_until, metadata_url |-> url,
                    revocation_nonce |-> 0, revoked |-> FALSE]]
    /\ seen' = [seen EXCEPT !.metadata[h] = url]
    /\ Same

\* The url after several updates, of this credential and of others.
UrlAfter(url, h, updates) ==
    LET own == {i \in DOMAIN updates : updates[i][1] = h}
    IN  IF own = {} THEN url ELSE updates[Latest(own)][2]

\* The metadata of several credentials, or of none if one does not exist.
contract_update_credential_metadata(sender, updates) ==
    /\ CalledByIssuer(sender)
    /\ \A i \in DOMAIN updates : state.credentials[updates[i][1]] # None
    /\ state' = [state EXCEPT !.credentials =
                   [h \in Holders |->
                      IF state.credentials[h] = None THEN None
                      ELSE [state.credentials[h] EXCEPT !.metadata_url = UrlAfter(@, h, updates)]]]
    /\ seen' = [seen EXCEPT !.metadata =
                  [h \in Holders |-> UrlAfter(seen.metadata[h], h, updates)]]
    /\ Same

\* State::revoke_credential
Revocable(h) == credential_status(h) \in {"Active", "NotActivated"}
revoke_credential(s, h) == [s EXCEPT !.credentials[h].revoked = TRUE]

RevokeEvent(s, h) == [s EXCEPT !.revoked = @ \cup {h}]

contract_revoke_credential_issuer(sender, h) ==
    /\ CalledByIssuer(sender)
    /\ Revocable(h)
    /\ state' = revoke_credential(state, h)
    /\ seen' = RevokeEvent(seen, h)
    /\ Same

\* authorize_with_signature, for messages that are signed and for this contract.
Authorized(message, nonce, entry_point) ==
    /\ message.nonce = nonce
    /\ message.entry_point = entry_point
    /\ message.timestamp > state.now

Kept(s, message) ==
    [s EXCEPT !.signed = @ \cup {message}, !.replayed = @ \/ message \in s.signed]

contract_revoke_credential_holder(sender, message) ==
    LET h     == message.credential_id
        entry == state.credentials[h]
    IN  /\ Called(sender)
        /\ entry # None
        /\ entry.holder_revocable
        /\ message.key = h
        /\ Authorized(message, entry.revocation_nonce, "revokeCredentialHolder")
        /\ Revocable(h)
        /\ state' = [revoke_credential(state, h) EXCEPT !.credentials[h].revocation_nonce = @ + 1]
        /\ seen' = RevokeEvent(Kept(seen, message), h)
        /\ Same

contract_revoke_credential_other(sender, message) ==
    LET h == message.credential_id
        k == message.key
    IN  /\ Called(sender)
        /\ state.credentials[h] # None
        /\ k \in RevocationKeys /\ state.revocation_keys[k] # None
        /\ Authorized(message, state.revocation_keys[k], "revokeCredentialOther")
        /\ Revocable(h)
        /\ state' = [revoke_credential(state, h) EXCEPT !.revocation_keys[k] = @ + 1]
        /\ seen' = RevokeEvent(Kept(seen, message), h)
        /\ Same

contract_restore_credential(sender, h) ==
    /\ CalledByIssuer(sender)
    /\ credential_status(h) = "Revoked"
    /\ state' = [state EXCEPT !.credentials[h].revoked = FALSE]
    /\ seen' = [seen EXCEPT !.revoked = @ \ {h}]
    /\ Same

-----------------------------------------------------------------------------
(* Keys *)

\* Mutant: a key that has been removed is forgotten.
MayRegister_removed(k) == state.revocation_keys[k] = None

\* A key that has been removed may not come back.
MayRegister(k) == k \notin state.all_revocation_keys

contract_register_revocation_keys(sender, keys) ==
    /\ CalledByIssuer(sender)
    /\ \A k \in keys : MayRegister(k)
    /\ state' = [state EXCEPT
                   !.all_revocation_keys = @ \cup keys,
                   !.revocation_keys = [k \in RevocationKeys |-> IF k \in keys THEN 0 ELSE @[k]]]
    /\ seen' = [seen EXCEPT !.keys = @ \cup keys]
    /\ Same

contract_remove_revocation_keys(sender, keys) ==
    /\ CalledByIssuer(sender)
    /\ \A k \in keys : state.revocation_keys[k] # None
    /\ state' = [state EXCEPT
                   !.revocation_keys = [k \in RevocationKeys |-> IF k \in keys THEN None ELSE @[k]]]
    /\ seen' = [seen EXCEPT !.keys = @ \ keys]
    /\ Same

-----------------------------------------------------------------------------
(* The registry *)

contract_update_issuer_metadata(sender, url) ==
    /\ CalledByIssuer(sender)
    /\ state' = [state EXCEPT !.issuer_metadata = url]
    /\ seen' = [seen EXCEPT !.issuer_metadata = url]
    /\ Same

contract_update_credential_schema(sender, schema) ==
    /\ CalledByIssuer(sender)
    /\ state' = [state EXCEPT !.credential_schema = schema]
    /\ seen' = [seen EXCEPT !.schema = schema]
    /\ Same

contract_set_implementor(sender, implementors) ==
    /\ CalledByIssuer(sender)
    /\ state' = [state EXCEPT !.implementors = implementors]
    /\ Quietly

Next ==
    \/ \E sender \in Addresses :
          \/ \E h \in Holders, info \in CredentialInfos, url \in Urls :
                contract_register_credential(sender, h, info, url)
          \/ \E h, g \in Holders, url \in Urls :
                contract_update_credential_metadata(sender, <<<<h, url>>, <<g, url>>>>)
          \/ \E h \in Holders :
                \/ contract_revoke_credential_issuer(sender, h)
                \/ contract_restore_credential(sender, h)
          \/ \E message \in Revocations :
                \/ contract_revoke_credential_holder(sender, message)
                \/ contract_revoke_credential_other(sender, message)
          \/ \E keys \in SUBSET RevocationKeys \ {{}} :
                \/ contract_register_revocation_keys(sender, keys)
                \/ contract_remove_revocation_keys(sender, keys)
          \/ \E url \in Urls :
                \/ contract_update_issuer_metadata(sender, url)
                \/ contract_update_credential_schema(sender, url)
          \/ \E implementors \in RegistryImplementors : contract_set_implementor(sender, implementors)
    \/ Tick

-----------------------------------------------------------------------------
(* Properties *)

contract_revocation_keys == {k \in RevocationKeys : state.revocation_keys[k] # None}

\* Those who follow the events know which credentials are revoked, the metadata
\* and the keys.
LogTellsRegistry ==
    /\ \A h \in Holders : credential_status(h) = "Revoked" <=> h \in seen.revoked
    /\ \A h \in Holders : state.credentials[h] # None
                            => state.credentials[h].metadata_url = seen.metadata[h]
    /\ contract_revocation_keys = seen.keys
    /\ state.issuer_metadata = seen.issuer_metadata /\ state.credential_schema = seen.schema

\* No signed revocation is used twice: not after the credential is restored, and
\* not after the key is removed.
SignedOnce == ~ seen.replayed

\* A credential that has expired is never active again.
StaysExpired ==
    \A h \in Holders :
        state.credentials[h] # None /\ state.credentials[h].valid_until # None
          /\ state.credentials[h].valid_until < state.now
            => credential_status(h)' \in {"Expired", "Revoked"}

=============================================================================
