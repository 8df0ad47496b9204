-------------------------- MODULE DomainConversions --------------------------
(***************************************************************************)
(* Validated conversions between the light-client domain types of          *)
(* unionlabs and their protobuf forms: From (domain to raw, total) and     *)
(* TryFrom (raw to domain, fallible).                                      *)
(*                                                                         *)
(*   Commit                tendermint/types/commit.rs                      *)
(*   PollResponse          union/galois/poll_response.rs                   *)
(*   TrustedSyncCommittee  ibc/lightclients/ethereum/                      *)
(*                         trusted_sync_committee.rs                       *)
(*   ConsensusState        ibc/lightclients/{cometbls,tendermint,scroll}/  *)
(*   MerkleProof, Path     ibc/core/commitment/                            *)
(*   AccountUpdate         ibc/lightclients/ethereum/account_update.rs     *)
(*   Header                ibc/lightclients/cometbls/header.rs             *)
(*   ZeroKnowledgeProof    union/galois/zero_knowledge_proof.rs            *)
(*   BaseAccount           cosmos/auth/base_account.rs                     *)
(*                                                                         *)
(* A nested message whose own conversion lives elsewhere (BlockId,         *)
(* CommitSig, ProveResponse, SyncCommittee, Height, MerkleRoot, H256,      *)
(* CommitmentProof, AccountProof, SignedHeader, AnyPubKey) is a model      *)
(* value: a raw one is the domain value itself or Bad, the one its TryFrom *)
(* refuses. A byte string or integer copied unchanged is a model value.    *)
(* An absent proto field (None) is NONE.                                   *)
(***************************************************************************)
EXTENDS Integers, Sequences

CONSTANTS NONE, Bad

\* Result constructors.
Ok(v) == [ok |-> TRUE, val |-> v]
Err(e) == [ok |-> FALSE, err |-> e]

\* The nested conversions: a raw value is Bad or the domain value itself.
Nested(x) == IF x = Bad THEN Err("nested") ELSE Ok(x)

\* required!(field): MissingField when absent.
required(x) == IF x = NONE THEN Err("MissingField") ELSE Ok(x)

\* BoundedI64<0, i64::MAX> and BoundedI32<0, i32::MAX>: negatives are refused.
bounded(n) == IF n < 0 THEN Err("BoundedIntError") ELSE Ok(n)

\* Vec<_>::collect::<Result<_, _>>: the first error, or every value.
collect(s) ==
    IF \E i \in DOMAIN s : s[i] = Bad THEN Err("nested") ELSE Ok(s)

-----------------------------------------------------------------------------
(* Commit. *)

commit_from(c) ==
    [height |-> c.height, round |-> c.round, block_id |-> c.block_id,
     signatures |-> c.signatures]

\* TryFrom<protos::tendermint::types::Commit>: fields in declaration order.
commit_try_from(r) ==
    LET h == bounded(r.height)
        rd == bounded(r.round)
        bid == required(r.block_id)
        sigs == collect(r.signatures)
    IN  CASE ~h.ok -> Err("Height")
          [] ~rd.ok -> Err("Round")
          [] ~bid.ok -> Err("MissingField")
          [] ~Nested(bid.val).ok -> Err("BlockId")
          [] ~sigs.ok -> Err("Signatures")
          [] OTHER -> Ok([height |-> h.val, round |-> rd.val, block_id |-> bid.val,
                         signatures |-> sigs.val])

\* TryFrom<TendermintTypesCommitData> (feature ethabi): the same checks,
\* with block_id not optional.
commit_try_from_ethabi(r) ==
    LET h == bounded(r.height)
        rd == bounded(r.round)
        sigs == collect(r.signatures)
    IN  CASE ~h.ok -> Err("Height")
          [] ~rd.ok -> Err("Round")
          [] ~Nested(r.block_id).ok -> Err("BlockId")
          [] ~sigs.ok -> Err("Signatures")
          [] OTHER -> Ok([height |-> h.val, round |-> rd.val, block_id |-> r.block_id,
                         signatures |-> sigs.val])

commit_to_ethabi(c) ==
    [height |-> c.height, round |-> c.round, block_id |-> c.block_id,
     signatures |-> c.signatures]

-----------------------------------------------------------------------------
(* PollResponse: Pending | Failed(message) | Done(response). *)

poll_response_from(p) ==
    [result |-> CASE p.type = "Pending" -> [type |-> "Pending"]
                  [] p.type = "Failed"  -> [type |-> "Failed", message |-> p.message]
                  [] p.type = "Done"    -> [type |-> "Done", response |-> p.response]]

poll_response_try_from(r) ==
    LET res == required(r.result)
    IN  IF ~res.ok THEN res
        ELSE CASE res.val.type = "Pending" -> Ok([type |-> "Pending"])
               [] res.val.type = "Failed" -> Ok([type |-> "Failed", message |-> res.val.message])
               [] res.val.type = "Done" ->
                    LET resp == required(res.val.response)
                    IN  CASE ~resp.ok -> resp
                          [] ~Nested(resp.val).ok -> Err("ProveResponse")
                          [] OTHER -> Ok([type |-> "Done", response |-> resp.val])

-----------------------------------------------------------------------------
(* TrustedSyncCommittee: a trusted height and Current(c) or Next(c). *)

\* Mutant of trusted_sync_committee_from: Next written to the current field.
trusted_sync_committee_from_Swapped(t) ==
    [trusted_height |-> t.trusted_height,
     current_sync_committee |-> IF t.kind = "Next" THEN t.committee ELSE NONE,
     next_sync_committee |-> IF t.kind = "Current" THEN t.committee ELSE NONE]

trusted_sync_committee_from(t) ==
    [trusted_height |-> t.trusted_height,
     current_sync_committee |-> IF t.kind = "Current" THEN t.committee ELSE NONE,
     next_sync_committee |-> IF t.kind = "Next" THEN t.committee ELSE NONE]

(***************************************************************************)
(* try_from: trusted_height is required; then (None, None) is              *)
(* MissingField, (None, Some(next)) is Next, (Some(current), _) is Current *)
(* whatever next holds, even a committee that would not convert.           *)
(***************************************************************************)
trusted_sync_committee_try_from(r) ==
    LET h == required(r.trusted_height)
        cur == r.current_sync_committee
        nxt == r.next_sync_committee
    IN  CASE ~h.ok -> h
          [] cur = NONE /\ nxt = NONE -> Err("MissingField")
          [] cur = NONE ->
               IF ~Nested(nxt).ok THEN Err("SyncCommittee")
               ELSE Ok([trusted_height |-> h.val, kind |-> "Next", committee |-> nxt])
          [] OTHER ->
               IF ~Nested(cur).ok THEN Err("SyncCommittee")
               ELSE Ok([trusted_height |-> h.val, kind |-> "Current", committee |-> cur])


-----------------------------------------------------------------------------
(* Consensus states. A raw hash or root is the domain value or Bad, the   *)
(* wrong length its try_into refuses.                                      *)

\* cometbls: the proto field root is the domain field app_hash.
cometbls_consensus_state_try_from(r) ==
    LET root == required(r.root)
    IN  CASE ~root.ok -> root
          [] ~Nested(root.val).ok -> Err("Root")
          [] ~Nested(r.next_validators_hash).ok -> Err("NextValidatorsHash")
          [] OTHER -> Ok([timestamp |-> r.timestamp, app_hash |-> root.val,
                         next_validators_hash |-> r.next_validators_hash])

cometbls_consensus_state_from(c) ==
    [timestamp |-> c.timestamp, root |-> c.app_hash,
     next_validators_hash |-> c.next_validators_hash]

\* OptimizedConsensusState (feature ethabi): app_hash is the root's hash and
\* both hashes are fixed-size, so the conversion cannot fail.
cometbls_consensus_state_from_ethabi(r) ==
    Ok([timestamp |-> r.timestamp, app_hash |-> r.app_hash,
        next_validators_hash |-> r.next_validators_hash])

cometbls_consensus_state_to_ethabi(c) ==
    [timestamp |-> c.timestamp, app_hash |-> c.app_hash,
     next_validators_hash |-> c.next_validators_hash]

\* tendermint: timestamp and root are required; a timestamp out of range is Bad.
tendermint_consensus_state_try_from(r) ==
    LET ts == required(r.timestamp)
        root == required(r.root)
    IN  CASE ~ts.ok -> ts
          [] ~Nested(ts.val).ok -> Err("Timestamp")
          [] ~root.ok -> root
          [] ~Nested(root.val).ok -> Err("Root")
          [] ~Nested(r.next_validators_hash).ok -> Err("NextValidatorsHash")
          [] OTHER -> Ok([timestamp |-> ts.val, root |-> root.val,
                         next_validators_hash |-> r.next_validators_hash])

tendermint_consensus_state_from(c) ==
    [timestamp |-> c.timestamp, root |-> c.root,
     next_validators_hash |-> c.next_validators_hash]

scroll_consensus_state_from(c) ==
    [batch_index |-> c.batch_index, ibc_storage_root |-> c.ibc_storage_root,
     timestamp |-> c.timestamp]

scroll_consensus_state_try_from(r) ==
    IF ~Nested(r.ibc_storage_root).ok THEN Err("IbcStorageRoot")
    ELSE Ok([batch_index |-> r.batch_index, ibc_storage_root |-> r.ibc_storage_root,
             timestamp |-> r.timestamp])

-----------------------------------------------------------------------------
(* Commitment proofs and paths, the account update and the cometbls       *)
(* header. CommitmentProof, AccountProof and SignedHeader are nested.      *)

merkle_proof_try_from(r) ==
    LET proofs == collect(r.proofs)
    IN  IF ~proofs.ok THEN Err("Proofs") ELSE Ok([proofs |-> proofs.val])

merkle_proof_from(p) == [proofs |-> p.proofs]

merkle_path_from(p) == [key_path |-> p.key_path]

merkle_path_from_raw(r) == [key_path |-> r.key_path]

account_update_from(a) == [account_proof |-> a.account_proof]

account_update_try_from(r) ==
    LET proof == required(r.account_proof)
    IN  CASE ~proof.ok -> proof
          [] ~Nested(proof.val).ok -> Err("AccountProof")
          [] OTHER -> Ok([account_proof |-> proof.val])

header_from(h) ==
    [signed_header |-> h.signed_header, trusted_height |-> h.trusted_height,
     zero_knowledge_proof |-> h.zero_knowledge_proof]

\* Height's From is total: a present trusted_height always converts.
header_try_from(r) ==
    LET sh == required(r.signed_header)
        th == required(r.trusted_height)
    IN  CASE ~sh.ok -> sh
          [] ~Nested(sh.val).ok -> Err("SignedHeader")
          [] ~th.ok -> th
          [] OTHER -> Ok([signed_header |-> sh.val, trusted_height |-> th.val,
                         zero_knowledge_proof |-> r.zero_knowledge_proof])

\* From<Header> for the ethabi UnionIbcLightclientsCometblsV1HeaderData.
header_to_ethabi(h) ==
    [signed_header |-> h.signed_header, trusted_height |-> h.trusted_height,
     zero_knowledge_proof |-> h.zero_knowledge_proof]

\* TryFrom of the ethabi header: signed_header is a struct, not an option,
\* so only its own conversion can fail.
header_try_from_ethabi(r) ==
    IF ~Nested(r.signed_header).ok THEN Err("SignedHeader")
    ELSE Ok([signed_header |-> r.signed_header, trusted_height |-> r.trusted_height,
             zero_knowledge_proof |-> r.zero_knowledge_proof])

-----------------------------------------------------------------------------
(* The galois zero-knowledge proof and the cosmos base account. *)

zero_knowledge_proof_from(z) ==
    [content |-> z.content, compressed_content |-> z.compressed_content,
     evm_proof |-> z.evm_proof, public_inputs |-> z.public_inputs]

zero_knowledge_proof_from_raw(r) ==
    [content |-> r.content, compressed_content |-> r.compressed_content,
     evm_proof |-> r.evm_proof, public_inputs |-> r.public_inputs]

\* An account that never sent a transaction has no pub_key; a present one
\* must convert (Option::transpose).
base_account_try_from(r) ==
    IF r.pub_key # NONE /\ ~Nested(r.pub_key).ok THEN Err("PubKey")
    ELSE Ok([address |-> r.address, pub_key |-> r.pub_key,
             account_number |-> r.account_number, sequence |-> r.sequence])

base_account_from(a) ==
    [address |-> a.address, pub_key |-> a.pub_key,
     account_number |-> a.account_number, sequence |-> a.sequence]

=============================================================================
