------------------------ MODULE MCDomainConversions -------------------------
(***************************************************************************)
(* Converts every raw message of a small universe to its domain type and  *)
(* back, and every domain value to its raw form and back.                  *)
(***************************************************************************)
EXTENDS Integers, Sequences, SequencesExt, DomainConversions

CONSTANTS Heights, Ids, Committees

VARIABLES input, out, back

vars == <<input, out, back>>

\* Heights and rounds around the lower bound of the bounded integers.
MCHeights == {-1, 0, 1}

RawCommits ==
    [height : Heights, round : Heights, block_id : Ids \cup {NONE, Bad},
     signatures : SeqOf({"sig", Bad}, 2)]

\* The ethabi forms: block_id is a struct, not an option; hashes are bytes32.
EthAbiCommits ==
    [height : Heights, round : Heights, block_id : Ids \cup {Bad},
     signatures : SeqOf({"sig", Bad}, 2)]

EthAbiHeaders ==
    [signed_header : {"signed_header", Bad}, trusted_height : {"height"},
     zero_knowledge_proof : {"zkp"}]

EthAbiCometblsConsensusStates ==
    [timestamp : {0, 1}, app_hash : {"root"}, next_validators_hash : {"hash"}]

RawPollResults ==
    {[type |-> "Pending"], [type |-> "Failed", message |-> "msg"]}
    \cup [type : {"Done"}, response : {NONE, "proof", Bad}]

RawPollResponses == [result : RawPollResults \cup {NONE}]

RawTrustedSyncCommittees ==
    [trusted_height : {NONE, "height"},
     current_sync_committee : Committees \cup {NONE, Bad},
     next_sync_committee : Committees \cup {NONE, Bad}]

\* Hashes, roots and nested messages: a valid one, or Bad (wrong length or
\* refused by its own conversion).
Hash == {"hash", Bad}
Root == {"root", Bad}

RawCometblsConsensusStates ==
    [timestamp : {0, 1}, root : Root \cup {NONE}, next_validators_hash : Hash]

RawTendermintConsensusStates ==
    [timestamp : {"ts", Bad, NONE}, root : Root \cup {NONE}, next_validators_hash : Hash]

RawScrollConsensusStates ==
    [batch_index : {0, 1}, ibc_storage_root : Hash, timestamp : {0, 1}]

RawMerkleProofs == [proofs : SeqOf({"proof", Bad}, 2)]

RawMerklePaths == [key_path : SeqOf({"k1", "k2"}, 2)]

RawAccountUpdates == [account_proof : {"account_proof", Bad, NONE}]

RawHeaders ==
    [signed_header : {"signed_header", Bad, NONE}, trusted_height : {"height", NONE},
     zero_knowledge_proof : {"zkp"}]

RawZeroKnowledgeProofs ==
    [content : {"c"}, compressed_content : {"cc"}, evm_proof : {"e"}, public_inputs : {"p"}]

RawBaseAccounts ==
    [address : {"addr"}, pub_key : {"pk", Bad, NONE}, account_number : {0, 1}, sequence : {0, 1}]

Raws ==
    [type : {"Commit"}, raw : RawCommits]
    \cup [type : {"EthAbiCommit"}, raw : EthAbiCommits]
    \cup [type : {"EthAbiCometblsConsensusState"}, raw : EthAbiCometblsConsensusStates]
    \cup [type : {"EthAbiHeader"}, raw : EthAbiHeaders]
    \cup [type : {"CometblsConsensusState"}, raw : RawCometblsConsensusStates]
    \cup [type : {"TendermintConsensusState"}, raw : RawTendermintConsensusStates]
    \cup [type : {"ScrollConsensusState"}, raw : RawScrollConsensusStates]
    \cup [type : {"MerkleProof"}, raw : RawMerkleProofs]
    \cup [type : {"MerklePath"}, raw : RawMerklePaths]
    \cup [type : {"AccountUpdate"}, raw : RawAccountUpdates]
    \cup [type : {"Header"}, raw : RawHeaders]
    \cup [type : {"ZeroKnowledgeProof"}, raw : RawZeroKnowledgeProofs]
    \cup [type : {"BaseAccount"}, raw : RawBaseAccounts]
    \cup [type : {"PollResponse"}, raw : RawPollResponses]
    \cup [type : {"TrustedSyncCommittee"}, raw : RawTrustedSyncCommittees]

TryFrom(type, r) ==
    CASE type = "Commit" -> commit_try_from(r)
      [] type = "EthAbiCommit" -> commit_try_from_ethabi(r)
      [] type = "EthAbiCometblsConsensusState" -> cometbls_consensus_state_from_ethabi(r)
      [] type = "EthAbiHeader" -> header_try_from_ethabi(r)
      [] type = "PollResponse" -> poll_response_try_from(r)
      [] type = "TrustedSyncCommittee" -> trusted_sync_committee_try_from(r)
      [] type = "CometblsConsensusState" -> cometbls_consensus_state_try_from(r)
      [] type = "TendermintConsensusState" -> tendermint_consensus_state_try_from(r)
      [] type = "ScrollConsensusState" -> scroll_consensus_state_try_from(r)
      [] type = "MerkleProof" -> merkle_proof_try_from(r)
      [] type = "MerklePath" -> Ok(merkle_path_from_raw(r))
      [] type = "AccountUpdate" -> account_update_try_from(r)
      [] type = "Header" -> header_try_from(r)
      [] type = "ZeroKnowledgeProof" -> Ok(zero_knowledge_proof_from_raw(r))
      [] type = "BaseAccount" -> base_account_try_from(r)

From(type, d) ==
    CASE type = "Commit" -> commit_from(d)
      [] type = "EthAbiCommit" -> commit_to_ethabi(d)
      [] type = "EthAbiCometblsConsensusState" -> cometbls_consensus_state_to_ethabi(d)
      [] type = "EthAbiHeader" -> header_to_ethabi(d)
      [] type = "PollResponse" -> poll_response_from(d)
      [] type = "TrustedSyncCommittee" -> trusted_sync_committee_from(d)
      [] type = "CometblsConsensusState" -> cometbls_consensus_state_from(d)
      [] type = "TendermintConsensusState" -> tendermint_consensus_state_from(d)
      [] type = "ScrollConsensusState" -> scroll_consensus_state_from(d)
      [] type = "MerkleProof" -> merkle_proof_from(d)
      [] type = "MerklePath" -> merkle_path_from(d)
      [] type = "AccountUpdate" -> account_update_from(d)
      [] type = "Header" -> header_from(d)
      [] type = "ZeroKnowledgeProof" -> zero_knowledge_proof_from(d)
      [] type = "BaseAccount" -> base_account_from(d)

Init ==
    /\ input \in Raws
    /\ out = Err("None")
    /\ back = NONE

\* Decode the raw message, and encode the domain value again.
Convert ==
    /\ out = Err("None")
    /\ out' = TryFrom(input.type, input.raw)
    /\ back' = IF out'.ok THEN From(input.type, out'.val) ELSE NONE
    /\ UNCHANGED input

Next == Convert

Spec == Init /\ [][Next]_vars

-----------------------------------------------------------------------------

\* The raw form the spec says a decode keeps: both committees set is
\* decoded as Current (spec 3, TrustedSyncCommittee), so Next is dropped.
Canonical(type, r) ==
    IF type = "TrustedSyncCommittee" /\ r.current_sync_committee # NONE
    THEN [r EXCEPT !.next_sync_committee = NONE]
    ELSE r

(***************************************************************************)
(* Spec 3: the domain types round-trip losslessly against their wire form. *)
(* A raw message that decodes is encoded back to itself (a trusted sync    *)
(* committee with both committees set, to itself with Current only), and   *)
(* decoding that encoding gives the same domain value.                     *)
(***************************************************************************)
ConversionsRoundTrip ==
    out.ok =>
        /\ back = Canonical(input.type, input.raw)
        /\ TryFrom(input.type, back) = out

=============================================================================
