---------------------------- MODULE DownloadTokens ----------------------------
(***************************************************************************)
(* internal/token/token.go: the in-memory map from token to the job it was *)
(* issued for and its expiry, as a set of entries with distinct keys.      *)
(***************************************************************************)
EXTENDS ArchiveModel

VARIABLE tokens

TokenEntry == [tok : Jobs, jobID : Jobs, expiresAt : Nat]

TokensInit == tokens = {}

TokensTypeOK == tokens \subseteq TokenEntry

(* s.tokens[tok] = entry{jobID, time.Now().Add(ttl)} *)
Issue(tok, j, ttl) ==
  tokens' = {e \in tokens : e.tok # tok}
              \cup {[tok |-> tok, jobID |-> j, expiresAt |-> now + ttl]}

(* Known token, issued for this job, not yet past its expiry. *)
Validate(j, tok) ==
  \E e \in tokens : e.tok = tok /\ e.jobID = j /\ now <= e.expiresAt

Revoke(j) == tokens' = {e \in tokens : e.jobID # j}
===============================================================================
