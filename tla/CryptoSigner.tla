---------------------------- MODULE CryptoSigner ----------------------------
(***************************************************************************)
(* suspension/crypto.py.  The HMAC-SHA256 of                               *)
(*      request_id : session_id : canonical_json(arguments)                *)
(* is a term, so two digests are equal exactly when what was signed is:    *)
(* the collision resistance of the hash (hmac and hashlib are external)    *)
(* and the determinism of canonical_json, which sorts the keys.  The       *)
(* identifier of a ticket stands for the two identifiers that go under the *)
(* signature: tickets of one request share these, but a digest is compared *)
(* only with the one that the same ticket's card holds.  An element of     *)
(* Args is a class of argument dictionaries with one canonical form:       *)
(* dictionaries that differ in key order only are the same element.        *)
(***************************************************************************)
CONSTANTS Tickets,  \* ticket identifiers (uuid4, hence never reused)
          Args      \* argument dictionaries, up to canonical_json

\* What generate_token returns: the digest, as the term that was digested.
GenerateToken(t, args) == [ticket |-> t, args |-> args]

Token == [ticket : Tickets, args : Args]

\* verify_token: recompute over the arguments presented and compare.
VerifyToken(t, args, expected) == GenerateToken(t, args) = expected
=============================================================================
