----------------------------- MODULE AuditTrail -----------------------------
(***************************************************************************)
(* gatekeeper/audit.py: the hash-chained log.  An event is a request with  *)
(* the tier and the verdict it was given.                                  *)
(*                                                                         *)
(* A SHA-256 digest is a term (hashlib is external): the digest of an      *)
(* entry is the digest of its predecessor with the content appended, so    *)
(* that equal digests were computed over equal strings.  What is equal is  *)
(* the string that the code puts together, the fields joined by "|".  Its  *)
(* outer fields can be told apart: numbers, times, enumeration values and  *)
(* hexadecimal digests hold no "|".  The three names in the middle are the *)
(* caller's, may hold one, and are only hashed as they run together.  The  *)
(* time of an entry is left out: it is hashed like the sequence number.    *)
(***************************************************************************)
EXTENDS Integers, Sequences

CONSTANTS Text(_),  \* the characters of a name
          Bar       \* the one that separates the fields

VARIABLE entries  \* self._entries

GenesisHash == <<>>

\* {request_id}|{session_id}|{tool_name}
JoinedNames(req) ==
    Text(req.id) \o <<Bar>> \o Text(req.session) \o <<Bar>> \o Text(req.tool)

\* hash_content, but for the link; of the arguments it holds their hash.
HashContent(seq, event) ==
    [seq |-> seq, names |-> JoinedNames(event.request), tier |-> event.tier,
     verdict |-> event.verdict, args |-> event.request.args]

Digest(seq, event, prev) == Append(prev, HashContent(seq, event))

HeadHash ==
    IF entries = <<>> THEN GenesisHash ELSE entries[Len(entries)].hash

\* Mutation: every entry is linked to the genesis hash.
NewEntryUnlinked(event, meta) ==
    LET seq == Len(entries) + 1
    IN [seq |-> seq, event |-> event, meta |-> meta, prev |-> GenesisHash,
        hash |-> Digest(seq, event, GenesisHash)]

\* The metadata is stored beside the hashed content.
NewEntry(event, meta) ==
    LET seq == Len(entries) + 1
    IN [seq |-> seq, event |-> event, meta |-> meta, prev |-> HeadHash,
        hash |-> Digest(seq, event, HeadHash)]

RecordEvent(event, meta) == entries' = Append(entries, NewEntry(event, meta))

\* Mutation: the links are verified, the contents are not.
EntryVerifiesLinkOnly(i) ==
    entries[i].prev = IF i = 1 THEN GenesisHash ELSE entries[i - 1].hash

\* What verify_integrity demands of one entry.
EntryVerifies(i) ==
    /\ entries[i].prev = IF i = 1 THEN GenesisHash ELSE entries[i - 1].hash
    /\ entries[i].hash = Digest(entries[i].seq, entries[i].event, entries[i].prev)

VerifyIntegrity == \A i \in DOMAIN entries : EntryVerifies(i)
=============================================================================
