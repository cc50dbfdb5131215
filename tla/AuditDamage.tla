----------------------------- MODULE AuditDamage -----------------------------
(***************************************************************************)
(* The audit trail together with what may befall it.  The entries property *)
(* hands out the live entry objects, and neither they nor the list behind  *)
(* them are protected: a field may be overwritten, an entry lost, repeated *)
(* or moved.  Whoever does so does not compute digests; an overwritten     *)
(* link or hash holds one that is already in the trail.                    *)
(***************************************************************************)
EXTENDS AuditTrail, TagContracts, SequencesExt

CONSTANTS Names,       \* the names a caller may give a request and its session
          Characters,  \* what they consist of
          Arguments,   \* argument dictionaries, up to their hash
          Events,      \* the events that are recorded
          Metas,       \* what is stored beside them
          MaxEntries,  \* bound on the length of the trail
          MaxDamage    \* bound on the number of alterations

ASSUME BoundsAreNat == MaxEntries \in Nat /\ MaxDamage \in Nat

ASSUME NamesAreText ==
    \A x \in Names : /\ Text(x) \in Seq(Characters)
                     /\ \A y \in Names : Text(x) = Text(y) => x = y

ASSUME EventsNameRequests ==
    Events \subseteq [request : [id : Names, session : Names, tool : Names,
                                args : Arguments],
                     tier : ToolTier, verdict : Verdict]

VARIABLES
    recorded,  \* history: the entries that record_event returned
    damage     \* how many alterations there were

vars == <<entries, recorded, damage>>

Init ==
    /\ entries = <<>>
    /\ recorded = {}
    /\ damage = 0

Record ==
    /\ Len(entries) < MaxEntries
    /\ \E event \in Events, meta \in Metas :
           /\ RecordEvent(event, meta)
           /\ recorded' = recorded \cup {NewEntry(event, meta)}
    /\ UNCHANGED damage

Hashes == {GenesisHash} \cup {e.hash : e \in ToSet(entries)}

\* What one entry says is overwritten, in one place or in several.
Altered(e) ==
    {[e EXCEPT !.event = event] : event \in Events}
      \cup {[e EXCEPT !.meta = meta] : meta \in Metas}
      \cup {[e EXCEPT !.seq = seq] : seq \in 1 .. MaxEntries}
      \cup {[e EXCEPT !.prev = h] : h \in Hashes}
      \cup {[e EXCEPT !.hash = h] : h \in Hashes}

Damage ==
    /\ damage < MaxDamage
    /\ damage' = damage + 1
    /\ \E i \in DOMAIN entries :
           \/ \E e \in Altered(entries[i]) : entries' = ReplaceAt(entries, i, e)
           \/ entries' = RemoveAt(entries, i)
           \/ /\ Len(entries) < MaxEntries
              /\ entries' = InsertAt(entries, i, entries[i])
           \/ \E j \in DOMAIN entries :
                  entries' = [entries EXCEPT ![i] = entries[j], ![j] = entries[i]]
    /\ UNCHANGED recorded

Next == Record \/ Damage

Spec == Init /\ [][Next]_vars

-----------------------------------------------------------------------------
(* Properties *)

\* What record_event puts under the hash, and the hash.
Core(e) == [content |-> HashContent(e.seq, e.event), prev |-> e.prev,
            hash |-> e.hash]

\* No name of the event holds the separator of the fields.
Bare(text) == \A i \in DOMAIN text : text[i] # Bar

Legible(event) == /\ Bare(Text(event.request.id))
                  /\ Bare(Text(event.request.session))
                  /\ Bare(Text(event.request.tool))

\* Every entry of a trail that passes verify_integrity is one that was
\* recorded, under its number and behind an entry of the hash it was recorded
\* behind.  Its tier, verdict and arguments are those that were recorded, and
\* so are its three names, unless one of the recorded ones held the separator:
\* then only the three as they run together.  That the trail once went on
\* behind one of its entries, or went on differently, is not noticed.
GenuineIfIntact ==
    VerifyIntegrity =>
        \A i \in DOMAIN entries :
            \E r \in recorded :
                /\ Core(entries[i]) = Core(r)
                /\ Legible(r.event) => entries[i].event = r.event

\* Recording never makes an intact trail fail its verification, nor a
\* damaged one pass it.
RecordingKeepsVerdict ==
    [][recorded' # recorded => (VerifyIntegrity' <=> VerifyIntegrity)]_vars

-----------------------------------------------------------------------------
(* A claim of the documentation *)

\* gatekeeper/audit.py, AuditEntry: "Immutable audit record within the
\* tamper-evident chain".  So an entry of a trail that verifies is what was
\* recorded, the metadata (operator, feedback, reason) included.
RecordsCovered ==
    VerifyIntegrity => ToSet(entries) \subseteq recorded
=============================================================================
