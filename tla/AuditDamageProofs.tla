------------------------- MODULE AuditDamageProofs -------------------------
(***************************************************************************)
(* The chain notices every alteration of what it covers, for any events    *)
(* and names, any length of the trail and any number of alterations.       *)
(***************************************************************************)
EXTENDS AuditDamage, SequenceTheorems, TLAPS

Content == {HashContent(seq, event) : seq \in Nat, event \in Events}

Entry == [seq : Nat, event : Events, meta : Metas,
          prev : Seq(Content), hash : Seq(Content)]

\* Every recorded entry has the digest of its own content.
RecordedDigested ==
    recorded \subseteq {r \in Entry : r.hash = Digest(r.seq, r.event, r.prev)}

\* Nobody computes digests: whatever hash an entry has got, record_event has
\* made it for some entry.
KnownHashes == {GenesisHash} \cup {r.hash : r \in recorded}

Handled == {e \in Entry : e.hash \in KnownHashes}

DamageInv == RecordedDigested /\ entries \in Seq(Handled)

-----------------------------------------------------------------------------
(* What the hash covers. *)

\* Equal digests were computed over equal contents and links.
LEMMA DigestCovers ==
    ASSUME NEW seq1 \in Nat, NEW seq2 \in Nat, NEW event1 \in Events,
           NEW event2 \in Events, NEW prev1 \in Seq(Content),
           NEW prev2 \in Seq(Content),
           Digest(seq1, event1, prev1) = Digest(seq2, event2, prev2)
    PROVE  HashContent(seq1, event1) = HashContent(seq2, event2) /\ prev1 = prev2
    <1> DEFINE c1 == HashContent(seq1, event1)
               c2 == HashContent(seq2, event2)
    <1>1. c1 \in Content /\ c2 \in Content
        BY DEF Content
    <1>2. Append(prev1, c1) = Append(prev2, c2)
        BY DEF Digest
    <1> HIDE DEF c1, c2
    <1>3. /\ Len(prev1) \in Nat /\ Len(prev2) \in Nat
          /\ Len(Append(prev1, c1)) = Len(prev1) + 1
          /\ Len(Append(prev2, c2)) = Len(prev2) + 1
          /\ Append(prev1, c1)[Len(prev1) + 1] = c1
          /\ Append(prev2, c2)[Len(prev2) + 1] = c2
          /\ \A i \in 1 .. Len(prev1) : Append(prev1, c1)[i] = prev1[i]
          /\ \A i \in 1 .. Len(prev2) : Append(prev2, c2)[i] = prev2[i]
        BY <1>1, AppendProperties, LenProperties
    <1>4. Len(prev1) = Len(prev2) /\ c1 = c2
        BY <1>2, <1>3
    <1>5. prev1 = prev2
        BY <1>2, <1>3, <1>4, SeqEqual
    <1> QED
        BY <1>4, <1>5 DEF c1, c2

Join(x, y, z) == x \o <<Bar>> \o y \o <<Bar>> \o z

\* Where each of three joined texts is, and where the separators are.
Placed(j, x, y, z) ==
    /\ Len(x) \in Nat /\ Len(y) \in Nat /\ Len(z) \in Nat
    /\ Len(j) = Len(x) + Len(y) + Len(z) + 2
    /\ \A i \in 1 .. Len(x) : j[i] = x[i]
    /\ j[Len(x) + 1] = Bar
    /\ \A i \in 1 .. Len(y) : j[Len(x) + 1 + i] = y[i]
    /\ j[Len(x) + Len(y) + 2] = Bar
    /\ \A i \in 1 .. Len(z) : j[Len(x) + Len(y) + 2 + i] = z[i]

\* Joining puts them there.
LEMMA JoinPlaces ==
    ASSUME NEW S, NEW x \in Seq(S), NEW y \in Seq(S), NEW z \in Seq(S)
    PROVE  Placed(Join(x, y, z), x, y, z)
    BY DEF Join, Placed

\* Texts without the separator can be read off their join, whatever the texts
\* may be that join to the same.
LEMMA JoinRead ==
    ASSUME NEW S, NEW x \in Seq(S), NEW y \in Seq(S), NEW z \in Seq(S),
           NEW u \in Seq(S), NEW v \in Seq(S), NEW w \in Seq(S),
           Bare(x), Bare(y), Bare(z), Join(x, y, z) = Join(u, v, w)
    PROVE  x = u /\ y = v /\ z = w
    <1>1. PICK j : j = Join(x, y, z)
        OBVIOUS
    <1>2. PICK l, m, n : l = Len(x) /\ m = Len(y) /\ n = Len(z)
        OBVIOUS
    <1>3. PICK p, q, r : p = Len(u) /\ q = Len(v) /\ r = Len(w)
        OBVIOUS
    <1>4. /\ l \in Nat /\ m \in Nat /\ n \in Nat
          /\ Len(j) = l + m + n + 2
          /\ \A i \in 1 .. l : j[i] = x[i]
          /\ \A i \in 1 .. m : j[l + 1 + i] = y[i]
          /\ \A i \in 1 .. n : j[l + m + 2 + i] = z[i]
        <2>1. Placed(j, x, y, z)
            BY <1>1, JoinPlaces
        <2> QED
            BY <1>2, <2>1 DEF Placed
    <1>5. /\ p \in Nat /\ q \in Nat /\ r \in Nat
          /\ Len(j) = p + q + r + 2
          /\ \A i \in 1 .. p : j[i] = u[i]
          /\ j[p + 1] = Bar
          /\ \A i \in 1 .. q : j[p + 1 + i] = v[i]
          /\ j[p + q + 2] = Bar
          /\ \A i \in 1 .. r : j[p + q + 2 + i] = w[i]
        <2>1. Placed(j, u, v, w)
            BY <1>1, JoinPlaces
        <2> QED
            BY <1>3, <2>1 DEF Placed
    <1>6. (\A i \in 1 .. l : x[i] # Bar) /\ (\A i \in 1 .. m : y[i] # Bar)
          /\ (\A i \in 1 .. n : z[i] # Bar)
        <2>1. /\ DOMAIN x = 1 .. Len(x) /\ DOMAIN y = 1 .. Len(y)
              /\ DOMAIN z = 1 .. Len(z)
            BY LenProperties
        <2> QED
            BY <1>2, <2>1 DEF Bare
    <1>7. \A i \in 1 .. l + m + n + 2 : j[i] = Bar => i = l + 1 \/ i = l + m + 2
        <2> SUFFICES ASSUME NEW i \in 1 .. l + m + n + 2, i # l + 1, i # l + m + 2
                     PROVE  j[i] # Bar
            OBVIOUS
        <2>1. CASE i \in 1 .. l
            BY <1>4, <1>6, <2>1
        <2>2. CASE i - (l + 1) \in 1 .. m
            <3> DEFINE k == i - (l + 1)
            <3>1. k \in 1 .. m /\ i = l + 1 + k
                BY <1>4, <2>2
            <3> HIDE DEF k
            <3> QED
                BY <1>4, <1>6, <3>1
        <2>3. CASE i - (l + m + 2) \in 1 .. n
            <3> DEFINE k == i - (l + m + 2)
            <3>1. k \in 1 .. n /\ i = l + m + 2 + k
                BY <1>4, <2>3
            <3> HIDE DEF k
            <3> QED
                BY <1>4, <1>6, <3>1
        <2>4. i \in 1 .. l \/ i - (l + 1) \in 1 .. m \/ i - (l + m + 2) \in 1 .. n
            BY <1>4
        <2> QED
            BY <2>1, <2>2, <2>3, <2>4
    <1>8. l = p /\ m = q /\ n = r
        <2>1. /\ p + 1 \in 1 .. l + m + n + 2
              /\ p + q + 2 \in 1 .. l + m + n + 2
            BY <1>4, <1>5
        <2>2. /\ p + 1 = l + 1 \/ p + 1 = l + m + 2
              /\ p + q + 2 = l + 1 \/ p + q + 2 = l + m + 2
            BY <1>5, <1>7, <2>1
        <2>3. l + m + n + 2 = p + q + r + 2
            BY <1>4, <1>5
        <2>4. l \in Nat /\ m \in Nat /\ n \in Nat /\ p \in Nat /\ q \in Nat /\ r \in Nat
            BY <1>4, <1>5
        <2> QED
            BY <2>2, <2>3, <2>4
    <1>9. (\A i \in 1 .. l : x[i] = u[i]) /\ (\A i \in 1 .. m : y[i] = v[i])
          /\ (\A i \in 1 .. n : z[i] = w[i])
        BY <1>4, <1>5, <1>8
    <1> QED
        BY <1>2, <1>3, <1>8, <1>9, SeqEqual

\* Nothing but an event whose names hold no separator is hashed like it.
LEMMA LegibleCovered ==
    ASSUME NEW seq1, NEW seq2, NEW event1 \in Events, NEW event2 \in Events,
           HashContent(seq1, event1) = HashContent(seq2, event2), Legible(event2)
    PROVE  event1 = event2
    <1> DEFINE r1 == event1.request
               r2 == event2.request
    <1>1. /\ event1 = [request |-> r1, tier |-> event1.tier,
                       verdict |-> event1.verdict]
          /\ event2 = [request |-> r2, tier |-> event2.tier,
                       verdict |-> event2.verdict]
          /\ r1 = [id |-> r1.id, session |-> r1.session, tool |-> r1.tool,
                   args |-> r1.args]
          /\ r2 = [id |-> r2.id, session |-> r2.session, tool |-> r2.tool,
                   args |-> r2.args]
          /\ {r1.id, r1.session, r1.tool, r2.id, r2.session, r2.tool} \subseteq Names
        BY EventsNameRequests
    <1> HIDE DEF r1, r2
    <1>2. /\ JoinedNames(r2) = JoinedNames(r1)
          /\ event1.tier = event2.tier /\ event1.verdict = event2.verdict
          /\ r1.args = r2.args
        BY DEF HashContent, r1, r2
    <1>3. /\ Bare(Text(r2.id)) /\ Bare(Text(r2.session)) /\ Bare(Text(r2.tool))
        BY DEF Legible, r2
    <1>4. \A x \in {r1.id, r1.session, r1.tool, r2.id, r2.session, r2.tool} :
              Text(x) \in Seq(Characters)
        BY <1>1, NamesAreText
    <1>5. /\ Text(r2.id) = Text(r1.id) /\ Text(r2.session) = Text(r1.session)
          /\ Text(r2.tool) = Text(r1.tool)
        <2>1. JoinedNames(r1) = Join(Text(r1.id), Text(r1.session), Text(r1.tool))
            BY DEF JoinedNames, Join
        <2>2. JoinedNames(r2) = Join(Text(r2.id), Text(r2.session), Text(r2.tool))
            BY DEF JoinedNames, Join
        <2>3. /\ Text(r1.id) \in Seq(Characters) /\ Text(r2.id) \in Seq(Characters)
              /\ Text(r1.session) \in Seq(Characters)
              /\ Text(r2.session) \in Seq(Characters)
              /\ Text(r1.tool) \in Seq(Characters) /\ Text(r2.tool) \in Seq(Characters)
            BY <1>4
        <2> QED
            BY <1>2, <1>3, <2>1, <2>2, <2>3, JoinRead
    <1>6. r1.id = r2.id /\ r1.session = r2.session /\ r1.tool = r2.tool
        BY <1>1, <1>5, NamesAreText
    <1> QED
        BY <1>1, <1>2, <1>6

-----------------------------------------------------------------------------
(* What may befall the trail. *)

\* Whoever overwrites, loses, repeats or exchanges entries puts no others in.
LEMMA DamageStays ==
    ASSUME NEW S, NEW s \in Seq(S), NEW i \in DOMAIN s
    PROVE  /\ \A e \in S : ReplaceAt(s, i, e) \in Seq(S)
           /\ RemoveAt(s, i) \in Seq(S)
           /\ InsertAt(s, i, s[i]) \in Seq(S)
           /\ \A j \in DOMAIN s : [s EXCEPT ![i] = s[j], ![j] = s[i]] \in Seq(S)
    <1>1. /\ Len(s) \in Nat /\ DOMAIN s = 1 .. Len(s) /\ i \in 1 .. Len(s)
          /\ \A k \in 1 .. Len(s) : s[k] \in S
        BY LenProperties, ElementOfSeq
    <1>2. \A e \in S : ReplaceAt(s, i, e) \in Seq(S)
        BY <1>1, ExceptSeq DEF ReplaceAt
    <1>3. /\ SubSeq(s, 1, i - 1) \in Seq(S)
          /\ SubSeq(s, i, Len(s)) \in Seq(S)
          /\ SubSeq(s, i + 1, Len(s)) \in Seq(S)
        BY <1>1, SubSeqProperties
    <1>4. RemoveAt(s, i) \in Seq(S)
        BY <1>3, ConcatProperties DEF RemoveAt
    <1>5. <<s[i]>> \in Seq(S)
        BY <1>1
    <1>6. SubSeq(s, 1, i - 1) \o <<s[i]>> \in Seq(S)
        BY <1>3, <1>5, ConcatProperties
    <1>7. InsertAt(s, i, s[i]) \in Seq(S)
        BY <1>3, <1>6, ConcatProperties DEF InsertAt
    <1>8. ASSUME NEW j \in DOMAIN s
          PROVE  [s EXCEPT ![i] = s[j], ![j] = s[i]] \in Seq(S)
        <2>1. [s EXCEPT ![i] = s[j]] \in Seq(S) /\ Len([s EXCEPT ![i] = s[j]]) = Len(s)
            BY <1>1, <1>8, ExceptSeq
        <2>2. [[s EXCEPT ![i] = s[j]] EXCEPT ![j] = s[i]] \in Seq(S)
            BY <1>1, <1>8, <2>1, ExceptSeq
        <2> QED
            BY <2>2
    <1> QED
        BY <1>2, <1>4, <1>7, <1>8

\* An overwritten entry is an entry, with a hash that was there.
LEMMA AlteredHandled ==
    ASSUME DamageInv, NEW i \in DOMAIN entries, NEW e \in Altered(entries[i])
    PROVE  e \in Handled
    <1>1. \A j \in DOMAIN entries : entries[j] \in Handled
        BY DEF DamageInv
    <1>2. Hashes \subseteq KnownHashes /\ Hashes \subseteq Seq(Content)
        <2>1. \A h \in Hashes :
                  h = GenesisHash \/ \E j \in DOMAIN entries : h = entries[j].hash
            BY DEF Hashes, ToSet
        <2>2. GenesisHash \in KnownHashes /\ GenesisHash \in Seq(Content)
            BY EmptySeq DEF KnownHashes, GenesisHash
        <2>3. \A j \in DOMAIN entries :
                  entries[j].hash \in KnownHashes /\ entries[j].hash \in Seq(Content)
            BY <1>1 DEF Handled, Entry
        <2> QED
            BY <2>1, <2>2, <2>3
    <1>3. 1 .. MaxEntries \subseteq Nat
        BY BoundsAreNat
    <1>4. entries[i] \in Handled
        BY <1>1
    <1> HIDE DEF Hashes, KnownHashes
    <1> QED
        BY <1>2, <1>3, <1>4 DEF Altered, Handled, Entry

\* What record_event makes.
LEMMA NewEntryDigested ==
    ASSUME DamageInv, NEW event \in Events, NEW meta \in Metas
    PROVE  LET new == NewEntry(event, meta)
           IN new \in Entry /\ new.hash = Digest(new.seq, new.event, new.prev)
    <1>1. Len(entries) \in Nat /\ Len(entries) + 1 \in Nat
        BY LenProperties DEF DamageInv
    <1>2. HeadHash \in Seq(Content)
        <2>1. CASE entries = <<>>
            BY <2>1, EmptySeq DEF HeadHash, GenesisHash
        <2>2. CASE entries # <<>>
            <3>1. Len(entries) \in 1 .. Len(entries)
                BY <2>2, EmptySeq DEF DamageInv
            <3>2. entries[Len(entries)] \in Entry
                BY <3>1, ElementOfSeq DEF DamageInv, Handled
            <3> QED
                BY <2>2, <3>2 DEF HeadHash, Entry
        <2> QED
            BY <2>1, <2>2
    <1>3. HashContent(Len(entries) + 1, event) \in Content
        BY <1>1 DEF Content
    <1>4. Digest(Len(entries) + 1, event, HeadHash) \in Seq(Content)
        BY <1>2, <1>3, AppendProperties DEF Digest
    <1> QED
        BY <1>1, <1>2, <1>4 DEF NewEntry, Entry

LEMMA DamageInvSteps ==
    ASSUME DamageInv, [Next]_vars
    PROVE  DamageInv'
    <1>1. CASE UNCHANGED vars
        BY <1>1 DEF vars, DamageInv, RecordedDigested, Handled, KnownHashes
    <1>2. CASE Record
        <2>1. PICK event \in Events, meta \in Metas :
                  /\ entries' = Append(entries, NewEntry(event, meta))
                  /\ recorded' = recorded \cup {NewEntry(event, meta)}
            BY <1>2 DEF Record, RecordEvent
        <2> DEFINE new == NewEntry(event, meta)
        <2>2. new \in Entry /\ new.hash = Digest(new.seq, new.event, new.prev)
            BY NewEntryDigested
        <2> HIDE DEF new
        <2>3. RecordedDigested'
            BY <2>1, <2>2 DEF DamageInv, RecordedDigested, new
        <2>4. Handled \subseteq Handled' /\ new \in Handled'
            BY <2>1, <2>2 DEF Handled, KnownHashes, new
        <2>5. entries \in Seq(Handled')
            BY <2>4, SeqMonotonic DEF DamageInv
        <2>6. entries' \in Seq(Handled')
            BY <2>1, <2>4, <2>5, AppendProperties DEF new
        <2> QED
            BY <2>3, <2>6 DEF DamageInv
    <1>3. CASE Damage
        <2>1. recorded' = recorded
            BY <1>3 DEF Damage
        <2>2. \A i \in DOMAIN entries : \A e \in Altered(entries[i]) : e \in Handled
            BY AlteredHandled
        <2>3. entries \in Seq(Handled)
            BY DEF DamageInv
        <2>4. PICK i \in DOMAIN entries :
                  \/ \E e \in Altered(entries[i]) : entries' = ReplaceAt(entries, i, e)
                  \/ entries' = RemoveAt(entries, i)
                  \/ entries' = InsertAt(entries, i, entries[i])
                  \/ \E j \in DOMAIN entries :
                         entries' = [entries EXCEPT ![i] = entries[j], ![j] = entries[i]]
            BY <1>3 DEF Damage
        <2>5. /\ \A e \in Handled : ReplaceAt(entries, i, e) \in Seq(Handled)
              /\ RemoveAt(entries, i) \in Seq(Handled)
              /\ InsertAt(entries, i, entries[i]) \in Seq(Handled)
              /\ \A j \in DOMAIN entries :
                     [entries EXCEPT ![i] = entries[j], ![j] = entries[i]] \in Seq(Handled)
            <3> HIDE DEF Handled
            <3> QED
                BY <2>3, <2>4, DamageStays
        <2>6. entries' \in Seq(Handled)
            BY <2>2, <2>4, <2>5
        <2> QED
            BY <2>1, <2>6 DEF DamageInv, RecordedDigested, Handled, KnownHashes
    <1> QED
        BY <1>1, <1>2, <1>3 DEF Next

\* The invariant holds in every reachable state: no hash is in the trail that
\* record_event has not made.
LEMMA HashesRecorded == Spec => []DamageInv
    <1>1. Init => DamageInv
        BY EmptySeq DEF Init, DamageInv, RecordedDigested
    <1> QED
        BY <1>1, DamageInvSteps, PTL DEF Spec

\* Whatever befalls it and however often, every entry of a trail that verifies
\* was recorded, with its number, tier, verdict, arguments and link, and with
\* its names as far as the separator of the fields lets them be told apart.
THEOREM DamageNoticed == Spec => []GenuineIfIntact
    <1>1. ASSUME DamageInv PROVE GenuineIfIntact
        <2> SUFFICES ASSUME VerifyIntegrity, NEW i \in DOMAIN entries
                     PROVE  \E r \in recorded :
                                /\ Core(entries[i]) = Core(r)
                                /\ Legible(r.event) => entries[i].event = r.event
            BY DEF GenuineIfIntact
        <2> DEFINE e == entries[i]
        <2>1. e \in Entry /\ e.hash \in KnownHashes
            BY <1>1 DEF DamageInv, Handled
        <2>2. e.hash = Digest(e.seq, e.event, e.prev)
            BY DEF VerifyIntegrity, EntryVerifies
        <2> HIDE DEF e
        <2>3. e.seq \in Nat /\ e.event \in Events /\ e.prev \in Seq(Content)
            BY <2>1 DEF Entry
        <2>4. e.hash # GenesisHash
            <3>1. HashContent(e.seq, e.event) \in Content
                BY <2>3 DEF Content
            <3> QED
                BY <2>2, <2>3, <3>1, AppendProperties DEF Digest, GenesisHash
        <2>5. PICK r \in recorded : r.hash = e.hash
            BY <2>1, <2>4 DEF KnownHashes
        <2>6. r \in Entry /\ r.hash = Digest(r.seq, r.event, r.prev)
            BY <1>1 DEF DamageInv, RecordedDigested
        <2>7. r.seq \in Nat /\ r.event \in Events /\ r.prev \in Seq(Content)
            BY <2>6 DEF Entry
        <2>8. Digest(e.seq, e.event, e.prev) = Digest(r.seq, r.event, r.prev)
            BY <2>2, <2>5, <2>6
        <2>9. HashContent(e.seq, e.event) = HashContent(r.seq, r.event)
              /\ e.prev = r.prev
            BY <2>3, <2>7, <2>8, DigestCovers
        <2>10. Legible(r.event) => e.event = r.event
            BY <2>3, <2>7, <2>9, LegibleCovered
        <2> QED
            BY <2>5, <2>9, <2>10 DEF Core, e
    <1> QED
        BY HashesRecorded, <1>1, PTL

\* record_event leaves the verdict of verify_integrity as it finds it.
THEOREM VerdictKept == Spec => RecordingKeepsVerdict
    <1>1. ASSUME DamageInv, [Next]_vars, recorded' # recorded
          PROVE  VerifyIntegrity' <=> VerifyIntegrity
        <2>1. Record
            BY <1>1 DEF Next, Damage, vars
        <2>2. PICK event \in Events, meta \in Metas :
                  entries' = Append(entries, NewEntry(event, meta))
            BY <2>1 DEF Record, RecordEvent
        <2> DEFINE new == NewEntry(event, meta)
        <2>3. /\ new.prev = HeadHash
              /\ new.hash = Digest(new.seq, new.event, new.prev)
            BY DEF NewEntry
        <2> HIDE DEF new
        <2>4. entries \in Seq(Handled \cup {new})
            BY <1>1, SeqMonotonic DEF DamageInv
        <2>5. PICK n : n = Len(entries)
            OBVIOUS
        <2>6. /\ n \in Nat
              /\ DOMAIN entries = 1 .. n
              /\ DOMAIN entries' = 1 .. (n + 1)
              /\ \A i \in 1 .. n : entries'[i] = entries[i]
              /\ entries'[n + 1] = new
            BY <2>2, <2>4, <2>5, AppendProperties, LenProperties DEF new
        <2>7. n = 0 <=> entries = <<>>
            BY <2>4, <2>5, EmptySeq
        <2>8. \A i \in 1 .. n : EntryVerifies(i)' <=> EntryVerifies(i)
            <3> SUFFICES ASSUME NEW i \in 1 .. n
                         PROVE  EntryVerifies(i)' <=> EntryVerifies(i)
                OBVIOUS
            <3>1. i = 1 \/ i - 1 \in 1 .. n
                BY <2>6
            <3> QED
                BY <2>6, <3>1 DEF EntryVerifies
        <2>9. EntryVerifies(n + 1)'
            <3>1. new.prev = IF n + 1 = 1 THEN GenesisHash ELSE entries'[n].hash
                <4>1. CASE n = 0
                    BY <2>3, <2>7, <4>1 DEF HeadHash
                <4>2. CASE n # 0
                    <5>1. n \in 1 .. n /\ n + 1 # 1
                        BY <2>6, <4>2
                    <5> QED
                        BY <2>3, <2>5, <2>6, <2>7, <4>2, <5>1 DEF HeadHash
                <4> QED
                    BY <4>1, <4>2
            <3>2. (n + 1) - 1 = n
                BY <2>6
            <3> QED
                BY <2>3, <2>6, <3>1, <3>2 DEF EntryVerifies
        <2>10. \A i : i \in 1 .. (n + 1) <=> i \in 1 .. n \/ i = n + 1
            BY <2>6
        <2> QED
            BY <2>6, <2>8, <2>9, <2>10 DEF VerifyIntegrity
    <1> QED
        BY HashesRecorded, <1>1, PTL DEF Spec, RecordingKeepsVerdict

=============================================================================
