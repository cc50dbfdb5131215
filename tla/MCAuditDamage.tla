--------------------------- MODULE MCAuditDamage ---------------------------
(* Small instances of AuditDamage for TLC. *)
EXTENDS AuditDamage

CONSTANTS c, bar, a

\* A name is its text: nothing, a letter, or the separator.
MCText(name) == name

MCNames == {<<>>, <<c>>, <<bar>>}

Of(id, session, verdict) ==
    [request |-> [id |-> id, session |-> session, tool |-> <<c>>, args |-> a],
     tier |-> "L1_READ_ONLY", verdict |-> verdict]

Readable == Of(<<c>>, <<>>, "PERMITTED")

\* Two events that read the same with the separator between their names, and
\* two that are told apart by these.
MCEvents == {Readable, Of(<<>>, <<c>>, "PERMITTED"),
             Of(<<bar>>, <<>>, "PERMITTED"), Of(<<>>, <<bar>>, "PERMITTED")}

OneEvent == {Readable}
=============================================================================
