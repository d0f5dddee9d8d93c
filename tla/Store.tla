------------------------------- MODULE Store -------------------------------
(***************************************************************************)
(* The conditional writes of the key-value table every component shares    *)
(* (src/store.rs).  A row is any record with a field ver, its version; the *)
(* version 0 stands for a row that does not exist (the Option is None), so *)
(* that put(row, None) and put(row, Some(v)) are one operator.             *)
(***************************************************************************)
LOCAL INSTANCE Integers

Absent == 0

\* Mutant: tests whether the row exists and not which version it has.
MatchesExistence(stored, expected) == (stored.ver = Absent) <=> (expected = Absent)

\* The comparison of put and of each item of a transaction: a write that
\* expects version 0 inserts, any other write is a compare-and-swap.
Matches(stored, expected) == stored.ver = expected

\* The row a successful put leaves behind: its version follows from the one
\* the writer expected, never from the row it wrote.
Stored(row, expected) == [row EXCEPT !.ver = expected + 1]

\* transaction(): db maps keys to rows and writes maps the keys it touches to
\* [row, expected].  Either every condition holds and every row is written...
TransactionFits(db, writes) ==
    \A k \in DOMAIN writes : Matches(db[k], writes[k].expected)

\* ... or nothing is.
Transaction(db, writes) ==
    [k \in DOMAIN db |->
        IF k \in DOMAIN writes THEN Stored(writes[k].row, writes[k].expected)
                               ELSE db[k]]
=============================================================================
