--------------------------- MODULE VerifiableIndex ---------------------------
(***************************************************************************)
(* What the index of a match broker promises to those who follow its       *)
(* roots: an entry that is accepted is new at the end or takes the place of*)
(* an old one, none moves or is dropped, and every root is of the entries  *)
(* there are.  Entries are accepted one at a time; one that fails is in the*)
(* index all the same, but in no root before the next.                     *)
(***************************************************************************)
EXTENDS Naturals, Sequences

CONSTANT Leaves       \* the leaves there may ever be

VARIABLES
    entries,          \* the leaves of the index
    accepting,        \* whether an entry was accepted that still waits for its root
    published         \* the lists of leaves whose roots were published

Init == entries = <<>> /\ ~ accepting /\ published = <<>>

Accept ==
    /\ ~ accepting
    /\ accepting'
    /\ \E leaf \in Leaves :
           \/ entries' = Append(entries, leaf)
           \/ \E i \in DOMAIN entries : entries' = [entries EXCEPT ![i] = leaf]
    /\ UNCHANGED published

Fail == accepting /\ ~ accepting' /\ UNCHANGED <<entries, published>>

Publish ==
    /\ published' = Append(published, entries)
    /\ ~ accepting'
    /\ UNCHANGED entries

Next == Accept \/ Fail \/ Publish

Spec == Init /\ [][Next]_<<entries, accepting, published>>

=============================================================================
