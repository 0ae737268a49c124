------------------------------ MODULE KvPrefix ------------------------------
(***************************************************************************)
(* The key ranges kvgit scans for a prefix (keys and items, kvgit-ts/src/   *)
(* backends/idb.ts, prefixRange; sqlite.ts, #scan, prefixUpperBound): from  *)
(* the prefix up to the least string above every one that starts with it.   *)
(* Characters are numbers, ordered as the store orders them.                *)
(***************************************************************************)
EXTENDS Naturals, Sequences, SequencesExt

CONSTANTS
    MaxChar,        \* the greatest character: 0xFFFF in IndexedDB, U+10FFFF in SQLite
    Surrogates,  \* SQLite: what UTF-8 cannot hold, a range below MaxChar
    Replacement, \* SQLite: U+FFFD, which stands for them
    MaxLength    \* bound

Strings == BoundedSeq(0..MaxChar, MaxLength)

RECURSIVE Below(_, _)
Below(s, t) ==
    /\ t # <<>>
    /\ s = <<>> \/ Head(s) < Head(t) \/ (Head(s) = Head(t) /\ Below(Tail(s), Tail(t)))

\* The prefix without the last characters that nothing is above.
RECURSIVE Bumpable(_)
Bumpable(s) == IF s # <<>> /\ s[Len(s)] = MaxChar THEN Bumpable(Front(s)) ELSE s

Bumped(s, to) == [s EXCEPT ![Len(s)] = to]

\* IndexedDB: the next code unit.
IdbUpper(p) == LET s == Bumpable(p) IN Bumped(s, s[Len(s)] + 1)
IdbIn(p, s) == ~Below(s, p) /\ (Bumpable(p) = <<>> \/ Below(s, IdbUpper(p)))

\* SQLite: the string as it is bound, and the next code point there is.
Bound(s) == [i \in DOMAIN s |-> IF s[i] \in Surrogates THEN Replacement ELSE s[i]]
After(c) == CHOOSE d \in (c + 1)..MaxChar :
    d \notin Surrogates /\ \A e \in (c + 1)..(d - 1) : e \in Surrogates
PrefixUpperBound(p) == LET s == Bumpable(Bound(p)) IN Bumped(s, After(s[Len(s)]))
SqliteIn(p, s) ==
    /\ ~Below(Bound(s), Bound(p))
    /\ Bumpable(Bound(p)) = <<>> \/ Below(Bound(s), PrefixUpperBound(p))

\* A scan's range holds exactly the keys that start with its prefix, where
\* the last character cannot be bumped, or the next is no character, too.
RangesExact == \A p, s \in Strings :
    /\ IdbIn(p, s) <=> IsPrefix(p, s)
    /\ SqliteIn(p, s) <=> IsPrefix(Bound(p), Bound(s))
=============================================================================
