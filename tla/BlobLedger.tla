---------------------------- MODULE BlobLedger ----------------------------
(***************************************************************************)
(* What the metadata database promises about blobs, without counting: a    *)
(* table of artifacts, a table of blob rows, and a row is forgotten only   *)
(* when no artifact refers to it.  ArtifactStore, which decides by          *)
(* ref_count <= 0, implements it.                                           *)
(***************************************************************************)
CONSTANTS Key, Digests, None
VARIABLES
    links,      \* the digest each key's artifact refers to
    rows        \* the digests that have a row
ledgerVars == <<links, rows>>

Init == links = [k \in Key |-> None] /\ rows = {}

\* An artifact is recorded together with the row of its blob.
Record(k, d) ==
    /\ links' = [links EXCEPT ![k] = d]
    /\ rows' = rows \cup {d}

\* A row is added for bytes nothing refers to.
Hand(d) == rows' = rows \cup {d} /\ UNCHANGED links

\* Any set of artifacts is removed; the rows stay for the sweeper.
Remove(K) ==
    /\ links' = [k \in Key |-> IF k \in K THEN None ELSE links[k]]
    /\ UNCHANGED rows

\* A row is forgotten only while no artifact refers to it.
Forget(d) ==
    /\ \A k \in Key : links[k] # d
    /\ rows' = rows \ {d}
    /\ UNCHANGED links

Next ==
    \/ \E k \in Key, d \in Digests : Record(k, d)
    \/ \E d \in Digests : Hand(d) \/ Forget(d)
    \/ \E K \in SUBSET Key : Remove(K)

Spec == Init /\ [][Next]_ledgerVars
============================================================================
