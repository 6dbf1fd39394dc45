----------------------------- MODULE SchemaUpgrade -----------------------------
(***************************************************************************)
(* What starting Core does to its database: the schema moves up one        *)
(* version at a time, each whole, and no upgrade costs a recorded row.     *)
(***************************************************************************)
EXTENDS Naturals

CONSTANTS Last,         \* the newest version
          Row           \* audit rows

VARIABLES version,      \* the migrations that have taken effect
          rows          \* the audit rows on record

Init == version \in 0..Last /\ rows \subseteq Row

Upgrade == version < Last /\ version' = version + 1 /\ UNCHANGED rows

\* Only a schema of the newest version is written to.
Store == version = Last /\ UNCHANGED version /\ \E r \in Row : rows' = rows \cup {r}

Next == Upgrade \/ Store

Spec == Init /\ [][Next]_<<version, rows>>

===============================================================================
