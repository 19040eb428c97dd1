------------------------------ MODULE DataDir -------------------------------
(***************************************************************************)
(* A data dir from process to process: Store::open with check_format, and  *)
(* node_key (store.rs), as ClientBuilder::build calls them (client.rs).    *)
(* One process at a time has the dir open (DataDirInUse). The database is  *)
(* sealed with a storage key or plain.                                     *)
(***************************************************************************)
EXTENDS Naturals, FiniteSets

CONSTANTS
    Key,   \* storage keys
    NoKey  \* encrypted_storage is not asked for, or no fingerprint is saved

ASSUME DataDirAssumption == NoKey \notin Key

VARIABLES
    format,       \* META FORMAT: whether the database is marked as sealed
    fingerprint,  \* META FINGERPRINT: the key it is sealed with
    nodeKeys,     \* META node_key: under which keys there is one
    sealers,      \* under which keys (or none) there are records at all
    boot,         \* how far the process is
    key           \* the key it was started with

dirVars == <<format, fingerprint, nodeKeys, boot, key>>

DirInit ==
    /\ format = FALSE /\ fingerprint = NoKey
    /\ nodeKeys = {} /\ sealers = {}
    /\ boot = "down" /\ key = NoKey

Boot(at) == boot' = at

\* check_format refuses a process that comes with k ...
Refuses(k) ==
    \/ k = NoKey /\ (format \/ fingerprint # NoKey)
    \/ k # NoKey /\ fingerprint \notin {NoKey, k}
    \/ k # NoKey /\ ~format /\ sealers # {}

\* ... and marks a database that is new to the key.
SetsUp(k) == k # NoKey /\ ~format

Open(k) ==
    /\ boot = "down"
    /\ ~Refuses(k)
    /\ key' = k
    /\ Boot(IF SetsUp(k) THEN "fingerprint" ELSE "node")
    /\ UNCHANGED <<format, fingerprint, nodeKeys>>

\* (mutant: the mark before the fingerprint)
MarkFirst ==
    \/ /\ boot = "fingerprint" /\ Boot("format")
       /\ format' = TRUE
       /\ UNCHANGED <<fingerprint, nodeKeys, key>>
    \/ /\ boot = "format" /\ Boot("node")
       /\ fingerprint' = key
       /\ UNCHANGED <<format, nodeKeys, key>>

\* Two transactions; the process may stop between them.
Mark ==
    \/ /\ boot = "fingerprint" /\ Boot("format")
       /\ fingerprint' = key
       /\ UNCHANGED <<format, nodeKeys, key>>
    \/ /\ boot = "format" /\ Boot("node")
       /\ format' = TRUE
       /\ UNCHANGED <<fingerprint, nodeKeys, key>>

\* node_key: an own node's identity is made once. A node on the application's
\* endpoint has its identity from there.
Bind ==
    /\ boot = "node" /\ Boot("up")
    /\ nodeKeys' \in {nodeKeys, nodeKeys \cup {key}}
    /\ UNCHANGED <<format, fingerprint, key>>

DirStep == Mark \/ Bind \/ \E k \in Key \cup {NoKey} : Open(k)

DirTypeOK ==
    /\ format \in BOOLEAN
    /\ fingerprint \in Key \cup {NoKey}
    /\ nodeKeys \subseteq Key \cup {NoKey}
    /\ sealers \subseteq Key \cup {NoKey}
    /\ boot \in {"down", "fingerprint", "format", "node", "up"}
    /\ key \in Key \cup {NoKey}

\* "A database is either sealed or plain, never a mix" (store.rs:19): whoever
\* wrote the records can open the dir again, wherever the process stopped, and
\* whoever opens it can read all of them.
RecordsOpen ==
    /\ \A k \in sealers : ~Refuses(k)
    /\ boot = "up" => sealers \subseteq {key}
=============================================================================
