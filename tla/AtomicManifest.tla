-------------------------- MODULE AtomicManifest --------------------------
(* What the cache store promises its callers: operations on a device's        *)
(* manifest happen one at a time, in the order they were asked for, each at   *)
(* one instant or not at all, and what has happened survives a restart of     *)
(* the server.  ClientCacheStore implements it with a promise chain, a copy   *)
(* of the manifest in memory and a rename.                                    *)
EXTENDS CacheManifest, Sequences

CONSTANT Unreadable     \* may the manifest file fail to read?

VARIABLES manifest, requests

vars == <<manifest, requests>>

Init == manifest = EmptyManifest /\ requests = <<>>

Ask(op) == requests' = Append(requests, op) /\ UNCHANGED manifest

(* An operation starts from the manifest as it stands.  The one licence the   *)
(* code takes: when the file cannot be read the store starts from nothing.    *)
Perform ==
    /\ requests # <<>>
    /\ \E base \in {manifest} \cup (IF Unreadable THEN {EmptyManifest} ELSE {}) :
          manifest' = Stored(Head(requests), base, manifest)
    /\ requests' = Tail(requests)

Refuse == requests # <<>> /\ requests' = Tail(requests) /\ UNCHANGED manifest

Forget == requests' = <<>> /\ UNCHANGED manifest

Next == (\E op \in Op : Ask(op)) \/ Perform \/ Refuse \/ Forget

Spec == Init /\ [][Next]_vars
=============================================================================
