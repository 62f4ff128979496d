----------------------------- MODULE MCSiteDrains -----------------------------
(* Instances of SiteDrains for TLC. *)
EXTENDS SiteDrains, TLC

CONSTANTS a, b, s1, body1, body2

Cfg(primary, backup, ttl, body) ==
    [primary |-> primary, backup |-> backup, ttl |-> ttl, body |-> body]

\* Bounds for all sites alike, or smaller ones for the other sites.
TwoPublications == [s \in Sites |-> 2]
FirstSiteEdit == [s \in Sites |-> IF s = s1 THEN 2 ELSE 1]

\* One site that moves between two nodes.
MoveConfigs ==
    [s \in Sites |-> {Cfg({a}, {}, Inherit, body1), Cfg({b}, {}, Inherit, body1)}]

\* A site that edits its origin, its TTL override and its node pools.
PoolConfigs ==
    [s \in Sites |-> {Cfg({a}, {b}, Inherit, body1), Cfg({b}, {}, 1, body2)}]

\* Two sites that share node a; the first one moves away from it.
SharedConfigs ==
    [s \in Sites |-> IF s = s1
                     THEN {Cfg({a}, {}, 1, body1), Cfg({b}, {}, 1, body1)}
                     ELSE {Cfg({a}, {}, 1, body1)}]
=============================================================================
