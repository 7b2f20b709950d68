------------------------------- MODULE Access -------------------------------
(***************************************************************************)
(* Who may call what: the roles and actions of internal/auth/rbac.go, and  *)
(* the route table of internal/api/router.go as the set of                 *)
(* <<verb, path, action>> that NewRouter puts behind the bearer token.     *)
(***************************************************************************)

Roles == {"admin", "operator", "viewer"}

readActions == {"instance.read", "backup.read", "metrics.read"}

grants == [viewer   |-> readActions,
           operator |-> readActions \cup
               {"instance.write", "instance.delete", "instance.connect",
                "backup.write", "backup.restore", "audit.read"}]

Can(role, action) == IF role = "admin" THEN TRUE ELSE action \in grants[role]

-----------------------------------------------------------------------------
RequireAction(action, verb, paths) == {<<verb, p, action>> : p \in paths}

InstanceRoutes ==
    RequireAction("instance.read", "GET", {"instances", "instances/id"})
    \cup RequireAction("instance.connect", "GET", {"instances/id/connection"})
    \cup RequireAction("instance.write", "POST",
             {"instances", "instances/id/clone", "instances/id/visibility",
              "instances/id/start", "instances/id/stop", "instances/id/restart"})
    \cup RequireAction("instance.delete", "DELETE", {"instances/id"})

ClusterRoutes ==
    RequireAction("instance.read", "GET", {"clusters", "clusters/id"})
    \cup RequireAction("instance.connect", "GET", {"clusters/id/connection"})
    \cup RequireAction("instance.write", "POST", {"clusters"})
    \cup RequireAction("instance.delete", "DELETE", {"clusters/id"})

TimescaleRoutes ==
    RequireAction("instance.read", "GET", {"hypertables", "jobs"})
    \cup RequireAction("instance.write", "POST",
             {"hypertables", "retention", "compression", "continuous-aggregates"})
    \cup RequireAction("instance.write", "DELETE", {"retention", "compression"})

RemoteRoutes ==
    RequireAction("instance.read", "GET", {"remote/backups"})
    \cup RequireAction("instance.write", "POST",
             {"remote/backups", "remote/backups/id/restore"})

\* verify is read-only on the repository, but it runs in the container.
VerifyAsRead ==
    RequireAction("backup.read", "GET", {"backups"})
    \cup RequireAction("backup.read", "POST", {"backups", "backups/verify"})
    \cup RequireAction("backup.restore", "POST", {"restore"})
    \cup RequireAction("backup.restore", "DELETE", {"backups/label"})

BackupRoutes ==
    RequireAction("backup.read", "GET", {"backups"})
    \cup RequireAction("backup.write", "POST", {"backups", "backups/verify"})
    \cup RequireAction("backup.restore", "POST", {"restore"})
    \cup RequireAction("backup.restore", "DELETE", {"backups/label"})

UserRoutes ==
    RequireAction("user.manage", "GET", {"users"})
    \cup RequireAction("user.manage", "POST",
             {"users", "users/id/disable", "users/id/enable"})

ObservabilityRoutes ==
    RequireAction("metrics.read", "GET",
        {"metrics", "metrics/name", "queries", "health", "alerts", "alert-rules",
         "events/history", "pool/stats"})
    \cup RequireAction("instance.write", "POST", {"alert-rules"})
    \cup RequireAction("instance.write", "PUT", {"alert-rules/id"})
    \cup RequireAction("instance.write", "DELETE", {"alert-rules/id"})
    \cup RequireAction("instance.read", "GET",
             {"logs", "instances/id/compose", "clusters/id/compose"})

DataPlaneRoutes ==
    RequireAction("instance.connect", "GET", {"dump"})
    \cup RequireAction("instance.connect", "POST", {"sql"})
    \cup RequireAction("instance.write", "POST", {"exec"})
    \cup RequireAction("user.manage", "GET", {"audit"})

\* Everything behind Authenticate that names an action.
Routes ==
    UserRoutes \cup InstanceRoutes \cup ClusterRoutes \cup BackupRoutes
    \cup ObservabilityRoutes \cup DataPlaneRoutes \cup TimescaleRoutes
    \cup RemoteRoutes

Admits(role, route) == Can(role, route[3])
=============================================================================
