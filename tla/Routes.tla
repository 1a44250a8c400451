------------------------------- MODULE Routes -------------------------------
(* The routes of the HTTP interface, one table for each router of the api   *)
(* crate: what each handler asks of a request before it calls its service.  *)
(*                                                                          *)
(*   changes     the method is not GET, HEAD or OPTIONS                     *)
(*   who         "anyone", "principal" (a user or an API key) or "user"     *)
(*   scopes      an API key must hold one of them; {}: not asked here       *)
(*   pinned      a key of one system is refused for another one here        *)
(*   level       whose permission is asked: none, of the instance, of the   *)
(*               account named in the path, of the caller's own account, of *)
(*               the system named in the path, or of both ("path")          *)
(*   permission  the permission asked at that level                         *)
(*   checks      where the handler itself refuses an incomplete request:    *)
(*               before or after it authorised it                           *)
(*   entry       a stale session cookie does not keep a request out         *)
(*   hidden      a system nobody registered is answered as forbidden        *)
(*                                                                          *)
(* What the services then do is modelled in the modules of each component.  *)
(* The telemetry and forecasting routers are offered by the crate; the      *)
(* server does not mount them.                                              *)

\* A route that asks for nothing, and those that ask for a permission.
Open(method) ==
  [changes |-> method # "GET", who |-> "anyone", scopes |-> {}, pinned |-> FALSE,
   level |-> "none", permission |-> "none", checks |-> {}, hidden |-> FALSE, entry |-> FALSE]
Entry(method) == [Open(method) EXCEPT !.entry = TRUE]
Asks(method, level, permission) ==
  [Open(method) EXCEPT !.who = "principal", !.level = level, !.permission = permission]
AsksUser(method, level, permission) ==
  [Asks(method, level, permission) EXCEPT !.who = "user"]

HealthRoutes == [live |-> Open("GET"), version |-> Open("GET")]
ReadinessRoutes ==
  [ready |-> Open("GET"), dependencies |-> Open("GET"),
   job_lag |-> Open("GET"), storage_integrity |-> Open("GET")]

SystemRoutes ==
  LET reads == [Asks("GET", "system", "system_read") EXCEPT !.scopes = {"systems_read"}]
      writes(method) == [Asks(method, "system", "system_manage") EXCEPT
                           !.scopes = {"systems_write"}, !.checks = {"after"}]
  IN  [read |-> reads, update |-> writes("PUT"), remove |-> writes("DELETE"),
       archive |-> writes("POST"), restore |-> writes("POST"),
       create |-> [Asks("POST", "own", "system_manage") EXCEPT !.scopes = {"systems_write"}]]

InverterRoutes ==
  LET writes(method) == [Asks(method, "system", "system_manage") EXCEPT
                           !.scopes = {"systems_write"}, !.hidden = TRUE]
  IN  [list |-> [Asks("GET", "system", "system_read") EXCEPT
                   !.scopes = {"systems_read"}, !.hidden = TRUE],
       create |-> writes("POST"), update |-> writes("PUT"), remove |-> writes("DELETE")]

TelemetryRoutes ==
  LET writes(method, checks) == [Asks(method, "system", "telemetry_write") EXCEPT
                                   !.scopes = {"telemetry_write"}, !.pinned = TRUE, !.checks = checks]
  IN  [single |-> writes("POST", {"after"}), batch |-> writes("POST", {"after"}),
       correct |-> writes("PATCH", {}), remove |-> writes("DELETE", {"before"})]

ReportingRoutes ==
  [overview |-> Asks("GET", "system", "system_read"),
   statistics |-> Asks("GET", "system", "telemetry_read"),
   seasonal |-> Asks("GET", "system", "telemetry_read"),
   weather_forecast |-> Asks("GET", "system", "telemetry_read")]

\* The same handlers serve an account and a system within it.
ForecastRoutes ==
  LET reads == [Asks("GET", "path", "system_read") EXCEPT !.scopes = {"systems_read"}]
  IN  [settings |-> reads, input_completeness |-> reads,
       account_settings |-> [reads EXCEPT !.level = "account", !.permission = "account_read"]]
ForecastWrites ==
  LET writes == [Asks("PUT", "path", "system_manage") EXCEPT
                   !.scopes = {"systems_write"}, !.checks = {"before", "after"}]
  IN  [update_settings |-> writes,
       update_account |-> [writes EXCEPT !.level = "account", !.permission = "account_manage"]]
ForecastSeries ==
  LET series == [Asks("GET", "path", "system_read") EXCEPT
                   !.scopes = {"systems_read"}, !.checks = {"after"}]
  IN  [forecast_runs |-> series, yield_series |-> series, performance_series |-> series]

NotificationRoutes ==
  LET reads == Asks("GET", "account", "account_read")
      writes(method) == Asks(method, "account", "integration_manage")
  IN  [list_alerts |-> reads, create_alert |-> writes("POST"), update_alert |-> writes("PATCH"),
       delete_alert |-> writes("DELETE"), list_events |-> reads, list_webhooks |-> reads,
       create_webhook |-> writes("POST")]
DeliveryRoutes ==
  LET writes(method) == Asks(method, "account", "integration_manage")
  IN  [verify_webhook |-> writes("POST"), delete_webhook |-> writes("DELETE"),
       attempts |-> Asks("GET", "account", "account_read"),
       replay |-> writes("POST")]

AdministrationRoutes ==
  LET reads == Asks("GET", "instance", "instance_manage")
      writes(method) == Asks(method, "instance", "instance_manage")
  IN  [weather_feed |-> reads, save_weather_feed |-> writes("PUT"), test_weather_feed |-> writes("POST"),
       email |-> reads, save_email |-> writes("PUT"), test_email |-> writes("POST"),
       retention_backup |-> reads, save_retention_backup |-> writes("PUT"), run_backup |-> writes("POST")]
ConnectorRoutes == [list |-> Asks("GET", "instance", "instance_manage")]
AuditRoutes == [account_audit |-> Asks("GET", "account", "audit_read")]

RoleLists ==
  [instance_roles |-> AsksUser("GET", "instance", "role_manage"),
   instance_assignments |-> [AsksUser("GET", "instance", "role_manage") EXCEPT !.checks = {"after"}],
   assign_instance_role |-> AsksUser("POST", "instance", "role_manage"),
   assignments |-> [Asks("GET", "account", "role_manage") EXCEPT !.checks = {"after"}],
   roles |-> Asks("GET", "account", "role_manage")]
RoleWrites ==
  [create_role |-> AsksUser("POST", "account", "role_manage"),
   update_role |-> AsksUser("PATCH", "account", "role_manage"),
   delete_role |-> AsksUser("DELETE", "account", "role_manage"),
   assign_role |-> AsksUser("POST", "account", "role_manage"),
   revoke_assignment |-> AsksUser("DELETE", "account", "role_manage")]

UserRoutes ==
  LET admin(method) == Asks(method, "instance", "instance_manage")
  IN  [list_users |-> admin("GET"), create_user |-> admin("POST"), invite_user |-> admin("POST"),
       register |-> Entry("POST"), accept_invitation |-> Entry("POST"),
       activate_user |-> admin("POST"), disable_user |-> admin("POST"),
       unlock_user |-> admin("POST"), delete_user |-> admin("DELETE")]
ProfileRoutes ==
  [own_profile |-> AsksUser("GET", "none", "none"), update_own_profile |-> AsksUser("PUT", "none", "none")]
PasswordRoutes ==
  [set_initial_password |-> Asks("POST", "instance", "instance_manage"),
   change_password |-> AsksUser("PUT", "none", "none"),
   request_recovery |-> Entry("POST"), complete_recovery |-> Open("POST")]
SessionRoutes == [session |-> Entry("GET"), login |-> Entry("POST"), logout |-> Open("POST")]
IdentityRoutes == [list |-> AsksUser("GET", "none", "none")]

ApiKeyRoutes ==
  LET own(method) == AsksUser(method, "own", "credential_manage")
  IN  [issue |-> [own("POST") EXCEPT !.checks = {"after"}], list |-> own("GET"), revoke |-> own("DELETE")]

CatalogRoutes ==
  LET reads == [Asks("GET", "none", "none") EXCEPT !.scopes = {"systems_read"}]
  IN  [list_inverters |-> reads, inverter |-> reads, list_solar_modules |-> reads, solar_module |-> reads]
GeocodingRoutes ==
  [search |-> [Asks("GET", "none", "none") EXCEPT
                 !.scopes = {"systems_read", "systems_write"}, !.checks = {"after"}]]
DashboardRoutes == [dashboard |-> Asks("GET", "none", "none")]

\* What a route may ask of a request.
Table(routes) == {routes[name] : name \in DOMAIN routes}
Guards ==
  UNION {Table(HealthRoutes), Table(ReadinessRoutes), Table(SystemRoutes), Table(InverterRoutes),
         Table(TelemetryRoutes), Table(ReportingRoutes), Table(ForecastRoutes), Table(ForecastWrites),
         Table(ForecastSeries), Table(NotificationRoutes), Table(DeliveryRoutes),
         Table(AdministrationRoutes), Table(ConnectorRoutes), Table(AuditRoutes), Table(RoleLists),
         Table(RoleWrites), Table(UserRoutes), Table(ProfileRoutes), Table(PasswordRoutes),
         Table(SessionRoutes), Table(IdentityRoutes), Table(ApiKeyRoutes), Table(CatalogRoutes),
         Table(GeocodingRoutes), Table(DashboardRoutes)}
IngestionGuards == {TelemetryRoutes["single"], TelemetryRoutes["batch"]}
=============================================================================
