----------------------------- MODULE ToolPolicy -----------------------------
(***************************************************************************)
(* What a connection is told about the tools and which of them it can use: *)
(* the annotations filled in for the local server (stdio) and computed for *)
(* the hosted ones (directory, orders), and the scope each tool needs      *)
(* (src/remote-policy.ts). ScopeRules says which scopes pass for which.    *)
(*                                                                         *)
(* Not here: the hosted schemas that refuse credentials in arguments, and  *)
(* ordersAvailable, which RemoteAccess models.                             *)
(***************************************************************************)
EXTENDS ServiceTools, ApplicationTools, CertificateTools, DomainTools, HostingTools,
        NetworkingTools, HostedTools, ScopeRules

ProfileNames == {"stdio", "directory", "orders"}

AllTools ==
  ServiceToolsRows @@ ApplicationToolsRows @@ CertificateToolsRows @@ DomainToolsRows
  @@ HostingToolsRows @@ NetworkingToolsRows @@ HostedToolsRows

Without(f, names) == [t \in DOMAIN f \ names |-> f[t]]

-----------------------------------------------------------------------------
(* The scope each tool needs.                                              *)

readServices ==
  {"get_guest_nameservers", "get_service_rescue", "get_guest_agent_status", "get_plan_options",
   "get_plan_resources", "calculate_plan_change", "get_period_options", "list_restore_points",
   "list_restore_file_points", "browse_restore_files", "get_restore_file_browse",
   "list_services", "get_service", "get_service_graphs", "get_service_history", "get_hostname",
   "get_title", "get_rdns", "get_os_options", "get_backup_status", "get_backup_history",
   "list_snapshots", "list_firecracker_snapshots", "get_firecracker_backup_status",
   "get_firecracker_backup_history", "get_event", "wait_for_event"}
manageServices ==
  {"set_guest_nameservers", "suspend_service", "resume_service", "flush_iptables", "toggle_ipv6",
   "toggle_extra_settings", "start_service", "stop_service", "restart_service",
   "change_hostname", "reset_hostname", "change_title", "change_rdns", "clear_rdns"}
restoreServices ==
  {"rollback_snapshot", "delete_snapshot", "rollback_firecracker_snapshot",
   "delete_firecracker_snapshot"}
readApps ==
  {"list_application_registry_credentials", "get_application_data_restore",
   "list_application_catalog", "list_service_applications", "get_application_installation",
   "get_application_server_routes", "get_application_events", "get_application_health",
   "get_application_logs", "get_application_inspection", "get_application_recipe_validation",
   "get_service_container_discovery", "list_application_recipes",
   "list_application_recipe_revisions", "export_application_recipe",
   "discover_service_containers", "get_application_compose_adoption"}
manageApps ==
  {"configure_application_resource_thresholds", "validate_application_recipe",
   "install_application_recipe", "prepare_application_compose_adoption",
   "confirm_application_compose_adoption", "install_application",
   "configure_application_access", "configure_application_server_routes", "manage_application",
   "reconcile_application", "repair_application", "restart_application", "start_application",
   "stop_application", "uninstall_application", "update_application", "rollback_application",
   "cancel_application_action"}
readFunctions ==
  {"list_functions", "list_function_history", "get_function", "list_function_invocations",
   "get_function_invocation"}
readCertificates ==
  {"get_free_certificate_eligibility", "preflight_free_certificate", "list_free_certificates",
   "get_free_certificate", "get_free_certificate_instruction", "download_free_certificate",
   "list_automatic_ssl_subscriptions", "get_automatic_ssl_subscription",
   "list_automatic_ssl_actions", "list_certificates", "get_certificate",
   "get_certificate_validation", "download_certificate", "list_certificate_actions"}
manageCertificates ==
  {"create_free_certificate", "manage_free_certificate", "renew_free_certificate",
   "revoke_free_certificate", "recheck_free_certificate", "cancel_free_certificate",
   "refresh_automatic_ssl_subscription", "manage_automatic_ssl_subscription",
   "cancel_automatic_ssl_subscription", "remove_automatic_ssl_domain",
   "replace_automatic_ssl_domain", "refresh_certificate", "manage_certificate",
   "cancel_certificate", "recheck_certificate_validation", "resend_certificate_validation",
   "change_certificate_validation", "reissue_certificate"}
readDomains ==
  {"list_domains", "get_domain", "list_domain_glue_records", "get_domain_parent_ds",
   "list_domain_contacts", "get_registrar_lock"}
manageDomains ==
  {"set_domain_nameservers", "create_domain_glue_record", "delete_domain_glue_record",
   "add_domain_parent_ds", "delete_domain_parent_ds", "create_domain_contact",
   "update_domain_contact", "delete_domain_contact"}
readDns ==
  {"list_service_dns_options", "list_dns_zones", "get_dns_zone", "get_dns_zone_diagnostics",
   "export_dns_zone", "list_dns_templates", "get_dnssec", "get_dns_service_status",
   "get_dns_zone_history", "list_ddns_tokens"}
writeDns ==
  {"attach_service_dns_record", "create_dns_zone", "import_dns_zone", "apply_dns_template",
   "delete_dns_zone", "reapply_dns_zone", "verify_dns_zone", "reissue_dns_zone_verification",
   "upsert_dns_record", "update_dns_record", "delete_dns_record", "revoke_ddns_token"}
\* The directory profile leaves out what promotes an upgrade or a purchase.
sold == {"get_pricing", "get_plan_options", "get_plan_resources", "calculate_plan_change",
         "get_period_options"}

permissions == Without(
  Each(readServices, "services:read") @@ Each(manageServices, "services:manage")
  @@ Each({"enter_service_rescue", "exit_service_rescue"}, "services:rescue")
  @@ Each(restoreServices, "services:restore") @@ [reinstall_os |-> "services:reinstall"]
  @@ Each(readApps, "applications:read") @@ Each(manageApps, "applications:manage")
  @@ Each(readFunctions, "functions:read") @@ [invoke_function |-> "functions:invoke"]
  @@ Each({"create_function", "update_function", "delete_function"}, "functions:manage")
  @@ Each(readCertificates, "certificates:read")
  @@ Each(manageCertificates, "certificates:manage")
  @@ Each(readDomains, "domains:read") @@ Each(manageDomains, "domains:manage")
  @@ Each(readDns, "dns:read") @@ Each(writeDns, "dns:write") @@ [set_dnssec |-> "dnssec:manage"]
  @@ Each({"list_ssh_keys", "get_ssh_key"}, "ssh_keys:read")
  @@ Each({"create_ssh_key", "delete_ssh_key"}, "ssh_keys:manage")
  @@ Each({"deploy_ssh_key", "run_vm_command"}, "vm:exec")
  @@ Each({"get_system_status", "get_faq", "get_connected_account", "get_update_info"},
          "authenticated")
  @@ Each({"open_vm_session", "get_vm_operation", "cancel_vm_operation"}, "vm:session")
  @@ Each({"write_vm_file", "create_vm_file"}, "vm:files:write")
  @@ [read_vm_file |-> "vm:files:read", inspect_vm |-> "vm:diagnostics"]
  @@ [t \in DOMAIN NetworkingToolsRows \ NotHosted |->
        IF NetworkingToolsRows[t].reads THEN "networking:read" ELSE "networking:manage"]
  @@ Each(DOMAIN FileReads \ {"get_service_file_download_url"}, "vm:files:read")
  @@ Each(DOMAIN FileChanges, "vm:files:write"), sold)

orderPermissions ==
  Each({"get_order_plans", "get_order_options", "get_purchase_result"}, "orders:read")
  @@ Each({"quote_service_order", "confirm_service_order"}, "orders:servers")
  @@ Each({"quote_domain_register", "confirm_domain_register"}, "orders:domains")
  @@ Each({"list_domain_tlds", "check_domain_availability", "get_domain_ordering_status"},
          "domains:read")

remoteScope ==
  [directory |-> permissions, orders |-> orderPermissions @@ permissions]

-----------------------------------------------------------------------------
(* Annotations.                                                            *)

\* The local server fills in what the registration of these left out. The
\* read-only ones; the rest with their destructiveHint.
legacyReadOnlyTools ==
  {"get_account", "get_profile", "list_services", "get_service", "get_service_graphs",
   "get_event", "wait_for_event", "get_service_history", "get_rdns", "get_title",
   "get_os_options", "get_plan_options", "get_plan_resources", "calculate_plan_change",
   "get_period_options", "get_order_plans", "get_order_options", "get_backup_status",
   "get_backup_history", "list_ssh_keys", "get_ssh_key", "list_api_keys", "get_api_key",
   "get_api_key_activity", "get_api_key_inference_usage", "list_domains", "get_domain",
   "list_domain_tlds", "list_domain_glue_records", "get_domain_parent_ds",
   "check_domain_availability", "get_domain_ordering_status", "list_domain_contacts",
   "get_registrar_lock", "list_service_dns_options", "list_firecracker_snapshots",
   "get_restore_status", "list_restore_points", "get_guest_agent_status",
   "list_function_invocations", "get_function_invocation", "list_dns_zones", "get_dns_zone",
   "get_dns_zone_diagnostics", "export_dns_zone", "list_dns_templates", "get_dnssec",
   "get_dns_service_status", "get_dns_zone_history", "list_ddns_tokens", "list_invoices",
   "get_invoice", "list_payments", "get_login_history", "get_management_history",
   "get_usage_statements", "get_pricing", "get_system_status", "get_faq"}
legacyWriteDestructive ==
  Each({"list_functions", "get_function", "start_service", "console_service", "resume_service",
        "create_ssh_key", "quote_domain_register", "quote_domain_transfer", "quote_domain_renew",
        "quote_domain_restore", "create_firecracker_snapshot", "create_ddns_token"}, FALSE)
  @@ Each({"list_snapshots", "get_hostname", "stop_service", "restart_service",
        "suspend_service", "change_hostname", "reset_hostname", "change_root_password",
        "flush_iptables", "change_title", "toggle_ipv6", "toggle_extra_settings",
        "deploy_ssh_key", "change_plan", "set_auto_renew", "renew_service", "create_backup",
        "delete_ssh_key", "create_domain_contact", "update_domain_contact",
        "delete_domain_contact", "set_domain_auto_renew", "create_snapshot",
        "rollback_snapshot", "delete_snapshot", "rollback_firecracker_snapshot",
        "delete_firecracker_snapshot", "reissue_dns_zone_verification", "revoke_ddns_token"},
        TRUE)

\* What a client assumes of an annotation that is missing (MCP).
Missing == [readOnly |-> FALSE, destructive |-> TRUE, idempotent |-> FALSE]

\* What installToolTitles makes of the annotations stated for a tool.
LocalHints(t, stated) ==
  stated
  @@ (CASE t \in legacyReadOnlyTools -> TF
        [] t \in DOMAIN legacyWriteDestructive ->
             [hints |-> [readOnly |-> FALSE, destructive |-> legacyWriteDestructive[t]]]
        [] OTHER -> [hints |-> <<>>]).hints
  @@ Missing

additiveTools ==
  {"create_vm_file", "start_service", "resume_service", "create_function", "create_ssh_key",
   "create_domain_contact", "create_domain_glue_record", "add_domain_parent_ds",
   "create_free_certificate", "open_vm_session", "validate_application_recipe",
   "prepare_application_compose_adoption"}

\* Slip: setting nameservers is taken for deduplicated by its optional key.
deduplicatedTools_Nameservers ==
  {"run_vm_command", "inspect_vm", "read_vm_file", "write_vm_file", "create_vm_file",
   "cancel_vm_operation", "create_function", "invoke_function", "confirm_service_order",
   "confirm_domain_register", "set_domain_nameservers"}
deduplicatedTools ==
  {"run_vm_command", "inspect_vm", "read_vm_file", "write_vm_file", "create_vm_file",
   "cancel_vm_operation", "create_function", "invoke_function", "confirm_service_order",
   "confirm_domain_register"}

\* Reading scopes, but the call queues durable work.
queuedReadTools ==
  {"browse_restore_files", "inspect_vm", "read_vm_file", "get_application_health",
   "get_application_logs", "discover_service_containers"}

\* Slip: the correction of reads that also repair something is lost.
hostedReconciliationEffects_Lost == [create_domain_contact |-> TRUE]
hostedReconciliationEffects ==
  [list_snapshots |-> TRUE, get_hostname |-> TRUE, list_functions |-> FALSE,
   get_function |-> FALSE, create_domain_contact |-> TRUE]

\* The tools named quote_* that have a permission.
quoteTools == {"quote_service_order", "quote_domain_register"}

\* What installRemotePolicy makes of them for a tool that needs this scope:
\* later corrections stand to the left.
RemoteHints(t, required, stated) ==
  LET readOnly == /\ t \notin queuedReadTools
                  /\ required \in ReadScopes \cup {"authenticated", "vm:diagnostics"}
      When(c, hints) == IF c THEN hints ELSE <<>>
  IN When(t \in deduplicatedTools, [idempotent |-> TRUE])
     @@ When(t \in DOMAIN hostedReconciliationEffects,
             [readOnly |-> FALSE, destructive |-> hostedReconciliationEffects[t]])
     @@ When(readOnly, [readOnly |-> TRUE, destructive |-> FALSE])
     @@ When(t \in {"confirm_domain_register", "confirm_service_order"}, [destructive |-> TRUE])
     @@ When(t \in quoteTools, [readOnly |-> FALSE, destructive |-> FALSE])
     @@ stated
     @@ [readOnly |-> readOnly, destructive |-> ~readOnly /\ t \notin additiveTools,
         idempotent |-> readOnly \/ t \in deduplicatedTools]

-----------------------------------------------------------------------------
(* What a connection has: the tools of its profile and how they are        *)
(* described.                                                              *)

hostedOnly == DOMAIN VmTools \cup DOMAIN OrderTools

\* Run with a key and an acknowledgement the local schema leaves optional.
HostedRow(t, row) ==
  (IF t \in {"create_function", "invoke_function"} THEN Keyed ELSE <<>>)
  @@ (IF t \in {"invoke_function", "confirm_domain_register"} THEN Asks ELSE <<>>)
  @@ row

Names(p) == IF p = "stdio" THEN DOMAIN AllTools \ hostedOnly
                           ELSE DOMAIN AllTools \cap DOMAIN remoteScope[p]

ToolsOf ==
  LET rows == AllTools
  IN [p \in ProfileNames |->
       [t \in Names(p) |-> IF p = "stdio" THEN rows[t] ELSE HostedRow(t, rows[t])]]
AdvertisedBy ==
  LET rows == AllTools
      scopeOf == remoteScope
  IN [p \in ProfileNames |->
       [t \in Names(p) |-> IF p = "stdio" THEN LocalHints(t, rows[t].hints)
                           ELSE RemoteHints(t, scopeOf[p][t], rows[t].hints)]]

\* Registered only for a connection that may call them.
orderTools == DOMAIN orderPermissions

-----------------------------------------------------------------------------
(* What the catalogue is not held to.                                      *)

\* Any vm scope lets a connection cancel the operations of its own session.
ownWork == {"cancel_vm_operation"}

\* Called idempotent though a call without its optional key is a new one, and
\* the file changes whose poll can answer that a read may be retried.
openRepeats ==
  {"request_restore", "create_function", "invoke_function", "manage_free_certificate",
   "create_service_directory", "extract_service_file_archive", "move_service_file",
   "delete_service_files", "write_service_file"}
=============================================================================
