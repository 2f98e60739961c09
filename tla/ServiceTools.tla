---------------------------- MODULE ServiceTools ----------------------------
(***************************************************************************)
(* The tools of src/index.ts about the account, services, plans, backups   *)
(* and keys. Sections follow the file's own; ToolRows says how a row reads. *)
(***************************************************************************)
EXTENDS ToolRows

\* The customer's own account.
AccountReads ==
  Each({"get_account", "get_profile"}, Get)

\* Services and the events of their actions; wait_for_event polls.
ServiceReads ==
  Each({"list_services", "get_service", "get_service_graphs", "get_event", "get_service_history"},
         Get)
  @@ [wait_for_event |-> Polls @@ Get]

\* Entering rescue mode: the status is read before the change.
RescueEntry ==
  [get_service_rescue |-> TFT @@ Fitted @@ Get,
   enter_service_rescue |-> FTT @@ Keyed @@ Asks @@ LooksFirst @@ Fitted @@ Post]

\* Leaving rescue mode.
RescueExit ==
  [exit_service_rescue |-> FTT @@ Keyed @@ Asks @@ LooksFirst @@ Fitted @@ Delete]

\* Power and suspension.
PowerTools ==
  Each({"start_service", "console_service", "resume_service"}, Changes("adds") @@ Post)
  @@ Each({"stop_service", "restart_service", "suspend_service"}, Post)

\* Names, the root password and resolvers; reading the hostname also repairs it.
IdentityTools ==
  Each({"change_hostname", "reset_hostname", "change_root_password"}, Post)
  @@ [get_hostname |-> Changes("alters") @@ Get,
      get_guest_nameservers |-> TFT @@ Get,
      set_guest_nameservers |-> FTF @@ Post,
      get_rdns |-> Get]

\* Reverse DNS, the firewall and the title.
ReverseDnsTools ==
  Each({"change_rdns", "clear_rdns"}, FT @@ Post)
  @@ Each({"flush_iptables", "change_title", "toggle_ipv6"}, Post)
  @@ [get_title |-> Get]

\* Kernel switches, keys and reinstallation; the OS options are read first.
SettingsTools ==
  Each({"toggle_extra_settings", "deploy_ssh_key"}, Post)
  @@ [get_os_options |-> Get,
      reinstall_os |-> FTF @@ LooksFirst @@ Post]

\* Plans: prices are computed by a POST that is declared a read.
PlanTools ==
  Each({"get_plan_options", "get_plan_resources", "get_period_options"}, Get)
  @@ [calculate_plan_change |-> Changes("nothing") @@ CountsAsRead @@ Post,
      change_plan |-> Pays @@ Post,
      set_auto_renew |-> Post]

\* Renewal and what can be ordered (order_service: OrderService).
RenewalTools ==
  Each({"get_order_plans", "get_order_options"}, Get)
  @@ [renew_service |-> Pays @@ Post]

\* Backups.
BackupTools ==
  Each({"get_backup_status", "get_backup_history"}, Get)
  @@ Each({"get_firecracker_backup_status", "get_firecracker_backup_history"}, TFT @@ Get)
  @@ [create_backup |-> Keyed @@ Pays @@ Post]

\* SSH keys and API keys.
KeyTools ==
  Each({"list_ssh_keys", "get_ssh_key", "list_api_keys", "get_api_key", "get_api_key_activity",
         "get_api_key_inference_usage"},
         Get)
  @@ [create_ssh_key |-> Changes("adds") @@ Post,
      delete_ssh_key |-> Delete]

ServiceToolsRows ==
  AccountReads @@ ServiceReads @@ RescueEntry @@ RescueExit @@ PowerTools @@
  IdentityTools @@ ReverseDnsTools @@ SettingsTools @@ PlanTools @@
  RenewalTools @@ BackupTools @@ KeyTools
=============================================================================
