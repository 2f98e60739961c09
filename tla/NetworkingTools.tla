-------------------------- MODULE NetworkingTools --------------------------
(***************************************************************************)
(* The networking tools (src/networking-tools.ts): a table of definitions, *)
(* all run by the handler of registerNetworkingTools, which passes the     *)
(* definition's own word on reading to apiRequest and states annotations   *)
(* computed from its options.                                              *)
(***************************************************************************)
EXTENDS ToolRows

\* The options of a definition: readOnly (a GET unless it says otherwise),
\* idempotent (its schema asks for a key, networkingRequest sends it), quote
\* and paid (a key too, but neither destructive nor idempotent), destructive.
Reading             == TFT @@ Get
ReadingPost         == TFT @@ CountsAsRead @@ Changes("nothing") @@ Post
Idempotent(row)     == FFT @@ Keyed @@ row
DestructiveOnce(row) == FTT @@ Keyed @@ row
Destructive(row)    == FTF @@ row
Quote               == FFF @@ Keyed @@ Changes("adds") @@ Post
Paid                == FFF @@ Keyed @@ Asks @@ Pays @@ Post

\* Answers about VPN gateways are reduced to known fields (safeVpnPayload).
SafeVpn(rows) == [t \in DOMAIN rows |-> Projected @@ rows[t]]

\* Private networks, their ports and their way out.
NetworkTools ==
  Each({"get_networking_capabilities", "get_networking_features", "get_networking_overview",
        "get_networking_topology", "list_networking_operations", "get_networking_operation",
        "list_private_networks", "get_private_network", "list_private_network_ports",
        "list_service_private_ports", "list_network_attachment_candidates",
        "get_network_vpn_summary", "get_network_routed_egress"}, Reading)
  @@ Each({"create_private_network", "attach_private_network_port"},
          Changes("adds") @@ Idempotent(Post))
  @@ Each({"delete_private_network", "detach_private_network_port"}, DestructiveOnce(Delete))
  @@ Each({"retry_private_network", "set_private_network_dns", "retry_private_network_port"},
          DestructiveOnce(Post))
  @@ [get_network_payment_methods |-> ReadingPost,
      set_private_network_names |-> Destructive(Put),
      set_network_routed_egress |-> Destructive(Post)]

\* Security groups and policies.
SecurityTools ==
  Each({"get_security_group_capabilities", "list_network_security_groups",
        "get_network_security_policy"}, Reading)
  @@ Each({"create_network_security_group", "clone_network_security_group"},
          Changes("adds") @@ Idempotent(Post))
  @@ Each({"update_network_security_group", "set_network_default_security_policy",
           "set_private_port_security_groups"}, DestructiveOnce(Put))
  @@ Each({"delete_network_security_group", "retire_network_security_policy"},
          DestructiveOnce(Delete))
  @@ [retry_network_security_policy |-> DestructiveOnce(Post)]

\* Appliances and load balancers.
LoadBalancerTools ==
  Each({"get_network_appliance_capabilities", "list_network_appliances",
        "get_network_appliance_billing", "get_network_appliance_operation",
        "list_network_load_balancers", "get_network_load_balancer"}, Reading)
  @@ Each({"add_network_load_balancer_member", "add_network_load_balancer_listener"},
          Changes("adds") @@ Idempotent(Post))
  @@ Each({"delete_network_load_balancer", "remove_network_load_balancer_member",
           "remove_network_load_balancer_listener"}, DestructiveOnce(Delete))
  @@ [estimate_network_load_balancer |-> ReadingPost]

\* VPN gateways and their peers. Two GETs hand out key material once.
VpnGatewayTools == SafeVpn(
  Each({"list_network_vpn_gateways", "get_network_vpn_gateway"}, Reading)
  @@ Each({"delete_network_vpn_gateway", "revoke_network_vpn_peer"}, DestructiveOnce(Delete))
  @@ Each({"attach_network_vpn_gateway", "detach_network_vpn_gateway", "set_vpn_server_access",
           "restart_network_vpn_gateway", "rebuild_network_vpn_gateway",
           "rotate_network_vpn_ipsec_key"}, DestructiveOnce(Post))
  @@ Each({"set_network_vpn_internet_exit", "set_network_vpn_peer_grants"}, DestructiveOnce(Put))
  @@ Each({"take_network_vpn_peer_config", "take_network_vpn_site_line_config"},
          Destructive(Asks @@ TakesOnce @@ Get))
  @@ [rename_network_vpn_gateway |-> FFF @@ Changes("adds") @@ Put,
      create_network_vpn_peer |-> Changes("adds") @@ Idempotent(Post)])

\* Site-to-site connections: health, lines, routes.
VpnSiteTools == SafeVpn(
  Each({"get_network_vpn_peer_history", "list_network_vpn_site_health_webhooks",
        "get_network_vpn_peer_recipe", "get_network_vpn_tunnel_test",
        "get_network_vpn_egress_options"}, Reading)
  @@ Each({"save_network_vpn_router_setup", "set_network_vpn_site_alert"},
          FFF @@ Changes("adds") @@ Put)
  @@ Each({"set_network_vpn_site_bgp", "set_network_vpn_site_reach", "set_network_vpn_site_options",
           "set_network_site_route_mode"}, Destructive(Put))
  @@ Each({"set_network_vpn_site_main_line", "set_network_vpn_peer_egress"}, DestructiveOnce(Put))
  @@ [create_network_vpn_site_health_webhook |-> FFF @@ Changes("adds") @@ Post,
      delete_network_vpn_site_health_webhook |-> Destructive(Delete),
      add_network_vpn_site_line |-> DestructiveOnce(Post),
      remove_network_vpn_site_second_line |-> DestructiveOnce(Delete),
      start_network_vpn_tunnel_test |-> Changes("adds") @@ Idempotent(Post)])

\* Products, orders and paid periods.
NetworkProductTools ==
  Each({"list_network_products", "list_network_product_periods", "get_network_product_order",
        "find_network_product_order"}, Reading)
  @@ Each({"quote_network_product", "quote_account_vpn", "quote_network_product_renewal"}, Quote)
  @@ Each({"order_network_product", "renew_network_product"}, Paid)
  @@ [disable_network_product_auto_renew |-> FFF @@ Changes("adds") @@ Post]
  @@ SafeVpn([quote_vpn_period_renewal |-> Quote, renew_vpn_period |-> Paid,
              disable_vpn_auto_renew |-> FFF @@ Changes("adds") @@ Post])

\* Public addresses and their bindings.
PublicAddressTools ==
  Each({"list_network_public_addresses", "get_network_public_address",
        "get_network_public_binding"}, Reading)
  @@ Each({"quote_network_public_address", "quote_public_address_renewal"}, Quote)
  @@ Each({"attach_public_address_to_network", "attach_public_address_to_server",
           "detach_network_public_address"}, Destructive(Post))
  @@ Each({"bind_network_public_ip", "move_network_public_ip"}, DestructiveOnce(Post))
  @@ [renew_network_public_address |-> Paid,
      disable_public_address_auto_renew |-> FFF @@ Changes("adds") @@ Post,
      delete_network_public_binding |-> DestructiveOnce(Delete)]

NetworkingToolsRows ==
  NetworkTools @@ SecurityTools @@ LoadBalancerTools @@ VpnGatewayTools @@ VpnSiteTools
  @@ NetworkProductTools @@ PublicAddressTools

\* The definitions whose path has a segment the hosted server leaves out
\* (products, orders, billing, quotes, renewals, payment).
NotHosted ==
  {"get_network_payment_methods", "get_network_appliance_billing",
   "estimate_network_load_balancer"} \cup DOMAIN NetworkProductTools
  \cup {"quote_network_public_address", "quote_public_address_renewal",
        "renew_network_public_address", "disable_public_address_auto_renew"}
=============================================================================
