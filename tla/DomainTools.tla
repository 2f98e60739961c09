---------------------------- MODULE DomainTools ----------------------------
(***************************************************************************)
(* The domain, DNS, billing and public tools of src/index.ts.              *)
(***************************************************************************)
EXTENDS ToolRows

\* Domains, nameservers (the key is sent only when given) and glue.
NameserverTools ==
  Each({"list_domains", "get_domain", "list_domain_tlds", "list_domain_glue_records"}, Get)
  @@ [set_domain_nameservers |-> FT @@ MayKey @@ Post,
      create_domain_glue_record |-> FTT @@ Keyed @@ Post,
      delete_domain_glue_record |-> FTT @@ Keyed @@ Delete]

\* DS records at the registry; what can be registered.
ParentDsTools ==
  Each({"get_domain_parent_ds", "check_domain_availability", "get_domain_ordering_status",
         "list_domain_contacts"},
         Get)
  @@ [add_domain_parent_ds |-> FTT @@ Keyed @@ Post,
      delete_domain_parent_ds |-> FTT @@ Keyed @@ Delete]

\* Contacts; the quotes persist an intent.
ContactTools ==
  Each({"create_domain_contact", "update_domain_contact"}, Post)
  @@ Each({"quote_domain_register", "quote_domain_transfer"}, Keyed @@ Changes("adds") @@ Post)
  @@ [delete_domain_contact |-> Delete]

\* Registration, transfer and renewal: each confirms a quote.
DomainConfirmations ==
  Each({"confirm_domain_register", "confirm_domain_transfer", "confirm_domain_renew"},
         FTT @@ Keyed @@ Pays @@ Post)
  @@ Each({"quote_domain_renew", "quote_domain_restore"}, Keyed @@ Changes("adds") @@ Post)

\* Restoring, renewal settings and a service's own records.
DomainRenewals ==
  Each({"get_registrar_lock", "list_service_dns_options"}, Get)
  @@ [confirm_domain_restore |-> FTT @@ Keyed @@ Pays @@ Post,
      set_domain_auto_renew |-> Post,
      attach_service_dns_record |-> FT @@ Post]

\* Zones.
DnsZoneTools ==
  Each({"list_dns_zones", "get_dns_zone", "get_dns_zone_diagnostics", "export_dns_zone"}, Get)
  @@ [create_dns_zone |-> FT @@ Post]

\* Records replaced in bulk.
DnsImportTools ==
  Each({"import_dns_zone", "apply_dns_template"}, FT @@ Post)
  @@ [list_dns_templates |-> Get,
      delete_dns_zone |-> FT @@ Delete]

\* Verification and DNSSEC.
DnsVerification ==
  Each({"verify_dns_zone", "set_dnssec"}, FT @@ Post)
  @@ [reapply_dns_zone |-> FTF @@ Post,
      reissue_dns_zone_verification |-> Post,
      get_dnssec |-> Get]

\* Single records.
DnsRecordTools ==
  [upsert_dns_record |-> FT @@ Post,
   update_dns_record |-> FT @@ Put,
   delete_dns_record |-> FT @@ Delete,
   get_dns_service_status |-> Get]

\* Zone history and dynamic-DNS tokens.
DdnsTools ==
  Each({"get_dns_zone_history", "list_ddns_tokens"}, Get)
  @@ [create_ddns_token |-> Changes("adds") @@ Post,
      revoke_ddns_token |-> Delete]

\* Invoices and histories.
BillingTools ==
  Each({"list_invoices", "get_invoice", "list_payments", "get_login_history",
         "get_management_history", "get_usage_statements"},
         Get)

\* Public information.
PublicReads ==
  Each({"get_pricing", "get_system_status", "get_faq"}, Get)

DomainToolsRows ==
  NameserverTools @@ ParentDsTools @@ ContactTools @@ DomainConfirmations @@
  DomainRenewals @@ DnsZoneTools @@ DnsImportTools @@ DnsVerification @@
  DnsRecordTools @@ DdnsTools @@ BillingTools @@ PublicReads
=============================================================================
