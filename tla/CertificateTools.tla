-------------------------- MODULE CertificateTools --------------------------
(***************************************************************************)
(* The certificate tools of src/index.ts: free, automatic and paid.        *)
(***************************************************************************)
EXTENDS ToolRows

\* Free certificates: eligibility, a preflight POST that stores nothing, state.
FreeCertificateReads ==
  Each({"get_free_certificate_eligibility", "list_free_certificates", "get_free_certificate",
         "get_free_certificate_instruction"},
         TFT @@ Fitted @@ Get)
  @@ [preflight_free_certificate |-> TFT @@ Fitted @@ Changes("nothing") @@ Post]

\* Issuing and the aggregate action tool, which takes no key.
FreeCertificateTools ==
  [create_free_certificate |-> FFT @@ Keyed @@ Asks @@ Fitted @@ Changes("adds") @@ Post,
   download_free_certificate |-> TFT @@ Fitted @@ Get,
   manage_free_certificate |-> FTT @@ Asks @@ Fitted @@ Post]

\* One tool per action on a free certificate.
FreeCertificateActions ==
  Each({"renew_free_certificate", "recheck_free_certificate"},
         FFF @@ Asks @@ Fitted @@ Changes("adds") @@ Post)
  @@ Each({"revoke_free_certificate", "cancel_free_certificate"}, FTF @@ Asks @@ Fitted @@ Post)

\* Automatic SSL subscriptions and their quote.
AutomaticSslReads ==
  Each({"list_automatic_ssl_subscriptions", "get_automatic_ssl_subscription"},
         TFT @@ Fitted @@ Get)
  @@ [quote_automatic_ssl_subscription |-> FFT @@ Keyed @@ Fitted @@ Changes("adds") @@ Post]

\* Ordering a subscription; refreshing never repeats a provider mutation.
AutomaticSslOrders ==
  [order_automatic_ssl_subscription |-> FTT @@ Keyed @@ Asks @@ Fitted @@ Pays @@ Post,
   list_automatic_ssl_actions |-> TFT @@ Fitted @@ Get,
   refresh_automatic_ssl_subscription |-> FFT @@ Fitted @@ Changes("adds") @@ Settles @@ Post]

\* Adding a domain.
AutomaticSslDomains ==
  Each({"quote_automatic_ssl_domain", "quote_automatic_ssl_renewal"},
         FFT @@ Keyed @@ Fitted @@ Changes("adds") @@ Post)
  @@ [order_automatic_ssl_domain |-> FTT @@ Keyed @@ Asks @@ Fitted @@ Pays @@ Post]

\* Renewal and the aggregate action tool.
AutomaticSslRenewals ==
  [order_automatic_ssl_renewal |-> FTT @@ Keyed @@ Asks @@ Fitted @@ Pays @@ Post,
   manage_automatic_ssl_subscription |-> FTT @@ Keyed @@ Asks @@ Fitted @@ Post]

\* One tool per action on a subscription.
AutomaticSslActions ==
  Each({"cancel_automatic_ssl_subscription", "remove_automatic_ssl_domain",
         "replace_automatic_ssl_domain"},
         FTT @@ Keyed @@ Asks @@ Fitted @@ Post)

\* Paid certificates: catalogue, state, quote.
CertificateCatalog ==
  Each({"list_certificate_catalog", "get_certificate_catalog_product", "list_certificates",
         "get_certificate"},
         TFT @@ Fitted @@ Get)
  @@ [quote_certificate |-> FFT @@ Keyed @@ Fitted @@ Changes("adds") @@ Post]

\* Ordering, validation and download.
CertificateOrders ==
  Each({"get_certificate_validation", "download_certificate", "list_certificate_actions"},
         TFT @@ Fitted @@ Get)
  @@ [order_certificate |-> FTT @@ Keyed @@ Asks @@ Fitted @@ Pays @@ Post]

\* Refreshing, the aggregate action tool and one tool per action.
CertificateActions ==
  Each({"manage_certificate", "cancel_certificate", "change_certificate_validation",
         "reissue_certificate"},
         FTT @@ Keyed @@ Asks @@ Fitted @@ Post)
  @@ Each({"recheck_certificate_validation", "resend_certificate_validation"},
         FFT @@ Keyed @@ Asks @@ Fitted @@ Changes("adds") @@ Post)
  @@ [refresh_certificate |-> FFT @@ Fitted @@ Changes("adds") @@ Settles @@ Post]

CertificateToolsRows ==
  FreeCertificateReads @@ FreeCertificateTools @@ FreeCertificateActions @@
  AutomaticSslReads @@ AutomaticSslOrders @@ AutomaticSslDomains @@
  AutomaticSslRenewals @@ AutomaticSslActions @@ CertificateCatalog @@
  CertificateOrders @@ CertificateActions
=============================================================================
