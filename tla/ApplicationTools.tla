-------------------------- MODULE ApplicationTools --------------------------
(***************************************************************************)
(* The application tools of src/index.ts. The two that save a recipe have a *)
(* module of their own, RecipeSave.                                        *)
(***************************************************************************)
EXTENDS ToolRows

\* The application catalogue and installations.
CatalogTools ==
  Each({"list_application_catalog", "list_service_applications", "get_application_installation"},
         TFT @@ Get)
  @@ [list_application_registry_credentials |-> TFT @@ Fitted @@ Get]

\* Resource thresholds.
ThresholdTools ==
  [configure_application_resource_thresholds |-> FTT @@ Asks @@ Put,
   get_application_events |-> TFT @@ Get]

\* Results of queued work, read by id.
InspectionReads ==
  Each({"get_application_inspection", "get_application_recipe_validation",
         "get_service_container_discovery"},
         TFT @@ Fitted @@ Get)

\* Inspections: queued by a POST and polled (runApplicationInspection).
InspectionTools ==
  Each({"get_application_health", "get_application_logs"},
         FFT @@ Fitted @@ Polls @@ Changes("adds") @@ Settles @@ Post)
  @@ [list_application_restore_points |-> TFT @@ Fitted @@ Get]

\* Restoring application data: quoted, then charged.
DataRestoreTools ==
  [quote_application_data_restore |-> FFT @@ Keyed @@ Fitted @@ Changes("adds") @@ Post,
   restore_application_data |-> FTT @@ Keyed @@ Asks @@ Fitted @@ Pays @@ Post,
   get_application_data_restore |-> TFT @@ Fitted @@ Get]

\* Recipe validation (queued, polled) and listing; saving is RecipeSave.
RecipeReads ==
  Each({"list_application_recipes", "list_application_recipe_revisions"}, TFT @@ Fitted @@ Get)
  @@ [validate_application_recipe |-> FFT @@ Fitted @@ Polls @@ Changes("adds") @@ Settles @@ Post]

\* Recipe installation and container discovery.
RecipeInstallTools ==
  [export_application_recipe |-> TFT @@ Fitted @@ Get,
   install_application_recipe |-> FFT @@ Keyed @@ Asks @@ Fitted @@ Post,
   discover_service_containers |-> FFT @@ Fitted @@ Polls @@ Changes("adds") @@ Settles @@ Post]

\* Compose adoption, prepared by queued work.
ComposeAdoptionTools ==
  [prepare_application_compose_adoption |->
     FFT @@ Fitted @@ Polls @@ Changes("adds") @@ Settles @@ Post,
   get_application_compose_adoption |-> TFT @@ Fitted @@ Get]

\* Adoption confirmed, applications installed.
InstallTools ==
  [confirm_application_compose_adoption |-> FTT @@ Keyed @@ Asks @@ Fitted @@ Post,
   install_application |-> FFT @@ Keyed @@ Asks @@ Fitted @@ Post]

\* How an application is reached.
AccessTools ==
  [configure_application_access |-> FTT @@ Keyed @@ Asks @@ Fitted @@ Post,
   get_application_server_routes |-> TFT @@ Get]

\* A server's routes, replaced as a whole.
RouteTools ==
  [configure_application_server_routes |-> FTT @@ Keyed @@ Asks @@ Fitted @@ Put]

\* The aggregate lifecycle tool and performApplicationLifecycleAction.
ManageApplication ==
  [manage_application |-> FTT @@ Keyed @@ Asks @@ Fitted @@ Post]

\* One tool per lifecycle action (applicationActionAnnotations), and cancelling.
LifecycleTools ==
  Each({"reconcile_application", "repair_application", "restart_application", "stop_application",
         "uninstall_application", "update_application", "rollback_application"},
         FTT @@ Keyed @@ Asks @@ Fitted @@ Post)
  @@ [start_application |-> FFT @@ Keyed @@ Asks @@ Fitted @@ Changes("adds") @@ Post,
      cancel_application_action |-> FTT @@ Keyed @@ Fitted @@ Post]

ApplicationToolsRows ==
  CatalogTools @@ ThresholdTools @@ InspectionReads @@ InspectionTools @@
  DataRestoreTools @@ RecipeReads @@ RecipeInstallTools @@
  ComposeAdoptionTools @@ InstallTools @@ AccessTools @@ RouteTools @@
  ManageApplication @@ LifecycleTools
=============================================================================
