---------------------------- MODULE HostingTools ----------------------------
(***************************************************************************)
(* The tools of src/index.ts for snapshots, restores, Functions and        *)
(* temporary VMs.                                                          *)
(***************************************************************************)
EXTENDS ToolRows

\* Snapshots; listing them advances a pending rollback.
SnapshotTools ==
  Each({"create_snapshot", "rollback_snapshot"}, Post)
  @@ [list_snapshots |-> Changes("alters") @@ Get,
      delete_snapshot |-> Delete]

\* Firecracker snapshots and restore points.
FirecrackerSnapshots ==
  Each({"list_firecracker_snapshots", "get_restore_status", "list_restore_points"}, Get)
  @@ [create_firecracker_snapshot |-> Changes("adds") @@ Post,
      rollback_firecracker_snapshot |-> Post,
      delete_firecracker_snapshot |-> Delete]

\* A whole server restored: quoted, compared with the approved total, confirmed.
ServerRestore ==
  [request_restore |-> FTT @@ MayKey @@ Asks @@ QuotesFirst @@ Pays @@ Post]

\* Browsing a restore point's files starts queued work.
RestoreFileTools ==
  [list_restore_file_points |-> TFT @@ Fitted @@ Get,
   browse_restore_files |-> FFT @@ Keyed @@ LooksFirst @@ Fitted @@ Changes("adds") @@ Post]

\* Listing Functions repairs their billing anchor.
FunctionReads ==
  [get_restore_file_browse |-> TFT @@ Fitted @@ Get,
   get_guest_agent_status |-> Get,
   list_functions |-> Changes("adds") @@ Get]

\* Functions; creating one makes a key of its own when none is given.
FunctionTools ==
  [list_function_history |-> TFT @@ Get,
   get_function |-> Changes("adds") @@ Get,
   create_function |-> FFT @@ MayKey @@ Changes("adds") @@ Post,
   update_function |-> FT @@ Post,
   delete_function |-> FT @@ Delete]

\* Runs, billed by use.
FunctionInvocations ==
  Each({"list_function_invocations", "get_function_invocation"}, Get)
  @@ [invoke_function |-> FTT @@ MayKey @@ Pays @@ Post]

\* Temporary VMs: options and quote.
TempVmTools ==
  Each({"get_temp_vm_options", "list_temp_vms"}, TFT @@ Fitted @@ Get)
  @@ [quote_temp_vm |-> FFF @@ MayKey @@ Fitted @@ Changes("adds") @@ Post]

\* A temporary VM created at an approved price.
TempVmOrders ==
  [create_temp_vm |-> FTT @@ Keyed @@ Asks @@ Fitted @@ Pays @@ Post,
   get_temp_vm |-> TFT @@ Fitted @@ Get]

\* Destroying one: a repeat finds it gone.
TempVmDeletion ==
  [delete_temp_vm |-> FTT @@ Asks @@ Fitted @@ Delete]

HostingToolsRows ==
  SnapshotTools @@ FirecrackerSnapshots @@ ServerRestore @@ RestoreFileTools
  @@ FunctionReads @@ FunctionTools @@ FunctionInvocations @@ TempVmTools @@
  TempVmOrders @@ TempVmDeletion
=============================================================================
